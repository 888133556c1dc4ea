SPECIFICATION Spec
CONSTANTS
  NumBases = 2
  Paths = {"liba", "libb"}
  Syms = {"open", "exit"}
  Slots = {"open_plt", "open_got", "exit_plt"}
  Symbol <- MCSymbol
  Imports <- MCImports
  Fns = {"fopen", "fexit"}
  HookInfos <- OneEach
  IgnoreInfos <- LibIgnored
  AllSyms = AllSyms
  None = None
  MaxHooks = 2
  MaxIgnores = 1
  Allowed = {"clear", "late_ignore", "line_reuse"}
INVARIANTS
  PassHooksAll
  OldIsOriginal
