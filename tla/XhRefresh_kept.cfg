SPECIFICATION Spec
CONSTANTS
  NumBases = 2
  Paths = {"liba", "libb"}
  Syms = {"open", "exit"}
  Slots = {"open_plt", "open_got", "exit_plt"}
  Symbol <- MCSymbol
  Imports <- MCImports
  Fns = {"fopen", "fexit", "gopen"}
  HookInfos <- AllThree
  IgnoreInfos <- SomeIgnores
  AllSyms = AllSyms
  None = None
  MaxHooks = 2
  MaxIgnores = 1
  Allowed = {"late_register", "reload", "line_reuse", "fail"}
INVARIANTS
  CallsReachOriginal
  IgnoredKept
