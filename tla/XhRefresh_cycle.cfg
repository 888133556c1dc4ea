SPECIFICATION Spec
CONSTANTS
  NumBases = 1
  Paths = {"liba", "libb"}
  Syms = {"open", "exit"}
  Slots = {"open_plt", "open_got", "exit_plt"}
  Symbol <- MCSymbol
  Imports <- MCImports
  Fns = {"fopen", "gopen"}
  HookInfos <- TwoOnOne
  IgnoreInfos <- NoIgnores
  AllSyms = AllSyms
  None = None
  MaxHooks = 2
  MaxIgnores = 0
  Allowed = {"clear"}
INVARIANT CallsReachOriginal
