SPECIFICATION Spec
CONSTANTS
  Targets = {"f"}
  CodeOf <- OnlyLoads
  Threads = {x, y}
  Pages = {p, q}
  None = None
  MaxItems = 1
  MaxCalls = 4
  Allowed <- AllFaults
INVARIANTS
  Transparent
  JumpHasTrampoline
CHECK_DEADLOCK FALSE
