SPECIFICATION Spec
CONSTANTS
  Targets = {"f", "g"}
  CodeOf <- CallAndThumb
  Threads = {x}
  Pages = {p, q}
  None = None
  MaxItems = 2
  MaxCalls = 5
  Allowed <- AllStop
INVARIANTS
  Transparent
  HookedCallsReachProxy
  TableTells
PROPERTIES
  AllMeansAll
  OperationEnds
CHECK_DEADLOCK FALSE
