SPECIFICATION Spec
CONSTANTS
  Callers = {c1, c2}
  Workers = {}
  NoThread = NoThread
  MaxElfs = 2
  ExclusiveClear = FALSE
  EnableAnytime = TRUE
  Strays = {c1, c2}
SYMMETRY Symmetry
CHECK_DEADLOCK FALSE
INVARIANTS
  RefreshExclusive
PROPERTIES
  JumpsLandInAccess
