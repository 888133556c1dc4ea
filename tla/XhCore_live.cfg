SPECIFICATION FairSpec
CONSTANTS
  Callers = {c1, c2}
  Workers = {w1}
  NoThread = NoThread
  MaxElfs = 1
  ExclusiveClear = TRUE
  EnableAnytime = FALSE
  Strays = {}
PROPERTIES
  EveryCallReturns
  RequestServed
  ImplementsService
