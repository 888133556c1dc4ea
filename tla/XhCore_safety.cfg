SPECIFICATION Spec
CONSTANTS
  Callers = {c1, c2, c3}
  Workers = {w1, w2}
  NoThread = NoThread
  MaxElfs = 2
  ExclusiveClear = TRUE
  EnableAnytime = FALSE
  Strays = {}
SYMMETRY Symmetry
INVARIANTS
  HandlerGuardsPass
  ClearRestores
  OneWorker
  FailsOnlyBeforeInit
