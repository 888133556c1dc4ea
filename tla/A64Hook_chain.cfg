SPECIFICATION Spec
CONSTANTS
  Hooks = {h1, h2, h3}
  Callers = {c1}
  Functions = {f}
  Original = Original
  None = None
  PoolSize = 2
SYMMETRY Symmetric
INVARIANTS
  CallsChain
  NearNeverTorn
CHECK_DEADLOCK FALSE
