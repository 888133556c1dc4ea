SPECIFICATION StacksSpec
CONSTANTS
  Threads = {t1, t2}
  t1 = t1
  t2 = t2
  p1 = p1
  p2 = p2
  p3 = p3
  s1 = s1
  s2 = s2
  s3 = s3
  Constructor = t1
  SignalLow = 1
  SignalHigh = 3
  ThreadLow = 4
  ThreadHigh = 7
  Sigreturn = Sigreturn
  Null = Null
  Odd = Odd
  Nobody = Nobody
  Cap = 4
  Memories <- AllMemories
  Process = {p1, p2, p3}
  Handler = p1
  RemoteFaults = 2
  Starts = {s1, s2, s3}
  InJvm = {s1}
  StartFaults = 1
INVARIANTS
  RefusedOnlyIfFailed
  StaysOnStacks
  FindsCallers
  PrintsStopped
  OwnStart
PROPERTIES
  WalkRises
  HandlerReturns
CHECK_DEADLOCK FALSE
