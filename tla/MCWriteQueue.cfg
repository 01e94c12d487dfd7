SPECIFICATION FairSpec
CONSTANTS
  Ops = {o1, o2, o3}
  Stoppers = {s1, s2}
  Stop = Stop
  None = None
  MaxSize = 1
  MaxDeaths = 1
INVARIANTS
  TypeOK
  QuietAfterStop
PROPERTIES
  ImplementsService
  QueuedIsAnswered
  BackpressureEnds
  StopReturns
CHECK_DEADLOCK FALSE
