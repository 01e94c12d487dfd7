SPECIFICATION FairSpec
CONSTANTS
  Ops = {o1, o2, o3}
  Stoppers = {s1}
  Stop = Stop
  None = None
  MaxSize = 1
  MaxDeaths = 0
PROPERTY CallersReturn
CHECK_DEADLOCK FALSE
