SPECIFICATION FairSpec
CONSTANTS
  Procs = {p1}
  Msgs = {m1, m2, m3}
  Passes = {m1, m2}
  NDest = 1
  Prefetch = 1
  Concurrency = 1
  Ends = {"relay"}
  None = None
  Empty = Empty
  MaxPublish = 4
  MaxExits = 0
  MaxErrors = 0
  MaxAdmin = 0
INVARIANTS InOrder
PROPERTIES EventuallyHandled
CHECK_DEADLOCK FALSE
