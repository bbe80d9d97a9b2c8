SPECIFICATION FairSpec
CONSTANTS
  Procs = {p1, p2}
  Msgs = {m1}
  Passes = {m1}
  NDest = 1
  Prefetch = 1
  Concurrency = 1
  Ends = {"relay"}
  None = None
  Empty = Empty
  MaxPublish = 1
  MaxExits = 1
  MaxErrors = 0
  MaxAdmin = 0
PROPERTIES OrphansReturned
CHECK_DEADLOCK FALSE
