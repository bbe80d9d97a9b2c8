SPECIFICATION Spec
CONSTANTS
  Procs = {p1, p2}
  Msgs = {m1}
  Passes = {m1}
  NDest = 2
  Prefetch = 1
  Concurrency = 1
  Ends = {"relay", "reject", "return"}
  None = None
  Empty = Empty
  MaxPublish = 2
  MaxExits = 1
  MaxErrors = 1
  MaxAdmin = 1
SYMMETRY Symmetry
INVARIANTS TypeOK InFlightBacked AtLeastOnce
CHECK_DEADLOCK FALSE
