SPECIFICATION Spec
CONSTANTS
  Orders = {o1}
  TakerAmount <- LargeTaker
  MakerAmount <- OneMaker
  MakerFee <- OneFee
  Salt <- OneSalt
  Word = 4096
  IndexWorkers = {i1}
  FillWorkers = {f1, f2}
  CancelWorkers = {c1}
  Fills = {99}
  Balances = {5}
  MaxIndex = 1
  MaxFill = 2
  MaxSpend = 0
  MaxEpoch = 0
  NoRow = NoRow
INVARIANTS FillsCounted
CHECK_DEADLOCK FALSE
