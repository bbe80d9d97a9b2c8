SPECIFICATION Spec
CONSTANTS
  Orders = {o1}
  TakerAmount <- LargeTaker
  MakerAmount <- OneMaker
  MakerFee <- OneFee
  Salt <- OneSalt
  Word = 4096
  IndexWorkers = {i1, i2}
  FillWorkers = {f1, f2}
  CancelWorkers = {c1, c2}
  Fills = {99, 101}
  Balances = {5}
  MaxIndex = 2
  MaxFill = 2
  MaxSpend = 1
  MaxEpoch = 2
  NoRow = NoRow
SYMMETRY Slots
INVARIANTS TypeOK FilledNotOpen RemainingAgrees
CHECK_DEADLOCK FALSE
