SPECIFICATION PSpec
CONSTANTS
  Orders = {o1}
  TakerAmount <- SmallTaker
  MakerAmount <- OneMaker
  MakerFee <- OneFee
  Salt <- OneSalt
  Word = 4096
  IndexWorkers = {i1}
  FillWorkers = {f1}
  CancelWorkers = {c1, c2}
  Fills = {0, 1}
  Balances = {5}
  MaxIndex = 2
  MaxFill = 2
  MaxSpend = 0
  MaxEpoch = 3
  NoRow = NoRow
  Copies = {m1}
  MaxMined = 4
  MaxPipelineFaults = 1
  NoFile = NoFile
SYMMETRY Slots
INVARIANTS PTypeOK ClosedLeavesBook CancelledOnChain
CHECK_DEADLOCK FALSE
