SPECIFICATION Spec
CONSTANTS
  Gets = {g1, g2}
  Clients = {c1}
  Updaters = {u1, u2}
  MaxTerms = 2
  MaxMasks = 2
  MaxSigs = 1
  MaxTime = 11
  MaxFaults = 1
SYMMETRY Slots
INVARIANTS TypeOK ServedMaskGood OneCurrent SignedAsShown
CHECK_DEADLOCK FALSE
