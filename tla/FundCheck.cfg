SPECIFICATION FairSpec
CONSTANTS
  Keys = {"balance", "allowance", "missing"}
  NoCode = {"missing"}
  Orders <- SomeOrders
  Concurrency = 2
  Amounts <- SomeAmounts
  MaxCalls = 2
  MaxBlocks = 1
  MaxFaults = 1
INVARIANTS TypeOK CacheFresh VerdictJustified
PROPERTIES Decided LookupsEnd
CHECK_DEADLOCK FALSE
