SPECIFICATION FairSpec
CONSTANTS
  Requests = {r1, r2}
  Inputs <- MCInputs
  NoInput = NoInput
  Exchanges = {"e1"}
  Recipients = {"f1"}
  DefaultRecipient = "f1"
  Zero = "zero"
  Pools <- MCPools
  DefaultPool = ""
  Unit = 2
  Accounts <- MCAccounts
  BaseFee = 4
  BaseFees = {8}
  MaxEvents = 1
INVARIANTS TypeOK DecodedAsSent QuoteHonoured QueuedUnlessBlacklisted
PROPERTIES Admits Answered
CHECK_DEADLOCK FALSE
