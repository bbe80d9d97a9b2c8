SPECIFICATION Spec
CONSTANTS
  Monitors <- AllMonitors
  Blocks <- MCBlocks
  Chains <- MCChains
  Logs <- MCLogs
  Noise <- MCNoise
  Hybrid <- MCHybrid
  Reverts <- MCReverts
  Prefetch = 2
  MaxFaults = 3
  NoFile = NoFile
  Torn = Torn
INVARIANTS TypeOK AckedPublished DuplicatesExplained BloomRemembers
PROPERTY BlocksHandled
CHECK_DEADLOCK FALSE
