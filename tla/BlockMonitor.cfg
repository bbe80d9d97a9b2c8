SPECIFICATION FairSpec
CONSTANTS
  Blocks <- ForkBlocks
  Parent <- ForkParent
  Number <- ForkNumber
  Size = 2
  NoBlock = NoBlock
  MaxFaults = 2
  MaxIgnored = 1
INVARIANTS TypeOK NoGap WalkFindsAncestor RecordedWasPublished
PROPERTIES ChainEmitted
CHECK_DEADLOCK FALSE
