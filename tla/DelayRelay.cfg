SPECIFICATION FairSpec
CONSTANTS
  Flushers = {f1, f2}
  Prefetch = 2
  MaxSend = 2
  MaxFlush = 3
  MaxEnds = 1
  MaxErrors = 1
INVARIANTS TypeOK PilesUpUntilFlush OnePausePerFlush
PROPERTIES FlushReleases
CHECK_DEADLOCK FALSE
