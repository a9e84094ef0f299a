SPECIFICATION EpisodeSpec
CONSTANTS
  Threads = {t1}
  NoThread = NoThread
  ReloadOn = "chunk"
  MaxRuns = 2
  MaxVersion = 3
  MaxPolicies = 2
  MaxFaults = 1
  MaxReboots = 1
  KeepLast = 2
  NChunks = 2
  MaxEpisodes = 1
  MaxRows = 2
CHECK_DEADLOCK FALSE
INVARIANTS TypeOK AppliedIsWhole PrunedOnlyAfterErrors RowNeverOlder RowsInVersionOrder
PROPERTIES SwapOnlyNewer ImplementsHandOff
