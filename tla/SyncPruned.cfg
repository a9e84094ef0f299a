SPECIFICATION Spec
CONSTANTS
  Threads = {t1}
  NoThread = NoThread
  ReloadOn = "chunk"
  MaxRuns = 1
  MaxVersion = 1
  MaxPolicies = 1
  MaxFaults = 3
  MaxReboots = 0
  KeepLast = 3
  NChunks = 2
CHECK_DEADLOCK FALSE
INVARIANT FetchedIsOnDisk
