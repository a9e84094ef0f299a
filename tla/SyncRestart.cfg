SPECIFICATION FairSpec
CONSTANTS
  Threads = {t1}
  NoThread = NoThread
  ReloadOn = "chunk"
  MaxRuns = 2
  MaxVersion = 2
  MaxPolicies = 1
  MaxFaults = 1
  MaxReboots = 0
  KeepLast = 3
  NChunks = 2
PROPERTY EventuallyServesLatest
