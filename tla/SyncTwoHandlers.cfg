SPECIFICATION FairSpec
CONSTANTS
  Threads = {t1, t2}
  NoThread = NoThread
  ReloadOn = "chunk"
  MaxRuns = 1
  MaxVersion = 3
  MaxPolicies = 1
  MaxFaults = 1
  MaxReboots = 1
  KeepLast = 5
  NChunks = 1
INVARIANTS StatusAgrees ServesWhatItReports
 
