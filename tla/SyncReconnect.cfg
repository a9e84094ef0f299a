SPECIFICATION Spec
CONSTANTS
  Threads = {t1}
  NoThread = NoThread
  ReloadOn = "handshake"
  MaxRuns = 1
  MaxVersion = 2
  MaxPolicies = 2
  MaxFaults = 0
  MaxReboots = 0
  KeepLast = 3
  NChunks = 2
INVARIANT ServesWhatItReports
