SPECIFICATION Spec
CONSTANTS
  Threads = {t1, t2}
  NoThread = NoThread
  ReloadOn = "chunk"
  MaxRuns = 1
  MaxVersion = 2
  MaxPolicies = 1
  MaxFaults = 0
  MaxReboots = 0
  KeepLast = 2
  NChunks = 3
INVARIANT AppliedIsWhole
SYMMETRY ThreadSymmetry
