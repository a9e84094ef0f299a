SPECIFICATION Spec
CONSTANTS
  NFiles = 4
  NRounds = 7
  Kind <- MixedKinds
  Configs <- CrashConfigs
  MaxCrashes = 2
  MaxRowFaults = 1
  MaxCountFaults = 1
  Machines <- Idle
  NoReading = NoReading
  MaxStops = 0
CHECK_DEADLOCK FALSE
INVARIANTS TypeOK NoEpisodeLost DuplicatesNeedCrashes RoundsInOrder RoundsNotOverfull RowsTrue RowsAccounted
PROPERTY ImplementsQueue
