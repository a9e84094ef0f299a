SPECIFICATION FairSpec
CONSTANTS
  NFiles = 3
  NRounds = 5
  Kind <- DrainKinds
  Configs <- ServiceConfigs
  MaxCrashes = 1
  MaxRowFaults = 1
  MaxCountFaults = 0
  Machines <- Shared
  NoReading = NoReading
  MaxStops = 1
CHECK_DEADLOCK FALSE
PROPERTIES QueueDrains StopEnds
