SPECIFICATION FairSpec
CONSTANTS
  NFiles = 2
  NRounds = 3
  Kind <- OneBadApple
  Configs <- PoisonConfigs
  MaxCrashes = 0
  MaxRowFaults = 0
  MaxCountFaults = 0
  Machines <- Idle
  NoReading = NoReading
  MaxStops = 0
PROPERTY QueueDrains
