SPECIFICATION AllFairSpec
CONSTANTS
  NFiles = 2
  NRounds = 6
  Checksum = TRUE
  SendOnce = TRUE
  MaxSendFaults = 1
  MaxSendCrashes = 1
  MaxSendStops = 1
  Kind <- AllGood
  Configs <- RoundsOfTwo
  MaxCrashes = 1
  MaxRowFaults = 0
  MaxCountFaults = 0
  Machines <- Idle
  NoReading = NoReading
  MaxStops = 0
INVARIANTS AllTypeOK RecordedIsKept DuplicatesAccounted
PROPERTIES NeverHalfUploaded EveryRecordingLands
