SPECIFICATION FairSpec
CONSTANTS
  Recordings <- MCRecordings
  Configs <- MCConfigs
  MaxFaults = 1
CHECK_DEADLOCK FALSE
INVARIANTS TypeOK FramesTrue AllOrNothing ChannelsTrue ConvertedIsIntact
PROPERTIES Ends
