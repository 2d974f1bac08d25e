SPECIFICATION PlatformFairSpec
CONSTANTS
  LapicFrame = 0
  BootEntry <- MCBootEntry
  Firmware <- MCFirmware
  POLLS = 3
  Platforms <- MCPlatforms
INVARIANTS
  RoutedWhenDone
  NoStrayPin
  PowerTypeOK
  EnabledMeansBoth
  TimeoutMeansLate
PROPERTY ShutsDown
