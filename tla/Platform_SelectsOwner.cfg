SPECIFICATION PlatformSpec
CONSTANTS
  LapicFrame = 0
  BootEntry <- MCBootEntry
  Firmware <- MCDescending
  POLLS = 3
  Platforms <- MCPlatforms
INVARIANT SelectsOwner
