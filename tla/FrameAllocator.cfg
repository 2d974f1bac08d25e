SPECIFICATION FairSpec
CONSTANTS
  MemoryMaps <- MCMemoryMaps
  WORDS_PER_FRAME = 2
  BITS_PER_WORD = 2
INVARIANTS
  TypeOK
  UsedCountsExact
  LiveFramesMarked
  BootFramesNeverGranted
  KernelFramesMarked
  BitsMapped
PROPERTIES
  InitTerminates
  ImplementsOwnership
