SPECIFICATION Spec
CONSTANTS
  MemoryMaps <- MCMemoryMaps
  WORDS_PER_FRAME = 2
  BITS_PER_WORD = 2
INVARIANT
  FrameTypeCorrect
