SPECIFICATION PagingSpec
CONSTANTS
  MemoryMaps <- MCMemoryMaps
  WORDS_PER_FRAME = 5
  BITS_PER_WORD = 2
  PAGE_SIZE = 4
  HEAP_START = 64
  HEAP_SIZE = 7
  ENTRIES = 4
  BootTables <- MCBootTables
  None = None
INVARIANTS
  InUseReported
