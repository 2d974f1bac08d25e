SPECIFICATION FairSpec
CONSTANTS
  SLEEP_MS = 2
  POLLS = 2
  Faulting = {"main", "timer"}
INVARIANTS
  NeverSpins
  InterruptsHaveHandlers
  InServiceExact
  KeyHasRequest
PROPERTIES
  MainEnds
  KeyRead
