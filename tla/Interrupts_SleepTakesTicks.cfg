SPECIFICATION Spec
CONSTANTS
  SLEEP_MS = 2
  POLLS = 2
  Faulting = {"main"}
INVARIANT
  SleepTakesTicks
