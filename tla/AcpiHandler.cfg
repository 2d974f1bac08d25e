SPECIFICATION Spec
CONSTANTS
  Frame = {0, 1, 2, 3, 4}
  PAGE_SIZE = 4
  Request <- MCRequest
  Table <- MCTable
  Address <- MCAddress
  Slot = {1, 2, 3}
  MaxPins = 2
INVARIANTS
  TypeOK
  RefsExact
  LiveBytesMapped
  PagesOwnedOnce
  DropNeverPanics
