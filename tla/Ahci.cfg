SPECIFICATION Spec
CONSTANTS
  SPACE = 16
  Byte = {0, 255}
  Ones = 255
  Words <- MCWords
  Asked <- MCAsked
  AmlOffsets = {0, 1, 2, 3, 4, 5, 6, 7}
  Boot <- MCBoot
  BUSES = 2
  FRAME = 4096
  Controllers <- MCControllers
  Taken = {4}
INVARIANTS
  ReadsExact
  ScanExact
  ChoosesLastAhci
  PortsMapped
PROPERTY WritesAimed
