SPECIFICATION Spec
CONSTANTS
  BUFFER_HEIGHT = 3
  BUFFER_WIDTH = 2
  Printable = {"a", "b", " "}
  Blank = " "
  Newline = "newline"
  Other = "other"
  Box = "box"
  BootScreen <- MCBootScreen
  MaxText = 6
INVARIANTS
  TypeOK
  ScreenShowsText
