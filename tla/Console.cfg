CONSTANTS
  VGA_WIDTH = 4
  VGA_HEIGHT = 2
  TAB = 2
  Colors = {grey, brown}
  DefaultColor = grey
  Calls <- Printed
  Numbers <- Placed
  MAX_CALLS = 4
SPECIFICATION Spec
INVARIANTS ShowsEnd
