SPECIFICATION Spec
CONSTANTS
  Base = 4
  Tape <- ThreeChars
  Typed = {1}
  Words9 = {10}
  Words10 = {1}
  Words11 = {12}
  Keys = {FALSE}
  Locked = {}
  BootMax = 2
PROPERTIES TapeStopReportsCount
