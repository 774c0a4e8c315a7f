SPECIFICATION Spec
CONSTANTS
  Base = 4
  Tape <- OneChar
  Typed = {1}
  Words9 = {1}
  Words10 = {1}
  Words11 = {0}
  Keys = {FALSE}
  Locked = {}
  BootMax = 2
PROPERTIES CtrlEStops
