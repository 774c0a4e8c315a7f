SPECIFICATION Spec
CONSTANTS
  Base = 4
  Tape <- ThreeChars
  Typed = {0, 3}
  Words9 = {9}
  Words10 = {6}
  Words11 = {}
  Keys = {FALSE}
  Locked = {2, 3}
  BootMax = 2
INVARIANTS TypeOK ServicedUntilDone TapeInOrder TransferInPlace
PROPERTIES EndsReported
