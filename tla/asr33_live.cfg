SPECIFICATION FairSpec
CONSTANTS
  Base = 4
  Tape <- Blank
  Typed = {}
  Words9 = {2, 10}
  Words10 = {}
  Words11 = {}
  Keys = {FALSE}
  Locked = {}
  BootMax = 3
PROPERTIES PollLoopEnds
