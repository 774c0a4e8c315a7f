SPECIFICATION SectionsSpec
CONSTANTS
  Width = 8
  Half = 128
  Repertoire <- MCRepertoire
  Start <- MCStart
  Bases <- MCBases
  Free <- MCFree
  Locks <- MCLocks
  MaxSteps = 6
  CountSpan = 8
PROPERTIES SubroutineReturns
