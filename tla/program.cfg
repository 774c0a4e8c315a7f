SPECIFICATION Spec
CONSTANTS
  Width = 6
  Half = 32
  Repertoire <- MCRepertoire
  Start <- MCStart
  MaxSteps = 2
  CountSpan = 4
INVARIANT TypeOK
PROPERTIES StringCopied Relocatable
