SPECIFICATION Spec
CONSTANTS
  Width = 4
  Half = 8
  DigitBits = 2
  Digits = 2
  Bias = 4
  Operands <- MCOperands
  Counts <- MCCounts
  Indexes <- MCIndexes
  Numbers <- MCNumbers
INVARIANTS
  TypeOK
  DoubleAddition
  CompareAgreesWithSubtract
  MultiplyDivide
  ShiftsScale
  NormalizeUndone
  ParityAdds
  FloatOrder
  FloatNormalForm
CHECK_DEADLOCK TRUE
