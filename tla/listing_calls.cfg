SPECIFICATION Spec
CONSTANTS
  Images <- TextCalls
  Options <- TheOptions
  MinText = 2
  TrustHops = 1
  MaxPasses = 8
INVARIANTS CallsReturn
