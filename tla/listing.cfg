SPECIFICATION Spec
CONSTANTS
  Images <- Everything
  Options <- TheOptions
  MinText = 2
  TrustHops = 1
  MaxPasses = 8
INVARIANTS NamesAgree DecodesAsExecuted SlotsAreData TraceIsClosed RoundTrip
