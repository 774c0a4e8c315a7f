SPECIFICATION Spec
CONSTANTS
  Images <- Texts
  Options <- TheOptions
  MinText = 2
  TrustHops = 1
  MaxPasses = 8
INVARIANTS BranchTargetsAreCode
