SPECIFICATION AssemblerSpec
CONSTANTS
  Sources <- Everything
  HexNames <- Names2
INVARIANTS BranchesReachLabels LabelsInStep AssembledAsWritten
