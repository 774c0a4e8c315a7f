SPECIFICATION AssemblerSpec
CONSTANTS
  Sources <- Boots
  HexNames <- Names2
INVARIANT JumpsReachLabels
