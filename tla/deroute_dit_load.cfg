SPECIFICATION Spec
CONSTANTS
  MaxLevel = 1
  DeviceLevels <- Requested
  BootLevel = 1
  Connected <- AllLevels
  PointerWord <- LowPointers
  Image <- SomeImage
  Callers = {}
  Lockable <- OnlyData
  PrtsValid = TRUE
  LowMemory = LowMemory
  Data = Data
  Nobody = Nobody
PROPERTIES DeactivationLoads
