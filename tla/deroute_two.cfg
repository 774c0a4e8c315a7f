SPECIFICATION Spec
CONSTANTS
  MaxLevel = 1
  DeviceLevels <- Requested
  BootLevel = 1
  Connected <- AllLevels
  PointerWord <- LowPointers
  Image <- SomeImage
  Callers = {0, 1}
  Lockable <- UserWords
  PrtsValid = TRUE
  LowMemory = LowMemory
  Data = Data
  Nobody = Nobody
INVARIANTS TypeOK KeyNeedsMaster
PROPERTIES SlaveConfined NoSilentContextLoss
