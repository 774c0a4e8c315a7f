SPECIFICATION FairSpec
CONSTANTS
  MaxLevel = 3
  DeviceLevels <- Requested
  BootLevel = 2
  Connected <- AllButOne
  PointerWord <- HighPointers
  Image <- SomeImage
  Callers = {0}
  Lockable <- OneRegs
  PrtsValid = FALSE
  LowMemory = LowMemory
  Data = Data
  Nobody = Nobody
INVARIANTS LevelOwnsRegisters WedgedRequestKept
PROPERTIES RequestHonoured RequestsNeverLost ImplementsLevels WedgedUntilReset
