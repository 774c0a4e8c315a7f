SPECIFICATION Spec
CONSTANTS
  Configurations <- AllLists
  DIO_N_MOD = 128
  Accepts <- AcceptedE
  Es <- FewEs
INVARIANTS TypeOK TableIsConfiguration
