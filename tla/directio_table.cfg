SPECIFICATION Spec
CONSTANTS
  Configurations <- AsBuilt
  DIO_N_MOD = 128
  Accepts <- AcceptedE
  Es <- DocumentedEs
INVARIANTS ModesInTable
