SPECIFICATION Spec
CONSTANTS
  Configurations <- WithoutPanel
  DIO_N_MOD = 128
  Accepts <- AcceptedE
  Es <- DocumentedEs
PROPERTIES DiskReached
