SPECIFICATION FairSpec
CONSTANTS
  Interfaces <- Both
  Environments <- AllEnvironments
INVARIANTS
  TypeOK
  AcpiTakesPriority
  CoreMatchesBus
  DriverFollowsInterface
  NoOops
  KeysReachDevice
PROPERTY
  EveryCallReturns
CHECK_DEADLOCK FALSE
