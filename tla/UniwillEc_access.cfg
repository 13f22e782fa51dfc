SPECIFICATION FairSpec
CONSTANTS
  t1 = t1
  t2 = t2
  NoThread = NoThread
  Threads <- MCThreads
  LowBytes = {81, 82}
  HighBytes = {7}
  Bytes = {0, 1}
  BusyWaitCycles = 2
  DropsCleared = TRUE
INVARIANTS
  AddressIntact
  JobIsCurrent
PROPERTIES
  ImplementsRegisters
  EveryCallReturns
