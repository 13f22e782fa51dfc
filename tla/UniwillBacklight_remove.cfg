SPECIFICATION Spec
CONSTANTS
  Levels = {0, 1, 2}
  Environments <- OnlySerial
INVARIANT
  RemoveRestoresEnable
