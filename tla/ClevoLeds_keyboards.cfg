SPECIFICATION Spec
CONSTANTS
  Levels = {0, 1}
  Garbage = {2, 257}
  ColorList <- MCColorList
  Modes = {0, 1}
  Environments <- AllEnvironments
INVARIANTS
  TypeOK
  KeyboardMatchesLeds
  LitWhenAwake
