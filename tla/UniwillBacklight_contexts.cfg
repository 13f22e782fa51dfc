SPECIFICATION Spec
CONSTANTS
  Levels = {0, 1, 2}
  Environments <- AllEnvironments
INVARIANTS
  WhiteBitPreserved
  SleepsDark
  LitWhenAwake
  LevelMatchesLed
