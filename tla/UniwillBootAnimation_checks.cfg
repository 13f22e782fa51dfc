SPECIFICATION FairSpec
CONSTANTS
  Colors = {1, 2}
  CheckCount = 5
  Probes = 2
  CountBelow = 3
  Environments <- CheckedEnvironments
INVARIANTS
  ChecksAreBounded
  QuietAfterRemove
  ColorMatchesLed
PROPERTY
  InitializedAfterAnimation
CHECK_DEADLOCK FALSE
