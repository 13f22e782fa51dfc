SPECIFICATION Spec
CONSTANT
  Environments <- AllEnvironments
INVARIANTS
  OthersPreserved
  PrioritySurvivesPlug
