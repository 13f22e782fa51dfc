SPECIFICATION Spec
CONSTANTS
  Interfaces <- Clevo
  Environments <- NoMemory
INVARIANTS
  NoOops
