SPECIFICATION Spec
CONSTANTS
  p1 = p1
  p2 = p2
  Callers <- Processes
  Speeds = {100}
  Environments <- OverlappingSpeeds
INVARIANTS
  FullModeForSpeeds
