SPECIFICATION IoSpec
CONSTANTS
  p1 = p1
  p2 = p2
  Callers <- Processes
  Speeds = {0, 100}
  Environments <- AllEnvironments
  Machines <- AllMachines
  TdpArguments = {0, 4, 38, 39, 300}
  Settings = {0, 257}
SYMMETRY Symmetry
INVARIANTS
  IoTypeOK
  SpeedIsInForce
  EcControlsFans
  ProfileIsInForce
  ProfileUnmixed
  LoadedFeaturesAreRight
  TdpWithinLimits
  WebcamAsAsked
