SPECIFICATION BarSpec
CONSTANTS
  RomLength = 3
  Environments <- AllMachines
INVARIANTS
  RomIdIsRight
  TwoFaultsTolerated
  ManualModeIsPrepared
  OtherBitsPreserved
  ColorsAsStored
  AnimationAsAsked
  DarkWhenRemoved
PROPERTY
  ProbeReturns
