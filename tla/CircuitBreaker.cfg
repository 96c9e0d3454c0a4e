SPECIFICATION Spec
CONSTANTS
  EpochSeconds = 1
  ReloadsPerEpoch = 3
  TicksPerSecond = 2
  MaxSeconds = 6
  MaxReloads = 6
INVARIANTS
  TypeOK
  EpochsApart
  StormStopped
  OnlyStormsTrip
CHECK_DEADLOCK FALSE
