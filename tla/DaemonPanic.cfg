SPECIFICATION FairSpec
CONSTANTS
  Faults = {"panic"}
  MaxSignals = 1
  MaxFails = 0
PROPERTY PanicEscalates
CHECK_DEADLOCK FALSE
