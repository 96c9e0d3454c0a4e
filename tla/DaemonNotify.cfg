SPECIFICATION FairSpec
CONSTANTS
  Faults = {"listening"}
  MaxSignals = 1
  MaxFails = 0
PROPERTY ReturnEndsDaemon
CHECK_DEADLOCK FALSE
