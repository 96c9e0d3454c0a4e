SPECIFICATION FairSpec
CONSTANTS
  Faults = {"starting", "privileges", "socket", "events", "SIGTERM", "SIGINT", "SIGHUP", "listen", "listening", "poll", "break", "panic", "breaker"}
  MaxSignals = 4
  MaxFails = 1
INVARIANTS
  IInv
  SignalsReachThread
  RebindSucceeds
  ReceiverOutlivesThread
  ReloadsAccounted
PROPERTIES
  ShutdownHonoured
  ReloadHonoured
CHECK_DEADLOCK FALSE
