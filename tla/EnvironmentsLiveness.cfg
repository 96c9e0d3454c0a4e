SPECIFICATION FairSpec
CONSTANTS
  Names = {n1}
  Clients = {c1, c2}
  Roots = {}
  Signals = {"shutdown"}
  Faults = {"start", "wait", "destructor", "unread"}
  Malformed = Malformed
  None = None
PROPERTIES
  OpenAnswered
  IdleEnvironmentRemoved
  ShutdownServed
  MutexAnswered
