SPECIFICATION FairSpec
CONSTANTS
  Names = {n1, n2}
  Clients = {c1, c2}
  Roots = {}
  Signals = {"shutdown"}
  Faults = {"accept", "receive", "open", "add", "serve", "destructor"}
  Malformed = Malformed
  None = None
PROPERTIES
  IdleEnvironmentRemoved
  ShutdownServed
