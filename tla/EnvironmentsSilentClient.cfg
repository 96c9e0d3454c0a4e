SPECIFICATION ThreadFairSpec
CONSTANTS
  Names = {n1}
  Clients = {c1}
  Roots = {}
  Signals = {"shutdown"}
  Faults = {}
  Malformed = Malformed
  None = None
PROPERTY ShutdownServed
