SPECIFICATION ThreadFairSpec
CONSTANTS
  Names = {n1}
  Clients = {c1}
  Roots = {}
  Signals = {"shutdown"}
  Faults = {"unread"}
  Malformed = Malformed
  None = None
PROPERTY DropServed
