SPECIFICATION FairSpec
CONSTANTS
  Names = {n1}
  Clients = {c1}
  Roots = {}
  Signals = {}
  Faults = {"socket"}
  Malformed = Malformed
  None = None
PROPERTY FailureEndsThread
