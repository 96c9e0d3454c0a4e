SPECIFICATION Spec
CONSTANTS
  Names = {n1, n2}
  Clients = {c1, c2, c3}
  Roots = {}
  Signals = {"shutdown"}
  Faults = {"start", "add"}
  Malformed = Malformed
  None = None
SYMMETRY Symmetry
INVARIANTS
  IInv
  AckedIsAttached
  AttachInStep
PROPERTIES
  IsService
