SPECIFICATION Spec
CONSTANTS
  Names = {m1, m2, m3}
  Types <- MCTypes
  Size <- MCSize
  Align <- MCAlign
  PageSize = 8
  MaxPages = 3
  None = None
SYMMETRY Symmetry
INVARIANTS
  TypeOK
  BelowFreePtr
  WellPlaced
  NoOverlap
  NeverCrashes
  ClientsAgree
PROPERTY KeepsPromise
