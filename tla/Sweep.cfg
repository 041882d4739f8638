SPECIFICATION Spec
CONSTANTS
  Last = 3
  BlockSize = 2
  Oversized = 2
  Young = TRUE
  Capacity <- MCCapacity
INVARIANTS
  FillsBehind
  PlacesReserved
  SurvivorsIntact
