SPECIFICATION Spec
CONSTANTS
  Last = 2
  BlockSize = 2
  Oversized = 4
  Young = FALSE
  Capacity <- MCCapacity
INVARIANT
  SurvivorsIntact
