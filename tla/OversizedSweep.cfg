SPECIFICATION Spec
CONSTANTS
  Last = 3
  BlockSize = 2
  Oversized = 4
  Young = FALSE
  Capacity <- MCCapacity
INVARIANTS
  TypeOK
  TopIsHeader
PROPERTY
  Terminates
