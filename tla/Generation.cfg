SPECIFICATION Spec
CONSTANTS
  DefaultBlockSize = 4
  YoungBlockSize = 2
  Sizes = {2, 3, 5}
  EmptyBlocks = 1
  CardSize = 4
  Places = {6, 13, 20, 28}
INVARIANTS
  TypeOK
  CurrentSurvives
  NothingLost
  EmptiesBounded
  RememberedIsFound
  CardsHaveBlocks
