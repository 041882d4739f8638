SPECIFICATION Spec
CONSTANTS
  Objects = {a, b, c}
  Fields = {f}
  Locals = {x, y}
  PromotionAge = 3
  Null = Null
  Dangling = Dangling
INVARIANTS
  TypeOK
  MinorCollectionsSafe
  Remembered
PROPERTY
  GenerationsSurvive
SYMMETRY Symmetry
