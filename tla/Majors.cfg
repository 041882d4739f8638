SPECIFICATION Spec
CONSTANTS
  Objects = {a, b, c}
  Fields = {f}
  Locals = {x, y}
  PromotionAge = 2
  Null = Null
  Dangling = Dangling
INVARIANT
  MajorCollectionsSafe
SYMMETRY Symmetry
