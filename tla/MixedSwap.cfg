SPECIFICATION Spec
CONSTANTS
  int = int
  pointer = pointer
  point = point
  wide = wide
  ints = ints
  points = points
  v0 = v0
  v1 = v1
  f = f
  g = g
  h = h
  native = native
  StackSize = 7
  WordSize = 16
  Operands = {0, 1}
  Scalars = {int}
  Numbers = {int}
  GCPointers = {}
  Structs = {point, wide}
  Arrays = {ints}
  Layout <- MCLayout
  TypeSize <- MCTypeSize
  Count <- MCCount
  Values = {v0, v1}
  Zero = v0
  Functions = {f, g, h}
  Natives = {native}
  Arity <- MCArity
  HasResult <- MCHasResult
  InstructionCount <- MCInstructionCount
  Entrypoint = Entrypoint
  IntType = int
  NoneType = NoneType
  NoType = NoType
  Targets <- MCTargets
  OperandErrors = {}
  PointerErrors = {}
  LocalArguments = FALSE
  MixedSizes = TRUE
INVARIANT
  FrameChain
