SPECIFICATION Spec
CONSTANTS
  int = int
  pointer = pointer
  point = point
  wide = wide
  ints = ints
  points = points
  v0 = v0
  v1 = v1
  f = f
  g = g
  h = h
  native = native
  StackSize = 5
  WordSize = 16
  Operands = {0, 15}
  Scalars = {int, pointer}
  Numbers = {int}
  GCPointers = {}
  Structs = {point}
  Arrays = {ints}
  Layout <- MCLayout
  TypeSize <- MCTypeSize
  Count <- MCCount
  Values = {v0}
  Zero = v0
  Functions = {f, g, h}
  Natives = {native}
  Arity <- MCArity
  HasResult <- MCHasResult
  InstructionCount <- MCInstructionCount
  Entrypoint = Entrypoint
  IntType = int
  NoneType = NoneType
  NoType = NoType
  Targets <- MCTargets
  OperandErrors = {"CONSTANTPOOL_OUTOFRANGE", "TYPE_OUTOFRANGE", "LABEL_OUTOFRANGE", "FUNCTION_OUTOFRANGE"}
  PointerErrors = {"POINTER_NULLPOINTER"}
  LocalArguments = TRUE
  MixedSizes = FALSE
INVARIANTS
  TypeOK
  ObjectsNested
  FrameChain
