SPECIFICATION Spec
CONSTANTS
  int = int
  pointer = pointer
  point = point
  wide = wide
  ints = ints
  points = points
  v0 = v0
  v1 = v1
  f = f
  g = g
  h = h
  native = native
  StackSize = 6
  WordSize = 16
  Operands = {0, 1}
  Scalars = {int}
  Numbers = {int}
  GCPointers = {}
  Structs = {point}
  Arrays = {points}
  Layout <- MCLayout
  TypeSize <- MCTypeSize
  Count <- MCCount
  Values = {v0, v1}
  Zero = v0
  Functions = {f, g}
  Natives = {native}
  Arity <- MCArity
  HasResult <- MCHasResult
  InstructionCount <- MCInstructionCount
  Entrypoint = Entrypoint
  IntType = int
  NoneType = NoneType
  NoType = NoType
  Targets <- MCTargets
  OperandErrors = {}
  PointerErrors = {}
  LocalArguments = FALSE
  MixedSizes = FALSE
INVARIANTS
  TopIsReadable
  ParametersBelowFrame
  LocalsDesignateObjects
  OwnLocalsAscend
PROPERTIES
  CallerUntouched
  ReturnReplacesArguments
  ImplementsActivations
