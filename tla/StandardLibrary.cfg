\* Two strings with their buffers, or a string, its buffer and two arrays.
SPECIFICATION Spec
CONSTANTS
  Addresses = {a1, a2, a3, a4}
  MaxCells = 4
  MaxTotal = 13
  WordSize = 16
  Literals = {0, 1, 15}
  Ints = {0, 1}
  Structures <- MCStructures
  Fields <- MCFields
  NewTypes = {String32}
  ElementTypes = {Box}
  Chars = {1}
  MaxRead = 2
  Handles = {in, out, file}
  Stdin = in
  Stdout = out
  String32 = String32
  Box = Box
  IntType = IntType
  LongType = LongType
  PointerType = PointerType
  ArrayType = ArrayType
  Null = Null
INVARIANTS
  TypeOK
  
  
  PushAppends
  ConcatJoins
  DestroyFreesBuffer
  ReadReturnsText
  StringsStayInBlocks
  ArrayCopyIsExact
SYMMETRY Symmetry
CONSTRAINTS Disciplined Bounded
CHECK_DEADLOCK FALSE
