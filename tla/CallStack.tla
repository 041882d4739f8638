------------------------------ MODULE CallStack ------------------------------
(***************************************************************************)
(* The call stack of svm::Interpreter: one Stack holds the operands, the   *)
(* local variables and the saved StackFrames, and m_LocalVariables holds   *)
(* the stack offsets of the locals of every active function.               *)
(*                                                                         *)
(* A cell of mem is one object header with its value: the size of an int,  *)
(* a long, a pointer or the header of an array.  A structure or an array   *)
(* is a header cell followed, at lower offsets, by the cells of its fields *)
(* or elements, which carry headers of their own.  A saved StackFrame is   *)
(* one cell whose header is NoneType.  Offsets count from the bottom of    *)
(* the stack: the header of the object on top is at offset used.           *)
(*                                                                         *)
(* The bytecode is any bytecode: whenever the loop fetches an instruction  *)
(* it may be any instruction with any operand the constants allow.  Where  *)
(* a pointer leads is left open; tstore, inc and dec write to the heap.    *)
(***************************************************************************)
EXTENDS Integers, Sequences, FiniteSets

CONSTANTS
  StackSize,         \* cells of m_Stack, the -stack option
  WordSize,          \* 2^32: operands and VariableBegin are std::uint32_t
  Operands,          \* operands the bytecode gives to load and store
  Scalars,           \* fundamental types
  Numbers,           \* those of them that are no pointers
  GCPointers,        \* those of the pointers that lead to managed objects
  Structs,           \* structure types
  Arrays,            \* array objects: an element type and a count
  Layout,            \* headers of an object's cells, its own first
  TypeSize,          \* type->Size: of an array, the header's alone
  Count,             \* ArrayObject::Count
  Values, Zero,      \* what a cell holds besides its type
  Functions,         \* bytecode functions
  Natives,           \* virtual functions
  Arity, HasResult,  \* of Functions and Natives
  InstructionCount,  \* of Functions and of the entrypoint
  Entrypoint,        \* the std::monostate of StackFrame::Function
  IntType,           \* the scalar that comparisons yield
  NoneType,          \* the type of a StackFrame
  NoType,            \* bytes that no type was written to
  Targets,           \* what the pointers that tload follows lead to
  OperandErrors,     \* exceptions of operands that designate nothing
  PointerErrors,     \* exceptions of pointers to what the instruction does not take
  LocalArguments,    \* may a call pass an object that is a local variable
  MixedSizes         \* may swap and store exchange objects of different sizes

Shapes == Scalars \cup Structs \cup Arrays
Pointers == Scalars \ Numbers
Callables == Functions \cup Natives

\* CalcArraySize of an array, type->Size of every other object.
ObjectSize == [s \in Shapes |-> Len(Layout[s])]

ASSUME LayoutAssumption ==
  /\ Layout \in [Shapes -> Seq(Shapes)]
  /\ \A s \in Shapes : ObjectSize[s] > 0 /\ Layout[s][1] = s
  /\ \A s \in Scalars : ObjectSize[s] = 1
  /\ \A s \in Shapes : \A i \in 1 .. ObjectSize[s] :
       LET field == Layout[s][i]
       IN  /\ i - 1 + ObjectSize[field] <= ObjectSize[s]
           /\ \A j \in 1 .. ObjectSize[field] : Layout[s][i + j - 1] = Layout[field][j]
  /\ TypeSize \in [Shapes -> Nat]
  /\ \A s \in Scalars \cup Structs : TypeSize[s] = ObjectSize[s]
  /\ \A s \in Arrays : TypeSize[s] = 1
  /\ Count \in [Arrays -> Nat \ {0}]

ASSUME ProgramAssumption ==
  /\ StackSize \in Nat \ {0} /\ WordSize \in Nat \ {0}
  /\ Operands \subseteq 0 .. WordSize - 1
  /\ Zero \in Values /\ IntType \in Numbers /\ Numbers \subseteq Scalars
  /\ GCPointers \subseteq Pointers
  /\ NoneType \notin Shapes /\ NoType \notin Shapes /\ NoneType # NoType
  /\ Scalars \cap Structs = {} /\ Scalars \cap Arrays = {} /\ Structs \cap Arrays = {}
  /\ Functions \cap Natives = {} /\ Entrypoint \notin Callables
  /\ Arity \in [Callables -> Nat]
  /\ HasResult \in [Callables -> BOOLEAN]
  /\ InstructionCount \in [Functions \cup {Entrypoint} -> Nat \ {0}]
  /\ OperandErrors \subseteq {"CONSTANTPOOL_OUTOFRANGE", "TYPE_OUTOFRANGE",
                              "LABEL_OUTOFRANGE", "FUNCTION_OUTOFRANGE"}
  /\ PointerErrors \subseteq {"POINTER_NULLPOINTER", "POINTER_UNKNOWNADDRESS", "POINTER_INVALIDFORPOINTER",
                              "STACK_DIFFERENTTYPE", "STRUCTURE_NOTSTRUCTURE", "STRUCTURE_FIELD_OUTOFRANGE",
                              "STRUCTURE_INVALIDFORSTRUCTURE", "ARRAY_NOTARRAY", "ARRAY_INDEX_OUTOFRANGE",
                              "ARRAY_INVALIDFORARRAY", "ARRAY_COUNT_DIFFERENTCOUNT", "STACK_OVERFLOW"}
  /\ LocalArguments \in BOOLEAN /\ MixedSizes \in BOOLEAN

VARIABLES
  mem,        \* the cells of m_Stack
  used,       \* m_Stack.m_Used
  frame,      \* m_StackFrame
  depth,      \* m_Depth
  locals,     \* m_LocalVariables
  exception,  \* m_Exception
  status      \* how far Interpret() is

vars == <<mem, used, frame, depth, locals, exception, status>>

StackFrame == [StackBegin : 0 .. StackSize, VariableBegin : Nat,
               Caller : Int, Function : Callables \cup {Entrypoint}]
ExceptionCodes ==
  OperandErrors \cup PointerErrors \cup
  {"NONE", "STACK_EMPTY", "STACK_OVERFLOW", "STACK_DIFFERENTTYPE",
   "LOCALVARIABLE_OUTOFRANGE", "LOCALVARIABLE_INVALIDINDEX",
   "ARRAY_COUNT_CANNOTBEZERO", "ARRAY_COUNT_DIFFERENTCOUNT", "ARRAY_INVALIDFORARRAY",
   "STRUCTURE_INVALIDFORSTRUCTURE", "POINTER_NOTPOINTER", "POINTER_INVALIDFORPOINTER",
   "ARITHMETIC_DIVIDEBYZERO",
   "FUNCTION_NORETINSTRUCTION", "STDLIB"}
InterpreterException == [Function : Callables \cup {Entrypoint},
                         InstructionIndex : Int, Code : ExceptionCodes]
NoException == [Function |-> Entrypoint, InstructionIndex |-> 0, Code |-> "NONE"]

\* Cells above m_Used keep stale bytes that are never read as a type; they are
\* normalised to Raw.
Raw == [shape |-> NoType, val |-> Zero]
Cells == [shape : Shapes, val : Values] \cup [shape : {NoneType}, val : StackFrame] \cup {Raw}

-----------------------------------------------------------------------------
(* Reading and writing the stack *)

\* Type::IsValidType of the header at the cell.
IsObject(cell) == cell.shape \in Shapes

SizeOf(cell) == IF IsObject(cell) THEN ObjectSize[cell.shape] ELSE 1

\* Stack::Get<Type> returns nullptr.
IsNull(offset) == offset <= 0 \/ offset > used

\* An object with the headers of its shape, whose fields hold value.
NewObject(s, value) == [i \in 1 .. ObjectSize[s] |-> [shape |-> Layout[s][i], val |-> value]]

\* An object of any content: copy leaves fields of structures without headers, and
\* tstore writes such structures to the heap.
ObjectOf(s) ==
  {object \in [1 .. ObjectSize[s] -> [shape : Shapes \cup {NoType}, val : Values]] :
     /\ object[1].shape = s
     /\ \A i \in 1 .. ObjectSize[s] : object[i] = Raw \/ object[i].shape = Layout[s][i]}

ASSUME TargetsAssumption ==
  \A object \in Targets : \E s \in Shapes : object \in ObjectOf(s)

\* The object whose header is at offset, header first.
ObjectAt(offset) == [i \in 1 .. SizeOf(mem[offset]) |-> mem[offset - i + 1]]

\* A local whose header is at a null pointer, or is no header.
IsUnreadable(offset) == IF IsNull(offset) THEN TRUE ELSE mem[offset].shape = NoType

\* The memory with the top at offset top, after an object was written there.
Placed(m, object, top) ==
  [o \in 1 .. StackSize |->
     IF o > top THEN Raw
     ELSE IF o > top - Len(object) THEN object[top - o + 1]
     ELSE m[o]]

Trimmed(m, top) == Placed(m, <<>>, top)

\* Mutant of SameType: a store that only tells arrays from other objects.
SameKind(s, t) == (s \in Arrays) = (t \in Arrays)

\* Type::operator==: every array has the one type ArrayType.
SameType(s, t) == s = t \/ (s \in Arrays /\ t \in Arrays)

\* Mutant of IsLocalVariable: the oldest local is compared.
IsFirstLocalVariable(delta) == locals # <<>> /\ locals[1] = used - delta

\* Only the newest local variable is compared.
IsLocalVariable(delta) == locals # <<>> /\ locals[Len(locals)] = used - delta

\* Stack::Push, or Stack::Expand and the write that fills the new object.
PushObject(object) ==
  /\ used + Len(object) <= StackSize
  /\ used' = used + Len(object)
  /\ mem' = Placed(mem, object, used + Len(object))

\* Mutant of Reduce: only the header of an object is popped.
ReduceHeader(size) ==
  /\ used' = used - 1
  /\ mem' = Trimmed(mem, used - 1)

Reduce(size) ==
  /\ used' = used - size
  /\ mem' = Trimmed(mem, used - size)

-----------------------------------------------------------------------------
(* Interpret(): the loop around the instructions *)

Init ==
  /\ mem = [o \in 1 .. StackSize |-> Raw]
  /\ used = 0
  /\ frame = [StackBegin |-> 0, VariableBegin |-> 0, Caller |-> 0, Function |-> Entrypoint]
  /\ depth = 0
  /\ locals = <<>>
  /\ exception = NoException
  /\ status = "running"

\* The loop condition: an instruction is left to execute.
Fetch == status = "running" /\ frame.Caller < InstructionCount[frame.Function]

\* ++m_StackFrame.Caller after an instruction that changed nothing of the frame.
Advance ==
  /\ frame' = [frame EXCEPT !.Caller = @ + 1]
  /\ UNCHANGED <<depth, exception, status>>

\* OccurException(code) with m_StackFrame of the given function and index.
Occur(function, index, code) ==
  /\ exception' = [Function |-> function, InstructionIndex |-> index, Code |-> code]
  /\ status' = "exception"
  /\ UNCHANGED <<used, mem, frame, depth>>

OccurException(code) ==
  Occur(frame.Function, frame.Caller, code) /\ UNCHANGED locals

\* A null pointer is dereferenced.
Crash == status' = "crashed" /\ UNCHANGED <<mem, used, frame, depth, locals, exception>>

\* The loop runs past the last instruction.
FallOff ==
  /\ status = "running" /\ frame.Caller >= InstructionCount[frame.Function]
  /\ IF depth # 0
       THEN OccurException("FUNCTION_NORETINSTRUCTION")
       ELSE status' = "finished" /\ UNCHANGED <<mem, used, frame, depth, locals, exception>>

Stopped == status # "running" /\ UNCHANGED vars

\* push, apush, a jump or call finds that its operand designates no constant,
\* type, label or function before it looks at the stack.
UnknownOperand == Fetch /\ \E code \in OperandErrors : OccurException(code)

-----------------------------------------------------------------------------
(* Instructions on operands and local variables *)

\* An object of any of the shapes is pushed, if it fits.
PushAny(shapes) ==
  \E s \in shapes :
    IF used + ObjectSize[s] > StackSize
      THEN OccurException("STACK_OVERFLOW")
      ELSE /\ \E value \in Values : PushObject(NewObject(s, value))
           /\ Advance
           /\ UNCHANGED locals

\* push of a constant, or of a structure whose fields keep the stale bytes that
\* were there.
InterpretPush == Fetch /\ PushAny(Numbers \cup Structs)

\* The scalar on top is replaced by the object, if it fits.
ReplaceTop(object) ==
  IF used - 1 + Len(object) > StackSize
    THEN OccurException("STACK_OVERFLOW")
    ELSE /\ used' = used - 1 + Len(object)
         /\ mem' = Placed(mem, object, used')
         /\ Advance
         /\ UNCHANGED locals

\* GetArrayInfo: what follows when a count is on top.  A count whose size in bytes
\* wraps around passes, and InitArray writes on beyond all memory.
CountOnTop(instruction) ==
  IF IsLocalVariable(0) \/ IsNull(used)
    THEN OccurException("STACK_EMPTY")
  ELSE IF mem[used].shape \notin Numbers
    THEN OccurException("STACK_DIFFERENTTYPE")
  ELSE OccurException("ARRAY_COUNT_CANNOTBEZERO") \/ Crash \/ instruction

\* apush: the count on top is replaced by a zeroed array.
InterpretAPush ==
  Fetch /\ CountOnTop(\E s \in Arrays : ReplaceTop(NewObject(s, Zero)))

\* pop: the newest local is forgotten when its object is on top.
InterpretPop ==
  /\ Fetch
  /\ locals' = IF IsLocalVariable(0) THEN SubSeq(locals, 1, Len(locals) - 1) ELSE locals
  /\ IF IsNull(used) \/ ~IsObject(mem[used])
       THEN Occur(frame.Function, frame.Caller, "STACK_EMPTY")
       ELSE Reduce(ObjectSize[mem[used].shape]) /\ Advance

\* Mutant of LocalIndex: numbers count from the first local of the program.
ProgramLocalIndex(operand) == operand % WordSize

\* operand += VariableBegin, in 32 bits; m_LocalVariables counts from 0.
LocalIndex(operand) == (operand + frame.VariableBegin) % WordSize

InterpretLoad(operand) ==
  /\ Fetch
  /\ LET index == LocalIndex(operand)
         offset == locals[index + 1]
     IN  IF index >= Len(locals)
           THEN OccurException("LOCALVARIABLE_OUTOFRANGE")
         ELSE IF IsUnreadable(offset)
           THEN Crash
         ELSE IF ~IsObject(mem[offset]) \/ used + SizeOf(mem[offset]) > StackSize
           THEN OccurException("STACK_OVERFLOW")
         ELSE PushObject(ObjectAt(offset)) /\ Advance /\ UNCHANGED locals

\* Mutants of StoreNew: an empty stack is not noticed, and an object that is a
\* local already becomes another one.
StoreNewOfNothing(operand) ==
  /\ Fetch
  /\ ~IsLocalVariable(0)
  /\ LocalIndex(operand) = Len(locals)
  /\ locals' = Append(locals, used) /\ Advance /\ UNCHANGED <<mem, used>>

StoreNewAgain(operand) ==
  /\ Fetch
  /\ LocalIndex(operand) = Len(locals)
  /\ ~IsNull(used) /\ IsObject(mem[used])
  /\ locals' = Append(locals, used) /\ Advance /\ UNCHANGED <<mem, used>>

\* The next free number turns the object on top into a local where it lies.
StoreNew(operand) ==
  /\ Fetch
  /\ ~IsLocalVariable(0)
  /\ LocalIndex(operand) = Len(locals)
  /\ IF IsNull(used) \/ ~IsObject(mem[used])
       THEN OccurException("STACK_EMPTY")
       ELSE locals' = Append(locals, used) /\ Advance /\ UNCHANGED <<mem, used>>

\* The objects that swap and store exchange are of one size, as far as the constants
\* restrict the bytecode: of structures and arrays the code compares less.
Exchangeable(s, t) == MixedSizes \/ ObjectSize[s] = ObjectSize[t]

\* Any other number moves the object on top over the local of that number; of an
\* array the object on top stays.
StoreOver(operand) ==
  /\ Fetch
  /\ ~IsLocalVariable(0)
  /\ LocalIndex(operand) < Len(locals)
  /\ LET offset == locals[LocalIndex(operand) + 1]
         top    == mem[used]
         object == ObjectAt(used)
         stored == [o \in 1 .. StackSize |->
                      IF o \in offset - Len(object) + 1 .. offset
                        THEN object[offset - o + 1] ELSE mem[o]]
     IN  IF IsNull(used)
           THEN OccurException("STACK_EMPTY")
         ELSE IF IsUnreadable(offset)
           THEN Crash
         ELSE IF ~SameType(top.shape, mem[offset].shape)
           THEN OccurException("STACK_DIFFERENTTYPE")
         ELSE IF ~IsObject(top)
           THEN OccurException("STACK_EMPTY")
         ELSE IF top.shape \in Arrays /\ Count[top.shape] # Count[mem[offset].shape]
           THEN OccurException("ARRAY_COUNT_DIFFERENTCOUNT")
         ELSE /\ top.shape \in Arrays => Exchangeable(top.shape, mem[offset].shape)
              /\ used' = IF top.shape \in Arrays THEN used ELSE used - Len(object)
              /\ mem' = Trimmed(stored, used')
              /\ Advance
              /\ UNCHANGED locals

InterpretStore(operand) ==
  \/ StoreNew(operand)
  \/ StoreOver(operand)
  \/ /\ Fetch
     /\ IF IsLocalVariable(0)
          THEN OccurException("STACK_EMPTY")
          ELSE /\ LocalIndex(operand) > Len(locals)
               /\ OccurException("LOCALVARIABLE_INVALIDINDEX")

\* copy: a structure's fields are copied from the interpreter's own variable
\* "type", and an array is placed one header above itself.
Duplicate(object) ==
  IF object[1].shape \in Structs
    THEN [i \in 1 .. Len(object) |-> IF i = 1 THEN object[1] ELSE Raw]
    ELSE object

InterpretCopy ==
  /\ Fetch
  /\ IF IsLocalVariable(0) \/ IsNull(used)
       THEN OccurException("STACK_EMPTY")
     ELSE IF ~IsObject(mem[used]) \/ used + TypeSize[mem[used].shape] > StackSize
       THEN OccurException("STACK_OVERFLOW")
     ELSE /\ used' = used + TypeSize[mem[used].shape]
          /\ mem' = Placed(mem, Duplicate(ObjectAt(used)), used')
          /\ Advance
          /\ UNCHANGED locals

\* The cells swapped with the object on top lie just below it, as many as the
\* object on top has; the headers of structures and arrays stay.
Swapped(size, first) ==
  [o \in 1 .. StackSize |->
     IF used - o + 1 \in first .. size THEN mem[o - size]
     ELSE IF used - size - o + 1 \in first .. size THEN mem[o + size]
     ELSE mem[o]]

InterpretSwap ==
  /\ Fetch
  /\ LET top    == mem[used].shape
         size   == ObjectSize[top]
         below  == mem[used - size].shape
     IN  IF IsNull(used) \/ ~IsObject(mem[used]) \/ IsLocalVariable(0) \/ IsLocalVariable(size)
           THEN OccurException("STACK_EMPTY")
         ELSE IF IsNull(used - size)
           THEN IF top \in Scalars THEN OccurException("STACK_EMPTY") ELSE Crash
         ELSE IF \/ top \in Scalars /\ below # top
                 \/ top \in Structs /\ below \notin Structs
                 \/ top \in Arrays /\ below \notin Arrays
           THEN OccurException("STACK_DIFFERENTTYPE")
         ELSE IF top \in Arrays /\ Count[below] # Count[top]
           THEN OccurException("ARRAY_COUNT_DIFFERENTCOUNT")
         ELSE IF used - 2 * size < 0
           THEN Crash
         ELSE /\ Exchangeable(top, below)
              /\ mem' = Swapped(size, IF top \in Scalars THEN 1 ELSE 2)
              /\ Advance
              /\ UNCHANGED <<used, locals>>

InvalidOperand(shape) ==
  IF shape \in Structs THEN "STRUCTURE_INVALIDFORSTRUCTURE" ELSE "ARRAY_INVALIDFORARRAY"

\* What follows when a scalar is on top.
ScalarOnTop(instruction) ==
  IF IsNull(used) \/ ~IsObject(mem[used])
    THEN OccurException("STACK_EMPTY")
  ELSE IF mem[used].shape \notin Scalars
    THEN OccurException(InvalidOperand(mem[used].shape))
  ELSE instruction

\* What follows when a number is on top.
NumberOnTop(instruction) ==
  ScalarOnTop(IF mem[used].shape \notin Numbers
                THEN OccurException("POINTER_INVALIDFORPOINTER")
                ELSE instruction)

\* PopTwoSameType and PopTwoSameTypeAndPushOne: what follows when the two scalars
\* are of one type, and neither is the newest local variable.
PopTwoSameType(instruction) ==
  IF IsLocalVariable(0) \/ IsLocalVariable(1) \/ IsNull(used - 1)
    THEN OccurException("STACK_EMPTY")
  ELSE IF mem[used - 1].shape # mem[used].shape
    THEN OccurException("STACK_DIFFERENTTYPE")
  ELSE instruction

\* The scalars on top, as many as operands, are replaced by a result of the type.
Yield(operands, type, results) ==
  /\ \E result \in results :
       mem' = Placed(mem, <<[shape |-> type, val |-> result]>>, used - operands + 1)
  /\ used' = used - operands + 1
  /\ Advance
  /\ UNCHANGED locals

\* add, sub, mul, imul; and, or, xor, shl, shr, sar.
InterpretOperation ==
  Fetch /\ NumberOnTop(PopTwoSameType(Yield(2, mem[used].shape, Values)))

\* The scalar on top is no longer on the stack after the exception.
OccurAndPop(code) ==
  /\ Reduce(1)
  /\ exception' = [Function |-> frame.Function, InstructionIndex |-> frame.Caller, Code |-> code]
  /\ status' = "exception"
  /\ UNCHANGED <<frame, depth, locals>>

\* div, idiv, mod, imod: the divisor is popped before it is compared with zero.
InterpretDiv ==
  Fetch /\ NumberOnTop(PopTwoSameType(
    IF mem[used].val = Zero THEN OccurAndPop("ARITHMETIC_DIVIDEBYZERO")
                            ELSE Yield(2, mem[used].shape, Values)))

\* cmp, icmp: whatever was compared, an int is pushed.
InterpretCmp ==
  Fetch /\ ScalarOnTop(PopTwoSameType(Yield(2, IntType, Values)))

\* neg, not.
InterpretNeg ==
  /\ Fetch
  /\ IF IsLocalVariable(0) THEN OccurException("STACK_EMPTY")
     ELSE NumberOnTop(Yield(1, mem[used].shape, Values))

\* toi, tol, tod: a value of the type itself is kept.
TypeCast ==
  /\ Fetch
  /\ IF IsLocalVariable(0) THEN OccurException("STACK_EMPTY")
     ELSE ScalarOnTop(
       IF mem[used].shape \in GCPointers THEN OccurException("POINTER_INVALIDFORPOINTER")
       ELSE \E type \in Numbers :
              Yield(1, type, IF type = mem[used].shape THEN {mem[used].val} ELSE Values))

\* top, the cast to a pointer, has no case in the switch of the loop.
Unhandled == Fetch /\ Advance /\ UNCHANGED <<mem, used, locals>>

\* jmp, and je to jbe: the tested scalar leaves the stack only if the jump is taken.
InterpretJmp ==
  /\ Fetch
  /\ \E label \in 0 .. InstructionCount[frame.Function] - 1 :
       frame' = [frame EXCEPT !.Caller = label]
  /\ UNCHANGED <<mem, used, depth, locals, exception, status>>

JumpCondition ==
  /\ Fetch
  /\ IF IsLocalVariable(0) \/ IsNull(used) \/ ~IsObject(mem[used])
       THEN OccurException("STACK_EMPTY")
     ELSE IF mem[used].shape \notin Scalars
       THEN OccurException(InvalidOperand(mem[used].shape))
     ELSE \/ Advance /\ UNCHANGED <<mem, used, locals>>
          \/ /\ \E label \in 0 .. InstructionCount[frame.Function] - 1 :
                  frame' = [frame EXCEPT !.Caller = label]
             /\ Reduce(1)
             /\ UNCHANGED <<depth, locals, exception, status>>

-----------------------------------------------------------------------------
(* Instructions on pointers *)

\* null, new, gcnull and gcnew.
InterpretNew == Fetch /\ PushAny(Pointers)

InterpretLea(operand) ==
  /\ Fetch
  /\ IF LocalIndex(operand) >= Len(locals)
       THEN OccurException("LOCALVARIABLE_OUTOFRANGE")
       ELSE PushAny(Pointers \ GCPointers)

\* anew and agcnew: the count is replaced by a pointer, for which there must be room
\* besides.
InterpretANew ==
  Fetch /\ CountOnTop(IF used + 1 > StackSize
                        THEN OccurException("STACK_OVERFLOW")
                        ELSE \E type \in Pointers : Yield(1, type, Values))

\* What follows when a pointer is on top.
PointerOnTop(instruction) ==
  IF IsLocalVariable(0) \/ IsNull(used)
    THEN OccurException("STACK_EMPTY")
  ELSE IF mem[used].shape \notin Pointers
    THEN OccurException("POINTER_NOTPOINTER")
  ELSE instruction

\* The pointer is null, or leads to nothing that the instruction takes.
BadTarget == \E code \in PointerErrors : OccurException(code)

\* delete takes no pointers to managed objects.
InterpretDelete ==
  Fetch /\ PointerOnTop(
    IF mem[used].shape \in GCPointers THEN OccurException("POINTER_NOTPOINTER")
    ELSE BadTarget \/ (Reduce(1) /\ Advance /\ UNCHANGED locals))

\* inc, dec: of a target that is no number the pointer is popped all the same.
InterpretIncDec ==
  Fetch /\ PointerOnTop(
    \/ BadTarget
    \/ \E code \in PointerErrors : OccurAndPop(code)
    \/ Reduce(1) /\ Advance /\ UNCHANGED locals)

\* flea: the pointer is replaced by one to a field.
InterpretFLea ==
  Fetch /\ PointerOnTop(BadTarget \/ \E type \in Pointers \ GCPointers : Yield(1, type, Values))

\* count: the pointer is replaced by a number.
InterpretCount ==
  Fetch /\ PointerOnTop(BadTarget \/ \E type \in Numbers : Yield(1, type, Values))

\* alea: an index and the pointer below it, which may be the newest local, are replaced
\* by a pointer to an element.
InterpretALea ==
  /\ Fetch
  /\ IF IsLocalVariable(0) \/ IsNull(used)
       THEN OccurException("STACK_EMPTY")
     ELSE IF mem[used].shape \notin Numbers
       THEN OccurException("STACK_DIFFERENTTYPE")
     ELSE IF IsNull(used - 1)
       THEN OccurException("STACK_EMPTY")
     ELSE IF mem[used - 1].shape \notin Pointers
       THEN OccurException("POINTER_NOTPOINTER")
     ELSE BadTarget \/ \E type \in Pointers \ GCPointers : Yield(2, type, Values)

\* tload: the pointer is replaced by what it leads to.
InterpretTLoad ==
  Fetch /\ PointerOnTop(BadTarget \/ \E object \in Targets : ReplaceTop(object))

\* tstore: the object on top and the pointer below it are taken.
InterpretTStore ==
  /\ Fetch
  /\ LET size == SizeOf(mem[used])
     IN  IF \/ IsNull(used) \/ ~IsObject(mem[used])
            \/ IsLocalVariable(0) \/ IsLocalVariable(size) \/ IsNull(used - size)
           THEN OccurException("STACK_EMPTY")
         ELSE IF mem[used - size].shape \notin Pointers
           THEN OccurException("POINTER_NOTPOINTER")
         ELSE BadTarget \/ (Reduce(size + 1) /\ Advance /\ UNCHANGED locals)

-----------------------------------------------------------------------------
(* call and ret *)

\* The offsets met by a walk down the stack from base over n objects, each
\* taken to be as long as size says; a[n] is where the last one ends.
Walks(size, base, n) ==
  {a \in [0 .. n -> 0 .. base] :
     /\ a[0] = base
     /\ \A j \in 1 .. n : /\ a[j - 1] > 0 /\ IsObject(mem[a[j - 1]])
                         /\ a[j] = a[j - 1] - size[mem[a[j - 1]].shape]}

\* The walk over the arguments of a call, the first of them on top.
Arguments(n) == Walks(ObjectSize, used, n)

\* Mutant of Offsets: the first argument is the deepest.
OffsetsFromBottom(walk, n) == [j \in 1 .. n |-> walk[n - j]]

\* Where the headers of the arguments are, in the order of their numbers.
Offsets(walk, n) == [j \in 1 .. n |-> walk[j - 1]]

\* What the bytecode passes, as far as the constants restrict it.
Permitted(walk, n) ==
  ~LocalArguments => \A j \in 0 .. n - 1 : \A i \in 1 .. Len(locals) : locals[i] # walk[j]

\* Mutant of Enter: the frame is taken to begin at the last argument.
EnterBelow(function, walk, caller) ==
  /\ PushObject(<<[shape |-> NoneType, val |-> frame]>>)
  /\ frame' = [StackBegin |-> used, VariableBegin |-> Len(locals),
               Caller |-> caller, Function |-> function]
  /\ locals' = locals \o Offsets(walk, Arity[function])
  /\ depth' = depth + 1

\* The new frame lies above the arguments, which become its first locals.
Enter(function, walk, caller) ==
  /\ PushObject(<<[shape |-> NoneType, val |-> frame]>>)
  /\ frame' = [StackBegin |-> used + 1, VariableBegin |-> Len(locals),
               Caller |-> caller, Function |-> function]
  /\ locals' = locals \o Offsets(walk, Arity[function])
  /\ depth' = depth + 1

\* The walk meets the bottom of the stack or the frame of the caller.  The
\* exception is recorded while m_StackFrame is already the callee's; at the
\* bottom the arguments met so far stay in m_LocalVariables.
CallFails(function) ==
  \E n \in 0 .. Arity[function] - 1 : \E walk \in Arguments(n) :
    /\ ~(walk[n] > 0 /\ IsObject(mem[walk[n]]))
    /\ Occur(function, IF function \in Natives THEN 0 ELSE -1, "STACK_EMPTY")
    /\ locals' = IF walk[n] = 0 THEN locals \o Offsets(walk, n) ELSE locals

\* Mutant of CallFunction: Caller is 0 when call ends, and the loop increments it.
CallFunctionAtOne(function) ==
  /\ function \in Functions
  /\ \E walk \in Arguments(Arity[function]) :
       /\ Permitted(walk, Arity[function])
       /\ Enter(function, walk, 1)
       /\ UNCHANGED <<exception, status>>

\* Caller is -1 when call ends, and the loop increments it.
CallFunction(function) ==
  /\ function \in Functions
  /\ \E walk \in Arguments(Arity[function]) :
       /\ Permitted(walk, Arity[function])
       /\ Enter(function, walk, 0)
       /\ UNCHANGED <<exception, status>>

\* Mutant of Return: the arguments stay on the stack.
ReturnAbove(function, top, result) ==
  /\ used' = top + Len(result)
  /\ mem' = Placed(mem, result, used')

\* ret from a frame that lies at offset top + 1: the arguments are popped,
\* type->Size cells each, and the result is moved on top of what is left.
Return(function, top, result) ==
  \E walk \in Walks(TypeSize, top, Arity[function]) :
    /\ used' = walk[Arity[function]] + Len(result)
    /\ mem' = Placed(mem, result, used')

\* A result of some shape does not fit above the frame.
LacksRoom(function) ==
  /\ HasResult[function]
  /\ \E s \in Shapes : used + 1 + ObjectSize[s] > StackSize

\* A virtual function throws; or nobody noticed that its result was not pushed,
\* and ret finds none, or the function wrote to the object it did not get.  What it
\* pushed before it threw is left out: nothing runs afterwards.
NativeFails(function, walk) ==
  \/ /\ Enter(function, walk, 0)
     /\ \E code \in {"STDLIB"} \cup (IF LacksRoom(function) THEN {"STACK_EMPTY"} ELSE {}) :
          exception' = [Function |-> function, InstructionIndex |-> 0, Code |-> code]
     /\ status' = "exception"
  \/ LacksRoom(function) /\ Crash

\* A virtual function runs and returns inside the call: under its frame it can
\* only push, and what it leaves on top is its result.
CallNative(function) ==
  /\ function \in Natives
  /\ \E walk \in Arguments(Arity[function]) :
       /\ Permitted(walk, Arity[function])
       /\ \/ NativeFails(function, walk)
          \/ /\ IF HasResult[function]
                  THEN \E s \in Shapes : \E value \in Values :
                         /\ used + 1 + ObjectSize[s] <= StackSize
                         /\ Return(function, used, NewObject(s, value))
                  ELSE Return(function, used, <<>>)
             /\ Advance
             /\ UNCHANGED locals

InterpretCall ==
  /\ Fetch
  /\ \E function \in Callables :
       IF used + 1 > StackSize
         THEN OccurException("STACK_OVERFLOW")
         ELSE CallFails(function) \/ CallFunction(function) \/ CallNative(function)

InterpretRet ==
  /\ Fetch
  /\ LET function == frame.Function
         begin    == frame.StackBegin
         result   == IF HasResult[function] THEN ObjectAt(used) ELSE <<>>
     IN  IF depth = 0
           THEN /\ frame' = [frame EXCEPT !.Caller = InstructionCount[function]]
                /\ UNCHANGED <<mem, used, depth, locals, exception, status>>
         ELSE IF HasResult[function] /\ (IsLocalVariable(0) \/ IsNull(used) \/ ~IsObject(mem[used]))
           THEN OccurException("STACK_EMPTY")
         ELSE IF \/ frame.VariableBegin > Len(locals)
                 \/ mem[begin].shape # NoneType
                 \/ Walks(TypeSize, begin - 1, Arity[function]) = {}
           THEN Crash
         ELSE /\ Return(function, begin - 1, result)
              /\ frame' = [mem[begin].val EXCEPT !.Caller = @ + 1]
              /\ locals' = SubSeq(locals, 1, frame.VariableBegin)
              /\ depth' = depth - 1
              /\ UNCHANGED <<exception, status>>

-----------------------------------------------------------------------------

Next ==
  \/ InterpretPush \/ InterpretAPush \/ InterpretPop
  \/ \E operand \in Operands : InterpretLoad(operand) \/ InterpretStore(operand) \/ InterpretLea(operand)
  \/ InterpretCopy \/ InterpretSwap
  \/ InterpretOperation \/ InterpretDiv \/ InterpretCmp \/ InterpretNeg \/ TypeCast \/ Unhandled
  \/ InterpretNew \/ InterpretANew \/ InterpretDelete \/ InterpretIncDec
  \/ InterpretFLea \/ InterpretCount \/ InterpretALea \/ InterpretTLoad \/ InterpretTStore
  \/ InterpretJmp \/ JumpCondition
  \/ InterpretCall \/ InterpretRet
  \/ UnknownOperand \/ FallOff \/ Stopped

Spec == Init /\ [][Next]_vars
-----------------------------------------------------------------------------
(* Properties *)

\* The variables stay in their types, and nothing above m_Used is kept.
TypeOK ==
  /\ mem \in [1 .. StackSize -> Cells]
  /\ used \in 0 .. StackSize
  /\ \A o \in 1 .. StackSize : o > used => mem[o] = Raw
  /\ frame \in StackFrame
  /\ depth \in Nat
  /\ locals \in Seq(1 .. StackSize)
  /\ exception \in InterpreterException
  /\ status \in {"running", "finished", "exception", "crashed"}

\* In memory m, every object up to top lies above the bottom of the stack, holds
\* no saved frame, and contains the objects whose headers it contains.
NestedIn(m, top) ==
  \A o \in 1 .. top :
    /\ SizeOf(m[o]) <= o
    /\ \A p \in o - SizeOf(m[o]) + 1 .. o - 1 :
         m[p].shape # NoneType /\ o - SizeOf(m[o]) <= p - SizeOf(m[p])

\* copy, swap, store and ret never split an object or let it run into a saved
\* frame, although they copy and pop by sizes that differ for arrays.
ObjectsNested == NestedIn(mem, used)

\* What lies on top of the stack always starts with a header that somebody wrote:
\* the fields that copy leaves unwritten, and what its copy of an array leaves of the
\* array, are never taken for objects.  A local that was passed as an argument is
\* excepted: it may designate an element of an array, and a copied structure that is
\* stored there lays its fields bare when the array is copied and popped; and so does
\* an array that tload takes from the heap, if such a structure was stored there.
TopIsReadable == used > 0 => mem[used].shape # NoType

SavedFrames == {o \in 1 .. used : mem[o].shape = NoneType}

ActiveFrames == {frame} \cup {mem[o].val : o \in SavedFrames}

IsNewest(begin, offsets) ==
  IF offsets = {} THEN begin = 0
  ELSE begin \in offsets /\ \A o \in offsets : o <= begin

\* Following StackBegin from m_StackFrame visits every saved frame on the stack,
\* newest first, down to the entrypoint's, and m_Depth counts them: what ret
\* restores and GetCallStacks reports is the chain of callers, whatever the
\* bytecode did in between.
FrameChain ==
  /\ IsNewest(frame.StackBegin, SavedFrames)
  /\ \A o \in SavedFrames :
       IsNewest(mem[o].val.StackBegin, {p \in SavedFrames : p < o})
  /\ \A f \in ActiveFrames : f.StackBegin = 0 <=> f.Function = Entrypoint
  /\ depth = Cardinality(SavedFrames)

\* While a function is active its first locals are its arguments, one next to
\* the other just below its frame, although the callees of the function ran and
\* returned meanwhile.
ParametersBelowFrame ==
  \A f \in ActiveFrames : f.StackBegin > 0 =>
    \E walk \in Walks(ObjectSize, f.StackBegin - 1, Arity[f.Function]) :
      \A j \in 1 .. Arity[f.Function] :
        /\ f.VariableBegin + j <= Len(locals)
        /\ locals[f.VariableBegin + j] = walk[j - 1]

\* Every local of every active function designates an object that is still on
\* the stack.
LocalsDesignateObjects ==
  \A i \in 1 .. Len(locals) : locals[i] <= used /\ IsObject(mem[locals[i]])

\* The locals a function declared lie above its frame in the order of their
\* numbers, so that the only one that can be on top is the last, which is the
\* only one IsLocalVariable compares.
OwnLocalsAscend ==
  status = "running" =>
    LET first == IF depth = 0 THEN 1 ELSE frame.VariableBegin + Arity[frame.Function] + 1
    IN  \A i \in first .. Len(locals) :
          locals[i] > (IF i = first THEN frame.StackBegin ELSE locals[i - 1])

\* Where the arguments of the running function end.
ArgumentsEnd ==
  IF Arity[frame.Function] = 0 THEN frame.StackBegin - 1
  ELSE LET last == locals[frame.VariableBegin + Arity[frame.Function]]
       IN  last - SizeOf(mem[last])

\* Nothing a function does, its return included, changes the caller's objects
\* below the arguments, the caller's locals or, until it returns, its saved
\* frame.
CallerUntouched ==
  [][depth > 0 =>
       /\ \A o \in 1 .. ArgumentsEnd : mem'[o] = mem[o]
       /\ SubSeq(locals', 1, frame.VariableBegin) = SubSeq(locals, 1, frame.VariableBegin)
       /\ frame'.StackBegin >= frame.StackBegin => mem'[frame.StackBegin] = mem[frame.StackBegin]
    ]_vars

\* The arguments of the running function that are arrays.
ArrayArguments ==
  {i \in 1 .. Arity[frame.Function] : mem[locals[frame.VariableBegin + i]].shape \in Arrays}

\* A return takes the arguments off the caller's stack and nothing below them, leaves
\* the callee's result, unchanged, in their place, and leaves no part of an argument
\* there unless one of them is an array.
ReturnReplacesArguments ==
  [][depth' < depth =>
       LET result == IF HasResult[frame.Function] THEN ObjectAt(used) ELSE <<>>
           end    == used' - Len(result)
       IN  /\ end \in ArgumentsEnd .. frame.StackBegin - 1
           /\ ArrayArguments = {} => end = ArgumentsEnd
           /\ \A o \in 1 .. end : mem'[o] = mem[o]
           /\ \A i \in 1 .. Len(result) : mem'[used' - i + 1] = result[i]
    ]_vars

=============================================================================
