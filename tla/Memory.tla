------------------------------- MODULE Memory -------------------------------
(***************************************************************************)
(* The unmanaged heap (svm::Heap) and the instructions that reach it       *)
(* through pointers.                                                       *)
(*                                                                         *)
(* A block of calloc is a sequence of cells, and a cell is an object       *)
(* header with its value.  A structure is a header followed by its fields, *)
(* an array a header, whose value is the count, followed by its elements.  *)
(* A pointer is the block's address, which calloc may return again once    *)
(* the block is free, and the place of the cell it designates.             *)
(*                                                                         *)
(* What lies on the operand stack is the subject of CallStack.  Here an    *)
(* instruction finds on it any number, any pointer that the program may    *)
(* have got and kept, or the structure that was pushed last.  A program    *)
(* can get a pointer to every cell of its blocks, with flea and alea, and  *)
(* may keep it when the block is freed.                                    *)
(***************************************************************************)
EXTENDS Integers, Sequences, FiniteSets

CONSTANTS
  Addresses,    \* that calloc returns
  MaxCells,     \* the largest block calloc has memory for
  WordSize,     \* 2^64: counts, sizes and indices are std::uint64_t
  Literals,     \* counts, indices and longs the bytecode pushes
  Ints,         \* ints it pushes
  Structures,   \* structure types
  Fields,       \* the types of a structure's fields, which are fundamental
  NewTypes,     \* operands of new
  ElementTypes  \* operands of anew

CONSTANTS IntType, LongType, PointerType, ArrayType, Null

NumberTypes == {IntType, LongType}
FundamentalTypes == NumberTypes \cup {PointerType}
Types == FundamentalTypes \cup Structures \cup {ArrayType}
Numbers == 0 .. WordSize - 1
Pointer == [address : Addresses, index : Nat \ {0}]

ASSUME MemoryAssumption ==
  /\ WordSize \in Nat /\ MaxCells \in Nat /\ WordSize > 2 * MaxCells
  /\ Literals \subseteq Numbers /\ Ints \subseteq Numbers
  /\ Fields \in [Structures -> Seq(FundamentalTypes)]
  /\ NewTypes \subseteq FundamentalTypes \cup Structures
  /\ ElementTypes \subseteq FundamentalTypes \cup Structures
  /\ IntType # LongType /\ PointerType \notin NumberTypes
  /\ ArrayType \notin FundamentalTypes
  /\ Structures \cap (FundamentalTypes \cup {ArrayType}) = {}
  /\ Null \notin Pointer

VARIABLES
  heap,     \* m_UnmanagedHeap: the blocks, empty at the addresses that are free
  known,    \* addresses that the program has got
  top,      \* the structure on top of the stack, if there is one
  status    \* "running", the code of m_Exception, or how the machine went wrong

memoryVars == <<heap, known, top, status>>

ExceptionCodes ==
  {"STACK_EMPTY", "STACK_OVERFLOW", "STACK_DIFFERENTTYPE", "TYPE_OUTOFRANGE",
   "POINTER_NOTPOINTER", "POINTER_NULLPOINTER", "POINTER_UNKNOWNADDRESS",
   "POINTER_INVALIDFORPOINTER", "STRUCTURE_NOTSTRUCTURE", "STRUCTURE_FIELD_OUTOFRANGE",
   "STRUCTURE_INVALIDFORSTRUCTURE", "ARRAY_NOTARRAY", "ARRAY_INDEX_OUTOFRANGE",
   "ARRAY_COUNT_CANNOTBEZERO", "ARRAY_COUNT_DIFFERENTCOUNT", "ARRAY_INVALIDFORARRAY"}

\* A null pointer or freed memory is dereferenced, a block is written beyond its
\* end, or a size or an index was computed modulo WordSize.
Failures == {"null", "freed", "overrun", "wrapped"}

-----------------------------------------------------------------------------
(* Blocks *)

Zero(type) == IF type = PointerType THEN Null ELSE 0

ObjectSize(type) == IF type \in Structures THEN 1 + Len(Fields[type]) ELSE 1

\* The type of the i-th cell of an object that is no array.
CellType(type, i) == IF i = 1 THEN type ELSE Fields[type][i - 1]

\* InitStructure, or the header of a fundamental object, in the zeroes of calloc.
NewObject(type) ==
  [i \in 1 .. ObjectSize(type) |-> [type |-> CellType(type, i), val |-> Zero(CellType(type, i))]]

\* InitArray.
NewArray(type, count) ==
  [i \in 1 .. 1 + count * ObjectSize(type) |->
     IF i = 1 THEN [type |-> ArrayType, val |-> count]
     ELSE NewObject(type)[((i - 2) % ObjectSize(type)) + 1]]

Free(h) == {a \in Addresses : h[a] = <<>>}

\* AllocateUnmanagedHeap: the addresses that calloc may return for the block.
Allocatable(h, block) == IF Len(block) > MaxCells THEN {} ELSE Free(h)

First(a) == [address |-> a, index |-> 1]
Moved(p, n) == [p EXCEPT !.index = @ + n]

\* The pointer designates a cell of a block that is allocated.
IsLive(h, p) == p.index <= Len(h[p.address])

Cell(h, p) == h[p.address][p.index]

Written(h, p, object) ==
  [h EXCEPT ![p.address] =
     [i \in DOMAIN @ |-> IF i \in p.index .. p.index + Len(object) - 1
                           THEN object[i - p.index + 1] ELSE @[i]]]

ObjectAt(h, p) == SubSeq(h[p.address], p.index, p.index + ObjectSize(Cell(h, p).type) - 1)

\* DeallocateUnmanagedHeap: only the address of a block frees it.
IsAddress(h, p) == p.index = 1 /\ h[p.address] # <<>>
Deallocated(h, p) == IF IsAddress(h, p) THEN [h EXCEPT ![p.address] = <<>>] ELSE h

-----------------------------------------------------------------------------
(* Instructions *)

MemoryInit ==
  /\ heap = [a \in Addresses |-> <<>>]
  /\ known = {} /\ top = <<>> /\ status = "running"

Fetch == status = "running"

\* OccurException, or a failure; what is stored no longer matters.
End(code) == status' = code /\ UNCHANGED <<heap, known, top>>

\* Pointers that the program may have to what is allocated, to objects of some
\* types; the others that it may have designate nothing.
Live(types) ==
  UNION {{[address |-> a, index |-> i] : i \in {j \in DOMAIN heap[a] : heap[a][j].type \in types}} :
           a \in known}

Dangling == known \cap Free(heap)

\* Operands of an instruction that are pointers; null pushes a null pointer.
Operands == {Null} \cup Live(Types) \cup {First(a) : a \in Dangling}

PointerObject(p) == <<[type |-> PointerType, val |-> p]>>

\* The instruction pushes the object and changes nothing else.
PushObject(object) ==
  top' = (IF object[1].type \in Structures THEN object ELSE <<>>) /\ UNCHANGED <<heap, known, status>>

\* The instruction takes its operands off the stack.
Consume(h) == heap' = h /\ top' = <<>> /\ UNCHANGED <<known, status>>

\* The pointer that an instruction, or a function, is given is null, leads to what was
\* freed, or to an object of none of the types that it is for.
Misses(types, null, wrong) ==
  \/ End(null)
  \/ Dangling # {} /\ End("freed")
  \/ Live(Types \ types) # {} /\ End(wrong)

\* An instruction finds no room, or no operands of the types it takes.
StackFails ==
  Fetch /\ \E code \in {"STACK_EMPTY", "STACK_OVERFLOW", "STACK_DIFFERENTTYPE",
                        "TYPE_OUTOFRANGE", "POINTER_NOTPOINTER"} : End(code)

\* The block is allocated and the program gets a pointer to it, or null.
Allocate(block) ==
  IF Allocatable(heap, block) = {}
    THEN PushObject(PointerObject(Null))
    ELSE \E a \in Allocatable(heap, block) :
           /\ heap' = [heap EXCEPT ![a] = block]
           /\ known' = known \cup {a}
           /\ top' = <<>>
           /\ UNCHANGED status

InterpretNew == Fetch /\ \E type \in NewTypes : Allocate(NewObject(type))

\* CalcArraySize, in cells.
ArraySize(type, count) == 1 + ObjectSize(type) * count

\* anew: InitArray writes as many elements as were asked for, into a block whose
\* size was computed modulo WordSize.
InterpretANew ==
  /\ Fetch
  /\ \E type \in ElementTypes : \E count \in Literals :
       IF count = 0
         THEN End("ARRAY_COUNT_CANNOTBEZERO")
       ELSE IF ArraySize(type, count) >= WordSize
         THEN End("wrapped")
       ELSE Allocate(NewArray(type, count))

\* delete of a null pointer does nothing.
InterpretDelete ==
  /\ Fetch
  /\ \/ Consume(heap)
     \/ \E p \in Operands \ {Null} :
          IF IsAddress(heap, p)
            THEN Consume(Deallocated(heap, p))
            ELSE End("POINTER_UNKNOWNADDRESS")

InterpretFLea ==
  /\ Fetch
  /\ \/ Misses(Structures, "POINTER_NULLPOINTER", "STRUCTURE_NOTSTRUCTURE")
     \/ Live(Structures) # {} /\ End("STRUCTURE_FIELD_OUTOFRANGE")
     \/ \E p \in Live(Structures) : \E i \in DOMAIN Fields[Cell(heap, p).type] :
          PushObject(PointerObject(Moved(p, i)))

\* The element of the array at p, which is as long as the type of the first one.
ElementAt(h, p, i) == Moved(p, 1 + i * ObjectSize(Cell(h, Moved(p, 1)).type))

\* Mutant of InBounds: the index may be the count.
InBoundsOrNext(h, p, i) == i <= Cell(h, p).val

InBounds(h, p, i) == i < Cell(h, p).val

InterpretALea ==
  /\ Fetch
  /\ \/ Misses({ArrayType}, "POINTER_NULLPOINTER", "ARRAY_NOTARRAY")
     \/ \E p \in Live({ArrayType}) : \E i \in Literals :
          IF ~InBounds(heap, p, i)
            THEN End("ARRAY_INDEX_OUTOFRANGE")
            ELSE PushObject(PointerObject(ElementAt(heap, p, i)))

\* count pushes a number.
InterpretCount ==
  /\ Fetch
  /\ \/ Misses({ArrayType}, "POINTER_NULLPOINTER", "ARRAY_NOTARRAY")
     \/ \E p \in Live({ArrayType}) : PushObject(<<[type |-> LongType, val |-> Cell(heap, p).val]>>)

\* tload of an array copies it to the stack.
InterpretTLoad ==
  /\ Fetch
  /\ \/ Misses(Types, "POINTER_NULLPOINTER", "STACK_OVERFLOW")
     \/ \E p \in Live(Types) : PushObject(ObjectAt(heap, p))

\* What tstore may find on top of the stack, arrays excepted.
Objects ==
  {<<[type |-> LongType, val |-> n]>> : n \in Literals}
    \cup {<<[type |-> IntType, val |-> n]>> : n \in Ints}
    \cup {PointerObject(q) : q \in Operands} \cup ({top} \ {<<>>})

\* Mutant of Assignable: the type of what is overwritten is not compared.
AnyObject(p) == Objects

Assignable(p) == {object \in Objects : object[1].type = Cell(heap, p).type}

DRefAndAssign(p) ==
  \E object \in Assignable(p) : Consume(Written(heap, p, object))

\* An array of the same count is accepted, and not copied.
DRefAndAssignArray(p) ==
  Cell(heap, p).type = ArrayType /\ (End("ARRAY_COUNT_DIFFERENTCOUNT") \/ Consume(heap))

\* What is on the stack may always be of another type than what is overwritten.
InterpretTStore ==
  /\ Fetch
  /\ \/ End("STACK_DIFFERENTTYPE")
     \/ Misses(Types, "POINTER_NULLPOINTER", "STACK_DIFFERENTTYPE")
     \/ \E p \in Live(Types) : DRefAndAssign(p) \/ DRefAndAssignArray(p)

\* Mutant of IncDec: the number is no longer one of its width.
IncDecWide(p, delta) ==
  Consume(Written(heap, p, <<[type |-> Cell(heap, p).type, val |-> Cell(heap, p).val + delta]>>))

\* inc and dec change the number that a pointer designates, to one of those that it pushes.
IncDec(p, delta) ==
  LET n == (Cell(heap, p).val + delta) % WordSize
  IN  /\ n \in (IF Cell(heap, p).type = IntType THEN Ints ELSE Literals)
      /\ Consume(Written(heap, p, <<[type |-> Cell(heap, p).type, val |-> n]>>))

InterpretIncDec ==
  /\ Fetch
  /\ \/ Live(Structures) # {} /\ End("STRUCTURE_INVALIDFORSTRUCTURE")
     \/ Live({PointerType}) # {} /\ End("POINTER_INVALIDFORPOINTER")
     \/ Misses(NumberTypes, "POINTER_NULLPOINTER", "ARRAY_INVALIDFORARRAY")
     \/ \E p \in Live(NumberTypes) : \E delta \in {-1, 1} : IncDec(p, delta)

MemoryNext ==
  \/ InterpretNew \/ InterpretANew \/ InterpretDelete
  \/ InterpretFLea \/ InterpretALea \/ InterpretCount
  \/ InterpretTLoad \/ InterpretTStore \/ InterpretIncDec
  \/ StackFails

MemorySpec == MemoryInit /\ [][MemoryNext]_memoryVars

-----------------------------------------------------------------------------
(* Properties *)

HasType(val, type) ==
  CASE type = PointerType -> val = Null \/ val \in Pointer
    [] type \in NumberTypes \cup {ArrayType} -> val \in Numbers
    [] OTHER -> val = 0

IsObject(block) ==
  \A i \in DOMAIN block : block[i].type \in Types /\ HasType(block[i].val, block[i].type)

MemoryTypeOK ==
  /\ \A a \in Addresses : Len(heap[a]) <= MaxCells /\ IsObject(heap[a])
  /\ known \subseteq Addresses /\ \A a \in Addresses : heap[a] # <<>> => a \in known
  /\ top # <<>> => top[1].type \in Structures /\ Len(top) = ObjectSize(top[1].type) /\ IsObject(top)

\* The cells of a block are those of the object that new or anew made there: none
\* was overwritten by a piece of another object.
IsWhole(block) ==
  IF block[1].type # ArrayType
    THEN /\ Len(block) = ObjectSize(block[1].type)
         /\ \A i \in DOMAIN block : block[i].type = CellType(block[1].type, i)
    ELSE LET type == block[2].type
         IN  /\ Len(block) = ArraySize(type, block[1].val)
             /\ \A i \in 2 .. Len(block) :
                  block[i].type = CellType(type, ((i - 2) % ObjectSize(type)) + 1)

\* Whatever the program writes through its pointers, with tstore, array.copy or the
\* functions on strings, every block remains one object: the types that the other
\* instructions read in it are those that were allocated (DRefAndAssign compares the
\* types, array.copy those of the elements).
BlocksStayWhole == Fetch => \A a \in Addresses : heap[a] # <<>> => IsWhole(heap[a])

\* An index that alea accepts designates an element of the array, at its header: not
\* what follows the array, nor a cell inside an element.
LeaDesignatesElement ==
  Fetch => \A p \in Live({ArrayType}) : \A i \in Literals :
    InBounds(heap, p, i) =>
      LET q == ElementAt(heap, p, i)
      IN  IsLive(heap, q) /\ Cell(heap, q).type = Cell(heap, Moved(p, 1)).type
            /\ q.index + ObjectSize(Cell(heap, q).type) - 1 <= Len(heap[p.address])

=============================================================================
