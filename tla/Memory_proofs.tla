---------------------------- MODULE Memory_proofs ----------------------------
(***************************************************************************)
(* What the memory instructions keep, for blocks of any size, any types of *)
(* structures and any width of the counts.                                 *)
(***************************************************************************)
EXTENDS Memory, SequenceTheorems, TLAPS

ObjectTypes == FundamentalTypes \cup Structures

Values == {Null} \cup Pointer \cup Numbers
Cells == [type : Types, val : Values]

\* An object that is no array, whole.
IsWholeObject(object) ==
  /\ object \in Seq(Cells) /\ object # <<>> /\ IsObject(object)
  /\ object[1].type \in ObjectTypes
  /\ Len(object) = ObjectSize(object[1].type)
  /\ \A i \in DOMAIN object : object[i].type = CellType(object[1].type, i)

\* A block that is free, or holds one object.  Arrays have elements, and these are
\* no arrays.
IsBlock(block) ==
  /\ block \in Seq(Cells) /\ Len(block) <= MaxCells /\ IsObject(block)
  /\ block # <<>> =>
       /\ IsWhole(block)
       /\ block[1].type = ArrayType => block[1].val \in Nat \ {0} /\ block[2].type \in ObjectTypes

Sane(h) == h \in [Addresses -> Seq(Cells)] /\ \A a \in Addresses : IsBlock(h[a])

\* The inductive invariant.
Inv ==
  /\ Sane(heap)
  /\ \A a \in Addresses : heap[a] # <<>> => a \in known
  /\ known \subseteq Addresses
  /\ top # <<>> => IsWholeObject(top) /\ top[1].type \in Structures

(* Arithmetic *)

LEMMA DivMod ==
  ASSUME NEW a \in Nat, NEW s \in Nat \ {0}
  PROVE  /\ a \div s \in Nat /\ a % s \in 0 .. s - 1
         /\ a = (s * (a \div s)) + (a % s)
OBVIOUS

LEMMA ModUnique ==
  ASSUME NEW s \in Nat \ {0}, NEW q \in Nat, NEW r \in 0 .. s - 1
  PROVE  (s * q + r) % s = r
OBVIOUS

LEMMA NextMultiple ==
  ASSUME NEW s \in Nat \ {0}, NEW i \in Nat, NEW n \in Nat, i < n
  PROVE  s * i \in Nat /\ s * n \in Nat /\ s * i + s <= s * n
OBVIOUS

(* Types *)

LEMMA SizeFacts ==
  ASSUME NEW type \in ObjectTypes
  PROVE  /\ ObjectSize(type) \in Nat \ {0}
         /\ CellType(type, 1) = type
         /\ type \notin Structures => ObjectSize(type) = 1
         /\ \A i \in 2 .. ObjectSize(type) : CellType(type, i) \in FundamentalTypes
<1>1. CASE type \in Structures
  <2>1. Fields[type] \in Seq(FundamentalTypes)
    BY <1>1, MemoryAssumption
  <2>2. Len(Fields[type]) \in Nat /\ \A i \in 1 .. Len(Fields[type]) : Fields[type][i] \in FundamentalTypes
    BY <2>1
  <2> QED BY <1>1, <2>2 DEF ObjectSize, CellType
<1>2. CASE type \notin Structures
  BY <1>2 DEF ObjectSize, CellType
<1> QED BY <1>1, <1>2

LEMMA TypeFacts ==
  /\ FundamentalTypes \cap Structures = {} /\ ArrayType \notin ObjectTypes
  /\ Types = ObjectTypes \cup {ArrayType}
  /\ \A type \in ObjectTypes : Zero(type) \in Values /\ HasType(Zero(type), type)
  /\ \A n \in Numbers : n \in Nat /\ \A type \in NumberTypes \cup {ArrayType} : HasType(n, type)
<1>1. /\ FundamentalTypes \cap Structures = {} /\ ArrayType \notin ObjectTypes
      /\ Types = ObjectTypes \cup {ArrayType}
  BY MemoryAssumption DEF ObjectTypes, Types
<1>2. ASSUME NEW type \in ObjectTypes
      PROVE  Zero(type) \in Values /\ HasType(Zero(type), type)
  BY MemoryAssumption DEF ObjectTypes, FundamentalTypes, NumberTypes, Zero, Values, Numbers, HasType
<1>3. ASSUME NEW n \in Numbers, NEW type \in NumberTypes \cup {ArrayType}
      PROVE  n \in Nat /\ HasType(n, type)
  BY MemoryAssumption DEF Numbers, HasType, FundamentalTypes
<1>4. \A n \in Numbers : n \in Nat
  BY MemoryAssumption DEF Numbers
<1> QED BY <1>1, <1>2, <1>3, <1>4

LEMMA EmptyBlock == <<>> \in Seq(Cells) /\ IsBlock(<<>>)
<1>1. <<>> \in Seq(Cells) /\ Len(<<>>) = 0 /\ DOMAIN <<>> = {}
  OBVIOUS
<1>2. 0 <= MaxCells
  BY MemoryAssumption
<1> QED BY <1>1, <1>2 DEF IsBlock, IsObject

LEMMA NewObjectWhole ==
  ASSUME NEW type \in ObjectTypes
  PROVE  IsWholeObject(NewObject(type)) /\ NewObject(type)[1].type = type
<1> DEFINE object == NewObject(type)
           cell(i) == [type |-> CellType(type, i), val |-> Zero(CellType(type, i))]
<1>1. \A i \in 1 .. ObjectSize(type) : CellType(type, i) \in ObjectTypes
  BY SizeFacts DEF ObjectTypes
<1>2. \A i \in 1 .. ObjectSize(type) : cell(i) \in Cells
  BY <1>1, TypeFacts DEF Cells
<1>3. /\ object \in [1 .. ObjectSize(type) -> Cells]
      /\ \A i \in 1 .. ObjectSize(type) : object[i] = cell(i)
  BY <1>2 DEF NewObject
<1>4. ObjectSize(type) \in Nat /\ 1 \in 1 .. ObjectSize(type)
  BY SizeFacts
<1>5. /\ object \in Seq(Cells) /\ Len(object) = ObjectSize(type)
      /\ DOMAIN object = 1 .. ObjectSize(type)
  BY <1>3, <1>4, LenProperties, SeqDef
<1>6. object[1].type = type
  BY <1>3, <1>4, SizeFacts
<1>7. IsObject(object)
  BY <1>1, <1>3, <1>5, TypeFacts DEF IsObject
<1>8. object # <<>>
  BY <1>4, <1>5
<1> HIDE DEF object
<1>9. \A i \in DOMAIN object : object[i].type = CellType(type, i)
  BY <1>3, <1>5
<1>10. IsWholeObject(object)
  BY <1>5, <1>6, <1>7, <1>8, <1>9 DEF IsWholeObject
<1> QED BY <1>6, <1>10 DEF object

LEMMA NewObjectBlock ==
  ASSUME NEW type \in ObjectTypes, Len(NewObject(type)) <= MaxCells
  PROVE  IsBlock(NewObject(type))
<1> DEFINE object == NewObject(type)
<1>1. IsWholeObject(object) /\ object[1].type = type
  BY NewObjectWhole
<1>2. type # ArrayType
  BY TypeFacts
<1> HIDE DEF object
<1>3. IsWhole(object)
  BY <1>1, <1>2 DEF IsWhole, IsWholeObject
<1>4. IsBlock(object)
  BY <1>1, <1>2, <1>3 DEF IsBlock, IsWholeObject, object
<1> QED BY <1>4 DEF object

LEMMA NewArrayBlock ==
  ASSUME NEW type \in ObjectTypes, NEW count \in Numbers \ {0}
  PROVE  /\ Len(NewArray(type, count)) \in Nat
         /\ Len(NewArray(type, count)) <= MaxCells => IsBlock(NewArray(type, count))
<1> DEFINE array   == NewArray(type, count)
           element == NewObject(type)
           s       == ObjectSize(type)
           n       == 1 + count * s
           place(i) == ((i - 2) % s) + 1
<1>1. s \in Nat \ {0} /\ count \in Nat \ {0} /\ n \in Nat /\ n = ArraySize(type, count) /\ n >= 2
  <2>1. s \in Nat \ {0} /\ count \in Nat \ {0}
    BY SizeFacts, TypeFacts
  <2>2. count * s \in Nat /\ count * s >= 1 /\ count * s = s * count
    BY <2>1
  <2> HIDE DEF s
  <2>3. n = 1 + s * count
    BY <2>2
  <2> QED BY <2>1, <2>2, <2>3 DEF ArraySize, s
<1>2. IsWholeObject(element) /\ element[1].type = type
  BY NewObjectWhole
<1>3. \A i \in 1 .. s : element[i] \in Cells /\ element[i].type = CellType(type, i)
                          /\ HasType(element[i].val, element[i].type)
  BY <1>2 DEF IsWholeObject, IsObject
<1>4. \A i \in 2 .. n : place(i) \in 1 .. s
  <2> SUFFICES ASSUME NEW i \in 2 .. n PROVE place(i) \in 1 .. s
    OBVIOUS
  <2> HIDE DEF s
  <2>1. i - 2 \in Nat
    BY <1>1
  <2>2. (i - 2) % s \in 0 .. s - 1
    BY <1>1, <2>1, DivMod
  <2> QED BY <1>1, <2>2
<1>5. [type |-> ArrayType, val |-> count] \in Cells /\ HasType(count, ArrayType)
  BY TypeFacts DEF Cells, Values
<1>6. array = [i \in 1 .. n |-> IF i = 1 THEN [type |-> ArrayType, val |-> count] ELSE element[place(i)]]
  BY DEF NewArray
<1> HIDE DEF array, element, n, place
<1>7. \A i \in 2 .. n : element[place(i)] \in Cells
  BY <1>3, <1>4
<1>8. array \in [1 .. n -> Cells]
  BY <1>5, <1>6, <1>7
<1>9. array \in Seq(Cells) /\ Len(array) = n /\ DOMAIN array = 1 .. n
  BY <1>1, <1>8, LenProperties, SeqDef
<1>10. 1 \in 1 .. n /\ 2 \in 2 .. n /\ 2 \in 1 .. n /\ \A i \in 1 .. n : i # 1 => i \in 2 .. n
  BY <1>1
<1>11. array[1] = [type |-> ArrayType, val |-> count]
  BY <1>6, <1>10
<1>12. \A i \in 2 .. n : array[i] = element[place(i)]
  BY <1>1, <1>6
<1>13. place(2) = 1
  <2>1. (2 - 2) % s = 0
    BY <1>1
  <2> QED BY <2>1 DEF place
<1>14. array[2].type = type
  BY <1>2, <1>10, <1>12, <1>13
<1>15. IsObject(array)
  <2> SUFFICES ASSUME NEW i \in 1 .. n PROVE array[i].type \in Types /\ HasType(array[i].val, array[i].type)
    BY <1>9 DEF IsObject
  <2>1. CASE i = 1
    BY <1>5, <1>11, <2>1 DEF Types
  <2>2. CASE i # 1
    <3>1. array[i] = element[place(i)] /\ place(i) \in 1 .. s
      BY <1>4, <1>10, <1>12, <2>2
    <3> QED BY <1>3, <3>1 DEF Cells
  <2> QED BY <2>1, <2>2
<1>16. IsWhole(array)
  <2>1. \A i \in 2 .. n : array[i].type = CellType(type, ((i - 2) % s) + 1)
    BY <1>3, <1>4, <1>12 DEF place
  <2> HIDE DEF s
  <2>2. array[1].type = ArrayType /\ array[1].val = count
    BY <1>11
  <2> QED BY <1>1, <1>9, <1>14, <2>1, <2>2 DEF IsWhole, s
<1>17. array # <<>>
  BY <1>1, <1>9
<1>18. ASSUME Len(array) <= MaxCells
       PROVE  IsBlock(array)
  BY <1>1, <1>9, <1>11, <1>14, <1>15, <1>16, <1>17, <1>18, TypeFacts DEF IsBlock
<1> QED BY <1>1, <1>9, <1>18 DEF array

-----------------------------------------------------------------------------
(* What is found in a block *)

LEMMA BlockFacts ==
  ASSUME NEW block, IsBlock(block), NEW i \in DOMAIN block
  PROVE  /\ DOMAIN block = 1 .. Len(block) /\ Len(block) \in Nat /\ i \in Nat \ {0}
         /\ block[i] \in Cells /\ block[i].type \in Types /\ HasType(block[i].val, block[i].type)
         /\ block # <<>> /\ IsWhole(block)
         /\ block[1].type = ArrayType => block[1].val \in Nat \ {0} /\ block[2].type \in ObjectTypes
<1>1. block \in Seq(Cells) /\ Len(block) \in Nat /\ DOMAIN block = 1 .. Len(block)
  BY DEF IsBlock
<1>2. block # <<>>
  BY <1>1
<1> QED BY <1>1, <1>2 DEF IsBlock, IsObject

\* Where a header lies, the cells of its object follow.
LEMMA ObjectLies ==
  ASSUME NEW block, IsBlock(block), NEW i \in DOMAIN block, block[i].type \in ObjectTypes
  PROVE  /\ i + ObjectSize(block[i].type) - 1 <= Len(block)
         /\ \A k \in 0 .. ObjectSize(block[i].type) - 1 :
              block[i + k].type = CellType(block[i].type, k + 1)
<1> DEFINE size == ObjectSize(block[i].type)
<1>1. /\ DOMAIN block = 1 .. Len(block) /\ Len(block) \in Nat /\ i \in 1 .. Len(block)
      /\ IsWhole(block)
      /\ block[1].type = ArrayType => block[1].val \in Nat \ {0} /\ block[2].type \in ObjectTypes
  BY BlockFacts
<1>2. CASE block[i].type \in FundamentalTypes
  <2>1. size = 1 /\ CellType(block[i].type, 1) = block[i].type
    BY <1>2, SizeFacts, TypeFacts
  <2>2. \A k \in 0 .. size - 1 : k = 0 /\ i + k = i
    BY <1>1, <2>1
  <2> QED BY <1>1, <2>1, <2>2
<1>3. CASE block[i].type \in Structures /\ block[1].type # ArrayType
  <2>1. /\ Len(block) = ObjectSize(block[1].type)
        /\ \A j \in 1 .. Len(block) : block[j].type = CellType(block[1].type, j)
    BY <1>1, <1>3 DEF IsWhole
  <2>2. block[1].type \in ObjectTypes
    <3>1. 1 \in DOMAIN block
      BY <1>1
    <3> QED BY <1>3, <3>1, BlockFacts, TypeFacts
  <2>3. i = 1
    <3> SUFFICES ASSUME i # 1 PROVE FALSE
      OBVIOUS
    <3>1. i \in 2 .. ObjectSize(block[1].type)
      BY <1>1, <2>1
    <3> QED BY <1>1, <1>3, <2>1, <2>2, <3>1, SizeFacts, TypeFacts
  <2>4. \A k \in 0 .. size - 1 : i + k = k + 1 /\ k + 1 \in 1 .. Len(block)
    BY <1>1, <2>1, <2>3
  <2> QED BY <1>1, <2>1, <2>3, <2>4
<1>4. CASE block[i].type \in Structures /\ block[1].type = ArrayType
  <2> DEFINE type  == block[2].type
             s     == ObjectSize(type)
             count == block[1].val
  <2>1. count \in Nat \ {0} /\ type \in ObjectTypes /\ s \in Nat \ {0}
    BY <1>1, <1>4, SizeFacts
  <2>2. /\ Len(block) = 1 + s * count
        /\ \A j \in 2 .. Len(block) : block[j].type = CellType(type, ((j - 2) % s) + 1)
    BY <1>1, <1>4 DEF IsWhole, ArraySize
  <2> HIDE DEF s, count
  <2>3. i \in 2 .. Len(block)
    BY <1>1, <1>4, TypeFacts DEF ObjectTypes
  <2> DEFINE q == (i - 2) \div s
             r == (i - 2) % s
  <2>4. q \in Nat /\ r \in 0 .. s - 1 /\ i - 2 = (s * q) + r
    <3>1. i - 2 \in Nat
      BY <2>3
    <3> QED BY <2>1, <3>1, DivMod
  <2>5. r = 0
    <3> SUFFICES ASSUME r # 0 PROVE FALSE
      OBVIOUS
    <3>1. r + 1 \in 2 .. ObjectSize(type)
      BY <2>1, <2>4 DEF s
    <3>2. block[i].type = CellType(type, r + 1)
      BY <2>2, <2>3
    <3> QED BY <1>4, <2>1, <3>1, <3>2, SizeFacts, TypeFacts
  <2> HIDE DEF q
  <2>6. block[i].type = type
    <3>1. block[i].type = CellType(type, r + 1)
      BY <2>2, <2>3
    <3> QED BY <2>1, <2>5, <3>1, SizeFacts
  <2>7. size = s
    BY <2>6 DEF s
  <2> HIDE DEF r, size
  <2>8. s * q \in Nat /\ s * count \in Nat /\ i = s * q + 2
    <3>1. s * q \in Nat /\ s * count \in Nat
      BY <2>1, <2>4
    <3> QED BY <2>3, <2>4, <2>5, <3>1
  <2>9. q < count
    <3> SUFFICES ASSUME q >= count PROVE FALSE
      BY <2>1, <2>4
    <3>1. s * q >= s * count
      BY <2>1, <2>4
    <3> QED BY <2>2, <2>3, <2>8, <3>1
  <2>10. s * q + s <= s * count
    BY <2>1, <2>4, <2>9, NextMultiple
  <2>11. i + size - 1 <= Len(block)
    BY <2>1, <2>2, <2>7, <2>8, <2>10
  <2>12. ASSUME NEW k \in 0 .. size - 1
         PROVE  block[i + k].type = CellType(block[i].type, k + 1)
    <3>1. k \in 0 .. s - 1 /\ i + k \in 2 .. Len(block) /\ i + k - 2 = s * q + k
      BY <1>1, <2>1, <2>3, <2>7, <2>8, <2>11
    <3>2. (i + k - 2) % s = k
      BY <2>1, <2>4, <3>1, ModUnique
    <3> QED BY <2>2, <2>6, <3>1, <3>2
  <2> QED BY <2>11, <2>12 DEF size
<1> QED BY <1>2, <1>3, <1>4 DEF ObjectTypes

\* A pointer designates a cell.
LEMMA PlaceFacts ==
  ASSUME NEW h, Sane(h), NEW p \in Pointer, IsLive(h, p)
  PROVE  /\ p.address \in Addresses /\ IsBlock(h[p.address])
         /\ p.index \in DOMAIN h[p.address] /\ p.index \in 1 .. Len(h[p.address])
         /\ Cell(h, p) = h[p.address][p.index] /\ Cell(h, p) \in Cells
<1>1. p.address \in Addresses /\ p.index \in Nat \ {0}
  BY DEF Pointer
<1>2. IsBlock(h[p.address])
  BY <1>1 DEF Sane
<1>3. h[p.address] \in Seq(Cells) /\ Len(h[p.address]) \in Nat /\ DOMAIN h[p.address] = 1 .. Len(h[p.address])
  BY <1>2 DEF IsBlock
<1>4. p.index \in 1 .. Len(h[p.address])
  BY <1>1, <1>3 DEF IsLive
<1> QED BY <1>1, <1>2, <1>3, <1>4 DEF Cell

\* A pointer that an instruction finds on the stack designates an object of the type.
LEMMA LiveFacts ==
  ASSUME Inv, NEW types, NEW p \in Live(types)
  PROVE  /\ p \in Pointer /\ IsLive(heap, p) /\ p.address \in Addresses /\ IsBlock(heap[p.address])
         /\ p.index \in DOMAIN heap[p.address] /\ p.index \in 1 .. Len(heap[p.address])
         /\ Cell(heap, p) \in Cells /\ Cell(heap, p).type \in types
<1>1. PICK a \in known : \E i \in {j \in DOMAIN heap[a] : heap[a][j].type \in types} :
        p = [address |-> a, index |-> i]
  BY DEF Live
<1>2. PICK i \in DOMAIN heap[a] : heap[a][i].type \in types /\ p = [address |-> a, index |-> i]
  BY <1>1
<1>3. a \in Addresses /\ IsBlock(heap[a])
  BY DEF Inv, Sane
<1>4. DOMAIN heap[a] = 1 .. Len(heap[a]) /\ i \in Nat \ {0} /\ heap[a][i] \in Cells
  BY <1>3, BlockFacts
<1>5. p.address = a /\ p.index = i
  BY <1>2
<1> QED BY <1>2, <1>3, <1>4, <1>5 DEF Pointer, Cell, IsLive

LEMMA ObjectAtWhole ==
  ASSUME NEW h, Sane(h), NEW p \in Pointer, IsLive(h, p), Cell(h, p).type \in ObjectTypes
  PROVE  /\ IsWholeObject(ObjectAt(h, p)) /\ ObjectAt(h, p)[1].type = Cell(h, p).type
         /\ \A j \in 1 .. ObjectSize(Cell(h, p).type) : ObjectAt(h, p)[j] = h[p.address][p.index + (j - 1)]
<1> DEFINE block  == h[p.address]
           object == ObjectAt(h, p)
           type   == Cell(h, p).type
           size   == ObjectSize(type)
           i      == p.index
<1>1. IsBlock(block) /\ i \in DOMAIN block /\ type = block[i].type
  BY PlaceFacts
<1>2. /\ block \in Seq(Cells) /\ DOMAIN block = 1 .. Len(block) /\ Len(block) \in Nat
      /\ i \in Nat \ {0} /\ IsObject(block)
  BY <1>1, BlockFacts DEF IsBlock
<1>3. size \in Nat \ {0}
  BY SizeFacts
<1>4. /\ i + size - 1 <= Len(block)
      /\ \A k \in 0 .. size - 1 : block[i + k].type = CellType(type, k + 1)
  BY <1>1, ObjectLies
<1>5. object = SubSeq(block, i, i + size - 1)
  BY DEF ObjectAt
<1> HIDE DEF block, object, type, size, i
<1>6. /\ object \in Seq(Cells) /\ Len(object) = size
      /\ DOMAIN object = 1 .. size
      /\ \A j \in 1 .. size : object[j] = block[i + (j - 1)] /\ i + (j - 1) \in DOMAIN block /\ j - 1 \in 0 .. size - 1
  <2>1. SubSeq(block, i, i + size - 1) = [j \in 1 .. size |-> block[i + j - 1]]
    BY <1>2, <1>3, <1>4
  <2>2. \A j \in 1 .. size : i + (j - 1) \in 1 .. Len(block) /\ j - 1 \in 0 .. size - 1 /\ i + j - 1 = i + (j - 1)
    BY <1>2, <1>3, <1>4
  <2>3. \A j \in 1 .. size : object[j] = block[i + (j - 1)]
    BY <1>5, <2>1, <2>2
  <2>4. \A j \in 1 .. size : block[i + j - 1] \in Cells
    BY <1>2, <2>2
  <2>5. object \in [1 .. size -> Cells]
    BY <1>5, <2>1, <2>4
  <2> QED BY <1>2, <1>3, <2>2, <2>3, <2>5, LenProperties, SeqDef
<1>7. \A j \in 1 .. size : object[j].type = CellType(type, j)
  <2> SUFFICES ASSUME NEW j \in 1 .. size PROVE object[j].type = CellType(type, j)
    OBVIOUS
  <2>1. j - 1 \in 0 .. size - 1 /\ (j - 1) + 1 = j
    BY <1>3
  <2>2. block[i + (j - 1)].type = CellType(type, (j - 1) + 1)
    BY <1>4, <2>1
  <2> QED BY <1>6, <2>1, <2>2
<1>8. object[1].type = type /\ object # <<>>
  BY <1>3, <1>6, <1>7, SizeFacts DEF type
<1>9. IsObject(object)
  BY <1>2, <1>6 DEF IsObject
<1>10. IsWholeObject(object)
  BY <1>6, <1>7, <1>8, <1>9 DEF IsWholeObject, size, type
<1> QED BY <1>6, <1>8, <1>10 DEF object, type, block, size, i

\* Cells may be overwritten by others of the same types, the count of an array excepted.
LEMMA Retyped ==
  ASSUME NEW block, IsBlock(block), block # <<>>,
         NEW new \in Seq(Cells), Len(new) = Len(block), DOMAIN new = DOMAIN block,
         \A j \in DOMAIN block : new[j].type = block[j].type /\ HasType(new[j].val, new[j].type),
         block[1].type = ArrayType => new[1] = block[1]
  PROVE  IsBlock(new) /\ new # <<>>
<1>1. /\ block \in Seq(Cells) /\ Len(block) \in Nat /\ DOMAIN block = 1 .. Len(block)
      /\ IsWhole(block) /\ IsObject(block) /\ Len(block) <= MaxCells
      /\ block[1].type = ArrayType => block[1].val \in Nat \ {0} /\ block[2].type \in ObjectTypes
  BY DEF IsBlock
<1>2. 1 \in DOMAIN block
  BY <1>1
<1>3. ASSUME block[1].type = ArrayType PROVE 2 \in DOMAIN block
  <2>1. block[1].val \in Nat \ {0} /\ ObjectSize(block[2].type) \in Nat \ {0}
    BY <1>1, <1>3, SizeFacts
  <2> DEFINE size == ObjectSize(block[2].type)
  <2>2. Len(block) = 1 + size * block[1].val
    BY <1>1, <1>3 DEF IsWhole, ArraySize
  <2> HIDE DEF size
  <2>3. size \in Nat \ {0} /\ 0 < block[1].val
    BY <2>1 DEF size
  <2>4. size * 0 + size <= size * block[1].val
    BY <2>1, <2>3, NextMultiple
  <2> QED BY <1>1, <2>1, <2>2, <2>3, <2>4
<1>4. IsObject(new)
  BY <1>1 DEF IsObject
<1>5. IsWhole(new)
  <2>1. CASE block[1].type # ArrayType
    <3>1. /\ Len(block) = ObjectSize(block[1].type)
          /\ \A j \in DOMAIN block : block[j].type = CellType(block[1].type, j)
      BY <1>1, <2>1 DEF IsWhole
    <3> QED BY <1>2, <2>1, <3>1 DEF IsWhole
  <2>2. CASE block[1].type = ArrayType
    <3> DEFINE type == block[2].type
               place(j) == ((j - 2) % ObjectSize(type)) + 1
    <3>1. /\ Len(block) = ArraySize(type, block[1].val)
          /\ \A j \in 2 .. Len(block) : block[j].type = CellType(type, place(j))
      BY <1>1, <2>2 DEF IsWhole
    <3>2. new[1] = block[1] /\ new[2].type = type
      BY <1>3, <2>2
    <3>3. \A j \in 2 .. Len(new) : new[j].type = CellType(type, place(j))
      <4> HIDE DEF place
      <4>1. \A j \in 2 .. Len(new) : j \in DOMAIN block /\ j \in 2 .. Len(block)
        BY <1>1
      <4> QED BY <3>1, <4>1
    <3> QED BY <2>2, <3>1, <3>2, <3>3 DEF IsWhole
  <2> QED BY <2>1, <2>2
<1>6. new # <<>>
  BY <1>2
<1> QED BY <1>1, <1>2, <1>3, <1>4, <1>5, <1>6 DEF IsBlock

\* An object may be written where one of its type lies: the cells after the header
\* have the types that it has there, and no count changes.
LEMMA WrittenKeeps ==
  ASSUME NEW h, Sane(h), NEW p \in Pointer, IsLive(h, p), NEW object, IsWholeObject(object),
         object[1].type = Cell(h, p).type
  PROVE  /\ Sane(Written(h, p, object))
         /\ \A a \in Addresses : Written(h, p, object)[a] # <<>> <=> h[a] # <<>>
<1> DEFINE block == h[p.address]
           i     == p.index
           type  == object[1].type
           n     == Len(object)
           new   == [j \in DOMAIN block |-> IF j \in i .. i + n - 1 THEN object[j - i + 1] ELSE block[j]]
<1>1. /\ p.address \in Addresses /\ IsBlock(block) /\ i \in DOMAIN block
      /\ type = block[i].type /\ h \in [Addresses -> Seq(Cells)]
  BY PlaceFacts DEF Sane
<1>2. /\ type \in ObjectTypes /\ n = ObjectSize(type) /\ n \in Nat \ {0}
      /\ object \in Seq(Cells) /\ DOMAIN object = 1 .. n /\ IsObject(object)
      /\ \A j \in 1 .. n : object[j].type = CellType(type, j)
  BY SizeFacts DEF IsWholeObject
<1>3. Written(h, p, object) = [h EXCEPT ![p.address] = new]
  BY DEF Written
<1>4. /\ block \in Seq(Cells) /\ Len(block) \in Nat /\ DOMAIN block = 1 .. Len(block)
      /\ i \in Nat \ {0} /\ IsWhole(block) /\ IsObject(block) /\ Len(block) <= MaxCells
      /\ block[1].type = ArrayType => block[1].val \in Nat \ {0} /\ block[2].type \in ObjectTypes
      /\ \A j \in DOMAIN block : block[j] \in Cells
  BY <1>1, BlockFacts DEF IsBlock
<1>5. \A k \in 0 .. n - 1 : block[i + k].type = CellType(type, k + 1)
  <2>1. \A k \in 0 .. ObjectSize(block[i].type) - 1 : block[i + k].type = CellType(block[i].type, k + 1)
    BY <1>1, <1>2, ObjectLies
  <2> QED BY <1>1, <1>2, <2>1
<1> HIDE DEF block, i, type, n
<1>6. ASSUME NEW j \in DOMAIN block
      PROVE  /\ new[j] \in Cells /\ new[j].type = block[j].type
             /\ HasType(new[j].val, new[j].type)
  <2>1. CASE j \in i .. i + n - 1
    <3>1. i \in Int /\ n \in Int /\ j \in Int /\ i <= j /\ j <= i + n - 1
      BY <1>2, <1>4, <2>1
    <3>2. j - i \in 0 .. n - 1 /\ i + (j - i) = j /\ j - i + 1 \in 1 .. n
      BY <3>1
    <3>3. new[j] = object[j - i + 1]
      BY <2>1
    <3>4. block[j].type = CellType(type, j - i + 1)
      BY <1>5, <3>2
    <3> DEFINE k == j - i + 1
    <3> HIDE DEF new, k
    <3>5. object[k] \in Cells /\ object[k].type = CellType(type, k) /\ HasType(object[k].val, object[k].type)
      BY <1>2, <3>2 DEF IsObject, k
    <3> QED BY <3>3, <3>4, <3>5 DEF k
  <2>2. CASE j \notin i .. i + n - 1
    BY <1>4, <2>2 DEF IsObject
  <2> QED BY <2>1, <2>2
<1>7. ASSUME block[1].type = ArrayType
      PROVE  new[1] = block[1]
  <2>1. i # 1
    BY <1>1, <1>2, <1>7, TypeFacts
  <2> QED BY <1>1, <1>2, <1>4, <2>1
<1>8. new \in Seq(Cells) /\ Len(new) = Len(block) /\ DOMAIN new = DOMAIN block
  <2>1. new \in [1 .. Len(block) -> Cells]
    BY <1>4, <1>6
  <2> QED BY <1>4, <2>1, LenProperties, SeqDef
<1> HIDE DEF new
<1>9. block # <<>>
  BY <1>1, <1>4
<1>10. IsBlock(new) /\ new # <<>>
  BY <1>1, <1>6, <1>7, <1>8, <1>9, Retyped
<1>11. \A a \in Addresses : IsBlock(h[a])
  BY DEF Sane
<1>12. \A a \in Addresses : Written(h, p, object)[a] = IF a = p.address THEN new ELSE h[a]
  BY <1>1, <1>3
<1>13. Written(h, p, object) \in [Addresses -> Seq(Cells)]
  BY <1>1, <1>3, <1>8
<1> QED BY <1>1, <1>9, <1>10, <1>11, <1>12, <1>13 DEF block, Sane

\* A pointer to the header of an array designates its block, whose other cells are those
\* of elements of one type.
LEMMA ArrayLies ==
  ASSUME NEW h, Sane(h), NEW p \in Pointer, IsLive(h, p), Cell(h, p).type = ArrayType
  PROVE  /\ p.index = 1 /\ p = First(p.address) /\ p.address \in Addresses
         /\ h[p.address] # <<>> /\ IsBlock(h[p.address])
         /\ Cell(h, p) = h[p.address][1] /\ Cell(h, p).val \in Numbers \ {0}
         /\ Cell(h, Moved(p, 1)) = h[p.address][2] /\ h[p.address][2].type \in ObjectTypes
         /\ Len(h[p.address]) \in Nat
         /\ Len(h[p.address]) = 1 + ObjectSize(h[p.address][2].type) * Cell(h, p).val
         /\ \A j \in 2 .. Len(h[p.address]) :
              h[p.address][j].type =
                CellType(h[p.address][2].type, ((j - 2) % ObjectSize(h[p.address][2].type)) + 1)
<1> DEFINE block == h[p.address]
           type  == block[2].type
           s     == ObjectSize(type)
           count == block[1].val
<1>1. /\ IsBlock(block) /\ p.index \in DOMAIN block /\ p.index \in Nat \ {0} /\ p.address \in Addresses
      /\ block[p.index].type = ArrayType /\ Cell(h, p) = block[p.index]
  BY PlaceFacts DEF Pointer
<1>2. /\ Len(block) \in Nat /\ DOMAIN block = 1 .. Len(block) /\ IsWhole(block)
      /\ block[1].type = ArrayType => count \in Nat \ {0} /\ type \in ObjectTypes
  BY <1>1, BlockFacts
<1>3. block[1].type = ArrayType
  <2> SUFFICES ASSUME block[1].type # ArrayType PROVE FALSE
    OBVIOUS
  <2>1. 1 \in DOMAIN block /\ block[1].type \in ObjectTypes
    BY <1>1, <1>2, BlockFacts, TypeFacts
  <2>2. p.index \in 1 .. ObjectSize(block[1].type) /\ ArrayType = CellType(block[1].type, p.index)
    BY <1>1, <1>2 DEF IsWhole
  <2>3. p.index = 1 \/ p.index \in 2 .. ObjectSize(block[1].type)
    BY <2>1, <2>2, SizeFacts
  <2> QED BY <2>1, <2>2, <2>3, SizeFacts, TypeFacts DEF ObjectTypes
<1>4. /\ count \in Nat \ {0} /\ type \in ObjectTypes /\ s \in Nat \ {0}
      /\ Len(block) = 1 + s * count
      /\ \A j \in 2 .. Len(block) : block[j].type = CellType(type, ((j - 2) % s) + 1)
  BY <1>2, <1>3, SizeFacts DEF IsWhole, ArraySize
<1>5. p.index = 1
  <2> SUFFICES ASSUME p.index # 1 PROVE FALSE
    OBVIOUS
  <2>1. p.index \in 2 .. Len(block) /\ p.index - 2 \in Nat
    BY <1>1, <1>2
  <2>2. ((p.index - 2) % s) + 1 \in 1 .. s
    <3> HIDE DEF s
    <3>1. (p.index - 2) % s \in 0 .. s - 1
      BY <1>4, <2>1, DivMod
    <3> QED BY <1>4, <3>1
  <2>3. \A k \in 1 .. s : CellType(type, k) \in ObjectTypes
    BY <1>4, SizeFacts DEF ObjectTypes
  <2> QED BY <1>1, <1>4, <2>1, <2>2, <2>3, TypeFacts
<1>6. count \in Numbers
  <2>1. 1 \in DOMAIN block
    BY <1>1, <1>5
  <2>2. HasType(block[1].val, ArrayType)
    BY <1>1, <1>3, <2>1, BlockFacts
  <2> QED BY <2>2, MemoryAssumption DEF HasType, FundamentalTypes, NumberTypes
<1>7. p = First(p.address)
  BY <1>5 DEF First, Pointer
<1>8. Cell(h, Moved(p, 1)) = block[2]
  <2>1. Moved(p, 1).index = 2 /\ Moved(p, 1).address = p.address
    BY <1>5 DEF Moved, Pointer
  <2> QED BY <2>1 DEF Cell
<1>9. block # <<>>
  BY <1>1, BlockFacts
<1> QED BY <1>1, <1>2, <1>4, <1>5, <1>6, <1>7, <1>8, <1>9

\* Where the elements of an array lie.
LEMMA ElementLies ==
  ASSUME NEW h, Sane(h), NEW p \in Pointer, IsLive(h, p), Cell(h, p).type = ArrayType, NEW i \in Nat
  PROVE  /\ ObjectSize(h[p.address][2].type) \in Nat \ {0}
         /\ ObjectSize(h[p.address][2].type) * i \in Nat
         /\ ElementAt(h, p, i) \in Pointer /\ ElementAt(h, p, i).address = p.address
         /\ ElementAt(h, p, i).index = (ObjectSize(h[p.address][2].type) * i) + 2
         /\ i < Cell(h, p).val =>
              /\ IsLive(h, ElementAt(h, p, i))
              /\ Cell(h, ElementAt(h, p, i)).type = h[p.address][2].type
              /\ ElementAt(h, p, i).index + ObjectSize(h[p.address][2].type) - 1 <= Len(h[p.address])
<1> DEFINE block == h[p.address]
           type  == block[2].type
           s     == ObjectSize(type)
           count == Cell(h, p).val
           q     == ElementAt(h, p, i)
<1>1. /\ p.index = 1 /\ p.address \in Addresses /\ count \in Nat \ {0} /\ type \in ObjectTypes
      /\ Cell(h, Moved(p, 1)) = block[2] /\ Len(block) \in Nat
      /\ Len(block) = 1 + s * count
      /\ \A j \in 2 .. Len(block) : block[j].type = CellType(type, ((j - 2) % s) + 1)
  BY ArrayLies, TypeFacts
<1>2. s \in Nat \ {0}
  BY <1>1, SizeFacts
<1>3. q = [p EXCEPT !.index = 1 + (1 + i * s)]
  BY <1>1 DEF ElementAt, Moved, Pointer
<1> HIDE DEF s, q, block, count, type
<1>4. s * i \in Nat /\ i * s = s * i
  BY <1>2
<1>5. q \in Pointer /\ q.address = p.address /\ q.index = (s * i) + 2
  BY <1>1, <1>3, <1>4 DEF Pointer
<1>6. ASSUME i < count
      PROVE  /\ q.index \in 2 .. Len(block) /\ q.index + s - 1 <= Len(block)
             /\ block[q.index].type = type
  <2>1. s * count \in Nat /\ s * i + s <= s * count
    BY <1>1, <1>2, <1>6, NextMultiple
  <2>2. q.index \in 2 .. Len(block) /\ q.index + s - 1 <= Len(block) /\ q.index - 2 = s * i + 0
    <3>1. PICK x, y : x = s * i /\ y = s * count
      OBVIOUS
    <3>2. x \in Nat /\ x + s <= y /\ Len(block) = 1 + y /\ q.index = x + 2
      BY <1>1, <1>4, <1>5, <2>1, <3>1
    <3>3. q.index - 2 = x + 0 /\ q.index \in 2 .. Len(block) /\ q.index + s - 1 <= Len(block)
      <4>1. s >= 1 /\ s \in Nat /\ y \in Nat
        BY <1>1, <1>2, <2>1, <3>1
      <4> QED BY <3>2, <4>1
    <3> QED BY <3>1, <3>3
  <2>3. (q.index - 2) % s = 0
    <3>1. 0 \in 0 .. s - 1
      BY <1>2
    <3>2. (s * i + 0) % s = 0
      BY <1>2, <3>1, ModUnique
    <3> QED BY <2>2, <3>2
  <2>4. CellType(type, 1) = type
    BY <1>1, SizeFacts
  <2> QED BY <1>1, <2>2, <2>3, <2>4
<1>7. ASSUME i < count
      PROVE  IsLive(h, q) /\ Cell(h, q).type = type
  BY <1>1, <1>5, <1>6, <1>7 DEF IsLive, Cell, block
<1> QED BY <1>2, <1>4, <1>5, <1>6, <1>7 DEF block, type, s, count, q

-----------------------------------------------------------------------------
(* The instructions *)

LEMMA EndInv ==
  ASSUME Inv, NEW code, End(code)
  PROVE  Inv'
BY DEF Inv, End

LEMMA PushObjectInv ==
  ASSUME Inv, NEW object, object[1].type \in Structures => IsWholeObject(object), PushObject(object)
  PROVE  Inv'
<1>1. UNCHANGED <<heap, known>>
  BY DEF PushObject
<1>2. top' # <<>> => top' = object /\ object[1].type \in Structures
  BY DEF PushObject
<1> QED BY <1>1, <1>2 DEF Inv

LEMMA ConsumeInv ==
  ASSUME Inv, NEW h, Sane(h), Consume(h), \A a \in Addresses : h[a] # <<>> => heap[a] # <<>>
  PROVE  Inv'
BY DEF Inv, Consume

LEMMA PointerObjectType ==
  ASSUME NEW p
  PROVE  PointerObject(p)[1].type \notin Structures
BY TypeFacts DEF PointerObject, FundamentalTypes

LEMMA AllocateInv ==
  ASSUME Inv, NEW block, Len(block) \in Nat, Len(block) <= MaxCells => IsBlock(block), Allocate(block)
  PROVE  Inv'
<1>1. CASE Allocatable(heap, block) = {}
  BY <1>1, PointerObjectType, PushObjectInv DEF Allocate
<1>2. CASE Allocatable(heap, block) # {}
  <2>1. Len(block) <= MaxCells /\ Allocatable(heap, block) \subseteq Addresses
    BY <1>2, MemoryAssumption DEF Allocatable, Free
  <2>2. IsBlock(block) /\ block \in Seq(Cells)
    BY <2>1 DEF IsBlock
  <2>3. PICK a \in Addresses : /\ heap' = [heap EXCEPT ![a] = block]
                               /\ known' = known \cup {a} /\ top' = <<>>
    BY <1>2, <2>1 DEF Allocate
  <2>4. heap' \in [Addresses -> Seq(Cells)] /\ known' \subseteq Addresses
    BY <2>2, <2>3 DEF Inv, Sane
  <2>5. ASSUME NEW b \in Addresses
        PROVE  IsBlock(heap'[b]) /\ (heap'[b] # <<>> => b \in known')
    BY <2>2, <2>3 DEF Inv, Sane
  <2> QED BY <2>3, <2>4, <2>5 DEF Inv, Sane
<1> QED BY <1>1, <1>2

LEMMA NewInv == Inv /\ InterpretNew => Inv'
<1> SUFFICES ASSUME Inv, InterpretNew PROVE Inv'
  OBVIOUS
<1>1. PICK type \in NewTypes : Allocate(NewObject(type))
  BY DEF InterpretNew
<1>2. type \in ObjectTypes
  BY MemoryAssumption DEF ObjectTypes
<1>3. Len(NewObject(type)) \in Nat
  BY <1>2, NewObjectWhole DEF IsWholeObject
<1> QED BY <1>1, <1>2, <1>3, NewObjectBlock, AllocateInv

LEMMA ANewInv == Inv /\ InterpretANew => Inv'
<1> SUFFICES ASSUME Inv, InterpretANew, ~ \E code : End(code) PROVE Inv'
  BY EndInv
<1>1. PICK type \in ElementTypes, count \in Literals : count # 0 /\ Allocate(NewArray(type, count))
  BY DEF InterpretANew
<1>2. type \in ObjectTypes /\ count \in Numbers \ {0}
  BY <1>1, MemoryAssumption DEF ObjectTypes
<1> QED BY <1>1, <1>2, NewArrayBlock, AllocateInv

LEMMA DeleteInv == Inv /\ InterpretDelete => Inv'
<1> SUFFICES ASSUME Inv, InterpretDelete, ~ \E code : End(code) PROVE Inv'
  BY EndInv
<1>1. CASE Consume(heap)
  BY <1>1, ConsumeInv DEF Inv
<1>2. CASE \E p : IsAddress(heap, p) /\ Consume(Deallocated(heap, p))
  <2>1. PICK p : IsAddress(heap, p) /\ Consume(Deallocated(heap, p))
    BY <1>2
  <2> DEFINE h == [heap EXCEPT ![p.address] = <<>>]
  <2>2. Deallocated(heap, p) = h
    BY <2>1 DEF Deallocated
  <2>3. Sane(h)
    BY EmptyBlock DEF Inv, Sane
  <2>4. \A a \in Addresses : h[a] # <<>> => heap[a] # <<>>
    BY DEF Inv, Sane
  <2> HIDE DEF h
  <2> QED BY <2>1, <2>2, <2>3, <2>4, ConsumeInv
<1> QED BY <1>1, <1>2 DEF InterpretDelete

\* flea, alea and count push what is no structure.
LEMMA ReadInv == Inv /\ (InterpretFLea \/ InterpretALea \/ InterpretCount) => Inv'
<1> SUFFICES ASSUME Inv, InterpretFLea \/ InterpretALea \/ InterpretCount, ~ \E code : End(code) PROVE Inv'
  BY EndInv
<1>1. CASE InterpretFLea
  <2>1. \E p : PushObject(PointerObject(p))
    BY <1>1 DEF InterpretFLea, Misses
  <2> QED BY <2>1, PointerObjectType, PushObjectInv
<1>2. CASE InterpretALea
  <2>1. \E p : PushObject(PointerObject(p))
    BY <1>2 DEF InterpretALea, Misses
  <2> QED BY <2>1, PointerObjectType, PushObjectInv
<1>3. CASE InterpretCount
  <2>1. PICK n : PushObject(<<[type |-> LongType, val |-> n]>>)
    BY <1>3 DEF InterpretCount, Misses
  <2>2. <<[type |-> LongType, val |-> n]>>[1].type \notin Structures
    BY TypeFacts DEF FundamentalTypes, NumberTypes
  <2> QED BY <2>1, <2>2, PushObjectInv
<1> QED BY <1>1, <1>2, <1>3

LEMMA TLoadInv == Inv /\ InterpretTLoad => Inv'
<1> SUFFICES ASSUME Inv, InterpretTLoad, ~ \E code : End(code) PROVE Inv'
  BY EndInv
<1>1. PICK p \in Live(Types) : PushObject(ObjectAt(heap, p))
  BY DEF InterpretTLoad, Misses
<1>2. ASSUME ObjectAt(heap, p)[1].type \in Structures
      PROVE  IsWholeObject(ObjectAt(heap, p))
  <2>1. Cell(heap, p).type \in Types
    BY LiveFacts
  <2>2. CASE Cell(heap, p).type \in ObjectTypes
    BY <2>2, LiveFacts, ObjectAtWhole DEF Inv
  <2>3. CASE Cell(heap, p).type = ArrayType
    <3>1. /\ heap[p.address] \in Seq(Cells) /\ p.index \in 1 .. Len(heap[p.address])
          /\ Len(heap[p.address]) \in Nat
      BY LiveFacts DEF IsBlock
    <3>2. ObjectSize(ArrayType) = 1
      BY TypeFacts DEF ObjectSize, ObjectTypes
    <3>3. ObjectAt(heap, p)[1] = Cell(heap, p)
      <4> DEFINE block == heap[p.address]
                 i     == p.index
      <4>1. ObjectAt(heap, p) = SubSeq(block, i, i + 1 - 1)
        BY <2>3, <3>2 DEF ObjectAt
      <4> HIDE DEF block, i
      <4>2. SubSeq(block, i, i + 1 - 1)[1] = block[i]
        BY <3>1 DEF block, i
      <4> QED BY <4>1, <4>2 DEF Cell, block, i
    <3> QED BY <1>2, <2>3, <3>3, TypeFacts DEF ObjectTypes
  <2> QED BY <2>1, <2>2, <2>3, TypeFacts
<1> QED BY <1>1, <1>2, PushObjectInv

LEMMA ScalarWhole ==
  ASSUME NEW type \in FundamentalTypes, NEW val \in Values, HasType(val, type)
  PROVE  IsWholeObject(<<[type |-> type, val |-> val]>>)
<1> DEFINE cell == [type |-> type, val |-> val]
<1>1. type \in ObjectTypes /\ type \in Types /\ ObjectSize(type) = 1 /\ CellType(type, 1) = type
  BY SizeFacts, TypeFacts DEF ObjectTypes
<1>2. cell \in Cells /\ cell.type = type /\ cell.val = val
  BY <1>1 DEF Cells
<1> HIDE DEF cell
<1>3. /\ <<cell>> \in Seq(Cells) /\ Len(<<cell>>) = 1 /\ <<cell>>[1] = cell /\ <<cell>> # <<>>
      /\ DOMAIN <<cell>> = {1}
  BY <1>2
<1>4. IsObject(<<cell>>)
  BY <1>1, <1>2, <1>3 DEF IsObject
<1>5. IsWholeObject(<<cell>>)
  BY <1>1, <1>2, <1>3, <1>4 DEF IsWholeObject
<1> QED BY <1>5 DEF cell

\* What tstore takes from the stack is an object.
LEMMA ObjectsWhole ==
  ASSUME Inv, NEW object \in Objects
  PROVE  IsWholeObject(object)
<1>1. CASE \E n \in Literals : object = <<[type |-> LongType, val |-> n]>>
  <2>1. PICK n \in Literals : object = <<[type |-> LongType, val |-> n]>>
    BY <1>1
  <2>2. LongType \in NumberTypes /\ LongType \in FundamentalTypes /\ n \in Numbers /\ n \in Values
    BY MemoryAssumption DEF NumberTypes, FundamentalTypes, Values
  <2> QED BY <2>1, <2>2, TypeFacts, ScalarWhole
<1>2. CASE \E n \in Ints : object = <<[type |-> IntType, val |-> n]>>
  <2>1. PICK n \in Ints : object = <<[type |-> IntType, val |-> n]>>
    BY <1>2
  <2>2. IntType \in NumberTypes /\ IntType \in FundamentalTypes /\ n \in Numbers /\ n \in Values
    BY MemoryAssumption DEF NumberTypes, FundamentalTypes, Values
  <2> QED BY <2>1, <2>2, TypeFacts, ScalarWhole
<1>3. CASE \E q \in Operands : object = PointerObject(q)
  <2>1. PICK q \in Operands : object = PointerObject(q)
    BY <1>3
  <2>2. q \in {Null} \cup Pointer
    <3>1. \A a \in Addresses : First(a) \in Pointer
      BY DEF First, Pointer
    <3>2. Live(Types) \subseteq Pointer /\ Dangling \subseteq Addresses
      BY LiveFacts DEF Inv, Dangling
    <3> QED BY <2>1, <3>1, <3>2 DEF Operands
  <2>3. HasType(q, PointerType) /\ PointerType \in FundamentalTypes /\ q \in Values
    BY <2>2, MemoryAssumption DEF HasType, FundamentalTypes, Values
  <2> QED BY <2>1, <2>3, ScalarWhole DEF PointerObject
<1>4. CASE object = top /\ top # <<>>
  BY <1>4 DEF Inv
<1> QED BY <1>1, <1>2, <1>3, <1>4 DEF Objects

LEMMA WrittenInv ==
  ASSUME Inv, NEW p \in Live(Types), NEW object, IsWholeObject(object),
         object[1].type = Cell(heap, p).type, Consume(Written(heap, p, object))
  PROVE  Inv'
BY LiveFacts, WrittenKeeps, ConsumeInv DEF Inv

LEMMA TStoreInv == Inv /\ InterpretTStore => Inv'
<1> SUFFICES ASSUME Inv, InterpretTStore, ~ \E code : End(code) PROVE Inv'
  BY EndInv
<1>1. PICK p \in Live(Types) : DRefAndAssign(p) \/ DRefAndAssignArray(p)
  BY DEF InterpretTStore, Misses
<1>2. CASE DRefAndAssign(p)
  <2>1. PICK object \in Objects : object[1].type = Cell(heap, p).type /\ Consume(Written(heap, p, object))
    BY <1>2 DEF DRefAndAssign, Assignable
  <2> QED BY <2>1, ObjectsWhole, WrittenInv
<1>3. CASE DRefAndAssignArray(p)
  BY <1>3, ConsumeInv DEF DRefAndAssignArray, Inv
<1> QED BY <1>1, <1>2, <1>3

LEMMA IncDecInv == Inv /\ InterpretIncDec => Inv'
<1> SUFFICES ASSUME Inv, InterpretIncDec, ~ \E code : End(code) PROVE Inv'
  BY EndInv
<1>1. PICK p \in Live(NumberTypes), delta \in {-1, 1} : IncDec(p, delta)
  BY DEF InterpretIncDec, Misses
<1> DEFINE type == Cell(heap, p).type
           n    == (Cell(heap, p).val + delta) % WordSize
<1>2. n \in Ints \cup Literals /\ Consume(Written(heap, p, <<[type |-> type, val |-> n]>>))
  BY <1>1 DEF IncDec
<1>3. type \in NumberTypes /\ type \in FundamentalTypes /\ p \in Live(Types)
  BY LiveFacts DEF FundamentalTypes, Live, Types
<1> HIDE DEF n, type
<1>4. n \in Numbers /\ n \in Values
  BY <1>2, MemoryAssumption DEF Values
<1>5. IsWholeObject(<<[type |-> type, val |-> n]>>)
  BY <1>3, <1>4, TypeFacts, ScalarWhole
<1>6. <<[type |-> type, val |-> n]>>[1].type = Cell(heap, p).type
  BY DEF type
<1> QED BY <1>2, <1>3, <1>5, <1>6, WrittenInv

LEMMA InitInv == MemoryInit => Inv
<1> SUFFICES ASSUME MemoryInit PROVE Inv
  OBVIOUS
<1> QED BY EmptyBlock DEF MemoryInit, Inv, Sane

LEMMA NextInv == Inv /\ [MemoryNext]_memoryVars => Inv'
<1> SUFFICES ASSUME Inv, [MemoryNext]_memoryVars PROVE Inv'
  OBVIOUS
<1>1. CASE StackFails
  BY <1>1, EndInv DEF StackFails
<1>2. CASE UNCHANGED memoryVars
  BY <1>2 DEF memoryVars, Inv
<1> QED BY <1>1, <1>2, NewInv, ANewInv, DeleteInv, ReadInv, TLoadInv, TStoreInv, IncDecInv DEF MemoryNext

-----------------------------------------------------------------------------
(* The theorems *)

LEMMA InvariantElements == Inv => LeaDesignatesElement
<1> SUFFICES ASSUME Inv, NEW p \in Live({ArrayType}), NEW i \in Literals, InBounds(heap, p, i)
             PROVE  /\ IsLive(heap, ElementAt(heap, p, i))
                    /\ Cell(heap, ElementAt(heap, p, i)).type = Cell(heap, Moved(p, 1)).type
                    /\ ElementAt(heap, p, i).index + ObjectSize(Cell(heap, ElementAt(heap, p, i)).type) - 1
                         <= Len(heap[p.address])
  BY DEF LeaDesignatesElement
<1>1. Sane(heap) /\ p \in Pointer /\ IsLive(heap, p) /\ Cell(heap, p).type = ArrayType
  BY LiveFacts DEF Inv
<1>2. i \in Nat /\ i < Cell(heap, p).val
  BY MemoryAssumption DEF InBounds, Numbers
<1>3. Cell(heap, Moved(p, 1)) = heap[p.address][2]
  BY <1>1, ArrayLies
<1>4. /\ IsLive(heap, ElementAt(heap, p, i))
      /\ Cell(heap, ElementAt(heap, p, i)).type = heap[p.address][2].type
      /\ ElementAt(heap, p, i).index + ObjectSize(heap[p.address][2].type) - 1 <= Len(heap[p.address])
  BY <1>1, <1>2, ElementLies
<1> QED BY <1>3, <1>4

LEMMA Invariance == MemorySpec => []Inv
BY InitInv, NextInv, PTL DEF MemorySpec

\* The values in the heap have the types of their headers, and structures are whole
\* on the stack: whatever the instructions of inst-Memory.cpp do, in any order.
THEOREM TypeCorrectness == MemorySpec => []MemoryTypeOK
<1>1. Inv => MemoryTypeOK
  BY DEF Inv, Sane, MemoryTypeOK, IsBlock, IsWholeObject
<1> QED BY <1>1, Invariance, PTL

\* No instruction writes a piece of one object over another: every block remains the
\* object that new or anew made there.
THEOREM Wholeness == MemorySpec => []BlocksStayWhole
<1>1. Inv => BlocksStayWhole
  BY DEF Inv, Sane, BlocksStayWhole, IsBlock
<1> QED BY <1>1, Invariance, PTL

\* alea designates an element of the array, whatever was stored in it, for every index
\* that it accepts.
THEOREM Elements == MemorySpec => []LeaDesignatesElement
BY InvariantElements, Invariance, PTL

=============================================================================
