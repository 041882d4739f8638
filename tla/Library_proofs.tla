---------------------------- MODULE Library_proofs ----------------------------
(***************************************************************************)
(* What the functions of the standard library keep and promise, on a heap  *)
(* that the memory instructions share, for blocks of any size, any number  *)
(* of strings and any width of the counts.                                 *)
(***************************************************************************)
EXTENDS StandardLibrary, Memory_proofs, FiniteSetTheorems, NaturalsInduction, WellFoundedInduction

Pointers == {Null} \cup Pointer

IsString32(string) == IsWholeObject(string) /\ string[1].type = String32

\* A pointer that an accessor takes for an array of int.
IsIntArray(h, data) == data \in Pointer /\ ItemFailure(h, data) = "running"

IsInt(cell) == cell \in Cells /\ cell.type = IntType /\ HasType(cell.val, IntType)

HoldsString(h, a) == \E i \in DOMAIN h[a] : h[a][i].type = String32

-----------------------------------------------------------------------------
(* Types and strings *)

LEMMA IntFacts ==
  /\ IntType \in FundamentalTypes /\ IntType \in ObjectTypes /\ ObjectSize(IntType) = 1
  /\ CellType(IntType, 1) = IntType
  /\ LongType \in FundamentalTypes /\ PointerType \in FundamentalTypes
  /\ String32 \in Structures /\ String32 \in ObjectTypes /\ String32 \notin FundamentalTypes
  /\ String32 # ArrayType /\ IntType # ArrayType
  /\ \A i \in Numbers : i \in Nat /\ i < WordSize
<1>1. /\ IntType \in FundamentalTypes /\ LongType \in FundamentalTypes /\ PointerType \in FundamentalTypes
      /\ String32 \in Structures
  BY LibraryAssumption DEF FundamentalTypes, NumberTypes
<1>2. /\ IntType \in ObjectTypes /\ String32 \in ObjectTypes /\ String32 \notin FundamentalTypes
      /\ String32 # ArrayType /\ IntType # ArrayType /\ IntType \notin Structures
  BY <1>1, TypeFacts DEF ObjectTypes
<1>3. ObjectSize(IntType) = 1 /\ CellType(IntType, 1) = IntType
  BY <1>2, SizeFacts
<1>4. \A i \in Numbers : i \in Nat /\ i < WordSize
  BY MemoryAssumption DEF Numbers
<1> QED BY <1>1, <1>2, <1>3, <1>4

LEMMA PointerHasType ==
  ASSUME NEW data
  PROVE  HasType(data, PointerType) <=> data \in Pointers
BY MemoryAssumption DEF HasType, Pointers, FundamentalTypes

\* The fields of a string.
LEMMA StringFields ==
  ASSUME NEW string, IsString32(string)
  PROVE  /\ Data(string) \in Pointers /\ Length(string) \in Numbers /\ Capacity(string) \in Numbers
         /\ Len(string) = 4 /\ DOMAIN string = 1 .. 4
         /\ string = StringOf(Data(string), Length(string), Capacity(string))
<1>1. ObjectSize(String32) = 4 /\ CellType(String32, 1) = String32
      /\ CellType(String32, 2) = PointerType /\ CellType(String32, 3) = LongType
      /\ CellType(String32, 4) = LongType
  BY LibraryAssumption DEF ObjectSize, CellType
<1>2. string \in Seq(Cells) /\ Len(string) = 4 /\ DOMAIN string = 1 .. 4
  BY <1>1 DEF IsString32, IsWholeObject
<1>3. \A i \in 1 .. 4 : string[i] \in Cells /\ string[i].type = CellType(String32, i)
                          /\ HasType(string[i].val, string[i].type)
  <2>1. \A i \in DOMAIN string : string[i].type = CellType(string[1].type, i)
    BY DEF IsString32, IsWholeObject
  <2>2. \A i \in DOMAIN string : HasType(string[i].val, string[i].type)
    BY DEF IsString32, IsWholeObject, IsObject
  <2>3. string[1].type = String32
    BY DEF IsString32
  <2>4. \A i \in 1 .. Len(string) : string[i] \in Cells
    BY <1>2, ElementOfSeq
  <2> QED BY <1>2, <2>1, <2>2, <2>3, <2>4
<1>4. /\ string[1].type = String32 /\ string[2].type = PointerType /\ string[3].type = LongType
      /\ string[4].type = LongType
  BY <1>1, <1>3
<1>5. string[2].val \in Pointers
  BY <1>3, <1>4, PointerHasType
<1>6. string[3].val \in Numbers /\ string[4].val \in Numbers
  BY <1>3, <1>4, MemoryAssumption DEF HasType, NumberTypes
<1>7. string[1].val = 0
  BY <1>3, <1>4, IntFacts DEF HasType, FundamentalTypes
<1>8. \A i \in 1 .. 4 : string[i] = [type |-> string[i].type, val |-> string[i].val]
  BY <1>3 DEF Cells
<1>9. string = <<string[1], string[2], string[3], string[4]>>
  BY <1>2
<1> QED BY <1>2, <1>4, <1>5, <1>6, <1>7, <1>8, <1>9 DEF Data, Length, Capacity, StringOf

LEMMA StringWhole ==
  ASSUME NEW data \in Pointers, NEW length \in Numbers, NEW capacity \in Numbers
  PROVE  /\ IsString32(StringOf(data, length, capacity))
         /\ Data(StringOf(data, length, capacity)) = data
         /\ Length(StringOf(data, length, capacity)) = length
         /\ Capacity(StringOf(data, length, capacity)) = capacity
<1> DEFINE string == StringOf(data, length, capacity)
<1>1. ObjectSize(String32) = 4 /\ CellType(String32, 1) = String32
      /\ CellType(String32, 2) = PointerType /\ CellType(String32, 3) = LongType
      /\ CellType(String32, 4) = LongType
  BY LibraryAssumption DEF ObjectSize, CellType
<1>2. /\ [type |-> String32, val |-> 0] \in Cells /\ HasType(0, String32)
      /\ [type |-> PointerType, val |-> data] \in Cells /\ HasType(data, PointerType)
      /\ \A n \in Numbers : [type |-> LongType, val |-> n] \in Cells /\ HasType(n, LongType)
  <2>1. HasType(data, PointerType) /\ data \in Values
    BY PointerHasType DEF Pointers, Values
  <2>2. 0 \in Values /\ HasType(0, String32)
    BY MemoryAssumption, IntFacts DEF Values, Numbers, HasType, FundamentalTypes
  <2>3. \A n \in Numbers : n \in Values /\ HasType(n, LongType)
    BY TypeFacts DEF Values, NumberTypes
  <2>4. String32 \in Types /\ PointerType \in Types /\ LongType \in Types
    BY IntFacts DEF Types
  <2> QED BY <2>1, <2>2, <2>3, <2>4 DEF Cells
<1>3. /\ string \in Seq(Cells) /\ Len(string) = 4 /\ DOMAIN string = 1 .. 4 /\ string # <<>>
      /\ string[1] = [type |-> String32, val |-> 0] /\ string[2] = [type |-> PointerType, val |-> data]
      /\ string[3] = [type |-> LongType, val |-> length] /\ string[4] = [type |-> LongType, val |-> capacity]
  BY <1>2 DEF StringOf
<1> HIDE DEF string
<1>4. \A i \in 1 .. 4 : i = 1 \/ i = 2 \/ i = 3 \/ i = 4
  OBVIOUS
<1>5. \A i \in 1 .. 4 : string[i] \in Cells /\ string[i].type = CellType(String32, i)
                          /\ HasType(string[i].val, string[i].type)
  BY <1>1, <1>2, <1>3, <1>4
<1>6. IsObject(string)
  BY <1>3, <1>5 DEF IsObject, Cells
<1>7. string[1].type = String32 /\ IsWholeObject(string)
  BY <1>1, <1>3, <1>5, <1>6, IntFacts DEF IsWholeObject
<1> QED BY <1>3, <1>7 DEF IsString32, Data, Length, Capacity, string

LEMMA NullString == IsString32(EmptyString)
<1>1. Null \in Pointers /\ 0 \in Numbers
  BY MemoryAssumption DEF Pointers, Numbers
<1> QED BY <1>1, StringWhole DEF EmptyString

\* A string in the heap.
LEMMA StringFound ==
  ASSUME NEW h, Sane(h), NEW p \in Pointer, IsLive(h, p), Cell(h, p).type = String32
  PROVE  /\ IsString32(ObjectAt(h, p)) /\ p.address \in Addresses /\ h[p.address] # <<>>
         /\ HoldsString(h, p.address) /\ p.index + 3 <= Len(h[p.address])
         /\ p.index \in Nat \ {0} /\ Len(h[p.address]) \in Nat
         /\ \A j \in 1 .. 4 : ObjectAt(h, p)[j] = h[p.address][p.index + (j - 1)]
<1>1. /\ p.address \in Addresses /\ IsBlock(h[p.address])
      /\ p.index \in DOMAIN h[p.address] /\ p.index \in 1 .. Len(h[p.address])
      /\ Cell(h, p) = h[p.address][p.index]
  BY PlaceFacts
<1>2. ObjectSize(String32) = 4 /\ String32 \in ObjectTypes
  BY LibraryAssumption, IntFacts DEF ObjectSize
<1>3. /\ IsWholeObject(ObjectAt(h, p)) /\ ObjectAt(h, p)[1].type = String32
      /\ \A j \in 1 .. 4 : ObjectAt(h, p)[j] = h[p.address][p.index + (j - 1)]
  BY <1>2, ObjectAtWhole
<1>4. h[p.address] # <<>> /\ Len(h[p.address]) \in Nat
  BY <1>1, BlockFacts
<1>5. p.index + ObjectSize(h[p.address][p.index].type) - 1 <= Len(h[p.address])
  BY <1>1, <1>2, ObjectLies
<1>6. p.index + 3 <= Len(h[p.address])
  BY <1>1, <1>2, <1>4, <1>5
<1> QED BY <1>1, <1>3, <1>4, <1>6 DEF IsString32, HoldsString
-----------------------------------------------------------------------------
(* Writing to a block *)

\* The heap with cells written from p on.
LEMMA WrittenCells ==
  ASSUME NEW h, Sane(h), NEW p \in Pointer, NEW cells \in Seq(Cells),
         p.index + Len(cells) - 1 <= Len(h[p.address])
  PROVE  /\ \A a \in Addresses \ {p.address} : Written(h, p, cells)[a] = h[a]
         /\ Len(Written(h, p, cells)[p.address]) = Len(h[p.address])
         /\ DOMAIN Written(h, p, cells)[p.address] = DOMAIN h[p.address]
         /\ DOMAIN h[p.address] = 1 .. Len(h[p.address])
         /\ \A j \in DOMAIN h[p.address] :
              Written(h, p, cells)[p.address][j] =
                IF j \in p.index .. p.index + Len(cells) - 1 THEN cells[j - p.index + 1]
                                                             ELSE h[p.address][j]
         /\ Written(h, p, cells) \in [Addresses -> Seq(Cells)]
<1> DEFINE block == h[p.address]
           i     == p.index
           n     == Len(cells)
           new   == [j \in DOMAIN block |-> IF j \in i .. i + n - 1 THEN cells[j - i + 1] ELSE block[j]]
<1>1. p.address \in Addresses /\ i \in Nat \ {0} /\ n \in Nat /\ DOMAIN cells = 1 .. n
  BY DEF Pointer
<1>2. block \in Seq(Cells) /\ Len(block) \in Nat /\ DOMAIN block = 1 .. Len(block)
  BY <1>1 DEF Sane, IsBlock
<1>3. Written(h, p, cells) = [h EXCEPT ![p.address] = new]
  BY DEF Written
<1>4. h \in [Addresses -> Seq(Cells)]
  BY DEF Sane
<1> HIDE DEF block, i, n
<1>5. \A j \in DOMAIN block : new[j] \in Cells
  <2> SUFFICES ASSUME NEW j \in DOMAIN block PROVE new[j] \in Cells
    OBVIOUS
  <2>1. CASE j \in i .. i + n - 1
    <3>1. j - i + 1 \in 1 .. n
      BY <1>1, <1>2, <2>1
    <3>2. cells[j - i + 1] \in Cells
      BY <1>1, <3>1 DEF n
    <3> QED BY <2>1, <3>2
  <2>2. CASE j \notin i .. i + n - 1
    BY <1>2, <2>2
  <2> QED BY <2>1, <2>2
<1>6. new \in Seq(Cells) /\ Len(new) = Len(block) /\ DOMAIN new = DOMAIN block
  <2>1. new \in [1 .. Len(block) -> Cells]
    BY <1>2, <1>5
  <2> QED BY <1>2, <2>1, LenProperties, SeqDef
<1>7. \A j \in DOMAIN block : new[j] = IF j \in i .. i + n - 1 THEN cells[j - i + 1] ELSE block[j]
  OBVIOUS
<1> HIDE DEF new
<1>8. Written(h, p, cells)[p.address] = new /\ \A a \in Addresses \ {p.address} : Written(h, p, cells)[a] = h[a]
  BY <1>1, <1>3, <1>4
<1>9. Written(h, p, cells) \in [Addresses -> Seq(Cells)]
  BY <1>1, <1>3, <1>4, <1>6
<1> QED BY <1>2, <1>6, <1>7, <1>8, <1>9 DEF block, i, n

\* Behind its first cell a block may be overwritten with cells of the types that it has there.
LEMMA WrittenSane ==
  ASSUME NEW h, Sane(h), NEW p \in Pointer, NEW cells \in Seq(Cells),
         p.index \in Nat \ {0, 1}, h[p.address] # <<>>,
         p.index + Len(cells) - 1 <= Len(h[p.address]),
         \A j \in 1 .. Len(cells) : /\ cells[j].type = h[p.address][p.index + (j - 1)].type
                                    /\ HasType(cells[j].val, cells[j].type)
  PROVE  /\ Sane(Written(h, p, cells))
         /\ Written(h, p, cells)[p.address] # <<>>
<1> DEFINE block == h[p.address]
           i     == p.index
           n     == Len(cells)
           new   == Written(h, p, cells)[p.address]
<1>1. /\ p.address \in Addresses /\ i \in Nat \ {0, 1} /\ n \in Nat
      /\ IsBlock(block) /\ block # <<>> /\ block \in Seq(Cells) /\ Len(block) \in Nat
  BY DEF Pointer, Sane, IsBlock
<1>2. /\ \A a \in Addresses \ {p.address} : Written(h, p, cells)[a] = h[a]
      /\ Len(new) = Len(block) /\ DOMAIN new = DOMAIN block /\ DOMAIN block = 1 .. Len(block)
      /\ \A j \in DOMAIN block : new[j] = IF j \in i .. i + n - 1 THEN cells[j - i + 1] ELSE block[j]
      /\ Written(h, p, cells) \in [Addresses -> Seq(Cells)]
  BY WrittenCells
<1>3. \A k \in 1 .. n : cells[k].type = block[i + (k - 1)].type /\ HasType(cells[k].val, cells[k].type)
  OBVIOUS
<1> HIDE DEF block, i, n, new
<1>4. \A j \in DOMAIN block : new[j].type = block[j].type /\ HasType(new[j].val, new[j].type)
  <2> SUFFICES ASSUME NEW j \in DOMAIN block
               PROVE  new[j].type = block[j].type /\ HasType(new[j].val, new[j].type)
    OBVIOUS
  <2>1. CASE j \in i .. i + n - 1
    <3>1. PICK k : k = j - i + 1
      OBVIOUS
    <3>2. k \in 1 .. n /\ i + (k - 1) = j
      BY <1>1, <1>2, <2>1, <3>1
    <3> QED BY <1>2, <1>3, <2>1, <3>1, <3>2
  <2>2. CASE j \notin i .. i + n - 1
    BY <1>1, <1>2, <2>2 DEF IsBlock, IsObject
  <2> QED BY <2>1, <2>2
<1>5. new[1] = block[1]
  <2>1. 1 \in DOMAIN block /\ ~(1 \in i .. i + n - 1)
    BY <1>1, <1>2
  <2> QED BY <1>2, <2>1
<1>6. new \in Seq(Cells)
  BY <1>1, <1>2 DEF new
<1>7. IsBlock(new) /\ new # <<>>
  BY <1>1, <1>2, <1>4, <1>5, <1>6, Retyped
<1>8. \A a \in Addresses : IsBlock(Written(h, p, cells)[a])
  BY <1>2, <1>7 DEF Sane, new
<1> QED BY <1>2, <1>7, <1>8 DEF Sane, new

\* What PDREF and GetElement take for an array of int is one.
LEMMA IntArrayFacts ==
  ASSUME NEW h, Sane(h), NEW data, IsIntArray(h, data)
  PROVE  /\ data \in Pointer /\ data # Null /\ IsLive(h, data) /\ data = First(data.address)
         /\ data.index = 1 /\ data.address \in Addresses /\ h[data.address] # <<>>
         /\ IsBlock(h[data.address]) /\ Len(h[data.address]) \in Nat
         /\ Cell(h, data).type = ArrayType /\ Cell(h, data) = h[data.address][1]
         /\ Cell(h, data).val \in Numbers \ {0} /\ Len(h[data.address]) = 1 + Cell(h, data).val
         /\ \A j \in 2 .. Len(h[data.address]) : IsInt(h[data.address][j])
         /\ ~HoldsString(h, data.address)
         /\ \A i \in Nat : ElementAt(h, data, i) = [address |-> data.address, index |-> i + 2]
<1>1. data \in Pointer /\ data # Null /\ IsLive(h, data) /\ Cell(h, data).type = ArrayType
      /\ Cell(h, Moved(data, 1)).type = IntType
  BY DEF IsIntArray, ItemFailure, ElementType
<1> DEFINE block == h[data.address]
<1>2. /\ data.index = 1 /\ data = First(data.address) /\ data.address \in Addresses
      /\ block # <<>> /\ IsBlock(block) /\ Cell(h, data) = block[1]
      /\ Cell(h, data).val \in Numbers \ {0}
      /\ Cell(h, Moved(data, 1)) = block[2] /\ Len(block) \in Nat
      /\ Len(block) = 1 + ObjectSize(block[2].type) * Cell(h, data).val
      /\ \A j \in 2 .. Len(block) :
           block[j].type = CellType(block[2].type, ((j - 2) % ObjectSize(block[2].type)) + 1)
  BY <1>1, ArrayLies
<1>3. block[2].type = IntType /\ Len(block) = 1 + Cell(h, data).val
  BY <1>1, <1>2, IntFacts
<1>4. \A j \in 2 .. Len(block) : block[j].type = IntType
  <2> SUFFICES ASSUME NEW j \in 2 .. Len(block) PROVE block[j].type = IntType
    OBVIOUS
  <2>1. block[j].type = CellType(IntType, ((j - 2) % 1) + 1)
    BY <1>2, <1>3, IntFacts
  <2>2. (j - 2) % 1 = 0
    BY <1>2
  <2> QED BY <2>1, <2>2, IntFacts
<1>5. \A j \in 1 .. Len(block) : j \in DOMAIN block /\ block[j] \in Cells /\ HasType(block[j].val, block[j].type)
  BY <1>2 DEF IsBlock, IsObject
<1>6. \A j \in 2 .. Len(block) : IsInt(block[j])
  <2>1. \A j \in 2 .. Len(block) : j \in 1 .. Len(block)
    BY <1>2
  <2> QED BY <1>4, <1>5, <2>1 DEF IsInt
<1>7. ~HoldsString(h, data.address)
  <2>1. DOMAIN block = 1 .. Len(block)
    BY <1>2 DEF IsBlock
  <2>2. block[1].type # String32
    BY <1>1, <1>2, IntFacts
  <2>3. \A j \in DOMAIN block : j = 1 \/ j \in 2 .. Len(block)
    BY <1>2, <2>1
  <2> QED BY <1>4, <2>2, <2>3, IntFacts, TypeFacts DEF HoldsString
<1>8. ASSUME NEW i \in Nat
      PROVE  ElementAt(h, data, i) = [address |-> data.address, index |-> i + 2]
  <2>1. ElementAt(h, data, i) = Moved(data, 1 + i * 1)
    BY <1>1, IntFacts DEF ElementAt
  <2>2. data = [address |-> data.address, index |-> 1]
    BY <1>2 DEF First
  <2>3. 1 + (1 + i * 1) = i + 2
    OBVIOUS
  <2> QED BY <2>1, <2>2, <2>3 DEF Moved
<1> QED BY <1>1, <1>2, <1>3, <1>6, <1>7, <1>8
-----------------------------------------------------------------------------
(* The growth of a capacity *)

LEMMA LeastNumber ==
  ASSUME NEW T, T \subseteq Nat, T # {}
  PROVE  \E x \in T : \A y \in T : x <= y
<1>1. PICK x \in T : \A y \in T : ~ (<<y, x>> \in OpToRel(<, Nat))
  BY NatLessThanWellFounded, WFMin
<1>2. \A y \in T : <<y, x>> \in Nat \X Nat
  BY <1>1
<1>3. \A y \in T : ~ (y < x)
  BY <1>1, <1>2 DEF OpToRel
<1>4. \A y \in T : x \in Nat /\ y \in Nat
  BY <1>1
<1> QED BY <1>3, <1>4

\* The recursion of Doublings defines a function: up to every number there is one that
\* satisfies it, and the one up to WordSize is what Doublings chooses.
LEMMA DoublingsDefined ==
  ASSUME NEW capacity \in Numbers
  PROVE  /\ Doublings(capacity) \in [0 .. WordSize -> Numbers]
         /\ Doublings(capacity)[0] = capacity
         /\ \A k \in 1 .. WordSize : Doublings(capacity)[k] = (2 * Doublings(capacity)[k - 1]) % WordSize
<1> DEFINE Holds(f, n) == /\ f \in [0 .. n -> Numbers] /\ f[0] = capacity
                          /\ \A k \in 1 .. n : f[k] = (2 * f[k - 1]) % WordSize
           Missing == {n \in Nat : ~ \E f : Holds(f, n)}
<1>1. WordSize \in Nat \ {0} /\ Numbers = 0 .. WordSize - 1
  BY MemoryAssumption DEF Numbers
<1>2. Missing = {}
  <2> SUFFICES ASSUME Missing # {} PROVE FALSE
    OBVIOUS
  <2>1. PICK n \in Missing : \A m \in Missing : n <= m
    <3>1. Missing \subseteq Nat
      OBVIOUS
    <3> HIDE DEF Missing
    <3> QED BY <3>1, LeastNumber
  <2>2. n \in Nat /\ ~ \E f : Holds(f, n)
    BY <2>1
  <2>3. n # 0
    <3> SUFFICES ASSUME n = 0 PROVE FALSE
      OBVIOUS
    <3>1. Holds([i \in 0 .. 0 |-> capacity], 0)
      OBVIOUS
    <3> QED BY <2>2, <3>1
  <2>4. n - 1 \in Nat
    BY <2>2, <2>3
  <2>5. PICK f : Holds(f, n - 1)
    <3>1. n - 1 \notin Missing
      <4> HIDE DEF Missing
      <4> SUFFICES ASSUME n - 1 \in Missing PROVE FALSE
        OBVIOUS
      <4>1. n <= n - 1
        BY <2>1
      <4>2. n \in Nat
        BY <2>2
      <4> QED BY <4>1, <4>2
    <3> HIDE DEF Holds
    <3> QED BY <2>4, <3>1
  <2> DEFINE last == (2 * f[n - 1]) % WordSize
             g    == [i \in 0 .. n |-> IF i = n THEN last ELSE f[i]]
  <2>6. f[n - 1] \in Numbers
    BY <2>4, <2>5
  <2>7. last \in Numbers
    BY <1>1, <2>6
  <2> HIDE DEF last
  <2>8. g \in [0 .. n -> Numbers]
    BY <2>2, <2>3, <2>5, <2>7
  <2>9. g[0] = capacity /\ g[n] = last /\ \A i \in 0 .. n - 1 : g[i] = f[i]
    BY <2>2, <2>3, <2>5
  <2>10. ASSUME NEW k \in 1 .. n
         PROVE  g[k] = (2 * g[k - 1]) % WordSize
    <3>1. CASE k = n
      <4>1. n - 1 \in 0 .. n - 1
        BY <2>4
      <4> QED BY <2>9, <3>1, <4>1 DEF last
    <3>2. CASE k # n
      <4>1. k \in 1 .. n - 1 /\ k \in 0 .. n - 1 /\ k - 1 \in 0 .. n - 1
        BY <2>2, <3>2
      <4>2. f[k] = (2 * f[k - 1]) % WordSize
        BY <2>5, <4>1
      <4> HIDE DEF g
      <4> QED BY <2>9, <4>1, <4>2
    <3> QED BY <3>1, <3>2
  <2>11. Holds(g, n)
    BY <2>8, <2>9, <2>10
  <2> QED BY <2>2, <2>11
<1>3. PICK f : Holds(f, WordSize)
  BY <1>1, <1>2
<1> DEFINE Rec(d) == [k \in 0 .. WordSize |-> IF k = 0 THEN capacity ELSE (2 * d[k - 1]) % WordSize]
<1>4. f = Rec(f)
  <2>1. \A k \in 0 .. WordSize : f[k] = IF k = 0 THEN capacity ELSE (2 * f[k - 1]) % WordSize
    BY <1>1, <1>3
  <2>2. f = [k \in 0 .. WordSize |-> f[k]]
    BY <1>3
  <2> QED BY <2>1, <2>2
<1>5. Doublings(capacity) = CHOOSE d : d = Rec(d)
  BY DEF Doublings
<1>6. Doublings(capacity) = Rec(Doublings(capacity))
  <2> HIDE DEF Rec
  <2> QED BY <1>4, <1>5
<1>7. PICK d : d = Doublings(capacity)
  OBVIOUS
<1>8. /\ DOMAIN d = 0 .. WordSize /\ d = [k \in 0 .. WordSize |-> d[k]]
      /\ d[0] = capacity /\ \A k \in 1 .. WordSize : d[k] = (2 * d[k - 1]) % WordSize
  <2>1. d = Rec(d)
    BY <1>6, <1>7
  <2> QED BY <1>1, <2>1
<1> DEFINE Same == {k \in Nat : k \in 0 .. WordSize /\ d[k] # f[k]}
<1>9. Same = {}
  <2> SUFFICES ASSUME Same # {} PROVE FALSE
    OBVIOUS
  <2>1. PICK n \in Same : \A m \in Same : n <= m
    <3>1. Same \subseteq Nat
      OBVIOUS
    <3> HIDE DEF Same
    <3> QED BY <3>1, LeastNumber
  <2>2. n \in 1 .. WordSize /\ n - 1 \in 0 .. WordSize /\ n - 1 \notin Same
    BY <1>1, <1>3, <1>8, <2>1
  <2>3. d[n - 1] = f[n - 1]
    BY <2>2
  <2>4. d[n] = (2 * d[n - 1]) % WordSize /\ f[n] = (2 * f[n - 1]) % WordSize
    BY <1>3, <1>8, <2>2
  <2>5. d[n] # f[n]
    BY <2>1
  <2> QED BY <2>3, <2>4, <2>5
<1>10. \A k \in 0 .. WordSize : d[k] \in Numbers
  <2> SUFFICES ASSUME NEW k \in 0 .. WordSize PROVE d[k] \in Numbers
    OBVIOUS
  <2>1. d[k] = f[k]
    BY <1>1, <1>9
  <2> QED BY <1>3, <2>1
<1>11. d \in [0 .. WordSize -> Numbers]
  BY <1>8, <1>10
<1> QED BY <1>7, <1>8, <1>11
LEMMA GrownFacts ==
  ASSUME NEW capacity \in Numbers, NEW required \in Nat, required > capacity
  PROVE  /\ Grown(capacity, required) \in Nat
         /\ Grown(capacity, required) # 0 => Grown(capacity, required) >= required
<1> DEFINE d      == Doublings(capacity)
           enough == {k \in 1 .. WordSize : d[k] >= required}
           least  == CHOOSE k \in enough : \A l \in enough : k <= l
<1>1. capacity = 0 => Grown(capacity, required) = required
  BY DEF Grown
<1>2. capacity # 0 /\ enough = {} => Grown(capacity, required) = 0
  BY DEF Grown
<1>3. capacity # 0 /\ enough # {} => Grown(capacity, required) = d[least]
  BY DEF Grown
<1>4. \A k \in 1 .. WordSize : d[k] \in Nat
  <2>1. d \in [0 .. WordSize -> Numbers] /\ WordSize \in Nat
    BY DoublingsDefined, MemoryAssumption
  <2> HIDE DEF d
  <2> QED BY <2>1, IntFacts
<1>5. enough # {} => least \in enough
  <2>1. enough \subseteq Nat
    OBVIOUS
  <2> HIDE DEF enough
  <2> QED BY <2>1, LeastNumber
<1>6. \A k \in enough : d[k] \in Nat /\ d[k] >= required
  BY <1>4
<1> HIDE DEF d, enough, least
<1> QED BY <1>1, <1>2, <1>3, <1>5, <1>6

\* Where numbers are wide enough, the loop ends with less than twice what is required.
LEMMA GrownBounded ==
  ASSUME NEW capacity \in Numbers \ {0}, NEW required \in Nat, required > capacity, 2 * required <= WordSize
  PROVE  Grown(capacity, required) \in required .. 2 * required - 2
<1> DEFINE d      == Doublings(capacity)
           enough == {k \in Nat : k \in 1 .. WordSize /\ d[k] >= required}
           least  == CHOOSE k \in enough : \A l \in enough : k <= l
           slow   == {k \in Nat : k \in 1 .. WordSize /\ d[k] < capacity + k}
<1>1. /\ WordSize \in Nat \ {0} /\ capacity \in Nat \ {0} /\ d[0] = capacity
      /\ \A k \in 0 .. WordSize : d[k] \in Nat
      /\ \A k \in 1 .. WordSize : d[k] = (2 * d[k - 1]) % WordSize
  <2>1. /\ d \in [0 .. WordSize -> Numbers] /\ d[0] = capacity
        /\ \A k \in 1 .. WordSize : d[k] = (2 * d[k - 1]) % WordSize
    BY DoublingsDefined
  <2>2. WordSize \in Nat /\ capacity \in Nat /\ capacity < WordSize
    BY IntFacts, MemoryAssumption
  <2> HIDE DEF d
  <2>3. \A k \in 0 .. WordSize : d[k] \in Nat
    BY <2>1, IntFacts
  <2>4. WordSize \in Nat \ {0} /\ capacity \in Nat \ {0}
    BY <2>2
  <2> QED BY <2>1, <2>3, <2>4
<1> HIDE DEF d
<1>2. \A x \in Nat : x < required => (2 * x) % WordSize = 2 * x
  <2> SUFFICES ASSUME NEW x \in Nat, x < required PROVE (2 * x) % WordSize = 2 * x
    OBVIOUS
  <2>1. 2 * x \in 0 .. WordSize - 1 /\ WordSize * 0 + 2 * x = 2 * x
    BY <1>1
  <2> QED BY <1>1, <2>1, ModUnique
<1>3. enough # {}
  <2> SUFFICES ASSUME enough = {} PROVE FALSE
    OBVIOUS
  <2>1. \A k \in 0 .. WordSize : d[k] < required
    BY <1>1
  <2>2. slow = {}
    <3> SUFFICES ASSUME slow # {} PROVE FALSE
      OBVIOUS
    <3>1. PICK n \in slow : \A m \in slow : n <= m
      <4>1. slow \subseteq Nat
        OBVIOUS
      <4> HIDE DEF slow
      <4> QED BY <4>1, LeastNumber
    <3>2. n \in 1 .. WordSize /\ n - 1 \in 0 .. WordSize /\ d[n] < capacity + n
      BY <1>1, <3>1
    <3>3. d[n - 1] >= capacity + (n - 1)
      <4>1. CASE n = 1
        BY <1>1, <4>1
      <4>2. CASE n # 1
        <5>1. n - 1 \notin slow
          <6> SUFFICES ASSUME n - 1 \in slow PROVE FALSE
            OBVIOUS
          <6>1. n <= n - 1
            <7> HIDE DEF slow
            <7> QED BY <3>1
          <6> QED BY <3>2, <6>1
        <5> QED BY <1>1, <3>2, <4>2, <5>1
      <4> QED BY <4>1, <4>2
    <3>4. d[n] = (2 * d[n - 1]) % WordSize /\ d[n - 1] \in Nat /\ d[n - 1] < required
      BY <1>1, <2>1, <3>2
    <3>5. d[n] = 2 * d[n - 1]
      BY <1>2, <3>4
    <3> QED BY <1>1, <3>2, <3>3, <3>4, <3>5
  <2>3. d[WordSize] >= capacity + WordSize
    <3>1. WordSize \notin slow /\ WordSize \in 0 .. WordSize
      BY <1>1, <2>2
    <3> QED BY <1>1, <3>1
  <2>4. WordSize \in 0 .. WordSize /\ d[WordSize] < required
    BY <1>1, <2>1
  <2> QED BY <1>1, <2>3, <2>4
<1>4. least \in enough /\ \A l \in enough : least <= l
  <2>1. enough \subseteq Nat
    OBVIOUS
  <2> HIDE DEF enough
  <2> QED BY <1>3, <2>1, LeastNumber
<1>5. Grown(capacity, required) = d[least]
  <2>1. enough = {k \in 1 .. WordSize : d[k] >= required}
    BY <1>1
  <2> HIDE DEF enough
  <2> QED BY <1>1, <1>3, <2>1 DEF Grown, d
<1> HIDE DEF least
<1>6. least \in 1 .. WordSize /\ d[least] >= required /\ least - 1 \in 0 .. WordSize
  BY <1>1, <1>4
<1>7. d[least - 1] < required
  <2>1. CASE least = 1
    BY <1>1, <2>1
  <2>2. CASE least # 1
    <3>1. least - 1 \notin enough
      <4> SUFFICES ASSUME least - 1 \in enough PROVE FALSE
        OBVIOUS
      <4>1. least <= least - 1
        <5> HIDE DEF enough
        <5> QED BY <1>4
      <4> QED BY <1>6, <4>1
    <3> QED BY <1>1, <1>6, <2>2, <3>1
  <2> QED BY <2>1, <2>2
<1>8. d[least - 1] \in Nat /\ d[least] = 2 * d[least - 1]
  BY <1>1, <1>2, <1>6, <1>7
<1> QED BY <1>5, <1>6, <1>7, <1>8
-----------------------------------------------------------------------------
(* Expand32 *)

\* A buffer for as many characters, of which none is set.
IsBuffer(block, capacity) ==
  /\ IsBlock(block) /\ block # <<>> /\ Len(block) = 1 + capacity /\ DOMAIN block = 1 .. 1 + capacity
  /\ block[1] = [type |-> ArrayType, val |-> capacity]
  /\ \A j \in 2 .. 1 + capacity : IsInt(block[j])

\* What Expand32 has done when the buffer was too small: there is a larger one at a, with
\* what was in the old one, and the old one is free.
Replaces(h, string, a, capacity, g, expanded) ==
  /\ a \in Free(h) /\ capacity \in Numbers \ {0} /\ 1 + capacity <= MaxCells
  /\ Data(string) = Null \/ IsIntArray(h, Data(string))
  /\ expanded = StringOf(First(a), Length(string), capacity)
  /\ Sane(g) /\ IsBuffer(g[a], capacity)
  /\ \A b \in Addresses \ {a} : g[b] = IF Data(string) # Null /\ b = Data(string).address THEN <<>> ELSE h[b]
  /\ Data(string) # Null =>
       \A j \in 2 .. Len(h[Data(string).address]) : j <= 1 + capacity => g[a][j] = h[Data(string).address][j]

\* The heap and the string that Expand32 may leave.
Expands(h, string, required, g, expanded) ==
  \/ required <= Capacity(string) /\ g = h /\ expanded = string
  \/ /\ required > Capacity(string)
     /\ \E a \in Free(h), capacity \in Numbers \ {0} :
          /\ capacity = Grown(Capacity(string), required) /\ capacity >= required
          /\ Replaces(h, string, a, capacity, g, expanded)

LEMMA NewBuffer ==
  ASSUME NEW capacity \in Nat \ {0}, ArraySize(IntType, capacity) < WordSize
  PROVE  /\ capacity \in Numbers \ {0} /\ Len(NewArray(IntType, capacity)) = 1 + capacity
         /\ 1 + capacity <= MaxCells => IsBuffer(NewArray(IntType, capacity), capacity)
<1> DEFINE buffer == NewArray(IntType, capacity)
<1>1. capacity \in Numbers \ {0}
  BY IntFacts, MemoryAssumption DEF ArraySize, Numbers
<1>2. buffer = [i \in 1 .. 1 + capacity |-> IF i = 1 THEN [type |-> ArrayType, val |-> capacity]
                                             ELSE NewObject(IntType)[((i - 2) % 1) + 1]]
  <2>1. capacity * ObjectSize(IntType) = capacity
    BY IntFacts
  <2> QED BY <2>1, IntFacts DEF NewArray
<1>3. NewObject(IntType)[1] = [type |-> IntType, val |-> 0]
  <2>1. Zero(IntType) = 0
    BY MemoryAssumption DEF Zero, NumberTypes
  <2>2. NewObject(IntType) = [i \in 1 .. 1 |-> [type |-> CellType(IntType, i), val |-> Zero(CellType(IntType, i))]]
    BY IntFacts DEF NewObject
  <2> QED BY <2>1, <2>2, IntFacts
<1>4. buffer[1] = [type |-> ArrayType, val |-> capacity] /\ DOMAIN buffer = 1 .. 1 + capacity
  BY <1>2
<1>5. \A i \in 2 .. 1 + capacity : buffer[i] = [type |-> IntType, val |-> 0]
  <2> SUFFICES ASSUME NEW i \in 2 .. 1 + capacity PROVE buffer[i] = [type |-> IntType, val |-> 0]
    OBVIOUS
  <2>1. (i - 2) % 1 = 0 /\ i \in 1 .. 1 + capacity /\ i # 1
    OBVIOUS
  <2> HIDE DEF buffer
  <2> QED BY <1>2, <1>3, <2>1
<1>6. IsInt([type |-> IntType, val |-> 0])
  BY IntFacts, TypeFacts, MemoryAssumption DEF IsInt, Cells, Types, Values, Numbers, NumberTypes
<1> HIDE DEF buffer
<1>7. buffer \in Seq(Cells)
  <2>1. [type |-> ArrayType, val |-> capacity] \in Cells
    BY <1>1 DEF Cells, Types, Values
  <2>2. \A i \in 1 .. 1 + capacity : i = 1 \/ i \in 2 .. 1 + capacity
    OBVIOUS
  <2>3. \A i \in 1 .. 1 + capacity : buffer[i] \in Cells
    BY <1>4, <1>5, <1>6, <2>1, <2>2 DEF IsInt
  <2>4. buffer = [i \in 1 .. 1 + capacity |-> buffer[i]]
    BY <1>2
  <2>5. buffer \in [1 .. 1 + capacity -> Cells] /\ 1 + capacity \in Nat
    BY <2>3, <2>4
  <2> QED BY <2>5, SeqDef
<1>8. Len(buffer) = 1 + capacity
  BY <1>4, <1>7, LenProperties
<1>9. 1 + capacity <= MaxCells => IsBlock(buffer)
  <2>1. Len(NewArray(IntType, capacity)) <= MaxCells => IsBlock(NewArray(IntType, capacity))
    BY <1>1, IntFacts, NewArrayBlock
  <2> QED BY <1>8, <2>1 DEF buffer
<1>10. buffer # <<>>
  BY <1>8
<1>11. \A i \in 2 .. 1 + capacity : IsInt(buffer[i])
  BY <1>5, <1>6
<1>12. 1 + capacity <= MaxCells => IsBuffer(buffer, capacity)
  BY <1>4, <1>8, <1>9, <1>10, <1>11 DEF IsBuffer
<1> QED BY <1>1, <1>8, <1>12 DEF buffer

LEMMA CopiedFacts ==
  ASSUME NEW h, Sane(h), NEW capacity \in Nat \ {0}, NEW buffer, IsBuffer(buffer, capacity),
         NEW data, data = Null \/ IsIntArray(h, data)
  PROVE  /\ IsBuffer(Copied(h, buffer, data), capacity)
         /\ data # Null =>
              \A j \in 2 .. Len(h[data.address]) : j <= 1 + capacity => Copied(h, buffer, data)[j] = h[data.address][j]
<1>1. CASE data = Null
  BY <1>1 DEF Copied
<1>2. CASE data # Null
  <2> DEFINE old == h[data.address]
             new == Copied(h, buffer, data)
  <2>1. new = [i \in DOMAIN buffer |-> IF i > 1 /\ i <= Len(old) THEN old[i] ELSE buffer[i]]
    BY <1>2 DEF Copied
  <2>2. Len(old) \in Nat /\ \A j \in 2 .. Len(old) : IsInt(old[j])
    BY <1>2, IntArrayFacts
  <2>3. /\ IsBlock(buffer) /\ buffer # <<>> /\ Len(buffer) = 1 + capacity /\ DOMAIN buffer = 1 .. 1 + capacity
        /\ buffer[1] = [type |-> ArrayType, val |-> capacity] /\ \A j \in 2 .. 1 + capacity : IsInt(buffer[j])
    BY DEF IsBuffer
  <2> HIDE DEF old, new
  <2>4. DOMAIN new = 1 .. 1 + capacity /\ new[1] = buffer[1]
    BY <2>1, <2>3
  <2>5. \A j \in 2 .. 1 + capacity : IsInt(new[j])
    <3> SUFFICES ASSUME NEW j \in 2 .. 1 + capacity PROVE IsInt(new[j])
      OBVIOUS
    <3>1. new[j] = IF j <= Len(old) THEN old[j] ELSE buffer[j]
      BY <2>1, <2>3
    <3>2. j <= Len(old) => j \in 2 .. Len(old)
      BY <2>2
    <3> QED BY <2>2, <2>3, <3>1, <3>2
  <2>6. \A j \in DOMAIN buffer : j = 1 \/ j \in 2 .. 1 + capacity
    BY <2>3
  <2>7. \A j \in DOMAIN buffer : new[j].type = buffer[j].type /\ HasType(new[j].val, new[j].type)
    <3>1. HasType(buffer[1].val, buffer[1].type)
      <4>1. 1 \in DOMAIN buffer
        BY <2>3
      <4> QED BY <2>3, <4>1 DEF IsBlock, IsObject
    <3> QED BY <2>3, <2>4, <2>5, <2>6, <3>1 DEF IsInt
  <2>8. new \in Seq(Cells) /\ Len(new) = Len(buffer)
    <3>1. buffer[1] \in Cells
      <4>1. 1 \in 1 .. Len(buffer) /\ buffer \in Seq(Cells)
        BY <2>3 DEF IsBlock
      <4> QED BY <4>1, ElementOfSeq
    <3>2. \A j \in 1 .. 1 + capacity : new[j] \in Cells
      BY <2>3, <2>4, <2>5, <2>6, <3>1 DEF IsInt
    <3>3. new = [j \in 1 .. 1 + capacity |-> new[j]] /\ 1 + capacity \in Nat
      BY <2>1, <2>3
    <3>4. new \in [1 .. 1 + capacity -> Cells]
      BY <3>2, <3>3
    <3>5. new \in Seq(Cells)
      BY <3>3, <3>4, SeqDef
    <3> QED BY <2>3, <2>4, <3>3, <3>5, LenProperties
  <2>9. IsBlock(new) /\ new # <<>>
    BY <2>3, <2>4, <2>7, <2>8, Retyped
  <2>10. \A j \in 2 .. Len(old) : j <= 1 + capacity => new[j] = old[j]
    BY <2>1, <2>2, <2>3
  <2> QED BY <1>2, <2>3, <2>4, <2>5, <2>8, <2>9, <2>10 DEF IsBuffer, new, old
<1> QED BY <1>1, <1>2

LEMMA ReplacedFacts ==
  ASSUME NEW h, Sane(h), NEW a \in Free(h), NEW buffer, IsBlock(buffer), buffer # <<>>,
         NEW data, data = Null \/ IsIntArray(h, data)
  PROVE  /\ Sane(Replaced(h, a, buffer, data)) /\ Replaced(h, a, buffer, data)[a] = buffer
         /\ \A b \in Addresses \ {a} :
              Replaced(h, a, buffer, data)[b] = IF data # Null /\ b = data.address THEN <<>> ELSE h[b]
<1> DEFINE g == [h EXCEPT ![a] = buffer]
<1>1. a \in Addresses /\ h[a] = <<>> /\ h \in [Addresses -> Seq(Cells)] /\ buffer \in Seq(Cells)
  BY DEF Free, Sane, IsBlock
<1>2. g \in [Addresses -> Seq(Cells)] /\ g[a] = buffer /\ \A b \in Addresses \ {a} : g[b] = h[b]
  BY <1>1
<1>3. Sane(g)
  BY <1>2 DEF Sane
<1>4. CASE data = Null
  BY <1>2, <1>3, <1>4 DEF Replaced
<1>5. CASE data # Null
  <2>1. data.index = 1 /\ data.address \in Addresses /\ h[data.address] # <<>> /\ data.address # a
    BY <1>1, <1>5, IntArrayFacts
  <2> HIDE DEF g
  <2>2. Deallocated(g, data) = [g EXCEPT ![data.address] = <<>>]
    BY <1>2, <2>1 DEF Deallocated, IsAddress
  <2>3. Replaced(h, a, buffer, data) = [g EXCEPT ![data.address] = <<>>]
    BY <1>5, <2>2 DEF Replaced, g
  <2>4. Sane(Replaced(h, a, buffer, data))
    BY <1>3, <2>3, EmptyBlock DEF Sane
  <2>5. Replaced(h, a, buffer, data)[a] = buffer
    BY <1>1, <1>2, <2>1, <2>3
  <2>6. \A b \in Addresses \ {a} :
          Replaced(h, a, buffer, data)[b] = IF b = data.address THEN <<>> ELSE h[b]
    BY <1>2, <2>1, <2>3
  <2> QED BY <1>5, <2>4, <2>5, <2>6
<1> QED BY <1>4, <1>5
ExpandCodes == {"hangs", "wrapped", "null", "freed", "assert"}

LEMMA ExpandResult ==
  ASSUME NEW h, Sane(h), NEW string, IsString32(string), NEW required \in Nat,
         NEW result \in Expand32(h, string, required)
  PROVE  \/ \E code \in ExpandCodes : result = Failed(code)
         \/ \E g, expanded : result = Going(g, expanded) /\ Expands(h, string, required, g, expanded)
<1> DEFINE data     == Data(string)
           capacity == Grown(Capacity(string), required)
           buffer   == NewArray(IntType, capacity)
           grown(a) == Replaced(h, a, Copied(h, buffer, data), data)
           expanded == {Going(grown(a), StringOf(First(a), Length(string), capacity)) : a \in Allocatable(h, buffer)}
<1>1. data \in Pointers /\ Length(string) \in Numbers /\ Capacity(string) \in Numbers /\ Capacity(string) \in Nat
  BY StringFields, IntFacts
<1>2. CASE required <= Capacity(string)
  <2>1. result = Going(h, string)
    BY <1>2 DEF Expand32, Suffices
  <2> QED BY <1>2, <2>1 DEF Expands
<1>3. CASE ~(required <= Capacity(string))
  <2>1. required > Capacity(string)
    BY <1>1, <1>3
  <2>2. result \in ASSERT(capacity # 0, "hangs",
                   ASSERT(ArraySize(IntType, capacity) < WordSize, "wrapped",
                   ASSERT(Allocatable(h, buffer) # {}, "null",
                     IF data = Null THEN expanded ELSE Items(h, data, expanded))))
    BY <1>3 DEF Expand32, Suffices
  <2>3. capacity \in Nat /\ (capacity # 0 => capacity >= required)
    BY <1>1, <2>1, GrownFacts
  <2> HIDE DEF expanded, capacity
  <2>4. SUFFICES ASSUME ~ \E code \in ExpandCodes : result = Failed(code)
                 PROVE  \E g, s : result = Going(g, s) /\ Expands(h, string, required, g, s)
    OBVIOUS
  <2>5. capacity # 0
    BY <2>2, <2>4 DEF ASSERT, ExpandCodes
  <2>6. ArraySize(IntType, capacity) < WordSize
    BY <2>2, <2>4, <2>5 DEF ASSERT, ExpandCodes
  <2>7. Allocatable(h, buffer) # {} /\ result \in (IF data = Null THEN expanded ELSE Items(h, data, expanded))
    BY <2>2, <2>4, <2>5, <2>6 DEF ASSERT, ExpandCodes
  <2>8. result \in expanded /\ (data = Null \/ IsIntArray(h, data))
    <3>1. CASE data = Null
      BY <2>7, <3>1
    <3>2. CASE data # Null
      <4>1. ItemFailure(h, data) = "running" \/ ItemFailure(h, data) \in ExpandCodes
        BY DEF ItemFailure, ExpandCodes
      <4>2. ItemFailure(h, data) = "running" /\ result \in expanded
        BY <2>4, <2>7, <3>2, <4>1 DEF Items, ASSERT
      <4> QED BY <1>1, <3>2, <4>2 DEF IsIntArray, Pointers
    <3> QED BY <3>1, <3>2
  <2>9. PICK a \in Allocatable(h, buffer) : result = Going(grown(a), StringOf(First(a), Length(string), capacity))
    BY <2>8 DEF expanded
  <2>10. capacity \in Numbers \ {0} /\ Len(buffer) = 1 + capacity /\ capacity \in Nat \ {0}
    BY <2>3, <2>5, <2>6, NewBuffer
  <2>11. a \in Free(h) /\ 1 + capacity <= MaxCells
    BY <2>9, <2>10, IntFacts, MemoryAssumption DEF Allocatable
  <2>12. IsBuffer(buffer, capacity)
    BY <2>6, <2>10, <2>11, NewBuffer
  <2> DEFINE new == Copied(h, buffer, data)
  <2> HIDE DEF buffer, data
  <2>13. /\ IsBuffer(new, capacity)
         /\ data # Null => \A j \in 2 .. Len(h[data.address]) : j <= 1 + capacity => new[j] = h[data.address][j]
    BY <2>8, <2>10, <2>12, CopiedFacts
  <2>14. IsBlock(new) /\ new # <<>>
    BY <2>13 DEF IsBuffer
  <2> HIDE DEF new
  <2>15. /\ Sane(Replaced(h, a, new, data)) /\ Replaced(h, a, new, data)[a] = new
         /\ \A b \in Addresses \ {a} :
              Replaced(h, a, new, data)[b] = IF data # Null /\ b = data.address THEN <<>> ELSE h[b]
    BY <2>8, <2>11, <2>14, ReplacedFacts
  <2>16. grown(a) = Replaced(h, a, new, data)
    BY DEF new
  <2> HIDE DEF grown
  <2>17. Replaces(h, string, a, capacity, grown(a), StringOf(First(a), Length(string), capacity))
    BY <2>8, <2>10, <2>11, <2>13, <2>15, <2>16 DEF Replaces, data
  <2>18. Expands(h, string, required, grown(a), StringOf(First(a), Length(string), capacity))
    BY <2>1, <2>3, <2>5, <2>10, <2>11, <2>17 DEF Expands, capacity
  <2> QED BY <2>9, <2>18
<1> QED BY <1>2, <1>3

LEMMA BufferIsIntArray ==
  ASSUME NEW h, Sane(h), NEW a \in Addresses, NEW capacity \in Nat \ {0}, IsBuffer(h[a], capacity)
  PROVE  /\ IsIntArray(h, First(a)) /\ IsAddress(h, First(a)) /\ First(a).address = a
         /\ Cell(h, First(a)).val = capacity
<1>1. First(a) \in Pointer /\ First(a).address = a /\ First(a).index = 1
  BY DEF First, Pointer
<1>2. /\ h[a] # <<>> /\ Len(h[a]) = 1 + capacity /\ h[a][1] = [type |-> ArrayType, val |-> capacity]
      /\ h[a][2].type = IntType
  <2>1. 2 \in 2 .. 1 + capacity
    OBVIOUS
  <2> QED BY <2>1 DEF IsBuffer, IsInt
<1>3. IsLive(h, First(a)) /\ Cell(h, First(a)).type = ArrayType /\ Cell(h, First(a)).val = capacity
  BY <1>1, <1>2 DEF IsLive, Cell
<1>4. Cell(h, Moved(First(a), 1)) = h[a][2]
  BY <1>1, <1>3, ArrayLies
<1>5. First(a) # Null
  BY <1>1, MemoryAssumption
<1> QED BY <1>1, <1>2, <1>3, <1>4, <1>5 DEF IsIntArray, ItemFailure, ElementType, IsAddress

\* What Expand32 leaves whatever the strings are: objects, and every block with strings.
LEMMA ExpandKeeps ==
  ASSUME NEW h, Sane(h), NEW string, IsString32(string), NEW required \in Nat,
         NEW g, NEW expanded, Expands(h, string, required, g, expanded)
  PROVE  /\ Sane(g) /\ IsString32(expanded)
         /\ Length(expanded) = Length(string) /\ required <= Capacity(expanded)
         /\ \A a \in Addresses : HoldsString(h, a) => g[a] = h[a]
<1>1. /\ Data(string) \in Pointers /\ Length(string) \in Numbers /\ Capacity(string) \in Numbers
  BY StringFields
<1>2. CASE g = h /\ expanded = string /\ required <= Capacity(string)
  BY <1>2
<1>3. CASE \E a \in Free(h), capacity \in Numbers \ {0} :
             capacity >= required /\ Replaces(h, string, a, capacity, g, expanded)
  <2>1. PICK a \in Free(h), capacity \in Numbers \ {0} :
          capacity >= required /\ Replaces(h, string, a, capacity, g, expanded)
    BY <1>3
  <2>2. /\ expanded = StringOf(First(a), Length(string), capacity) /\ Sane(g)
        /\ Data(string) = Null \/ IsIntArray(h, Data(string))
        /\ \A b \in Addresses \ {a} :
             g[b] = IF Data(string) # Null /\ b = Data(string).address THEN <<>> ELSE h[b]
    BY <2>1 DEF Replaces
  <2>3. First(a) \in Pointers /\ a \in Addresses /\ h[a] = <<>>
    BY DEF Free, First, Pointer, Pointers
  <2>4. /\ IsString32(expanded) /\ Length(expanded) = Length(string) /\ Capacity(expanded) = capacity
    BY <1>1, <2>2, <2>3, StringWhole
  <2>5. capacity \in Nat /\ required <= capacity
    BY <2>1, IntFacts
  <2>6. ~HoldsString(h, a)
    BY <2>3 DEF HoldsString
  <2>7. Data(string) # Null => ~HoldsString(h, Data(string).address)
    BY <2>2, IntArrayFacts
  <2> QED BY <2>2, <2>4, <2>5, <2>6, <2>7
<1> QED BY <1>2, <1>3 DEF Expands
-----------------------------------------------------------------------------
(* SetInt, memcpy and the length *)

\* What SetInt of the text, from a place on, leaves.
Sets(h, string, at, text, g) ==
  \/ text = <<>> /\ g = h
  \/ /\ IsIntArray(h, Data(string)) /\ at + 1 + Len(text) <= Len(h[Data(string).address])
     /\ Sane(g)
     /\ \A a \in Addresses \ {Data(string).address} : g[a] = h[a]
     /\ Len(g[Data(string).address]) = Len(h[Data(string).address])
     /\ \A j \in 1 .. Len(h[Data(string).address]) :
          g[Data(string).address][j] =
            IF j \in at + 2 .. at + 1 + Len(text) THEN [type |-> IntType, val |-> text[j - at - 1]]
                                                  ELSE h[Data(string).address][j]

SetCodes == {"null", "freed", "assert", "overrun"}

LEMMA ItemsResult ==
  ASSUME NEW h, NEW data \in Pointers, NEW results, NEW result \in Items(h, data, results)
  PROVE  \/ \E code \in {"null", "freed", "assert"} : result = Failed(code)
         \/ IsIntArray(h, data) /\ result \in results
<1>1. ItemFailure(h, data) = "running" \/ ItemFailure(h, data) \in {"null", "freed", "assert"}
  BY DEF ItemFailure
<1>2. CASE ItemFailure(h, data) = "running"
  <2>1. data # Null
    BY <1>2 DEF ItemFailure
  <2>2. result \in results
    BY <1>2 DEF Items, ASSERT
  <2> QED BY <1>2, <2>1, <2>2 DEF IsIntArray, Pointers
<1>3. CASE ItemFailure(h, data) # "running"
  BY <1>1, <1>3 DEF Items, ASSERT
<1> QED BY <1>2, <1>3

LEMMA IntCell ==
  ASSUME NEW n \in Numbers
  PROVE  IsInt([type |-> IntType, val |-> n])
<1>1. HasType(n, IntType) /\ n \in Values /\ IntType \in Types
  BY TypeFacts, IntFacts DEF NumberTypes, Values, Types
<1> QED BY <1>1 DEF IsInt, Cells

LEMMA SetIntsResult ==
  ASSUME NEW h, Sane(h), NEW string, IsString32(string), NEW at \in Nat, NEW text \in Seq(Numbers),
         NEW result \in SetInts(h, string, at, text)
  PROVE  \/ \E code \in SetCodes : result = Failed(code)
         \/ \E g : result = Going(g, string) /\ Sets(h, string, at, text, g)
<1> DEFINE data  == Data(string)
           first == Moved(data, at + 1)
           ints  == [i \in DOMAIN text |-> [type |-> IntType, val |-> text[i]]]
           n     == Len(text)
<1>1. CASE text = <<>>
  BY <1>1 DEF SetInts, Sets
<1>2. CASE text # <<>>
  <2>1. result \in Items(h, data, ASSERT(Fits(h, first, n), "overrun", {Going(Written(h, first, ints), string)}))
    BY <1>2 DEF SetInts
  <2>2. data \in Pointers
    BY StringFields
  <2> SUFFICES ASSUME ~ \E code \in SetCodes : result = Failed(code)
               PROVE  \E g : result = Going(g, string) /\ Sets(h, string, at, text, g)
    OBVIOUS
  <2> HIDE DEF data, first, ints, n
  <2>3. IsIntArray(h, data) /\ result \in ASSERT(Fits(h, first, n), "overrun", {Going(Written(h, first, ints), string)})
    BY <2>1, <2>2, ItemsResult DEF SetCodes
  <2>4. Fits(h, first, n) /\ result = Going(Written(h, first, ints), string)
    BY <2>3 DEF ASSERT, SetCodes
  <2>5. /\ data.index = 1 /\ data \in Pointer /\ data.address \in Addresses /\ h[data.address] # <<>>
        /\ Len(h[data.address]) \in Nat /\ data = First(data.address)
        /\ \A j \in 2 .. Len(h[data.address]) : IsInt(h[data.address][j])
    BY <2>3, IntArrayFacts
  <2>6. first = [address |-> data.address, index |-> at + 2]
    <3>1. data = [address |-> data.address, index |-> 1]
      BY <2>5 DEF First
    <3>2. first = [address |-> data.address, index |-> 1 + (at + 1)]
      BY <3>1 DEF first, Moved
    <3> QED BY <3>2
  <2>7. first \in Pointer /\ first.address = data.address /\ first.index = at + 2
    BY <2>5, <2>6 DEF Pointer
  <2>8. n \in Nat /\ n > 0 /\ DOMAIN text = 1 .. n
    BY <1>2 DEF n
  <2>9. /\ ints \in Seq(Cells) /\ Len(ints) = n
        /\ \A i \in 1 .. n : ints[i] = [type |-> IntType, val |-> text[i]] /\ IsInt(ints[i])
    <3>1. \A i \in 1 .. n : text[i] \in Numbers
      BY ElementOfSeq DEF n
    <3>2. \A i \in 1 .. n : IsInt([type |-> IntType, val |-> text[i]])
      BY <3>1, IntCell
    <3>3. ints \in [1 .. n -> Cells] /\ \A i \in 1 .. n : ints[i] = [type |-> IntType, val |-> text[i]]
      BY <2>8, <3>2 DEF ints, IsInt
    <3>4. ints \in Seq(Cells)
      BY <2>8, <3>3, SeqDef
    <3>5. Len(ints) = n
      BY <2>8, <3>3, <3>4, LenProperties
    <3> QED BY <3>2, <3>3, <3>4, <3>5
  <2>10. at + 1 + n <= Len(h[data.address]) /\ first.index + Len(ints) - 1 <= Len(h[data.address])
    BY <2>4, <2>5, <2>7, <2>8, <2>9 DEF Fits
  <2>11. \A j \in 1 .. n : /\ ints[j].type = h[data.address][at + 2 + (j - 1)].type
                           /\ HasType(ints[j].val, ints[j].type)
    <3> SUFFICES ASSUME NEW j \in 1 .. n
                 PROVE  /\ ints[j].type = h[data.address][at + 2 + (j - 1)].type
                        /\ HasType(ints[j].val, ints[j].type)
      OBVIOUS
    <3>1. at + 2 + (j - 1) \in 2 .. Len(h[data.address])
      BY <2>5, <2>8, <2>10
    <3> QED BY <2>5, <2>9, <3>1 DEF IsInt
  <2>12. Sane(Written(h, first, ints))
    <3>1. /\ first.index \in Nat \ {0, 1} /\ h[first.address] # <<>>
          /\ first.index + Len(ints) - 1 <= Len(h[first.address])
      BY <2>5, <2>7, <2>10
    <3>2. \A j \in 1 .. Len(ints) : /\ ints[j].type = h[first.address][first.index + (j - 1)].type
                                    /\ HasType(ints[j].val, ints[j].type)
      BY <2>7, <2>9, <2>11
    <3>3. first \in Pointer /\ ints \in Seq(Cells)
      BY <2>7, <2>9
    <3> QED BY <3>1, <3>2, <3>3, WrittenSane
  <2> DEFINE g == Written(h, first, ints)
  <2>13. /\ \A a \in Addresses \ {data.address} : g[a] = h[a]
         /\ Len(g[data.address]) = Len(h[data.address])
         /\ DOMAIN h[data.address] = 1 .. Len(h[data.address])
         /\ \A j \in DOMAIN h[data.address] :
              g[data.address][j] = IF j \in first.index .. first.index + Len(ints) - 1
                                     THEN ints[j - first.index + 1] ELSE h[data.address][j]
    <3>1. first.index + Len(ints) - 1 <= Len(h[first.address])
      BY <2>7, <2>10
    <3>2. first \in Pointer /\ ints \in Seq(Cells)
      BY <2>7, <2>9
    <3>3. /\ \A a \in Addresses \ {first.address} : Written(h, first, ints)[a] = h[a]
          /\ Len(Written(h, first, ints)[first.address]) = Len(h[first.address])
          /\ DOMAIN h[first.address] = 1 .. Len(h[first.address])
          /\ \A j \in DOMAIN h[first.address] :
               Written(h, first, ints)[first.address][j] =
                 IF j \in first.index .. first.index + Len(ints) - 1 THEN ints[j - first.index + 1]
                                                                     ELSE h[first.address][j]
      BY <3>1, <3>2, WrittenCells
    <3> QED BY <2>7, <3>3
  <2> HIDE DEF g
  <2>14. \A j \in 1 .. Len(h[data.address]) :
           g[data.address][j] = IF j \in at + 2 .. at + 1 + n THEN [type |-> IntType, val |-> text[j - at - 1]]
                                                              ELSE h[data.address][j]
    <3> SUFFICES ASSUME NEW j \in 1 .. Len(h[data.address])
                 PROVE  g[data.address][j] = IF j \in at + 2 .. at + 1 + n THEN [type |-> IntType, val |-> text[j - at - 1]]
                                                                           ELSE h[data.address][j]
      OBVIOUS
    <3>1. first.index + Len(ints) - 1 = at + 1 + n /\ first.index = at + 2
      BY <2>7, <2>8, <2>9
    <3>2. CASE j \in at + 2 .. at + 1 + n
      <4>1. j - at - 1 \in 1 .. n /\ j - first.index + 1 = j - at - 1
        BY <2>8, <3>1, <3>2
      <4>2. g[data.address][j] = ints[j - first.index + 1]
        BY <2>13, <3>1, <3>2
      <4>3. ints[j - at - 1] = [type |-> IntType, val |-> text[j - at - 1]]
        BY <2>9, <4>1
      <4> QED BY <3>2, <4>1, <4>2, <4>3
    <3>3. CASE j \notin at + 2 .. at + 1 + n
      BY <2>13, <3>1, <3>3
    <3> QED BY <3>2, <3>3
  <2>15. Sets(h, string, at, text, g)
    BY <2>3, <2>10, <2>12, <2>13, <2>14 DEF Sets, data, n, g
  <2> QED BY <2>4, <2>15 DEF g
<1> QED BY <1>1, <1>2

LEMMA SetsKeeps ==
  ASSUME NEW h, Sane(h), NEW string, NEW at \in Nat, NEW text, NEW g, Sets(h, string, at, text, g)
  PROVE  /\ Sane(g)
         /\ \A a \in Addresses : HoldsString(h, a) => g[a] = h[a]
<1>1. CASE g = h
  BY <1>1
<1>2. CASE /\ IsIntArray(h, Data(string)) /\ Sane(g)
           /\ \A a \in Addresses \ {Data(string).address} : g[a] = h[a]
  BY <1>2, IntArrayFacts
<1> QED BY <1>1, <1>2 DEF Sets

\* The heap with another string in the place of one.
HasString(h, p, new, g) ==
  /\ Sane(g) /\ ObjectAt(g, p) = new
  /\ \A a \in Addresses \ {p.address} : g[a] = h[a]
  /\ \A a \in Addresses : Len(g[a]) = Len(h[a]) /\ DOMAIN g[a] = DOMAIN h[a]
  /\ \A j \in DOMAIN h[p.address] :
       g[p.address][j] = IF j \in p.index .. p.index + 3 THEN new[j - p.index + 1] ELSE h[p.address][j]
  /\ \A a \in Addresses : \A j \in DOMAIN h[a] : g[a][j].type = h[a][j].type

LEMMA StringWritten ==
  ASSUME NEW h, Sane(h), NEW p \in Pointer, IsLive(h, p), Cell(h, p).type = String32,
         NEW new, IsString32(new)
  PROVE  HasString(h, p, new, Written(h, p, new))
<1> DEFINE g == Written(h, p, new)
<1>1. IsWholeObject(new) /\ new[1].type = Cell(h, p).type
  BY DEF IsString32
<1>2. new \in Seq(Cells) /\ Len(new) = 4 /\ DOMAIN new = 1 .. 4
  BY <1>1, StringFields DEF IsWholeObject
<1>3. p.index + 3 <= Len(h[p.address]) /\ Len(h[p.address]) \in Nat /\ p.index \in Nat \ {0} /\ p.address \in Addresses
  BY StringFound
<1>4. Sane(g)
  BY <1>1, WrittenKeeps
<1>5. p.index + Len(new) - 1 = p.index + 3
  BY <1>2, <1>3
<1>6. p.index + Len(new) - 1 <= Len(h[p.address])
  BY <1>3, <1>5
<1>7. /\ \A a \in Addresses \ {p.address} : g[a] = h[a]
      /\ Len(g[p.address]) = Len(h[p.address])
      /\ DOMAIN g[p.address] = DOMAIN h[p.address]
      /\ DOMAIN h[p.address] = 1 .. Len(h[p.address])
      /\ \A j \in DOMAIN h[p.address] :
           g[p.address][j] = IF j \in p.index .. p.index + Len(new) - 1 THEN new[j - p.index + 1] ELSE h[p.address][j]
  <2>1. new \in Seq(Cells)
    BY <1>2
  <2> QED BY ONLY <2>1, <1>6, Sane(h), p \in Pointer, WrittenCells
<1> HIDE DEF g
<1>8. \A j \in DOMAIN h[p.address] :
        g[p.address][j] = IF j \in p.index .. p.index + 3 THEN new[j - p.index + 1] ELSE h[p.address][j]
  BY <1>5, <1>7
<1>9. Cell(g, p).type = String32 /\ IsLive(g, p)
  <2>1. p.index \in DOMAIN h[p.address] /\ p.index \in p.index .. p.index + 3 /\ p.index - p.index + 1 = 1
    BY <1>3, <1>7
  <2>2. g[p.address][p.index] = new[1]
    BY <1>8, <2>1
  <2> QED BY <1>7, <2>2 DEF Cell, IsLive, IsString32
<1>10. ObjectAt(g, p) = new
  <2>1. IsString32(ObjectAt(g, p)) /\ \A j \in 1 .. 4 : ObjectAt(g, p)[j] = g[p.address][p.index + (j - 1)]
    BY <1>4, <1>9, StringFound
  <2>2. DOMAIN ObjectAt(g, p) = 1 .. 4 /\ ObjectAt(g, p) \in Seq(Cells)
    BY <2>1, StringFields DEF IsString32, IsWholeObject
  <2>3. ASSUME NEW j \in 1 .. 4
        PROVE  ObjectAt(g, p)[j] = new[j]
    <3>1. /\ p.index + (j - 1) \in DOMAIN h[p.address] /\ p.index + (j - 1) \in p.index .. p.index + 3
          /\ (p.index + (j - 1)) - p.index + 1 = j
      BY <1>3, <1>7
    <3>2. g[p.address][p.index + (j - 1)] = new[(p.index + (j - 1)) - p.index + 1]
      BY <1>8, <3>1
    <3> QED BY <2>1, <3>1, <3>2
  <2>4. Len(ObjectAt(g, p)) = 4
    BY <2>1, StringFields
  <2> HIDE DEF g
  <2> QED BY <1>2, <2>2, <2>3, <2>4
<1>11. \A j \in DOMAIN h[p.address] : g[p.address][j].type = h[p.address][j].type
  <2> SUFFICES ASSUME NEW j \in DOMAIN h[p.address]
               PROVE  g[p.address][j].type = h[p.address][j].type
    OBVIOUS
  <2>1. CASE j \in p.index .. p.index + 3
    <3>1. PICK k : k = j - p.index + 1
      OBVIOUS
    <3>2. k \in 1 .. 4 /\ p.index + (k - 1) = j
      BY <1>3, <1>7, <2>1, <3>1
    <3>3. g[p.address][j] = new[k]
      BY <1>8, <2>1, <3>1
    <3>4. \A i \in 1 .. 4 : new[i].type = CellType(String32, i)
      BY <1>2 DEF IsString32, IsWholeObject
    <3>5. /\ IsString32(ObjectAt(h, p))
          /\ \A i \in 1 .. 4 : ObjectAt(h, p)[i] = h[p.address][p.index + (i - 1)]
      BY StringFound
    <3>6. \A i \in 1 .. 4 : ObjectAt(h, p)[i].type = CellType(String32, i)
      BY <3>5, StringFields DEF IsString32, IsWholeObject
    <3> QED BY <3>2, <3>3, <3>4, <3>5, <3>6
  <2>2. CASE j \notin p.index .. p.index + 3
    BY <1>8, <2>2
  <2> QED BY <2>1, <2>2
<1> QED BY <1>4, <1>7, <1>8, <1>10, <1>11 DEF HasString, g

-----------------------------------------------------------------------------
(* Copying elements *)

LEMMA Products ==
  ASSUME NEW s \in Nat \ {0}, NEW i \in Nat, NEW j \in Nat
  PROVE  /\ s * i \in Nat /\ s * j \in Nat /\ s * (i + j) = s * i + s * j
         /\ i < j => s * i + s <= s * j
         /\ s * i <= s * j <=> i <= j
         /\ s * i < s * j <=> i < j
<1>1. s * i \in Nat /\ s * j \in Nat /\ s * (i + j) = s * i + s * j
  OBVIOUS
<1>2. i < j => s * i + s <= s * j
  BY NextMultiple
<1>3. j < i => s * j + s <= s * i
  BY NextMultiple
<1>4. i = j => s * i = s * j
  OBVIOUS
<1>5. PICK x \in Nat : x = s * i
  BY <1>1
<1>6. PICK y \in Nat : y = s * j
  BY <1>1
<1>7. /\ i < j => x + s <= y
      /\ j < i => y + s <= x
      /\ i = j => x = y
  BY <1>2, <1>3, <1>4, <1>5, <1>6
<1>8. (x <= y <=> i <= j) /\ (x < y <=> i < j)
  BY <1>7
<1> QED BY <1>1, <1>2, <1>5, <1>6, <1>8

LEMMA ModShift ==
  ASSUME NEW s \in Nat \ {0}, NEW j \in Nat, NEW x \in Nat
  PROVE  (s * j + x) % s = x % s
<1>1. PICK q \in Nat, r \in 0 .. s - 1 : q = x \div s /\ r = x % s
  BY DivMod
<1>2. x = s * q + r
  BY <1>1, DivMod
<1>3. s * j + x = s * (j + q) + r /\ j + q \in Nat
  <2>1. s * (j + q) = s * j + s * q /\ s * j \in Nat /\ s * q \in Nat
    BY Products
  <2> QED BY <1>2, <2>1
<1>4. (s * (j + q) + r) % s = r
  BY <1>3, ModUnique
<1> QED BY <1>1, <1>3, <1>4

LEMMA ModMod ==
  ASSUME NEW s \in Nat \ {0}, NEW d \in Nat \ {0}, NEW x \in Nat
  PROVE  s * d \in Nat \ {0} /\ x % (s * d) \in Nat /\ (x % (s * d)) % s = x % s
<1>1. PICK m \in Nat \ {0} : m = s * d
  <2>1. s * 0 < s * d
    BY Products
  <2>2. s * 0 = 0 /\ s * d \in Nat
    BY Products
  <2> QED BY <2>1, <2>2
<1>2. PICK q \in Nat, r \in 0 .. m - 1 : q = x \div m /\ r = x % m
  BY DivMod
<1>3. x = m * q + r
  BY <1>2, DivMod
<1>4. m * q = s * (d * q) /\ d * q \in Nat
  <2>1. m * q = s * (d * q)
    BY <1>1
  <2> QED BY <2>1
<1>5. PICK n \in Nat : n = d * q
  BY <1>4
<1>6. (s * n + r) % s = r % s
  <2>1. r \in Nat
    BY <1>2
  <2> QED BY ONLY <2>1, n \in Nat, s \in Nat \ {0}, ModShift
<1>7. x = s * n + r
  BY <1>3, <1>4, <1>5
<1> QED BY <1>1, <1>2, <1>6, <1>7

\* The heap with some cells of a block written from q on.
CellsOver(h, q, count, a, place, g) ==
  /\ Sane(g) /\ g[q.address] # <<>>
  /\ \A b \in Addresses \ {q.address} : g[b] = h[b]
  /\ Len(g[q.address]) = Len(h[q.address])
  /\ DOMAIN h[q.address] = 1 .. Len(h[q.address])
  /\ \A j \in DOMAIN h[q.address] :
       g[q.address][j] = IF j \in q.index .. q.index + count - 1 THEN h[a][place[j - q.index + 1]]
                                                                 ELSE h[q.address][j]

\* A block stays one when cells are overwritten with cells of the same types.
LEMMA CellsCopied ==
  ASSUME NEW h, Sane(h), NEW q \in Pointer, q.index \in Nat \ {0, 1}, h[q.address] # <<>>,
         NEW count \in Nat, q.index + count - 1 <= Len(h[q.address]),
         NEW a \in Addresses, NEW place \in [1 .. count -> DOMAIN h[a]],
         \A k \in 1 .. count : h[a][place[k]].type = h[q.address][q.index + (k - 1)].type,
         NEW cells, cells = [k \in 1 .. count |-> h[a][place[k]]]
  PROVE  CellsOver(h, q, count, a, place, Written(h, q, cells))
<1>1. \A k \in 1 .. count : place[k] \in DOMAIN h[a]
  OBVIOUS
<1>2. IsBlock(h[a])
  BY DEF Sane
<1>3. \A k \in 1 .. count : h[a][place[k]] \in Cells /\ HasType(h[a][place[k]].val, h[a][place[k]].type)
  BY <1>1, <1>2, BlockFacts
<1>4. cells \in Seq(Cells) /\ Len(cells) = count /\ \A k \in 1 .. count : cells[k] = h[a][place[k]]
  <2>1. cells \in [1 .. count -> Cells]
    BY <1>3
  <2>2. cells \in Seq(Cells)
    BY <2>1, SeqDef
  <2>3. DOMAIN cells = 1 .. count
    BY <2>1
  <2>4. Len(cells) = count
    BY <2>2, <2>3, LenProperties
  <2> QED BY <2>2, <2>4
<1>5. q.index + Len(cells) - 1 <= Len(h[q.address])
  BY <1>4
<1>6. \A k \in 1 .. Len(cells) : /\ cells[k].type = h[q.address][q.index + (k - 1)].type
                                 /\ HasType(cells[k].val, cells[k].type)
  BY <1>3, <1>4
<1>7. Sane(Written(h, q, cells)) /\ Written(h, q, cells)[q.address] # <<>>
  BY <1>4, <1>5, <1>6, WrittenSane
<1>8. /\ \A b \in Addresses \ {q.address} : Written(h, q, cells)[b] = h[b]
      /\ Len(Written(h, q, cells)[q.address]) = Len(h[q.address])
      /\ DOMAIN h[q.address] = 1 .. Len(h[q.address])
      /\ \A j \in DOMAIN h[q.address] :
           Written(h, q, cells)[q.address][j] =
             IF j \in q.index .. q.index + Len(cells) - 1 THEN cells[j - q.index + 1] ELSE h[q.address][j]
  <2>1. cells \in Seq(Cells)
    BY <1>4
  <2> QED BY ONLY <2>1, <1>5, Sane(h), q \in Pointer, WrittenCells
<1>9. \A j \in DOMAIN h[q.address] :
        Written(h, q, cells)[q.address][j] =
          IF j \in q.index .. q.index + count - 1 THEN h[a][place[j - q.index + 1]] ELSE h[q.address][j]
  <2> SUFFICES ASSUME NEW j \in DOMAIN h[q.address]
               PROVE  Written(h, q, cells)[q.address][j] =
                        IF j \in q.index .. q.index + count - 1 THEN h[a][place[j - q.index + 1]] ELSE h[q.address][j]
    OBVIOUS
  <2>1. CASE j \in q.index .. q.index + count - 1
    <3>1. j - q.index + 1 \in 1 .. count
      BY <2>1
    <3> QED BY <1>4, <1>8, <2>1, <3>1
  <2>2. CASE j \notin q.index .. q.index + count - 1
    BY <1>4, <1>8, <2>2
  <2> QED BY <2>1, <2>2
<1> QED BY <1>7, <1>8, <1>9 DEF CellsOver
\* memcpy of elements of one array over those of another, or of the same.
Copies(h, dest, i, src, j, count, g) ==
  LET s == ObjectSize(h[dest.address][2].type)
  IN  /\ i + count <= Cell(h, dest).val /\ j + count <= Cell(h, src).val /\ j < Cell(h, src).val
      /\ Sane(g) /\ g[dest.address] # <<>>
      /\ \A a \in Addresses \ {dest.address} : g[a] = h[a]
      /\ Len(g[dest.address]) = Len(h[dest.address])
      /\ \A k \in 1 .. Len(h[dest.address]) :
           k \notin s * i + 2 .. s * (i + count) + 1 => g[dest.address][k] = h[dest.address][k]
      /\ dest # src \/ i - j \notin 1 .. count - 1 =>
           \A k \in 0 .. s * count - 1 : g[dest.address][s * i + 2 + k] = h[src.address][s * j + 2 + k]

LEMMA CopyElements ==
  ASSUME NEW h, Sane(h), NEW dest \in Pointer, NEW src \in Pointer, IsLive(h, dest), IsLive(h, src),
         Cell(h, dest).type = ArrayType, Cell(h, src).type = ArrayType,
         ElementType(h, dest) = ElementType(h, src),
         NEW i \in Nat, NEW j \in Nat, NEW count \in Nat,
         NEW result \in CopyObjectUnsafe(h, ElementAt(h, dest, i), ElementAt(h, src, j), count)
  PROVE  \/ result = Failed("past end") /\ j >= Cell(h, src).val
         \/ result = Failed("overrun") /\ (i + count > Cell(h, dest).val \/ j + count > Cell(h, src).val)
         \/ \E g : result = Done(g) /\ Copies(h, dest, i, src, j, count, g)
<1> DEFINE q    == ElementAt(h, dest, i)
           p    == ElementAt(h, src, j)
           da   == h[dest.address]
           sa   == h[src.address]
           type == da[2].type
           s    == ObjectSize(type)
           dn   == Cell(h, dest).val
           sn   == Cell(h, src).val
<1>1. /\ dest.index = 1 /\ dest = First(dest.address) /\ dest.address \in Addresses
      /\ da # <<>> /\ IsBlock(da) /\ dn \in Numbers \ {0}
      /\ Cell(h, Moved(dest, 1)) = da[2] /\ type \in ObjectTypes /\ Len(da) \in Nat
      /\ Len(da) = 1 + s * dn
      /\ \A k \in 2 .. Len(da) : da[k].type = CellType(type, ((k - 2) % s) + 1)
  BY ArrayLies
<1>2. /\ src.index = 1 /\ src = First(src.address) /\ src.address \in Addresses
      /\ sa # <<>> /\ IsBlock(sa) /\ sn \in Numbers \ {0}
      /\ Cell(h, Moved(src, 1)) = sa[2] /\ Len(sa) \in Nat
      /\ Len(sa) = 1 + ObjectSize(sa[2].type) * sn
      /\ \A k \in 2 .. Len(sa) : sa[k].type = CellType(sa[2].type, ((k - 2) % ObjectSize(sa[2].type)) + 1)
  BY ArrayLies
<1>3. sa[2].type = type
  BY <1>1, <1>2 DEF ElementType
<1>4. s \in Nat \ {0} /\ dn \in Nat /\ sn \in Nat
  BY <1>1, <1>2, SizeFacts, TypeFacts
<1>5. q \in Pointer /\ q.address = dest.address /\ q.index = (s * i) + 2
  BY ElementLies
<1>6. /\ p \in Pointer /\ p.address = src.address /\ p.index = (s * j) + 2
      /\ j < sn => IsLive(h, p) /\ Cell(h, p).type = type
  <2>1. /\ p \in Pointer /\ p.address = src.address /\ p.index = (ObjectSize(sa[2].type) * j) + 2
        /\ j < sn => IsLive(h, p) /\ Cell(h, p).type = sa[2].type
    BY ElementLies
  <2> QED BY <1>3, <2>1
<1> HIDE DEF q, p, da, sa, type, s, dn, sn
<1>7. Len(sa) = 1 + s * sn /\ \A k \in 2 .. Len(sa) : sa[k].type = CellType(type, ((k - 2) % s) + 1)
  BY <1>2, <1>3 DEF s
<1>8. IsLive(h, p) <=> j < sn
  <2>1. IsLive(h, p) <=> s * j + 2 <= 1 + s * sn
    BY <1>6, <1>7 DEF IsLive, sa
  <2>2. s * j < s * sn <=> j < sn
    BY <1>4, Products
  <2>3. s * j \in Nat /\ s * sn \in Nat
    BY <1>4, Products
  <2>4. PICK x \in Nat, y \in Nat : x = s * j /\ y = s * sn
    BY <2>3
  <2> QED BY <2>1, <2>2, <2>4
<1>9. result \in ASSERT(IsLive(h, p), "past end",
                 ASSERT(Fits(h, q, ObjectsOf(h, p, count)) /\ Fits(h, p, ObjectsOf(h, p, count)), "overrun",
                   MemCpy(h, q, p, ObjectsOf(h, p, count))))
  BY DEF CopyObjectUnsafe, q, p
<1>10. CASE ~IsLive(h, p)
  <2>1. j >= sn
    BY <1>4, <1>8, <1>10
  <2>2. result = Failed("past end")
    BY <1>9, <1>10 DEF ASSERT
  <2> QED BY <2>1, <2>2 DEF sn
<1> DEFINE n == s * count
<1>11. n \in Nat
  BY <1>4, Products
<1>13. n = count * s
  BY <1>4
<1>14. Len(da) \in Nat /\ Len(sa) \in Nat
  BY <1>1, <1>2
<1>12. CASE IsLive(h, p)
  <2>1. ObjectsOf(h, p, count) = n
    BY <1>6, <1>8, <1>13, <1>12 DEF ObjectsOf, s
  <2>2. /\ Fits(h, q, n) <=> i + count <= dn
        /\ Fits(h, p, n) <=> j + count <= sn
    <3>1. s * i \in Nat /\ s * j \in Nat /\ s * dn \in Nat /\ s * sn \in Nat
          /\ s * (i + count) = s * i + n /\ s * (j + count) = s * j + n
      BY <1>4, Products
    <3>2. i + count \in Nat /\ j + count \in Nat
      OBVIOUS
    <3>3. (s * (i + count) <= s * dn <=> i + count <= dn) /\ (s * (j + count) <= s * sn <=> j + count <= sn)
      BY <1>4, <3>2, Products
    <3>4. PICK x \in Nat, y \in Nat, u \in Nat, v \in Nat : x = s * i /\ y = s * j /\ u = s * dn /\ v = s * sn
      BY <3>1
    <3>5. (Fits(h, q, n) <=> (x + 2) + n - 1 <= 1 + u) /\ (Fits(h, p, n) <=> (y + 2) + n - 1 <= 1 + v)
      BY <1>1, <1>5, <1>6, <1>7, <3>4 DEF Fits, da, sa
    <3>6. (x + n <= u <=> i + count <= dn) /\ (y + n <= v <=> j + count <= sn)
      BY <3>1, <3>3, <3>4
    <3> HIDE DEF n
    <3> QED BY <1>11, <3>5, <3>6
  <2> HIDE DEF n
  <2>3. CASE ~(Fits(h, q, n) /\ Fits(h, p, n))
    <3>1. i + count > dn \/ j + count > sn
      BY <1>4, <2>2, <2>3
    <3>2. result = Failed("overrun")
      BY <1>9, <1>12, <2>1, <2>3 DEF ASSERT
    <3> QED BY <3>1, <3>2 DEF sn, dn
  <2>4. CASE Fits(h, q, n) /\ Fits(h, p, n)
    <3>1. result \in MemCpy(h, q, p, n)
      BY <1>9, <1>12, <2>1, <2>4 DEF ASSERT
    <3>2. i + count <= dn /\ j + count <= sn /\ j < sn
      BY <1>8, <1>12, <2>2, <2>4
    <3>3. PICK x \in Nat, y \in Nat : x = s * i /\ y = s * j
      BY <1>4, Products
    <3>4. /\ q.index = x + 2 /\ p.index = y + 2
          /\ x + 1 + n <= Len(da) /\ y + 1 + n <= Len(sa) /\ s * (i + count) = x + n
      <4>1. q.index = x + 2 /\ p.index = y + 2
        BY <1>5, <1>6, <3>3
      <4>2. q.index + n - 1 <= Len(da) /\ p.index + n - 1 <= Len(sa)
        BY <1>5, <1>6, <2>4 DEF Fits, da, sa
      <4>3. s * (i + count) = s * i + n
        BY <1>4, Products DEF n
      <4>4. x + 1 + n <= Len(da) /\ y + 1 + n <= Len(sa)
        BY <1>11, <1>14, <4>1, <4>2
      <4> QED BY <3>3, <4>1, <4>3, <4>4
    <3>5. /\ \A k \in 1 .. n : da[x + 2 + (k - 1)].type = CellType(type, ((k - 1) % s) + 1)
          /\ \A k \in 0 .. n - 1 : /\ y + 2 + k \in DOMAIN sa
                                   /\ sa[y + 2 + k].type = CellType(type, (k % s) + 1)
      <4>1. \A k \in Nat : (x + k) % s = k % s /\ (y + k) % s = k % s
        BY <1>4, <3>3, ModShift
      <4>2. DOMAIN sa = 1 .. Len(sa)
        BY <1>2 DEF IsBlock
      <4>3. ASSUME NEW k \in 1 .. n
            PROVE  da[x + 2 + (k - 1)].type = CellType(type, ((k - 1) % s) + 1)
        <5>1. x + 2 + (k - 1) \in 2 .. Len(da) /\ k - 1 \in Nat
          BY <1>14, <1>11, <3>4
        <5>2. PICK m \in Nat : m = k - 1
          BY <5>1
        <5>3. da[x + 2 + m].type = CellType(type, (((x + 2 + m) - 2) % s) + 1)
          BY <1>1, <5>1, <5>2 DEF s
        <5>4. (x + 2 + m) - 2 = x + m
          OBVIOUS
        <5> QED BY <4>1, <5>2, <5>3, <5>4
      <4>4. ASSUME NEW k \in 0 .. n - 1
            PROVE  y + 2 + k \in DOMAIN sa /\ sa[y + 2 + k].type = CellType(type, (k % s) + 1)
        <5>1. y + 2 + k \in 2 .. Len(sa) /\ k \in Nat
          BY <1>14, <1>11, <3>4
        <5>2. sa[y + 2 + k].type = CellType(type, (((y + 2 + k) - 2) % s) + 1)
          BY <1>7, <5>1
        <5>3. (y + 2 + k) - 2 = y + k
          BY <5>1
        <5>4. y + 2 + k \in DOMAIN sa
          BY <1>14, <4>2, <5>1
        <5> QED BY <4>1, <5>1, <5>2, <5>3, <5>4
      <4> QED BY <4>3, <4>4
    <3>6. ASSUME NEW place \in [1 .. n -> DOMAIN sa], NEW cells, cells = [k \in 1 .. n |-> sa[place[k]]],
                 \A k \in 1 .. n : sa[place[k]].type = CellType(type, ((k - 1) % s) + 1),
                 dest # src \/ i - j \notin 1 .. count - 1 => \A k \in 1 .. n : place[k] = y + 2 + (k - 1)
          PROVE  Copies(h, dest, i, src, j, count, Written(h, q, cells))
      <4> DEFINE g == Written(h, q, cells)
      <4>1. /\ q.index \in Nat \ {0, 1} /\ h[q.address] # <<>> /\ q.index + n - 1 <= Len(h[q.address])
            /\ \A k \in 1 .. n : h[src.address][place[k]].type = h[q.address][q.index + (k - 1)].type
            /\ cells = [k \in 1 .. n |-> h[src.address][place[k]]] /\ place \in [1 .. n -> DOMAIN h[src.address]]
        <5>1. q.index + n - 1 <= Len(h[q.address])
          <6>1. q.index + n - 1 <= Len(da)
            BY <1>11, <1>14, <3>4
          <6> QED BY <1>5, <6>1 DEF da
        <5>2. \A k \in 1 .. n : h[src.address][place[k]].type = h[q.address][q.index + (k - 1)].type
          BY <1>5, <3>4, <3>5, <3>6 DEF da, sa
        <5>3. q.index \in Nat \ {0, 1} /\ h[q.address] # <<>>
          BY <1>1, <1>5, <3>4 DEF da
        <5> QED BY <3>6, <5>1, <5>2, <5>3 DEF sa
      <4>2. /\ Sane(g) /\ g[q.address] # <<>>
            /\ \A b \in Addresses \ {q.address} : g[b] = h[b]
            /\ Len(g[q.address]) = Len(h[q.address])
            /\ DOMAIN h[q.address] = 1 .. Len(h[q.address])
            /\ \A k \in DOMAIN h[q.address] :
                 g[q.address][k] = IF k \in q.index .. q.index + n - 1 THEN h[src.address][place[k - q.index + 1]]
                                                                       ELSE h[q.address][k]
        <5>1. q \in Pointer /\ src.address \in Addresses
          BY <1>2, <1>5
        <5>2. CellsOver(h, q, n, src.address, place, Written(h, q, cells))
          BY ONLY <4>1, <5>1, <1>11, Sane(h), CellsCopied
        <5> QED BY <5>2 DEF CellsOver
      <4> HIDE DEF g
      <4>3. /\ \A k \in 1 .. Len(da) : k \notin x + 2 .. x + n + 1 => g[dest.address][k] = da[k]
            /\ \A k \in 0 .. n - 1 : g[dest.address][x + 2 + k] = sa[place[k + 1]]
        <5>1. \A k \in 1 .. Len(da) : g[dest.address][k] = IF k \in x + 2 .. x + n + 1 THEN sa[place[k - (x + 1)]] ELSE da[k]
          <6> SUFFICES ASSUME NEW k \in 1 .. Len(da)
                       PROVE  g[dest.address][k] = IF k \in x + 2 .. x + n + 1 THEN sa[place[k - (x + 1)]] ELSE da[k]
            OBVIOUS
          <6>1. g[q.address][k] = IF k \in q.index .. q.index + n - 1 THEN h[src.address][place[k - q.index + 1]]
                                                                       ELSE h[q.address][k]
            BY <1>5, <4>2 DEF da
          <6>2. q.index + n - 1 = x + n + 1 /\ k - q.index + 1 = k - (x + 1)
            BY <1>11, <1>14, <3>4
          <6> QED BY <1>5, <3>4, <6>1, <6>2 DEF da, sa
        <5>2. \A k \in 0 .. n - 1 : /\ x + 2 + k \in 1 .. Len(da) /\ x + 2 + k \in x + 2 .. x + n + 1
                                    /\ (x + 2 + k) - (x + 1) = k + 1
          BY <1>14, <1>11, <3>4
        <5> QED BY <5>1, <5>2
      <4>4. \A k \in 1 .. Len(da) : k \notin s * i + 2 .. s * (i + count) + 1 => g[dest.address][k] = da[k]
        BY <3>3, <3>4, <4>3
      <4>5. dest # src \/ i - j \notin 1 .. count - 1 =>
              \A k \in 0 .. s * count - 1 : g[dest.address][s * i + 2 + k] = sa[s * j + 2 + k]
        <5> SUFFICES ASSUME dest # src \/ i - j \notin 1 .. count - 1, NEW k \in 0 .. n - 1
                     PROVE  g[dest.address][x + 2 + k] = sa[y + 2 + k]
          BY <3>3 DEF n
        <5>1. k + 1 \in 1 .. n /\ (k + 1) - 1 = k
          BY <1>11
        <5>2. place[k + 1] = y + 2 + k
          BY <3>6, <5>1
        <5> QED BY <4>3, <5>2
      <4>6. Sane(g) /\ g[dest.address] # <<>> /\ Len(g[dest.address]) = Len(da)
            /\ \A a \in Addresses \ {dest.address} : g[a] = h[a]
        BY <1>5, <4>2 DEF da
      <4> QED BY <3>2, <4>4, <4>5, <4>6 DEF Copies, g, da, sa, s, type, dn, sn
    <3>7. CASE result = Done(Written(h, q, [k \in 1 .. n |-> h[p.address][p.index + k - 1]]))
      <4> DEFINE place == [k \in 1 .. n |-> y + 2 + (k - 1)]
                 cells == [k \in 1 .. n |-> h[p.address][p.index + k - 1]]
      <4>1. \A k \in 1 .. n : k - 1 \in 0 .. n - 1 /\ p.index + k - 1 = y + 2 + (k - 1)
        BY <1>11, <3>4
      <4>2. place \in [1 .. n -> DOMAIN sa] /\ \A k \in 1 .. n : place[k] = y + 2 + (k - 1)
        BY <3>5, <4>1
      <4> HIDE DEF place
      <4>3. \A k \in 1 .. n : sa[place[k]].type = CellType(type, ((k - 1) % s) + 1)
        BY <3>5, <4>1, <4>2
      <4>4. cells = [k \in 1 .. n |-> sa[place[k]]]
        BY <1>6, <4>1, <4>2 DEF sa
      <4> HIDE DEF cells
      <4>5. Copies(h, dest, i, src, j, count, Written(h, q, cells))
        BY <3>6, <4>2, <4>3, <4>4
      <4> QED BY <3>7, <4>5 DEF cells
    <3>8. CASE /\ q.address = p.address /\ q.index - p.index \in 1 .. n - 1
               /\ result = Done(Written(h, q, [k \in 1 .. n |-> h[p.address][p.index + ((k - 1) % (q.index - p.index))]]))
      <4> DEFINE cells == [k \in 1 .. n |-> h[p.address][p.index + ((k - 1) % (q.index - p.index))]]
      <4>1. x - y \in 1 .. n - 1 /\ q.index - p.index = x - y
        BY <3>4, <3>8
      <4>2. dest = src
        BY <1>1, <1>2, <1>5, <1>6, <3>8
      <4>3. j < i
        <5>1. y < x
          BY <4>1
        <5> QED BY <1>4, <3>3, <5>1, Products
      <4>4. PICK d \in Nat \ {0} : i = j + d
        <5>1. i - j \in Nat \ {0} /\ i = j + (i - j)
          BY <4>3
        <5> QED BY <5>1
      <4>5. x - y = s * d
        <5>1. s * (j + d) = s * j + s * d /\ s * d \in Nat
          BY <1>4, Products
        <5>2. PICK z \in Nat : z = s * d
          BY <5>1
        <5>3. x = y + z
          BY <3>3, <4>4, <5>1, <5>2
        <5> QED BY <5>2, <5>3
      <4>6. i - j \in 1 .. count - 1
        <5>1. s * d < s * count
          BY <1>11, <4>1, <4>5 DEF n
        <5>2. d < count
          BY <1>4, <5>1, Products
        <5> QED BY <4>4, <5>2
      <4> DEFINE place == [k \in 1 .. n |-> y + 2 + ((k - 1) % (s * d))]
      <4>7. ASSUME NEW k \in 1 .. n
            PROVE  /\ (k - 1) % (s * d) \in 0 .. n - 1 /\ ((k - 1) % (s * d)) % s = (k - 1) % s
                   /\ p.index + ((k - 1) % (q.index - p.index)) = y + 2 + ((k - 1) % (s * d))
        <5>1. PICK m \in Nat : m = k - 1
          BY <1>11
        <5>2. /\ s * d \in Nat \ {0} /\ m % (s * d) \in Nat
              /\ (m % (s * d)) % s = m % s
          BY <1>4, ModMod
        <5>3. m % (s * d) \in 0 .. s * d - 1
          BY <5>2, DivMod
        <5>4. m % (s * d) \in 0 .. n - 1
          BY <1>11, <4>1, <4>5, <5>3
        <5>5. p.index + ((k - 1) % (q.index - p.index)) = y + 2 + ((k - 1) % (s * d))
          BY <3>4, <4>1, <4>5
        <5> QED BY <5>1, <5>2, <5>4, <5>5
      <4>8. place \in [1 .. n -> DOMAIN sa] /\ \A k \in 1 .. n : place[k] = y + 2 + ((k - 1) % (s * d))
        BY <3>5, <4>7
      <4> HIDE DEF place
      <4>9. \A k \in 1 .. n : sa[place[k]].type = CellType(type, ((k - 1) % s) + 1)
        BY <3>5, <4>7, <4>8
      <4>10. cells = [k \in 1 .. n |-> sa[place[k]]]
        BY <1>6, <4>7, <4>8 DEF sa
      <4> HIDE DEF cells
      <4>11. Copies(h, dest, i, src, j, count, Written(h, q, cells))
        BY <3>6, <4>2, <4>6, <4>8, <4>9, <4>10
      <4> QED BY <3>8, <4>11 DEF cells
    <3> QED BY <3>1, <3>7, <3>8 DEF MemCpy
  <2> QED BY <2>3, <2>4
<1> QED BY <1>10, <1>12
-----------------------------------------------------------------------------
(* The results of the calls *)

\* A string is not in the buffers that Expand32 and SetInts write to.
LEMMA StringStays ==
  ASSUME NEW h, NEW p \in Pointer, IsLive(h, p), Cell(h, p).type = String32, Sane(h),
         NEW g, \A a \in Addresses : HoldsString(h, a) => g[a] = h[a]
  PROVE  /\ g[p.address] = h[p.address] /\ HoldsString(g, p.address)
         /\ IsLive(g, p) /\ Cell(g, p).type = String32 /\ ObjectAt(g, p) = ObjectAt(h, p)
<1>1. HoldsString(h, p.address) /\ p.address \in Addresses
  BY StringFound
<1>2. g[p.address] = h[p.address]
  BY <1>1
<1>3. HoldsString(g, p.address)
  BY <1>1, <1>2 DEF HoldsString
<1> QED BY <1>2, <1>3 DEF IsLive, Cell, ObjectAt

\* What push leaves.
Pushes(h, p, value, expanded, g, f) ==
  LET string   == ObjectAt(h, p)
      required == (Length(string) + 1) % WordSize
  IN  /\ Expands(h, string, required, g, expanded) /\ IsString32(expanded)
      /\ Length(expanded) = Length(string) /\ required <= Capacity(expanded)
      /\ Sets(g, expanded, Length(string), <<value>>, f)
      /\ f[p.address] = h[p.address]

LEMMA PushResult ==
  ASSUME NEW h, Sane(h), NEW p \in Pointer, IsLive(h, p), Cell(h, p).type = String32,
         NEW value \in Numbers, NEW result \in Push(h, p, value)
  PROVE  \/ \E code \in ExpandCodes \cup SetCodes : result = Failed(code)
         \/ \E expanded, g, f, new :
              /\ Pushes(h, p, value, expanded, g, f)
              /\ new = StringOf(Data(expanded), (Length(ObjectAt(h, p)) + 1) % WordSize, Capacity(expanded))
              /\ IsLive(f, p) /\ HasString(f, p, new, Written(f, p, new))
              /\ result = Done(Written(f, p, new))
<1> DEFINE string    == ObjectAt(h, p)
           required  == (Length(string) + 1) % WordSize
           sets(e)   == SetInts(e.heap, e.string, Length(string), <<value>>)
           expansion == Expand32(h, string, required)
<1>1. IsString32(string)
  BY StringFound
<1>2. required \in Numbers /\ required \in Nat /\ Length(string) \in Nat
  BY <1>1, StringFields, IntFacts, MemoryAssumption DEF Numbers
<1>3. PICK set \in Then(expansion, sets) :
        IF GoesOn(set) THEN result \in SetLength(set.heap, p, set.string, required) ELSE result = set
  BY DEF Push, Then
<1>4. PICK expand \in expansion : IF GoesOn(expand) THEN set \in sets(expand) ELSE set = expand
  BY <1>3 DEF Then
<1> SUFFICES ASSUME ~ \E code \in ExpandCodes \cup SetCodes : result = Failed(code)
             PROVE  \E expanded, g, f, new :
                      /\ Pushes(h, p, value, expanded, g, f)
                      /\ new = StringOf(Data(expanded), (Length(ObjectAt(h, p)) + 1) % WordSize, Capacity(expanded))
                      /\ IsLive(f, p) /\ HasString(f, p, new, Written(f, p, new))
                      /\ result = Done(Written(f, p, new))
  OBVIOUS
<1> HIDE DEF string, required, expansion
<1>5. \A code \in ExpandCodes \cup SetCodes : ~GoesOn(Failed(code))
  BY DEF ExpandCodes, SetCodes, GoesOn, Failed
<1>6. PICK g, expanded : expand = Going(g, expanded) /\ Expands(h, string, required, g, expanded)
  BY <1>1, <1>2, <1>3, <1>4, <1>5, ExpandResult DEF expansion
<1>7. /\ Sane(g) /\ IsString32(expanded) /\ Length(expanded) = Length(string) /\ required <= Capacity(expanded)
      /\ \A a \in Addresses : HoldsString(h, a) => g[a] = h[a]
  BY <1>1, <1>2, <1>6, ExpandKeeps
<1>8. set \in SetInts(g, expanded, Length(string), <<value>>)
  BY <1>4, <1>6 DEF GoesOn, Going
<1>9. <<value>> \in Seq(Numbers)
  OBVIOUS
<1>10. PICK f : set = Going(f, expanded) /\ Sets(g, expanded, Length(string), <<value>>, f)
  <2>1. \/ \E code \in SetCodes : set = Failed(code)
        \/ \E f : set = Going(f, expanded) /\ Sets(g, expanded, Length(string), <<value>>, f)
    BY <1>2, <1>7, <1>8, <1>9, SetIntsResult
  <2>2. ~ \E code \in SetCodes : set = Failed(code)
    BY <1>3, <1>5
  <2> QED BY <2>1, <2>2
<1>11. Sane(f) /\ \A a \in Addresses : HoldsString(g, a) => f[a] = g[a]
  BY <1>2, <1>7, <1>10, SetsKeeps
<1>12. g[p.address] = h[p.address] /\ IsLive(g, p) /\ Cell(g, p).type = String32
  BY <1>7, StringStays
<1>13. f[p.address] = g[p.address] /\ IsLive(f, p) /\ Cell(f, p).type = String32
  BY <1>7, <1>11, <1>12, StringStays
<1> DEFINE new == StringOf(Data(expanded), required, Capacity(expanded))
<1>14. IsString32(new)
  BY <1>2, <1>7, StringFields, StringWhole
<1>15. result = Done(Written(f, p, new))
  BY <1>3, <1>10 DEF GoesOn, Going, SetLength
<1> HIDE DEF new
<1>16. HasString(f, p, new, Written(f, p, new))
  BY <1>11, <1>13, <1>14, StringWritten
<1>17. Pushes(h, p, value, expanded, g, f)
  BY <1>6, <1>7, <1>10, <1>12, <1>13 DEF Pushes, string, required
<1> QED BY <1>13, <1>15, <1>16, <1>17 DEF new, string, required
\* What concat leaves: it copies from the string at q as it is when p has its new buffer.
Concats(h, p, q, expanded, g, now, f) ==
  LET string   == ObjectAt(h, p)
      count    == Length(ObjectAt(h, q))
      required == (Length(string) + count) % WordSize
      src      == Data(ObjectAt(now, q))
  IN  /\ Expands(h, string, required, g, expanded) /\ IsString32(expanded)
      /\ Length(expanded) = Length(string) /\ required <= Capacity(expanded)
      /\ g[p.address] = h[p.address] /\ g[q.address] = h[q.address]
      /\ IsLive(g, p) /\ Cell(g, p).type = String32
      /\ HasString(g, p, expanded, now)
      /\ IsIntArray(now, Data(expanded)) /\ IsIntArray(now, src)
      /\ Copies(now, Data(expanded), Length(string), src, 0, count, f)
      /\ f[p.address] = now[p.address]

ConcatCodes == ExpandCodes \cup SetCodes \cup {"past end"}

\* Cells of an array of int, copied to another or the same.
CopiesInts(h, data, at, src, from, count, result) ==
  \/ result = Failed("past end") /\ from >= Cell(h, src).val
  \/ result = Failed("overrun") /\ (at + count > Cell(h, data).val \/ from + count > Cell(h, src).val)
  \/ \E f : /\ result = Done(f) /\ Copies(h, data, at, src, from, count, f) /\ Sane(f)
            /\ \A a \in Addresses : HoldsString(h, a) => f[a] = h[a]

LEMMA CopyInts ==
  ASSUME NEW h, Sane(h), NEW data, NEW src, IsIntArray(h, data), IsIntArray(h, src),
         NEW at \in Nat, NEW from \in Nat, NEW count \in Nat,
         NEW result \in CopyObjectUnsafe(h, ElementAt(h, data, at), ElementAt(h, src, from), count)
  PROVE  CopiesInts(h, data, at, src, from, count, result)
<1>1. /\ data \in Pointer /\ src \in Pointer /\ IsLive(h, data) /\ IsLive(h, src)
      /\ Cell(h, data).type = ArrayType /\ Cell(h, src).type = ArrayType
      /\ ~HoldsString(h, data.address)
  BY IntArrayFacts
<1>2. ElementType(h, data) = ElementType(h, src)
  BY DEF IsIntArray, ItemFailure
<1>3. \/ result = Failed("past end") /\ from >= Cell(h, src).val
      \/ result = Failed("overrun") /\ (at + count > Cell(h, data).val \/ from + count > Cell(h, src).val)
      \/ \E f : result = Done(f) /\ Copies(h, data, at, src, from, count, f)
  BY <1>1, <1>2, CopyElements
<1>4. ASSUME NEW f, Copies(h, data, at, src, from, count, f)
      PROVE  Sane(f) /\ \A a \in Addresses : HoldsString(h, a) => f[a] = h[a]
  <2>1. Sane(f) /\ \A a \in Addresses \ {data.address} : f[a] = h[a]
    BY <1>4 DEF Copies
  <2> QED BY <1>1, <2>1
<1> QED BY <1>3, <1>4 DEF CopiesInts

LEMMA ConcatResult ==
  ASSUME NEW h, Sane(h), NEW p \in Pointer, IsLive(h, p), Cell(h, p).type = String32,
         NEW q \in Pointer, IsLive(h, q), Cell(h, q).type = String32, NEW result \in Concat(h, p, q)
  PROVE  \/ \E code \in ConcatCodes : result = Failed(code)
         \/ \E expanded, g, now, f, new :
              /\ Concats(h, p, q, expanded, g, now, f)
              /\ new = StringOf(Data(expanded), (Length(ObjectAt(h, p)) + Length(ObjectAt(h, q))) % WordSize,
                                Capacity(expanded))
              /\ IsLive(f, p) /\ HasString(f, p, new, Written(f, p, new))
              /\ result = Done(Written(f, p, new))
<1> DEFINE string    == ObjectAt(h, p)
           count     == Length(ObjectAt(h, q))
           required  == (Length(string) + count) % WordSize
           expansion == Expand32(h, string, required)
           now(e)    == Written(e.heap, p, e.string)
           src(e)    == Data(ObjectAt(now(e), q))
           set(e)    == UNION {IF GoesOn(r) THEN SetLength(r.heap, p, e.string, required) ELSE {r} :
                          r \in CopyObjectUnsafe(now(e), ElementAt(now(e), Data(e.string), Length(string)),
                                                 ElementAt(now(e), src(e), 0), count)}
           copy(e)   == Items(now(e), Data(e.string), ASSERT(IsLive(now(e), q), "freed", Items(now(e), src(e), set(e))))
<1>1. PICK expand \in expansion : IF GoesOn(expand) THEN result \in copy(expand) ELSE result = expand
  BY DEF Concat, Then
<1>2. IsString32(string) /\ IsString32(ObjectAt(h, q))
  BY StringFound
<1>3. required \in Numbers /\ required \in Nat /\ Length(string) \in Nat /\ count \in Nat
  BY <1>2, StringFields, IntFacts, MemoryAssumption DEF Numbers
<1> SUFFICES ASSUME ~ \E code \in ConcatCodes : result = Failed(code)
             PROVE  \E expanded, g, m, f, new :
                      /\ Concats(h, p, q, expanded, g, m, f)
                      /\ new = StringOf(Data(expanded), (Length(ObjectAt(h, p)) + Length(ObjectAt(h, q))) % WordSize,
                                        Capacity(expanded))
                      /\ IsLive(f, p) /\ HasString(f, p, new, Written(f, p, new))
                      /\ result = Done(Written(f, p, new))
  OBVIOUS
<1> HIDE DEF string, count, required, expansion
<1>4. \A code \in ConcatCodes : ~GoesOn(Failed(code))
  BY DEF ConcatCodes, ExpandCodes, SetCodes, GoesOn, Failed
<1>5. PICK g, expanded : expand = Going(g, expanded) /\ Expands(h, string, required, g, expanded)
  <2>1. \/ \E code \in ExpandCodes : expand = Failed(code)
        \/ \E g, expanded : expand = Going(g, expanded) /\ Expands(h, string, required, g, expanded)
    BY <1>2, <1>3, ExpandResult DEF expansion
  <2>2. ~ \E code \in ExpandCodes : expand = Failed(code)
    BY <1>1, <1>4 DEF ConcatCodes
  <2> QED BY <2>1, <2>2
<1>6. /\ Sane(g) /\ IsString32(expanded) /\ Length(expanded) = Length(string) /\ required <= Capacity(expanded)
      /\ \A a \in Addresses : HoldsString(h, a) => g[a] = h[a]
  BY <1>2, <1>3, <1>5, ExpandKeeps
<1>7. /\ g[p.address] = h[p.address] /\ IsLive(g, p) /\ Cell(g, p).type = String32
      /\ g[q.address] = h[q.address] /\ IsLive(g, q) /\ Cell(g, q).type = String32
  BY <1>6, StringStays
<1> DEFINE m    == Written(g, p, expanded)
           data == Data(expanded)
           from == Data(ObjectAt(m, q))
<1>8. HasString(g, p, expanded, m)
  BY <1>6, <1>7, StringWritten
<1>9. now(expand) = m /\ src(expand) = from /\ expand.string = expanded /\ GoesOn(expand)
  BY <1>5 DEF GoesOn, Going
<1>10. result \in Items(m, data, ASSERT(IsLive(m, q), "freed", Items(m, from, set(expand))))
  BY <1>1, <1>9
<1> DEFINE sets == set(expand)
<1>11. sets = UNION {IF GoesOn(r) THEN SetLength(r.heap, p, expanded, required) ELSE {r} :
                       r \in CopyObjectUnsafe(m, ElementAt(m, data, Length(string)), ElementAt(m, from, 0), count)}
  BY <1>9
<1>12. result \in Items(m, data, ASSERT(IsLive(m, q), "freed", Items(m, from, sets)))
  BY <1>10
<1> HIDE DEF m, data, from, now, src, set, copy, sets
<1>13. Sane(m) /\ \A a \in Addresses : DOMAIN m[a] = DOMAIN g[a] /\ Len(m[a]) = Len(g[a])
  BY <1>8 DEF HasString
<1>14. \A a \in Addresses : \A j \in DOMAIN g[a] : m[a][j].type = g[a][j].type
  BY <1>8 DEF HasString
<1>15. ASSUME NEW r \in {p, q}
       PROVE  IsLive(m, r) /\ Cell(m, r).type = String32
  <2>1. r \in Pointer /\ IsLive(g, r) /\ Cell(g, r).type = String32
    BY <1>7
  <2>2. r.address \in Addresses /\ r.index \in DOMAIN g[r.address] /\ Cell(g, r) = g[r.address][r.index]
    BY <1>6, <2>1, PlaceFacts
  <2> QED BY <1>13, <1>14, <2>1, <2>2 DEF IsLive, Cell
<1>16. IsString32(ObjectAt(m, q)) /\ from \in Pointers
  <2>1. IsString32(ObjectAt(m, q))
    BY <1>13, <1>15, StringFound
  <2> QED BY <2>1, StringFields DEF from
<1>17. data \in Pointers
  BY <1>6, StringFields DEF data
<1>18. IsIntArray(m, data) /\ result \in ASSERT(IsLive(m, q), "freed", Items(m, from, sets))
  BY <1>12, <1>17, ItemsResult DEF ConcatCodes, SetCodes
<1>19. result \in Items(m, from, sets)
  BY <1>18 DEF ASSERT, ConcatCodes, SetCodes
<1>20. IsIntArray(m, from) /\ result \in sets
  BY <1>16, <1>19, ItemsResult DEF ConcatCodes, SetCodes
<1>21. PICK r \in CopyObjectUnsafe(m, ElementAt(m, data, Length(string)), ElementAt(m, from, 0), count) :
         IF GoesOn(r) THEN result \in SetLength(r.heap, p, expanded, required) ELSE result = r
  BY <1>11, <1>20
<1>22. PICK f : /\ r = Done(f) /\ Copies(m, data, Length(string), from, 0, count, f) /\ Sane(f)
                /\ \A a \in Addresses : HoldsString(m, a) => f[a] = m[a]
  <2>1. \/ r = Failed("past end") \/ r = Failed("overrun")
        \/ \E f : /\ r = Done(f) /\ Copies(m, data, Length(string), from, 0, count, f) /\ Sane(f)
                  /\ \A a \in Addresses : HoldsString(m, a) => f[a] = m[a]
    <3>1. r \in CopyObjectUnsafe(m, ElementAt(m, data, Length(string)), ElementAt(m, from, 0), count)
      BY <1>21
    <3>2. /\ Length(string) \in Nat /\ 0 \in Nat /\ count \in Nat /\ Sane(m)
          /\ IsIntArray(m, data) /\ IsIntArray(m, from)
      BY <1>3, <1>13, <1>18, <1>20
    <3>3. CopiesInts(m, data, Length(string), from, 0, count, r)
      BY ONLY <3>1, <3>2, CopyInts
    <3> QED BY <3>3 DEF CopiesInts
  <2>2. r # Failed("past end") /\ r # Failed("overrun")
    BY <1>4, <1>21 DEF ConcatCodes, SetCodes
  <2> QED BY <2>1, <2>2
<1>23. f[p.address] = m[p.address] /\ IsLive(f, p) /\ Cell(f, p).type = String32
  BY <1>13, <1>15, <1>22, StringStays
<1> DEFINE new == StringOf(Data(expanded), required, Capacity(expanded))
<1>24. IsString32(new)
  BY <1>3, <1>6, StringFields, StringWhole
<1>25. result = Done(Written(f, p, new))
  BY <1>21, <1>22 DEF GoesOn, Done, Going, SetLength
<1> HIDE DEF new
<1>26. HasString(f, p, new, Written(f, p, new))
  BY <1>22, <1>23, <1>24, StringWritten
<1>27. Concats(h, p, q, expanded, g, m, f)
  BY <1>5, <1>6, <1>7, <1>8, <1>18, <1>20, <1>22, <1>23 DEF Concats, string, required, count, data, from
<1> QED BY <1>23, <1>25, <1>26, <1>27 DEF new, string, required, count
\* What array.copy does.
CopiesElements(h, dest, destBegin, src, srcBegin, count, result) ==
  \/ \E code \in {"STDLIB_ARRAY_OUTOFRANGE", "wrapped"} : result = Failed(code)
  \/ result = Failed("past end") /\ count = 0 /\ srcBegin = Cell(h, src).val
  \/ \E g : result = Done(g) /\ Copies(h, dest, destBegin, src, srcBegin, count, g)

LEMMA ArrayCopyResult ==
  ASSUME NEW h, Sane(h), NEW dest \in Pointer, NEW src \in Pointer, IsLive(h, dest), IsLive(h, src),
         Cell(h, dest).type = ArrayType, Cell(h, src).type = ArrayType,
         ElementType(h, dest) = ElementType(h, src),
         NEW destBegin \in Nat, NEW srcBegin \in Nat, NEW count \in Nat,
         NEW result \in ArrayCopy(h, dest, destBegin, src, srcBegin, count)
  PROVE  CopiesElements(h, dest, destBegin, src, srcBegin, count, result)
<1> DEFINE copied == CopyObjectUnsafe(h, ElementAt(h, dest, destBegin), ElementAt(h, src, srcBegin), count)
<1> SUFFICES ASSUME ~ \E code \in {"STDLIB_ARRAY_OUTOFRANGE", "wrapped"} : result = Failed(code)
             PROVE  \/ result = Failed("past end") /\ count = 0 /\ srcBegin = Cell(h, src).val
                    \/ \E g : result = Done(g) /\ Copies(h, dest, destBegin, src, srcBegin, count, g)
  BY DEF CopiesElements
<1>1. /\ Ends(h, dest, destBegin, count) /\ Ends(h, src, srcBegin, count)
      /\ destBegin + count < WordSize /\ srcBegin + count < WordSize
      /\ result \in copied
  BY DEF ArrayCopy, ASSERT
<1>2. Cell(h, dest).val \in Nat /\ Cell(h, src).val \in Nat
  <2>1. Cell(h, dest).val \in Numbers /\ Cell(h, src).val \in Numbers
    BY ArrayLies
  <2> QED BY <2>1, IntFacts
<1>3. destBegin + count <= Cell(h, dest).val /\ srcBegin + count <= Cell(h, src).val
  <2>1. \A x \in Nat : x < WordSize => x % WordSize = x
    BY MemoryAssumption
  <2>2. (destBegin + count) % WordSize = destBegin + count /\ (srcBegin + count) % WordSize = srcBegin + count
    BY <1>1, <2>1
  <2> QED BY <1>1, <2>2 DEF Ends
<1>4. \/ result = Failed("past end") /\ srcBegin >= Cell(h, src).val
      \/ /\ result = Failed("overrun")
         /\ destBegin + count > Cell(h, dest).val \/ srcBegin + count > Cell(h, src).val
      \/ \E g : result = Done(g) /\ Copies(h, dest, destBegin, src, srcBegin, count, g)
  BY <1>1, CopyElements
<1> HIDE DEF copied
<1>5. ~ (destBegin + count > Cell(h, dest).val \/ srcBegin + count > Cell(h, src).val)
  BY <1>2, <1>3
<1>6. srcBegin >= Cell(h, src).val => count = 0 /\ srcBegin = Cell(h, src).val
  BY <1>2, <1>3
<1> QED BY <1>4, <1>5, <1>6

\* What readString32 makes of the string that it finds.
Reads(h, string, text, expanded, g, f) ==
  LET new == StringOf(Data(expanded), Len(text), Capacity(expanded))
  IN  /\ Expands(h, string, Len(text), g, expanded) /\ IsString32(expanded) /\ IsString32(new)
      /\ Len(text) <= Capacity(expanded)
      /\ Sets(g, new, 0, text, f) /\ Sane(f)

LEMMA ReadResult ==
  ASSUME NEW h, Sane(h), NEW string, IsString32(string), NEW text \in Seq(Numbers),
         NEW result \in ConvertFromCppString32(h, string, text)
  PROVE  \/ \E code \in ExpandCodes \cup SetCodes : result = Failed(code)
         \/ \E expanded, g, f :
              /\ Reads(h, string, text, expanded, g, f)
              /\ result = Going(f, StringOf(Data(expanded), Len(text), Capacity(expanded)))
<1> DEFINE sets(e)   == SetInts(e.heap, StringOf(Data(e.string), Len(text), Capacity(e.string)), 0, text)
           expansion == Expand32(h, string, Len(text))
<1>1. PICK expand \in expansion : IF GoesOn(expand) THEN result \in sets(expand) ELSE result = expand
  BY DEF ConvertFromCppString32, Then
<1> SUFFICES ASSUME ~ \E code \in ExpandCodes \cup SetCodes : result = Failed(code)
             PROVE  \E expanded, g, f :
                      /\ Reads(h, string, text, expanded, g, f)
                      /\ result = Going(f, StringOf(Data(expanded), Len(text), Capacity(expanded)))
  OBVIOUS
<1> HIDE DEF expansion
<1>2. Len(text) \in Nat
  OBVIOUS
<1>3. PICK g, expanded : expand = Going(g, expanded) /\ Expands(h, string, Len(text), g, expanded)
  <2>1. \/ \E code \in ExpandCodes : expand = Failed(code)
        \/ \E g, expanded : expand = Going(g, expanded) /\ Expands(h, string, Len(text), g, expanded)
    BY <1>2, ExpandResult DEF expansion
  <2>2. \A code \in ExpandCodes : ~GoesOn(Failed(code))
    BY DEF ExpandCodes, GoesOn, Failed
  <2>3. ~ \E code \in ExpandCodes : expand = Failed(code)
    BY <1>1, <2>2
  <2> QED BY <2>1, <2>3
<1>4. Sane(g) /\ IsString32(expanded) /\ Len(text) <= Capacity(expanded)
  BY <1>2, <1>3, ExpandKeeps
<1>5. Data(expanded) \in Pointers /\ Len(text) \in Numbers /\ Capacity(expanded) \in Numbers
  <2>1. Data(expanded) \in Pointers /\ Capacity(expanded) \in Numbers
    BY <1>4, StringFields
  <2>2. Capacity(expanded) \in Nat /\ Capacity(expanded) < WordSize
    BY <2>1, IntFacts
  <2> QED BY <1>2, <1>4, <2>1, <2>2, MemoryAssumption DEF Numbers
<1> DEFINE new == StringOf(Data(expanded), Len(text), Capacity(expanded))
<1>6. IsString32(new)
  BY <1>5, StringWhole
<1>7. result \in SetInts(g, new, 0, text)
  BY <1>1, <1>3 DEF GoesOn, Going
<1> HIDE DEF new
<1>8. PICK f : result = Going(f, new) /\ Sets(g, new, 0, text, f)
  <2>1. \/ \E code \in SetCodes : result = Failed(code)
        \/ \E f : result = Going(f, new) /\ Sets(g, new, 0, text, f)
    BY <1>4, <1>6, <1>7, SetIntsResult
  <2> QED BY <2>1
<1>9. Sane(f)
  BY <1>4, <1>8 DEF Sets
<1> QED BY <1>3, <1>4, <1>6, <1>8, <1>9 DEF Reads, new

LEMMA DeallocatedFacts ==
  ASSUME NEW h, Sane(h), NEW p \in Pointer
  PROVE  /\ Sane(Deallocated(h, p))
         /\ \A a \in Addresses :
              Deallocated(h, p)[a] = IF IsAddress(h, p) /\ a = p.address THEN <<>> ELSE h[a]
<1>1. p.address \in Addresses /\ h \in [Addresses -> Seq(Cells)]
  BY DEF Pointer, Sane
<1>2. \A a \in Addresses : Deallocated(h, p)[a] = IF IsAddress(h, p) /\ a = p.address THEN <<>> ELSE h[a]
  BY <1>1 DEF Deallocated
<1>3. Deallocated(h, p) \in [Addresses -> Seq(Cells)]
  BY <1>1, EmptyBlock DEF Deallocated
<1>4. \A a \in Addresses : IsBlock(Deallocated(h, p)[a])
  BY <1>2, EmptyBlock DEF Sane
<1> QED BY <1>2, <1>3, <1>4 DEF Sane
-----------------------------------------------------------------------------
(* The invariant *)

\* A call fails in one of the ways that are listed, or leaves a heap of whole blocks
\* and nothing but a string on the stack.
Codes == ExceptionCodes \cup Failures \cup LibraryCodes \cup LibraryFailures

IsResult(result) ==
  \/ \E code \in Codes : result = Failed(code)
  \/ \E g, string : result = Going(g, string) /\ Sane(g) /\ (string = <<>> \/ IsString32(string))

LEMMA CodesListed ==
  /\ ExpandCodes \subseteq Codes /\ SetCodes \subseteq Codes /\ ConcatCodes \subseteq Codes
  /\ {"STDLIB_ARRAY_OUTOFRANGE", "STDLIB_TYPEASSERTFAIL", "STDLIB_IO_INVALIDSTREAM", "wrapped", "past end",
      "overrun", "null", "freed", "assert", "uncaught", "miscast"} \subseteq Codes
BY DEF Codes, ExpandCodes, SetCodes, ConcatCodes, ExceptionCodes, Failures, LibraryCodes, LibraryFailures

LEMMA DoneResult ==
  ASSUME NEW h, Sane(h)
  PROVE  IsResult(Done(h))
BY DEF IsResult, Done

LEMMA FailedResult ==
  ASSUME NEW code \in Codes
  PROVE  IsResult(Failed(code))
BY DEF IsResult

LEMMA PushKeeps ==
  ASSUME NEW h, Sane(h), NEW p \in Pointer, IsLive(h, p), Cell(h, p).type = String32,
         NEW value \in Numbers, NEW result \in Push(h, p, value)
  PROVE  IsResult(result)
<1>1. CASE \E code \in ExpandCodes \cup SetCodes : result = Failed(code)
  BY <1>1, CodesListed, FailedResult
<1>2. CASE \E expanded, g, f, new :
             /\ Pushes(h, p, value, expanded, g, f)
             /\ new = StringOf(Data(expanded), (Length(ObjectAt(h, p)) + 1) % WordSize, Capacity(expanded))
             /\ IsLive(f, p) /\ HasString(f, p, new, Written(f, p, new))
             /\ result = Done(Written(f, p, new))
  BY <1>2, DoneResult DEF HasString
<1> QED BY <1>1, <1>2, PushResult

LEMMA ConcatKeeps ==
  ASSUME NEW h, Sane(h), NEW p \in Pointer, IsLive(h, p), Cell(h, p).type = String32,
         NEW q \in Pointer, IsLive(h, q), Cell(h, q).type = String32, NEW result \in Concat(h, p, q)
  PROVE  IsResult(result)
<1>1. CASE \E code \in ConcatCodes : result = Failed(code)
  BY <1>1, CodesListed, FailedResult
<1>2. CASE \E expanded, g, now, f, new :
             /\ Concats(h, p, q, expanded, g, now, f)
             /\ new = StringOf(Data(expanded), (Length(ObjectAt(h, p)) + Length(ObjectAt(h, q))) % WordSize,
                               Capacity(expanded))
             /\ IsLive(f, p) /\ HasString(f, p, new, Written(f, p, new))
             /\ result = Done(Written(f, p, new))
  BY <1>2, DoneResult DEF HasString
<1> QED BY <1>1, <1>2, ConcatResult

LEMMA DestroyKeeps ==
  ASSUME NEW h, Sane(h), NEW p \in Pointer, IsLive(h, p), Cell(h, p).type = String32,
         NEW result \in Destroy(h, p)
  PROVE  IsResult(result)
<1>1. Data(ObjectAt(h, p)) \in Pointers
  BY StringFound, StringFields
<1>2. result = Done(IF Data(ObjectAt(h, p)) = Null THEN h ELSE Deallocated(h, Data(ObjectAt(h, p))))
  BY DEF Destroy
<1>3. CASE Data(ObjectAt(h, p)) = Null
  BY <1>2, <1>3, DoneResult
<1>4. CASE Data(ObjectAt(h, p)) # Null
  BY <1>1, <1>2, <1>4, DeallocatedFacts, DoneResult DEF Pointers
<1> QED BY <1>3, <1>4

LEMMA WriteKeeps ==
  ASSUME NEW h, Sane(h), NEW p \in Pointer, IsLive(h, p), Cell(h, p).type = String32,
         NEW result \in ConvertToCppString32(h, p)
  PROVE  (\E code \in Codes : result = Failed(code)) \/ result = Done(h)
<1>1. Data(ObjectAt(h, p)) \in Pointers
  BY StringFound, StringFields
<1>2. CASE Length(ObjectAt(h, p)) = 0
  BY <1>2 DEF ConvertToCppString32
<1>4. CASE result = Failed("uncaught")
  BY <1>4, CodesListed
<1>3. CASE Length(ObjectAt(h, p)) # 0 /\ result # Failed("uncaught")
  <2>1. result \in Items(h, Data(ObjectAt(h, p)),
                     ASSERT(Fits(h, Moved(Data(ObjectAt(h, p)), 1), Length(ObjectAt(h, p))), "overrun", {Done(h)}))
    BY <1>3 DEF ConvertToCppString32
  <2>2. \/ \E code \in {"null", "freed", "assert"} : result = Failed(code)
        \/ result \in ASSERT(Fits(h, Moved(Data(ObjectAt(h, p)), 1), Length(ObjectAt(h, p))), "overrun", {Done(h)})
    BY <1>1, <2>1, ItemsResult
  <2> QED BY <2>2, CodesListed DEF ASSERT
<1> QED BY <1>2, <1>3, <1>4

LEMMA ReadKeeps ==
  ASSUME NEW h, Sane(h), NEW string, IsString32(string), NEW text \in Seq(Numbers),
         NEW result \in ConvertFromCppString32(h, string, text)
  PROVE  IsResult(result)
<1>1. CASE \E code \in ExpandCodes \cup SetCodes : result = Failed(code)
  BY <1>1, CodesListed, FailedResult
<1>2. CASE \E expanded, g, f :
             /\ Reads(h, string, text, expanded, g, f)
             /\ result = Going(f, StringOf(Data(expanded), Len(text), Capacity(expanded)))
  BY <1>2 DEF Reads, IsResult
<1> QED BY <1>1, <1>2, ReadResult

LEMMA ArrayCopyKeeps ==
  ASSUME NEW h, Sane(h), NEW dest \in Pointer, NEW src \in Pointer, IsLive(h, dest), IsLive(h, src),
         Cell(h, dest).type = ArrayType, Cell(h, src).type = ArrayType,
         ElementType(h, dest) = ElementType(h, src),
         NEW destBegin \in Nat, NEW srcBegin \in Nat, NEW count \in Nat,
         NEW result \in ArrayCopy(h, dest, destBegin, src, srcBegin, count)
  PROVE  IsResult(result)
<1>1. CopiesElements(h, dest, destBegin, src, srcBegin, count, result)
  BY ArrayCopyResult
<1>2. CASE \E code \in {"STDLIB_ARRAY_OUTOFRANGE", "wrapped", "past end"} : result = Failed(code)
  BY <1>2, CodesListed, FailedResult
<1>3. CASE \E g : result = Done(g) /\ Sane(g)
  BY <1>3, DoneResult
<1> QED BY <1>1, <1>2, <1>3 DEF CopiesElements, Copies
\* What a step may make of the state.
Kept == Inv' /\ status' \in {status} \cup Codes

LEMMA EndKeeps ==
  ASSUME Inv, NEW code \in Codes, End(code)
  PROVE  Kept
<1>1. Inv'
  BY EndInv
<1> QED BY <1>1 DEF Kept, End

LEMMA ReturnKeeps ==
  ASSUME Inv, NEW results, \A result \in results : IsResult(result), Return(results)
  PROVE  Kept
<1>1. PICK result \in results :
        IF GoesOn(result)
          THEN /\ heap' = result.heap
               /\ known' = known \cup {a \in Addresses : result.heap[a] # <<>>}
               /\ top' = result.string
               /\ UNCHANGED status
          ELSE End(result.code)
  BY DEF Return
<1>2. CASE \E code \in Codes : result = Failed(code)
  <2>1. PICK code \in Codes : result = Failed(code)
    BY <1>2
  <2>2. code # "running" /\ result.code = code
    BY <2>1 DEF Codes, ExceptionCodes, Failures, LibraryCodes, LibraryFailures, Failed
  <2>3. End(code)
    BY <1>1, <2>2 DEF GoesOn
  <2> QED BY <2>3, EndKeeps
<1>3. CASE \E g, string : result = Going(g, string) /\ Sane(g) /\ (string = <<>> \/ IsString32(string))
  <2>1. PICK g, string : result = Going(g, string) /\ Sane(g) /\ (string = <<>> \/ IsString32(string))
    BY <1>3
  <2>2. heap' = g /\ known' = known \cup {a \in Addresses : g[a] # <<>>} /\ top' = string /\ status' = status
    BY <1>1, <2>1 DEF GoesOn, Going
  <2>3. known' \subseteq Addresses /\ \A a \in Addresses : heap'[a] # <<>> => a \in known'
    BY <2>2 DEF Inv
  <2>4. top' # <<>> => IsWholeObject(top') /\ top'[1].type \in Structures
    BY <2>1, <2>2, IntFacts DEF IsString32
  <2>5. Sane(heap')
    BY <2>1, <2>2
  <2>6. Inv'
    BY <2>3, <2>4, <2>5 DEF Inv
  <2> QED BY <2>2, <2>6 DEF Kept
<1> QED BY <1>2, <1>3 DEF IsResult

LEMMA PushStructureKeeps ==
  ASSUME Inv, NEW results, \A result \in results : IsResult(result), PushStructure(results)
  PROVE  Kept
<1>1. "null" \in Codes
  BY CodesListed
<1> QED BY <1>1, EndKeeps, ReturnKeeps DEF PushStructure

LEMMA MissesKeeps ==
  ASSUME Inv, NEW type, PDREF_A(type)
  PROVE  Kept
<1>1. "null" \in Codes /\ "freed" \in Codes /\ "STDLIB_TYPEASSERTFAIL" \in Codes
  BY CodesListed
<1> QED BY <1>1, EndKeeps DEF PDREF_A, Misses

LEMMA LiveString ==
  ASSUME Inv, NEW p \in Live({String32})
  PROVE  Sane(heap) /\ p \in Pointer /\ IsLive(heap, p) /\ Cell(heap, p).type = String32
BY LiveFacts DEF Inv

LEMMA ArrayCopiesFacts ==
  ASSUME NEW h, NEW dest, NEW src, NEW result \in ArrayCopies(h, dest, src)
  PROVE  \E destBegin, srcBegin, count \in Literals : result \in ArrayCopy(h, dest, destBegin, src, srcBegin, count)
BY SMT DEF ArrayCopies

LEMMA StringsReadFacts ==
  ASSUME NEW h, NEW result \in StringsRead(h)
  PROVE  \E stale \in StaleStrings, text \in Texts : result \in ConvertFromCppString32(h, stale, text)
BY SMT DEF StringsRead

LEMMA ArrayCallKeeps == Inv /\ ArrayCall => Kept
<1> SUFFICES ASSUME Inv, ArrayCall PROVE Kept
  OBVIOUS
<1>1. CASE PDREF_A(ArrayType)
  BY <1>1, MissesKeeps
<1>2. CASE \E dest, src \in Live({ArrayType}) :
             Return(ASSERT(ElementType(heap, dest) = ElementType(heap, src), "STDLIB_TYPEASSERTFAIL",
               ArrayCopies(heap, dest, src)))
  <2>1. PICK dest, src \in Live({ArrayType}) :
          Return(ASSERT(ElementType(heap, dest) = ElementType(heap, src), "STDLIB_TYPEASSERTFAIL",
            ArrayCopies(heap, dest, src)))
    BY <1>2
  <2> DEFINE results == ASSERT(ElementType(heap, dest) = ElementType(heap, src), "STDLIB_TYPEASSERTFAIL",
                          ArrayCopies(heap, dest, src))
  <2>2. /\ dest \in Pointer /\ IsLive(heap, dest) /\ Cell(heap, dest).type = ArrayType
        /\ src \in Pointer /\ IsLive(heap, src) /\ Cell(heap, src).type = ArrayType
        /\ Sane(heap)
    BY LiveFacts DEF Inv
  <2>3. ASSUME ElementType(heap, dest) = ElementType(heap, src), NEW result \in ArrayCopies(heap, dest, src)
        PROVE  IsResult(result)
    <3>1. PICK destBegin, srcBegin, count \in Literals :
            result \in ArrayCopy(heap, dest, destBegin, src, srcBegin, count)
      BY ArrayCopiesFacts
    <3>2. destBegin \in Nat /\ srcBegin \in Nat /\ count \in Nat
      BY IntFacts, MemoryAssumption
    <3> QED BY <2>2, <2>3, <3>1, <3>2, ArrayCopyKeeps
  <2>4. IsResult(Failed("STDLIB_TYPEASSERTFAIL"))
    BY CodesListed, FailedResult
  <2>5. \A result \in results : IsResult(result)
    BY <2>3, <2>4 DEF ASSERT
  <2>6. Return(results)
    BY <2>1
  <2> HIDE DEF results
  <2> QED BY <2>5, <2>6, ReturnKeeps
<1> QED BY <1>1, <1>2 DEF ArrayCall

LEMMA StringCallKeeps == Inv /\ StringCall => Kept
<1> SUFFICES ASSUME Inv, StringCall PROVE Kept
  OBVIOUS
<1>1. CASE PushStructure({Going(heap, EmptyString)})
  <2>1. IsResult(Going(heap, EmptyString))
    BY NullString DEF Inv, IsResult
  <2> QED BY <1>1, <2>1, PushStructureKeeps
<1>2. CASE PDREF_A(String32)
  BY <1>2, MissesKeeps
<1>3. CASE \E p \in Live({String32}) : \E value \in Chars : Return(Push(heap, p, value))
  <2>1. PICK p \in Live({String32}), value \in Chars : Return(Push(heap, p, value))
    BY <1>3
  <2>2. value \in Numbers
    BY MemoryAssumption, LibraryAssumption
  <2>3. \A result \in Push(heap, p, value) : IsResult(result)
    BY <2>2, LiveString, PushKeeps
  <2> QED BY <2>1, <2>3, ReturnKeeps
<1>4. CASE \E p, q \in Live({String32}) : Return(Concat(heap, p, q))
  <2>1. PICK p \in Live({String32}), q \in Live({String32}) : Return(Concat(heap, p, q))
    BY <1>4
  <2>2. \A result \in Concat(heap, p, q) : IsResult(result)
    BY LiveString, ConcatKeeps
  <2> QED BY <2>1, <2>2, ReturnKeeps
<1>5. CASE \E p \in Live({String32}) : Return(Destroy(heap, p))
  <2>1. PICK p \in Live({String32}) : Return(Destroy(heap, p))
    BY <1>5
  <2>2. \A result \in Destroy(heap, p) : IsResult(result)
    BY LiveString, DestroyKeeps
  <2> QED BY <2>1, <2>2, ReturnKeeps
<1> QED BY <1>1, <1>2, <1>3, <1>4, <1>5 DEF StringCall
LEMMA StaleStringFacts ==
  ASSUME Inv, NEW stale \in StaleStrings
  PROVE  IsString32(stale)
<1>1. PICK data \in {Null} \cup {First(a) : a \in known}, capacity \in Literals :
        stale = StringOf(data, 0, capacity)
  BY DEF StaleStrings
<1>2. data \in Pointers /\ capacity \in Numbers /\ 0 \in Numbers
  BY MemoryAssumption DEF Inv, First, Pointer, Pointers, Numbers
<1> QED BY <1>1, <1>2, StringWhole

LEMMA TextFacts ==
  ASSUME NEW text \in Texts
  PROVE  text \in Seq(Numbers)
<1>1. PICK n \in Nat : text \in [1 .. n -> Chars]
  BY LibraryAssumption DEF Texts
<1>2. Chars \subseteq Numbers
  BY MemoryAssumption, LibraryAssumption
<1>3. text \in [1 .. n -> Numbers]
  BY <1>1, <1>2
<1> QED BY <1>3, SeqDef

\* Valid and Served let the results through, or refuse.
LEMMA AssertKeeps ==
  ASSUME NEW test, NEW code \in Codes, NEW results, \A result \in results : IsResult(result)
  PROVE  \A result \in ASSERT(test, code, results) : IsResult(result)
<1>1. IsResult(Failed(code))
  BY FailedResult
<1>2. CASE test
  BY <1>2 DEF ASSERT
<1>3. CASE ~test
  BY <1>1, <1>3 DEF ASSERT
<1> QED BY <1>2, <1>3

LEMMA StreamKeeps ==
  ASSUME NEW handle, NEW direction, NEW results, \A result \in results : IsResult(result)
  PROVE  /\ \A result \in Served(handle, direction, results) : IsResult(result)
         /\ \A result \in Valid(handle, results) : IsResult(result)
<1>1. "uncaught" \in Codes /\ "STDLIB_IO_INVALIDSTREAM" \in Codes
  BY CodesListed
<1>2. \A result \in Served(handle, direction, results) : IsResult(result)
  BY <1>1, FailedResult DEF Served
<1>3. \A result \in Valid(handle, results) : IsResult(result)
  BY <1>1, AssertKeeps DEF Valid
<1> QED BY <1>2, <1>3

LEMMA StreamCallKeeps == Inv /\ StreamCall => Kept
<1> SUFFICES ASSUME Inv, NEW handle \in Handles,
                    \/ Return(Valid(handle, Served(handle, "read", {Done(heap)})))
                    \/ Return(Valid(handle, Served(handle, "write", {Done(heap)})))
                    \/ PushStructure(Valid(handle, Served(handle, "read", StringsRead(heap))))
                    \/ PDREF_A(String32)
                    \/ \E p \in Live({String32}) : Return(Valid(handle,
                         Then(ConvertToCppString32(heap, p), LAMBDA text : Served(handle, "write", {Done(heap)}))))
             PROVE  Kept
  BY DEF StreamCall
<1>1. \A result \in {Done(heap)} : IsResult(result)
  BY DoneResult DEF Inv
<1>2. CASE \E direction : Return(Valid(handle, Served(handle, direction, {Done(heap)})))
  <2>1. PICK direction : Return(Valid(handle, Served(handle, direction, {Done(heap)})))
    BY <1>2
  <2>2. \A result \in Served(handle, direction, {Done(heap)}) : IsResult(result)
    BY <1>1, StreamKeeps
  <2>3. \A result \in Valid(handle, Served(handle, direction, {Done(heap)})) : IsResult(result)
    BY <2>2, StreamKeeps
  <2> QED BY <2>1, <2>3, ReturnKeeps
<1>3. CASE PushStructure(Valid(handle, Served(handle, "read", StringsRead(heap))))
  <2>1. ASSUME NEW result \in StringsRead(heap)
        PROVE  IsResult(result)
    <3>1. PICK stale \in StaleStrings, text \in Texts : result \in ConvertFromCppString32(heap, stale, text)
      BY StringsReadFacts
    <3> QED BY <3>1, StaleStringFacts, TextFacts, ReadKeeps DEF Inv
  <2>2. \A result \in Served(handle, "read", StringsRead(heap)) : IsResult(result)
    BY <2>1, StreamKeeps
  <2>3. \A result \in Valid(handle, Served(handle, "read", StringsRead(heap))) : IsResult(result)
    BY <2>2, StreamKeeps
  <2> QED BY <1>3, <2>3, PushStructureKeeps
<1>4. CASE PDREF_A(String32)
  BY <1>4, MissesKeeps
<1>5. CASE \E p \in Live({String32}) : Return(Valid(handle,
             Then(ConvertToCppString32(heap, p), LAMBDA text : Served(handle, "write", {Done(heap)}))))
  <2>1. PICK p \in Live({String32}) : Return(Valid(handle,
             Then(ConvertToCppString32(heap, p), LAMBDA text : Served(handle, "write", {Done(heap)}))))
    BY <1>5
  <2> DEFINE written == Then(ConvertToCppString32(heap, p), LAMBDA text : Served(handle, "write", {Done(heap)}))
  <2>2. \A result \in Served(handle, "write", {Done(heap)}) : IsResult(result)
    BY <1>1, StreamKeeps
  <2>3. \A result \in written : IsResult(result)
    <3> SUFFICES ASSUME NEW result \in written PROVE IsResult(result)
      OBVIOUS
    <3>1. PICK text \in ConvertToCppString32(heap, p) :
            result \in IF GoesOn(text) THEN Served(handle, "write", {Done(heap)}) ELSE {text}
      BY DEF Then
    <3>2. (\E code \in Codes : text = Failed(code)) \/ text = Done(heap)
      BY LiveString, WriteKeeps
    <3>3. IsResult(text)
      BY <1>1, <3>2, FailedResult
    <3> QED BY <2>2, <3>1, <3>3
  <2>4. Return(Valid(handle, written))
    BY <2>1
  <2> HIDE DEF written
  <2>5. \A result \in Valid(handle, written) : IsResult(result)
    BY <2>3, StreamKeeps
  <2> QED BY <2>4, <2>5, ReturnKeeps
<1> QED BY <1>2, <1>3, <1>4, <1>5

\* The inductive invariant of the program and the library.
LibraryInv ==
  /\ Inv
  /\ streams \in [Handles -> StreamKinds]
  /\ status \in {"running"} \cup Codes

LEMMA OpenFileKeeps == LibraryInv /\ OpenFile => Kept /\ streams' \in [Handles -> StreamKinds]
<1> SUFFICES ASSUME LibraryInv, OpenFile PROVE Kept /\ streams' \in [Handles -> StreamKinds]
  OBVIOUS
<1>1. Inv /\ streams \in [Handles -> StreamKinds]
  BY DEF LibraryInv
<1>2. Kept
  <2>1. CASE PDREF_A(String32)
    BY <1>1, <2>1, MissesKeeps
  <2>2. CASE \E p \in Live({String32}) : PushStructure(ConvertToCppString32(heap, p))
    <3>1. PICK p \in Live({String32}) : PushStructure(ConvertToCppString32(heap, p))
      BY <2>2
    <3>2. \A result \in ConvertToCppString32(heap, p) : (\E code \in Codes : result = Failed(code)) \/ result = Done(heap)
      BY <1>1, LiveString, WriteKeeps
    <3>3. \A result \in ConvertToCppString32(heap, p) : IsResult(result)
      BY <1>1, <3>2, DoneResult, FailedResult DEF Inv
    <3> QED BY <1>1, <3>1, <3>3, PushStructureKeeps
  <2> QED BY <2>1, <2>2 DEF OpenFile
<1>3. streams' \in [Handles -> StreamKinds]
  BY <1>1 DEF OpenFile, StreamKinds
<1> QED BY <1>2, <1>3

LEMMA CloseFileKeeps ==
  ASSUME LibraryInv, NEW handle \in Handles, CloseFile(handle)
  PROVE  Kept /\ streams' \in [Handles -> StreamKinds]
<1>1. Inv /\ streams \in [Handles -> StreamKinds]
  BY DEF LibraryInv
<1>2. "STDLIB_IO_INVALIDSTREAM" \in Codes /\ "miscast" \in Codes
  BY CodesListed
<1>3. CASE streams[handle] = "none" /\ End("STDLIB_IO_INVALIDSTREAM") /\ UNCHANGED streams
  BY <1>1, <1>2, <1>3, EndKeeps
<1>4. CASE streams[handle] \in {"stdin", "stdout"} /\ End("miscast") /\ UNCHANGED streams
  BY <1>1, <1>2, <1>4, EndKeeps
<1>5. CASE streams' = [streams EXCEPT ![handle] = "none"] /\ Return({Done(heap)})
  <2>1. IsResult(Done(heap))
    BY <1>1, DoneResult DEF Inv
  <2>2. \A result \in {Done(heap)} : IsResult(result)
    BY <2>1
  <2>3. Kept
    BY <1>1, <1>5, <2>2, ReturnKeeps
  <2>4. streams' \in [Handles -> StreamKinds]
    BY <1>1, <1>5 DEF StreamKinds
  <2> QED BY <2>3, <2>4
<1> QED BY <1>3, <1>4, <1>5 DEF CloseFile
\* The instructions end with the codes of the exceptions, or in one of the failures.
LEMMA MemoryStatus == MemoryNext => status' \in {status} \cup Codes
<1> SUFFICES ASSUME MemoryNext PROVE status' \in {status} \cup Codes
  OBVIOUS
<1>1. ExceptionCodes \subseteq Codes /\ Failures \subseteq Codes
  BY DEF Codes
<1>2. ASSUME NEW code \in ExceptionCodes \cup Failures, End(code)
      PROVE  status' \in Codes
  BY <1>1, <1>2 DEF End
<1>3. ASSUME NEW block, Allocate(block)
      PROVE  status' = status
  BY <1>3 DEF Allocate, PushObject
<1>4. ASSUME NEW types, NEW null \in ExceptionCodes, NEW wrong \in ExceptionCodes, Misses(types, null, wrong)
      PROVE  status' \in Codes
  BY <1>2, <1>4 DEF Misses, Failures
<1>5. CASE InterpretNew
  BY <1>3, <1>5 DEF InterpretNew
<1>6. CASE InterpretANew
  <2>1. "ARRAY_COUNT_CANNOTBEZERO" \in ExceptionCodes /\ "wrapped" \in Failures
    BY DEF ExceptionCodes, Failures
  <2> QED BY <1>2, <1>3, <1>6, <2>1 DEF InterpretANew
<1>7. CASE InterpretDelete
  <2>1. "POINTER_UNKNOWNADDRESS" \in ExceptionCodes
    BY DEF ExceptionCodes
  <2> QED BY <1>2, <1>7, <2>1 DEF InterpretDelete, Consume
<1>8. CASE InterpretFLea
  <2>1. {"POINTER_NULLPOINTER", "STRUCTURE_NOTSTRUCTURE", "STRUCTURE_FIELD_OUTOFRANGE"} \subseteq ExceptionCodes
    BY DEF ExceptionCodes
  <2> QED BY <1>2, <1>4, <1>8, <2>1 DEF InterpretFLea, PushObject
<1>9. CASE InterpretALea
  <2>1. {"POINTER_NULLPOINTER", "ARRAY_NOTARRAY", "ARRAY_INDEX_OUTOFRANGE"} \subseteq ExceptionCodes
    BY DEF ExceptionCodes
  <2> QED BY <1>2, <1>4, <1>9, <2>1 DEF InterpretALea, PushObject
<1>10. CASE InterpretCount
  <2>1. {"POINTER_NULLPOINTER", "ARRAY_NOTARRAY"} \subseteq ExceptionCodes
    BY DEF ExceptionCodes
  <2> QED BY <1>4, <1>10, <2>1 DEF InterpretCount, PushObject
<1>11. CASE InterpretTLoad
  <2>1. {"POINTER_NULLPOINTER", "STACK_OVERFLOW"} \subseteq ExceptionCodes
    BY DEF ExceptionCodes
  <2> QED BY <1>4, <1>11, <2>1 DEF InterpretTLoad, PushObject
<1>12. CASE InterpretTStore
  <2>1. {"POINTER_NULLPOINTER", "STACK_DIFFERENTTYPE", "ARRAY_COUNT_DIFFERENTCOUNT"} \subseteq ExceptionCodes
    BY DEF ExceptionCodes
  <2> QED BY <1>2, <1>4, <1>12, <2>1 DEF InterpretTStore, DRefAndAssign, DRefAndAssignArray, Consume
<1>13. CASE InterpretIncDec
  <2>1. {"POINTER_NULLPOINTER", "STRUCTURE_INVALIDFORSTRUCTURE", "POINTER_INVALIDFORPOINTER",
         "ARRAY_INVALIDFORARRAY"} \subseteq ExceptionCodes
    BY DEF ExceptionCodes
  <2> QED BY <1>2, <1>4, <1>13, <2>1 DEF InterpretIncDec, IncDec, Consume
<1>14. CASE StackFails
  <2>1. {"STACK_EMPTY", "STACK_OVERFLOW", "STACK_DIFFERENTTYPE", "TYPE_OUTOFRANGE",
         "POINTER_NOTPOINTER"} \subseteq ExceptionCodes
    BY DEF ExceptionCodes
  <2> QED BY <1>2, <1>14, <2>1 DEF StackFails
<1> QED BY <1>5, <1>6, <1>7, <1>8, <1>9, <1>10, <1>11, <1>12, <1>13, <1>14 DEF MemoryNext

LEMMA LibraryInit == Init => LibraryInv
<1> SUFFICES ASSUME Init PROVE LibraryInv
  OBVIOUS
<1>1. Inv
  BY InitInv DEF Init
<1>2. streams \in [Handles -> StreamKinds]
  BY DEF Init, StreamKinds
<1>3. status = "running"
  BY DEF Init, MemoryInit
<1> QED BY <1>1, <1>2, <1>3 DEF LibraryInv

LEMMA LibraryNext == LibraryInv /\ [Next]_vars => LibraryInv'
<1> SUFFICES ASSUME LibraryInv, [Next]_vars PROVE LibraryInv'
  OBVIOUS
<1>1. Inv /\ streams \in [Handles -> StreamKinds] /\ status \in {"running"} \cup Codes
  BY DEF LibraryInv
<1>2. ASSUME Kept, streams' \in [Handles -> StreamKinds]
      PROVE  LibraryInv'
  BY <1>1, <1>2 DEF Kept, LibraryInv
<1>3. CASE MemoryNext /\ UNCHANGED streams
  <2>1. Inv'
    BY <1>1, <1>3, NextInv
  <2> QED BY <1>1, <1>2, <1>3, <2>1, MemoryStatus DEF Kept
<1>4. CASE Call
  <2>1. CASE (ArrayCall \/ StringCall \/ StreamCall) /\ UNCHANGED streams
    BY <1>1, <1>2, <2>1, ArrayCallKeeps, StringCallKeeps, StreamCallKeeps
  <2>2. CASE OpenFile
    BY <1>2, <2>2, OpenFileKeeps
  <2>3. CASE \E handle \in Handles : CloseFile(handle)
    BY <1>2, <2>3, CloseFileKeeps
  <2> QED BY <1>4, <2>1, <2>2, <2>3 DEF Call
<1>5. CASE UNCHANGED vars
  BY <1>1, <1>5 DEF vars, memoryVars, Inv, LibraryInv
<1> QED BY <1>3, <1>4, <1>5 DEF Next

LEMMA LibraryInvariance == Spec => []LibraryInv
BY LibraryInit, LibraryNext, PTL DEF Spec

\* The memory that the instructions and the library share stays well typed: the values
\* have the types of their headers, structures are whole on the stack, the streams are
\* of their kinds, and the machine ends only in the ways that are listed.
THEOREM LibraryTypes == Spec => []TypeOK
<1>1. LibraryInv => TypeOK
  BY DEF LibraryInv, Inv, Sane, TypeOK, MemoryTypeOK, IsBlock, IsWholeObject, Codes
<1> QED BY <1>1, LibraryInvariance, PTL

\* The functions of the library, which copy cells with memcpy and allocate, delete and
\* rewrite buffers and strings in memory that the program has pointers to, write no
\* piece of one object over another either.
THEOREM LibraryWholeness == Spec => []BlocksStayWhole
<1>1. LibraryInv => BlocksStayWhole
  BY DEF LibraryInv, Inv, Sane, BlocksStayWhole, IsBlock
<1> QED BY <1>1, LibraryInvariance, PTL

\* alea designates an element of the array also where the library has written.
THEOREM LibraryElements == Spec => []LeaDesignatesElement
<1>1. LibraryInv => LeaDesignatesElement
  BY InvariantElements DEF LibraryInv
<1> QED BY <1>1, LibraryInvariance, PTL
-----------------------------------------------------------------------------
(* array.copy *)

\* The cells of an element of s cells.
Row(block, s, i) == [k \in 1 .. s |-> block[s * i + 2 + (k - 1)]]

LEMMA ElementCells ==
  ASSUME NEW h, Sane(h), NEW p \in Pointer, IsLive(h, p), Cell(h, p).type = ArrayType,
         NEW i \in Nat, i < Cell(h, p).val
  PROVE  Element(h, p, i) = Row(h[p.address], ObjectSize(h[p.address][2].type), i)
<1> DEFINE q == ElementAt(h, p, i)
           s == ObjectSize(h[p.address][2].type)
<1>1. /\ s \in Nat \ {0} /\ s * i \in Nat
      /\ q.address = p.address /\ q.index = (s * i) + 2 /\ Cell(h, q).type = h[p.address][2].type
  BY ElementLies
<1> HIDE DEF q, s
<1>2. Element(h, p, i) = SubSeq(h[p.address], q.index, q.index + s - 1)
  BY <1>1 DEF Element, q, s
<1>3. PICK m \in Nat : m = (s * i) + 2
  BY <1>1
<1>4. q.index = m /\ 1 + (m + s - 1) - m = s
  BY <1>1, <1>3
<1>5. SubSeq(h[p.address], m, m + s - 1) = [k \in 1 .. s |-> h[p.address][m + (k - 1)]]
  <2>1. SubSeq(h[p.address], m, m + s - 1) = [k \in 1 .. s |-> h[p.address][m + k - 1]]
    <3>1. /\ h[p.address] \in Seq(Cells) /\ Len(h[p.address]) \in Nat
          /\ m + s - 1 <= Len(h[p.address]) /\ m \in Nat \ {0}
      <4>1. ElementAt(h, p, i).index + ObjectSize(h[p.address][2].type) - 1 <= Len(h[p.address])
        BY ElementLies
      <4>2. h[p.address] \in Seq(Cells) /\ Len(h[p.address]) \in Nat
        BY DEF Sane, Pointer
      <4>3. m \in Nat \ {0}
        BY <1>1, <1>3
      <4> QED BY <1>4, <4>1, <4>2, <4>3 DEF q, s
    <3> QED BY <1>1, <3>1
  <2>2. \A k \in 1 .. s : m + k - 1 = m + (k - 1)
    BY <1>1
  <2> QED BY <1>4, <2>1, <2>2
<1>6. \A k \in 1 .. s : m + (k - 1) = s * i + 2 + (k - 1)
  BY <1>3
<1> QED BY <1>2, <1>4, <1>5, <1>6 DEF Row, s

LEMMA CopyExact ==
  ASSUME NEW h, Sane(h), NEW dest \in Pointer, NEW src \in Pointer, IsLive(h, dest), IsLive(h, src),
         Cell(h, dest).type = ArrayType, Cell(h, src).type = ArrayType,
         ElementType(h, dest) = ElementType(h, src),
         NEW i \in Nat, NEW j \in Nat, NEW count \in Nat,
         NEW g, Copies(h, dest, i, src, j, count, g), dest # src \/ i - j \notin 1 .. count - 1
  PROVE  HasCopy(h, dest, i, src, j, count, Done(g))
<1> DEFINE da   == h[dest.address]
           sa   == h[src.address]
           ga   == g[dest.address]
           type == da[2].type
           dn   == Cell(h, dest).val
           sn   == Cell(h, src).val
<1>1. /\ dest.index = 1 /\ da # <<>> /\ dn \in Numbers \ {0} /\ dest.address \in Addresses
      /\ Cell(h, Moved(dest, 1)) = da[2] /\ type \in ObjectTypes /\ Len(da) \in Nat
      /\ Len(da) = 1 + ObjectSize(type) * dn /\ Cell(h, dest) = da[1]
  BY ArrayLies
<1>2. /\ Cell(h, Moved(src, 1)) = sa[2] /\ sn \in Numbers \ {0} /\ Len(sa) \in Nat
      /\ Len(sa) = 1 + ObjectSize(sa[2].type) * sn
  BY ArrayLies
<1>3. sa[2].type = type
  BY <1>1, <1>2 DEF ElementType
<1> DEFINE s == ObjectSize(type)
<1>4. s \in Nat \ {0} /\ dn \in Nat /\ sn \in Nat
  BY <1>1, <1>2, SizeFacts, IntFacts
<1>5. /\ i + count <= dn /\ j + count <= sn /\ j < sn
      /\ Sane(g) /\ ga # <<>>
      /\ \A a \in Addresses \ {dest.address} : g[a] = h[a]
      /\ Len(ga) = Len(da)
      /\ \A k \in 1 .. Len(da) : k \notin s * i + 2 .. s * (i + count) + 1 => ga[k] = da[k]
      /\ \A k \in 0 .. s * count - 1 : ga[s * i + 2 + k] = sa[s * j + 2 + k]
  BY DEF Copies
<1>6. Cell(h, ElementAt(h, src, j)).type = type /\ ElementAt(h, src, j).address = src.address
      /\ ElementAt(h, src, j).index = s * j + 2
  BY <1>3, <1>5, ElementLies
<1>7. sa[s * j + 2].type = type
  BY <1>6 DEF Cell
<1> HIDE DEF da, sa, ga, type, dn, sn, s
<1>13. Len(da) = 1 + s * dn /\ Len(da) \in Nat
  BY <1>1 DEF s
<1>14. i + count <= dn /\ j + count <= sn
  BY <1>5
<1>8. ga[1] = da[1]
  <2>1. 1 \in 1 .. Len(da)
    <3>1. Len(ga) # 0
      BY <1>1, <1>5 DEF Sane, IsBlock, ga
    <3> QED BY <1>1, <1>5, <3>1
  <2>2. s * i \in Nat
    BY <1>4, Products
  <2>3. 1 \notin s * i + 2 .. s * (i + count) + 1
    BY <2>2
  <2> QED BY <1>5, <2>1, <2>3
<1>9. IsLive(g, dest) /\ Cell(g, dest).type = ArrayType /\ Cell(g, dest).val = dn
  <2>1. Cell(g, dest) = ga[1]
    BY <1>1 DEF Cell, ga
  <2>2. IsLive(g, dest)
    BY <1>5 DEF IsLive, ga, da
  <2> QED BY <1>1, <1>8, <2>1, <2>2 DEF dn, da
<1>10. ga[2].type = type
  <2>1. CASE i = 0 /\ count # 0
    <3>1. s * 0 + 2 + 0 = 2 /\ 0 \in 0 .. s * count - 1
      <4>1. s * 0 < s * count
        BY <1>4, <2>1, Products
      <4>2. s * 0 = 0 /\ s * count \in Nat
        BY <1>4, Products
      <4> QED BY <4>1, <4>2
    <3>2. s * j \in Nat
      BY <1>4, Products
    <3>3. ga[s * 0 + 2 + 0] = sa[s * j + 2 + 0]
      BY <1>5, <2>1, <3>1
    <3> QED BY <1>7, <3>1, <3>2, <3>3
  <2>2. CASE ~(i = 0 /\ count # 0)
    <3>1. s * i \in Nat /\ s * (i + count) \in Nat
      BY <1>4, Products
    <3>2. i # 0 => s * 0 + s <= s * i
      BY <1>4, Products
    <3>3. 2 \notin s * i + 2 .. s * (i + count) + 1
      <4>1. CASE i # 0
        <5>1. PICK x \in Nat : x = s * i
          BY <3>1
        <5>2. s * 0 = 0
          BY <1>4
        <5>3. x >= 1
          BY <1>4, <3>2, <4>1, <5>1, <5>2
        <5> QED BY <5>1, <5>3
      <4>2. CASE i = 0 /\ count = 0
        <5>1. s * 0 = 0
          BY <1>4
        <5> QED BY <4>2, <5>1
      <4> QED BY <2>2, <4>1, <4>2
    <3>4. 2 \in 1 .. Len(da)
      <4>1. s * 0 < s * dn /\ s * 0 = 0 /\ s * dn \in Nat
        <5>1. 0 < dn
          BY <1>1, <1>4
        <5> QED BY <1>4, <5>1, Products
      <4> QED BY <1>1, <4>1 DEF s
    <3> QED BY <1>5, <3>3, <3>4 DEF type
  <2> QED BY <2>1, <2>2
<1>11. ASSUME NEW e \in 0 .. dn - 1
       PROVE  Element(g, dest, e) =
                IF e \in i .. i + count - 1 THEN Element(h, src, e - i + j) ELSE Element(h, dest, e)
  <2>1. /\ Element(g, dest, e) = [k \in 1 .. s |-> ga[s * e + 2 + (k - 1)]]
        /\ Element(h, dest, e) = [k \in 1 .. s |-> da[s * e + 2 + (k - 1)]]
    <3>1. e \in Nat /\ e < dn
      BY <1>4
    <3>2. s = ObjectSize(g[dest.address][2].type) /\ s = ObjectSize(h[dest.address][2].type)
      BY <1>10 DEF s, type, ga, da
    <3>3. e < Cell(g, dest).val /\ e < Cell(h, dest).val /\ Sane(g)
      BY <1>5, <1>9, <3>1 DEF dn
    <3>4. Element(g, dest, e) = Row(g[dest.address], s, e)
      BY <1>9, <3>1, <3>2, <3>3, ElementCells
    <3>5. Element(h, dest, e) = Row(h[dest.address], s, e)
      BY <3>1, <3>2, <3>3, ElementCells
    <3> QED BY <3>4, <3>5 DEF ga, da, Row
  <2>2. PICK x \in Nat, y \in Nat, z \in Nat, w \in Nat : x = s * e /\ y = s * i /\ z = s * (i + count) /\ w = s * j
    BY <1>4, Products
  <2>3. CASE e \in i .. i + count - 1
    <3>1. PICK d \in Nat : d = e - i
      BY <2>3
    <3>2. e = i + d /\ d < count /\ j + d < sn /\ e - i + j = j + d
      <4>1. e \in Nat /\ i <= e /\ e < i + count /\ e - i + j = (e - i) + j
        BY <1>4, <2>3
      <4>2. e = i + d /\ d < count
        BY <3>1, <4>1
      <4>3. e - i + j = j + d
        BY <3>1, <4>1
      <4> QED BY <1>4, <1>14, <4>2, <4>3
    <3>3. Element(h, src, j + d) = [k \in 1 .. s |-> sa[s * (j + d) + 2 + (k - 1)]]
      <4>1. s = ObjectSize(h[src.address][2].type)
        BY <1>3 DEF s, sa
      <4>2. j + d \in Nat /\ j + d < Cell(h, src).val
        BY <3>2 DEF sn
      <4>3. Element(h, src, j + d) = Row(h[src.address], s, j + d)
        BY <4>1, <4>2, ElementCells
      <4> QED BY <4>3 DEF sa, Row
    <3>4. PICK u \in Nat, v \in Nat : u = s * d /\ v = s * count
      BY <1>4, Products
    <3>5. s * (j + d) = w + u /\ s * e = y + u /\ u + s <= v
      BY <1>4, <2>2, <3>2, <3>4, Products
    <3>6. ASSUME NEW k \in 1 .. s
          PROVE  ga[s * e + 2 + (k - 1)] = sa[s * (j + d) + 2 + (k - 1)]
      <4>1. u + (k - 1) \in 0 .. v - 1
        BY <1>4, <3>5
      <4>2. ga[y + 2 + (u + (k - 1))] = sa[w + 2 + (u + (k - 1))]
        BY <1>5, <2>2, <3>4, <4>1
      <4>3. y + u + 2 + (k - 1) = y + 2 + (u + (k - 1)) /\ w + u + 2 + (k - 1) = w + 2 + (u + (k - 1))
        BY <1>4
      <4> QED BY <3>5, <4>2, <4>3
    <3>7. [k \in 1 .. s |-> ga[s * e + 2 + (k - 1)]] = [k \in 1 .. s |-> sa[s * (j + d) + 2 + (k - 1)]]
      BY <3>6
    <3> QED BY <2>1, <2>3, <3>2, <3>3, <3>7
  <2>4. CASE e \notin i .. i + count - 1
    <3>1. (e < i /\ x + s <= y) \/ (i + count <= e /\ z <= x)
      <4>1. e < i \/ i + count <= e
        BY <1>4, <2>4
      <4>2. e < i => x + s <= y
        BY <1>4, <2>2, Products
      <4>3. i + count <= e => z <= x
        BY <1>4, <2>2, Products
      <4> QED BY <4>1, <4>2, <4>3
    <3>2. x + s + 1 <= Len(da)
      <4>1. s * e + s <= s * dn /\ s * dn \in Nat
        BY <1>4, Products
      <4>2. PICK t \in Nat : t = s * dn
        BY <4>1
      <4> QED BY <1>4, <1>13, <2>2, <4>1, <4>2
    <3>3. ASSUME NEW k \in 1 .. s
          PROVE  ga[s * e + 2 + (k - 1)] = da[s * e + 2 + (k - 1)]
      <4>1. x + 2 + (k - 1) \in 1 .. Len(da) /\ x + 2 + (k - 1) \notin y + 2 .. z + 1
        BY <1>1, <1>4, <3>1, <3>2
      <4> QED BY <1>5, <2>2, <4>1
    <3>4. [k \in 1 .. s |-> ga[s * e + 2 + (k - 1)]] = [k \in 1 .. s |-> da[s * e + 2 + (k - 1)]]
      BY <3>3
    <3> QED BY <2>1, <2>4, <3>4
  <2> QED BY <2>3, <2>4
<1>12. Done(g).heap = g
  BY DEF Done, Going
<1> QED BY <1>5, <1>11, <1>12 DEF HasCopy, dn
\* array.copy, as ArrayCopyIsExact states it, for arrays of any two lengths and elements
\* of any number of cells: the products and remainders of the indices come out right.
THEOREM ArrayCopyExact == Spec => []ArrayCopyIsExact
<1>1. LibraryInv => ArrayCopyIsExact
  <2> SUFFICES ASSUME LibraryInv, NEW dest \in Live({ArrayType}), NEW src \in Live({ArrayType}),
                      ElementType(heap, dest) = ElementType(heap, src),
                      NEW destBegin \in Literals, NEW srcBegin \in Literals, NEW count \in Literals,
                      NEW result \in ArrayCopy(heap, dest, destBegin, src, srcBegin, count)
               PROVE  \/ GoesOn(result) /\ HasCopy(heap, dest, destBegin, src, srcBegin, count, result)
                      \/ GoesOn(result) /\ dest = src /\ destBegin - srcBegin \in 1 .. count - 1
                      \/ result.code \in {"wrapped", "STDLIB_ARRAY_OUTOFRANGE"}
                      \/ result.code = "past end" /\ count = 0 /\ srcBegin = Cell(heap, src).val
    BY DEF ArrayCopyIsExact
  <2>1. /\ dest \in Pointer /\ IsLive(heap, dest) /\ Cell(heap, dest).type = ArrayType
        /\ src \in Pointer /\ IsLive(heap, src) /\ Cell(heap, src).type = ArrayType
        /\ Sane(heap)
    BY LiveFacts DEF LibraryInv, Inv
  <2>2. destBegin \in Nat /\ srcBegin \in Nat /\ count \in Nat
    BY IntFacts, MemoryAssumption
  <2>3. CopiesElements(heap, dest, destBegin, src, srcBegin, count, result)
    BY <2>1, <2>2, ArrayCopyResult
  <2>4. CASE \E code \in {"STDLIB_ARRAY_OUTOFRANGE", "wrapped"} : result = Failed(code)
    <3>1. PICK code \in {"STDLIB_ARRAY_OUTOFRANGE", "wrapped"} : result = Failed(code)
      BY <2>4
    <3>2. result.code = code
      BY <3>1 DEF Failed
    <3> QED BY <3>1, <3>2
  <2>5. CASE result = Failed("past end") /\ count = 0 /\ srcBegin = Cell(heap, src).val
    BY <2>5 DEF Failed
  <2>6. CASE \E g : result = Done(g) /\ Copies(heap, dest, destBegin, src, srcBegin, count, g)
    <3>1. PICK g : result = Done(g) /\ Copies(heap, dest, destBegin, src, srcBegin, count, g)
      BY <2>6
    <3>2. GoesOn(result)
      BY <3>1 DEF GoesOn, Done, Going
    <3>3. CASE dest # src \/ destBegin - srcBegin \notin 1 .. count - 1
      <4>1. HasCopy(heap, dest, destBegin, src, srcBegin, count, Done(g))
        BY <2>1, <2>2, <3>1, <3>3, CopyExact
      <4> QED BY <3>1, <3>2, <4>1
    <3> QED BY <3>2, <3>3
  <2> QED BY <2>3, <2>4, <2>5, <2>6 DEF CopiesElements
<1> QED BY <1>1, LibraryInvariance, PTL

-----------------------------------------------------------------------------
(* Strings *)

LEMMA StringsFound ==
  ASSUME NEW h, Sane(h), NEW p
  PROVE  p \in StringsIn(h) <=> p \in Pointer /\ IsLive(h, p) /\ Cell(h, p).type = String32
<1>1. ASSUME p \in StringsIn(h)
      PROVE  p \in Pointer /\ IsLive(h, p) /\ Cell(h, p).type = String32
  <2>1. PICK a \in Addresses : \E i \in DOMAIN h[a] : h[a][i].type = String32 /\ p = [address |-> a, index |-> i]
    BY <1>1 DEF StringsIn
  <2>2. DOMAIN h[a] = 1 .. Len(h[a]) /\ Len(h[a]) \in Nat
    BY DEF Sane
  <2> QED BY <2>1, <2>2 DEF Pointer, IsLive, Cell
<1>2. ASSUME p \in Pointer, IsLive(h, p), Cell(h, p).type = String32
      PROVE  p \in StringsIn(h)
  <2>1. /\ p.address \in Addresses /\ p.index \in DOMAIN h[p.address] /\ Cell(h, p) = h[p.address][p.index]
    BY <1>2, PlaceFacts
  <2>2. p = [address |-> p.address, index |-> p.index]
    BY <1>2 DEF Pointer
  <2>3. p.index \in {j \in DOMAIN h[p.address] : h[p.address][j].type = String32}
    BY <1>2, <2>1
  <2>4. p \in {[address |-> p.address, index |-> i] : i \in {j \in DOMAIN h[p.address] : h[p.address][j].type = String32}}
    BY <2>2, <2>3
  <2> QED BY <2>1, <2>4 DEF StringsIn
<1> QED BY <1>1, <1>2

\* destroy, as DestroyFreesBuffer states it.
THEOREM DestroyFrees == Spec => []DestroyFreesBuffer
<1>1. LibraryInv => DestroyFreesBuffer
  <2> SUFFICES ASSUME LibraryInv, Disciplined, NEW p \in StringsIn(heap), NEW result \in Destroy(heap, p)
               PROVE  /\ result.heap[p.address] = heap[p.address]
                      /\ OthersUntouched(heap, p, result.heap)
                      /\ Buffer(heap, p) # Null => Buffer(heap, p).address \in Free(result.heap)
    BY DEF DestroyFreesBuffer
  <2>1. Sane(heap) /\ p \in Pointer /\ IsLive(heap, p) /\ Cell(heap, p).type = String32
    BY StringsFound DEF LibraryInv, Inv
  <2>2. p.address \in Addresses /\ HoldsString(heap, p.address)
    BY <2>1, StringFound
  <2>3. IsString(heap, ObjectAt(heap, p))
    BY DEF Disciplined, Sound
  <2> DEFINE data == Data(ObjectAt(heap, p))
  <2>4. result.heap = IF data = Null THEN heap ELSE Deallocated(heap, data)
    BY DEF Destroy, Done, Going
  <2>5. CASE data = Null
    BY <2>4, <2>5 DEF OthersUntouched, Buffer
  <2>6. CASE data # Null
    <3>1. ItemFailure(heap, data) = "running" /\ data \in Pointers
      <4>1. ObjectAt(heap, p) # EmptyString
        BY <2>6 DEF EmptyString, StringOf, Data
      <4> QED BY <2>1, <2>3, <4>1, StringFound, StringFields DEF IsString
    <3>2. IsIntArray(heap, data)
      BY <2>6, <3>1 DEF IsIntArray, Pointers
    <3>3. /\ data \in Pointer /\ data = First(data.address) /\ data.index = 1 /\ data.address \in Addresses
          /\ heap[data.address] # <<>> /\ ~HoldsString(heap, data.address)
      BY <2>1, <3>2, IntArrayFacts
    <3>4. \A a \in Addresses : result.heap[a] = IF a = data.address THEN <<>> ELSE heap[a]
      BY <2>1, <2>4, <2>6, <3>3, DeallocatedFacts DEF IsAddress
    <3>5. p.address # data.address
      BY <2>2, <3>3
    <3>6. \A a \in Addresses : a # data.address => result.heap[a] = heap[a]
      BY <3>4
    <3> QED BY <2>2, <3>3, <3>4, <3>5, <3>6 DEF OthersUntouched, Buffer, Free
  <2> QED BY <2>5, <2>6
<1> QED BY <1>1, LibraryInvariance, PTL
\* A string that is sound is empty, or has an array of int that is as long as its capacity.
LEMMA SoundString ==
  ASSUME NEW h, Sane(h), NEW string, IsString32(string), IsString(h, string)
  PROVE  /\ Length(string) \in Nat /\ Capacity(string) \in Nat /\ Length(string) <= Capacity(string)
         /\ Data(string) = Null =>
              string = EmptyString /\ Length(string) = 0 /\ Capacity(string) = 0
         /\ Data(string) # Null =>
              /\ IsIntArray(h, Data(string)) /\ Cell(h, Data(string)).val = Capacity(string)
              /\ Data(string).address \in Addresses /\ Data(string) = First(Data(string).address)
              /\ Len(h[Data(string).address]) = 1 + Capacity(string)
              /\ Capacity(string) # 0 /\ 1 + Capacity(string) <= MaxCells
              /\ ~HoldsString(h, Data(string).address) /\ Data(string).address \notin Free(h)
<1>1. Length(string) \in Numbers /\ Capacity(string) \in Numbers /\ Data(string) \in Pointers
  BY StringFields
<1>2. Length(string) \in Nat /\ Capacity(string) \in Nat
  BY <1>1, IntFacts
<1>3. CASE string = EmptyString
  <2>1. Data(string) = Null /\ Length(string) = 0 /\ Capacity(string) = 0
    BY <1>3 DEF EmptyString, StringOf, Data, Length, Capacity
  <2> QED BY <1>2, <1>3, <2>1
<1>4. CASE string # EmptyString
  <2>1. /\ ItemFailure(h, Data(string)) = "running" /\ Cell(h, Data(string)).val = Capacity(string)
        /\ Length(string) <= Capacity(string)
    BY <1>4 DEF IsString
  <2>2. Data(string) # Null
    BY <2>1 DEF ItemFailure
  <2>3. IsIntArray(h, Data(string))
    BY <1>1, <2>1, <2>2 DEF IsIntArray, Pointers
  <2>4. /\ Data(string) = First(Data(string).address) /\ Data(string).address \in Addresses
        /\ h[Data(string).address] # <<>> /\ IsBlock(h[Data(string).address])
        /\ Cell(h, Data(string)).val \in Numbers \ {0}
        /\ Len(h[Data(string).address]) = 1 + Cell(h, Data(string)).val
        /\ ~HoldsString(h, Data(string).address)
    BY <2>3, IntArrayFacts
  <2>5. 1 + Capacity(string) <= MaxCells
    BY <2>1, <2>4 DEF IsBlock
  <2> QED BY <1>2, <2>1, <2>2, <2>3, <2>4, <2>5 DEF Free
<1> QED BY <1>3, <1>4

\* The buffer that Expand32 leaves to a string, and what it leaves of the rest.
Buffered(h, string, required, g, expanded) ==
  LET old == Data(string)
      new == Data(expanded)
  IN  /\ Sane(g) /\ IsString32(expanded)
      /\ Length(expanded) = Length(string) /\ required <= Capacity(expanded)
      /\ new = Null => expanded = EmptyString /\ g = h /\ old = Null
      /\ new # Null =>
           /\ IsIntArray(g, new) /\ Cell(g, new).val = Capacity(expanded)
           /\ new = old \/ new.address \in Free(h)
      /\ new # Null => \A j \in 1 .. Length(string) : g[new.address][j + 1] = h[old.address][j + 1]
      /\ \A a \in Addresses \ Free(h) : First(a) # old => g[a] = h[a]
      /\ \A a \in Free(h) : new = Null \/ a # new.address => g[a] = h[a]
      /\ old # Null /\ new # old => g[old.address] = <<>>
      /\ Cardinality(Free(g)) = Cardinality(Free(h)) - IF old = Null /\ new # Null THEN 1 ELSE 0

LEMMA ExpandBuffers ==
  ASSUME NEW h, Sane(h), NEW string, IsString32(string), IsString(h, string), NEW required \in Nat,
         NEW g, NEW expanded, Expands(h, string, required, g, expanded)
  PROVE  Buffered(h, string, required, g, expanded)
<1> DEFINE old == Data(string)
           new == Data(expanded)
<1>1. Sane(g) /\ IsString32(expanded) /\ Length(expanded) = Length(string) /\ required <= Capacity(expanded)
  BY ExpandKeeps
<1>2. /\ Length(string) \in Nat /\ Capacity(string) \in Nat /\ Length(string) <= Capacity(string)
      /\ old = Null => string = EmptyString
      /\ old # Null =>
           /\ IsIntArray(h, old) /\ Cell(h, old).val = Capacity(string)
           /\ old.address \in Addresses /\ old = First(old.address)
           /\ Len(h[old.address]) = 1 + Capacity(string)
           /\ old.address \notin Free(h)
  BY SoundString
<1>3. IsFiniteSet(Free(h)) /\ Cardinality(Free(h)) \in Nat
  <2>1. IsFiniteSet(Free(h))
    BY LibraryAssumption, FS_Subset DEF Free
  <2> QED BY <2>1, FS_CardinalityType
<1>4. CASE g = h /\ expanded = string
  BY <1>1, <1>2, <1>3, <1>4 DEF Buffered
<1>5. CASE /\ required > Capacity(string)
           /\ \E a \in Free(h), capacity \in Numbers \ {0} :
                capacity >= required /\ Replaces(h, string, a, capacity, g, expanded)
  <2>1. PICK a \in Free(h), capacity \in Numbers \ {0} :
          capacity >= required /\ Replaces(h, string, a, capacity, g, expanded)
    BY <1>5
  <2>2. /\ expanded = StringOf(First(a), Length(string), capacity)
        /\ Sane(g) /\ IsBuffer(g[a], capacity)
        /\ \A b \in Addresses \ {a} : g[b] = IF old # Null /\ b = old.address THEN <<>> ELSE h[b]
        /\ old # Null => \A j \in 2 .. Len(h[old.address]) : j <= 1 + capacity => g[a][j] = h[old.address][j]
    BY <2>1 DEF Replaces
  <2>3. a \in Addresses /\ capacity \in Nat \ {0}
    BY <2>1, IntFacts DEF Free
  <2>4. new = First(a) /\ Capacity(expanded) = capacity
    BY <2>2 DEF StringOf, Data, Capacity
  <2>5. IsIntArray(g, First(a)) /\ First(a).address = a /\ Cell(g, First(a)).val = capacity
    BY <2>2, <2>3, BufferIsIntArray
  <2>6. new # Null /\ new.address = a
    BY <2>4, <2>5, MemoryAssumption DEF IsIntArray
  <2>7. old # Null => old.address # a /\ new # old
    BY <1>2, <2>1, <2>5, <2>6
  <2>8. \A b \in Addresses \ Free(h) : First(b) # old => g[b] = h[b]
    <3> SUFFICES ASSUME NEW b \in Addresses \ Free(h), First(b) # old PROVE g[b] = h[b]
      OBVIOUS
    <3>1. b # a /\ (old # Null => b # old.address)
      BY <1>2, <2>1
    <3> QED BY <2>2, <3>1
  <2>9. \A b \in Free(h) : b # a => g[b] = h[b]
    BY <1>2, <2>2 DEF Free
  <2>10. old # Null => g[old.address] = <<>>
    BY <1>2, <2>2, <2>7
  <2>11. ASSUME NEW j \in 1 .. Length(string)
         PROVE  g[a][j + 1] = h[old.address][j + 1]
    <3>1. old # Null
      <4>1. Length(EmptyString) = 0
        BY DEF EmptyString, StringOf, Length
      <4> QED BY <1>2, <4>1
    <3>2. j + 1 \in 2 .. Len(h[old.address]) /\ j + 1 <= 1 + capacity
      BY <1>2, <1>5, <2>1, <2>3, <3>1
    <3> QED BY <2>2, <3>1, <3>2
  <2>12. Cardinality(Free(g)) = Cardinality(Free(h)) - IF old = Null THEN 1 ELSE 0
    <3>1. g[a] # <<>>
      BY <2>2 DEF IsBuffer
    <3>2. IsFiniteSet(Free(h) \ {a}) /\ Cardinality(Free(h) \ {a}) = Cardinality(Free(h)) - 1
      BY <1>3, <2>1, FS_RemoveElement
    <3>3. CASE old = Null
      <4>1. Free(g) = Free(h) \ {a}
        BY <2>2, <2>3, <3>1, <3>3 DEF Free
      <4> QED BY <3>2, <3>3, <4>1
    <3>4. CASE old # Null
      <4>1. Free(g) = (Free(h) \ {a}) \cup {old.address}
        BY <1>2, <2>2, <2>3, <2>7, <3>1, <3>4 DEF Free
      <4>2. Cardinality((Free(h) \ {a}) \cup {old.address}) = Cardinality(Free(h) \ {a}) + 1
        BY <1>2, <3>2, <3>4, FS_AddElement
      <4> QED BY <1>3, <3>2, <3>4, <4>1, <4>2
    <3> QED BY <3>3, <3>4
  <2> HIDE DEF old, new
  <2> QED BY <1>1, <2>1, <2>3, <2>4, <2>5, <2>6, <2>7, <2>8, <2>9, <2>10, <2>11, <2>12 DEF Buffered, old, new
<1> QED BY <1>4, <1>5 DEF Expands
\* A call leaves the string at p with that length and the buffer that Expand32 left it.
Settled(h, p, g, expanded, length, k) ==
  LET new == Data(expanded)
  IN  /\ Sane(k) /\ ObjectAt(k, p) = StringOf(new, length, Capacity(expanded))
      /\ length \in Nat /\ length <= Capacity(expanded) /\ (new = Null => length = 0)
      /\ \A a \in Addresses \ {p.address} : new = Null \/ a # new.address => k[a] = g[a]
      /\ Len(k[p.address]) = Len(h[p.address]) /\ DOMAIN k[p.address] = DOMAIN h[p.address]
      /\ \A j \in DOMAIN h[p.address] :
           /\ k[p.address][j].type = h[p.address][j].type
           /\ j \notin p.index .. p.index + 3 => k[p.address][j] = h[p.address][j]
      /\ new # Null => IsIntArray(k, new) /\ Cell(k, new).val = Capacity(expanded)

\* Two strings in a block have no cell in common.
LEMMA StringsApart ==
  ASSUME NEW h, Sane(h), NEW p \in Pointer, IsLive(h, p), Cell(h, p).type = String32,
         NEW q \in Pointer, IsLive(h, q), Cell(h, q).type = String32, p # q, p.address = q.address
  PROVE  \A j \in 1 .. 4 : q.index + (j - 1) \notin p.index .. p.index + 3
<1>1. /\ p.index + 3 <= Len(h[p.address]) /\ q.index + 3 <= Len(h[p.address])
      /\ p.index \in Nat \ {0} /\ q.index \in Nat \ {0} /\ Len(h[p.address]) \in Nat
  BY StringFound
<1>2. ASSUME NEW r \in Pointer, IsLive(h, r), Cell(h, r).type = String32, NEW j \in 2 .. 4
      PROVE  h[r.address][r.index + (j - 1)].type # String32
  <2>1. /\ IsString32(ObjectAt(h, r))
        /\ \A i \in 1 .. 4 : ObjectAt(h, r)[i] = h[r.address][r.index + (i - 1)]
    BY <1>2, StringFound
  <2>2. \A i \in 1 .. 4 : ObjectAt(h, r)[i].type = CellType(String32, i)
    BY <2>1, StringFields DEF IsString32, IsWholeObject
  <2>3. CellType(String32, j) \in FundamentalTypes
    <3>1. ObjectSize(String32) = 4 /\ String32 \in ObjectTypes
      BY LibraryAssumption, IntFacts DEF ObjectSize
    <3> QED BY <3>1, SizeFacts
  <2> QED BY <2>1, <2>2, <2>3, IntFacts
<1>3. h[p.address][p.index].type = String32 /\ h[p.address][q.index].type = String32
  BY DEF Cell
<1>4. p.index # q.index
  BY DEF Pointer
<1>5. \A j \in 2 .. 4 : q.index # p.index + (j - 1) /\ p.index # q.index + (j - 1)
  BY <1>2, <1>3
<1>6. PICK x \in Nat, y \in Nat : x = p.index /\ y = q.index
  BY <1>1
<1>7. /\ y # x /\ y # x + (2 - 1) /\ y # x + (3 - 1) /\ y # x + (4 - 1)
      /\ x # y + (2 - 1) /\ x # y + (3 - 1) /\ x # y + (4 - 1)
  <2>1. 2 \in 2 .. 4 /\ 3 \in 2 .. 4 /\ 4 \in 2 .. 4
    OBVIOUS
  <2> QED BY <1>4, <1>5, <1>6, <2>1
<1>8. \A j \in 1 .. 4 : y + (j - 1) \notin x .. x + 3
  BY <1>7
<1> QED BY <1>6, <1>8

LEMMA SoundAfter ==
  ASSUME NEW h, Sane(h), Sound(h), NEW p \in StringsIn(h), NEW required \in Nat,
         NEW g, NEW expanded, Buffered(h, ObjectAt(h, p), required, g, expanded),
         NEW length, NEW k, Settled(h, p, g, expanded, length, k)
  PROVE  /\ Sound(k) /\ OthersUntouched(h, p, k)
         /\ Cardinality(Free(k)) =
              Cardinality(Free(h)) - IF Buffer(h, p) = Null /\ Buffer(k, p) # Null THEN 1 ELSE 0
<1> DEFINE string == ObjectAt(h, p)
           old    == Data(string)
           new    == Data(expanded)
<1>1. p \in Pointer /\ IsLive(h, p) /\ Cell(h, p).type = String32
  BY StringsFound
<1>2. /\ IsString32(string) /\ p.address \in Addresses /\ h[p.address] # <<>>
      /\ HoldsString(h, p.address)
  BY <1>1, StringFound
<1>3. /\ old # Null => /\ IsIntArray(h, old) /\ old.address \in Addresses /\ old = First(old.address)
                       /\ ~HoldsString(h, old.address) /\ old.address \notin Free(h)
  BY <1>2, SoundString DEF Sound
<1>4. /\ Sane(g) /\ IsString32(expanded)
      /\ new = Null => expanded = EmptyString /\ g = h /\ old = Null
      /\ new # Null => IsIntArray(g, new) /\ (new = old \/ new.address \in Free(h))
      /\ \A a \in Addresses \ Free(h) : First(a) # old => g[a] = h[a]
      /\ \A a \in Free(h) : new = Null \/ a # new.address => g[a] = h[a]
      /\ old # Null /\ new # old => g[old.address] = <<>>
      /\ Cardinality(Free(g)) = Cardinality(Free(h)) - IF old = Null /\ new # Null THEN 1 ELSE 0
  BY DEF Buffered
<1>5. /\ Sane(k) /\ ObjectAt(k, p) = StringOf(new, length, Capacity(expanded))
      /\ length \in Nat /\ length <= Capacity(expanded) /\ (new = Null => length = 0)
      /\ \A a \in Addresses \ {p.address} : new = Null \/ a # new.address => k[a] = g[a]
      /\ Len(k[p.address]) = Len(h[p.address]) /\ DOMAIN k[p.address] = DOMAIN h[p.address]
      /\ \A j \in DOMAIN h[p.address] :
           /\ k[p.address][j].type = h[p.address][j].type
           /\ j \notin p.index .. p.index + 3 => k[p.address][j] = h[p.address][j]
      /\ new # Null => IsIntArray(k, new) /\ Cell(k, new).val = Capacity(expanded)
  BY DEF Settled
<1>6. new # Null => /\ new.address \in Addresses /\ new = First(new.address) /\ IsAddress(k, new)
                    /\ ~HoldsString(k, new.address) /\ ~HoldsString(g, new.address) /\ k[new.address] # <<>>
                    /\ g[new.address] # <<>>
  BY <1>4, <1>5, IntArrayFacts DEF IsAddress
<1> HIDE DEF string, old, new
<1>7. Data(ObjectAt(k, p)) = new
  BY <1>5 DEF StringOf, Data
<1>13. ASSUME NEW a \in Addresses \ Free(h), First(a) # old
       PROVE  new = Null \/ a # new.address
  BY <1>3, <1>4, <1>6, <1>13
<1>14. ASSUME NEW a \in Addresses \ Free(h), First(a) # old, a # p.address
       PROVE  k[a] = h[a]
  BY <1>4, <1>5, <1>13, <1>14
<1>15. p.address \notin Free(h) /\ First(p.address) # old
  <2>1. First(p.address).address = p.address
    BY DEF First
  <2> QED BY <1>2, <1>3, <2>1, MemoryAssumption DEF Free, First, Pointer
\* The strings are where they were.
<1>8. ASSUME NEW r \in StringsIn(k)
      PROVE  r \in StringsIn(h) /\ (r # p => ObjectAt(k, r) = ObjectAt(h, r))
  <2>1. r \in Pointer /\ IsLive(k, r) /\ Cell(k, r).type = String32
    BY <1>5, <1>8, StringsFound
  <2>2. /\ r.address \in Addresses /\ k[r.address] # <<>> /\ HoldsString(k, r.address)
        /\ IsString32(ObjectAt(k, r)) /\ \A j \in 1 .. 4 : ObjectAt(k, r)[j] = k[r.address][r.index + (j - 1)]
        /\ r.index + 3 <= Len(k[r.address]) /\ r.index \in Nat \ {0}
    BY <1>5, <2>1, StringFound
  <2>3. CASE r.address # p.address
    <3>1. new = Null \/ r.address # new.address
      BY <1>6, <2>2
    <3>2. k[r.address] = g[r.address]
      BY <1>5, <2>2, <2>3, <3>1
    <3>3. r.address \notin Free(h)
      <4> SUFFICES ASSUME r.address \in Free(h) PROVE FALSE
        OBVIOUS
      <4>1. g[r.address] = h[r.address] /\ h[r.address] = <<>>
        BY <1>4, <3>1 DEF Free
      <4> QED BY <2>2, <3>2, <4>1
    <3>4. First(r.address) # old
      <4> SUFFICES ASSUME First(r.address) = old PROVE FALSE
        OBVIOUS
      <4>1. old # Null /\ old.address = r.address
        BY <2>2, MemoryAssumption DEF First, Pointer
      <4>2. new # old /\ g[old.address] = <<>>
        BY <1>4, <3>1, <4>1
      <4> QED BY <2>2, <3>2, <4>1, <4>2
    <3>5. k[r.address] = h[r.address]
      BY <1>14, <2>2, <2>3, <3>3, <3>4
    <3>6. IsLive(h, r) /\ Cell(h, r).type = String32 /\ ObjectAt(k, r) = ObjectAt(h, r)
      BY <2>1, <3>5 DEF IsLive, Cell, ObjectAt
    <3> QED BY <2>1, <3>6, StringsFound
  <2>4. CASE r.address = p.address
    <3>1. r.index \in DOMAIN k[p.address] /\ Cell(k, r) = k[p.address][r.index]
      BY <1>5, <2>1, <2>4, PlaceFacts
    <3>2. IsLive(h, r) /\ Cell(h, r).type = String32
      BY <1>5, <2>1, <2>4, <3>1 DEF IsLive, Cell
    <3>3. r \in StringsIn(h)
      BY <2>1, <3>2, StringsFound
    <3>4. ASSUME r # p
          PROVE  ObjectAt(k, r) = ObjectAt(h, r)
      <4>1. /\ IsString32(ObjectAt(h, r)) /\ r.index + 3 <= Len(h[r.address])
            /\ \A j \in 1 .. 4 : ObjectAt(h, r)[j] = h[r.address][r.index + (j - 1)]
        BY <2>1, <3>2, StringFound
      <4>2. \A j \in 1 .. 4 : r.index + (j - 1) \notin p.index .. p.index + 3
        BY <1>1, <2>1, <2>4, <3>2, <3>4, StringsApart
      <4>3. ASSUME NEW j \in 1 .. 4
            PROVE  ObjectAt(k, r)[j] = ObjectAt(h, r)[j]
        <5>1. DOMAIN h[p.address] = 1 .. Len(h[p.address]) /\ Len(h[p.address]) \in Nat
          BY <1>2 DEF Sane
        <5>2. PICK i \in Nat \ {0}, n \in Nat : i = r.index /\ n = Len(h[p.address])
          BY <2>2, <5>1
        <5>3. i + 3 <= n
          BY <2>4, <4>1, <5>2
        <5>4. i + (j - 1) \in 1 .. n
          BY <4>3, <5>3
        <5>5. r.index + (j - 1) \in DOMAIN h[p.address]
          BY <5>1, <5>2, <5>4
        <5>6. PICK c \in Int : c = r.index + (j - 1)
          BY <2>2
        <5>7. c \in DOMAIN h[p.address] /\ c \notin p.index .. p.index + 3
          BY <4>2, <5>5, <5>6
        <5>8. k[p.address][c] = h[p.address][c]
          BY <1>5, <5>7
        <5>9. ObjectAt(k, r)[j] = k[p.address][c] /\ ObjectAt(h, r)[j] = h[p.address][c]
          BY <2>2, <2>4, <4>1, <5>6
        <5> QED BY <5>8, <5>9
      <4>4. ObjectAt(k, r) \in Seq(Cells) /\ ObjectAt(h, r) \in Seq(Cells)
        BY <2>2, <4>1 DEF IsString32, IsWholeObject
      <4>5. Len(ObjectAt(k, r)) = 4 /\ Len(ObjectAt(h, r)) = 4
        BY <2>2, <4>1, StringFields
      <4>6. PICK x \in Seq(Cells), y \in Seq(Cells) : x = ObjectAt(k, r) /\ y = ObjectAt(h, r)
        BY <4>4
      <4>7. x = y
        BY <4>3, <4>5, <4>6
      <4> QED BY <4>6, <4>7
    <3> QED BY <3>3, <3>4
  <2> QED BY <2>3, <2>4
\* The buffers of the others are as they were.
<1>9. ASSUME NEW r \in StringsIn(h), r # p, Data(ObjectAt(h, r)) # Null
      PROVE  LET d == Data(ObjectAt(h, r))
             IN  d # new /\ k[d.address] = h[d.address]
  <2> DEFINE d == Data(ObjectAt(h, r))
  <2>1. IsString32(ObjectAt(h, r)) /\ IsString(h, ObjectAt(h, r))
    BY <1>9, StringsFound, StringFound DEF Sound
  <2>2. /\ d.address \in Addresses /\ d = First(d.address)
        /\ ~HoldsString(h, d.address) /\ d.address \notin Free(h)
    BY <1>9, <2>1, SoundString
  <2>3. d # old
    BY <1>9 DEF Sound, old, string
  <2> HIDE DEF d
  <2>4. d.address # p.address
    BY <1>2, <2>2
  <2>5. k[d.address] = h[d.address] /\ (new = Null \/ d.address # new.address)
    BY <1>13, <1>14, <2>2, <2>3, <2>4
  <2>6. d # new
    BY <1>9, <2>5 DEF d
  <2> QED BY <2>5, <2>6 DEF d
<1>10. Sound(k)
  <2>1. ASSUME NEW r \in StringsIn(k)
        PROVE  IsString(k, ObjectAt(k, r))
    <3>1. CASE r = p
      <4>1. CASE new = Null
        BY <1>4, <1>5, <3>1, <4>1 DEF EmptyString, StringOf, Capacity, IsString
      <4>2. CASE new # Null
        <5>1. ItemFailure(k, new) = "running" /\ Cell(k, new).val = Capacity(expanded)
          BY <1>5, <4>2 DEF IsIntArray
        <5>2. /\ Data(ObjectAt(k, p)) = new /\ Length(ObjectAt(k, p)) = length
              /\ Capacity(ObjectAt(k, p)) = Capacity(expanded)
          BY <1>5 DEF StringOf, Data, Length, Capacity
        <5> QED BY <1>5, <1>6, <3>1, <4>2, <5>1, <5>2 DEF IsString
      <4> QED BY <4>1, <4>2
    <3>2. CASE r # p
      <4> DEFINE d == Data(ObjectAt(h, r))
      <4>1. r \in StringsIn(h) /\ ObjectAt(k, r) = ObjectAt(h, r)
        BY <1>8, <3>2
      <4>2. IsString32(ObjectAt(h, r)) /\ IsString(h, ObjectAt(h, r))
        BY <4>1, StringsFound, StringFound DEF Sound
      <4>3. CASE d = Null
        <5>1. ObjectAt(h, r) = EmptyString
          BY <4>2, <4>3, SoundString
        <5> QED BY <4>1, <5>1 DEF IsString
      <4>4. CASE d # Null
        <5>1. k[d.address] = h[d.address]
          BY <1>9, <3>2, <4>1, <4>4
        <5>2. d \in Pointer
          BY <4>2, <4>4, SoundString DEF IsIntArray
        <5>3. Moved(d, 1).address = d.address
          BY <5>2 DEF Moved, Pointer
        <5>4. ItemFailure(k, d) = ItemFailure(h, d) /\ Cell(k, d) = Cell(h, d) /\ (IsAddress(k, d) <=> IsAddress(h, d))
          BY <5>1, <5>3 DEF ItemFailure, ElementType, Cell, IsLive, IsAddress
        <5>5. ObjectAt(h, r) # EmptyString
          BY <4>4 DEF EmptyString, StringOf, Data
        <5> QED BY <4>1, <4>2, <5>4, <5>5 DEF IsString
      <4> QED BY <4>3, <4>4
    <3> QED BY <3>1, <3>2
  <2>2. ASSUME NEW r \in StringsIn(k), r # p, Data(ObjectAt(k, r)) # Null
        PROVE  Data(ObjectAt(k, r)) # new
    BY <1>8, <1>9, <2>2
  <2>3. ASSUME NEW r \in StringsIn(k), NEW s \in StringsIn(k), r # s
        PROVE  Data(ObjectAt(k, r)) = Null \/ Data(ObjectAt(k, r)) # Data(ObjectAt(k, s))
    <3>1. CASE r = p
      BY <1>7, <2>2, <2>3, <3>1
    <3>2. CASE s = p
      BY <1>7, <2>2, <2>3, <3>2
    <3>3. CASE r # p /\ s # p
      BY <1>8, <2>3, <3>3 DEF Sound
    <3> QED BY <3>1, <3>2, <3>3
  <2> QED BY <2>1, <2>3 DEF Sound
<1>11. OthersUntouched(h, p, k)
  BY <1>14 DEF OthersUntouched, Buffer, old, string
<1>12. Free(k) = Free(g)
  <2>1. g[p.address] = h[p.address]
    BY <1>2, <1>4, <1>15
  <2>2. k[p.address] # <<>>
    <3>1. Len(h[p.address]) # 0
      BY <1>2 DEF Sane
    <3>2. Len(k[p.address]) # 0
      BY <1>5, <3>1
    <3> QED BY <3>2
  <2>3. \A a \in Addresses : k[a] = <<>> <=> g[a] = <<>>
    <3> SUFFICES ASSUME NEW a \in Addresses PROVE k[a] = <<>> <=> g[a] = <<>>
      OBVIOUS
    <3>1. CASE a = p.address
      BY <1>2, <2>1, <2>2, <3>1
    <3>2. CASE new # Null /\ a = new.address
      BY <1>6, <3>2
    <3>3. CASE a # p.address /\ (new = Null \/ a # new.address)
      BY <1>5, <3>3
    <3> QED BY <3>1, <3>2, <3>3
  <2> QED BY <2>3 DEF Free
<1> QED BY <1>4, <1>7, <1>10, <1>11, <1>12 DEF Buffer, string, old, new
-----------------------------------------------------------------------------
(* What the calls promise *)

\* A buffer, when the text has been set in it from a place on.
HasText(g, data, at, text, f) ==
  /\ Sane(f) /\ IsIntArray(f, data) /\ Cell(f, data) = Cell(g, data)
  /\ \A a \in Addresses \ {data.address} : f[a] = g[a]
  /\ \A j \in 1 .. at : j <= Cell(g, data).val => f[data.address][j + 1] = g[data.address][j + 1]
  /\ \A j \in 1 .. Len(text) : f[data.address][at + j + 1].val = text[j]

LEMMA TextIsSet ==
  ASSUME NEW g, Sane(g), NEW string, IsIntArray(g, Data(string)), NEW at \in Nat, NEW text \in Seq(Numbers),
         NEW f, Sets(g, string, at, text, f)
  PROVE  HasText(g, Data(string), at, text, f)
<1> DEFINE data == Data(string)
           old  == g[data.address]
           new  == f[data.address]
<1>1. CASE text = <<>> /\ f = g
  BY <1>1 DEF HasText
<1>2. CASE ~(text = <<>> /\ f = g)
  <2>1. /\ at + 1 + Len(text) <= Len(old) /\ Sane(f) /\ Len(new) = Len(old)
        /\ \A a \in Addresses \ {data.address} : f[a] = g[a]
        /\ \A j \in 1 .. Len(old) :
             new[j] = IF j \in at + 2 .. at + 1 + Len(text) THEN [type |-> IntType, val |-> text[j - at - 1]]
                                                            ELSE old[j]
    BY <1>2 DEF Sets
  <2>2. /\ data \in Pointer /\ data # Null /\ data.index = 1 /\ Cell(g, data) = old[1]
        /\ Cell(g, data).type = ArrayType /\ Cell(g, data).val \in Numbers \ {0} /\ Len(old) = 1 + Cell(g, data).val
    BY IntArrayFacts
  <2>3. PICK n \in Nat \ {0} : n = Cell(g, data).val /\ Len(old) = 1 + n
    BY <2>2, IntFacts
  <2>4. PICK m \in Nat : m = Len(text)
    OBVIOUS
  <2> HIDE DEF data, old, new
  <2>5. at + 1 + m <= 1 + n
    BY <2>1, <2>3, <2>4
  <2>6. \A j \in 1 .. 1 + n :
          new[j] = IF j \in at + 2 .. at + 1 + m THEN [type |-> IntType, val |-> text[j - at - 1]] ELSE old[j]
    BY <2>1, <2>3, <2>4
  <2>7. new[1] = old[1]
    <3>1. 1 \in 1 .. 1 + n /\ 1 \notin at + 2 .. at + 1 + m
      OBVIOUS
    <3> QED BY <2>6, <3>1
  <2>8. new[2].type = IntType
    <3>1. 2 \in 1 .. 1 + n
      OBVIOUS
    <3>2. old[2].type = IntType
      <4>1. Cell(g, Moved(data, 1)) = old[2]
        BY <2>2 DEF Cell, Moved, Pointer, old
      <4> QED BY <2>2, <4>1 DEF IsIntArray, ItemFailure, ElementType, data
    <3>3. new[2] = [type |-> IntType, val |-> text[2 - at - 1]] \/ new[2] = old[2]
      BY <2>6, <3>1
    <3> QED BY <3>2, <3>3
  <2>9. IsIntArray(f, data) /\ Cell(f, data) = Cell(g, data)
    <3>1. Cell(f, data) = new[1] /\ Cell(f, Moved(data, 1)) = new[2]
      BY <2>2 DEF Cell, Moved, Pointer, new
    <3>2. IsLive(f, data)
      BY <2>1, <2>2, <2>3 DEF IsLive, new
    <3> QED BY <2>2, <2>7, <2>8, <3>1, <3>2 DEF IsIntArray, ItemFailure, ElementType
  <2>10. \A j \in 1 .. at : j <= n => new[j + 1] = old[j + 1]
    <3> SUFFICES ASSUME NEW j \in 1 .. at, j <= n PROVE new[j + 1] = old[j + 1]
      OBVIOUS
    <3>1. j + 1 \in 1 .. 1 + n /\ j + 1 \notin at + 2 .. at + 1 + m
      OBVIOUS
    <3> QED BY <2>6, <3>1
  <2>11. \A j \in 1 .. m : new[at + j + 1].val = text[j]
    <3> SUFFICES ASSUME NEW j \in 1 .. m PROVE new[at + j + 1].val = text[j]
      OBVIOUS
    <3>1. PICK i \in Nat : i = at + j + 1
      OBVIOUS
    <3>2. i \in 1 .. 1 + n /\ i \in at + 2 .. at + 1 + m /\ i - at - 1 = j
      BY <2>5, <3>1
    <3>3. new[i] = [type |-> IntType, val |-> text[i - at - 1]]
      BY <2>6, <3>2
    <3>4. new[i].val = text[j]
      BY <3>2, <3>3
    <3> QED BY <3>1, <3>4
  <2> QED BY <2>1, <2>3, <2>4, <2>9, <2>10, <2>11 DEF HasText, data, old, new
<1> QED BY <1>1, <1>2

\* What readString32 returns, as ReadReturnsText states it.
THEOREM ReadReturns == Spec => []ReadReturnsText
<1>1. LibraryInv => ReadReturnsText
  <2> SUFFICES ASSUME LibraryInv, NEW text \in Texts,
                      NEW result \in ConvertFromCppString32(heap, EmptyString, text), GoesOn(result)
               PROVE  /\ IsString(result.heap, result.string)
                      /\ TextOf(result.heap, result.string) = text
                      /\ \A a \in Addresses \ Free(heap) : result.heap[a] = heap[a]
    BY DEF ReadReturnsText
  <2> DEFINE h == heap
  <2>1. Sane(h) /\ IsString32(EmptyString) /\ IsString(h, EmptyString)
    BY NullString DEF LibraryInv, Inv, IsString
  <2>2. text \in Seq(Numbers) /\ Len(text) \in Nat /\ text = [i \in 1 .. Len(text) |-> text[i]]
    BY TextFacts
  <2>3. PICK expanded, g, f :
          /\ Reads(h, EmptyString, text, expanded, g, f)
          /\ result = Going(f, StringOf(Data(expanded), Len(text), Capacity(expanded)))
    <3>1. \A code \in ExpandCodes \cup SetCodes : ~GoesOn(Failed(code))
      BY DEF ExpandCodes, SetCodes, GoesOn, Failed
    <3>2. \/ \E code \in ExpandCodes \cup SetCodes : result = Failed(code)
          \/ \E expanded, g, f :
               /\ Reads(h, EmptyString, text, expanded, g, f)
               /\ result = Going(f, StringOf(Data(expanded), Len(text), Capacity(expanded)))
      BY <2>1, <2>2, ReadResult
    <3> QED BY <3>1, <3>2
  <2> DEFINE data   == Data(expanded)
             string == StringOf(data, Len(text), Capacity(expanded))
  <2>4. /\ Expands(h, EmptyString, Len(text), g, expanded) /\ IsString32(expanded)
        /\ Len(text) <= Capacity(expanded) /\ Sets(g, string, 0, text, f)
    BY <2>3 DEF Reads
  <2>5. Data(EmptyString) = Null /\ Data(string) = data /\ Length(string) = Len(text)
        /\ Capacity(string) = Capacity(expanded) /\ Capacity(EmptyString) = 0
    BY DEF EmptyString, StringOf, Data, Length, Capacity
  <2>6. result.heap = f /\ result.string = string
    BY <2>3 DEF Going
  <2>7. Buffered(h, EmptyString, Len(text), g, expanded)
    BY <2>1, <2>2, <2>4, ExpandBuffers
  <2>8. \A a \in Addresses \ Free(h) : g[a] = h[a]
    <3>1. \A a \in Addresses : First(a) # Null
      BY MemoryAssumption DEF First, Pointer
    <3> QED BY <2>5, <2>7, <3>1 DEF Buffered
  <2> HIDE DEF string, data, h
  <2>9. CASE data = Null
    <3>1. expanded = EmptyString /\ Capacity(expanded) = 0
      BY <2>5, <2>7, <2>9 DEF Buffered, data
    <3>2. Len(text) = 0 /\ text = <<>>
      BY <2>2, <2>4, <3>1
    <3>3. string = EmptyString
      BY <2>9, <3>1, <3>2 DEF string, EmptyString
    <3>4. f = g
      BY <2>4, <2>5, <2>9, <3>2, MemoryAssumption DEF Sets, IsIntArray
    <3>5. TextOf(f, string) = text
      BY <2>5, <3>2 DEF TextOf
    <3> QED BY <2>6, <2>8, <3>3, <3>4, <3>5 DEF IsString, h
  <2>10. CASE data # Null
    <3>1. Sane(g) /\ IsIntArray(g, data) /\ Cell(g, data).val = Capacity(expanded) /\ data.address \in Free(h)
      BY <2>5, <2>7, <2>10 DEF Buffered, data
    <3>2. HasText(g, Data(string), 0, text, f)
      <4>1. IsIntArray(g, Data(string)) /\ 0 \in Nat
        BY <2>5, <3>1
      <4> QED BY <2>2, <2>4, <3>1, <4>1, TextIsSet
    <3>3. /\ Sane(f) /\ IsIntArray(f, data) /\ Cell(f, data).val = Capacity(expanded)
          /\ \A a \in Addresses \ {data.address} : f[a] = g[a]
          /\ \A j \in 1 .. Len(text) : f[data.address][j + 1].val = text[j]
      BY <2>2, <2>5, <3>1, <3>2 DEF HasText
    <3>4. ItemFailure(f, data) = "running" /\ IsAddress(f, data)
      BY <3>3, IntArrayFacts DEF IsIntArray, IsAddress
    <3>5. IsString(f, string)
      BY <2>4, <2>5, <3>3, <3>4 DEF IsString
    <3>6. TextOf(f, string) = text
      BY <2>2, <2>5, <3>3 DEF TextOf
    <3>7. \A a \in Addresses \ Free(h) : f[a] = h[a]
      BY <2>8, <3>1, <3>3
    <3> QED BY <2>6, <3>5, <3>6, <3>7 DEF h
  <2> QED BY <2>9, <2>10
<1> QED BY <1>1, LibraryInvariance, PTL
\* An array of int stays one in a block that stays as it is.
LEMMA ArrayStays ==
  ASSUME NEW h, NEW data, IsIntArray(h, data), NEW k, k[data.address] = h[data.address]
  PROVE  IsIntArray(k, data) /\ Cell(k, data) = Cell(h, data)
<1>1. data \in Pointer /\ Moved(data, 1).address = data.address
  BY DEF IsIntArray, Moved, Pointer
<1> QED BY <1>1 DEF IsIntArray, ItemFailure, ElementType, Cell, IsLive

\* The heap before a call sets the length: only the string's buffer and its fields
\* may differ from what Expand32 left.
Fills(h, p, g, expanded, f) ==
  LET data == Data(expanded)
  IN  /\ Sane(f) /\ IsIntArray(f, data) /\ Cell(f, data).val = Capacity(expanded)
      /\ \A a \in Addresses \ {p.address} : a # data.address => f[a] = g[a]
      /\ Len(f[p.address]) = Len(h[p.address]) /\ DOMAIN f[p.address] = DOMAIN h[p.address]
      /\ \A j \in DOMAIN h[p.address] :
           /\ f[p.address][j].type = h[p.address][j].type
           /\ j \notin p.index .. p.index + 3 => f[p.address][j] = h[p.address][j]

LEMMA FilledSettles ==
  ASSUME NEW h, Sane(h), NEW p \in StringsIn(h), NEW g, NEW expanded, NEW f, Fills(h, p, g, expanded, f),
         NEW length \in Nat, length <= Capacity(expanded),
         NEW k, HasString(f, p, StringOf(Data(expanded), length, Capacity(expanded)), k)
  PROVE  /\ Settled(h, p, g, expanded, length, k)
         /\ k[Data(expanded).address] = f[Data(expanded).address]
<1> DEFINE data == Data(expanded)
           new  == StringOf(data, length, Capacity(expanded))
<1>1. /\ Sane(f) /\ IsIntArray(f, data) /\ Cell(f, data).val = Capacity(expanded)
      /\ \A a \in Addresses \ {p.address} : a # data.address => f[a] = g[a]
      /\ Len(f[p.address]) = Len(h[p.address]) /\ DOMAIN f[p.address] = DOMAIN h[p.address]
      /\ \A j \in DOMAIN h[p.address] :
           /\ f[p.address][j].type = h[p.address][j].type
           /\ j \notin p.index .. p.index + 3 => f[p.address][j] = h[p.address][j]
  BY DEF Fills
<1>2. /\ Sane(k) /\ ObjectAt(k, p) = new
      /\ \A a \in Addresses \ {p.address} : k[a] = f[a]
      /\ \A a \in Addresses : Len(k[a]) = Len(f[a]) /\ DOMAIN k[a] = DOMAIN f[a]
      /\ \A j \in DOMAIN f[p.address] :
           j \notin p.index .. p.index + 3 => k[p.address][j] = f[p.address][j]
      /\ \A a \in Addresses : \A j \in DOMAIN f[a] : k[a][j].type = f[a][j].type
  BY DEF HasString
<1>3. p \in Pointer /\ p.address \in Addresses /\ p.index \in DOMAIN h[p.address]
      /\ h[p.address][p.index].type = String32
  <2>1. p \in Pointer /\ IsLive(h, p) /\ Cell(h, p).type = String32
    BY StringsFound
  <2> QED BY <2>1, PlaceFacts
<1>4. data.address # p.address /\ data.address \in Addresses /\ data # Null
  <2>1. HoldsString(f, p.address)
    BY <1>1, <1>3 DEF HoldsString
  <2>2. ~HoldsString(f, data.address) /\ data.address \in Addresses /\ data # Null
    BY <1>1, IntArrayFacts
  <2> QED BY <2>1, <2>2
<1>5. k[data.address] = f[data.address]
  BY <1>2, <1>4
<1>6. IsIntArray(k, data) /\ Cell(k, data).val = Capacity(expanded)
  BY <1>1, <1>5, ArrayStays
<1>7. \A a \in Addresses \ {p.address} : a # data.address => k[a] = g[a]
  BY <1>1, <1>2
<1>8. Len(k[p.address]) = Len(h[p.address]) /\ DOMAIN k[p.address] = DOMAIN h[p.address]
  BY <1>1, <1>2, <1>3
<1>9. \A j \in DOMAIN h[p.address] :
        /\ k[p.address][j].type = h[p.address][j].type
        /\ j \notin p.index .. p.index + 3 => k[p.address][j] = h[p.address][j]
  BY <1>1, <1>2, <1>3
<1> HIDE DEF data, new
<1>10. Settled(h, p, g, expanded, length, k)
  BY <1>2, <1>4, <1>6, <1>7, <1>8, <1>9 DEF Settled, data, new
<1> QED BY <1>5, <1>10 DEF data

\* The values of cells in a row, and one more.
LEMMA OneMore ==
  ASSUME NEW S, NEW x \in Seq(S), NEW v \in S, NEW y \in Seq(S), Len(y) = Len(x) + 1,
         \A i \in 1 .. Len(x) : y[i] = x[i], y[Len(x) + 1] = v
  PROVE  y = Append(x, v)
OBVIOUS

LEMMA TextIsSequence ==
  ASSUME NEW h, Sane(h), NEW string, IsString32(string), IsString(h, string)
  PROVE  /\ TextOf(h, string) \in Seq(Values) /\ Len(TextOf(h, string)) = Length(string)
         /\ \A i \in 1 .. Length(string) : TextOf(h, string)[i] = h[Data(string).address][i + 1].val
<1>1. Length(string) \in Nat /\ Capacity(string) \in Nat /\ Length(string) <= Capacity(string)
  BY SoundString
<1>2. ASSUME NEW i \in 1 .. Length(string)
      PROVE  h[Data(string).address][i + 1].val \in Values
  <2>1. Data(string) # Null
    BY <1>2, SoundString
  <2>2. Data(string).address \in Addresses /\ Len(h[Data(string).address]) = 1 + Capacity(string)
    BY <2>1, SoundString
  <2>3. h[Data(string).address] \in Seq(Cells)
    BY <2>2 DEF Sane
  <2>4. i + 1 \in 1 .. 1 + Capacity(string)
    BY <1>1
  <2>5. h[Data(string).address][i + 1] \in Cells
    BY <2>2, <2>3, <2>4
  <2> QED BY <2>5 DEF Cells
<1>3. TextOf(h, string) \in [1 .. Length(string) -> Values]
  BY <1>2 DEF TextOf
<1> QED BY <1>1, <1>3 DEF TextOf
\* The heap and the string that a call finds, if the program has broken no string.
LEMMA StringGiven ==
  ASSUME NEW h, Sane(h), Sound(h), NEW p \in StringsIn(h)
  PROVE  /\ p \in Pointer /\ IsLive(h, p) /\ Cell(h, p).type = String32
         /\ p.address \in Addresses /\ HoldsString(h, p.address)
         /\ IsString32(ObjectAt(h, p)) /\ IsString(h, ObjectAt(h, p))
         /\ Length(ObjectAt(h, p)) \in Nat /\ Capacity(ObjectAt(h, p)) \in Nat
         /\ Length(ObjectAt(h, p)) <= Capacity(ObjectAt(h, p))
         /\ Capacity(ObjectAt(h, p)) < MaxCells /\ MaxCells \in Nat
<1>1. p \in Pointer /\ IsLive(h, p) /\ Cell(h, p).type = String32
  BY StringsFound
<1>2. /\ IsString32(ObjectAt(h, p)) /\ p.address \in Addresses /\ HoldsString(h, p.address)
      /\ p.index + 3 <= Len(h[p.address]) /\ p.index \in Nat \ {0} /\ Len(h[p.address]) \in Nat
  BY <1>1, StringFound
<1>3. IsString(h, ObjectAt(h, p))
  BY DEF Sound
<1>4. /\ Length(ObjectAt(h, p)) \in Nat /\ Capacity(ObjectAt(h, p)) \in Nat
      /\ Length(ObjectAt(h, p)) <= Capacity(ObjectAt(h, p))
      /\ Capacity(ObjectAt(h, p)) = 0 \/ 1 + Capacity(ObjectAt(h, p)) <= MaxCells
  BY <1>2, <1>3, SoundString
<1>5. MaxCells \in Nat /\ MaxCells > 0
  <2>1. Len(h[p.address]) <= MaxCells
    BY <1>2 DEF Sane, IsBlock
  <2> QED BY <1>2, <2>1, MemoryAssumption
<1>6. Capacity(ObjectAt(h, p)) < MaxCells
  BY <1>4, <1>5
<1> QED BY <1>1, <1>2, <1>3, <1>4, <1>5, <1>6

\* push appends, as PushAppends states it.
THEOREM PushAppending == Spec => []PushAppends
<1>1. LibraryInv => PushAppends
  <2> SUFFICES ASSUME LibraryInv, Disciplined, NEW p \in StringsIn(heap), NEW value \in Chars,
                      NEW result \in Push(heap, p, value), GoesOn(result)
               PROVE  BecomesText(heap, p, result, Append(Text(heap, p), value))
    BY DEF PushAppends, BecomesText
  <2> DEFINE h        == heap
             string   == ObjectAt(h, p)
             length   == Length(string)
             old      == Data(string)
  <2>1. Sane(h) /\ Sound(h) /\ value \in Numbers
    BY LibraryAssumption, MemoryAssumption DEF LibraryInv, Inv, Disciplined
  <2>2. /\ p \in Pointer /\ IsLive(h, p) /\ Cell(h, p).type = String32
        /\ p.address \in Addresses /\ HoldsString(h, p.address)
        /\ IsString32(string) /\ IsString(h, string)
        /\ length \in Nat /\ Capacity(string) \in Nat /\ length <= Capacity(string)
        /\ Capacity(string) < MaxCells /\ MaxCells \in Nat
    BY <2>1, StringGiven
  <2>3. PICK expanded, g, f, new :
          /\ Pushes(h, p, value, expanded, g, f)
          /\ new = StringOf(Data(expanded), (length + 1) % WordSize, Capacity(expanded))
          /\ IsLive(f, p) /\ HasString(f, p, new, Written(f, p, new))
          /\ result = Done(Written(f, p, new))
    <3>1. \A code \in ExpandCodes \cup SetCodes : ~GoesOn(Failed(code))
      BY DEF ExpandCodes, SetCodes, GoesOn, Failed
    <3>2. ~ \E code \in ExpandCodes \cup SetCodes : result = Failed(code)
      BY <3>1
    <3> QED BY ONLY <2>1, <2>2, <3>2, PushResult, result \in Push(heap, p, value)
  <2> DEFINE k    == Written(f, p, new)
             data == Data(expanded)
  <2> HIDE DEF h, string, length, k
  <2>4. (length + 1) % WordSize = length + 1
    <3>1. WordSize \in Nat /\ length + 1 < WordSize
      BY <2>2, MemoryAssumption
    <3> QED BY <2>2, <3>1
  <2>5. /\ Expands(h, string, length + 1, g, expanded) /\ IsString32(expanded)
        /\ length + 1 <= Capacity(expanded)
        /\ Sets(g, expanded, length, <<value>>, f) /\ f[p.address] = h[p.address]
    BY <2>3, <2>4 DEF Pushes, string, length, h
  <2>6. Buffered(h, string, length + 1, g, expanded)
    BY <2>1, <2>2, <2>5, ExpandBuffers
  <2>7. /\ Sane(g) /\ IsIntArray(g, data) /\ Cell(g, data).val = Capacity(expanded) /\ data # Null
        /\ \A j \in 1 .. length : g[data.address][j + 1] = h[old.address][j + 1]
    <3>1. data # Null
      <4>1. data = Null => Capacity(expanded) = 0
        BY <2>6 DEF Buffered, EmptyString, StringOf, Capacity
      <4> QED BY <2>2, <2>5, <4>1
    <3> QED BY <2>6, <3>1 DEF Buffered, length
  <2>8. HasText(g, data, length, <<value>>, f)
    <3>1. <<value>> \in Seq(Numbers)
      BY <2>1
    <3> QED BY <2>2, <2>5, <2>7, <3>1, TextIsSet
  <2>9. /\ Sane(f) /\ IsIntArray(f, data) /\ Cell(f, data).val = Capacity(expanded)
        /\ \A a \in Addresses : a # data.address => f[a] = g[a]
        /\ \A j \in 1 .. length : f[data.address][j + 1] = g[data.address][j + 1]
        /\ f[data.address][length + 2].val = value
    <3>1. \A j \in 1 .. length : j <= Cell(g, data).val
      <4>1. Capacity(expanded) \in Nat
        BY <2>5, StringFields, IntFacts
      <4> QED BY <2>2, <2>5, <2>7, <4>1
    <3>2. f[data.address][length + 1 + 1].val = value
      BY <2>8 DEF HasText
    <3>3. length + 1 + 1 = length + 2
      BY <2>2
    <3> QED BY <2>7, <2>8, <3>1, <3>2, <3>3 DEF HasText
  <2>10. Fills(h, p, g, expanded, f)
    BY <2>5, <2>9 DEF Fills
  <2>11. HasString(f, p, StringOf(data, length + 1, Capacity(expanded)), k)
    BY <2>3, <2>4 DEF k
  <2>12. Settled(h, p, g, expanded, length + 1, k) /\ k[data.address] = f[data.address]
    BY <2>1, <2>2, <2>5, <2>10, <2>11, FilledSettles DEF h
  <2>13. /\ Sound(k) /\ OthersUntouched(h, p, k)
         /\ Cardinality(Free(k)) =
              Cardinality(Free(h)) - IF Buffer(h, p) = Null /\ Buffer(k, p) # Null THEN 1 ELSE 0
    <3>1. length + 1 \in Nat /\ p \in StringsIn(h)
      BY <2>2 DEF h
    <3> QED BY <2>1, <2>6, <2>12, <3>1, SoundAfter DEF string
  <2>14. Text(k, p) = Append(Text(h, p), value)
    <3> DEFINE x == Text(h, p)
               y == Text(k, p)
    <3>1. x \in Seq(Values) /\ Len(x) = length /\ \A i \in 1 .. length : x[i] = h[old.address][i + 1].val
      BY <2>1, <2>2, TextIsSequence DEF Text, string, length
    <3>2. ObjectAt(k, p) = StringOf(data, length + 1, Capacity(expanded)) /\ Sane(k)
      BY <2>12 DEF Settled
    <3>3. Data(ObjectAt(k, p)) = data /\ Length(ObjectAt(k, p)) = length + 1
      BY <3>2 DEF StringOf, Data, Length
    <3>4. y = [i \in 1 .. length + 1 |-> f[data.address][i + 1].val]
      BY <2>12, <3>3 DEF Text, TextOf
    <3>5. \A i \in 1 .. length : y[i] = x[i]
      <4> SUFFICES ASSUME NEW i \in 1 .. length PROVE y[i] = x[i]
        OBVIOUS
      <4>1. i \in 1 .. length + 1
        BY <2>2
      <4>2. y[i] = f[data.address][i + 1].val
        BY <3>4, <4>1
      <4> QED BY <2>7, <2>9, <3>1, <4>2
    <3>6. y[length + 1] = value
      <4>1. length + 1 \in 1 .. length + 1 /\ length + 1 + 1 = length + 2
        BY <2>2
      <4> QED BY <2>9, <3>4, <4>1
    <3>7. value \in Values
      BY <2>1 DEF Values
    <3> HIDE DEF x, y
    <3>8. y \in Seq(Values) /\ Len(y) = length + 1
      <4>1. \A i \in 1 .. length + 1 : y[i] \in Values
        <5> SUFFICES ASSUME NEW i \in 1 .. length + 1 PROVE y[i] \in Values
          OBVIOUS
        <5>1. CASE i = length + 1
          BY <3>6, <3>7, <5>1
        <5>2. CASE i # length + 1
          <6>1. i \in 1 .. length
            BY <2>2, <5>2
          <6> QED BY <3>1, <3>5, <6>1
        <5> QED BY <5>1, <5>2
      <4>2. y \in [1 .. length + 1 -> Values]
        BY <3>4, <4>1
      <4> QED BY <2>2, <4>2
    <3>9. y = Append(x, value)
      BY <3>1, <3>5, <3>6, <3>7, <3>8, OneMore
    <3> QED BY <3>9 DEF x, y
  <2>15. result.heap = k
    BY <2>3 DEF Done, Going, k
  <2> QED BY <2>13, <2>14, <2>15 DEF BecomesText, h
<1> QED BY <1>1, LibraryInvariance, PTL
\* A buffer, when characters of another, or the same, have been copied to it.
HasCells(h, data, at, src, count, f) ==
  /\ Sane(f) /\ IsIntArray(f, data) /\ Cell(f, data) = Cell(h, data)
  /\ \A a \in Addresses \ {data.address} : f[a] = h[a]
  /\ at + count <= Cell(h, data).val
  /\ \A j \in 1 .. at : f[data.address][j + 1] = h[data.address][j + 1]
  /\ \A j \in 1 .. count : f[data.address][at + j + 1] = h[src.address][j + 1]

LEMMA CellsAreCopied ==
  ASSUME NEW h, Sane(h), NEW data, NEW src, IsIntArray(h, data), IsIntArray(h, src),
         NEW at \in Nat, NEW count \in Nat, NEW f, Copies(h, data, at, src, 0, count, f),
         data # src \/ at \notin 1 .. count - 1
  PROVE  HasCells(h, data, at, src, count, f)
<1> DEFINE old  == h[data.address]
           new  == f[data.address]
           from == h[src.address]
<1>1. /\ data \in Pointer /\ data # Null /\ data.index = 1 /\ Cell(h, data) = old[1] /\ IsLive(h, data)
      /\ Cell(h, data).type = ArrayType /\ Cell(h, data).val \in Numbers \ {0} /\ Len(old) = 1 + Cell(h, data).val
  BY IntArrayFacts
<1>2. PICK n \in Nat \ {0} : n = Cell(h, data).val /\ Len(old) = 1 + n
  BY <1>1, IntFacts
<1>3. old[2].type = IntType /\ from[2].type = IntType
  <2>1. src \in Pointer /\ src.index = 1
    BY IntArrayFacts
  <2>2. Cell(h, Moved(data, 1)) = old[2] /\ Cell(h, Moved(src, 1)) = from[2]
    BY <1>1, <2>1 DEF Cell, Moved, Pointer
  <2> QED BY <2>2 DEF IsIntArray, ItemFailure, ElementType
<1>4. ObjectSize(old[2].type) = 1
  BY <1>3, IntFacts
<1> DEFINE s == ObjectSize(old[2].type)
<1>5. /\ at + count <= Cell(h, data).val /\ Sane(f)
      /\ \A a \in Addresses \ {data.address} : f[a] = h[a]
      /\ Len(new) = Len(old)
      /\ \A k \in 1 .. Len(old) : k \notin s * at + 2 .. s * (at + count) + 1 => new[k] = old[k]
      /\ data # src \/ at - 0 \notin 1 .. count - 1 =>
           \A k \in 0 .. s * count - 1 : new[s * at + 2 + k] = from[s * 0 + 2 + k]
  BY DEF Copies
<1> HIDE DEF old, new, from
<1>6. s = 1 /\ s * at = at /\ s * (at + count) = at + count /\ s * count = count /\ s * 0 = 0 /\ at - 0 = at
  BY <1>4
<1> HIDE DEF s
<1>7. \A k \in 1 .. 1 + n : k \notin at + 2 .. at + count + 1 => new[k] = old[k]
  BY <1>2, <1>5, <1>6
<1>8. \A k \in 0 .. count - 1 : new[at + 2 + k] = from[0 + 2 + k]
  BY <1>5, <1>6
<1>9. \A j \in 1 .. count : new[at + j + 1] = from[j + 1]
  <2> SUFFICES ASSUME NEW j \in 1 .. count PROVE new[at + j + 1] = from[j + 1]
    OBVIOUS
  <2>1. j - 1 \in 0 .. count - 1 /\ at + 2 + (j - 1) = at + j + 1 /\ 0 + 2 + (j - 1) = j + 1
    OBVIOUS
  <2>2. new[at + 2 + (j - 1)] = from[0 + 2 + (j - 1)]
    BY <1>8, <2>1
  <2> QED BY <2>1, <2>2
<1>10. at + count <= n
  BY <1>2, <1>5
<1>11. \A j \in 1 .. at : new[j + 1] = old[j + 1]
  <2> SUFFICES ASSUME NEW j \in 1 .. at PROVE new[j + 1] = old[j + 1]
    OBVIOUS
  <2>1. j + 1 \in 1 .. 1 + n /\ j + 1 \notin at + 2 .. at + count + 1
    BY <1>10
  <2> QED BY <1>7, <2>1
<1>12. new[1] = old[1]
  <2>1. 1 \in 1 .. 1 + n /\ 1 \notin at + 2 .. at + count + 1
    OBVIOUS
  <2> QED BY <1>7, <2>1
<1>13. new[2].type = IntType
  <2>1. CASE 2 \in at + 2 .. at + count + 1
    <3>1. at = 0 /\ 1 \in 1 .. count /\ at + 1 + 1 = 2 /\ 1 + 1 = 2
      BY <2>1
    <3>2. new[at + 1 + 1] = from[1 + 1]
      BY <1>9, <3>1
    <3> QED BY <1>3, <3>1, <3>2 DEF from
  <2>2. CASE 2 \notin at + 2 .. at + count + 1
    <3>1. 2 \in 1 .. 1 + n
      OBVIOUS
    <3>2. new[2] = old[2]
      BY <1>7, <2>2, <3>1
    <3> QED BY <1>3, <3>2 DEF old
  <2> QED BY <2>1, <2>2
<1>14. IsIntArray(f, data) /\ Cell(f, data) = Cell(h, data)
  <2>1. Cell(f, data) = new[1] /\ Cell(f, Moved(data, 1)) = new[2]
    BY <1>1 DEF Cell, Moved, Pointer, new
  <2>2. IsLive(f, data)
    BY <1>1, <1>2, <1>5 DEF IsLive, new
  <2>3. Cell(f, data) = Cell(h, data)
    BY <1>1, <1>12, <2>1 DEF old
  <2> QED BY <1>1, <1>13, <2>1, <2>2, <2>3 DEF IsIntArray, ItemFailure, ElementType
<1> QED BY <1>5, <1>9, <1>11, <1>14 DEF HasCells, old, new, from

\* A string keeps its fields when another is written.
LEMMA OtherStays ==
  ASSUME NEW h, Sane(h), NEW p \in StringsIn(h), NEW q \in StringsIn(h), p # q,
         NEW new, NEW k, HasString(h, p, new, k)
  PROVE  ObjectAt(k, q) = ObjectAt(h, q)
<1>1. /\ p \in Pointer /\ IsLive(h, p) /\ Cell(h, p).type = String32
      /\ q \in Pointer /\ IsLive(h, q) /\ Cell(h, q).type = String32
  BY StringsFound
<1>2. /\ Sane(k) /\ \A a \in Addresses \ {p.address} : k[a] = h[a]
      /\ \A a \in Addresses : Len(k[a]) = Len(h[a]) /\ DOMAIN k[a] = DOMAIN h[a]
      /\ \A j \in DOMAIN h[p.address] : j \notin p.index .. p.index + 3 => k[p.address][j] = h[p.address][j]
      /\ \A a \in Addresses : \A j \in DOMAIN h[a] : k[a][j].type = h[a][j].type
  BY DEF HasString
<1>3. q.address \in Addresses /\ q.index \in DOMAIN h[q.address] /\ Cell(h, q) = h[q.address][q.index]
  BY <1>1, PlaceFacts
<1>4. CASE q.address # p.address
  BY <1>2, <1>3, <1>4 DEF ObjectAt, Cell
<1>5. CASE q.address = p.address
  <2>1. IsLive(k, q) /\ Cell(k, q).type = String32
    BY <1>1, <1>2, <1>3 DEF IsLive, Cell
  <2>2. /\ IsString32(ObjectAt(h, q)) /\ q.index + 3 <= Len(h[q.address])
        /\ q.index \in Nat \ {0} /\ Len(h[q.address]) \in Nat
        /\ \A j \in 1 .. 4 : ObjectAt(h, q)[j] = h[q.address][q.index + (j - 1)]
    BY <1>1, StringFound
  <2>3. /\ IsString32(ObjectAt(k, q))
        /\ \A j \in 1 .. 4 : ObjectAt(k, q)[j] = k[q.address][q.index + (j - 1)]
    BY <1>1, <1>2, <2>1, StringFound
  <2>4. \A j \in 1 .. 4 : q.index + (j - 1) \notin p.index .. p.index + 3
    BY <1>1, <1>5, StringsApart
  <2>5. ASSUME NEW j \in 1 .. 4
        PROVE  ObjectAt(k, q)[j] = ObjectAt(h, q)[j]
    <3>1. DOMAIN h[q.address] = 1 .. Len(h[q.address])
      BY <1>3 DEF Sane
    <3>2. PICK i \in Nat \ {0}, n \in Nat : i = q.index /\ n = Len(h[q.address])
      BY <2>2
    <3>3. i + 3 <= n
      BY <2>2, <3>2
    <3>4. i + (j - 1) \in 1 .. n
      BY <2>5, <3>3
    <3>5. q.index + (j - 1) \in DOMAIN h[q.address]
      BY <3>1, <3>2, <3>4
    <3>6. PICK c \in Int : c = q.index + (j - 1)
      BY <2>2
    <3>7. c \in DOMAIN h[p.address] /\ c \notin p.index .. p.index + 3
      BY <1>5, <2>4, <3>5, <3>6
    <3>8. k[p.address][c] = h[p.address][c]
      BY <1>2, <3>7
    <3>9. ObjectAt(k, q)[j] = k[p.address][c] /\ ObjectAt(h, q)[j] = h[p.address][c]
      BY <1>5, <2>2, <2>3, <3>6
    <3> QED BY <3>8, <3>9
  <2>6. PICK x \in Seq(Cells), y \in Seq(Cells) : x = ObjectAt(k, q) /\ y = ObjectAt(h, q)
    BY <2>2, <2>3 DEF IsString32, IsWholeObject
  <2>7. Len(x) = 4 /\ Len(y) = 4
    BY <2>2, <2>3, <2>6, StringFields
  <2>8. x = y
    BY <2>5, <2>6, <2>7
  <2> QED BY <2>6, <2>8
<1> QED BY <1>4, <1>5

\* The values of cells in a row, and those of others.
LEMMA Joined ==
  ASSUME NEW S, NEW x \in Seq(S), NEW z \in Seq(S), NEW y \in Seq(S), Len(y) = Len(x) + Len(z),
         \A i \in 1 .. Len(x) : y[i] = x[i], \A j \in 1 .. Len(z) : y[Len(x) + j] = z[j]
  PROVE  y = x \o z
OBVIOUS
\* The heap when concat has put the new buffer in place: the characters that it keeps
\* and those that it copies are where they are looked for.
Prepared(h, p, q, expanded, now) ==
  LET data   == Data(expanded)
      from   == Data(ObjectAt(now, q))
      string == ObjectAt(h, p)
      other  == ObjectAt(h, q)
  IN  /\ Sane(now) /\ IsLive(now, q) /\ data.address # p.address
      /\ IsIntArray(now, data) /\ Cell(now, data).val = Capacity(expanded)
      /\ data # from \/ Length(string) = Length(other)
      /\ \A j \in 1 .. Length(string) : now[data.address][j + 1] = h[Data(string).address][j + 1]
      /\ from # Null =>
           /\ IsIntArray(now, from) /\ Length(other) <= Cell(now, from).val
           /\ \A j \in 1 .. Length(other) : now[from.address][j + 1] = h[Data(other).address][j + 1]

LEMMA Prepares ==
  ASSUME NEW h, Sane(h), Sound(h), NEW p \in StringsIn(h), NEW q \in StringsIn(h),
         NEW n \in Nat, n >= Length(ObjectAt(h, p)), NEW g, NEW expanded,
         Buffered(h, ObjectAt(h, p), n, g, expanded), Data(expanded) # Null,
         g[p.address] = h[p.address], g[q.address] = h[q.address], NEW now, HasString(g, p, expanded, now)
  PROVE  Prepared(h, p, q, expanded, now)
<1> DEFINE string == ObjectAt(h, p)
           length == Length(string)
           old    == Data(string)
           other  == ObjectAt(h, q)
           count  == Length(other)
           data   == Data(expanded)
           from   == Data(ObjectAt(now, q))
<1>1. /\ p \in Pointer /\ IsLive(h, p) /\ Cell(h, p).type = String32
      /\ p.address \in Addresses /\ HoldsString(h, p.address) /\ length \in Nat
  BY StringGiven
<1>2. /\ q \in Pointer /\ IsLive(h, q) /\ Cell(h, q).type = String32
      /\ q.address \in Addresses /\ IsString32(other) /\ IsString(h, other) /\ count \in Nat
  BY StringGiven
<1>3. /\ Sane(g) /\ IsIntArray(g, data) /\ Cell(g, data).val = Capacity(expanded)
      /\ data = old \/ data.address \in Free(h)
      /\ n <= Capacity(expanded) /\ IsString32(expanded)
      /\ \A j \in 1 .. length : g[data.address][j + 1] = h[old.address][j + 1]
      /\ \A a \in Addresses \ Free(h) : First(a) # old => g[a] = h[a]
  BY DEF Buffered
<1>4. /\ Sane(now) /\ ObjectAt(now, p) = expanded
      /\ \A a \in Addresses \ {p.address} : now[a] = g[a]
      /\ \A a \in Addresses : Len(now[a]) = Len(g[a])
  BY DEF HasString
<1> HIDE DEF string, length, other, count
<1>5. data.address # p.address /\ data.address \in Addresses
  <2>1. ~HoldsString(g, data.address) /\ data.address \in Addresses
    BY <1>3, IntArrayFacts
  <2>2. HoldsString(g, p.address)
    BY <1>1 DEF HoldsString
  <2> QED BY <2>1, <2>2
<1>6. now[data.address] = g[data.address]
  BY <1>4, <1>5
<1>7. IsIntArray(now, data) /\ Cell(now, data).val = Capacity(expanded)
  BY <1>3, <1>6, ArrayStays
<1>8. IsLive(now, q)
  BY <1>2, <1>4 DEF IsLive
<1>9. CASE q = p
  <2>1. from = data /\ other = string /\ count = length
    BY <1>4, <1>9 DEF other, string, count, length
  <2>2. count <= Cell(now, from).val
    <3>1. Capacity(expanded) \in Nat
      BY <1>3, StringFields, IntFacts
    <3> QED BY <1>1, <1>3, <1>7, <2>1, <3>1 DEF length, string
  <2> QED BY <1>3, <1>4, <1>5, <1>6, <1>7, <1>8, <2>1, <2>2 DEF Prepared, string, length, other, count
<1>10. CASE q # p
  <2>1. ObjectAt(now, q) = other
    <3>1. ASSUME NEW r \in {p, q}
          PROVE  r \in StringsIn(g) /\ ObjectAt(g, r) = ObjectAt(h, r)
      <4>1. g[r.address] = h[r.address] /\ r \in Pointer /\ IsLive(h, r) /\ Cell(h, r).type = String32
        BY <1>1, <1>2
      <4>2. IsLive(g, r) /\ Cell(g, r).type = String32 /\ ObjectAt(g, r) = ObjectAt(h, r)
        BY <4>1 DEF IsLive, Cell, ObjectAt
      <4> QED BY <1>3, <4>1, <4>2, StringsFound
    <3>2. ObjectAt(now, q) = ObjectAt(g, q)
      BY <1>3, <1>10, <3>1, OtherStays
    <3> QED BY <3>1, <3>2 DEF other
  <2>2. CASE from = Null
    <3>1. data # from
      BY <2>2
    <3> QED BY <1>3, <1>4, <1>5, <1>6, <1>7, <1>8, <2>2, <3>1 DEF Prepared, string, length, other, count
  <2>3. CASE from # Null
    <3>1. from = Data(other)
      BY <2>1
    <3>2. /\ IsIntArray(h, from) /\ Cell(h, from).val = Capacity(other) /\ count <= Capacity(other)
          /\ from.address \in Addresses /\ from = First(from.address)
          /\ ~HoldsString(h, from.address) /\ from.address \notin Free(h)
      BY <1>2, <2>3, <3>1, SoundString DEF count
    <3>3. from # old
      BY <1>10, <2>3, <3>1 DEF Sound, string, other
    <3>4. now[from.address] = h[from.address]
      BY <1>1, <1>3, <1>4, <3>2, <3>3
    <3>5. data # from
      BY <1>3, <3>2, <3>3
    <3>6. IsIntArray(now, from) /\ Cell(now, from) = Cell(h, from)
      BY <3>2, <3>4, ArrayStays
    <3> HIDE DEF from
    <3> QED BY <1>3, <1>4, <1>5, <1>6, <1>7, <1>8, <3>1, <3>2, <3>4, <3>5, <3>6
            DEF Prepared, string, length, other, count, from
  <2> QED BY <2>2, <2>3
<1> QED BY <1>9, <1>10

\* concat appends, as ConcatJoins states it.
THEOREM ConcatJoining == Spec => []ConcatJoins
<1>1. LibraryInv => ConcatJoins
  <2> SUFFICES ASSUME LibraryInv, Disciplined, NEW p \in StringsIn(heap), NEW q \in StringsIn(heap),
                      NEW result \in Concat(heap, p, q), GoesOn(result)
               PROVE  BecomesText(heap, p, result, Text(heap, p) \o Text(heap, q))
    BY DEF ConcatJoins, BecomesText
  <2> DEFINE h        == heap
             string   == ObjectAt(h, p)
             length   == Length(string)
             old      == Data(string)
             other    == ObjectAt(h, q)
             count    == Length(other)
  <2>1. Sane(h) /\ Sound(h)
    BY DEF LibraryInv, Inv, Disciplined
  <2>2. /\ p \in Pointer /\ IsLive(h, p) /\ Cell(h, p).type = String32
        /\ p.address \in Addresses /\ HoldsString(h, p.address)
        /\ IsString32(string) /\ IsString(h, string)
        /\ length \in Nat /\ Capacity(string) \in Nat /\ length <= Capacity(string)
        /\ Capacity(string) < MaxCells /\ MaxCells \in Nat
    BY <2>1, StringGiven
  <2>3. /\ q \in Pointer /\ IsLive(h, q) /\ Cell(h, q).type = String32
        /\ q.address \in Addresses /\ HoldsString(h, q.address)
        /\ IsString32(other) /\ IsString(h, other)
        /\ count \in Nat /\ Capacity(other) \in Nat /\ count <= Capacity(other)
        /\ Capacity(other) < MaxCells
    BY <2>1, StringGiven
  <2>4. PICK expanded, g, now, f, new :
          /\ Concats(h, p, q, expanded, g, now, f)
          /\ new = StringOf(Data(expanded), (length + count) % WordSize, Capacity(expanded))
          /\ IsLive(f, p) /\ HasString(f, p, new, Written(f, p, new))
          /\ result = Done(Written(f, p, new))
    <3>1. \A code \in ConcatCodes : ~GoesOn(Failed(code))
      BY DEF ConcatCodes, ExpandCodes, SetCodes, GoesOn, Failed
    <3>2. ~ \E code \in ConcatCodes : result = Failed(code)
      BY <3>1
    <3> QED BY ONLY <2>1, <2>2, <2>3, <3>2, ConcatResult, result \in Concat(heap, p, q)
  <2> DEFINE k    == Written(f, p, new)
             data == Data(expanded)
             src  == Data(ObjectAt(now, q))
             n    == length + count
  <2> HIDE DEF h, string, length, other, count, k
  <2>5. (length + count) % WordSize = n
    <3>1. WordSize \in Nat /\ n < WordSize /\ n \in Nat
      BY <2>2, <2>3, MemoryAssumption
    <3> QED BY <2>2, <3>1
  <2>6. /\ Expands(h, string, n, g, expanded) /\ IsString32(expanded)
        /\ n <= Capacity(expanded)
        /\ g[p.address] = h[p.address] /\ g[q.address] = h[q.address]
        /\ HasString(g, p, expanded, now)
        /\ IsIntArray(now, data) /\ IsIntArray(now, src)
        /\ Copies(now, data, length, src, 0, count, f)
        /\ f[p.address] = now[p.address]
    BY <2>4, <2>5 DEF Concats, string, length, other, count, h
  <2> HIDE DEF n
  <2>7. n \in Nat /\ n = length + count
    BY <2>2, <2>3 DEF n
  <2>8. Buffered(h, string, n, g, expanded)
    BY <2>1, <2>2, <2>6, <2>7, ExpandBuffers
  <2>9. /\ Sane(now) /\ \A a \in Addresses \ {p.address} : now[a] = g[a]
        /\ \A a \in Addresses : Len(now[a]) = Len(g[a]) /\ DOMAIN now[a] = DOMAIN g[a]
        /\ \A j \in DOMAIN g[p.address] :
             now[p.address][j] = IF j \in p.index .. p.index + 3 THEN expanded[j - p.index + 1] ELSE g[p.address][j]
        /\ \A a \in Addresses : \A j \in DOMAIN g[a] : now[a][j].type = g[a][j].type
    BY <2>6 DEF HasString
  <2>10. data # Null /\ src # Null
    BY <2>6, <2>9, IntArrayFacts
  <2>11. Prepared(h, p, q, expanded, now)
    <3>1. n >= Length(ObjectAt(h, p)) /\ p \in StringsIn(h) /\ q \in StringsIn(h)
      BY <2>2, <2>3, <2>7 DEF length, string, h
    <3> QED BY <2>1, <2>6, <2>7, <2>8, <2>10, <3>1, Prepares DEF string
  <2>12. /\ Cell(now, data).val = Capacity(expanded) /\ data.address # p.address
         /\ data # src \/ length = count
         /\ \A j \in 1 .. length : now[data.address][j + 1] = h[old.address][j + 1]
         /\ \A j \in 1 .. count : now[src.address][j + 1] = h[Data(other).address][j + 1]
    BY <2>10, <2>11 DEF Prepared, string, length, other, count
  <2>13. HasCells(now, data, length, src, count, f)
    <3>1. data # src \/ length \notin 1 .. count - 1
      BY <2>2, <2>12
    <3> QED BY <2>2, <2>3, <2>6, <2>9, <3>1, CellsAreCopied
  <2>14. /\ Sane(f) /\ IsIntArray(f, data) /\ Cell(f, data).val = Capacity(expanded)
         /\ \A a \in Addresses : a # data.address => f[a] = now[a]
         /\ \A j \in 1 .. length : f[data.address][j + 1] = h[old.address][j + 1]
         /\ \A j \in 1 .. count : f[data.address][length + j + 1] = h[Data(other).address][j + 1]
    BY <2>12, <2>13 DEF HasCells
  <2>15. Fills(h, p, g, expanded, f)
    BY <2>2, <2>6, <2>9, <2>14 DEF Fills
  <2>16. HasString(f, p, StringOf(data, n, Capacity(expanded)), k)
    BY <2>4, <2>5 DEF k
  <2>17. Settled(h, p, g, expanded, n, k) /\ k[data.address] = f[data.address]
    BY <2>1, <2>6, <2>7, <2>15, <2>16, FilledSettles DEF h
  <2>18. /\ Sound(k) /\ OthersUntouched(h, p, k)
         /\ Cardinality(Free(k)) =
              Cardinality(Free(h)) - IF Buffer(h, p) = Null /\ Buffer(k, p) # Null THEN 1 ELSE 0
    <3>1. p \in StringsIn(h)
      BY DEF h
    <3> QED BY <2>1, <2>7, <2>8, <2>17, <3>1, SoundAfter DEF string
  <2>19. Text(k, p) = Text(h, p) \o Text(h, q)
    <3> DEFINE x == Text(h, p)
               z == Text(h, q)
               y == Text(k, p)
    <3>1. x \in Seq(Values) /\ Len(x) = length /\ \A i \in 1 .. length : x[i] = h[old.address][i + 1].val
      BY <2>1, <2>2, TextIsSequence DEF Text, string, length
    <3>2. z \in Seq(Values) /\ Len(z) = count /\ \A i \in 1 .. count : z[i] = h[Data(other).address][i + 1].val
      BY <2>1, <2>3, TextIsSequence DEF Text, other, count
    <3>3. ObjectAt(k, p) = StringOf(data, n, Capacity(expanded)) /\ Sane(k)
      BY <2>17 DEF Settled
    <3>4. Data(ObjectAt(k, p)) = data /\ Length(ObjectAt(k, p)) = n
      BY <3>3 DEF StringOf, Data, Length
    <3>5. y = [i \in 1 .. n |-> f[data.address][i + 1].val]
      BY <2>17, <3>4 DEF Text, TextOf
    <3> HIDE DEF x, y, z
    <3>6. \A i \in 1 .. length : y[i] = x[i]
      <4> SUFFICES ASSUME NEW i \in 1 .. length PROVE y[i] = x[i]
        OBVIOUS
      <4>1. i \in 1 .. n
        BY <2>2, <2>3, <2>7
      <4>2. y[i] = f[data.address][i + 1].val
        BY <3>5, <4>1
      <4> QED BY <2>14, <3>1, <4>2
    <3>7. \A j \in 1 .. count : y[length + j] = z[j]
      <4> SUFFICES ASSUME NEW j \in 1 .. count PROVE y[length + j] = z[j]
        OBVIOUS
      <4>1. length + j \in 1 .. n
        BY <2>2, <2>3, <2>7
      <4>2. y[length + j] = f[data.address][length + j + 1].val
        BY <3>5, <4>1
      <4> QED BY <2>14, <3>2, <4>2
    <3>8. y \in Seq(Values) /\ Len(y) = n
      <4>1. \A i \in 1 .. n : y[i] \in Values
        <5> SUFFICES ASSUME NEW i \in 1 .. n PROVE y[i] \in Values
          OBVIOUS
        <5>1. CASE i <= length
          <6>1. i \in 1 .. length
            BY <5>1
          <6> QED BY <3>1, <3>6, <6>1
        <5>2. CASE ~(i <= length)
          <6>1. i - length \in 1 .. count /\ length + (i - length) = i
            BY <2>2, <2>3, <2>7, <5>2
          <6>2. y[length + (i - length)] = z[i - length] /\ z[i - length] \in Values
            BY <3>2, <3>7, <6>1
          <6> QED BY <6>1, <6>2
        <5> QED BY <5>1, <5>2
      <4>2. y \in [1 .. n -> Values]
        BY <3>5, <4>1
      <4> QED BY <2>7, <4>2
    <3>9. y = x \o z
      <4>1. x \in Seq(Values) /\ z \in Seq(Values) /\ y \in Seq(Values) /\ Len(y) = Len(x) + Len(z)
        BY <2>7, <3>1, <3>2, <3>8
      <4>2. /\ \A i \in 1 .. Len(x) : y[i] = x[i]
            /\ \A j \in 1 .. Len(z) : y[Len(x) + j] = z[j]
        BY <3>1, <3>2, <3>6, <3>7
      <4> QED BY ONLY <4>1, <4>2, Joined
    <3> QED BY <3>9 DEF x, y, z
  <2>20. result.heap = k
    BY <2>4 DEF Done, Going, k
  <2> QED BY <2>18, <2>19, <2>20 DEF BecomesText, h
<1> QED BY <1>1, LibraryInvariance, PTL
-----------------------------------------------------------------------------
(* What a call on sound strings fails with *)

\* Expand32 of a sound string ends, and fails only to allocate.
ExpandsSound(h, string, required, result) ==
  \/ result.code = "null"
  \/ \E g, expanded :
       /\ result = Going(g, expanded) /\ Expands(h, string, required, g, expanded)
       /\ Buffered(h, string, required, g, expanded)

LEMMA SoundExpand ==
  ASSUME NEW h, Sane(h), NEW string, IsString32(string), IsString(h, string),
         NEW required \in Nat, required < 2 * MaxCells, NEW result \in Expand32(h, string, required)
  PROVE  ExpandsSound(h, string, required, result)
<1> DEFINE data     == Data(string)
           capacity == Grown(Capacity(string), required)
           buffer   == NewArray(IntType, capacity)
           expanded == {Going(Replaced(h, a, Copied(h, buffer, data), data),
                              StringOf(First(a), Length(string), capacity)) : a \in Allocatable(h, buffer)}
<1>1. /\ Capacity(string) \in Numbers /\ Capacity(string) \in Nat
      /\ data # Null => ItemFailure(h, data) = "running"
  BY StringFields, IntFacts, SoundString DEF IsIntArray
<1>2. result.code \in {"running", "null"}
  <2>1. CASE required <= Capacity(string)
    BY <2>1 DEF Expand32, Suffices, Going
  <2>2. CASE ~(required <= Capacity(string))
    <3>1. required > Capacity(string)
      BY <1>1, <2>2
    <3>2. capacity \in Nat \ {0} /\ 1 + capacity < WordSize
      <4>1. WordSize \in Nat /\ MaxCells \in Nat /\ WordSize >= 4 * MaxCells /\ WordSize > 2 * MaxCells
        BY MemoryAssumption, LibraryAssumption
      <4>2. CASE Capacity(string) = 0
        <5>1. capacity = required
          BY <4>2 DEF Grown
        <5> HIDE DEF capacity
        <5> QED BY <1>1, <3>1, <4>1, <4>2, <5>1
      <4>3. CASE Capacity(string) # 0
        <5>1. Capacity(string) \in Numbers \ {0} /\ 2 * required <= WordSize
          BY <1>1, <4>1, <4>3
        <5>2. capacity \in required .. 2 * required - 2
          BY <3>1, <5>1, GrownBounded
        <5> HIDE DEF capacity
        <5> QED BY <1>1, <3>1, <4>1, <5>1, <5>2
      <4> QED BY <4>2, <4>3
    <3>3. ArraySize(IntType, capacity) < WordSize
      <4> HIDE DEF capacity
      <4>1. ArraySize(IntType, capacity) = 1 + capacity
        BY <3>2, IntFacts DEF ArraySize
      <4> QED BY <3>2, <4>1
    <3>4. result \in ASSERT(capacity # 0, "hangs",
                     ASSERT(ArraySize(IntType, capacity) < WordSize, "wrapped",
                     ASSERT(Allocatable(h, buffer) # {}, "null",
                       IF data = Null THEN expanded ELSE Items(h, data, expanded))))
      BY <2>2 DEF Expand32, Suffices
    <3>5. \A r \in expanded : r.code = "running"
      BY DEF Going
    <3> HIDE DEF expanded, capacity, data, buffer
    <3>6. result = Failed("null") \/ result \in (IF data = Null THEN expanded ELSE Items(h, data, expanded))
      BY <3>2, <3>3, <3>4 DEF ASSERT
    <3>7. result = Failed("null") \/ result \in expanded
      BY <1>1, <3>6 DEF Items, ASSERT, data
    <3> QED BY <3>5, <3>7 DEF Failed
  <2> QED BY <2>1, <2>2
<1>3. CASE result.code = "running"
  <2>1. \A code \in ExpandCodes : result # Failed(code)
    BY <1>3 DEF ExpandCodes, Failed
  <2>2. PICK g, e : result = Going(g, e) /\ Expands(h, string, required, g, e)
    BY <2>1, ExpandResult
  <2>3. Buffered(h, string, required, g, e)
    BY <2>2, ExpandBuffers
  <2> QED BY <2>2, <2>3 DEF ExpandsSound
<1> QED BY <1>2, <1>3 DEF ExpandsSound

\* SetInt stays in an array that is long enough.
LEMMA SetIntsOn ==
  ASSUME NEW h, Sane(h), NEW string, IsIntArray(h, Data(string)), NEW at \in Nat, NEW text \in Seq(Numbers),
         at + Len(text) <= Cell(h, Data(string)).val, NEW result \in SetInts(h, string, at, text)
  PROVE  GoesOn(result)
<1> DEFINE data  == Data(string)
           first == Moved(data, at + 1)
           ints  == [i \in DOMAIN text |-> [type |-> IntType, val |-> text[i]]]
<1>1. CASE text = <<>>
  BY <1>1 DEF SetInts, Going, GoesOn
<1>2. CASE text # <<>>
  <2>1. result \in Items(h, data, ASSERT(Fits(h, first, Len(text)), "overrun", {Going(Written(h, first, ints), string)}))
    BY <1>2 DEF SetInts
  <2>2. /\ data \in Pointer /\ data.index = 1 /\ Cell(h, data).val \in Nat
        /\ Len(h[data.address]) = 1 + Cell(h, data).val
    BY IntArrayFacts, IntFacts
  <2>3. first.index = 2 + at /\ first.address = data.address
    BY <2>2 DEF Moved, Pointer
  <2>4. Fits(h, first, Len(text))
    <3>1. PICK n \in Nat, m \in Nat : n = Cell(h, data).val /\ m = Len(text)
      BY <2>2
    <3>2. 2 + at + m - 1 <= 1 + n
      BY <3>1
    <3> QED BY <2>2, <2>3, <3>1, <3>2 DEF Fits
  <2>5. ItemFailure(h, data) = "running"
    BY DEF IsIntArray
  <2> HIDE DEF first, ints, data
  <2> QED BY <2>1, <2>4, <2>5 DEF Items, ASSERT, Going, GoesOn
<1> QED BY <1>1, <1>2

LEMMA SoundPush ==
  ASSUME NEW h, Sane(h), Sound(h), NEW p \in StringsIn(h), NEW value \in Numbers,
         NEW result \in Push(h, p, value)
  PROVE  result.code \in {"running", "null"}
<1> DEFINE string    == ObjectAt(h, p)
           length    == Length(string)
           required  == (length + 1) % WordSize
           sets(e)   == SetInts(e.heap, e.string, length, <<value>>)
           expansion == Expand32(h, string, required)
<1>1. /\ IsString32(string) /\ IsString(h, string) /\ length \in Nat
      /\ Capacity(string) \in Nat /\ length <= Capacity(string)
      /\ Capacity(string) < MaxCells /\ MaxCells \in Nat
  BY StringGiven
<1>2. PICK set \in Then(expansion, sets) :
        IF GoesOn(set) THEN result \in SetLength(set.heap, p, set.string, required) ELSE result = set
  BY DEF Push, Then
<1>3. PICK expand \in expansion : IF GoesOn(expand) THEN set \in sets(expand) ELSE set = expand
  BY <1>2 DEF Then
<1>4. \A r : GoesOn(r) <=> r.code = "running"
  BY DEF GoesOn
<1>5. GoesOn(set) => result.code = "running"
  BY <1>2 DEF SetLength, Done, Going
<1> HIDE DEF string, length
<1>6. required = length + 1 /\ required \in Nat /\ required < 2 * MaxCells
  <2>1. WordSize \in Nat /\ length + 1 \in Nat /\ length + 1 < WordSize /\ length + 1 < 2 * MaxCells
    BY <1>1, MemoryAssumption
  <2> QED BY <2>1
<1> HIDE DEF required, expansion
<1>7. ExpandsSound(h, string, required, expand)
  BY <1>1, <1>6, SoundExpand DEF expansion
<1>8. CASE expand.code = "null"
  BY <1>2, <1>3, <1>4, <1>8
<1>9. CASE expand.code # "null"
  <2>1. PICK g, expanded : /\ expand = Going(g, expanded) /\ Expands(h, string, required, g, expanded)
                           /\ Buffered(h, string, required, g, expanded)
    BY <1>7, <1>9 DEF ExpandsSound
  <2> DEFINE data == Data(expanded)
  <2>2. set \in SetInts(g, expanded, length, <<value>>)
    BY <1>3, <2>1 DEF GoesOn, Going
  <2>3. IsString32(expanded) /\ required <= Capacity(expanded)
    BY <2>1 DEF Buffered
  <2>4. data # Null
    <3>1. data = Null => Capacity(expanded) = 0
      BY <2>1 DEF Buffered, EmptyString, StringOf, Capacity
    <3> QED BY <1>1, <1>6, <2>3, <3>1
  <2>5. Sane(g) /\ IsIntArray(g, data) /\ Cell(g, data).val = Capacity(expanded)
    BY <2>1, <2>4 DEF Buffered
  <2>6. <<value>> \in Seq(Numbers) /\ Len(<<value>>) = 1
    OBVIOUS
  <2>7. length + Len(<<value>>) <= Cell(g, data).val
    BY <1>6, <2>3, <2>5, <2>6
  <2>8. GoesOn(set)
    BY ONLY <1>1, <2>2, <2>5, <2>6, <2>7, SetIntsOn
  <2> QED BY <1>5, <2>8
<1> QED BY <1>8, <1>9

LEMMA SoundConcat ==
  ASSUME NEW h, Sane(h), Sound(h), NEW p \in StringsIn(h), NEW q \in StringsIn(h),
         NEW result \in Concat(h, p, q)
  PROVE  result.code \in {"running", "null"}
<1> DEFINE string    == ObjectAt(h, p)
           length    == Length(string)
           other     == ObjectAt(h, q)
           count     == Length(other)
           required  == (length + count) % WordSize
           expansion == Expand32(h, string, required)
           now(e)    == Written(e.heap, p, e.string)
           src(e)    == Data(ObjectAt(now(e), q))
           set(e)    == UNION {IF GoesOn(r) THEN SetLength(r.heap, p, e.string, required) ELSE {r} :
                          r \in CopyObjectUnsafe(now(e), ElementAt(now(e), Data(e.string), length),
                                                 ElementAt(now(e), src(e), 0), count)}
           copy(e)   == Items(now(e), Data(e.string), ASSERT(IsLive(now(e), q), "freed", Items(now(e), src(e), set(e))))
<1>1. /\ p \in Pointer /\ IsLive(h, p) /\ Cell(h, p).type = String32
      /\ IsString32(string) /\ IsString(h, string) /\ length \in Nat
      /\ Capacity(string) \in Nat /\ length <= Capacity(string)
      /\ Capacity(string) < MaxCells /\ MaxCells \in Nat
  BY StringGiven
<1>2. /\ q \in Pointer /\ IsLive(h, q) /\ Cell(h, q).type = String32
      /\ count \in Nat /\ Capacity(other) \in Nat /\ count <= Capacity(other)
      /\ Capacity(other) < MaxCells
  BY StringGiven
<1>3. PICK expand \in expansion : IF GoesOn(expand) THEN result \in copy(expand) ELSE result = expand
  BY DEF Concat, Then
<1> HIDE DEF string, length, other, count
<1>4. required = length + count /\ required \in Nat /\ required < 2 * MaxCells
  <2>1. WordSize \in Nat /\ length + count \in Nat /\ length + count < WordSize /\ length + count < 2 * MaxCells
    BY <1>1, <1>2, MemoryAssumption
  <2> QED BY <2>1
<1> HIDE DEF required, expansion
<1>5. ExpandsSound(h, string, required, expand)
  BY <1>1, <1>4, SoundExpand DEF expansion
<1>6. CASE expand.code = "null"
  BY <1>3, <1>6 DEF GoesOn
<1>7. CASE expand.code # "null"
  <2>1. PICK g, expanded : /\ expand = Going(g, expanded) /\ Expands(h, string, required, g, expanded)
                           /\ Buffered(h, string, required, g, expanded)
    BY <1>5, <1>7 DEF ExpandsSound
  <2> DEFINE m    == Written(g, p, expanded)
             data == Data(expanded)
             from == Data(ObjectAt(m, q))
             sets == set(expand)
  <2>2. now(expand) = m /\ src(expand) = from /\ expand.string = expanded /\ GoesOn(expand)
    BY <2>1 DEF GoesOn, Going
  <2>3. result \in Items(m, data, ASSERT(IsLive(m, q), "freed", Items(m, from, sets)))
    BY <1>3, <2>2
  <2>4. sets = UNION {IF GoesOn(r) THEN SetLength(r.heap, p, expanded, required) ELSE {r} :
                        r \in CopyObjectUnsafe(m, ElementAt(m, data, length), ElementAt(m, from, 0), count)}
    BY <2>2
  <2> HIDE DEF now, src, set, copy, sets, m, data, from
  <2>5. CASE data = Null
    BY <2>3, <2>5 DEF Items, ItemFailure, ASSERT, Failed
  <2>6. CASE data # Null
    <3>1. /\ Sane(g) /\ IsString32(expanded)
          /\ \A a \in Addresses : HoldsString(h, a) => g[a] = h[a]
      BY <1>1, <1>4, <2>1, ExpandKeeps
    <3>2. /\ g[p.address] = h[p.address] /\ IsLive(g, p) /\ Cell(g, p).type = String32
          /\ g[q.address] = h[q.address]
      BY <1>1, <1>2, <3>1, StringStays
    <3>3. HasString(g, p, expanded, m)
      BY <1>1, <3>1, <3>2, StringWritten DEF m
    <3>4. Prepared(h, p, q, expanded, m)
      <4>1. required >= Length(ObjectAt(h, p))
        BY <1>1, <1>2, <1>4 DEF length, string
      <4> QED BY <1>4, <2>1, <2>6, <3>2, <3>3, <4>1, Prepares DEF data, string
    <3>5. /\ Sane(m) /\ IsLive(m, q) /\ IsIntArray(m, data) /\ Cell(m, data).val = Capacity(expanded)
          /\ from # Null => IsIntArray(m, from) /\ count <= Cell(m, from).val
      BY <3>4 DEF Prepared, data, from, count, other
    <3>6. result \in Items(m, from, sets)
      BY <2>3, <3>5 DEF Items, ASSERT, IsIntArray
    <3>7. CASE from = Null
      BY <3>6, <3>7 DEF Items, ItemFailure, ASSERT, Failed
    <3>8. CASE from # Null
      <4>1. result \in sets
        BY <3>5, <3>6, <3>8 DEF Items, ASSERT, IsIntArray
      <4>2. PICK r \in CopyObjectUnsafe(m, ElementAt(m, data, length), ElementAt(m, from, 0), count) :
              IF GoesOn(r) THEN result \in SetLength(r.heap, p, expanded, required) ELSE result = r
        BY <2>4, <4>1
      <4>3. CopiesInts(m, data, length, from, 0, count, r)
        <5>1. IsIntArray(m, data) /\ IsIntArray(m, from) /\ 0 \in Nat /\ Sane(m)
          BY <3>5, <3>8
        <5> QED BY ONLY <1>1, <1>2, <4>2, <5>1, CopyInts
      <4>4. ~(0 >= Cell(m, from).val) /\ ~(length + count > Cell(m, data).val) /\ ~(0 + count > Cell(m, from).val)
        <5>1. Cell(m, from).val \in Nat /\ Cell(m, from).val # 0
          BY <3>5, <3>8, IntArrayFacts, IntFacts
        <5>2. Capacity(expanded) \in Nat /\ required <= Capacity(expanded)
          BY <2>1, <3>1, StringFields, IntFacts DEF Buffered
        <5> QED BY <1>2, <1>4, <3>5, <3>8, <5>1, <5>2
      <4>5. GoesOn(r)
        <5>1. \E f : r = Done(f)
          BY <4>3, <4>4 DEF CopiesInts
        <5> QED BY <5>1 DEF Done, Going, GoesOn
      <4> QED BY <4>2, <4>5 DEF SetLength, Done, Going
    <3> QED BY <3>7, <3>8
  <2> QED BY <2>5, <2>6
<1> QED BY <1>6, <1>7

LEMMA SoundText ==
  ASSUME NEW h, Sane(h), Sound(h), NEW p \in StringsIn(h), NEW result \in ConvertToCppString32(h, p)
  PROVE  GoesOn(result)
<1> DEFINE string == ObjectAt(h, p)
           data   == Data(string)
<1>1. IsString32(string) /\ IsString(h, string)
  BY StringGiven
<1>2. CASE Length(string) = 0
  BY <1>2 DEF ConvertToCppString32, Done, Going, GoesOn
<1>3. CASE Length(string) # 0
  <2>1. /\ Length(string) \in Nat /\ Capacity(string) \in Nat /\ Length(string) <= Capacity(string)
        /\ data # Null /\ IsIntArray(h, data) /\ Len(h[data.address]) = 1 + Capacity(string)
    BY <1>1, <1>3, SoundString
  <2>2. data \in Pointer /\ data.index = 1
    BY <2>1, IntArrayFacts
  <2>3. Moved(data, 1).index = 2 /\ Moved(data, 1).address = data.address
    BY <2>2 DEF Moved, Pointer
  <2>4. Fits(h, Moved(data, 1), Length(string))
    BY <2>1, <2>3 DEF Fits
  <2>5. ItemFailure(h, data) = "running"
    BY <2>1 DEF IsIntArray
  <2>7. Len(h[data.address]) <= MaxCells
    BY <2>1, <2>2 DEF Sane, Pointer, IsBlock
  <2>8. Length(string) \in 0 .. MaxCells
    BY <2>1, <2>7, MemoryAssumption
  <2>6. result \in Items(h, data, ASSERT(Fits(h, Moved(data, 1), Length(string)), "overrun", {Done(h)}))
    BY <1>3, <2>8 DEF ConvertToCppString32
  <2> HIDE DEF data
  <2> QED BY <2>4, <2>5, <2>6 DEF Items, ASSERT, Done, Going, GoesOn
<1> QED BY <1>2, <1>3

\* Calls on sound strings stay in their blocks, as StringsStayInBlocks states it.
THEOREM StringsStay == Spec => []StringsStayInBlocks
<1>1. LibraryInv => StringsStayInBlocks
  <2> SUFFICES ASSUME LibraryInv, Disciplined PROVE StringsStayInBlocks
    BY DEF StringsStayInBlocks
  <2>1. Sane(heap) /\ Sound(heap) /\ Chars \subseteq Numbers
    BY LibraryAssumption, MemoryAssumption DEF LibraryInv, Inv, Disciplined
  <2>2. \A p \in StringsIn(heap), value \in Chars : \A result \in Push(heap, p, value) :
          result.code \in {"running", "null"}
    BY <2>1, SoundPush
  <2>3. \A p, q \in StringsIn(heap) : \A result \in Concat(heap, p, q) : result.code \in {"running", "null"}
    BY <2>1, SoundConcat
  <2>4. \A p \in StringsIn(heap) : \A result \in ConvertToCppString32(heap, p) : GoesOn(result)
    BY <2>1, SoundText
  <2> QED BY <2>2, <2>3, <2>4 DEF StringsStayInBlocks
<1> QED BY <1>1, LibraryInvariance, PTL

=============================================================================
