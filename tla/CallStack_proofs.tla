--------------------------- MODULE CallStack_proofs ---------------------------
(***************************************************************************)
(* Proofs about CallStack, for every stack size, layout of types and set   *)
(* of functions, of executions in which swap and store exchange objects of *)
(* one size, which the code compares too little to ensure, and nothing is  *)
(* written through a pointer into the stack.  What calls pass is free.     *)
(***************************************************************************)
EXTENDS CallStack, FiniteSetTheorems, WellFoundedInduction, TLAPS

\* A nonempty set of naturals has a least element.
LEMMA LeastElement ==
  ASSUME NEW T, T \subseteq Nat, T # {}
  PROVE  \E x \in T : \A y \in T : x <= y
<1>1. PICK x \in T : \A y \in T : ~ (<<y, x>> \in OpToRel(<, Nat))
  BY NatLessThanWellFounded, WFMin
<1>2. \A y \in T : <<y, x>> \in Nat \X Nat
  BY <1>1
<1>3. \A y \in T : ~ (y < x)
  BY <1>1, <1>2 DEF OpToRel
<1>4. \A y \in T : x \in Nat /\ y \in Nat
  BY <1>1
<1> QED
  BY <1>3, <1>4

-----------------------------------------------------------------------------
(* Sizes and nesting *)

LEMMA SizeFacts ==
  /\ ObjectSize \in [Shapes -> Nat \ {0}]
  /\ \A c : SizeOf(c) \in Nat \ {0}
  /\ \A s \in Shapes : TypeSize[s] \in Nat /\ TypeSize[s] <= ObjectSize[s]
  /\ \A s \in Shapes : \A i \in 1 .. ObjectSize[s] : Layout[s][i] \in Shapes
<1>1. \A s \in Shapes : Len(Layout[s]) \in Nat /\ ObjectSize[s] = Len(Layout[s])
  BY LayoutAssumption DEF ObjectSize
<1>2. ObjectSize \in [Shapes -> Nat \ {0}]
  BY <1>1, LayoutAssumption DEF ObjectSize
<1>3. \A c : SizeOf(c) \in Nat \ {0}
  BY <1>2 DEF SizeOf, IsObject
<1>4. ASSUME NEW s \in Shapes PROVE TypeSize[s] \in Nat /\ TypeSize[s] <= ObjectSize[s]
  <2>1. CASE s \in Arrays
    BY <2>1, <1>2, LayoutAssumption DEF Shapes
  <2>2. CASE s \in Scalars \cup Structs
    BY <2>2, <1>2, LayoutAssumption DEF Shapes
  <2> QED BY <2>1, <2>2 DEF Shapes
<1>5. ASSUME NEW s \in Shapes, NEW i \in 1 .. ObjectSize[s] PROVE Layout[s][i] \in Shapes
  <2>1. Layout[s] \in Seq(Shapes)
    BY LayoutAssumption
  <2> QED BY <2>1, <1>1
<1> QED BY <1>2, <1>3, <1>4, <1>5

\* A sequence of cells, header first, none of whose objects runs past the end of
\* the sequence or of an object around it, and none of which is a saved frame
\* below the first cell.
BlockNested(block) ==
  \A i \in 1 .. Len(block) :
    /\ i - 1 + SizeOf(block[i]) <= Len(block)
    /\ \A j \in i + 1 .. i - 1 + SizeOf(block[i]) :
         /\ block[j].shape # NoneType
         /\ j - 1 + SizeOf(block[j]) <= i - 1 + SizeOf(block[i])

\* What lies below a point of the stack does not depend on what lies above it.
LEMMA NestedPrefix ==
  ASSUME NEW m, NEW w, NEW u \in Nat, NEW t \in Int, t <= u,
         NestedIn(m, u), \A o \in 1 .. t : w[o] = m[o]
  PROVE  NestedIn(w, t)
<1> SUFFICES ASSUME NEW o \in 1 .. t
             PROVE  /\ SizeOf(w[o]) <= o
                    /\ \A p \in o - SizeOf(w[o]) + 1 .. o - 1 :
                         w[p].shape # NoneType /\ o - SizeOf(w[o]) <= p - SizeOf(w[p])
  BY DEF NestedIn
<1>1. w[o] = m[o] /\ o \in 1 .. u /\ SizeOf(m[o]) <= o /\ SizeOf(m[o]) \in Nat
  BY SizeFacts DEF NestedIn
<1>2. \A p \in o - SizeOf(m[o]) + 1 .. o - 1 : w[p] = m[p]
  BY <1>1
<1> QED
  BY <1>1, <1>2 DEF NestedIn

\* Placing a nested block on top of a nested stack keeps it nested.
LEMMA NestedPlaced ==
  ASSUME NEW m, NEW u \in Nat, NEW t \in Nat, NEW block, NEW S, block \in Seq(S),
         t <= u, t + Len(block) <= StackSize,
         NestedIn(m, u), BlockNested(block)
  PROVE  NestedIn(Placed(m, block, t + Len(block)), t + Len(block))
<1> DEFINE n == Len(block)
           w == Placed(m, block, t + n)
<1>1. n \in Nat /\ StackSize \in Nat
  BY ProgramAssumption
<1>2. \A o \in 1 .. t : w[o] = m[o]
  BY <1>1 DEF Placed
<1>3. \A o \in t + 1 .. t + n : w[o] = block[t + n - o + 1]
  BY <1>1 DEF Placed
<1> HIDE DEF w
<1>4. NestedIn(w, t)
  BY <1>2, NestedPrefix, t \in Int
<1>5. ASSUME NEW o \in t + 1 .. t + n
      PROVE  /\ SizeOf(w[o]) <= o
             /\ \A p \in o - SizeOf(w[o]) + 1 .. o - 1 :
                  w[p].shape # NoneType /\ o - SizeOf(w[o]) <= p - SizeOf(w[p])
  <2> DEFINE i == t + n - o + 1
  <2>1. i \in 1 .. n /\ w[o] = block[i] /\ SizeOf(w[o]) \in Nat
    BY <1>1, <1>3, SizeFacts
  <2>2. i - 1 + SizeOf(block[i]) <= n
    BY <2>1 DEF BlockNested
  <2>3. o - SizeOf(w[o]) >= t
    BY <2>1, <2>2, <1>1
  <2>4. ASSUME NEW p \in o - SizeOf(w[o]) + 1 .. o - 1
        PROVE  w[p].shape # NoneType /\ o - SizeOf(w[o]) <= p - SizeOf(w[p])
    <3> DEFINE j == t + n - p + 1
    <3>1. p \in t + 1 .. t + n /\ w[p] = block[j] /\ SizeOf(w[p]) \in Nat
      BY <2>1, <2>3, <1>1, <1>3, SizeFacts
    <3>2. j \in i + 1 .. i - 1 + SizeOf(block[i])
      <4>1. PICK size : size = SizeOf(w[o]) /\ size = SizeOf(block[i])
        BY <2>1
      <4> QED BY <4>1, <2>1, <3>1, <1>1, SMTT(30)
    <3>3. /\ block[j].shape # NoneType
          /\ j - 1 + SizeOf(block[j]) <= i - 1 + SizeOf(block[i])
      BY <2>1, <3>2 DEF BlockNested
    <3>4. j - i = o - p /\ i \in Int /\ j \in Int
      BY <3>1, <1>1
    <3>5. SizeOf(w[o]) = SizeOf(block[i]) /\ SizeOf(w[p]) = SizeOf(block[j])
      BY <2>1, <3>1
    <3> HIDE DEF j, i
    <3> QED BY <3>1, <3>3, <3>4, <3>5, <2>1, <1>1, SMTT(30)
  <2> QED BY <2>1, <2>3, <2>4
<1>6. \A o \in 1 .. t + n : o \in 1 .. t \/ o \in t + 1 .. t + n
  BY <1>1
<1> QED
  BY <1>4, <1>5, <1>6 DEF NestedIn, w

\* Writing a nested block over an object of its length keeps the stack nested.
LEMMA NestedReplaced ==
  ASSUME NEW m, NEW w, NEW u \in Nat, NEW q \in 1 .. u, NEW block, NEW S, block \in Seq(S),
         NestedIn(m, u), BlockNested(block), Len(block) = SizeOf(m[q]),
         \A i \in 1 .. Len(block) : block[i].shape # NoneType,
         \A o \in 1 .. u : w[o] = IF o \in q - Len(block) + 1 .. q THEN block[q - o + 1] ELSE m[o]
  PROVE  NestedIn(w, u)
<1> DEFINE n == Len(block)
<1>1. n \in Nat \ {0} /\ n <= q
  BY SizeFacts DEF NestedIn
<1>2. ASSUME NEW o \in q - n + 1 .. q
      PROVE  o \in 1 .. u /\ q - o + 1 \in 1 .. n /\ w[o] = block[q - o + 1] /\ w[o].shape # NoneType
  BY <1>1
<1>3. ASSUME NEW o \in 1 .. u, o \notin q - n + 1 .. q
      PROVE  w[o] = m[o]
  BY <1>3
<1>4. ASSUME NEW o \in q - n + 1 .. q
      PROVE  /\ q - n <= o - SizeOf(w[o])
             /\ \A p \in o - SizeOf(w[o]) + 1 .. o - 1 : o - SizeOf(w[o]) <= p - SizeOf(w[p])
  <2> DEFINE i == q - o + 1
  <2>1. i \in 1 .. n /\ w[o] = block[i] /\ SizeOf(w[o]) \in Nat
    BY <1>2, SizeFacts
  <2>2. i - 1 + SizeOf(block[i]) <= n
    BY <2>1 DEF BlockNested
  <2>3. ASSUME NEW p \in o - SizeOf(w[o]) + 1 .. o - 1
        PROVE  o - SizeOf(w[o]) <= p - SizeOf(w[p])
    <3> DEFINE j == q - p + 1
    <3>0. SizeOf(w[p]) \in Nat
      BY SizeFacts
    <3>1. p \in q - n + 1 .. q /\ SizeOf(w[p]) \in Nat
      BY <1>1, <2>1, <2>2, <3>0
    <3>2. j \in i + 1 .. i - 1 + SizeOf(block[i]) /\ w[p] = block[j]
      BY <1>1, <1>2, <2>1, <3>1
    <3>3. j - 1 + SizeOf(block[j]) <= i - 1 + SizeOf(block[i])
      BY <2>1, <3>2 DEF BlockNested
    <3>4. j - i = o - p /\ i \in Int /\ j \in Int
      BY <3>1, <1>1
    <3>5. SizeOf(w[o]) = SizeOf(block[i]) /\ SizeOf(w[p]) = SizeOf(block[j])
      BY <2>1, <3>2
    <3> HIDE DEF i, j
    <3> QED BY <3>1, <3>3, <3>4, <3>5, <2>1, <1>1, SMTT(30)
  <2> QED BY <2>1, <2>2, <2>3, <1>1
<1> HIDE DEF n
<1> SUFFICES ASSUME NEW o \in 1 .. u
             PROVE  /\ SizeOf(w[o]) <= o
                    /\ \A p \in o - SizeOf(w[o]) + 1 .. o - 1 :
                         w[p].shape # NoneType /\ o - SizeOf(w[o]) <= p - SizeOf(w[p])
  BY DEF NestedIn
<1>5. SizeOf(w[o]) \in Nat
  BY SizeFacts
<1>6. CASE o \in q - n + 1 .. q
  BY <1>6, <1>1, <1>2, <1>4, <1>5
<1>7. CASE o \notin q - n + 1 .. q
  <2>1. w[o] = m[o] /\ SizeOf(m[o]) <= o
    BY <1>7, <1>3 DEF NestedIn
  <2>2. ASSUME NEW p \in o - SizeOf(w[o]) + 1 .. o - 1
        PROVE  w[p].shape # NoneType /\ o - SizeOf(w[o]) <= p - SizeOf(w[p])
    <3>1. /\ m[p].shape # NoneType
          /\ o - SizeOf(m[o]) <= p - SizeOf(m[p])
          /\ p \in 1 .. u
      BY <2>1, <1>5 DEF NestedIn
    <3>2. CASE p \notin q - n + 1 .. q
      BY <2>1, <3>1, <3>2, <1>3
    <3>3. CASE p \in q - n + 1 .. q
      <4>1. q \in o - SizeOf(m[o]) + 1 .. o - 1
        BY <3>3, <1>7, <1>1, <2>1, <1>5
      <4>2. o - SizeOf(m[o]) <= q - SizeOf(m[q])
        BY <4>1 DEF NestedIn
      <4>3. SizeOf(m[q]) = n /\ q - n <= p - SizeOf(w[p]) /\ SizeOf(w[p]) \in Nat
        BY <3>3, <1>4, SizeFacts DEF n
      <4> QED BY <4>2, <4>3, <2>1, <3>3, <1>1, <1>2, <1>5
    <3> QED BY <3>2, <3>3
  <2> QED BY <2>1, <2>2
<1> QED BY <1>6, <1>7

-----------------------------------------------------------------------------
(* The blocks that instructions place *)

\* What ObjectAt returns.
LEMMA ObjectBlock ==
  ASSUME mem \in [1 .. StackSize -> Cells], used \in 0 .. StackSize, NestedIn(mem, used),
         NEW o \in 1 .. used
  PROVE  /\ SizeOf(mem[o]) \in 1 .. o
         /\ ObjectAt(o) \in Seq(Cells)
         /\ Len(ObjectAt(o)) = SizeOf(mem[o])
         /\ \A i \in 1 .. SizeOf(mem[o]) : ObjectAt(o)[i] = mem[o - i + 1]
         /\ BlockNested(ObjectAt(o))
         /\ mem[o].shape # NoneType =>
              \A i \in 1 .. SizeOf(mem[o]) : ObjectAt(o)[i].shape # NoneType
<1> DEFINE n == SizeOf(mem[o])
<1>1. n \in 1 .. o /\ used \in Nat /\ StackSize \in Nat
  BY SizeFacts, ProgramAssumption DEF NestedIn
<1>2. ObjectAt(o) = [i \in 1 .. n |-> mem[o - i + 1]]
  BY DEF ObjectAt
<1>3. \A i \in 1 .. n : o - i + 1 \in 1 .. StackSize
  BY <1>1
<1>4. ObjectAt(o) \in Seq(Cells) /\ Len(ObjectAt(o)) = n
  BY <1>1, <1>2, <1>3
<1>5. \A p \in o - n + 1 .. o - 1 : mem[p].shape # NoneType /\ o - n <= p - SizeOf(mem[p])
  BY DEF NestedIn
<1> HIDE DEF n
<1>6. ASSUME NEW i \in 1 .. n
      PROVE  /\ i - 1 + SizeOf(mem[o - i + 1]) <= n
             /\ i > 1 => mem[o - i + 1].shape # NoneType
  <2> DEFINE p == o - i + 1
  <2>1. p \in Int /\ SizeOf(mem[p]) \in Nat
    BY <1>1, SizeFacts
  <2>2. CASE i = 1
    BY <2>2, <1>1 DEF n
  <2>3. CASE i > 1
    <3>1. p \in o - n + 1 .. o - 1
      BY <1>1, <2>3
    <3>2. mem[p].shape # NoneType /\ o - n <= p - SizeOf(mem[p])
      BY <3>1, <1>5
    <3> QED BY <3>2, <2>1, <1>1
  <2> QED BY <2>2, <2>3, <1>1
<1>7. ASSUME NEW i \in 1 .. n, NEW j \in i + 1 .. i - 1 + SizeOf(mem[o - i + 1])
      PROVE  /\ mem[o - j + 1].shape # NoneType
             /\ j - 1 + SizeOf(mem[o - j + 1]) <= i - 1 + SizeOf(mem[o - i + 1])
  <2> DEFINE p == o - i + 1
             k == o - j + 1
  <2>1. /\ p \in 1 .. used /\ SizeOf(mem[p]) \in Nat /\ SizeOf(mem[k]) \in Nat
        /\ k \in p - SizeOf(mem[p]) + 1 .. p - 1
    <3>1. SizeOf(mem[p]) \in Nat /\ SizeOf(mem[k]) \in Nat
      BY SizeFacts
    <3> QED BY <1>1, <3>1
  <2>2. mem[k].shape # NoneType /\ p - SizeOf(mem[p]) <= k - SizeOf(mem[k])
    BY <2>1 DEF NestedIn
  <2> QED BY <2>1, <2>2, <1>1
<1>8. BlockNested(ObjectAt(o))
  <2>1. ASSUME NEW i \in 1 .. n, NEW j \in i + 1 .. i - 1 + SizeOf(mem[o - i + 1])
        PROVE  j \in 1 .. n
    <3> DEFINE z == SizeOf(mem[o - i + 1])
    <3>1. z \in Nat
      BY SizeFacts
    <3>2. i - 1 + z <= n
      BY <1>6
    <3> HIDE DEF z
    <3>3. j \in i + 1 .. i - 1 + z
      BY DEF z
    <3> QED BY <1>1, <3>1, <3>2, <3>3
  <2> SUFFICES ASSUME NEW i \in 1 .. n
               PROVE  /\ i - 1 + SizeOf(ObjectAt(o)[i]) <= n
                      /\ \A j \in i + 1 .. i - 1 + SizeOf(ObjectAt(o)[i]) :
                           /\ ObjectAt(o)[j].shape # NoneType
                           /\ j - 1 + SizeOf(ObjectAt(o)[j]) <= i - 1 + SizeOf(ObjectAt(o)[i])
    BY <1>4 DEF BlockNested
  <2>2. ObjectAt(o)[i] = mem[o - i + 1]
    BY <1>2
  <2> QED BY <1>2, <1>6, <1>7, <2>1, <2>2
<1>9. mem[o].shape # NoneType => \A i \in 1 .. n : ObjectAt(o)[i].shape # NoneType
  BY <1>1, <1>2, <1>6, SMTT(30)
<1> QED BY <1>1, <1>2, <1>4, <1>8, <1>9 DEF n

LEMMA NewObjectBlock ==
  ASSUME NEW s \in Shapes, NEW value \in Values
  PROVE  /\ NewObject(s, value) \in Seq(Cells)
         /\ Len(NewObject(s, value)) = ObjectSize[s]
         /\ BlockNested(NewObject(s, value))
         /\ \A i \in 1 .. ObjectSize[s] : NewObject(s, value)[i].shape # NoneType
<1> DEFINE n == ObjectSize[s]
           cell(i) == [shape |-> Layout[s][i], val |-> value]
<1>1. /\ n \in Nat /\ n = Len(Layout[s]) /\ Layout[s] \in Seq(Shapes)
      /\ \A i \in 1 .. n : Layout[s][i] \in Shapes
  BY SizeFacts, LayoutAssumption DEF ObjectSize
<1>2. NewObject(s, value) = [i \in 1 .. n |-> cell(i)]
  BY DEF NewObject
<1>3. \A i \in 1 .. n : cell(i) \in Cells /\ cell(i).shape # NoneType
                         /\ SizeOf(cell(i)) = ObjectSize[Layout[s][i]]
  BY <1>1, ProgramAssumption DEF Cells, SizeOf, IsObject
<1>4. NewObject(s, value) \in Seq(Cells) /\ Len(NewObject(s, value)) = n
  <2>1. \A i \in 1 .. n : cell(i) \in Cells
    BY <1>3
  <2>2. n \in Nat
    BY <1>1
  <2> HIDE DEF n, cell
  <2> QED BY <1>2, <2>1, <2>2
<1>5. ASSUME NEW i \in 1 .. n
      PROVE  /\ i - 1 + ObjectSize[Layout[s][i]] <= n
             /\ \A j \in i + 1 .. i - 1 + ObjectSize[Layout[s][i]] :
                  j - 1 + ObjectSize[Layout[s][j]] <= i - 1 + ObjectSize[Layout[s][i]]
  <2> DEFINE field == Layout[s][i]
             size  == ObjectSize[field]
  <2>1. /\ field \in Shapes /\ size \in Nat
        /\ i - 1 + size <= n
        /\ \A k \in 1 .. size : Layout[s][i + k - 1] = Layout[field][k]
    BY <1>1, SizeFacts, LayoutAssumption
  <2>2. \A k \in 1 .. size : Layout[field][k] \in Shapes
    BY <2>1, SizeFacts
  <2>3. \A k \in 1 .. size : k - 1 + ObjectSize[Layout[field][k]] <= size
    BY <2>1, LayoutAssumption
  <2> HIDE DEF field, size
  <2>4. ASSUME NEW j \in i + 1 .. i - 1 + size
        PROVE  j - 1 + ObjectSize[Layout[s][j]] <= i - 1 + size
    <3> DEFINE k == j - i + 1
    <3>1. k \in 1 .. size /\ i + k - 1 = j
      BY <2>1
    <3>2. Layout[s][j] = Layout[field][k] /\ ObjectSize[Layout[field][k]] \in Nat
      BY <3>1, <2>1, <2>2, SizeFacts
    <3>3. k - 1 + ObjectSize[Layout[field][k]] <= size
      BY <3>1, <2>3
    <3> QED BY <3>1, <3>2, <3>3, <2>1
  <2> QED BY <2>1, <2>4 DEF size, field
<1>6. BlockNested(NewObject(s, value))
  <2> SUFFICES ASSUME NEW i \in 1 .. n
               PROVE  /\ i - 1 + SizeOf(NewObject(s, value)[i]) <= n
                      /\ \A j \in i + 1 .. i - 1 + SizeOf(NewObject(s, value)[i]) :
                           /\ NewObject(s, value)[j].shape # NoneType
                           /\ j - 1 + SizeOf(NewObject(s, value)[j])
                                <= i - 1 + SizeOf(NewObject(s, value)[i])
    BY <1>4 DEF BlockNested
  <2>1. ObjectSize[Layout[s][i]] \in Nat /\ n \in Nat
    BY <1>1, SizeFacts
  <2>2. \A j \in i + 1 .. i - 1 + ObjectSize[Layout[s][i]] : j \in 1 .. n
    BY <1>5, <2>1
  <2>3. \A j \in 1 .. n : /\ SizeOf(NewObject(s, value)[j]) = ObjectSize[Layout[s][j]]
                         /\ NewObject(s, value)[j].shape # NoneType
    BY <1>2, <1>3
  <2> HIDE DEF n
  <2> QED BY <1>5, <2>2, <2>3
<1> QED BY <1>2, <1>3, <1>4, <1>6

\* A single cell that is no object.
LEMMA CellBlock ==
  ASSUME NEW cell \in Cells, ~IsObject(cell)
  PROVE  /\ <<cell>> \in Seq(Cells) /\ Len(<<cell>>) = 1
         /\ BlockNested(<<cell>>)
  BY DEF BlockNested, SizeOf

LEMMA DuplicateBlock ==
  ASSUME NEW object \in Seq(Cells), Len(object) > 0, BlockNested(object),
         IsObject(object[1]), Len(object) = SizeOf(object[1]),
         \A i \in 1 .. Len(object) : object[i].shape # NoneType
  PROVE  /\ Duplicate(object) \in Seq(Cells)
         /\ Len(Duplicate(object)) = Len(object)
         /\ BlockNested(Duplicate(object))
         /\ \A i \in 1 .. Len(object) : Duplicate(object)[i].shape # NoneType
<1>1. CASE object[1].shape \notin Structs
  BY <1>1 DEF Duplicate
<1>2. CASE object[1].shape \in Structs
  <2> DEFINE n == Len(object)
             copy == Duplicate(object)
  <2>1. copy = [i \in 1 .. n |-> IF i = 1 THEN object[1] ELSE Raw] /\ n \in Nat
    BY <1>2 DEF Duplicate
  <2>2. Raw \in Cells /\ Raw.shape # NoneType /\ SizeOf(Raw) = 1
    BY ProgramAssumption DEF Cells, Raw, SizeOf, IsObject
  <2>3. copy \in Seq(Cells) /\ Len(copy) = n
    BY <2>1, <2>2
  <2>4. \A i \in 1 .. n : copy[i].shape # NoneType
    BY <2>1, <2>2
  <2>5. \A i \in 1 .. n : SizeOf(copy[i]) = IF i = 1 THEN n ELSE 1
    BY <2>1, <2>2
  <2> HIDE DEF copy, n
  <2>6. BlockNested(copy)
    <3> SUFFICES ASSUME NEW i \in 1 .. n
                 PROVE  /\ i - 1 + SizeOf(copy[i]) <= n
                        /\ \A j \in i + 1 .. i - 1 + SizeOf(copy[i]) :
                             /\ copy[j].shape # NoneType
                             /\ j - 1 + SizeOf(copy[j]) <= i - 1 + SizeOf(copy[i])
      BY <2>3 DEF BlockNested
    <3>1. n \in Nat
      BY <2>1
    <3>2. \A j \in i + 1 .. i - 1 + SizeOf(copy[i]) : i = 1 /\ j \in 2 .. n
      BY <2>5, <3>1
    <3> QED BY <2>4, <2>5, <3>1, <3>2
  <2> QED BY <2>3, <2>4, <2>6 DEF copy, n
<1> QED BY <1>1, <1>2

\* What tload finds is laid out like a new object, except for fields without headers.
LEMMA TargetBlock ==
  ASSUME NEW object \in Targets
  PROVE  /\ object \in Seq(Cells) /\ Len(object) \in Nat \ {0} /\ BlockNested(object)
         /\ IsObject(object[1]) /\ Len(object) = SizeOf(object[1])
         /\ \A i \in 1 .. Len(object) : object[i].shape # NoneType
<1>1. PICK s \in Shapes : object \in ObjectOf(s)
  BY TargetsAssumption
<1> DEFINE n == ObjectSize[s]
           new == NewObject(s, Zero)
<1>2. /\ object \in [1 .. n -> [shape : Shapes \cup {NoType}, val : Values]] /\ object[1].shape = s
      /\ \A i \in 1 .. n : object[i] = Raw \/ object[i].shape = Layout[s][i]
  BY <1>1 DEF ObjectOf
<1>3. n \in Nat \ {0} /\ \A i \in 1 .. n : Layout[s][i] \in Shapes
  BY SizeFacts
<1>4. /\ Len(new) = n /\ BlockNested(new)
      /\ \A i \in 1 .. n : new[i] = [shape |-> Layout[s][i], val |-> Zero]
  BY NewObjectBlock, ProgramAssumption DEF NewObject
<1>5. \A i \in 1 .. n : object[i].shape # NoneType /\ object[i] \in Cells
  <2> SUFFICES ASSUME NEW i \in 1 .. n PROVE object[i].shape # NoneType /\ object[i] \in Cells
    OBVIOUS
  <2>1. CASE object[i] = Raw
    BY <2>1, ProgramAssumption DEF Cells, Raw
  <2>2. CASE object[i].shape = Layout[s][i]
    BY <2>2, <1>2, <1>3, ProgramAssumption DEF Cells
  <2> QED BY <2>1, <2>2, <1>2
<1>6. \A i \in 1 .. n : \/ object[i] = Raw /\ SizeOf(object[i]) = 1
                       \/ SizeOf(object[i]) = SizeOf(new[i])
  <2>1. SizeOf(Raw) = 1
    BY ProgramAssumption DEF Raw, SizeOf, IsObject
  <2>2. ASSUME NEW i \in 1 .. n, object[i].shape = Layout[s][i] PROVE SizeOf(object[i]) = SizeOf(new[i])
    <3> HIDE DEF n, new
    <3>1. new[i] = [shape |-> Layout[s][i], val |-> Zero]
      BY <1>4
    <3>2. new[i].shape = object[i].shape
      BY <3>1, <2>2
    <3> QED BY <3>2 DEF SizeOf, IsObject
  <2>3. ASSUME NEW i \in 1 .. n, object[i] = Raw PROVE SizeOf(object[i]) = 1
    BY <2>1, <2>3
  <2> QED BY <2>2, <2>3, <1>2
<1>7. \A i \in 1 .. n : SizeOf(object[i]) <= SizeOf(new[i]) /\ SizeOf(new[i]) \in Nat \ {0}
  BY <1>6, SizeFacts
<1>8. object \in Seq(Cells) /\ Len(object) = n
  BY <1>2, <1>3, <1>5
<1>9. IsObject(object[1]) /\ SizeOf(object[1]) = n
  BY <1>2 DEF IsObject, SizeOf
<1> HIDE DEF n, new
<1>10. BlockNested(object)
  <2> SUFFICES ASSUME NEW i \in 1 .. n
               PROVE  /\ i - 1 + SizeOf(object[i]) <= n
                      /\ \A j \in i + 1 .. i - 1 + SizeOf(object[i]) :
                           /\ object[j].shape # NoneType
                           /\ j - 1 + SizeOf(object[j]) <= i - 1 + SizeOf(object[i])
    BY <1>8 DEF BlockNested
  <2>1. /\ i - 1 + SizeOf(new[i]) <= n
        /\ \A j \in i + 1 .. i - 1 + SizeOf(new[i]) : j - 1 + SizeOf(new[j]) <= i - 1 + SizeOf(new[i])
    BY <1>4 DEF BlockNested
  <2>2. SizeOf(object[i]) \in Nat /\ SizeOf(object[i]) <= SizeOf(new[i]) /\ SizeOf(new[i]) \in Nat
    BY <1>7, SizeFacts
  <2>3. CASE SizeOf(object[i]) = 1
    BY <2>1, <2>2, <2>3, <1>3
  <2>4. CASE SizeOf(object[i]) = SizeOf(new[i])
    <3> SUFFICES ASSUME NEW j \in i + 1 .. i - 1 + SizeOf(object[i])
                 PROVE  /\ object[j].shape # NoneType
                        /\ j - 1 + SizeOf(object[j]) <= i - 1 + SizeOf(object[i])
      BY <2>1, <2>4
    <3>1. j \in 1 .. n /\ j - 1 + SizeOf(new[j]) <= i - 1 + SizeOf(new[i])
      BY <2>1, <2>2, <2>4, <1>3
    <3>2. SizeOf(object[j]) <= SizeOf(new[j]) /\ SizeOf(object[j]) \in Nat /\ SizeOf(new[j]) \in Nat
      BY <3>1, <1>7, SizeFacts
    <3> QED BY <3>1, <3>2, <2>2, <2>4, <1>5
  <2> QED BY <2>3, <2>4, <1>6
<1> QED BY <1>3, <1>5, <1>8, <1>9, <1>10

\* A walk over objects crosses no saved frame.
LEMMA WalkCrossesNoFrame ==
  ASSUME mem \in [1 .. StackSize -> Cells], used \in 0 .. StackSize, NestedIn(mem, used),
         NEW base \in 0 .. used, NEW n \in Nat, NEW walk \in Walks(TypeSize, base, n)
  PROVE  /\ walk[n] \in 0 .. base
         /\ \A p \in walk[n] + 1 .. base : mem[p].shape # NoneType
<1>1. /\ walk \in [0 .. n -> 0 .. base] /\ walk[0] = base
      /\ \A j \in 1 .. n : /\ walk[j - 1] > 0 /\ IsObject(mem[walk[j - 1]])
                          /\ walk[j] = walk[j - 1] - TypeSize[mem[walk[j - 1]].shape]
  BY DEF Walks
<1>2. walk[n] \in 0 .. base
  BY <1>1
<1>3. ASSUME NEW p \in walk[n] + 1 .. base PROVE mem[p].shape # NoneType
  <2> DEFINE Passed == {j \in 0 .. n : walk[j] < p}
  <2>1. Passed \subseteq Nat /\ n \in Passed
    BY <1>2
  <2>2. PICK j \in Passed : \A i \in Passed : j <= i
    BY <2>1, LeastElement
  <2>3. j # 0 /\ j \in 0 .. n
    BY <2>2, <1>1
  <2>4. j - 1 \in 0 .. n /\ j - 1 \notin Passed /\ j \in 1 .. n
    BY <2>2, <2>3
  <2> DEFINE a == walk[j - 1]
  <2>5. a \in 1 .. used /\ a >= p /\ IsObject(mem[a]) /\ walk[j] = a - TypeSize[mem[a].shape]
    BY <2>4, <1>1
  <2>6. walk[j] < p
    BY <2>2
  <2> HIDE DEF a, Passed
  <2>7. TypeSize[mem[a].shape] <= SizeOf(mem[a]) /\ TypeSize[mem[a].shape] \in Nat /\ SizeOf(mem[a]) \in Nat
    BY <2>5, SizeFacts DEF SizeOf, IsObject
  <2>8. CASE p = a
    BY <2>8, <2>5, ProgramAssumption DEF IsObject
  <2>9. CASE p # a
    <3>1. p \in a - SizeOf(mem[a]) + 1 .. a - 1
      BY <2>5, <2>6, <2>7, <2>9
    <3> QED BY <3>1, <2>5 DEF NestedIn
  <2> QED BY <2>8, <2>9
<1> QED BY <1>2, <1>3

-----------------------------------------------------------------------------
(* Steps *)

\* What an instruction other than call and ret leaves of the saved frames.
KeepsFrames ==
  /\ SavedFrames' = SavedFrames
  /\ \A o \in SavedFrames : mem'[o] = mem[o]

\* The part of TypeOK about the stack.
StackOK ==
  /\ mem \in [1 .. StackSize -> Cells]
  /\ used \in 0 .. StackSize
  /\ \A o \in 1 .. StackSize : o > used => mem[o] = Raw

\* The inductive invariant.
Inv == TypeOK /\ ObjectsNested /\ FrameChain

LEMMA PlacedTyped ==
  ASSUME NEW m \in [1 .. StackSize -> Cells], NEW t \in Nat, NEW block \in Seq(Cells),
         t + Len(block) <= StackSize
  PROVE  /\ Placed(m, block, t + Len(block)) \in [1 .. StackSize -> Cells]
         /\ \A o \in 1 .. StackSize :
              o > t + Len(block) => Placed(m, block, t + Len(block))[o] = Raw
<1>1. Raw \in Cells
  BY DEF Cells
<1>2. \A o \in 1 .. StackSize : o <= t + Len(block) /\ o > t
                                => block[t + Len(block) - o + 1] \in Cells
  BY ProgramAssumption
<1> QED
  BY <1>1, <1>2 DEF Placed

\* A nested block without saved frames replaces cells without saved frames on
\* top of the stack.
LEMMA BlockPlaced ==
  ASSUME StackOK, ObjectsNested, NEW t \in Nat, t <= used,
         NEW block \in Seq(Cells), BlockNested(block), t + Len(block) <= StackSize,
         \A i \in 1 .. Len(block) : block[i].shape # NoneType,
         \A o \in t + 1 .. used : mem[o].shape # NoneType,
         mem' = Placed(mem, block, t + Len(block)), used' = t + Len(block)
  PROVE  StackOK' /\ ObjectsNested' /\ KeepsFrames
<1>1. used \in Nat /\ StackSize \in Nat /\ Len(block) \in Nat /\ used <= StackSize
  BY ProgramAssumption DEF StackOK
<1>2. StackOK'
  <2>1. mem \in [1 .. StackSize -> Cells]
    BY DEF StackOK
  <2>2. /\ mem' \in [1 .. StackSize -> Cells]
        /\ \A o \in 1 .. StackSize : o > used' => mem'[o] = Raw
    BY <2>1, PlacedTyped
  <2>3. used' \in 0 .. StackSize
    BY <1>1
  <2> QED BY <2>2, <2>3 DEF StackOK
<1>3. ObjectsNested'
  BY NestedPlaced, <1>1 DEF ObjectsNested
<1>4. \A o \in 1 .. t : mem'[o] = mem[o]
  BY <1>1 DEF Placed
<1>5. \A o \in t + 1 .. t + Len(block) : mem'[o].shape # NoneType
  BY <1>1 DEF Placed
<1>6. \A o \in SavedFrames : o \in 1 .. t
  BY <1>1 DEF SavedFrames
<1>7. \A o \in SavedFrames' : o \in 1 .. t
  BY <1>1, <1>5 DEF SavedFrames
<1>8. \A o \in 1 .. t : o \in SavedFrames' <=> o \in SavedFrames
  BY <1>1, <1>4 DEF SavedFrames
<1> QED
  BY <1>2, <1>3, <1>4, <1>6, <1>7, <1>8 DEF KeepsFrames

\* The top of the stack is lowered.
LEMMA TopReduced ==
  ASSUME StackOK, ObjectsNested, NEW t \in Nat, t <= used,
         \A o \in t + 1 .. used : mem[o].shape # NoneType,
         mem' = Trimmed(mem, t), used' = t
  PROVE  StackOK' /\ ObjectsNested' /\ KeepsFrames
<1>1. <<>> \in Seq(Cells) /\ Len(<<>>) = 0 /\ BlockNested(<<>>)
  BY DEF BlockNested
<1>2. t + Len(<<>>) = t /\ t <= StackSize
  BY ProgramAssumption DEF StackOK
<1>3. /\ mem' = Placed(mem, <<>>, t + Len(<<>>)) /\ used' = t + Len(<<>>)
      /\ t + Len(<<>>) <= StackSize
      /\ \A i \in 1 .. Len(<<>>) : <<>>[i].shape # NoneType
  BY <1>1, <1>2 DEF Trimmed
<1> QED
  BY BlockPlaced, <1>1, <1>3

\* An object on top of the stack holds no saved frame.
LEMMA TopObject ==
  ASSUME StackOK, ObjectsNested, used > 0, IsObject(mem[used])
  PROVE  /\ SizeOf(mem[used]) = ObjectSize[mem[used].shape]
         /\ SizeOf(mem[used]) \in 1 .. used
         /\ used - SizeOf(mem[used]) \in Nat
         /\ \A o \in used - SizeOf(mem[used]) + 1 .. used : mem[o].shape # NoneType
<1>1. used \in 1 .. used /\ used \in Nat
  BY DEF StackOK
<1>2. SizeOf(mem[used]) \in 1 .. used
  BY <1>1, SizeFacts DEF ObjectsNested, NestedIn
<1>3. mem[used].shape # NoneType
  BY ProgramAssumption DEF IsObject
<1>4. \A o \in used - SizeOf(mem[used]) + 1 .. used - 1 : mem[o].shape # NoneType
  BY <1>1 DEF ObjectsNested, NestedIn
<1>5. \A o \in used - SizeOf(mem[used]) + 1 .. used : o = used \/ o \in used - SizeOf(mem[used]) + 1 .. used - 1
  BY <1>1, <1>2
<1> QED
  BY <1>1, <1>2, <1>3, <1>4, <1>5 DEF SizeOf

\* Who keeps the saved frames and its own keeps the chain.
LEMMA ChainKept ==
  ASSUME FrameChain, KeepsFrames, depth' = depth,
         frame'.StackBegin = frame.StackBegin, frame'.Function = frame.Function
  PROVE  FrameChain'
<1>1. \A f \in ActiveFrames' : \E e \in ActiveFrames : f.StackBegin = e.StackBegin /\ f.Function = e.Function
  BY DEF ActiveFrames, KeepsFrames
<1>2. \A f \in ActiveFrames' : f.StackBegin = 0 <=> f.Function = Entrypoint
  BY <1>1 DEF FrameChain
<1>3. IsNewest(frame.StackBegin, SavedFrames)'
  BY DEF FrameChain, KeepsFrames, IsNewest
<1>4. \A o \in SavedFrames' : IsNewest(mem'[o].val.StackBegin, {p \in SavedFrames' : p < o})
  BY DEF FrameChain, KeepsFrames
<1>5. depth' = Cardinality(SavedFrames')
  BY DEF FrameChain, KeepsFrames
<1> QED
  BY <1>2, <1>3, <1>4, <1>5 DEF FrameChain, IsNewest

\* The exception raised by an instruction is typed, and nothing else of the
\* stack changes.
LEMMA OccurKeeps ==
  ASSUME Inv, NEW function \in Callables \cup {Entrypoint}, NEW index \in Int,
         NEW code \in ExceptionCodes, Occur(function, index, code), locals' \in Seq(1 .. StackSize)
  PROVE  Inv'
<1>1. TypeOK'
  BY DEF Inv, TypeOK, Occur, InterpreterException
<1>2. ObjectsNested'
  BY DEF Inv, ObjectsNested, Occur
<1>3. KeepsFrames
  BY DEF Occur, KeepsFrames, SavedFrames
<1>4. FrameChain'
  BY <1>3, ChainKept DEF Inv, Occur
<1> QED BY <1>1, <1>2, <1>4 DEF Inv

LEMMA OccurExceptionKeeps ==
  ASSUME Inv, NEW code \in ExceptionCodes, OccurException(code)
  PROVE  Inv'
<1>1. frame.Function \in Callables \cup {Entrypoint} /\ frame.Caller \in Int
  BY DEF Inv, TypeOK, StackFrame
<1>2. locals' \in Seq(1 .. StackSize)
  BY DEF Inv, TypeOK, OccurException
<1> QED BY <1>1, <1>2, OccurKeeps DEF OccurException

LEMMA CrashKeeps ==
  ASSUME Inv, Crash
  PROVE  Inv'
<1>1. KeepsFrames
  BY DEF Crash, KeepsFrames, SavedFrames
<1>2. FrameChain'
  BY <1>1, ChainKept DEF Inv, Crash
<1> QED BY <1>2 DEF Inv, Crash, TypeOK, ObjectsNested

\* An instruction that moves objects and goes to another instruction.
LEMMA MoveKeeps ==
  ASSUME Inv, StackOK', ObjectsNested', KeepsFrames,
         NEW index \in Int, frame' = [frame EXCEPT !.Caller = index],
         UNCHANGED <<depth, exception, status>>, locals' \in Seq(1 .. StackSize)
  PROVE  Inv'
<1>1. frame' \in StackFrame /\ frame'.StackBegin = frame.StackBegin /\ frame'.Function = frame.Function
  BY DEF Inv, TypeOK, StackFrame
<1>2. FrameChain'
  BY <1>1, ChainKept DEF Inv
<1>3. TypeOK'
  BY <1>1 DEF Inv, TypeOK, StackOK
<1> QED BY <1>2, <1>3 DEF Inv

LEMMA AdvanceKeeps ==
  ASSUME Inv, StackOK', ObjectsNested', KeepsFrames, Advance, locals' \in Seq(1 .. StackSize)
  PROVE  Inv'
<1>1. frame.Caller + 1 \in Int
  BY DEF Inv, TypeOK, StackFrame
<1> QED BY <1>1, MoveKeeps DEF Advance

-----------------------------------------------------------------------------
(* The inductive invariant: one lemma per action *)

LEMMA InitInv == Init => Inv
<1> SUFFICES ASSUME Init PROVE Inv
  OBVIOUS
<1>1. StackSize \in Nat /\ Raw \in Cells /\ Entrypoint \notin Callables /\ Raw.shape = NoType
  BY ProgramAssumption DEF Cells, Raw
<1>2. TypeOK
  <2>1. frame \in StackFrame /\ exception \in InterpreterException
    BY <1>1 DEF Init, StackFrame, InterpreterException, NoException, ExceptionCodes
  <2> QED BY <1>1, <2>1 DEF Init, TypeOK
<1>3. ObjectsNested
  BY DEF Init, ObjectsNested, NestedIn
<1>4. SavedFrames = {}
  BY DEF Init, SavedFrames
<1>5. FrameChain
  BY <1>4, FS_EmptySet DEF Init, FrameChain, ActiveFrames, IsNewest
<1> QED BY <1>2, <1>3, <1>5 DEF Inv

LEMMA InvStack == Inv => StackOK /\ ObjectsNested /\ locals \in Seq(1 .. StackSize) /\ StackSize \in Nat
                         /\ used \in Nat
  BY ProgramAssumption DEF Inv, TypeOK, StackOK

\* push, null, new, gcnull, gcnew and lea.
LEMMA PushAnyInv ==
  ASSUME Inv, NEW shapes \in SUBSET Shapes, PushAny(shapes)
  PROVE  Inv'
<1>1. PICK s \in shapes :
        IF used + ObjectSize[s] > StackSize
          THEN OccurException("STACK_OVERFLOW")
          ELSE /\ \E value \in Values : PushObject(NewObject(s, value))
               /\ Advance
               /\ UNCHANGED locals
  BY DEF PushAny
<1>2. CASE used + ObjectSize[s] > StackSize
  BY <1>1, <1>2, OccurExceptionKeeps DEF ExceptionCodes
<1>3. CASE ~(used + ObjectSize[s] > StackSize)
  <2>1. PICK value \in Values : PushObject(NewObject(s, value))
    BY <1>1, <1>3
  <2> DEFINE block == NewObject(s, value)
  <2>2. s \in Shapes
    OBVIOUS
  <2>3. /\ block \in Seq(Cells) /\ BlockNested(block) /\ Len(block) \in Nat
        /\ \A i \in 1 .. Len(block) : block[i].shape # NoneType
    BY <2>2, NewObjectBlock
  <2> HIDE DEF block
  <2>4. /\ mem' = Placed(mem, block, used + Len(block)) /\ used' = used + Len(block)
        /\ used + Len(block) <= StackSize
    BY <2>1 DEF PushObject, block
  <2>5. \A o \in used + 1 .. used : mem[o].shape # NoneType
    BY InvStack
  <2>6. StackOK /\ ObjectsNested /\ used \in Nat /\ used <= used
    BY InvStack
  <2>7. StackOK' /\ ObjectsNested' /\ KeepsFrames
    BY <2>3, <2>4, <2>5, <2>6, BlockPlaced
  <2> QED BY <1>1, <1>3, <2>7, AdvanceKeeps, InvStack
<1> QED BY <1>2, <1>3

LEMMA PushInv == Inv /\ InterpretPush => Inv'
<1>1. Numbers \cup Structs \in SUBSET Shapes
  BY ProgramAssumption DEF Shapes
<1> QED BY <1>1, PushAnyInv DEF InterpretPush

\* apush and tload: an object takes the place of the scalar on top.
LEMMA ReplaceTopInv ==
  ASSUME Inv, ~IsNull(used), mem[used].shape \in Scalars,
         NEW block \in Seq(Cells), BlockNested(block), \A i \in 1 .. Len(block) : block[i].shape # NoneType,
         ReplaceTop(block)
  PROVE  Inv'
<1>1. CASE used - 1 + Len(block) > StackSize
  BY <1>1, OccurExceptionKeeps DEF ReplaceTop, ExceptionCodes
<1>2. CASE ~(used - 1 + Len(block) > StackSize)
  <2>1. /\ used' = used - 1 + Len(block) /\ mem' = Placed(mem, block, used - 1 + Len(block))
        /\ used - 1 + Len(block) <= StackSize /\ Advance /\ UNCHANGED locals
    BY <1>2, InvStack DEF ReplaceTop
  <2>2. used - 1 \in Nat /\ used - 1 <= used
    BY InvStack DEF IsNull
  <2>3. mem[used].shape # NoneType
    BY ProgramAssumption DEF Shapes
  <2>4. \A o \in used - 1 + 1 .. used : mem[o].shape # NoneType
    BY <2>3, InvStack
  <2>5. StackOK' /\ ObjectsNested' /\ KeepsFrames
    BY <2>1, <2>2, <2>4, InvStack, BlockPlaced
  <2> QED BY <2>1, <2>5, AdvanceKeeps, InvStack
<1> QED BY <1>1, <1>2

LEMMA APushInv == Inv /\ InterpretAPush => Inv'
<1> SUFFICES ASSUME Inv, InterpretAPush, ~ \E code \in ExceptionCodes : OccurException(code), ~Crash PROVE Inv'
  BY OccurExceptionKeeps, CrashKeeps
<1>1. PICK s \in Arrays :
        ~IsNull(used) /\ mem[used].shape \in Numbers /\ ReplaceTop(NewObject(s, Zero))
  BY DEF InterpretAPush, CountOnTop, ExceptionCodes
<1> DEFINE block == NewObject(s, Zero)
<1>2. s \in Shapes /\ Zero \in Values /\ mem[used].shape \in Scalars
  BY <1>1, ProgramAssumption DEF Shapes
<1>3. /\ block \in Seq(Cells) /\ BlockNested(block) /\ Len(block) = ObjectSize[s]
      /\ \A i \in 1 .. Len(block) : block[i].shape # NoneType
  BY <1>2, NewObjectBlock
<1>4. ReplaceTop(block)
  BY <1>1
<1> HIDE DEF block
<1> QED BY <1>1, <1>2, <1>3, <1>4, ReplaceTopInv

LEMMA PopInv == Inv /\ InterpretPop => Inv'
<1> SUFFICES ASSUME Inv, InterpretPop PROVE Inv'
  OBVIOUS
<1>1. locals' \in Seq(1 .. StackSize)
  <2>1. locals # <<>> => SubSeq(locals, 1, Len(locals) - 1) \in Seq(1 .. StackSize)
    BY InvStack
  <2> QED BY <2>1, InvStack DEF InterpretPop, IsLocalVariable
<1>2. CASE IsNull(used) \/ ~IsObject(mem[used])
  <2>1. Occur(frame.Function, frame.Caller, "STACK_EMPTY")
    BY <1>2 DEF InterpretPop
  <2>2. frame.Function \in Callables \cup {Entrypoint} /\ frame.Caller \in Int
    BY DEF Inv, TypeOK, StackFrame
  <2>3. "STACK_EMPTY" \in ExceptionCodes
    BY DEF ExceptionCodes
  <2> QED BY <1>1, <2>1, <2>2, <2>3, OccurKeeps
<1>3. CASE ~(IsNull(used) \/ ~IsObject(mem[used]))
  <2>1. used > 0 /\ IsObject(mem[used])
    BY <1>3, InvStack DEF IsNull
  <2>2. Reduce(SizeOf(mem[used])) /\ Advance
    BY <1>3 DEF InterpretPop, SizeOf
  <2>3. StackOK' /\ ObjectsNested' /\ KeepsFrames
    BY <2>1, <2>2, TopObject, TopReduced, InvStack DEF Reduce
  <2> QED BY <1>1, <2>2, <2>3, AdvanceKeeps
<1> QED BY <1>2, <1>3

\* The index of a local variable is a natural number.
LEMMA LocalIndexTyped ==
  ASSUME Inv, NEW operand \in Operands
  PROVE  LocalIndex(operand) \in Nat
<1>1. operand \in Nat /\ WordSize \in Nat \ {0} /\ frame.VariableBegin \in Nat
  BY ProgramAssumption DEF Inv, TypeOK, StackFrame
<1> QED BY <1>1 DEF LocalIndex

LEMMA LoadInv == \A operand \in Operands : Inv /\ InterpretLoad(operand) => Inv'
<1> SUFFICES ASSUME NEW operand \in Operands, Inv, InterpretLoad(operand),
                    ~ \E code \in ExceptionCodes : OccurException(code), ~Crash
             PROVE  Inv'
  BY OccurExceptionKeeps, CrashKeeps
<1> DEFINE offset == locals[LocalIndex(operand) + 1]
<1>1. /\ ~(LocalIndex(operand) >= Len(locals)) /\ ~IsUnreadable(offset) /\ IsObject(mem[offset])
      /\ PushObject(ObjectAt(offset)) /\ Advance /\ UNCHANGED locals
  BY DEF InterpretLoad, ExceptionCodes
<1>2. offset \in 1 .. StackSize
  BY <1>1, LocalIndexTyped, InvStack
<1>3. offset \in 1 .. used
  BY <1>1, <1>2, InvStack DEF IsUnreadable, IsNull
<1>4. mem[offset].shape # NoneType
  BY <1>1, ProgramAssumption DEF IsObject
<1> DEFINE block == ObjectAt(offset)
<1>5. /\ block \in Seq(Cells) /\ BlockNested(block) /\ Len(block) \in Nat
      /\ \A i \in 1 .. Len(block) : block[i].shape # NoneType
  BY <1>3, <1>4, ObjectBlock, InvStack DEF StackOK, ObjectsNested
<1>6. /\ mem' = Placed(mem, block, used + Len(block)) /\ used' = used + Len(block)
      /\ used + Len(block) <= StackSize
  BY <1>1 DEF PushObject
<1> HIDE DEF block
<1>7. StackOK /\ ObjectsNested /\ used \in Nat /\ used <= used
      /\ \A o \in used + 1 .. used : mem[o].shape # NoneType
  BY InvStack
<1>8. StackOK' /\ ObjectsNested' /\ KeepsFrames
  BY <1>5, <1>6, <1>7, BlockPlaced
<1> QED BY <1>1, <1>8, AdvanceKeeps, InvStack

LEMMA StoreNewInv == \A operand \in Operands : Inv /\ StoreNew(operand) => Inv'
<1> SUFFICES ASSUME NEW operand \in Operands, Inv, StoreNew(operand),
                    ~ \E code \in ExceptionCodes : OccurException(code)
             PROVE  Inv'
  BY OccurExceptionKeeps
<1>1. ~IsNull(used) /\ locals' = Append(locals, used) /\ Advance /\ UNCHANGED <<mem, used>>
  BY DEF StoreNew, ExceptionCodes
<1>2. used \in 1 .. StackSize
  BY <1>1, InvStack DEF IsNull, StackOK
<1>3. locals' \in Seq(1 .. StackSize)
  BY <1>1, <1>2, InvStack
<1>4. StackOK' /\ ObjectsNested' /\ KeepsFrames
  BY <1>1, InvStack DEF StackOK, ObjectsNested, KeepsFrames, SavedFrames
<1> QED BY <1>1, <1>3, <1>4, AdvanceKeeps

\* Cells without saved frames are rewritten, and the top is lowered.
LEMMA StackRewritten ==
  ASSUME StackOK, NEW w \in [1 .. StackSize -> Cells], NestedIn(w, used),
         \A o \in 1 .. used : mem[o].shape = NoneType \/ w[o].shape = NoneType => w[o] = mem[o],
         NEW t \in Nat, t <= used, \A o \in t + 1 .. used : mem[o].shape # NoneType,
         mem' = Trimmed(w, t), used' = t
  PROVE  StackOK' /\ ObjectsNested' /\ KeepsFrames
<1>1. used \in Nat /\ StackSize \in Nat /\ used <= StackSize
  BY ProgramAssumption DEF StackOK
<1>3. StackOK'
  <2>1. \A o \in 1 .. StackSize : mem'[o] = IF o > t THEN Raw ELSE w[o]
    BY <1>1 DEF Trimmed, Placed
  <2>2. mem' \in [1 .. StackSize -> Cells]
    BY <2>1 DEF Trimmed, Placed, Cells
  <2> QED BY <1>1, <2>1, <2>2 DEF StackOK
<1>4. \A o \in 1 .. t : mem'[o] = w[o]
  BY <1>1 DEF Trimmed, Placed
<1>5. ObjectsNested'
  BY <1>1, <1>4, t \in Int, NestedPrefix DEF ObjectsNested
<1>6. \A o \in 1 .. used : o \in 1 .. t \/ o \in t + 1 .. used
  BY <1>1
<1>7. \A o \in 1 .. t : o \in 1 .. used
  BY <1>1
<1>8. \A o \in 1 .. t : (mem[o].shape = NoneType <=> mem'[o].shape = NoneType)
                       /\ (mem[o].shape = NoneType => mem'[o] = mem[o])
  BY <1>4, <1>7
<1> QED BY <1>3, <1>5, <1>6, <1>7, <1>8 DEF KeepsFrames, SavedFrames

\* Objects that store and swap take for one another have one size.
LEMMA SameSize ==
  ASSUME ~MixedSizes, NEW c, NEW d, IsObject(c),
         \/ d.shape = c.shape
         \/ c.shape \in Structs /\ d.shape \in Structs /\ Exchangeable(c.shape, d.shape)
         \/ c.shape \in Arrays /\ d.shape \in Arrays /\ Exchangeable(c.shape, d.shape)
  PROVE  IsObject(d) /\ SizeOf(d) = SizeOf(c)
  BY DEF Exchangeable, IsObject, SizeOf, Shapes

LEMMA StoreOverInv ==
  ASSUME ~MixedSizes
  PROVE  \A operand \in Operands : Inv /\ StoreOver(operand) => Inv'
<1> SUFFICES ASSUME NEW operand \in Operands, Inv, StoreOver(operand),
                    ~ \E code \in ExceptionCodes : OccurException(code), ~Crash
             PROVE  Inv'
  BY OccurExceptionKeeps, CrashKeeps
<1> DEFINE q      == locals[LocalIndex(operand) + 1]
           top    == mem[used]
           block  == ObjectAt(used)
           w      == [o \in 1 .. StackSize |->
                        IF o \in q - Len(block) + 1 .. q THEN block[q - o + 1] ELSE mem[o]]
<1>1. /\ LocalIndex(operand) < Len(locals) /\ ~IsNull(used) /\ ~IsUnreadable(q)
      /\ SameType(top.shape, mem[q].shape) /\ IsObject(top)
      /\ top.shape \in Arrays => Exchangeable(top.shape, mem[q].shape)
      /\ used' = IF top.shape \in Arrays THEN used ELSE used - Len(block)
      /\ mem' = Trimmed(w, used')
      /\ Advance
      /\ UNCHANGED locals
  BY DEF StoreOver, ExceptionCodes
<1>2. q \in 1 .. StackSize
  BY <1>1, LocalIndexTyped, InvStack
<1>3. q \in 1 .. used /\ used \in 1 .. used
  BY <1>1, <1>2, InvStack DEF IsUnreadable, IsNull
<1>4. top.shape # NoneType
  BY <1>1, ProgramAssumption DEF IsObject
<1>5. IsObject(mem[q]) /\ SizeOf(mem[q]) = SizeOf(top)
  BY <1>1, SameSize DEF SameType, IsObject, Shapes
<1>6. /\ block \in Seq(Cells) /\ BlockNested(block) /\ Len(block) = SizeOf(mem[q])
      /\ SizeOf(mem[q]) \in 1 .. q /\ Len(block) \in Nat
      /\ \A i \in 1 .. Len(block) : block[i] \in Cells /\ block[i].shape # NoneType
  <2>1. SizeOf(mem[q]) \in 1 .. q
    BY <1>3, ObjectBlock, InvStack DEF StackOK, ObjectsNested
  <2>2. /\ block \in Seq(Cells) /\ BlockNested(block) /\ Len(block) = SizeOf(mem[used])
        /\ \A i \in 1 .. SizeOf(mem[used]) : block[i].shape # NoneType
    BY <1>3, <1>4, ObjectBlock, InvStack DEF StackOK, ObjectsNested
  <2> HIDE DEF block, q
  <2> QED BY <1>5, <2>1, <2>2 DEF top
<1>7. \A o \in q - Len(block) + 1 .. q : mem[o].shape # NoneType
  <2>1. mem[q].shape # NoneType
    BY <1>5, ProgramAssumption DEF IsObject
  <2>2. \A o \in q - SizeOf(mem[q]) + 1 .. q - 1 : mem[o].shape # NoneType
    BY <1>3, InvStack DEF ObjectsNested, NestedIn
  <2> QED BY <1>3, <1>6, <2>1, <2>2
<1> HIDE DEF q, block, top
<1>8. \A o \in q - Len(block) + 1 .. q : q - o + 1 \in 1 .. Len(block)
  BY <1>2, <1>6
<1>9. w \in [1 .. StackSize -> Cells]
  BY <1>6, <1>8, InvStack DEF StackOK
<1>10. \A o \in 1 .. used : w[o] = IF o \in q - Len(block) + 1 .. q THEN block[q - o + 1] ELSE mem[o]
  BY InvStack DEF StackOK
<1> HIDE DEF w
<1>11. NestedIn(w, used)
  <2>1. used \in Nat /\ NestedIn(mem, used)
    BY InvStack DEF ObjectsNested
  <2>2. \A i \in 1 .. Len(block) : block[i].shape # NoneType
    BY <1>6
  <2> QED BY <1>3, <1>6, <1>10, <2>1, <2>2, NestedReplaced
<1>12. \A o \in 1 .. used : mem[o].shape = NoneType \/ w[o].shape = NoneType => w[o] = mem[o]
  BY <1>6, <1>7, <1>8, <1>10
<1>13. used' \in Nat /\ used' <= used /\ \A o \in used' + 1 .. used : mem[o].shape # NoneType
  BY <1>1, <1>3, <1>5, <1>6, InvStack, TopObject DEF top
<1>14. StackOK' /\ ObjectsNested' /\ KeepsFrames
  BY <1>1, <1>9, <1>11, <1>12, <1>13, InvStack, StackRewritten
<1> QED BY <1>1, <1>14, AdvanceKeeps, InvStack

LEMMA StoreInv ==
  ASSUME ~MixedSizes
  PROVE  \A operand \in Operands : Inv /\ InterpretStore(operand) => Inv'
  BY StoreNewInv, StoreOverInv, OccurExceptionKeeps DEF InterpretStore, ExceptionCodes

LEMMA CopyInv == Inv /\ InterpretCopy => Inv'
<1> SUFFICES ASSUME Inv, InterpretCopy, ~ \E code \in ExceptionCodes : OccurException(code)
             PROVE  Inv'
  BY OccurExceptionKeeps
<1> DEFINE top   == mem[used]
           block == Duplicate(ObjectAt(used))
           t     == used + TypeSize[top.shape] - SizeOf(top)
<1>1. /\ ~IsNull(used) /\ IsObject(top) /\ ~(used + TypeSize[top.shape] > StackSize)
      /\ used' = used + TypeSize[top.shape]
      /\ mem' = Placed(mem, block, used')
      /\ Advance
      /\ UNCHANGED locals
  <2>1. ~ OccurException("STACK_EMPTY") /\ ~ OccurException("STACK_OVERFLOW")
    BY DEF ExceptionCodes
  <2> QED BY <2>1 DEF InterpretCopy
<1>2. used \in 1 .. used /\ used \in Nat /\ StackSize \in Nat
  BY <1>1, InvStack DEF IsNull
<1>3. top.shape # NoneType
  BY <1>1, ProgramAssumption DEF IsObject
<1>4. /\ ObjectAt(used) \in Seq(Cells) /\ BlockNested(ObjectAt(used))
      /\ Len(ObjectAt(used)) = SizeOf(top) /\ SizeOf(top) \in 1 .. used
      /\ ObjectAt(used)[1] = top
      /\ \A i \in 1 .. Len(ObjectAt(used)) : ObjectAt(used)[i].shape # NoneType
  <2>1. mem \in [1 .. StackSize -> Cells] /\ used \in 0 .. StackSize /\ NestedIn(mem, used)
    BY InvStack DEF StackOK, ObjectsNested
  <2>2. mem[used - 1 + 1] = mem[used] /\ SizeOf(top) \in 1 .. used
    BY <1>2, <2>1, ObjectBlock
  <2> QED BY <1>2, <1>3, <2>1, <2>2, ObjectBlock
<1>5. /\ block \in Seq(Cells) /\ BlockNested(block) /\ Len(block) = SizeOf(top)
      /\ \A i \in 1 .. Len(block) : block[i].shape # NoneType
  BY <1>1, <1>4, DuplicateBlock
<1>6. TypeSize[top.shape] \in Nat /\ TypeSize[top.shape] <= SizeOf(top)
  BY <1>1, SizeFacts DEF IsObject, SizeOf
<1> HIDE DEF block
<1>7. t \in Nat /\ t <= used /\ t + Len(block) = used + TypeSize[top.shape]
  BY <1>2, <1>4, <1>5, <1>6
<1>8. \A o \in t + 1 .. used : mem[o].shape # NoneType
  <2>1. \A o \in used - SizeOf(top) + 1 .. used : mem[o].shape # NoneType
    BY <1>1, <1>2, TopObject, InvStack
  <2> HIDE DEF top
  <2> QED BY <2>1, <1>2, <1>4, <1>6
<1> HIDE DEF t
<1>9. /\ mem' = Placed(mem, block, t + Len(block)) /\ used' = t + Len(block)
      /\ t + Len(block) <= StackSize
  BY <1>1, <1>2, <1>7
<1>10. StackOK' /\ ObjectsNested' /\ KeepsFrames
  BY <1>5, <1>7, <1>8, <1>9, InvStack, BlockPlaced
<1> QED BY <1>1, <1>10, AdvanceKeeps, InvStack

\* An operation replaces scalars, one or two, by one scalar.
LEMMA YieldInv ==
  ASSUME Inv, NEW operands \in {1, 2}, NEW type \in Scalars, NEW results \in SUBSET Values,
         used - operands \in Nat, \A o \in used - operands + 1 .. used : mem[o].shape # NoneType,
         Yield(operands, type, results)
  PROVE  Inv'
<1>1. PICK result \in results :
        /\ mem' = Placed(mem, <<[shape |-> type, val |-> result]>>, used - operands + 1)
        /\ used' = used - operands + 1
        /\ Advance
        /\ UNCHANGED locals
  BY DEF Yield
<1> DEFINE block == NewObject(type, result)
<1>2. type \in Shapes /\ ObjectSize[type] = 1 /\ Layout[type][1] = type
  BY LayoutAssumption DEF Shapes
<1>3. block = <<[shape |-> type, val |-> result]>>
  BY <1>2 DEF NewObject
<1>4. /\ block \in Seq(Cells) /\ BlockNested(block) /\ Len(block) = 1
      /\ \A i \in 1 .. Len(block) : block[i].shape # NoneType
  BY <1>2, NewObjectBlock
<1>5. used - operands <= used /\ used \in Nat /\ used <= StackSize /\ StackSize \in Nat
  BY InvStack DEF StackOK
<1> HIDE DEF block
<1>6. /\ mem' = Placed(mem, block, used - operands + Len(block))
      /\ used' = used - operands + Len(block)
      /\ used - operands + Len(block) <= StackSize
  BY <1>1, <1>3, <1>4, <1>5
<1>7. StackOK' /\ ObjectsNested' /\ KeepsFrames
  BY <1>4, <1>5, <1>6, InvStack, BlockPlaced
<1> QED BY <1>1, <1>7, AdvanceKeeps, InvStack

\* What an operation knows of its operands.
LEMMA ScalarOperands ==
  ASSUME Inv, ~IsNull(used), mem[used].shape \in Scalars
  PROVE  /\ used \in Nat \ {0} /\ \A o \in used - 1 + 1 .. used : mem[o].shape # NoneType
         /\ ~IsNull(used - 1) /\ mem[used - 1].shape = mem[used].shape =>
              /\ used - 2 \in Nat /\ used - 1 \in Nat
              /\ \A o \in used - 2 + 1 .. used : mem[o].shape # NoneType
<1>1. used \in Nat \ {0}
  BY InvStack DEF StackOK, IsNull
<1>2. mem[used].shape # NoneType
  BY ProgramAssumption DEF Shapes
<1>3. ~IsNull(used - 1) => used - 2 \in Nat /\ used - 1 \in Nat
  BY <1>1 DEF IsNull
<1>4. \A o \in used - 2 + 1 .. used : o = used \/ o = used - 1
  BY <1>1
<1>5. \A o \in used - 1 + 1 .. used : o = used
  BY <1>1
<1> QED BY <1>1, <1>2, <1>3, <1>4, <1>5

\* div of zero, inc and dec: the scalar is popped before the exception.
LEMMA OccurAndPopInv ==
  ASSUME Inv, ~IsNull(used), mem[used].shape \in Scalars, NEW code \in ExceptionCodes, OccurAndPop(code)
  PROVE  Inv'
<1>1. used - 1 \in Nat /\ used - 1 <= used /\ \A o \in used - 1 + 1 .. used : mem[o].shape # NoneType
  BY ScalarOperands
<1>2. StackOK' /\ ObjectsNested' /\ KeepsFrames
  BY <1>1, InvStack, TopReduced DEF OccurAndPop, Reduce
<1>3. exception' \in InterpreterException /\ status' = "exception"
      /\ frame' = frame /\ depth' = depth /\ locals' = locals
  BY DEF OccurAndPop, Inv, TypeOK, StackFrame, InterpreterException
<1>4. FrameChain'
  BY <1>2, <1>3, ChainKept DEF Inv
<1>5. TypeOK'
  BY <1>2, <1>3 DEF Inv, TypeOK, StackOK
<1> QED BY <1>2, <1>4, <1>5 DEF Inv

LEMMA BinaryInv == Inv /\ (InterpretOperation \/ InterpretDiv \/ InterpretCmp) => Inv'
<1> SUFFICES ASSUME Inv, InterpretOperation \/ InterpretDiv \/ InterpretCmp,
                    ~ \E code \in ExceptionCodes : OccurException(code)
             PROVE  Inv'
  BY OccurExceptionKeeps
<1> DEFINE top == mem[used].shape
<1>1. /\ ~ OccurException("STACK_EMPTY") /\ ~ OccurException("STACK_DIFFERENTTYPE")
      /\ ~ OccurException(InvalidOperand(top)) /\ ~ OccurException("POINTER_INVALIDFORPOINTER")
  BY DEF InvalidOperand, ExceptionCodes
<1>2. ~ IsNull(used) /\ ~ IsNull(used - 1) /\ top \in Scalars /\ mem[used - 1].shape = top
  BY <1>1 DEF InterpretOperation, InterpretDiv, InterpretCmp, NumberOnTop, ScalarOnTop, PopTwoSameType
<1>3. /\ 2 \in {1, 2} /\ used - 2 \in Nat /\ IntType \in Scalars
      /\ \A o \in used - 2 + 1 .. used : mem[o].shape # NoneType
  BY <1>2, ScalarOperands, ProgramAssumption
<1>4. Yield(2, top, Values) \/ Yield(2, IntType, Values) \/ OccurAndPop("ARITHMETIC_DIVIDEBYZERO")
  BY <1>1 DEF InterpretOperation, InterpretDiv, InterpretCmp, NumberOnTop, ScalarOnTop, PopTwoSameType
<1>5. CASE Yield(2, top, Values)
  BY <1>2, <1>3, <1>5, YieldInv
<1>6. CASE Yield(2, IntType, Values)
  BY <1>3, <1>6, YieldInv
<1>7. CASE OccurAndPop("ARITHMETIC_DIVIDEBYZERO")
  BY <1>2, <1>7, OccurAndPopInv DEF ExceptionCodes
<1> QED BY <1>4, <1>5, <1>6, <1>7

LEMMA UnaryInv == Inv /\ (InterpretNeg \/ TypeCast) => Inv'
<1> SUFFICES ASSUME Inv, InterpretNeg \/ TypeCast, ~ \E code \in ExceptionCodes : OccurException(code)
             PROVE  Inv'
  BY OccurExceptionKeeps
<1> DEFINE top == mem[used].shape
<1>1. ~ OccurException("STACK_EMPTY") /\ ~ OccurException(InvalidOperand(top))
      /\ ~ OccurException("POINTER_INVALIDFORPOINTER")
  BY DEF InvalidOperand, ExceptionCodes
<1>2. ~ IsNull(used) /\ top \in Scalars /\ IsObject(mem[used])
  BY <1>1 DEF InterpretNeg, TypeCast, NumberOnTop, ScalarOnTop
<1>3. PICK type \in Scalars, results \in SUBSET Values : Yield(1, type, results)
  <2>1. CASE InterpretNeg
    BY <1>1, <1>2, <2>1 DEF InterpretNeg, NumberOnTop, ScalarOnTop
  <2>2. CASE TypeCast
    <3>1. mem[used].val \in Values
      <4>1. mem[used] \in Cells
        BY <1>2, ScalarOperands, InvStack DEF StackOK
      <4> QED BY <1>2, <4>1, ProgramAssumption DEF Cells, IsObject, Raw, Shapes
    <3>2. PICK type \in Numbers : Yield(1, type, IF type = top THEN {mem[used].val} ELSE Values)
      BY <1>1, <2>2 DEF TypeCast, NumberOnTop, ScalarOnTop
    <3> QED BY <3>1, <3>2, ProgramAssumption
  <2> QED BY <2>1, <2>2
<1>4. 1 \in {1, 2} /\ used - 1 \in Nat /\ \A o \in used - 1 + 1 .. used : mem[o].shape # NoneType
  BY <1>2, ScalarOperands
<1> QED BY <1>3, <1>4, YieldInv

LEMMA UnhandledInv == Inv /\ Unhandled => Inv'
<1> SUFFICES ASSUME Inv, Unhandled PROVE Inv'
  OBVIOUS
<1>1. StackOK' /\ ObjectsNested' /\ KeepsFrames
  BY InvStack DEF Unhandled, StackOK, ObjectsNested, KeepsFrames, SavedFrames
<1> QED BY <1>1, AdvanceKeeps, InvStack DEF Unhandled

LEMMA JmpInv == Inv /\ InterpretJmp => Inv'
<1> SUFFICES ASSUME Inv, InterpretJmp PROVE Inv'
  OBVIOUS
<1>1. PICK label \in Int : frame' = [frame EXCEPT !.Caller = label]
  BY DEF InterpretJmp
<1>2. UNCHANGED <<mem, used, depth, locals, exception, status>>
  BY DEF InterpretJmp
<1>3. StackOK' /\ ObjectsNested' /\ KeepsFrames
  BY <1>2, InvStack DEF StackOK, ObjectsNested, KeepsFrames, SavedFrames
<1> QED BY <1>1, <1>2, <1>3, MoveKeeps, InvStack

LEMMA JumpConditionInv == Inv /\ JumpCondition => Inv'
<1> SUFFICES ASSUME Inv, JumpCondition, ~ \E code \in ExceptionCodes : OccurException(code)
             PROVE  Inv'
  BY OccurExceptionKeeps
<1>1. /\ ~IsNull(used) /\ IsObject(mem[used]) /\ mem[used].shape \in Scalars
      /\ \/ Advance /\ UNCHANGED <<mem, used, locals>>
         \/ /\ \E label \in Int : frame' = [frame EXCEPT !.Caller = label]
            /\ Reduce(1)
            /\ UNCHANGED <<depth, locals, exception, status>>
  BY DEF JumpCondition, InvalidOperand, ExceptionCodes
<1>2. CASE Advance /\ UNCHANGED <<mem, used, locals>>
  <2>1. StackOK' /\ ObjectsNested' /\ KeepsFrames
    BY <1>2, InvStack DEF StackOK, ObjectsNested, KeepsFrames, SavedFrames
  <2> QED BY <1>2, <2>1, AdvanceKeeps, InvStack
<1>3. CASE /\ \E label \in Int : frame' = [frame EXCEPT !.Caller = label]
           /\ Reduce(1)
           /\ UNCHANGED <<depth, locals, exception, status>>
  <2>1. used > 0 /\ used - 1 \in Nat /\ used - 1 <= used /\ used \in Nat
    BY <1>1, InvStack DEF IsNull
  <2>2. \A o \in used - 1 + 1 .. used : mem[o].shape # NoneType
    BY <1>1, <2>1, ProgramAssumption DEF IsObject
  <2>3. StackOK' /\ ObjectsNested' /\ KeepsFrames
    BY <1>3, <2>1, <2>2, TopReduced, InvStack DEF Reduce
  <2> QED BY <1>3, <2>3, MoveKeeps, InvStack
<1> QED BY <1>1, <1>2, <1>3

\* The instructions that take pointers or yield them.
MemoryInstruction ==
  \/ InterpretNew \/ InterpretANew \/ InterpretDelete \/ InterpretIncDec
  \/ \E operand \in Operands : InterpretLea(operand)
  \/ InterpretFLea \/ InterpretCount \/ InterpretALea \/ InterpretTLoad \/ InterpretTStore

\* A scalar that is not the newest local is on top.
ScalarTop == ~IsLocalVariable(0) /\ ~IsNull(used) /\ mem[used].shape \in Scalars

\* Under the object on top lies a scalar, and neither is the newest local.
ScalarBelowTop(size) ==
  /\ ~IsNull(used) /\ IsObject(mem[used]) /\ size = SizeOf(mem[used])
  /\ ~IsLocalVariable(0) /\ ~IsLocalVariable(size) /\ ~IsNull(used - size)
  /\ mem[used - size].shape \in Scalars

\* What such an instruction does if it raises no exception.
MemoryEffect ==
  /\ Fetch
  /\ \/ \E shapes \in SUBSET Scalars : PushAny(shapes)
     \/ /\ ScalarTop
        /\ \/ \E type \in Scalars : Yield(1, type, Values)
           \/ Reduce(1) /\ Advance /\ UNCHANGED locals
           \/ \E code \in PointerErrors : OccurAndPop(code)
           \/ \E object \in Targets : ReplaceTop(object)
     \/ /\ ScalarTop /\ ~IsNull(used - 1) /\ mem[used - 1].shape \in Scalars
        /\ \E type \in Scalars : Yield(2, type, Values)
     \/ \E size \in Nat : /\ ScalarBelowTop(size)
                           /\ Reduce(size + 1) /\ Advance /\ UNCHANGED locals

LEMMA MemoryEffects ==
  ASSUME MemoryInstruction, ~ \E code \in ExceptionCodes : OccurException(code), ~Crash
  PROVE  MemoryEffect
<1>1. /\ ~ OccurException("STACK_EMPTY") /\ ~ OccurException("STACK_OVERFLOW")
      /\ ~ OccurException("STACK_DIFFERENTTYPE") /\ ~ OccurException("ARRAY_COUNT_CANNOTBEZERO")
      /\ ~ OccurException("LOCALVARIABLE_OUTOFRANGE") /\ ~ OccurException("POINTER_NOTPOINTER")
      /\ ~ BadTarget
  BY DEF ExceptionCodes, BadTarget
<1>2. Numbers \subseteq Scalars /\ Pointers \subseteq Scalars
  BY ProgramAssumption DEF Pointers
<1> HIDE DEF OccurException
<1>3. CASE InterpretNew \/ \E operand \in Operands : InterpretLea(operand)
  <2>1. Fetch /\ \E shapes \in {Pointers, Pointers \ GCPointers} : PushAny(shapes)
    BY <1>1, <1>3 DEF InterpretNew, InterpretLea
  <2> QED BY <1>2, <2>1 DEF MemoryEffect
<1>4. CASE InterpretANew
  <2>1. Fetch /\ ScalarTop /\ \E type \in Pointers : Yield(1, type, Values)
    BY <1>1, <1>2, <1>4 DEF InterpretANew, CountOnTop, ScalarTop
  <2> QED BY <1>2, <2>1 DEF MemoryEffect
<1>5. CASE InterpretDelete
  BY <1>1, <1>2, <1>5 DEF InterpretDelete, PointerOnTop, ScalarTop, MemoryEffect
<1>6. CASE InterpretIncDec
  BY <1>1, <1>2, <1>6 DEF InterpretIncDec, PointerOnTop, ScalarTop, MemoryEffect
<1>7. CASE InterpretFLea \/ InterpretCount
  <2>1. Fetch /\ ScalarTop /\ \E type \in Scalars : Yield(1, type, Values)
    BY <1>1, <1>2, <1>7 DEF InterpretFLea, InterpretCount, PointerOnTop, ScalarTop
  <2> QED BY <2>1 DEF MemoryEffect
<1>8. CASE InterpretALea
  <2>1. /\ Fetch /\ ScalarTop /\ ~IsNull(used - 1) /\ mem[used - 1].shape \in Scalars
        /\ \E type \in Scalars : Yield(2, type, Values)
    BY <1>1, <1>2, <1>8 DEF InterpretALea, ScalarTop
  <2> QED BY <2>1 DEF MemoryEffect
<1>9. CASE InterpretTLoad
  BY <1>1, <1>2, <1>9 DEF InterpretTLoad, PointerOnTop, ScalarTop, MemoryEffect
<1>10. CASE InterpretTStore
  <2> DEFINE size == SizeOf(mem[used])
  <2>1. /\ Fetch /\ ScalarBelowTop(size) /\ Reduce(size + 1) /\ Advance /\ UNCHANGED locals
    BY <1>1, <1>2, <1>10 DEF InterpretTStore, ScalarBelowTop
  <2>2. size \in Nat
    BY SizeFacts
  <2> QED BY <2>1, <2>2 DEF MemoryEffect
<1> QED BY <1>3, <1>4, <1>5, <1>6, <1>7, <1>8, <1>9, <1>10 DEF MemoryInstruction

\* The cells that tstore takes.
LEMMA TwoOnTop ==
  ASSUME Inv, NEW size, ScalarBelowTop(size)
  PROVE  /\ size \in Nat \ {0} /\ used - (size + 1) \in Nat /\ used - (size + 1) <= used
         /\ \A o \in used - (size + 1) + 1 .. used : mem[o].shape # NoneType
<1>1. used \in Nat /\ used > 0 /\ IsObject(mem[used]) /\ size = SizeOf(mem[used])
  BY InvStack DEF ScalarBelowTop, IsNull
<1>2. /\ size \in 1 .. used
      /\ \A o \in used - size + 1 .. used : mem[o].shape # NoneType
  BY <1>1, TopObject, InvStack
<1>3. mem[used - size].shape # NoneType /\ used - size > 0
  BY <1>1, <1>2, ProgramAssumption DEF ScalarBelowTop, IsNull, Shapes
<1>4. \A o \in used - (size + 1) + 1 .. used : o = used - size \/ o \in used - size + 1 .. used
  BY <1>1, <1>2
<1> QED BY <1>1, <1>2, <1>3, <1>4

LEMMA MemoryInv == Inv /\ MemoryInstruction => Inv'
<1> SUFFICES ASSUME Inv, MemoryEffect PROVE Inv'
  BY MemoryEffects, OccurExceptionKeeps, CrashKeeps
<1>1. CASE \E shapes \in SUBSET Scalars : PushAny(shapes)
  <2>1. \A shapes \in SUBSET Scalars : shapes \in SUBSET Shapes
    BY DEF Shapes
  <2> QED BY <1>1, <2>1, PushAnyInv
<1>2. CASE ScalarTop /\ \E type \in Scalars : Yield(1, type, Values)
  <2>1. 1 \in {1, 2} /\ used - 1 \in Nat /\ \A o \in used - 1 + 1 .. used : mem[o].shape # NoneType
    BY <1>2, ScalarOperands DEF ScalarTop
  <2> QED BY <1>2, <2>1, YieldInv
<1>3. CASE ScalarTop /\ Reduce(1) /\ Advance /\ UNCHANGED locals
  <2>1. used - 1 \in Nat /\ used - 1 <= used /\ \A o \in used - 1 + 1 .. used : mem[o].shape # NoneType
    BY <1>3, ScalarOperands DEF ScalarTop
  <2>2. StackOK' /\ ObjectsNested' /\ KeepsFrames
    BY <1>3, <2>1, InvStack, TopReduced DEF Reduce
  <2> QED BY <1>3, <2>2, AdvanceKeeps, InvStack
<1>4. CASE ScalarTop /\ \E code \in PointerErrors : OccurAndPop(code)
  BY <1>4, OccurAndPopInv DEF ScalarTop, ExceptionCodes
<1>5. CASE ScalarTop /\ \E object \in Targets : ReplaceTop(object)
  BY <1>5, TargetBlock, ReplaceTopInv DEF ScalarTop
<1>6. CASE /\ ScalarTop /\ ~IsNull(used - 1) /\ mem[used - 1].shape \in Scalars
           /\ \E type \in Scalars : Yield(2, type, Values)
  <2>1. used \in Nat /\ used - 2 \in Nat
    BY <1>6, InvStack DEF IsNull
  <2>2. mem[used].shape # NoneType /\ mem[used - 1].shape # NoneType
    BY <1>6, ProgramAssumption DEF ScalarTop, Shapes
  <2>3. \A o \in used - 2 + 1 .. used : o = used \/ o = used - 1
    BY <2>1
  <2>4. 2 \in {1, 2} /\ \A o \in used - 2 + 1 .. used : mem[o].shape # NoneType
    BY <2>2, <2>3
  <2> QED BY <1>6, <2>1, <2>4, YieldInv
<1>7. CASE \E size \in Nat : /\ ScalarBelowTop(size)
                             /\ Reduce(size + 1) /\ Advance /\ UNCHANGED locals
  <2>1. PICK size \in Nat : /\ ScalarBelowTop(size)
                            /\ Reduce(size + 1) /\ Advance /\ UNCHANGED locals
    BY <1>7
  <2>2. /\ used - (size + 1) \in Nat /\ used - (size + 1) <= used
        /\ \A o \in used - (size + 1) + 1 .. used : mem[o].shape # NoneType
    BY <2>1, TwoOnTop
  <2>3. StackOK' /\ ObjectsNested' /\ KeepsFrames
    BY <2>1, <2>2, InvStack, TopReduced DEF Reduce
  <2> QED BY <2>1, <2>3, AdvanceKeeps, InvStack
<1> QED BY <1>1, <1>2, <1>3, <1>4, <1>5, <1>6, <1>7 DEF MemoryEffect

\* The two objects that swap exchanges, as one block.
LEMMA SwapInv ==
  ASSUME ~MixedSizes
  PROVE  Inv /\ InterpretSwap => Inv'
<1> SUFFICES ASSUME Inv, InterpretSwap, ~ \E code \in ExceptionCodes : OccurException(code), ~Crash
             PROVE  Inv'
  BY OccurExceptionKeeps, CrashKeeps
<1> DEFINE top   == mem[used]
           n     == ObjectSize[top.shape]
           low   == used - n
           first == IF top.shape \in Scalars THEN 1 ELSE 2
           t     == used - 2 * n
           block == [i \in 1 .. 2 * n |-> mem'[used - i + 1]]
<1>1. /\ ~IsNull(used) /\ IsObject(top) /\ ~IsNull(low) /\ ~(t < 0)
      /\ ~(top.shape \in Scalars /\ mem[low].shape # top.shape)
      /\ ~(top.shape \in Structs /\ mem[low].shape \notin Structs)
      /\ ~(top.shape \in Arrays /\ mem[low].shape \notin Arrays)
      /\ Exchangeable(top.shape, mem[low].shape)
      /\ mem' = Swapped(n, first) /\ Advance /\ UNCHANGED <<used, locals>>
  <2>1. /\ ~ OccurException("STACK_EMPTY") /\ ~ OccurException("STACK_DIFFERENTTYPE")
        /\ ~ OccurException("ARRAY_COUNT_DIFFERENTCOUNT")
    BY DEF ExceptionCodes
  <2> QED BY <2>1 DEF InterpretSwap
<1>2. /\ used \in 1 .. StackSize /\ StackSize \in Nat /\ n \in Nat \ {0} /\ SizeOf(top) = n
      /\ low \in 1 .. used /\ t \in Nat
  BY <1>1, InvStack, SizeFacts DEF IsNull, IsObject, SizeOf, StackOK
<1>3. IsObject(mem[low]) /\ SizeOf(mem[low]) = n
  BY <1>1, <1>2, SameSize DEF IsObject, Shapes
<1>4. NestedIn(mem, used) /\ mem \in [1 .. StackSize -> Cells]
  BY InvStack DEF ObjectsNested, StackOK
<1> HIDE DEF n, low, t, top
<1>5. first \in 1 .. 2 /\ low = used - n /\ t = low - n
  BY <1>2 DEF low, t
<1>6. ASSUME NEW o \in t + 1 .. used PROVE o \in 1 .. StackSize
  BY <1>2
<1> HIDE DEF first
\* Where the cells of the two objects come from.
<1>7. ASSUME NEW base \in {low, used}, NEW i \in 1 .. n
      PROVE  /\ base - i + 1 \in t + 1 .. used
             /\ i = 1 /\ first = 2 => mem'[base - i + 1] = mem[base]
             /\ ~(i = 1 /\ first = 2) =>
                  mem'[base - i + 1] = IF base = used THEN mem[low - i + 1] ELSE mem[used - i + 1]
  <2>1. base - i + 1 \in t + 1 .. used
    BY <1>2, <1>5
  <2>2. PICK o : o = base - i + 1 /\ o \in 1 .. StackSize
    BY <2>1, <1>6
  <2>3. mem'[o] = IF used - o + 1 \in first .. n THEN mem[o - n]
                  ELSE IF used - n - o + 1 \in first .. n THEN mem[o + n]
                  ELSE mem[o]
    BY <2>2, <1>1 DEF Swapped
  <2>4. CASE base = used
    <3>1. used - o + 1 = i /\ o - n = low - i + 1
      BY <2>2, <2>4, <1>2, <1>5
    <3>2. ~(used - n - o + 1 \in first .. n)
      BY <2>2, <3>1, <1>2, <1>5
    <3>3. mem'[o] = IF i \in first .. n THEN mem[low - i + 1] ELSE mem[used]
      <4>1. ~(i \in first .. n) => o = used
        BY <2>2, <2>4, <1>2, <1>5
      <4> QED BY <2>3, <3>1, <3>2, <4>1
    <3>4. i = 1 /\ first = 2 => ~(i \in first .. n)
      OBVIOUS
    <3>5. ~(i = 1 /\ first = 2) => i \in first .. n
      BY <1>2, <1>5
    <3> QED BY <2>1, <2>2, <2>4, <3>3, <3>4, <3>5
  <2>5. CASE base = low
    <3>1. used - n - o + 1 = i /\ o + n = used - i + 1 /\ low # used
      BY <2>2, <2>5, <1>2, <1>5
    <3>2. ~(used - o + 1 \in first .. n)
      BY <2>2, <3>1, <1>2, <1>5
    <3>3. mem'[o] = IF i \in first .. n THEN mem[used - i + 1] ELSE mem[low]
      <4>1. ~(i \in first .. n) => o = low
        BY <2>2, <2>5, <1>2, <1>5
      <4> QED BY <2>3, <3>1, <3>2, <4>1
    <3>4. i = 1 /\ first = 2 => ~(i \in first .. n)
      OBVIOUS
    <3>5. ~(i = 1 /\ first = 2) => i \in first .. n
      BY <1>2, <1>5
    <3> QED BY <2>1, <2>2, <2>5, <3>1, <3>3, <3>4, <3>5
  <2> QED BY <2>4, <2>5
<1>8. ASSUME NEW base \in {low, used}, NEW i \in 1 .. n
      PROVE  /\ SizeOf(mem[base - i + 1]) \in Nat
             /\ i - 1 + SizeOf(mem[base - i + 1]) <= n
             /\ mem[base - i + 1].shape # NoneType
             /\ \A j \in i + 1 .. i - 1 + SizeOf(mem[base - i + 1]) :
                  j - 1 + SizeOf(mem[base - j + 1]) <= i - 1 + SizeOf(mem[base - i + 1])
  <2> DEFINE object == ObjectAt(base)
  <2>1. base \in 1 .. used /\ mem[base].shape # NoneType /\ SizeOf(mem[base]) = n
    BY <1>1, <1>2, <1>3, ProgramAssumption DEF IsObject, top
  <2>2. /\ Len(object) = n /\ BlockNested(object) /\ object[i].shape # NoneType
        /\ \A k \in 1 .. n : object[k] = mem[base - k + 1]
    BY <1>4, <2>1, <1>2, ObjectBlock
  <2> HIDE DEF object
  <2>3. i - 1 + SizeOf(object[i]) <= n /\ SizeOf(object[i]) \in Nat
    BY <2>2, SizeFacts DEF BlockNested
  <2>4. \A j \in i + 1 .. i - 1 + SizeOf(object[i]) : j \in 1 .. n
    BY <2>3, <1>2
  <2>5. \A j \in i + 1 .. i - 1 + SizeOf(object[i]) :
          j - 1 + SizeOf(object[j]) <= i - 1 + SizeOf(object[i])
    BY <2>2 DEF BlockNested
  <2> QED BY <2>2, <2>3, <2>4, <2>5
\* Each of the two blocks is nested after the exchange.
<1>9. ASSUME NEW base \in {low, used}, NEW i \in 1 .. n
      PROVE  /\ SizeOf(mem'[base - i + 1]) \in Nat
             /\ i - 1 + SizeOf(mem'[base - i + 1]) <= n
             /\ mem'[base - i + 1].shape # NoneType
             /\ \A j \in i + 1 .. i - 1 + SizeOf(mem'[base - i + 1]) :
                  j - 1 + SizeOf(mem'[base - j + 1]) <= i - 1 + SizeOf(mem'[base - i + 1])
  <2> DEFINE other == IF base = used THEN low ELSE used
  <2>1. other \in {low, used} /\ n \in Nat
    BY <1>2
  <2>2. CASE i = 1 /\ first = 2
    <3>1. mem'[base - i + 1] = mem[base] /\ SizeOf(mem[base]) = n /\ mem[base].shape # NoneType
      BY <2>2, <1>1, <1>2, <1>3, <1>7, ProgramAssumption DEF IsObject, top
    <3>2. ASSUME NEW j \in 2 .. n PROVE j - 1 + SizeOf(mem'[base - j + 1]) <= n
      <4>1. j \in 1 .. n /\ mem'[base - j + 1] = mem[other - j + 1]
        BY <1>7, <2>1
      <4> QED BY <4>1, <1>8, <2>1
    <3> QED BY <2>1, <2>2, <3>1, <3>2
  <2>3. CASE ~(i = 1 /\ first = 2)
    <3>1. \A j \in i .. n : j \in 1 .. n /\ mem'[base - j + 1] = mem[other - j + 1]
      <4>1. \A j \in i .. n : j \in 1 .. n /\ ~(j = 1 /\ first = 2)
        BY <2>3, <2>1
      <4> QED BY <4>1, <1>7
    <3>2. /\ SizeOf(mem[other - i + 1]) \in Nat
          /\ i - 1 + SizeOf(mem[other - i + 1]) <= n
          /\ mem[other - i + 1].shape # NoneType
          /\ \A j \in i + 1 .. i - 1 + SizeOf(mem[other - i + 1]) :
               j - 1 + SizeOf(mem[other - j + 1]) <= i - 1 + SizeOf(mem[other - i + 1])
      BY <1>8, <2>1
    <3> HIDE DEF other
    <3>3. i \in i .. n /\ \A j \in i + 1 .. i - 1 + SizeOf(mem[other - i + 1]) : j \in i .. n
      BY <2>1, <3>2
    <3> QED BY <3>1, <3>2, <3>3
  <2> QED BY <2>2, <2>3
<1>10. \A o \in t + 1 .. used : mem[o].shape # NoneType /\ mem'[o] \in Cells
  <2>1. ASSUME NEW o \in t + 1 .. used
        PROVE  \E base \in {low, used} : \E i \in 1 .. n : o = base - i + 1
    <3>1. CASE o > low
      <4>1. used - o + 1 \in 1 .. n /\ o = used - (used - o + 1) + 1
        BY <1>2, <1>5, <3>1
      <4> QED BY <4>1
    <3>2. CASE o <= low
      <4>1. low - o + 1 \in 1 .. n /\ o = low - (low - o + 1) + 1
        BY <1>2, <1>5, <3>2
      <4> QED BY <4>1
    <3> QED BY <3>1, <3>2, <1>2
  <2>2. ASSUME NEW base \in {low, used}, NEW i \in 1 .. n
        PROVE  mem[base - i + 1].shape # NoneType /\ mem'[base - i + 1] \in Cells
    <3>1. /\ low - i + 1 \in 1 .. StackSize /\ used - i + 1 \in 1 .. StackSize
          /\ base \in 1 .. StackSize
      BY <1>6, <1>7, <1>2
    <3>2. mem[low - i + 1] \in Cells /\ mem[used - i + 1] \in Cells /\ mem[base] \in Cells
      BY <3>1, <1>4
    <3> QED BY <3>2, <1>7, <1>8
  <2> QED BY <2>1, <2>2
<1>11. /\ block \in Seq(Cells) /\ Len(block) = 2 * n /\ 2 * n \in Nat
       /\ \A i \in 1 .. 2 * n : block[i] = mem'[used - i + 1] /\ used - i + 1 \in t + 1 .. used
  <2>1. \A i \in 1 .. 2 * n : used - i + 1 \in t + 1 .. used
    BY <1>2, <1>5
  <2>2. \A i \in 1 .. 2 * n : mem'[used - i + 1] \in Cells
    BY <2>1, <1>10
  <2>3. 2 * n \in Nat
    BY <1>2
  <2> QED BY <2>1, <2>2, <2>3
<1> HIDE DEF block
<1>12. ASSUME NEW i \in 1 .. 2 * n
       PROVE  /\ i - 1 + SizeOf(block[i]) <= 2 * n
              /\ block[i].shape # NoneType
              /\ \A j \in i + 1 .. i - 1 + SizeOf(block[i]) :
                   j \in 1 .. 2 * n /\ j - 1 + SizeOf(block[j]) <= i - 1 + SizeOf(block[i])
  <2>1. CASE i <= n
    <3>1. /\ SizeOf(mem'[used - i + 1]) \in Nat
          /\ i - 1 + SizeOf(mem'[used - i + 1]) <= n
          /\ mem'[used - i + 1].shape # NoneType
          /\ \A j \in i + 1 .. i - 1 + SizeOf(mem'[used - i + 1]) :
               j - 1 + SizeOf(mem'[used - j + 1]) <= i - 1 + SizeOf(mem'[used - i + 1])
      BY <2>1, <1>9
    <3>2. block[i] = mem'[used - i + 1] /\ n \in Nat
      BY <1>11, <1>2
    <3>3. \A j \in i + 1 .. i - 1 + SizeOf(block[i]) :
            j \in 1 .. 2 * n /\ block[j] = mem'[used - j + 1]
      <4> SUFFICES ASSUME NEW j \in i + 1 .. i - 1 + SizeOf(block[i])
                   PROVE  j \in 1 .. 2 * n
        BY <1>11
      <4> QED BY <3>1, <3>2
    <3> QED BY <3>1, <3>2, <3>3
  <2>2. CASE i > n
    <3> DEFINE k == i - n
    <3>1. k \in 1 .. n /\ n \in Nat /\ low - k + 1 = used - i + 1
      BY <2>2, <1>2, <1>5
    <3>2. /\ SizeOf(mem'[low - k + 1]) \in Nat
          /\ k - 1 + SizeOf(mem'[low - k + 1]) <= n
          /\ mem'[low - k + 1].shape # NoneType
          /\ \A l \in k + 1 .. k - 1 + SizeOf(mem'[low - k + 1]) :
               l - 1 + SizeOf(mem'[low - l + 1]) <= k - 1 + SizeOf(mem'[low - k + 1])
      BY <3>1, <1>9
    <3>3. block[i] = mem'[low - k + 1]
      BY <1>11, <3>1
    <3>4. ASSUME NEW j \in i + 1 .. i - 1 + SizeOf(block[i])
          PROVE  j \in 1 .. 2 * n /\ j - 1 + SizeOf(block[j]) <= i - 1 + SizeOf(block[i])
      <4> DEFINE l == j - n
      <4>1. l \in k + 1 .. k - 1 + SizeOf(block[i]) /\ j \in 1 .. 2 * n /\ low - l + 1 = used - j + 1
        BY <3>1, <3>2, <3>3, <1>2, <1>5
      <4>2. block[j] = mem'[low - l + 1] /\ SizeOf(block[j]) \in Nat
        BY <4>1, <1>11, SizeFacts
      <4>3. l - 1 + SizeOf(block[j]) <= k - 1 + SizeOf(block[i])
        BY <4>1, <4>2, <3>2, <3>3
      <4> QED BY <4>1, <4>2, <4>3, <3>1, <3>2, <3>3
    <3> QED BY <3>1, <3>2, <3>3, <3>4
  <2> QED BY <2>1, <2>2, <1>2
<1>13. BlockNested(block)
  BY <1>11, <1>12 DEF BlockNested
<1>14. mem' = Placed(mem, block, t + Len(block)) /\ t + Len(block) = used
  <2>1. t + Len(block) = used /\ Len(block) = 2 * n
    BY <1>2, <1>5, <1>11
  <2>2. \A o \in 1 .. StackSize : o > used => mem[o] = Raw
    BY InvStack DEF StackOK
  <2>3. \A o \in 1 .. StackSize : o > used => mem'[o] = Raw
    BY <1>1, <1>2, <1>5, <2>2 DEF Swapped
  <2>4. ASSUME NEW o \in 1 .. StackSize, o <= t PROVE mem'[o] = mem[o]
    <3>1. used - o + 1 \notin first .. n /\ used - n - o + 1 \notin first .. n
      BY <2>4, <1>2, <1>5
    <3> QED BY <1>1, <3>1 DEF Swapped
  <2>5. \A o \in 1 .. StackSize : o > t /\ o <= used => mem'[o] = block[used - o + 1]
    BY <1>2, <1>5, <1>11
  <2>6. \A o \in 1 .. StackSize : mem'[o] = IF o > used THEN Raw
                                         ELSE IF o > used - Len(block) THEN block[used - o + 1]
                                         ELSE mem[o]
    <3>1. used - Len(block) = t /\ used \in Int /\ t \in Int
      BY <2>1, <1>2
    <3> QED BY <2>3, <2>4, <2>5, <3>1
  <2>7. mem' = [o \in 1 .. StackSize |-> mem'[o]]
    BY <1>1 DEF Swapped
  <2> QED BY <2>1, <2>6, <2>7 DEF Placed
<1>15. StackOK' /\ ObjectsNested' /\ KeepsFrames
  <2>1. /\ t <= used /\ t + Len(block) <= StackSize /\ used' = t + Len(block)
        /\ \A i \in 1 .. Len(block) : block[i].shape # NoneType
        /\ \A o \in t + 1 .. used : mem[o].shape # NoneType
    BY <1>1, <1>2, <1>5, <1>10, <1>11, <1>12, <1>14
  <2> QED BY <1>2, <1>11, <1>13, <1>14, <2>1, InvStack, BlockPlaced
<1> QED BY <1>1, <1>15, AdvanceKeeps, InvStack

\* The arguments become locals.
LEMMA ArgumentsTyped ==
  ASSUME StackOK, NEW n \in Nat, NEW walk \in Arguments(n)
  PROVE  Offsets(walk, n) \in Seq(1 .. StackSize)
<1>1. \A j \in 1 .. n : j - 1 \in 0 .. n
  OBVIOUS
<1>2. \A j \in 1 .. n : walk[j - 1] \in 0 .. used /\ walk[j - 1] > 0
  BY <1>1 DEF Arguments, Walks
<1>3. \A j \in 1 .. n : walk[j - 1] \in 1 .. StackSize
  BY <1>2, ProgramAssumption DEF StackOK
<1> QED BY <1>3 DEF Offsets

LEMMA SavedFramesFinite ==
  ASSUME used \in Nat
  PROVE  /\ SavedFrames \subseteq 1 .. used
         /\ IsFiniteSet(SavedFrames) /\ Cardinality(SavedFrames) \in Nat
<1>1. SavedFrames \subseteq 1 .. used
  BY DEF SavedFrames
<1>2. IsFiniteSet(1 .. used)
  BY FS_Interval
<1>3. IsFiniteSet(SavedFrames)
  BY <1>1, <1>2, FS_Subset
<1> QED BY <1>1, <1>3, FS_CardinalityType

\* A call puts one saved frame on top of the chain.
LEMMA EnterInv ==
  ASSUME Inv, NEW function \in Callables, NEW walk \in Arguments(Arity[function]),
         Enter(function, walk, 0), exception' \in InterpreterException,
         status' \in {"running", "finished", "exception", "crashed"}
  PROVE  Inv'
<1> DEFINE cell  == [shape |-> NoneType, val |-> frame]
           begin == used + 1
<1>1. /\ cell \in Cells /\ ~IsObject(cell) /\ cell.shape = NoneType /\ cell.val = frame
      /\ frame \in StackFrame
  BY ProgramAssumption DEF Cells, IsObject, Inv, TypeOK
<1>2. /\ used' = begin /\ mem' = Placed(mem, <<cell>>, begin) /\ begin <= StackSize
      /\ frame' = [StackBegin |-> begin, VariableBegin |-> Len(locals),
                   Caller |-> 0, Function |-> function]
      /\ locals' = locals \o Offsets(walk, Arity[function])
      /\ depth' = depth + 1
  BY DEF Enter, PushObject
<1> DEFINE block == <<cell>>
<1>3. block \in Seq(Cells) /\ Len(block) = 1 /\ BlockNested(block) /\ block[1] = cell
  BY <1>1, CellBlock
<1> HIDE DEF cell, block
<1>4. /\ used \in Nat /\ StackSize \in Nat /\ begin \in 1 .. StackSize /\ used <= used
      /\ mem \in [1 .. StackSize -> Cells]
  BY <1>2, InvStack DEF StackOK
<1>5. /\ mem' = Placed(mem, block, used + Len(block)) /\ used + Len(block) = used'
      /\ used + Len(block) <= StackSize
  BY <1>2, <1>3, <1>4 DEF block
<1>6. mem' \in [1 .. StackSize -> Cells] /\ \A o \in 1 .. StackSize : o > used' => mem'[o] = Raw
  BY <1>3, <1>4, <1>5, PlacedTyped
<1>7. ObjectsNested'
  BY <1>3, <1>4, <1>5, NestedPlaced, InvStack DEF ObjectsNested
<1>8. mem'[begin] = cell /\ \A o \in 1 .. used : mem'[o] = mem[o]
  BY <1>2, <1>3, <1>4, <1>5 DEF Placed
<1>9. SavedFrames' = SavedFrames \cup {begin} /\ begin \notin SavedFrames
      /\ \A o \in SavedFrames : o < begin /\ mem'[o] = mem[o]
  <2>1. \A o \in 1 .. begin : o \in 1 .. used \/ o = begin
    BY <1>4
  <2>2. \A o \in 1 .. used : o \in 1 .. begin /\ o < begin
    BY <1>4
  <2> QED BY <1>1, <1>2, <1>4, <1>8, <2>1, <2>2 DEF SavedFrames
<1>10. depth' = Cardinality(SavedFrames')
  <2>1. IsFiniteSet(SavedFrames) /\ depth = Cardinality(SavedFrames)
    BY <1>4, SavedFramesFinite DEF Inv, FrameChain
  <2> QED BY <1>2, <1>9, <2>1, FS_AddElement
<1>11. IsNewest(frame.StackBegin, SavedFrames)' 
  <2>1. \A o \in SavedFrames : o \in Nat /\ o < begin
    BY <1>4, <1>9, SavedFramesFinite
  <2>2. \A o \in SavedFrames' : o <= begin
    BY <1>4, <1>9, <2>1
  <2>3. frame'.StackBegin = begin
    BY <1>2
  <2> QED BY <1>9, <2>2, <2>3 DEF IsNewest
<1>12. \A o \in SavedFrames' : IsNewest(mem'[o].val.StackBegin, {p \in SavedFrames' : p < o})
  <2>1. ASSUME NEW o \in SavedFrames
        PROVE  IsNewest(mem'[o].val.StackBegin, {p \in SavedFrames' : p < o})
    <3>1. {p \in SavedFrames' : p < o} = {p \in SavedFrames : p < o}
      <4>1. o < begin /\ o \in Nat
        BY <1>9, <1>4 DEF SavedFrames
      <4>2. ~(begin < o)
        BY <4>1, <1>4
      <4> QED BY <4>2, <1>9
    <3>2. IsNewest(mem[o].val.StackBegin, {p \in SavedFrames : p < o})
      BY DEF Inv, FrameChain
    <3> QED BY <3>1, <3>2, <1>9
  <2>2. IsNewest(mem'[begin].val.StackBegin, {p \in SavedFrames' : p < begin})
    <3>1. {p \in SavedFrames' : p < begin} = SavedFrames
      BY <1>4, <1>9
    <3>2. mem'[begin].val = frame
      BY <1>1, <1>8
    <3> QED BY <3>1, <3>2 DEF Inv, FrameChain
  <2> QED BY <1>9, <2>1, <2>2
<1>13. \A f \in ActiveFrames' : f.StackBegin = 0 <=> f.Function = Entrypoint
  <2>1. ActiveFrames' = {frame'} \cup ActiveFrames
    <3>1. \A o \in SavedFrames' : o \in SavedFrames \/ mem'[o].val = frame
      BY <1>1, <1>8, <1>9
    <3>2. mem'[begin].val = frame /\ begin \in SavedFrames'
      BY <1>1, <1>8, <1>9
    <3> QED BY <1>9, <3>1, <3>2 DEF ActiveFrames
  <2>2. frame'.StackBegin # 0 /\ frame'.Function # Entrypoint
    BY <1>2, <1>4, ProgramAssumption
  <2> QED BY <2>1, <2>2 DEF Inv, FrameChain
<1>14. FrameChain'
  BY <1>10, <1>11, <1>12, <1>13 DEF FrameChain, IsNewest
<1>15. TypeOK'
  <2>1. Len(locals) \in Nat /\ frame' \in StackFrame
    BY <1>2, <1>4, InvStack DEF StackFrame
  <2>2. locals' \in Seq(1 .. StackSize)
    <3>1. Arity[function] \in Nat
      BY ProgramAssumption
    <3>2. Offsets(walk, Arity[function]) \in Seq(1 .. StackSize)
      BY <3>1, ArgumentsTyped, InvStack
    <3> QED BY <1>2, <3>2, InvStack
  <2>3. depth' \in Nat /\ used' \in 0 .. StackSize
    BY <1>2, <1>4 DEF Inv, TypeOK
  <2> QED BY <1>6, <2>1, <2>2, <2>3 DEF TypeOK
<1> QED BY <1>7, <1>14, <1>15 DEF Inv

LEMMA CallFailsInv == \A function \in Callables : Inv /\ CallFails(function) => Inv'
<1> SUFFICES ASSUME NEW function \in Callables, Inv, CallFails(function) PROVE Inv'
  OBVIOUS
<1>1. Arity[function] \in Nat
  BY ProgramAssumption
<1> DEFINE index == IF function \in Natives THEN 0 ELSE -1
<1>2. PICK n \in 0 .. Arity[function] - 1 : \E walk \in Arguments(n) :
        /\ Occur(function, index, "STACK_EMPTY")
        /\ locals' = IF walk[n] = 0 THEN locals \o Offsets(walk, n) ELSE locals
  BY DEF CallFails
<1>3. PICK walk \in Arguments(n) :
        /\ Occur(function, index, "STACK_EMPTY")
        /\ locals' = IF walk[n] = 0 THEN locals \o Offsets(walk, n) ELSE locals
  BY <1>2
<1>4. Offsets(walk, n) \in Seq(1 .. StackSize)
  BY <1>1, ArgumentsTyped, InvStack
<1>5. locals' \in Seq(1 .. StackSize)
  <2>1. locals \o Offsets(walk, n) \in Seq(1 .. StackSize)
    BY <1>4, InvStack
  <2> QED BY <1>3, <2>1, InvStack
<1>6. "STACK_EMPTY" \in ExceptionCodes /\ index \in Int
  BY DEF ExceptionCodes
<1> QED BY <1>3, <1>5, <1>6, OccurKeeps

LEMMA CallFunctionInv == \A function \in Callables : Inv /\ CallFunction(function) => Inv'
<1> SUFFICES ASSUME NEW function \in Callables, Inv, CallFunction(function) PROVE Inv'
  OBVIOUS
<1>1. PICK walk \in Arguments(Arity[function]) : Enter(function, walk, 0) /\ UNCHANGED <<exception, status>>
  BY DEF CallFunction
<1>2. /\ exception' \in InterpreterException
      /\ status' \in {"running", "finished", "exception", "crashed"}
  BY <1>1 DEF Inv, TypeOK
<1> QED BY <1>1, <1>2, EnterInv

LEMMA CallNativeInv == \A function \in Callables : Inv /\ CallNative(function) => Inv'
<1> SUFFICES ASSUME NEW function \in Callables, Inv, CallNative(function) PROVE Inv'
  OBVIOUS
<1> DEFINE n == Arity[function]
<1>1. n \in Nat
  BY ProgramAssumption
<1>2. CASE \E walk \in Arguments(n) : NativeFails(function, walk)
  <2>1. CASE Crash
    BY <2>1, CrashKeeps
  <2>2. CASE ~Crash
    <3>1. PICK walk \in Arguments(n), code \in {"STDLIB", "STACK_EMPTY"} :
            /\ Enter(function, walk, 0)
            /\ exception' = [Function |-> function, InstructionIndex |-> 0, Code |-> code]
            /\ status' = "exception"
      BY <1>2, <2>2 DEF NativeFails
    <3>2. exception' \in InterpreterException
      BY <3>1 DEF InterpreterException, ExceptionCodes
    <3> QED BY <3>1, <3>2, EnterInv
  <2> QED BY <2>1, <2>2
<1>3. CASE /\ Advance /\ UNCHANGED locals
           /\ \/ \E s \in Shapes : \E value \in Values :
                   /\ used + 1 + ObjectSize[s] <= StackSize
                   /\ Return(function, used, NewObject(s, value))
              \/ Return(function, used, <<>>)
  <2>1. ASSUME NEW block \in Seq(Cells), BlockNested(block), Return(function, used, block),
               \A i \in 1 .. Len(block) : block[i].shape # NoneType,
               used + Len(block) <= StackSize
        PROVE  StackOK' /\ ObjectsNested' /\ KeepsFrames
    <3>1. PICK walk \in Walks(TypeSize, used, n) :
            used' = walk[n] + Len(block) /\ mem' = Placed(mem, block, used')
      BY <2>1 DEF Return
    <3>2. used \in 0 .. used /\ used \in 0 .. StackSize /\ mem \in [1 .. StackSize -> Cells]
          /\ NestedIn(mem, used)
      BY InvStack DEF StackOK, ObjectsNested
    <3>3. walk[n] \in 0 .. used /\ \A o \in walk[n] + 1 .. used : mem[o].shape # NoneType
      BY <1>1, <3>1, <3>2, WalkCrossesNoFrame
    <3> DEFINE t == walk[n]
    <3>4. t \in Nat /\ t <= used /\ t + Len(block) <= StackSize
      BY <2>1, <3>2, <3>3, InvStack
    <3> QED BY <2>1, <3>1, <3>3, <3>4, InvStack, BlockPlaced
  <2>2. CASE Return(function, used, <<>>)
    <3> DEFINE block == <<>>
    <3>1. /\ block \in Seq(Cells) /\ BlockNested(block) /\ Len(block) = 0
          /\ \A i \in 1 .. Len(block) : block[i].shape # NoneType
          /\ used + Len(block) <= StackSize
      BY InvStack DEF BlockNested, StackOK
    <3>2. Return(function, used, block)
      BY <2>2
    <3> HIDE DEF block
    <3>3. StackOK' /\ ObjectsNested' /\ KeepsFrames
      BY <2>1, <3>1, <3>2
    <3> QED BY <1>3, <3>3, AdvanceKeeps, InvStack
  <2>3. CASE \E s \in Shapes : \E value \in Values :
               /\ used + 1 + ObjectSize[s] <= StackSize
               /\ Return(function, used, NewObject(s, value))
    <3>1. PICK s \in Shapes, value \in Values :
            /\ used + 1 + ObjectSize[s] <= StackSize
            /\ Return(function, used, NewObject(s, value))
      BY <2>3
    <3> DEFINE block == NewObject(s, value)
    <3>2. s \in Shapes /\ ObjectSize[s] \in Nat
      BY SizeFacts DEF Shapes
    <3>3. /\ block \in Seq(Cells) /\ BlockNested(block) /\ Len(block) = ObjectSize[s]
          /\ \A i \in 1 .. Len(block) : block[i].shape # NoneType
      BY <3>2, NewObjectBlock
    <3> HIDE DEF block
    <3>4. used + Len(block) <= StackSize /\ Return(function, used, block)
      BY <3>1, <3>2, <3>3, InvStack DEF block
    <3>5. StackOK' /\ ObjectsNested' /\ KeepsFrames
      BY <2>1, <3>3, <3>4
    <3> QED BY <1>3, <3>5, AdvanceKeeps, InvStack
  <2> QED BY <1>3, <2>2, <2>3
<1> QED BY <1>2, <1>3 DEF CallNative

LEMMA CallInv == Inv /\ InterpretCall => Inv'
<1> SUFFICES ASSUME Inv, InterpretCall PROVE Inv'
  OBVIOUS
<1>1. PICK function \in Callables :
        \/ OccurException("STACK_OVERFLOW")
        \/ CallFails(function) \/ CallFunction(function) \/ CallNative(function)
  BY DEF InterpretCall
<1>2. "STACK_OVERFLOW" \in ExceptionCodes
  BY DEF ExceptionCodes
<1> QED BY <1>1, <1>2, OccurExceptionKeeps, CallFailsInv, CallFunctionInv, CallNativeInv

LEMMA RetInv == Inv /\ InterpretRet => Inv'
<1> SUFFICES ASSUME Inv, InterpretRet, ~ \E code \in ExceptionCodes : OccurException(code), ~Crash
             PROVE  Inv'
  BY OccurExceptionKeeps, CrashKeeps
<1> DEFINE function == frame.Function
           begin    == frame.StackBegin
           n        == Arity[function]
           result   == IF HasResult[function] THEN ObjectAt(used) ELSE <<>>
<1>1. CASE depth = 0
  <2>1. /\ frame' = [frame EXCEPT !.Caller = InstructionCount[function]]
        /\ UNCHANGED <<mem, used, depth, locals, exception, status>>
    BY <1>1 DEF InterpretRet
  <2>2. function = Entrypoint
    <3>1. SavedFrames = {}
      BY <1>1, SavedFramesFinite, FS_EmptySet, InvStack DEF Inv, FrameChain
    <3>2. begin = 0
      BY <3>1 DEF Inv, FrameChain, IsNewest
    <3> QED BY <3>2 DEF Inv, FrameChain, ActiveFrames
  <2>3. InstructionCount[function] \in Int
    BY <2>2, ProgramAssumption
  <2>4. StackOK' /\ ObjectsNested' /\ KeepsFrames
    BY <2>1, InvStack DEF StackOK, ObjectsNested, KeepsFrames, SavedFrames
  <2> QED BY <2>1, <2>3, <2>4, MoveKeeps, InvStack
<1>2. CASE depth # 0
  <2>1. /\ ~(HasResult[function] /\ (IsNull(used) \/ ~IsObject(mem[used])))
        /\ ~(frame.VariableBegin > Len(locals))
        /\ Return(function, begin - 1, result)
        /\ frame' = [mem[begin].val EXCEPT !.Caller = @ + 1]
        /\ locals' = SubSeq(locals, 1, frame.VariableBegin)
        /\ depth' = depth - 1
        /\ UNCHANGED <<exception, status>>
    <3>1. ~ OccurException("STACK_EMPTY")
      BY DEF ExceptionCodes
    <3> QED BY <1>2, <3>1 DEF InterpretRet
  \* The frame of the function is the newest saved frame.
  <2>2. /\ begin \in SavedFrames /\ \A o \in SavedFrames : o <= begin
        /\ IsFiniteSet(SavedFrames) /\ depth = Cardinality(SavedFrames)
    <3>1. IsFiniteSet(SavedFrames) /\ depth = Cardinality(SavedFrames)
      BY SavedFramesFinite, InvStack DEF Inv, FrameChain
    <3>2. SavedFrames # {}
      BY <1>2, <3>1, FS_EmptySet
    <3> QED BY <3>1, <3>2 DEF Inv, FrameChain, IsNewest
  <2>3. /\ begin \in 1 .. used /\ mem[begin].shape = NoneType /\ used \in Nat /\ StackSize \in Nat
        /\ used <= StackSize /\ mem \in [1 .. StackSize -> Cells] /\ NestedIn(mem, used)
    BY <2>2, InvStack DEF SavedFrames, StackOK, ObjectsNested
  <2>4. mem[begin].val \in StackFrame
    <3>1. mem[begin] \in Cells
      BY <2>3
    <3> QED BY <2>3, <3>1, ProgramAssumption DEF Cells, Raw
  <2>5. n \in Nat
    <3>1. function \in Callables \cup {Entrypoint} /\ function # Entrypoint
      BY <2>3 DEF Inv, FrameChain, ActiveFrames, TypeOK, StackFrame
    <3> QED BY <3>1, ProgramAssumption
  \* What it pops ends below its frame and above the frames of its callers.
  <2>6. PICK walk \in Walks(TypeSize, begin - 1, n) :
          used' = walk[n] + Len(result) /\ mem' = Placed(mem, result, used')
    BY <2>1 DEF Return
  <2> DEFINE t == walk[n]
  <2>7. t \in 0 .. begin - 1 /\ \A p \in t + 1 .. begin - 1 : mem[p].shape # NoneType
    <3>1. begin - 1 \in 0 .. used /\ used \in 0 .. StackSize
      BY <2>3
    <3>2. mem \in [1 .. StackSize -> Cells] /\ NestedIn(mem, used)
      BY <2>3
    <3> HIDE DEF n, begin
    <3> QED BY <2>5, <2>6, <3>1, <3>2, WalkCrossesNoFrame
  <2>8. /\ result \in Seq(Cells) /\ BlockNested(result) /\ Len(result) \in Nat
        /\ \A i \in 1 .. Len(result) : result[i].shape # NoneType
        /\ Len(result) <= used - begin
    <3>1. CASE ~HasResult[function]
      BY <2>3, <3>1 DEF BlockNested
    <3>2. CASE HasResult[function]
      <4>1. used \in 1 .. used /\ IsObject(mem[used]) /\ mem[used].shape # NoneType
        BY <2>1, <2>3, <3>2, ProgramAssumption DEF IsNull, IsObject
      <4>2. /\ result = ObjectAt(used) /\ result \in Seq(Cells) /\ BlockNested(result)
            /\ Len(result) = SizeOf(mem[used]) /\ SizeOf(mem[used]) \in 1 .. used
            /\ \A i \in 1 .. Len(result) : result[i].shape # NoneType
        <5>1. result = ObjectAt(used)
          BY <3>2
        <5>2. used \in 0 .. StackSize
          BY <2>3
        <5> HIDE DEF result
        <5> QED BY <2>3, <4>1, <5>1, <5>2, ObjectBlock
      <4>3. \A o \in used - SizeOf(mem[used]) + 1 .. used : mem[o].shape # NoneType
        BY <2>3, <4>1, InvStack, TopObject
      <4>4. begin <= used - SizeOf(mem[used])
        BY <2>3, <4>2, <4>3
      <4> QED BY <2>3, <4>2, <4>4
    <3> QED BY <3>1, <3>2
  <2> HIDE DEF result, t, begin, n
  <2>9. t \in Nat /\ t < begin /\ t <= used /\ t + Len(result) <= StackSize
    BY <2>3, <2>7, <2>8
  <2>10. /\ mem' = Placed(mem, result, t + Len(result)) /\ used' = t + Len(result)
         /\ mem' \in [1 .. StackSize -> Cells]
         /\ \A o \in 1 .. StackSize : o > used' => mem'[o] = Raw
    <3>1. mem' = Placed(mem, result, t + Len(result)) /\ used' = t + Len(result)
      BY <2>6 DEF t
    <3> QED BY <3>1, <2>3, <2>8, <2>9, PlacedTyped
  <2>11. ObjectsNested'
    BY <2>3, <2>8, <2>9, <2>10, NestedPlaced DEF ObjectsNested
  <2>12. SavedFrames' = SavedFrames \ {begin} /\ \A o \in SavedFrames' : mem'[o] = mem[o] /\ o < begin
    <3>1. \A o \in 1 .. t : mem'[o] = mem[o] /\ o \in 1 .. used /\ o < begin /\ o \in 1 .. used'
      BY <2>3, <2>8, <2>9, <2>10 DEF Placed
    <3>2. \A o \in t + 1 .. used' : mem'[o].shape # NoneType
      BY <2>3, <2>8, <2>9, <2>10 DEF Placed
    <3>3. \A o \in 1 .. used' : o \in 1 .. t \/ o \in t + 1 .. used'
      BY <2>9, <2>10
    <3>4. \A o \in SavedFrames \ {begin} : o \in 1 .. t
      <4>1. \A o \in SavedFrames \ {begin} : o \in 1 .. begin - 1 /\ mem[o].shape = NoneType
        BY <2>2, <2>3 DEF SavedFrames
      <4> QED BY <4>1, <2>7, <2>9
    <3> QED BY <3>1, <3>2, <3>3, <3>4, <2>3 DEF SavedFrames
  <2>13. depth' = Cardinality(SavedFrames') /\ depth' \in Nat
    <3>1. Cardinality(SavedFrames \ {begin}) = Cardinality(SavedFrames) - 1
      BY <2>2, FS_RemoveElement
    <3>2. IsFiniteSet(SavedFrames \ {begin})
      BY <2>2, FS_RemoveElement
    <3> QED BY <2>1, <2>2, <2>12, <3>1, <3>2, FS_CardinalityType
  <2>14. /\ frame' \in StackFrame /\ frame'.StackBegin = mem[begin].val.StackBegin
         /\ frame'.Function = mem[begin].val.Function
    BY <2>1, <2>4 DEF StackFrame, begin
  <2>15. IsNewest(frame'.StackBegin, SavedFrames')
    <3>1. {p \in SavedFrames : p < begin} = SavedFrames'
      <4>1. \A o \in SavedFrames : o \in Nat
        BY <2>3 DEF SavedFrames
      <4>2. \A o \in SavedFrames : o < begin <=> o # begin
        BY <4>1, <2>2, <2>3
      <4> QED BY <4>2, <2>12
    <3> QED BY <2>2, <2>14, <3>1 DEF Inv, FrameChain
  <2>16. \A o \in SavedFrames' : IsNewest(mem'[o].val.StackBegin, {p \in SavedFrames' : p < o})
    <3> SUFFICES ASSUME NEW o \in SavedFrames'
                 PROVE  IsNewest(mem'[o].val.StackBegin, {p \in SavedFrames' : p < o})
      OBVIOUS
    <3>1. o \in SavedFrames /\ mem'[o] = mem[o] /\ o < begin /\ o \in Nat
      BY <2>3, <2>12 DEF SavedFrames
    <3>2. {p \in SavedFrames' : p < o} = {p \in SavedFrames : p < o}
      BY <2>3, <2>12, <3>1
    <3> QED BY <3>1, <3>2 DEF Inv, FrameChain
  <2>17. \A f \in ActiveFrames' : f.StackBegin = 0 <=> f.Function = Entrypoint
    <3>1. \A o \in SavedFrames' : mem'[o].val \in ActiveFrames
      BY <2>12 DEF ActiveFrames
    <3>2. mem[begin].val \in ActiveFrames
      BY <2>2 DEF ActiveFrames
    <3>3. ActiveFrames' = {frame'} \cup {mem'[o].val : o \in SavedFrames'}
      BY DEF ActiveFrames
    <3> QED BY <2>14, <3>1, <3>2, <3>3 DEF Inv, FrameChain
  <2>18. FrameChain'
    BY <2>13, <2>15, <2>16, <2>17 DEF FrameChain, IsNewest
  <2>19. locals' \in Seq(1 .. StackSize)
    <3>1. frame.VariableBegin \in Nat /\ Len(locals) \in Nat
      BY InvStack DEF Inv, TypeOK, StackFrame
    <3>2. frame.VariableBegin <= Len(locals)
      BY <2>1, <3>1
    <3> QED BY <2>1, <3>1, <3>2, InvStack
  <2>20. TypeOK'
    <3>1. used' \in 0 .. StackSize
      BY <2>3, <2>8, <2>9, <2>10
    <3>2. UNCHANGED <<exception, status>>
      BY <2>1
    <3> QED BY <2>10, <2>13, <2>14, <2>19, <3>1, <3>2 DEF Inv, TypeOK
  <2> QED BY <2>11, <2>18, <2>20 DEF Inv
<1> QED BY <1>1, <1>2

LEMMA FallOffInv == Inv /\ FallOff => Inv'
<1> SUFFICES ASSUME Inv, FallOff, ~ \E code \in ExceptionCodes : OccurException(code) PROVE Inv'
  BY OccurExceptionKeeps
<1>1. status' = "finished" /\ UNCHANGED <<mem, used, frame, depth, locals, exception>>
  BY DEF FallOff, ExceptionCodes
<1>2. KeepsFrames
  BY <1>1 DEF KeepsFrames, SavedFrames
<1>3. FrameChain'
  BY <1>1, <1>2, ChainKept DEF Inv
<1> QED BY <1>1, <1>3 DEF Inv, TypeOK, ObjectsNested

LEMMA StutterInv == Inv /\ UNCHANGED vars => Inv'
<1> SUFFICES ASSUME Inv, UNCHANGED vars PROVE Inv'
  OBVIOUS
<1>1. KeepsFrames
  BY DEF vars, KeepsFrames, SavedFrames
<1>2. FrameChain'
  BY <1>1, ChainKept DEF vars, Inv
<1> QED BY <1>2 DEF vars, Inv, TypeOK, ObjectsNested

LEMMA NextInv ==
  ASSUME ~MixedSizes
  PROVE  Inv /\ [Next]_vars => Inv'
<1> SUFFICES ASSUME Inv, [Next]_vars PROVE Inv'
  OBVIOUS
<1>1. CASE InterpretPush BY <1>1, PushInv
<1>2. CASE InterpretAPush BY <1>2, APushInv
<1>3. CASE InterpretPop BY <1>3, PopInv
<1>4. CASE \E operand \in Operands : InterpretLoad(operand) BY <1>4, LoadInv
<1>5. CASE \E operand \in Operands : InterpretStore(operand) BY <1>5, StoreInv
<1>6. CASE InterpretCopy BY <1>6, CopyInv
<1>7. CASE InterpretSwap BY <1>7, SwapInv
<1>8. CASE InterpretOperation \/ InterpretDiv \/ InterpretCmp BY <1>8, BinaryInv
<1>9. CASE InterpretJmp BY <1>9, JmpInv
<1>10. CASE JumpCondition BY <1>10, JumpConditionInv
<1>11. CASE InterpretCall BY <1>11, CallInv
<1>12. CASE InterpretRet BY <1>12, RetInv
<1>13. CASE FallOff BY <1>13, FallOffInv
<1>14. CASE Stopped \/ UNCHANGED vars BY <1>14, StutterInv DEF Stopped
<1>15. CASE UnknownOperand BY <1>15, OccurExceptionKeeps DEF UnknownOperand, ExceptionCodes
<1>16. CASE InterpretNeg \/ TypeCast BY <1>16, UnaryInv
<1>17. CASE Unhandled BY <1>17, UnhandledInv
<1>18. CASE MemoryInstruction BY <1>18, MemoryInv
<1> QED
  BY <1>1, <1>2, <1>3, <1>4, <1>5, <1>6, <1>7, <1>8, <1>9, <1>10, <1>11, <1>12, <1>13, <1>14, <1>15,
     <1>16, <1>17, <1>18
  DEF Next, MemoryInstruction

-----------------------------------------------------------------------------

\* The invariant holds in every execution in which swap and store exchange objects of
\* one size, whatever else the bytecode does.  Here and below nothing is written through
\* a pointer into the stack, which CallStack leaves out.
THEOREM Invariance ==
  ASSUME ~MixedSizes
  PROVE  Spec => []Inv
<1>1. Init => Inv
  BY InitInv
<1>2. Inv /\ [Next]_vars => Inv'
  BY NextInv
<1> QED BY <1>1, <1>2, PTL DEF Spec

\* The stack, the frame, the list of locals and the exception keep their types: no
\* instruction grows the stack past its capacity or below its bottom, if swap and store
\* exchange objects of one size.
THEOREM TypeCorrectness ==
  ASSUME ~MixedSizes
  PROVE  Spec => []TypeOK
<1>1. Inv => TypeOK
  BY DEF Inv
<1> QED BY <1>1, Invariance, PTL

\* No instruction splits an object or lets one reach into a saved frame, if swap and
\* store exchange objects of one size: the run mixed_swap shows that the frames break
\* otherwise.
THEOREM Nesting ==
  ASSUME ~MixedSizes
  PROVE  Spec => []ObjectsNested
<1>1. Inv => ObjectsNested
  BY DEF Inv
<1> QED BY <1>1, Invariance, PTL

\* The saved frames on the stack are the chain of callers that m_Depth counts, so that
\* ret and GetCallStacks find their caller, in every execution in which swap and store
\* exchange objects of one size.
THEOREM CallerChain ==
  ASSUME ~MixedSizes
  PROVE  Spec => []FrameChain
<1>1. Inv => FrameChain
  BY DEF Inv
<1> QED BY <1>1, Invariance, PTL
=============================================================================
