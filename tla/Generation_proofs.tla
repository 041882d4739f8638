--------------------------- MODULE Generation_proofs ---------------------------
(***************************************************************************)
(* Proofs about Generation: its list of blocks stays a list of blocks, the *)
(* current one in it, whatever is allocated and collected; a sweep has     *)
(* room for what it keeps; empty blocks stay few; and cards follow the     *)
(* objects that are to be remembered.                                      *)
(***************************************************************************)
EXTENDS Generation, SequenceTheorems, FiniteSetTheorems, NaturalsInduction, WellFoundedInduction, TLAPS

-----------------------------------------------------------------------------
(* Numbers and recursion *)

\* A set of numbers has a least one.
LEMMA LeastNumber ==
  ASSUME NEW T, T \subseteq Nat, T # {}
  PROVE  \E x \in T : \A y \in T : x <= y
<1>1. PICK x \in T : \A y \in T : ~ (<<y, x>> \in OpToRel(<, Nat))
  BY NatLessThanWellFounded, WFMin
<1>2. \A y \in T : <<y, x>> \in Nat \X Nat
  BY <1>1
<1>3. \A y \in T : ~ (y < x)
  BY <1>1, <1>2 DEF OpToRel
<1>4. \A y \in T : x \in Nat /\ y \in Nat
  BY <1>1
<1> QED BY <1>3, <1>4

\* Numbers up to N that have 0, and the next of each below N, are all of them.
LEMMA UpTo ==
  ASSUME NEW N \in Nat, NEW T, 0 \in T, \A n \in 1 .. N : n - 1 \in T => n \in T
  PROVE  \A n \in 0 .. N : n \in T
<1> DEFINE missing == {n \in Nat : n \in 0 .. N /\ n \notin T}
<1>1. missing = {}
  <2> SUFFICES ASSUME missing # {} PROVE FALSE
    OBVIOUS
  <2>1. PICK n \in missing : \A m \in missing : n <= m
    <3>1. missing \subseteq Nat
      OBVIOUS
    <3> HIDE DEF missing
    <3> QED BY <3>1, LeastNumber
  <2>2. n \in 1 .. N /\ n \notin T
    BY <2>1
  <2>3. n - 1 \notin missing
    <3> HIDE DEF missing
    <3> QED BY <2>1, <2>2
  <2>4. n - 1 \in T
    BY <2>2, <2>3
  <2> QED BY <2>2, <2>4
<1> QED BY <1>1

\* The function f follows from the base by so many steps.
Follows(f, base, step, N) == f[0] = base /\ \A n \in 1 .. N : f[n] = step[<<n, f[n - 1]>>]

\* A base and a step, a function, define a function by recursion.
LEMMA Recursion ==
  \A S : \A N \in Nat : \A base \in S : \A step \in [(1 .. N) \X S -> S] :
    \E f \in [0 .. N -> S] : Follows(f, base, step, N)
<1> TAKE S
<1> SUFFICES ASSUME NEW N \in Nat, NEW base \in S, NEW step \in [(1 .. N) \X S -> S]
    PROVE \E f \in [0 .. N -> S] : f[0] = base /\ \A n \in 1 .. N : f[n] = step[<<n, f[n - 1]>>]
  BY DEF Follows
<1> DEFINE Holds(f, n) == f \in [0 .. n -> S] /\ f[0] = base /\ \A k \in 1 .. n : f[k] = step[<<k, f[k - 1]>>]
           T == {n \in 0 .. N : \E f : Holds(f, n)}
<1>1. 0 \in T
  <2>1. Holds([i \in 0 .. 0 |-> base], 0)
    OBVIOUS
  <2>2. 0 \in 0 .. N
    OBVIOUS
  <2> HIDE DEF Holds
  <2> QED BY <2>1, <2>2
<1>2. ASSUME NEW n \in 1 .. N, n - 1 \in T
      PROVE  n \in T
  <2>1. PICK f : Holds(f, n - 1)
    <3> HIDE DEF Holds
    <3> QED BY <1>2
  <2> DEFINE last == step[<<n, f[n - 1]>>]
             g    == [i \in 0 .. n |-> IF i = n THEN last ELSE f[i]]
  <2>2. f[n - 1] \in S
    BY <2>1
  <2>3. last \in S
    <3>1. <<n, f[n - 1]>> \in (1 .. N) \X S
      BY <2>2
    <3> QED BY <3>1
  <2> HIDE DEF last
  <2>4. g \in [0 .. n -> S] /\ g[0] = base
    BY <2>1, <2>3
  <2>5. g[n] = last /\ \A i \in 0 .. n - 1 : g[i] = f[i]
    OBVIOUS
  <2>6. ASSUME NEW k \in 1 .. n
        PROVE  g[k] = step[<<k, g[k - 1]>>]
    <3>1. CASE k = n
      <4>1. n - 1 \in 0 .. n - 1
        OBVIOUS
      <4> QED BY <2>5, <3>1, <4>1 DEF last
    <3>2. CASE k # n
      <4>1. k \in 1 .. n - 1 /\ k \in 0 .. n - 1 /\ k - 1 \in 0 .. n - 1
        BY <3>2
      <4>2. f[k] = step[<<k, f[k - 1]>>]
        BY <2>1, <4>1
      <4> HIDE DEF g
      <4> QED BY <2>5, <4>1, <4>2
    <3> QED BY <3>1, <3>2
  <2>7. Holds(g, n)
    <3> HIDE DEF g
    <3> QED BY <2>4, <2>6
  <2> HIDE DEF Holds, g
  <2> QED BY <2>7
<1> HIDE DEF T
<1>3. N \in T
  BY <1>1, <1>2, UpTo
<1> QED BY <1>3 DEF T

\* Division by the size of a card.
LEMMA CardFacts ==
  ASSUME NEW a \in Int
  PROVE  /\ Card(a) \in Int /\ Card(a) * CardSize \in Int /\ Card(a) * CardSize <= a /\ a < Card(a) * CardSize + CardSize
         /\ a >= 0 => Card(a) \in Nat
         /\ a % CardSize = 0 => a = Card(a) * CardSize
<1>1. CardSize \in Nat \ {0}
  BY GenerationAssumption
<1>2. a \div CardSize \in Int /\ a % CardSize \in 0 .. CardSize - 1 /\ a = CardSize * (a \div CardSize) + (a % CardSize)
  <2>1. \A d \in Nat \ {0}, x \in Int : x \div d \in Int /\ x % d \in 0 .. d - 1 /\ x = d * (x \div d) + (x % d)
    OBVIOUS
  <2> QED BY <1>1, <2>1
<1> DEFINE q == a \div CardSize
<1>3. q * CardSize = CardSize * q
  BY <1>1, <1>2
<1>4. ASSUME a >= 0
      PROVE  q \in Nat
  <2> SUFFICES ASSUME ~(q >= 0) PROVE FALSE
    BY <1>2
  <2>1. \A d \in Nat \ {0}, x \in Int : ~(x >= 0) => d * x <= -d
    OBVIOUS
  <2>2. q \in Int /\ a % CardSize <= CardSize - 1 /\ a % CardSize \in Int /\ a = CardSize * q + (a % CardSize)
    BY <1>2
  <2> HIDE DEF q
  <2>3. CardSize * q <= -CardSize /\ CardSize * q \in Int
    BY <1>1, <2>1, <2>2
  <2> QED BY <1>1, <1>4, <2>2, <2>3
<1>5. Card(a) = q
  BY DEF Card
<1> HIDE DEF q
<1>6. q \in Int /\ a % CardSize \in 0 .. CardSize - 1 /\ a = CardSize * q + (a % CardSize)
  BY <1>2 DEF q
<1>7. \A x, y \in Int : x * y \in Int
  OBVIOUS
<1> QED BY <1>1, <1>3, <1>4, <1>5, <1>6, <1>7

-----------------------------------------------------------------------------
(* Objects, blocks and lists of blocks *)

BlockSizes == Sizes \cup {DefaultBlockSize}
AnObject == [size : Sizes, remembered : BOOLEAN]
ABlock == [begin : Places, size : BlockSizes, objects : Seq(AnObject)]

LEMMA ConstantFacts ==
  /\ DefaultBlockSize \in Nat \ {0} /\ YoungBlockSize \in Nat \ {0} /\ EmptyBlocks \in Nat \ {0} /\ CardSize \in Nat \ {0}
  /\ YoungBlockSize <= DefaultBlockSize
  /\ \A size \in BlockSizes : size \in Nat \ {0}
  /\ \A size \in Sizes : size \in Nat \ {0}
  /\ \A place \in Places : place \in Nat
  /\ \A p, q \in Places : p < q => \A size \in BlockSizes : p + size <= q
BY GenerationAssumption DEF BlockSizes

LEMMA ObjectFacts ==
  ASSUME NEW objects \in Seq(AnObject)
  PROVE  Len(objects) \in Nat /\ \A n \in 1 .. Len(objects) : objects[n] \in AnObject /\ objects[n].size \in Nat \ {0}
<1>1. \A object \in AnObject : object.size \in Nat \ {0}
  BY ConstantFacts DEF AnObject
<1>2. Len(objects) \in Nat /\ \A n \in 1 .. Len(objects) : objects[n] \in AnObject
  OBVIOUS
<1> QED BY <1>1, <1>2

\* What Filled counts: nothing of no objects, more with every object.
LEMMA FilledDefined ==
  ASSUME NEW objects \in Seq(AnObject)
  PROVE  /\ Filled(objects) \in [0 .. Len(objects) -> Nat]
         /\ Filled(objects)[0] = 0
         /\ \A n \in 1 .. Len(objects) : Filled(objects)[n] = Filled(objects)[n - 1] + objects[n].size
<1> DEFINE N == Len(objects)
           step == [p \in (1 .. N) \X Nat |-> p[2] + objects[p[1]].size]
           Body(f) == [n \in 0 .. N |-> IF n = 0 THEN 0 ELSE f[n - 1] + objects[n].size]
<1>1. N \in Nat /\ \A n \in 1 .. N : objects[n].size \in Nat
  BY ObjectFacts
<1>2. step \in [(1 .. N) \X Nat -> Nat]
  BY <1>1
<1>3. \A n \in 1 .. N, x \in Nat : step[<<n, x>>] = x + objects[n].size
  OBVIOUS
<1> HIDE DEF step
<1>4. PICK f \in [0 .. N -> Nat] : Follows(f, 0, step, N)
  <2>1. 0 \in Nat
    OBVIOUS
  <2> HIDE DEF N
  <2> QED BY <1>1, <1>2, <2>1, Recursion
<1>5. \A n \in 1 .. N : f[n] = f[n - 1] + objects[n].size
  <2> HIDE DEF N
  <2>1. \A n \in 1 .. N : n - 1 \in 0 .. N
    BY <1>1
  <2>2. \A n \in 1 .. N : f[n - 1] \in Nat
    BY <2>1
  <2> QED BY <1>3, <1>4, <2>2 DEF Follows
<1>6. f = Body(f)
  BY <1>1, <1>4, <1>5 DEF Follows
<1>7. Filled(objects) = CHOOSE g : g = Body(g)
  BY Zenon DEF Filled
<1>8. Filled(objects) = Body(Filled(objects))
  <2> HIDE DEF Body
  <2> QED BY <1>6, <1>7
<1> DEFINE h == Filled(objects)
<1>9. h = [n \in 0 .. N |-> IF n = 0 THEN 0 ELSE h[n - 1] + objects[n].size]
  BY <1>8
<1> HIDE DEF h
<1>10. h[0] = 0 /\ \A n \in 1 .. N : h[n] = h[n - 1] + objects[n].size
  <2>1. 0 \in 0 .. N
    BY <1>1
  <2>2. \A n \in 1 .. N : n \in 0 .. N /\ n # 0
    BY <1>1
  <2> HIDE DEF N
  <2> QED BY <1>9, <2>1, <2>2
<1>11. \A n \in 0 .. N : n \in {m \in 0 .. N : h[m] \in Nat}
  <2> DEFINE T == {m \in 0 .. N : h[m] \in Nat}
  <2>1. 0 \in T
    BY <1>1, <1>10
  <2>2. ASSUME NEW n \in 1 .. N, n - 1 \in T PROVE n \in T
    <3>1. n \in 0 .. N /\ h[n - 1] \in Nat
      BY <1>1, <2>2
    <3> QED BY <1>1, <1>10, <3>1
  <2> HIDE DEF T, N
  <2> QED BY <1>1, <2>1, <2>2, UpTo DEF T
<1>12. h \in [0 .. N -> Nat]
  <2> HIDE DEF N
  <2> QED BY <1>9, <1>11
<1> QED BY <1>10, <1>12 DEF h

\* Filled grows with the number of objects, and so do objects make no block smaller.
LEMMA FilledGrows ==
  ASSUME NEW objects \in Seq(AnObject), NEW n \in 0 .. Len(objects), NEW m \in 0 .. n
  PROVE  Filled(objects)[m] <= Filled(objects)[n]
<1> DEFINE f == Filled(objects)
           T == {k \in 0 .. Len(objects) : m <= k => f[m] <= f[k]}
<1>1. /\ Len(objects) \in Nat /\ \A k \in 0 .. Len(objects) : f[k] \in Nat
      /\ \A k \in 1 .. Len(objects) : f[k] = f[k - 1] + objects[k].size
  BY FilledDefined
<1>2. \A k \in 1 .. Len(objects) : objects[k].size \in Nat
  BY ObjectFacts
<1> HIDE DEF f
<1>3. 0 \in T
  BY <1>1
<1>4. ASSUME NEW k \in 1 .. Len(objects), k - 1 \in T PROVE k \in T
  <2>1. k \in 0 .. Len(objects) /\ f[k] = f[k - 1] + objects[k].size /\ f[k - 1] \in Nat /\ objects[k].size \in Nat
    BY <1>1, <1>2
  <2>2. k - 1 \in 0 .. Len(objects) /\ (m <= k - 1 => f[m] <= f[k - 1])
    BY <1>4
  <2>3. CASE m = k
    BY <2>1, <2>3
  <2>4. CASE m # k
    <3>1. m \in Int /\ k \in Int /\ (m <= k => m <= k - 1)
      BY <2>4
    <3>2. m <= k => f[m] \in Nat
      BY <1>1, <2>1
    <3> QED BY <2>1, <2>2, <3>1, <3>2
  <2> QED BY <2>3, <2>4
<1> HIDE DEF T
<1>5. n \in T
  BY <1>1, <1>3, <1>4, UpTo
<1> QED BY <1>5 DEF T, f

\* An object is as many bytes as lie between its header and the one before it.
LEMMA FilledPositive ==
  ASSUME NEW objects \in Seq(AnObject), NEW n \in 1 .. Len(objects)
  PROVE  Filled(objects)[n] \in Nat \ {0} /\ Filled(objects)[n] <= Filled(objects)[Len(objects)]
<1>1. objects[n].size \in Nat \ {0} /\ Len(objects) \in Nat
  BY ObjectFacts
<1>2. n - 1 \in 0 .. Len(objects) /\ Len(objects) \in 0 .. Len(objects) /\ n \in 0 .. Len(objects)
  BY <1>1
<1>3. Filled(objects)[n - 1] \in Nat /\ Filled(objects)[n] = Filled(objects)[n - 1] + objects[n].size
  BY <1>2, FilledDefined
<1>4. Filled(objects)[n] <= Filled(objects)[Len(objects)]
  BY <1>2, FilledGrows
<1> QED BY <1>1, <1>3, <1>4

\* The objects below a new one are filled as they were.
LEMMA FilledAppend ==
  ASSUME NEW objects \in Seq(AnObject), NEW object \in AnObject
  PROVE  /\ Append(objects, object) \in Seq(AnObject) /\ Len(Append(objects, object)) = Len(objects) + 1
         /\ \A n \in 0 .. Len(objects) : Filled(Append(objects, object))[n] = Filled(objects)[n]
         /\ Filled(Append(objects, object))[Len(objects) + 1] = Filled(objects)[Len(objects)] + object.size
<1> DEFINE more == Append(objects, object)
           N == Len(objects)
           T == {n \in 0 .. N : Filled(more)[n] = Filled(objects)[n]}
<1>1. more \in Seq(AnObject) /\ Len(more) = N + 1 /\ N \in Nat /\ more[N + 1] = object /\ \A n \in 1 .. N : more[n] = objects[n]
  OBVIOUS
<1> HIDE DEF more
<1>2. 0 \in T
  BY <1>1, FilledDefined
<1>3. ASSUME NEW n \in 1 .. N, n - 1 \in T PROVE n \in T
  <2>1. n \in 1 .. Len(more) /\ more[n] = objects[n] /\ n \in 0 .. N
    BY <1>1
  <2>2. Filled(more)[n] = Filled(more)[n - 1] + more[n].size /\ Filled(objects)[n] = Filled(objects)[n - 1] + objects[n].size
    BY <1>1, <2>1, FilledDefined
  <2> QED BY <1>3, <2>1, <2>2
<1>4. \A n \in 0 .. N : n \in T
  <2> HIDE DEF T
  <2> QED BY <1>1, <1>2, <1>3, UpTo
<1>5. Filled(more)[N + 1] = Filled(more)[N] + object.size
  <2>1. N + 1 \in 1 .. Len(more) /\ (N + 1) - 1 = N
    BY <1>1
  <2> QED BY <1>1, <2>1, FilledDefined
<1>6. Filled(more)[N] = Filled(objects)[N]
  BY <1>1, <1>4
<1> QED BY <1>1, <1>4, <1>5, <1>6 DEF more

\* Blocks lie apart, are at least as large as the default, and hold no more than they can.
Proper(list) ==
  /\ list \in Seq(ABlock)
  /\ \A i \in DOMAIN list : list[i].size >= DefaultBlockSize /\ Used(list[i]) <= list[i].size
  /\ \A i, j \in DOMAIN list : list[i].begin = list[j].begin => i = j

LEMMA BlockFacts ==
  ASSUME NEW block \in ABlock
  PROVE  /\ block.begin \in Places /\ block.begin \in Nat /\ block.size \in BlockSizes /\ block.size \in Nat \ {0}
         /\ block.objects \in Seq(AnObject) /\ Len(block.objects) \in Nat /\ Used(block) \in Nat
<1>1. block.begin \in Places /\ block.size \in BlockSizes /\ block.objects \in Seq(AnObject)
  BY DEF ABlock
<1>2. Len(block.objects) \in 0 .. Len(block.objects) /\ Len(block.objects) \in Nat
  BY <1>1
<1>3. Used(block) \in Nat
  BY <1>1, <1>2, FilledDefined DEF Used
<1> QED BY <1>1, <1>2, <1>3, ConstantFacts

\* A block with other objects.
LEMMA WithObjects ==
  ASSUME NEW block \in ABlock, NEW objects \in Seq(AnObject)
  PROVE  /\ [block EXCEPT !.objects = objects] = [begin |-> block.begin, size |-> block.size, objects |-> objects]
         /\ [block EXCEPT !.objects = objects] \in ABlock
<1>1. PICK b \in Places, s \in BlockSizes, o \in Seq(AnObject) : block = [begin |-> b, size |-> s, objects |-> o]
  BY DEF ABlock
<1>2. block.begin = b /\ block.size = s
  BY <1>1
<1>3. [block EXCEPT !.objects = objects] = [begin |-> b, size |-> s, objects |-> objects]
  BY <1>1
<1>4. [begin |-> b, size |-> s, objects |-> objects] \in ABlock
  BY DEF ABlock
<1> QED BY <1>2, <1>3, <1>4

\* The header of an object lies in its block.
LEMMA HeaderInBlock ==
  ASSUME NEW block \in ABlock, Used(block) <= block.size, NEW j \in 1 .. Len(block.objects)
  PROVE  Header(block, j) \in block.begin .. block.begin + block.size - 1 /\ Header(block, j) \in Nat
<1> DEFINE f == Filled(block.objects)[j]
<1>1. f \in Nat \ {0} /\ f <= Used(block) /\ Used(block) \in Nat
  BY BlockFacts, FilledPositive DEF Used
<1>2. block.begin \in Nat /\ block.size \in Nat
  BY BlockFacts
<1>3. Header(block, j) = block.begin + block.size - f
  BY DEF Header
<1> HIDE DEF f
<1> QED BY <1>1, <1>2, <1>3

\* The first byte of the card lies in the block, or the card begins before the block does.
Covers(block, card) ==
  \/ card * CardSize \in block.begin .. block.begin + block.size - 1
  \/ Card(block.begin) = card /\ block.begin % CardSize # 0

LEMMA HeaderCovered ==
  ASSUME NEW block \in ABlock, Used(block) <= block.size, NEW j \in 1 .. Len(block.objects)
  PROVE  /\ Card(Header(block, j)) \in Nat
         /\ Covers(block, Card(Header(block, j)))
         /\ Card(Header(block, j)) * CardSize >= block.begin =>
              Card(Header(block, j)) * CardSize \in block.begin .. block.begin + block.size - 1
<1> DEFINE h == Header(block, j)
           c == Card(h)
           b == block.begin
<1>1. h \in b .. b + block.size - 1 /\ h \in Nat /\ b \in Nat /\ block.size \in Nat
  BY HeaderInBlock, BlockFacts
<1> HIDE DEF h, b
<1>2. c \in Nat /\ c * CardSize <= h /\ h < c * CardSize + CardSize /\ CardSize \in Nat \ {0} /\ c * CardSize \in Int
  BY <1>1, CardFacts, ConstantFacts
<1> HIDE DEF c
<1>3. c * CardSize >= b => c * CardSize \in b .. b + block.size - 1
  BY <1>1, <1>2
<1>4. ASSUME ~(c * CardSize >= b)
      PROVE  Card(b) = c /\ b % CardSize # 0
  <2> DEFINE d == Card(b)
  <2>1. d \in Int /\ d * CardSize \in Int /\ d * CardSize <= b /\ b < d * CardSize + CardSize /\ (b % CardSize = 0 => b = d * CardSize)
    BY <1>1, CardFacts
  <2> HIDE DEF d
  <2>2. d = c
    <3>1. c * CardSize < d * CardSize + CardSize /\ d * CardSize < c * CardSize + CardSize
      <4> DEFINE x == c * CardSize
                 y == d * CardSize
      <4>1. x \in Int /\ x <= h /\ h < x + CardSize /\ ~(x >= b)
        BY <1>2, <1>4
      <4>2. y \in Int /\ y <= b /\ b < y + CardSize
        BY <2>1
      <4>3. h \in Int /\ b \in Int /\ b <= h /\ CardSize \in Int
        BY <1>1, <1>2
      <4> HIDE DEF x, y
      <4>4. x < y + CardSize /\ y < x + CardSize
        BY <4>1, <4>2, <4>3
      <4> QED BY <4>4 DEF x, y
    <3>2. \A s \in Nat \ {0}, x, y \in Int : x * s < y * s + s => x < y + 1
      <4> TAKE s \in Nat \ {0}, x \in Int, y \in Int
      <4>1. (y + 1) * s = y * s + s
        OBVIOUS
      <4>2. ASSUME x >= y + 1 PROVE x * s >= (y + 1) * s
        <5>1. (x - (y + 1)) * s >= 0
          BY <4>2
        <5> QED BY <5>1
      <4> QED BY <4>1, <4>2
    <3>3. c < d + 1 /\ d < c + 1
      BY <1>2, <2>1, <3>1, <3>2
    <3> QED BY <1>2, <2>1, <3>3
  <2>3. b # d * CardSize
    BY <1>1, <1>2, <1>4, <2>2
  <2> QED BY <2>1, <2>2, <2>3 DEF d
<1> QED BY <1>2, <1>3, <1>4 DEF h, c, b, Covers

\* No byte lies in two blocks.
LEMMA FoundInOne ==
  ASSUME NEW list, Proper(list), NEW i \in DOMAIN list,
         NEW address \in list[i].begin .. list[i].begin + list[i].size - 1
  PROVE  FindBlock(list, address) = {i}
<1>1. \A k \in DOMAIN list : list[k].begin \in Places /\ list[k].begin \in Nat /\ list[k].size \in BlockSizes /\ list[k].size \in Nat
  BY BlockFacts DEF Proper
<1>2. ASSUME NEW k \in DOMAIN list, address \in list[k].begin .. list[k].begin + list[k].size - 1
      PROVE  k = i
  <2> DEFINE b == list[i].begin
             c == list[k].begin
  <2>1. /\ b \in Places /\ b \in Nat /\ list[i].size \in BlockSizes /\ list[i].size \in Nat
        /\ c \in Places /\ c \in Nat /\ list[k].size \in BlockSizes /\ list[k].size \in Nat
    BY <1>1
  <2>2. address \in Int /\ b <= address /\ address < b + list[i].size /\ c <= address /\ address < c + list[k].size
    BY <1>2, <2>1
  <2> HIDE DEF b, c
  <2>3. (b < c => b + list[i].size <= c) /\ (c < b => c + list[k].size <= b)
    BY <2>1, ConstantFacts
  <2>4. b = c
    BY <2>1, <2>2, <2>3
  <2> QED BY <2>4 DEF b, c, Proper
<1> QED BY <1>2 DEF FindBlock

\* t is s with e at the place i.
IsInsertion(S, s, i, e, t) ==
  /\ t \in Seq(S) /\ Len(t) = Len(s) + 1
  /\ t[i] = e
  /\ \A k \in 1 .. i - 1 : t[k] = s[k]
  /\ \A k \in i + 1 .. Len(s) + 1 : t[k] = s[k - 1]

LEMMA InsertAtFacts ==
  ASSUME NEW S, NEW s \in Seq(S), NEW e \in S, NEW i \in 1 .. Len(s) + 1
  PROVE  IsInsertion(S, s, i, e, InsertAt(s, i, e))
<1> DEFINE a == SubSeq(s, 1, i - 1)
           b == a \o <<e>>
           c == SubSeq(s, i, Len(s))
<1>1. a \in Seq(S) /\ Len(a) = i - 1 /\ \A k \in 1 .. i - 1 : a[k] = s[k]
  BY SubSeqProperties
<1>2. c \in Seq(S) /\ Len(c) = Len(s) + 1 - i /\ \A k \in 1 .. Len(s) + 1 - i : c[k] = s[i + k - 1]
  BY SubSeqProperties
<1> HIDE DEF a, c
<1>3. b \in Seq(S) /\ Len(b) = i /\ b[i] = e /\ \A k \in 1 .. i - 1 : b[k] = a[k]
  <2>1. <<e>> \in Seq(S) /\ Len(<<e>>) = 1 /\ <<e>>[1] = e
    OBVIOUS
  <2> QED BY <1>1, <2>1, ConcatProperties
<1> HIDE DEF b
<1>4. /\ b \o c \in Seq(S) /\ Len(b \o c) = Len(b) + Len(c)
      /\ \A k \in 1 .. Len(b) + Len(c) : (b \o c)[k] = IF k <= Len(b) THEN b[k] ELSE c[k - Len(b)]
  BY <1>2, <1>3, ConcatProperties
<1>5. InsertAt(s, i, e) = b \o c
  BY DEF InsertAt, a, b, c
<1> DEFINE d == b \o c
<1> HIDE DEF d
<1>6. /\ d \in Seq(S) /\ Len(d) = Len(s) + 1
      /\ \A k \in 1 .. Len(s) + 1 : d[k] = IF k <= i THEN b[k] ELSE c[k - i]
  BY <1>2, <1>3, <1>4 DEF d
<1>7. d[i] = e /\ \A k \in 1 .. i - 1 : d[k] = s[k]
  BY <1>1, <1>3, <1>6
<1>8. ASSUME NEW k \in i + 1 .. Len(s) + 1 PROVE d[k] = s[k - 1]
  <2>1. k \in 1 .. Len(s) + 1 /\ ~(k <= i) /\ k - i \in 1 .. Len(s) + 1 - i /\ i + (k - i) - 1 = k - 1
    OBVIOUS
  <2> QED BY <1>2, <1>6, <2>1
<1> QED BY <1>5, <1>6, <1>7, <1>8 DEF d, IsInsertion

-----------------------------------------------------------------------------
(* The ring of blocks *)

LEMMA RingFacts ==
  ASSUME NEW list \in Seq(ABlock), NEW i \in DOMAIN list
  PROVE  /\ Len(list) \in Nat \ {0} /\ DOMAIN list = 1 .. Len(list)
         /\ PrevBlock(list, i) \in DOMAIN list /\ NextBlock(list, i) \in DOMAIN list
         /\ Before(list, i, 0) = i
         /\ \A n \in 0 .. Len(list) - 1 : Before(list, i, n) \in DOMAIN list
         /\ \A n \in 1 .. Len(list) - 1 : Before(list, i, n) = PrevBlock(list, Before(list, i, n - 1))
         /\ \A n, m \in 0 .. Len(list) - 1 : Before(list, i, n) = Before(list, i, m) => n = m
<1> DEFINE N == Len(list)
<1>1. N \in Nat /\ DOMAIN list = 1 .. N /\ i \in 1 .. N
  OBVIOUS
<1>2. N = Len(list)
  OBVIOUS
<1> HIDE DEF N
<1>3. N \in Nat \ {0} /\ i \in Int
  BY <1>1
<1>4. PrevBlock(list, i) \in 1 .. N /\ NextBlock(list, i) \in 1 .. N /\ Before(list, i, 0) = i
  BY <1>1, <1>2, <1>3 DEF PrevBlock, NextBlock, Before
<1>5. \A n \in 0 .. N - 1 : Before(list, i, n) \in 1 .. N
  BY <1>1, <1>2, <1>3 DEF Before
<1>6. \A n \in 1 .. N - 1 : Before(list, i, n) = PrevBlock(list, Before(list, i, n - 1))
  BY <1>1, <1>2, <1>3 DEF Before, PrevBlock
<1>7. \A n, m \in 0 .. N - 1 : Before(list, i, n) = Before(list, i, m) => n = m
  BY <1>1, <1>2, <1>3 DEF Before
<1> QED BY <1>1, <1>2, <1>3, <1>4, <1>5, <1>6, <1>7

-----------------------------------------------------------------------------
(* The sweep as a recursion *)

\* The sweep of N blocks.
ASweep(N) == [list : [1 .. N -> ABlock], fill : 1 .. N, moves : SUBSET (Int \X Int), lost : BOOLEAN]

\* Where the object <<i, j>> of the list is kept.
FillFor(list, sweep, i, j) ==
  IF HasRoom(sweep.list[sweep.fill], list[i].objects[j].size) THEN sweep.fill ELSE NextToFill(list, sweep.fill)

\* What one survivor changes: it is appended to the block that is filled.
Kept(list, sweep, i, j, result, fill) ==
  LET object == list[i].objects[j]
      block  == sweep.list[fill]
      kept   == result.list[fill]
  IN  /\ result \in ASweep(Len(list)) /\ fill \in 1 .. Len(list) /\ object \in AnObject
      /\ result.fill = fill
      /\ block \in ABlock /\ kept \in ABlock
      /\ kept.begin = block.begin /\ kept.size = block.size
      /\ kept.objects = Append(block.objects, object)
      /\ Used(kept) = Used(block) + object.size
      /\ \A k \in 1 .. Len(block.objects) : Header(kept, k) = Header(block, k)
      /\ \A k \in 1 .. Len(list) : k # fill => result.list[k] = sweep.list[k]
      /\ result.moves = sweep.moves \cup {<<Card(Header(list[i], j)), Card(Header(kept, Len(kept.objects)))>>}
      /\ result.lost = (sweep.lost \/ fill = i \/ ~HasRoom(block, object.size))

LEMMA KeepFacts ==
  ASSUME NEW list \in Seq(ABlock), NEW sweep \in ASweep(Len(list)),
         NEW i \in DOMAIN list, NEW j \in 1 .. Len(list[i].objects)
  PROVE  Kept(list, sweep, i, j, Keep(list, sweep, <<i, j>>), FillFor(list, sweep, i, j))
<1> DEFINE N      == Len(list)
           object == list[i].objects[j]
           fill   == FillFor(list, sweep, i, j)
           block  == sweep.list[fill]
           kept   == [block EXCEPT !.objects = Append(@, object)]
           move   == <<Card(Header(list[i], j)), Card(Header(kept, Len(kept.objects)))>>
           result == Keep(list, sweep, <<i, j>>)
<1>1. N \in Nat /\ i \in 1 .. N /\ list[i] \in ABlock
  OBVIOUS
<1>2. list[i].objects \in Seq(AnObject) /\ object \in AnObject
  BY <1>1, BlockFacts, ObjectFacts
<1>3. sweep.list \in [1 .. N -> ABlock] /\ sweep.fill \in 1 .. N /\ sweep.moves \in SUBSET (Int \X Int) /\ sweep.lost \in BOOLEAN
  BY DEF ASweep
<1>4. fill \in 1 .. N
  BY <1>1, <1>3, RingFacts DEF FillFor, NextToFill
<1>5. result = [list  |-> [sweep.list EXCEPT ![fill] = kept], fill  |-> fill, moves |-> sweep.moves \cup {move},
                lost  |-> sweep.lost \/ fill = i \/ ~HasRoom(block, object.size)]
  BY DEF Keep, FillFor
<1>6. block \in ABlock
  BY <1>3, <1>4
<1> HIDE DEF N, fill, result, object
<1> USE DEF block
<1> HIDE DEF block
<1>7. /\ block.objects \in Seq(AnObject) /\ block.begin \in Places /\ block.size \in BlockSizes
  BY <1>6, BlockFacts
<1>8. kept = [begin |-> block.begin, size |-> block.size, objects |-> Append(block.objects, object)]
  <2>1. Append(block.objects, object) \in Seq(AnObject)
    BY <1>2, <1>7
  <2> QED BY <1>6, <2>1, WithObjects
<1>9. /\ Append(block.objects, object) \in Seq(AnObject)
      /\ Len(Append(block.objects, object)) = Len(block.objects) + 1
      /\ \A n \in 0 .. Len(block.objects) : Filled(Append(block.objects, object))[n] = Filled(block.objects)[n]
      /\ Filled(Append(block.objects, object))[Len(block.objects) + 1] = Filled(block.objects)[Len(block.objects)] + object.size
  BY <1>2, <1>7, FilledAppend
<1>10. kept \in ABlock /\ kept.begin = block.begin /\ kept.size = block.size /\ kept.objects = Append(block.objects, object)
  <2> HIDE DEF kept
  <2> QED BY <1>7, <1>8, <1>9 DEF ABlock
<1> HIDE DEF kept
<1>11. Used(kept) = Used(block) + object.size
  BY <1>9, <1>10 DEF Used
<1>12. \A k \in 1 .. Len(block.objects) : Header(kept, k) = Header(block, k)
  BY <1>9, <1>10 DEF Header
<1>13. move \in Int \X Int
  <2>1. \A b \in ABlock : \A k \in 0 .. Len(b.objects) : Header(b, k) \in Int
    <3> TAKE b \in ABlock
    <3> TAKE k \in 0 .. Len(b.objects)
    <3>1. Filled(b.objects)[k] \in Nat
      BY BlockFacts, FilledDefined
    <3>2. b.begin \in Nat /\ b.size \in Nat
      BY BlockFacts
    <3> QED BY <3>1, <3>2 DEF Header
  <2>2. j \in 0 .. Len(list[i].objects) /\ Len(kept.objects) \in 0 .. Len(kept.objects)
    BY <1>9, <1>10
  <2>3. Header(list[i], j) \in Int /\ Header(kept, Len(kept.objects)) \in Int
    BY <1>1, <1>10, <2>1, <2>2
  <2> QED BY <2>3, CardFacts
<1>14. move = <<Card(Header(list[i], j)), Card(Header(kept, Len(kept.objects)))>>
  OBVIOUS
<1> HIDE DEF move
<1>15. /\ result.list = [sweep.list EXCEPT ![fill] = kept] /\ result.fill = fill /\ result.moves = sweep.moves \cup {move}
       /\ result.lost = (sweep.lost \/ fill = i \/ ~HasRoom(block, object.size))
       /\ result \in ASweep(N)
  <2>1. [sweep.list EXCEPT ![fill] = kept] \in [1 .. N -> ABlock]
    BY <1>3, <1>4, <1>10
  <2>2. sweep.moves \cup {move} \in SUBSET (Int \X Int)
    BY <1>3, <1>13
  <2>3. (sweep.lost \/ fill = i \/ ~HasRoom(block, object.size)) \in BOOLEAN
    OBVIOUS
  <2> QED BY <1>4, <1>5, <2>1, <2>2, <2>3 DEF ASweep
<1>16. result.list[fill] = kept /\ \A k \in 1 .. N : k # fill => result.list[k] = sweep.list[k]
  BY <1>3, <1>4, <1>15
<1> QED BY <1>2, <1>4, <1>6, <1>10, <1>11, <1>12, <1>14, <1>15, <1>16 DEF N, fill, result, object, block, Kept

\* What a block's sweep does with its objects, one after the other.
LEMMA SweptObjectsDefined ==
  ASSUME NEW list \in Seq(ABlock), NEW begun \in ASweep(Len(list)), NEW i \in DOMAIN list, NEW survivors
  PROVE  LET swept == SweptObjects(list, begun, i, survivors)
             count == Len(list[i].objects)
         IN  /\ swept \in [0 .. count -> ASweep(Len(list))] /\ swept[0] = begun /\ count \in Nat
             /\ \A n \in 1 .. count :
                  swept[n] = IF <<i, count + 1 - n>> \in survivors
                               THEN Keep(list, swept[n - 1], <<i, count + 1 - n>>) ELSE swept[n - 1]
<1> DEFINE N      == Len(list)
           count  == Len(list[i].objects)
           Next1(n, x) == IF <<i, count + 1 - n>> \in survivors THEN Keep(list, x, <<i, count + 1 - n>>) ELSE x
           step   == [p \in (1 .. count) \X ASweep(N) |-> Next1(p[1], p[2])]
           Body(f) == [n \in 0 .. count |-> IF n = 0 THEN begun ELSE Next1(n, f[n - 1])]
           swept  == SweptObjects(list, begun, i, survivors)
<1>1. count \in Nat
  BY BlockFacts
<1>2. \A n \in 1 .. count, x \in ASweep(N) : Next1(n, x) \in ASweep(N)
  <2> TAKE n \in 1 .. count, x \in ASweep(N)
  <2>1. count + 1 - n \in 1 .. count
    BY <1>1
  <2> QED BY <2>1, KeepFacts DEF Kept
<1>3. swept = CHOOSE g : g = Body(g)
  BY Zenon DEF SweptObjects
<1> HIDE DEF N, count, Next1
<1>4. step \in [(1 .. count) \X ASweep(N) -> ASweep(N)]
  BY <1>2
<1>5. \A n \in 1 .. count, x \in ASweep(N) : step[<<n, x>>] = Next1(n, x)
  OBVIOUS
<1> HIDE DEF step
<1>6. PICK f \in [0 .. count -> ASweep(N)] : Follows(f, begun, step, count)
  <2>1. begun \in ASweep(N)
    BY DEF N
  <2> QED BY <1>1, <1>4, <2>1, Recursion
<1>7. \A n \in 1 .. count : n - 1 \in 0 .. count /\ n \in 0 .. count /\ n # 0
  BY <1>1
<1>8. f = Body(f)
  <2>1. \A n \in 1 .. count : f[n - 1] \in ASweep(N)
    BY <1>7
  <2>2. f[0] = begun /\ \A n \in 1 .. count : f[n] = Next1(n, f[n - 1])
    BY <1>5, <1>6, <2>1 DEF Follows
  <2>3. \A n \in 0 .. count : n # 0 => n \in 1 .. count
    BY <1>1
  <2>4. \A n \in 0 .. count : f[n] = IF n = 0 THEN begun ELSE Next1(n, f[n - 1])
    BY <2>2, <2>3
  <2> QED BY <2>4
<1>9. swept = Body(swept)
  <2> HIDE DEF Body, swept
  <2> QED BY <1>3, <1>8
<1> HIDE DEF swept
<1>10. swept[0] = begun /\ \A n \in 1 .. count : swept[n] = Next1(n, swept[n - 1])
  <2>1. 0 \in 0 .. count
    BY <1>1
  <2> QED BY <1>7, <1>9, <2>1
<1>11. \A n \in 0 .. count : swept[n] \in ASweep(N)
  <2> DEFINE T == {n \in 0 .. count : swept[n] \in ASweep(N)}
  <2>1. 0 \in T
    BY <1>1, <1>10 DEF N
  <2>2. ASSUME NEW n \in 1 .. count, n - 1 \in T PROVE n \in T
    BY <1>2, <1>7, <1>10, <2>2
  <2> HIDE DEF T
  <2>3. \A n \in 0 .. count : n \in T
    BY <1>1, <2>1, <2>2, UpTo
  <2> QED BY <2>3 DEF T
<1>12. swept \in [0 .. count -> ASweep(N)]
  BY <1>9, <1>11
<1> QED BY <1>1, <1>10, <1>12 DEF N, count, Next1, swept

LEMMA SweepBlockType ==
  ASSUME NEW list \in Seq(ABlock), NEW begun \in ASweep(Len(list)), NEW i \in DOMAIN list, NEW survivors
  PROVE  SweepBlock(list, begun, i, survivors) \in ASweep(Len(list))
<1>1. Len(list[i].objects) \in 0 .. Len(list[i].objects)
  BY BlockFacts
<1> QED BY <1>1, SweptObjectsDefined DEF SweepBlock

\* The sweep as it begins, all of whose blocks are empty.
Begun(list, empty) ==
  [list |-> [i \in DOMAIN list |-> [list[i] EXCEPT !.objects = <<>>]], fill |-> empty, moves |-> {}, lost |-> FALSE]

LEMMA BegunFacts ==
  ASSUME NEW list \in Seq(ABlock), NEW empty \in DOMAIN list
  PROVE  /\ Begun(list, empty) \in ASweep(Len(list))
         /\ \A i \in DOMAIN list :
              Begun(list, empty).list[i] = [begin |-> list[i].begin, size |-> list[i].size, objects |-> <<>>]
<1>1. DOMAIN list = 1 .. Len(list) /\ \A i \in DOMAIN list : list[i] \in ABlock
  OBVIOUS
<1>2. \A b \in ABlock : /\ [b EXCEPT !.objects = <<>>] = [begin |-> b.begin, size |-> b.size, objects |-> <<>>]
                       /\ [b EXCEPT !.objects = <<>>] \in ABlock
  <2>1. <<>> \in Seq(AnObject)
    OBVIOUS
  <2> QED BY <2>1, WithObjects
<1> QED BY <1>1, <1>2 DEF Begun, ASweep

\* What the sweep does with the blocks, one after the other.
LEMMA SweptBlocksDefined ==
  ASSUME NEW list \in Seq(ABlock), NEW empty \in DOMAIN list, NEW survivors
  PROVE  LET swept == SweptBlocks(list, empty, survivors)
             last  == Len(list) - 1
         IN  /\ swept \in [0 .. last -> ASweep(Len(list))] /\ swept[0] = Begun(list, empty) /\ last \in Nat
             /\ \A n \in 1 .. last : swept[n] = SweepBlock(list, swept[n - 1], Before(list, empty, n), survivors)
<1> DEFINE N      == Len(list)
           last   == N - 1
           begun  == Begun(list, empty)
           Next1(n, x) == SweepBlock(list, x, Before(list, empty, n), survivors)
           step   == [p \in (1 .. last) \X ASweep(N) |-> Next1(p[1], p[2])]
           Body(f) == [n \in 0 .. last |-> IF n = 0 THEN begun ELSE Next1(n, f[n - 1])]
           swept  == SweptBlocks(list, empty, survivors)
<1>1. last \in Nat /\ begun \in ASweep(N)
  BY RingFacts, BegunFacts
<1>2. \A n \in 1 .. last, x \in ASweep(N) : Next1(n, x) \in ASweep(N)
  <2> TAKE n \in 1 .. last, x \in ASweep(N)
  <2>1. n \in 0 .. Len(list) - 1
    BY <1>1
  <2>2. Before(list, empty, n) \in DOMAIN list
    BY <2>1, RingFacts
  <2> QED BY <2>2, SweepBlockType
<1>3. swept = CHOOSE g : g = Body(g)
  BY Zenon DEF SweptBlocks, Begun
<1> HIDE DEF last, N, Next1, begun
<1>4. step \in [(1 .. last) \X ASweep(N) -> ASweep(N)]
  BY <1>2
<1>5. \A n \in 1 .. last, x \in ASweep(N) : step[<<n, x>>] = Next1(n, x)
  OBVIOUS
<1> HIDE DEF step
<1>6. PICK f \in [0 .. last -> ASweep(N)] : Follows(f, begun, step, last)
  BY <1>1, <1>4, Recursion
<1>7. \A n \in 1 .. last : n - 1 \in 0 .. last /\ n \in 0 .. last /\ n # 0
  BY <1>1
<1>8. f = Body(f)
  <2>1. \A n \in 1 .. last : f[n - 1] \in ASweep(N)
    BY <1>7
  <2>2. f[0] = begun /\ \A n \in 1 .. last : f[n] = Next1(n, f[n - 1])
    BY <1>5, <1>6, <2>1 DEF Follows
  <2>3. \A n \in 0 .. last : n # 0 => n \in 1 .. last
    BY <1>1
  <2>4. \A n \in 0 .. last : f[n] = IF n = 0 THEN begun ELSE Next1(n, f[n - 1])
    BY <2>2, <2>3
  <2> QED BY <2>4
<1>9. swept = Body(swept)
  <2> HIDE DEF Body, swept
  <2> QED BY <1>3, <1>8
<1> HIDE DEF swept
<1>10. swept[0] = begun /\ \A n \in 1 .. last : swept[n] = Next1(n, swept[n - 1])
  <2>1. 0 \in 0 .. last
    BY <1>1
  <2> QED BY <1>7, <1>9, <2>1
<1>11. \A n \in 0 .. last : swept[n] \in ASweep(N)
  <2> DEFINE T == {n \in 0 .. last : swept[n] \in ASweep(N)}
  <2>1. 0 \in T
    BY <1>1, <1>10
  <2>2. ASSUME NEW n \in 1 .. last, n - 1 \in T PROVE n \in T
    BY <1>2, <1>7, <1>10, <2>2
  <2> HIDE DEF T
  <2>3. \A n \in 0 .. last : n \in T
    BY <1>1, <2>1, <2>2, UpTo
  <2> QED BY <2>3 DEF T
<1>12. swept \in [0 .. last -> ASweep(N)]
  BY <1>9, <1>11
<1> QED BY <1>1, <1>10, <1>12 DEF N, last, Next1, swept, begun

-----------------------------------------------------------------------------
(* What the sweep preserves *)

\* Every object to be remembered has its card among these.
RememberedIn(list, C) ==
  \A i \in 1 .. Len(list) : \A j \in 1 .. Len(list[i].objects) :
    list[i].objects[j].remembered => Card(Header(list[i], j)) \in C

SameBlocks(list, s) == \A k \in 1 .. Len(list) : s.list[k].begin = list[k].begin /\ s.list[k].size = list[k].size
NotOverfull(list, s) == ~s.lost => \A k \in 1 .. Len(list) : Used(s.list[k]) <= s.list[k].size
FillNotEmpty(list, s) ==
  (\A k \in 1 .. Len(list) : s.list[k].objects = <<>>) \/ s.list[s.fill].objects # <<>>
MovesRemember(list, s, C) ==
  \A k \in 1 .. Len(list) : \A j \in 1 .. Len(s.list[k].objects) :
    s.list[k].objects[j].remembered => \E move \in s.moves : move[1] \in C /\ move[2] = Card(Header(s.list[k], j))
MovesCovered(list, s) ==
  ~s.lost => \A move \in s.moves : move[2] \in Nat /\ \E k \in 1 .. Len(list) : Covers(list[k], move[2])

SweepOK(list, s, C) ==
  SameBlocks(list, s) /\ NotOverfull(list, s) /\ FillNotEmpty(list, s) /\ MovesRemember(list, s, C) /\ MovesCovered(list, s)

LEMMA BegunOK ==
  ASSUME NEW list \in Seq(ABlock), NEW empty \in DOMAIN list, NEW C
  PROVE  SweepOK(list, Begun(list, empty), C)
<1> DEFINE s == Begun(list, empty)
<1>1. \A k \in 1 .. Len(list) : s.list[k] = [begin |-> list[k].begin, size |-> list[k].size, objects |-> <<>>]
  BY BegunFacts
<1>2. s.moves = {}
  BY DEF Begun
<1> HIDE DEF s
<1>3. \A k \in 1 .. Len(list) :
        s.list[k].begin = list[k].begin /\ s.list[k].size = list[k].size /\ s.list[k].objects = <<>>
  <2> TAKE k \in 1 .. Len(list)
  <2>1. s.list[k] = [begin |-> list[k].begin, size |-> list[k].size, objects |-> <<>>]
    BY <1>1
  <2> QED BY <2>1
<1>4. SameBlocks(list, s) /\ FillNotEmpty(list, s)
  BY <1>3 DEF SameBlocks, FillNotEmpty
<1>5. NotOverfull(list, s)
  <2> SUFFICES ASSUME NEW k \in 1 .. Len(list) PROVE Used(s.list[k]) <= s.list[k].size
    BY DEF NotOverfull
  <2>1. list[k].size \in Nat
    BY BlockFacts
  <2>2. <<>> \in Seq(AnObject) /\ Len(<<>>) = 0
    OBVIOUS
  <2>3. Filled(<<>>)[0] = 0
    BY <2>2, FilledDefined
  <2>4. Used(s.list[k]) = 0
    BY <1>3, <2>2, <2>3 DEF Used
  <2> QED BY <1>3, <2>1, <2>4
<1>6. MovesCovered(list, s)
  BY <1>2 DEF MovesCovered
<1>7. MovesRemember(list, s, C)
  <2>1. \A k \in 1 .. Len(list) : 1 .. Len(s.list[k].objects) = {}
    BY <1>3
  <2> QED BY <2>1 DEF MovesRemember
<1> QED BY <1>4, <1>5, <1>6, <1>7 DEF s, SweepOK

LEMMA KeepOK ==
  ASSUME NEW list \in Seq(ABlock), NEW s \in ASweep(Len(list)), NEW C, RememberedIn(list, C), SweepOK(list, s, C),
         NEW i \in DOMAIN list, NEW j \in 1 .. Len(list[i].objects)
  PROVE  SweepOK(list, Keep(list, s, <<i, j>>), C)
<1> DEFINE N == Len(list)
           object == list[i].objects[j]
           fill   == FillFor(list, s, i, j)
           block  == s.list[fill]
           r      == Keep(list, s, <<i, j>>)
           kept   == r.list[fill]
           from   == Card(Header(list[i], j))
           to     == Card(Header(kept, Len(kept.objects)))
<1>1. /\ r \in ASweep(N) /\ fill \in 1 .. N /\ object \in AnObject /\ r.fill = fill
      /\ block \in ABlock /\ kept \in ABlock
      /\ kept.begin = block.begin /\ kept.size = block.size /\ kept.objects = Append(block.objects, object)
      /\ Used(kept) = Used(block) + object.size
      /\ \A k \in 1 .. Len(block.objects) : Header(kept, k) = Header(block, k)
      /\ \A k \in 1 .. N : k # fill => r.list[k] = s.list[k]
      /\ r.moves = s.moves \cup {<<from, to>>}
      /\ r.lost = (s.lost \/ fill = i \/ ~HasRoom(block, object.size))
  <2>1. /\ object = list[i].objects[j] /\ fill = FillFor(list, s, i, j) /\ r = Keep(list, s, <<i, j>>) /\ N = Len(list)
    OBVIOUS
  <2>2. from = Card(Header(list[i], j)) /\ to = Card(Header(r.list[fill], Len(r.list[fill].objects))) /\ block = s.list[fill] /\ kept = r.list[fill]
    OBVIOUS
  <2>3. Kept(list, s, i, j, r, fill)
    BY KeepFacts
  <2> HIDE DEF object, fill, r, from, to, block, kept, N
  <2> QED BY <2>1, <2>2, <2>3 DEF Kept
<1>2. i \in 1 .. N
  OBVIOUS
<1>3. object.remembered => from \in C
  BY <1>2 DEF RememberedIn
<1>4. SameBlocks(list, s) /\ NotOverfull(list, s) /\ FillNotEmpty(list, s) /\ MovesRemember(list, s, C) /\ MovesCovered(list, s)
  BY DEF SweepOK
<1>5. /\ block.objects \in Seq(AnObject) /\ Len(block.objects) \in Nat
      /\ Len(kept.objects) = Len(block.objects) + 1 /\ kept.objects[Len(kept.objects)] = object
      /\ \A k \in 1 .. Len(block.objects) : kept.objects[k] = block.objects[k]
  <2>1. \A o \in Seq(AnObject), x \in AnObject : /\ Len(o) \in Nat /\ Len(Append(o, x)) = Len(o) + 1 /\ Append(o, x)[Len(o) + 1] = x
                                                /\ \A k \in 1 .. Len(o) : Append(o, x)[k] = o[k]
    OBVIOUS
  <2>2. block.objects \in Seq(AnObject)
    BY <1>1, BlockFacts
  <2> HIDE DEF block, kept, object, r, fill
  <2> QED BY <1>1, <2>1, <2>2
<1> HIDE DEF object, fill, r, from, to, N
<1>6. SameBlocks(list, r)
  BY <1>1, <1>4 DEF SameBlocks, N
<1>7. NotOverfull(list, r)
  <2> SUFFICES ASSUME ~r.lost, NEW k \in 1 .. N PROVE Used(r.list[k]) <= r.list[k].size
    BY DEF NotOverfull, N
  <2>1. CASE k = fill
    BY <1>1, <2>1 DEF HasRoom
  <2>2. CASE k # fill
    BY <1>1, <1>4, <2>2 DEF NotOverfull, N
  <2> QED BY <2>1, <2>2
<1>8. FillNotEmpty(list, r)
  <2>1. kept.objects # <<>>
    BY <1>5
  <2> QED BY <1>1, <2>1 DEF FillNotEmpty
<1>9. MovesRemember(list, r, C)
  <2> SUFFICES ASSUME NEW k \in 1 .. N, NEW n \in 1 .. Len(r.list[k].objects), r.list[k].objects[n].remembered
               PROVE  \E move \in r.moves : move[1] \in C /\ move[2] = Card(Header(r.list[k], n))
    BY DEF MovesRemember, N
  <2>1. CASE k # fill
    <3>1. r.list[k] = s.list[k]
      BY <1>1, <2>1
    <3>2. \E move \in s.moves : move[1] \in C /\ move[2] = Card(Header(s.list[k], n))
      BY <1>4, <3>1 DEF MovesRemember, N
    <3> QED BY <1>1, <3>1, <3>2
  <2>2. CASE k = fill /\ n \in 1 .. Len(block.objects)
    <3>1. block.objects[n].remembered
      BY <1>5, <2>2
    <3>2. \E move \in s.moves : move[1] \in C /\ move[2] = Card(Header(block, n))
      BY <1>1, <1>4, <2>2, <3>1 DEF MovesRemember, N
    <3> QED BY <1>1, <2>2, <3>2
  <2>3. CASE k = fill /\ n \notin 1 .. Len(block.objects)
    <3>1. n = Len(kept.objects)
      <4>1. r.list[k] = kept
        BY <2>3
      <4>2. n \in 1 .. Len(kept.objects)
        BY <4>1
      <4> HIDE DEF kept, block
      <4> QED BY <1>5, <2>3, <4>2
    <3>2. object.remembered
      BY <1>5, <2>3, <3>1
    <3>3. <<from, to>> \in r.moves /\ <<from, to>>[1] = from /\ <<from, to>>[2] = to
      BY <1>1
    <3>4. to = Card(Header(r.list[k], n))
      BY <2>3, <3>1 DEF to
    <3> QED BY <1>3, <3>2, <3>3, <3>4
  <2> QED BY <2>1, <2>2, <2>3
<1>10. MovesCovered(list, r)
  <2> SUFFICES ASSUME ~r.lost, NEW move \in r.moves
               PROVE  move[2] \in Nat /\ \E k \in 1 .. N : Covers(list[k], move[2])
    BY DEF MovesCovered, N
  <2>1. CASE move \in s.moves
    BY <1>1, <1>4, <2>1 DEF MovesCovered, N
  <2>2. CASE move = <<from, to>>
    <3>1. Used(kept) <= kept.size
      BY <1>1 DEF HasRoom
    <3>2. Len(kept.objects) \in 1 .. Len(kept.objects)
      BY <1>5
    <3>3. to \in Nat /\ Covers(kept, to)
      BY <1>1, <3>1, <3>2, HeaderCovered DEF to
    <3>4. Covers(list[fill], to)
      BY <1>1, <1>4, <3>3 DEF Covers, SameBlocks, N
    <3> QED BY <1>1, <2>2, <3>3, <3>4
  <2> QED BY <1>1, <2>1, <2>2
<1> QED BY <1>6, <1>7, <1>8, <1>9, <1>10 DEF r, SweepOK

LEMMA SweepBlockOK ==
  ASSUME NEW list \in Seq(ABlock), NEW s \in ASweep(Len(list)), NEW C, RememberedIn(list, C), SweepOK(list, s, C),
         NEW i \in DOMAIN list, NEW survivors
  PROVE  SweepOK(list, SweepBlock(list, s, i, survivors), C)
<1> DEFINE swept == SweptObjects(list, s, i, survivors)
           count == Len(list[i].objects)
           T == {n \in 0 .. count : SweepOK(list, swept[n], C)}
<1>1. /\ swept \in [0 .. count -> ASweep(Len(list))] /\ swept[0] = s /\ count \in Nat
      /\ \A n \in 1 .. count :
           swept[n] = IF <<i, count + 1 - n>> \in survivors
                        THEN Keep(list, swept[n - 1], <<i, count + 1 - n>>) ELSE swept[n - 1]
  BY SweptObjectsDefined
<1>2. SweepBlock(list, s, i, survivors) = swept[count]
  BY DEF SweepBlock
<1> HIDE DEF swept
<1>3. 0 \in T
  BY <1>1
<1>4. ASSUME NEW n \in 1 .. count, n - 1 \in T PROVE n \in T
  <2>1. n \in 0 .. count /\ n - 1 \in 0 .. count /\ count + 1 - n \in 1 .. count
    BY <1>1
  <2>2. swept[n - 1] \in ASweep(Len(list)) /\ SweepOK(list, swept[n - 1], C)
    BY <1>1, <1>4, <2>1
  <2>3. SweepOK(list, Keep(list, swept[n - 1], <<i, count + 1 - n>>), C)
    <3> HIDE DEF T
    <3> QED BY <2>1, <2>2, KeepOK
  <2>4. SweepOK(list, swept[n], C)
    BY <1>1, <2>2, <2>3
  <2> QED BY <2>1, <2>4
<1>5. count \in 0 .. count
  BY <1>1
<1> HIDE DEF T
<1>6. count \in T
  BY <1>1, <1>3, <1>4, <1>5, UpTo
<1> QED BY <1>2, <1>6 DEF T

LEMMA SweepIsOK ==
  ASSUME NEW list \in Seq(ABlock), NEW C, RememberedIn(list, C), NEW empty \in DOMAIN list, NEW survivors
  PROVE  Sweep(list, empty, survivors) \in ASweep(Len(list)) /\ SweepOK(list, Sweep(list, empty, survivors), C)
<1> DEFINE swept == SweptBlocks(list, empty, survivors)
           last  == Len(list) - 1
           T == {n \in 0 .. last : SweepOK(list, swept[n], C)}
<1>1. /\ swept \in [0 .. last -> ASweep(Len(list))] /\ swept[0] = Begun(list, empty) /\ last \in Nat
      /\ \A n \in 1 .. last : swept[n] = SweepBlock(list, swept[n - 1], Before(list, empty, n), survivors)
  BY SweptBlocksDefined
<1>2. Sweep(list, empty, survivors) = swept[last]
  BY DEF Sweep
<1> HIDE DEF swept
<1>3. 0 \in T
  BY <1>1, BegunOK
<1>4. ASSUME NEW n \in 1 .. last, n - 1 \in T PROVE n \in T
  <2>1. n \in 0 .. last /\ n - 1 \in 0 .. last
    BY <1>1
  <2>2. swept[n - 1] \in ASweep(Len(list)) /\ SweepOK(list, swept[n - 1], C)
    BY <1>1, <1>4, <2>1
  <2>3. Before(list, empty, n) \in DOMAIN list
    BY <2>1, RingFacts
  <2>4. SweepOK(list, swept[n], C)
    <3> HIDE DEF T, last
    <3> QED BY <1>1, <2>2, <2>3, SweepBlockOK
  <2> QED BY <2>1, <2>4
<1>5. last \in 0 .. last
  BY <1>1
<1> HIDE DEF T
<1>6. last \in T
  BY <1>1, <1>3, <1>4, <1>5, UpTo
<1>7. SweepOK(list, swept[last], C)
  BY <1>6 DEF T
<1> HIDE DEF last
<1> QED BY <1>1, <1>2, <1>5, <1>7

-----------------------------------------------------------------------------
(* Nothing is lost where all blocks are equally large *)

\* Every block is as large as the default, and none is overfull.
Equal(list) == \A k \in 1 .. Len(list) : list[k].size = DefaultBlockSize /\ Used(list[k]) <= DefaultBlockSize

\* m blocks before the first, one is filled; those further back are still empty.
FilledUpTo(list, empty, s, m) ==
  /\ m \in 0 .. Len(list) - 1 /\ s.fill = Before(list, empty, m)
  /\ \A p \in m + 1 .. Len(list) - 1 : s.list[Before(list, empty, p)].objects = <<>>

\* After n blocks, the one that is filled was swept; or it is the one that was empty.
Ahead(list, empty, s, n) ==
  /\ ~s.lost /\ SameBlocks(list, s)
  /\ \E m \in 0 .. Len(list) - 1 : FilledUpTo(list, empty, s, m) /\ (m = 0 \/ m <= n - 1)
  /\ n = 0 => s.list[empty].objects = <<>>

\* Within the n-th block, of which so many bytes are swept: the block that is filled is
\* that one, or the next, which does not hold more than was swept.
AheadWithin(list, empty, s, n, m, bytes) ==
  /\ ~s.lost /\ SameBlocks(list, s)
  /\ \/ FilledUpTo(list, empty, s, m) /\ (n = 1 => Used(s.list[s.fill]) <= bytes)
     \/ n > 1 /\ FilledUpTo(list, empty, s, m + 1) /\ Used(s.list[s.fill]) <= bytes

\* The bytes of the last t objects.
LastBytes(objects, t) == Filled(objects)[Len(objects)] - Filled(objects)[Len(objects) - t]

LEMMA LastBytesFacts ==
  ASSUME NEW objects \in Seq(AnObject)
  PROVE  /\ LastBytes(objects, 0) = 0
         /\ \A t \in 1 .. Len(objects) :
              /\ LastBytes(objects, t - 1) \in Nat /\ LastBytes(objects, t) \in Nat
              /\ LastBytes(objects, t) = LastBytes(objects, t - 1) + objects[Len(objects) + 1 - t].size
              /\ LastBytes(objects, t) <= Filled(objects)[Len(objects)]
<1> DEFINE N == Len(objects)
           f == Filled(objects)
<1>1. N \in Nat /\ \A n \in 1 .. N : objects[n].size \in Nat
  BY ObjectFacts
<1>2. f \in [0 .. N -> Nat] /\ \A n \in 1 .. N : f[n] = f[n - 1] + objects[n].size
  BY FilledDefined
<1>3. \A n \in 0 .. N : f[n] <= f[N]
  <2>1. N \in 0 .. N /\ \A n \in 0 .. N : n \in 0 .. N
    BY <1>1
  <2> QED BY <2>1, FilledGrows
<1> HIDE DEF f
<1>4. \A n \in 0 .. N : f[n] \in Nat
  BY <1>2
<1>5. LastBytes(objects, 0) = 0
  <2>1. N \in 0 .. N /\ N - 0 = N
    BY <1>1
  <2>2. f[N] - f[N - 0] = 0
    BY <1>4, <2>1
  <2> QED BY <2>2 DEF LastBytes, f
<1>6. ASSUME NEW t \in 1 .. N
      PROVE  /\ LastBytes(objects, t - 1) \in Nat /\ LastBytes(objects, t) \in Nat
             /\ LastBytes(objects, t) = LastBytes(objects, t - 1) + objects[N + 1 - t].size
             /\ LastBytes(objects, t) <= f[N]
  <2> DEFINE a == N - (t - 1)
             b == N - t
  <2>1. a \in 1 .. N /\ b \in 0 .. N /\ b = a - 1 /\ a = N + 1 - t /\ N \in 0 .. N /\ a \in 0 .. N
    BY <1>1
  <2>2. LastBytes(objects, t - 1) = f[N] - f[a] /\ LastBytes(objects, t) = f[N] - f[b]
    BY DEF LastBytes, f
  <2>3. N + 1 - t = a
    BY <2>1
  <2> HIDE DEF a, b, N
  <2>4. f[a] = f[b] + objects[a].size /\ f[a] \in Nat /\ f[b] \in Nat /\ f[N] \in Nat /\ f[a] <= f[N] /\ f[b] <= f[N] /\ objects[a].size \in Nat
    BY <1>1, <1>2, <1>3, <1>4, <2>1
  <2> DEFINE x == f[N]
             y == f[a]
             z == f[b]
             size == objects[a].size
  <2>5. /\ LastBytes(objects, t - 1) = x - y /\ LastBytes(objects, t) = x - z /\ objects[N + 1 - t].size = size
        /\ y = z + size /\ x \in Nat /\ y \in Nat /\ z \in Nat /\ size \in Nat /\ y <= x /\ z <= x
    BY <2>2, <2>3, <2>4
  <2> HIDE DEF x, y, z, size
  <2>6. x - y \in Nat /\ x - z \in Nat /\ x - z = (x - y) + size /\ x - z <= x
    BY <2>5
  <2>7. x = f[N]
    BY DEF x
  <2> HIDE DEF f
  <2> QED BY <2>5, <2>6, <2>7
<1> QED BY <1>5, <1>6 DEF f

LEMMA KeepAhead ==
  ASSUME NEW list \in Seq(ABlock), Equal(list), NEW empty \in DOMAIN list, NEW s \in ASweep(Len(list)),
         NEW n \in 1 .. Len(list) - 1, NEW m \in 0 .. Len(list) - 1, m = 0 \/ m <= n - 2,
         NEW i, i = Before(list, empty, n), NEW j \in 1 .. Len(list[i].objects),
         NEW bytes \in Nat, bytes + list[i].objects[j].size <= DefaultBlockSize,
         AheadWithin(list, empty, s, n, m, bytes)
  PROVE  AheadWithin(list, empty, Keep(list, s, <<i, j>>), n, m, bytes + list[i].objects[j].size)
<1> DEFINE N      == Len(list)
           object == list[i].objects[j]
           fill   == FillFor(list, s, i, j)
           block  == s.list[fill]
           r      == Keep(list, s, <<i, j>>)
           kept   == r.list[fill]
<1> HIDE DEF N, object, fill, block, r, kept
<1>1. N \in Nat \ {0} /\ n \in 0 .. N - 1 /\ i \in DOMAIN list
  <2>1. Len(list) \in Nat \ {0} /\ n \in 0 .. Len(list) - 1
    BY RingFacts
  <2>2. Before(list, empty, n) \in DOMAIN list
    BY <2>1, RingFacts
  <2> QED BY <2>1, <2>2 DEF N
<1>2. Kept(list, s, i, j, r, fill)
  BY <1>1, KeepFacts DEF r, fill
<1>3. object = list[i].objects[j] /\ fill = FillFor(list, s, i, j) /\ block = s.list[fill] /\ kept = r.list[fill] /\ N = Len(list)
  BY DEF N, object, fill, block, kept
<1>4. fill = IF HasRoom(s.list[s.fill], object.size) THEN s.fill ELSE PrevBlock(list, s.fill)
  BY DEF FillFor, NextToFill, fill, object
<1>5. /\ fill \in 1 .. N /\ object \in AnObject /\ r.fill = fill
      /\ block \in ABlock /\ kept.size = block.size /\ kept.begin = block.begin
      /\ Used(kept) = Used(block) + object.size
      /\ \A k \in 1 .. N : k # fill => r.list[k] = s.list[k]
      /\ r.lost = (s.lost \/ fill = i \/ ~HasRoom(block, object.size))
  BY <1>2, <1>3 DEF Kept
<1>6. object.size \in Nat \ {0} /\ Used(block) \in Nat /\ DefaultBlockSize \in Nat
  BY <1>5, BlockFacts, ConstantFacts DEF AnObject
<1>7. ~s.lost /\ SameBlocks(list, s)
  BY DEF AheadWithin
<1>8. block.size = DefaultBlockSize
  BY <1>3, <1>5, <1>7 DEF SameBlocks, Equal
<1>9. SameBlocks(list, r)
  BY <1>3, <1>5, <1>7 DEF SameBlocks
<1>10. \A p, q \in 0 .. N - 1 : Before(list, empty, p) \in 1 .. N /\ (Before(list, empty, p) = Before(list, empty, q) => p = q)
  <2>1. \A p \in 0 .. Len(list) - 1 : Before(list, empty, p) \in 1 .. Len(list)
    BY RingFacts
  <2>2. \A p, q \in 0 .. Len(list) - 1 : Before(list, empty, p) = Before(list, empty, q) => p = q
    BY RingFacts
  <2> QED BY <2>1, <2>2 DEF N
<1>18. r.list[r.fill] = kept
  BY <1>3, <1>5
<1>17. bytes + object.size <= DefaultBlockSize
  BY <1>3
<1> SUFFICES AheadWithin(list, empty, r, n, m, bytes + object.size)
  BY <1>3 DEF r
<1>11. ASSUME NEW q \in 0 .. N - 1, q < n, fill = Before(list, empty, q), HasRoom(block, object.size),
              \A p \in q + 1 .. N - 1 : s.list[Before(list, empty, p)].objects = <<>>
       PROVE  ~r.lost /\ FilledUpTo(list, empty, r, q)
  <2>1. fill # i
    <3>1. n \in 0 .. N - 1 /\ n # q
      BY <1>1, <1>11
    <3>2. Before(list, empty, n) # Before(list, empty, q)
      BY <1>10, <3>1
    <3> QED BY <1>11, <3>2
  <2>2. \A p \in q + 1 .. N - 1 : p \in 0 .. N - 1 /\ p # q
    BY <1>1
  <2>3. \A p \in q + 1 .. N - 1 : Before(list, empty, p) \in 1 .. N /\ Before(list, empty, p) # fill
    BY <1>10, <1>11, <2>2
  <2>4. \A p \in q + 1 .. N - 1 : r.list[Before(list, empty, p)].objects = <<>>
    BY <1>5, <1>11, <2>3
  <2> QED BY <1>3, <1>5, <1>7, <1>11, <2>1, <2>4 DEF FilledUpTo
<1>12. m < n
  BY <1>1
<1>13. CASE FilledUpTo(list, empty, s, m) /\ (n = 1 => Used(s.list[s.fill]) <= bytes) /\ HasRoom(s.list[s.fill], object.size)
  <2>1. fill = s.fill /\ fill = Before(list, empty, m)
    BY <1>4, <1>13 DEF FilledUpTo
  <2>2. ~r.lost /\ FilledUpTo(list, empty, r, m)
    BY <1>3, <1>11, <1>12, <1>13, <2>1 DEF FilledUpTo
  <2>3. n = 1 => Used(r.list[r.fill]) <= bytes + object.size
    BY <1>3, <1>5, <1>6, <1>13, <2>1
  <2> QED BY <1>3, <1>9, <2>2, <2>3 DEF AheadWithin
<1>14. CASE FilledUpTo(list, empty, s, m) /\ (n = 1 => Used(s.list[s.fill]) <= bytes) /\ ~HasRoom(s.list[s.fill], object.size)
  <2>1. s.fill \in 1 .. N /\ Used(s.list[s.fill]) \in Nat /\ s.list[s.fill].size = DefaultBlockSize
    <3>1. s.fill \in 1 .. N /\ s.list[s.fill] \in ABlock
      BY <1>3 DEF ASweep
    <3> QED BY <1>3, <1>7, <3>1, BlockFacts DEF SameBlocks, Equal
  <2>2. n # 1
    <3>1. ~(Used(s.list[s.fill]) + object.size <= DefaultBlockSize)
      BY <1>14, <2>1 DEF HasRoom
    <3>2. ~(Used(s.list[s.fill]) <= bytes)
      BY <1>6, <1>17, <2>1, <3>1
    <3> QED BY <1>14, <3>2
  <2>3. m + 1 \in 1 .. N - 1 /\ m + 1 \in 0 .. N - 1 /\ m + 1 < n /\ n > 1
    BY <1>1, <2>2
  <2>4. fill = Before(list, empty, m + 1)
    <3>1. Before(list, empty, m + 1) = PrevBlock(list, Before(list, empty, (m + 1) - 1))
      <4>1. \A k \in 1 .. Len(list) - 1 : Before(list, empty, k) = PrevBlock(list, Before(list, empty, k - 1))
        BY RingFacts
      <4> QED BY <2>3, <4>1 DEF N
    <3>2. (m + 1) - 1 = m
      OBVIOUS
    <3> QED BY <1>4, <1>14, <3>1, <3>2 DEF FilledUpTo
  <2>5. block.objects = <<>>
    <3>1. m + 1 \in m + 1 .. N - 1
      BY <2>3
    <3> QED BY <1>3, <1>14, <2>4, <3>1 DEF FilledUpTo
  <2>6. Used(block) = 0
    <3>1. <<>> \in Seq(AnObject) /\ Len(<<>>) = 0
      OBVIOUS
    <3> QED BY <2>5, <3>1, FilledDefined DEF Used
  <2>7. HasRoom(block, object.size)
    <3>1. object.size <= DefaultBlockSize
      BY <1>6, <1>17
    <3> QED BY <1>6, <1>8, <2>6, <3>1 DEF HasRoom
  <2>8. \A p \in (m + 1) + 1 .. N - 1 : s.list[Before(list, empty, p)].objects = <<>>
    <3>1. \A p \in (m + 1) + 1 .. N - 1 : p \in m + 1 .. N - 1
      BY <1>1
    <3> QED BY <1>3, <1>14, <3>1 DEF FilledUpTo
  <2>9. ~r.lost /\ FilledUpTo(list, empty, r, m + 1)
    BY <1>11, <2>3, <2>4, <2>7, <2>8
  <2>10. Used(r.list[r.fill]) <= bytes + object.size
    <3>1. Used(kept) = Used(block) + object.size
      BY <1>5
    <3> HIDE DEF object, block
    <3> QED BY <1>6, <1>18, <2>6, <3>1
  <2> QED BY <1>3, <1>9, <2>3, <2>9, <2>10 DEF AheadWithin
<1>15. CASE n > 1 /\ FilledUpTo(list, empty, s, m + 1) /\ Used(s.list[s.fill]) <= bytes
  <2>1. s.fill \in 1 .. N /\ Used(s.list[s.fill]) \in Nat /\ s.list[s.fill].size = DefaultBlockSize
    <3>1. s.fill \in 1 .. N /\ s.list[s.fill] \in ABlock
      BY <1>3 DEF ASweep
    <3> QED BY <1>3, <1>7, <3>1, BlockFacts DEF SameBlocks, Equal
  <2>2. HasRoom(s.list[s.fill], object.size)
    BY <1>6, <1>15, <1>17, <2>1 DEF HasRoom
  <2>3. fill = s.fill /\ fill = Before(list, empty, m + 1)
    BY <1>4, <1>15, <2>2 DEF FilledUpTo
  <2>4. m + 1 \in 0 .. N - 1 /\ m + 1 < n
    BY <1>1, <1>15
  <2>5. ~r.lost /\ FilledUpTo(list, empty, r, m + 1)
    BY <1>3, <1>11, <1>15, <2>2, <2>3, <2>4 DEF FilledUpTo
  <2>6. Used(r.list[r.fill]) <= bytes + object.size
    <3>1. Used(kept) = Used(block) + object.size /\ Used(block) <= bytes
      BY <1>3, <1>5, <1>15, <2>3
    <3> QED BY <1>6, <1>18, <3>1
  <2> QED BY <1>3, <1>9, <1>15, <2>5, <2>6 DEF AheadWithin
<1> QED BY <1>13, <1>14, <1>15 DEF AheadWithin

LEMMA EmptyUsed ==
  ASSUME NEW block, block.objects = <<>>
  PROVE  Used(block) = 0
<1>1. <<>> \in Seq(AnObject) /\ Len(<<>>) = 0
  OBVIOUS
<1> QED BY <1>1, FilledDefined DEF Used

LEMMA SweepBlockAhead ==
  ASSUME NEW list \in Seq(ABlock), Equal(list), NEW empty \in DOMAIN list, NEW s \in ASweep(Len(list)),
         NEW n \in 1 .. Len(list) - 1, Ahead(list, empty, s, n - 1), NEW survivors
  PROVE  Ahead(list, empty, SweepBlock(list, s, Before(list, empty, n), survivors), n)
<1> DEFINE i     == Before(list, empty, n)
           swept == SweptObjects(list, s, i, survivors)
           count == Len(list[i].objects)
<1>1. i \in DOMAIN list /\ list[i] \in ABlock /\ Len(list) \in Nat \ {0}
  <2>1. Len(list) \in Nat \ {0} /\ n \in 0 .. Len(list) - 1
    BY RingFacts
  <2>2. Before(list, empty, n) \in DOMAIN list
    BY <2>1, RingFacts
  <2> QED BY <2>1, <2>2
<1>2. i = Before(list, empty, n)
  OBVIOUS
<1> HIDE DEF i
<1>3. /\ swept \in [0 .. count -> ASweep(Len(list))] /\ swept[0] = s /\ count \in Nat
      /\ \A t \in 1 .. count :
           swept[t] = IF <<i, count + 1 - t>> \in survivors
                        THEN Keep(list, swept[t - 1], <<i, count + 1 - t>>) ELSE swept[t - 1]
  BY <1>1, SweptObjectsDefined
<1>4. SweepBlock(list, s, i, survivors) = swept[count]
  BY DEF SweepBlock
<1> HIDE DEF swept
<1>5. PICK m \in 0 .. Len(list) - 1 : FilledUpTo(list, empty, s, m) /\ (m = 0 \/ m <= n - 2)
  <2>1. PICK k \in 0 .. Len(list) - 1 : FilledUpTo(list, empty, s, k) /\ (k = 0 \/ k <= (n - 1) - 1)
    BY DEF Ahead
  <2>2. k = 0 \/ k <= n - 2
    BY <2>1
  <2> QED BY <2>1, <2>2
<1>6. n = 1 => s.list[s.fill].objects = <<>>
  <2> SUFFICES ASSUME n = 1 PROVE s.list[s.fill].objects = <<>>
    OBVIOUS
  <2>1. s.list[empty].objects = <<>>
    BY DEF Ahead
  <2>2. m = 0
    BY <1>5
  <2>3. s.fill = empty
    BY <1>5, <2>2, RingFacts DEF FilledUpTo
  <2> QED BY <2>1, <2>3
<1> DEFINE bytes(t) == LastBytes(list[i].objects, t)
           T == {t \in 0 .. count : AheadWithin(list, empty, swept[t], n, m, bytes(t))}
<1>7. list[i].objects \in Seq(AnObject) /\ Used(list[i]) <= DefaultBlockSize /\ Used(list[i]) \in Nat /\ DefaultBlockSize \in Nat
  <2>1. list[i].objects \in Seq(AnObject) /\ Used(list[i]) \in Nat /\ DefaultBlockSize \in Nat
    BY <1>1, BlockFacts, ConstantFacts
  <2>2. i \in 1 .. Len(list)
    BY <1>1
  <2> QED BY <2>1, <2>2 DEF Equal
<1>8. bytes(0) = 0
  BY <1>7, LastBytesFacts
<1>9. \A t \in 1 .. count :
        /\ bytes(t - 1) \in Nat /\ bytes(t) \in Nat
        /\ bytes(t) = bytes(t - 1) + list[i].objects[count + 1 - t].size
        /\ bytes(t) <= Used(list[i])
  <2>1. \A t \in 1 .. Len(list[i].objects) :
          /\ LastBytes(list[i].objects, t - 1) \in Nat /\ LastBytes(list[i].objects, t) \in Nat
          /\ LastBytes(list[i].objects, t) = LastBytes(list[i].objects, t - 1) + list[i].objects[Len(list[i].objects) + 1 - t].size
          /\ LastBytes(list[i].objects, t) <= Filled(list[i].objects)[Len(list[i].objects)]
    BY <1>7, LastBytesFacts
  <2> QED BY <2>1 DEF Used
<1>10. ~s.lost /\ SameBlocks(list, s)
  BY DEF Ahead
<1> HIDE DEF bytes
<1>11. 0 \in T
  <2>1. n = 1 => Used(s.list[s.fill]) = 0
    BY <1>6, EmptyUsed
  <2>2. n = 1 => Used(s.list[s.fill]) <= bytes(0)
    BY <1>8, <2>1
  <2>3. AheadWithin(list, empty, s, n, m, bytes(0))
    BY <1>5, <1>10, <2>2 DEF AheadWithin
  <2> QED BY <1>3, <2>3
<1>12. ASSUME NEW t \in 1 .. count, t - 1 \in T PROVE t \in T
  <2> DEFINE j == count + 1 - t
  <2>1. t \in 0 .. count /\ t - 1 \in 0 .. count /\ j \in 1 .. count
    BY <1>3
  <2>2. swept[t - 1] \in ASweep(Len(list)) /\ AheadWithin(list, empty, swept[t - 1], n, m, bytes(t - 1))
    BY <1>3, <1>12, <2>1
  <2>3. /\ bytes(t - 1) \in Nat /\ bytes(t) \in Nat /\ bytes(t) = bytes(t - 1) + list[i].objects[j].size
        /\ bytes(t) <= Used(list[i])
    BY <1>9
  <2>4. swept[t] = IF <<i, j>> \in survivors THEN Keep(list, swept[t - 1], <<i, j>>) ELSE swept[t - 1]
    BY <1>3
  <2> HIDE DEF j, T, count
  <2>5. bytes(t) <= DefaultBlockSize
    BY <1>7, <2>3
  <2>6. AheadWithin(list, empty, Keep(list, swept[t - 1], <<i, j>>), n, m, bytes(t))
    <3>1. j \in 1 .. Len(list[i].objects)
      BY <2>1 DEF count
    <3> DEFINE x == swept[t - 1]
               u == bytes(t - 1)
    <3>2. x \in ASweep(Len(list)) /\ AheadWithin(list, empty, x, n, m, u) /\ u \in Nat /\ bytes(t) = u + list[i].objects[j].size
      BY <2>2, <2>3
    <3> HIDE DEF x, u
    <3>3. u + list[i].objects[j].size <= DefaultBlockSize
      BY <2>5, <3>2
    <3>4. AheadWithin(list, empty, Keep(list, x, <<i, j>>), n, m, u + list[i].objects[j].size)
      BY <1>2, <1>5, <3>1, <3>2, <3>3, KeepAhead
    <3> QED BY <3>2, <3>4 DEF x
  <2>7. AheadWithin(list, empty, swept[t - 1], n, m, bytes(t))
    <3>1. \A u \in ASweep(Len(list)) : u.fill \in 1 .. Len(list) /\ u.list[u.fill] \in ABlock
      BY DEF ASweep
    <3>2. swept[t - 1].list[swept[t - 1].fill] \in ABlock
      BY <2>2, <3>1
    <3>3. Used(swept[t - 1].list[swept[t - 1].fill]) \in Nat
      BY <3>2, BlockFacts
    <3>4. bytes(t - 1) <= bytes(t)
      <4>1. list[i].objects[j].size \in Nat
        BY <1>7, <2>1, ObjectFacts DEF count
      <4> QED BY <2>3, <4>1
    <3>5. Used(swept[t - 1].list[swept[t - 1].fill]) <= bytes(t - 1) => Used(swept[t - 1].list[swept[t - 1].fill]) <= bytes(t)
      BY <2>3, <3>3, <3>4
    <3> QED BY <2>2, <3>5 DEF AheadWithin
  <2>8. AheadWithin(list, empty, swept[t], n, m, bytes(t))
    BY <2>4, <2>6, <2>7
  <2> QED BY <2>1, <2>8 DEF T
<1>13. count \in 0 .. count
  BY <1>3
<1> HIDE DEF T
<1>14. count \in T
  BY <1>3, <1>11, <1>12, <1>13, UpTo
<1>15. AheadWithin(list, empty, swept[count], n, m, bytes(count))
  BY <1>14 DEF T
<1>16. Ahead(list, empty, swept[count], n)
  <2> DEFINE r == swept[count]
  <2>1. AheadWithin(list, empty, r, n, m, bytes(count))
    BY <1>15
  <2> HIDE DEF r
  <2>2. n # 0
    OBVIOUS
  <2>3. ASSUME FilledUpTo(list, empty, r, m)
        PROVE  Ahead(list, empty, r, n)
    <3>1. m = 0 \/ m <= n - 1
      BY <1>5
    <3> QED BY <2>1, <2>2, <2>3, <3>1 DEF Ahead, AheadWithin
  <2>4. ASSUME n > 1, FilledUpTo(list, empty, r, m + 1)
        PROVE  Ahead(list, empty, r, n)
    <3>1. m + 1 \in 0 .. Len(list) - 1 /\ m + 1 <= n - 1
      BY <1>5, <2>4 DEF FilledUpTo
    <3> QED BY <2>1, <2>2, <2>4, <3>1 DEF Ahead, AheadWithin
  <2>5. Ahead(list, empty, r, n)
    BY <2>1, <2>3, <2>4 DEF AheadWithin
  <2> QED BY <2>5 DEF r
<1> QED BY <1>2, <1>4, <1>16

\* The sweep of a list of equally large blocks loses nothing.
LEMMA SweepAhead ==
  ASSUME NEW list \in Seq(ABlock), Equal(list), NEW empty \in DOMAIN list, NEW survivors
  PROVE  ~Sweep(list, empty, survivors).lost
<1> DEFINE swept == SweptBlocks(list, empty, survivors)
           last  == Len(list) - 1
           T == {n \in 0 .. last : Ahead(list, empty, swept[n], n)}
<1>1. /\ swept \in [0 .. last -> ASweep(Len(list))] /\ swept[0] = Begun(list, empty) /\ last \in Nat
      /\ \A n \in 1 .. last : swept[n] = SweepBlock(list, swept[n - 1], Before(list, empty, n), survivors)
  BY SweptBlocksDefined
<1>2. Sweep(list, empty, survivors) = swept[last]
  BY DEF Sweep
<1> HIDE DEF swept
<1>3. 0 \in T
  <2> DEFINE s == Begun(list, empty)
  <2>1. \A k \in DOMAIN list : s.list[k].begin = list[k].begin /\ s.list[k].size = list[k].size /\ s.list[k].objects = <<>>
    <3> TAKE k \in DOMAIN list
    <3>1. s.list[k] = [begin |-> list[k].begin, size |-> list[k].size, objects |-> <<>>]
      BY BegunFacts
    <3> HIDE DEF s
    <3> QED BY <3>1
  <2>2. ~s.lost /\ s.fill = empty
    BY DEF Begun
  <2>3. 0 \in 0 .. Len(list) - 1 /\ empty = Before(list, empty, 0)
    BY <1>1, RingFacts
  <2>4. \A p \in 1 .. Len(list) - 1 : p \in 0 .. Len(list) - 1
    OBVIOUS
  <2>5. \A p \in 1 .. Len(list) - 1 : Before(list, empty, p) \in DOMAIN list
    BY <2>4, RingFacts
  <2> HIDE DEF s
  <2>6. FilledUpTo(list, empty, s, 0)
    <3>1. \A p \in 0 + 1 .. Len(list) - 1 : p \in 1 .. Len(list) - 1
      OBVIOUS
    <3> QED BY <2>1, <2>2, <2>3, <2>5, <3>1 DEF FilledUpTo
  <2>7. SameBlocks(list, s)
    BY <2>1 DEF SameBlocks
  <2>8. Ahead(list, empty, s, 0)
    BY <2>1, <2>2, <2>3, <2>6, <2>7 DEF Ahead
  <2> QED BY <1>1, <2>8 DEF s
<1>4. ASSUME NEW n \in 1 .. last, n - 1 \in T PROVE n \in T
  <2>1. n \in 0 .. last /\ n - 1 \in 0 .. last
    BY <1>1
  <2>2. swept[n - 1] \in ASweep(Len(list)) /\ Ahead(list, empty, swept[n - 1], n - 1)
    BY <1>1, <1>4, <2>1
  <2> DEFINE x == swept[n - 1]
  <2>3. swept[n] = SweepBlock(list, x, Before(list, empty, n), survivors)
    BY <1>1
  <2>4. x \in ASweep(Len(list)) /\ Ahead(list, empty, x, n - 1)
    BY <2>2
  <2> HIDE DEF x, T
  <2>5. Ahead(list, empty, swept[n], n)
    BY <2>3, <2>4, SweepBlockAhead
  <2> QED BY <2>1, <2>5 DEF T
<1>5. last \in 0 .. last
  BY <1>1
<1> HIDE DEF T
<1>6. last \in T
  BY <1>1, <1>3, <1>4, <1>5, UpTo
<1> QED BY <1>2, <1>6 DEF T, Ahead

-----------------------------------------------------------------------------
(* Lists that lose and gain blocks *)

Rank(places, p) == Cardinality({j \in places : j < p})

\* The elements of a finite set of numbers have ranks from 0 on.
LEMMA RankFacts ==
  ASSUME NEW N \in Nat, NEW places \in SUBSET (1 .. N)
  PROVE  /\ IsFiniteSet(places) /\ Cardinality(places) \in Nat
         /\ \A p \in places : Rank(places, p) \in 0 .. Cardinality(places) - 1
         /\ \A p, q \in places : Rank(places, p) = Rank(places, q) => p = q
         /\ \A n \in 1 .. Cardinality(places) : \E p \in places : Rank(places, p) = n - 1
<1> DEFINE C == Cardinality(places)
           below(p) == {j \in places : j < p}
<1>1. IsFiniteSet(places)
  <2>1. IsFiniteSet(1 .. N)
    BY FS_Interval
  <2> QED BY <2>1, FS_Subset
<1>2. C \in Nat
  BY <1>1, FS_CardinalityType
<1>3. ASSUME NEW p \in places, NEW q \in places, p < q
      PROVE  Cardinality(below(p)) < Cardinality(below(q))
  <2>1. below(p) \in SUBSET below(q) /\ p \in below(q) /\ p \notin below(p) /\ below(q) \in SUBSET places
    <3>1. \A j \in places : j \in Int
      OBVIOUS
    <3>2. \A j \in places : j < p => j < q
      BY <1>3, <3>1
    <3>3. ~(p < p)
      BY <3>1
    <3> QED BY <1>3, <3>2, <3>3
  <2> HIDE DEF below
  <2>2. IsFiniteSet(below(q))
    BY <1>1, <2>1, FS_Subset
  <2>3. IsFiniteSet(below(p))
    BY <2>1, <2>2, FS_Subset
  <2>4. Cardinality(below(p)) \in Nat /\ Cardinality(below(q)) \in Nat
    BY <2>2, <2>3, FS_CardinalityType
  <2>5. Cardinality(below(p)) <= Cardinality(below(q)) /\ Cardinality(below(p)) # Cardinality(below(q))
    BY <2>1, <2>2, FS_Subset
  <2> QED BY <2>4, <2>5
<1>4. ASSUME NEW p \in places PROVE Cardinality(below(p)) \in 0 .. C - 1
  <2>1. below(p) \in SUBSET places /\ below(p) # places
    BY DEF below
  <2> HIDE DEF below
  <2>2. IsFiniteSet(below(p))
    BY <1>1, <2>1, FS_Subset
  <2>3. Cardinality(below(p)) \in Nat
    BY <2>2, FS_CardinalityType
  <2>4. Cardinality(below(p)) <= C /\ Cardinality(below(p)) # C
    BY <1>1, <2>1, FS_Subset
  <2> QED BY <1>2, <2>3, <2>4
<1>5. \A p \in places : Rank(places, p) = Cardinality(below(p))
  BY DEF Rank
<1> HIDE DEF below, C
<1>6. \A p, q \in places : Rank(places, p) = Rank(places, q) => p = q
  <2> SUFFICES ASSUME NEW p \in places, NEW q \in places, Rank(places, p) = Rank(places, q), p # q PROVE FALSE
    OBVIOUS
  <2>1. Cardinality(below(p)) \in Int /\ Cardinality(below(q)) \in Int
    BY <1>2, <1>4
  <2>2. p < q \/ q < p
    OBVIOUS
  <2>3. Cardinality(below(p)) # Cardinality(below(q))
    BY <1>3, <2>1, <2>2
  <2> QED BY <1>5, <2>3
<1> DEFINE f == [p \in places |-> Rank(places, p)]
<1>7. f \in Injection(places, 0 .. C - 1)
  <2>1. f \in [places -> 0 .. C - 1]
    BY <1>4, <1>5
  <2>2. \A p, q \in places : f[p] = f[q] => p = q
    BY <1>6
  <2> HIDE DEF f
  <2> QED BY <2>1, <2>2 DEF Injection, IsInjective
<1>8. IsFiniteSet(0 .. C - 1) /\ Cardinality(0 .. C - 1) = C
  <2>1. 0 \in Int /\ C - 1 \in Int /\ (IF 0 > C - 1 THEN 0 ELSE (C - 1) - 0 + 1) = C
    BY <1>2
  <2>2. IsFiniteSet(0 .. C - 1) /\ Cardinality(0 .. C - 1) = IF 0 > C - 1 THEN 0 ELSE (C - 1) - 0 + 1
    BY <2>1, FS_Interval
  <2> QED BY <2>1, <2>2
<1>9. f \in Surjection(places, 0 .. C - 1)
  <2> HIDE DEF f
  <2> QED BY <1>7, <1>8, FS_Injection DEF C
<1>10. \A n \in 1 .. C : \E p \in places : Rank(places, p) = n - 1
  <2> TAKE n \in 1 .. C
  <2>1. n - 1 \in 0 .. C - 1
    BY <1>2
  <2>2. \A x \in 0 .. C - 1 : \E p \in places : f[p] = x
    <3> HIDE DEF f
    <3> QED BY <1>9 DEF Surjection
  <2> QED BY <2>1, <2>2
<1> QED BY <1>1, <1>2, <1>4, <1>5, <1>6, <1>10 DEF C

Empties(list) == {i \in 1 .. Len(list) : IsEmpty(list[i])}
FewEmpties(list) == Cardinality(Empties(list)) <= EmptyBlocks

\* A list whose empty blocks come, one by one, from few, has few.
LEMMA FewerEmpties ==
  ASSUME NEW N \in Nat, NEW few \in SUBSET (1 .. N), Cardinality(few) <= EmptyBlocks, NEW S, NEW f \in [S -> few],
         \A x, y \in S : f[x] = f[y] => x = y
  PROVE  Cardinality(S) <= EmptyBlocks
<1>1. IsFiniteSet(few) /\ Cardinality(few) \in Nat
  BY RankFacts
<1>2. f \in Injection(S, few)
  BY DEF Injection, IsInjective
<1>3. IsFiniteSet(S) /\ Cardinality(S) <= Cardinality(few)
  BY <1>1, <1>2, FS_Injection
<1>4. Cardinality(S) \in Nat
  BY <1>3, FS_CardinalityType
<1> QED BY <1>1, <1>3, <1>4, ConstantFacts

\* The places of the list that Spared leaves: few empty ones, and all others.
LEMMA SparedFacts ==
  ASSUME NEW list \in Seq(ABlock)
  PROVE  /\ Spared(list) \in SUBSET (1 .. Len(list))
         /\ \A i \in 1 .. Len(list) : i \notin Spared(list) => IsEmpty(list[i])
         /\ Cardinality(Empties(list) \cap Spared(list)) <= EmptyBlocks
<1> DEFINE E == Empties(list)
           S == E \cap Spared(list)
           f == [i \in S |-> Rank(E, i)]
<1>1. E \in SUBSET (1 .. Len(list)) /\ Len(list) \in Nat
  BY DEF Empties
<1>2. ASSUME NEW i \in S PROVE Rank(E, i) \in 0 .. EmptyBlocks - 1
  <2>1. i \in 1 .. Len(list) /\ IsEmpty(list[i]) /\ i \in E
    BY DEF Empties
  <2>2. {j \in 1 .. i - 1 : IsEmpty(list[j])} = {j \in E : j < i}
    BY <2>1 DEF Empties
  <2>3. Cardinality({j \in 1 .. i - 1 : IsEmpty(list[j])}) < EmptyBlocks
    BY <2>1 DEF Spared
  <2>4. Rank(E, i) < EmptyBlocks
    BY <2>2, <2>3 DEF Rank
  <2>5. Rank(E, i) \in 0 .. Cardinality(E) - 1 /\ Cardinality(E) \in Nat
    <3> HIDE DEF E
    <3> QED BY <1>1, <2>1, RankFacts
  <2> QED BY <2>4, <2>5, ConstantFacts
<1>3. Cardinality(S) <= EmptyBlocks
  <2>1. \A x, y \in S : Rank(E, x) = Rank(E, y) => x = y
    <3> HIDE DEF E
    <3> QED BY <1>1, RankFacts
  <2>2. f \in [S -> 0 .. EmptyBlocks - 1]
    BY <1>2
  <2>3. \A x, y \in S : f[x] = f[y] => x = y
    BY <2>1
  <2>4. IsFiniteSet(0 .. EmptyBlocks - 1) /\ Cardinality(0 .. EmptyBlocks - 1) = EmptyBlocks
    <3>1. 0 \in Int /\ EmptyBlocks - 1 \in Int /\ (IF 0 > EmptyBlocks - 1 THEN 0 ELSE (EmptyBlocks - 1) - 0 + 1) = EmptyBlocks
      BY ConstantFacts
    <3>2. IsFiniteSet(0 .. EmptyBlocks - 1)
          /\ Cardinality(0 .. EmptyBlocks - 1) = IF 0 > EmptyBlocks - 1 THEN 0 ELSE (EmptyBlocks - 1) - 0 + 1
      BY <3>1, FS_Interval
    <3> QED BY <3>1, <3>2
  <2> HIDE DEF f, S
  <2>5. f \in Injection(S, 0 .. EmptyBlocks - 1)
    BY <2>2, <2>3 DEF Injection, IsInjective
  <2>6. Cardinality(S) <= Cardinality(0 .. EmptyBlocks - 1)
    BY <2>4, <2>5, FS_Injection
  <2> QED BY <2>4, <2>6
<1>4. Spared(list) \in SUBSET (1 .. Len(list)) /\ \A i \in 1 .. Len(list) : i \notin Spared(list) => IsEmpty(list[i])
  BY DEF Spared
<1> QED BY <1>3, <1>4

\* The blocks that are left: what each is, and that each is there.
IsSublist(list, places, sub, M) ==
  /\ sub \in Seq(ABlock) /\ Len(sub) = M /\ M \in Nat
  /\ \E pos \in [1 .. M -> places] :
       /\ \A n \in 1 .. M : sub[n] = list[pos[n]]
       /\ \A n, m \in 1 .. M : pos[n] = pos[m] => n = m
       /\ \A p \in places : \E n \in 1 .. M : pos[n] = p

LEMMA SublistFacts ==
  ASSUME NEW list \in Seq(ABlock), NEW places \in SUBSET (1 .. Len(list))
  PROVE  IsSublist(list, places, Sublist(list, places), Cardinality(places))
<1> DEFINE C == Cardinality(places)
           at(n) == CHOOSE i \in places : Cardinality({j \in places : j < i}) = n - 1
           pos == [n \in 1 .. C |-> at(n)]
           sub == Sublist(list, places)
<1>1. /\ IsFiniteSet(places) /\ C \in Nat
      /\ \A p \in places : Rank(places, p) \in 0 .. C - 1
      /\ \A p, q \in places : Rank(places, p) = Rank(places, q) => p = q
      /\ \A n \in 1 .. C : \E p \in places : Rank(places, p) = n - 1
  <2>1. Len(list) \in Nat
    OBVIOUS
  <2> QED BY <2>1, RankFacts
<1>2. \A n \in 1 .. C : at(n) \in places /\ Rank(places, at(n)) = n - 1
  BY <1>1 DEF Rank
<1>3. sub = [n \in 1 .. C |-> list[at(n)]]
  BY DEF Sublist
<1> HIDE DEF C, at, sub
<1>4. pos \in [1 .. C -> places] /\ \A n \in 1 .. C : pos[n] = at(n)
  BY <1>2
<1> HIDE DEF pos
<1>5. \A n \in 1 .. C : list[at(n)] \in ABlock
  <2>1. \A p \in places : list[p] \in ABlock
    OBVIOUS
  <2> QED BY <1>2, <2>1
<1>6. sub \in [1 .. C -> ABlock]
  BY <1>3, <1>5
<1>7. sub \in Seq(ABlock) /\ Len(sub) = C
  BY <1>1, <1>6
<1>8. \A n \in 1 .. C : sub[n] = list[pos[n]]
  BY <1>3, <1>4
<1>9. \A n, m \in 1 .. C : pos[n] = pos[m] => n = m
  BY <1>2, <1>4
<1>10. \A p \in places : \E n \in 1 .. C : pos[n] = p
  <2> TAKE p \in places
  <2>1. Rank(places, p) + 1 \in 1 .. C
    BY <1>1
  <2>2. Rank(places, at(Rank(places, p) + 1)) = (Rank(places, p) + 1) - 1 /\ at(Rank(places, p) + 1) \in places
    BY <1>2, <2>1
  <2>3. Rank(places, at(Rank(places, p) + 1)) = Rank(places, p)
    BY <1>1, <2>2
  <2>4. at(Rank(places, p) + 1) = p
    BY <1>1, <2>2, <2>3
  <2> QED BY <1>4, <2>1, <2>4
<1>11. /\ sub \in Seq(ABlock) /\ Len(sub) = C /\ C \in Nat
       /\ \A n \in 1 .. C : sub[n] = list[pos[n]]
       /\ \A n, m \in 1 .. C : pos[n] = pos[m] => n = m
       /\ \A p \in places : \E n \in 1 .. C : pos[n] = p
  BY <1>1, <1>7, <1>8, <1>9, <1>10
<1> QED BY <1>4, <1>11 DEF C, sub, IsSublist

\* The new list is the old one and the block: the others come from the places of the old list.
AddedTo(list, new, pos, block) ==
  LET K == (1 .. Len(list) + 1) \ {pos}
  IN  /\ Proper(new) /\ Len(new) = Len(list) + 1 /\ Len(list) \in Nat /\ new[pos] = block
      /\ \E old \in [K -> 1 .. Len(list)] :
           /\ \A k \in K : new[k] = list[old[k]]
           /\ \A k, n \in K : old[k] = old[n] => k = n
           /\ \A i \in 1 .. Len(list) : \E k \in K : old[k] = i

LEMMA Inserted ==
  ASSUME NEW list, Proper(list), NEW pos \in 1 .. Len(list) + 1, NEW place \in Free(list),
         NEW size \in BlockSizes, size >= DefaultBlockSize, NEW objects \in Seq(AnObject),
         Used(NewBlock(place, size, objects)) <= size
  PROVE  AddedTo(list, InsertAt(list, pos, NewBlock(place, size, objects)), pos, NewBlock(place, size, objects))
<1> DEFINE N == Len(list)
           block == NewBlock(place, size, objects)
           new == InsertAt(list, pos, block)
           K == (1 .. N + 1) \ {pos}
           old == [k \in K |-> IF k < pos THEN k ELSE k - 1]
<1>1. list \in Seq(ABlock) /\ N \in Nat /\ DOMAIN list = 1 .. N
  BY DEF Proper
<1>2. place \in Places /\ \A i \in 1 .. N : list[i].begin # place
  BY <1>1 DEF Free
<1>3. block \in ABlock /\ block.begin = place /\ block.size = size
  BY <1>2 DEF NewBlock, ABlock
<1>4. Used(block) <= block.size
  BY <1>3
<1> HIDE DEF block
<1>5. /\ new \in Seq(ABlock) /\ Len(new) = N + 1 /\ new[pos] = block
      /\ \A k \in 1 .. pos - 1 : new[k] = list[k]
      /\ \A k \in pos + 1 .. N + 1 : new[k] = list[k - 1]
  <2>1. pos \in 1 .. Len(list) + 1
    OBVIOUS
  <2>2. IsInsertion(ABlock, list, pos, block, new)
    BY <1>1, <1>3, <2>1, InsertAtFacts
  <2> HIDE DEF new
  <2> QED BY <2>2 DEF IsInsertion
<1> HIDE DEF new, N
<1>6. old \in [K -> 1 .. N] /\ (\A k, n \in K : old[k] = old[n] => k = n) /\ \A i \in 1 .. N : \E k \in K : old[k] = i
  <2>1. pos \in 1 .. N + 1
    BY DEF N
  <2>2. old \in [K -> 1 .. N] /\ \A k, n \in K : old[k] = old[n] => k = n
    BY <1>1, <2>1
  <2>3. ASSUME NEW i \in 1 .. N PROVE \E k \in K : old[k] = i
    <3>1. CASE i < pos
      <4>1. i \in K /\ old[i] = i
        BY <1>1, <2>1, <3>1
      <4> QED BY <4>1
    <3>2. CASE ~(i < pos)
      <4>1. i + 1 \in K /\ old[i + 1] = i
        BY <1>1, <2>1, <3>2
      <4> QED BY <4>1
    <3> QED BY <3>1, <3>2
  <2> QED BY <2>2, <2>3
<1>7. \A k \in K : new[k] = list[old[k]]
  <2> TAKE k \in K
  <2>1. CASE k < pos
    <3>1. k \in 1 .. pos - 1 /\ old[k] = k
      BY <2>1
    <3> QED BY <1>5, <3>1
  <2>2. CASE ~(k < pos)
    <3>1. k \in pos + 1 .. N + 1 /\ old[k] = k - 1
      BY <1>1, <2>2 DEF N
    <3> QED BY <1>5, <3>1
  <2> QED BY <2>1, <2>2
<1> HIDE DEF old, K
<1>8. \A k \in 1 .. N + 1 : k = pos \/ k \in K
  BY DEF K
<1>9. \A i \in 1 .. N : list[i].size >= DefaultBlockSize /\ Used(list[i]) <= list[i].size
  BY <1>1 DEF Proper
<1>10. \A i, j \in 1 .. N : list[i].begin = list[j].begin => i = j
  BY <1>1 DEF Proper
<1>11. Proper(new)
  <2>1. DOMAIN new = 1 .. N + 1
    BY <1>5
  <2>2. \A k \in 1 .. N + 1 : new[k].size >= DefaultBlockSize /\ Used(new[k]) <= new[k].size
    BY <1>3, <1>4, <1>5, <1>6, <1>7, <1>8, <1>9
  <2>3. \A k \in K : new[k].begin # place
    BY <1>2, <1>6, <1>7
  <2>4. \A k, n \in K : new[k].begin = new[n].begin => k = n
    BY <1>6, <1>7, <1>10
  <2>5. \A k, n \in 1 .. N + 1 : new[k].begin = new[n].begin => k = n
    BY <1>3, <1>5, <1>8, <2>3, <2>4
  <2> QED BY <1>5, <2>1, <2>2, <2>5 DEF Proper
<1>12. \E o \in [K -> 1 .. N] :
         /\ \A k \in K : new[k] = list[o[k]]
         /\ \A k, n \in K : o[k] = o[n] => k = n
         /\ \A i \in 1 .. N : \E k \in K : o[k] = i
  BY <1>6, <1>7
<1>13. AddedTo(list, new, pos, block)
  BY <1>1, <1>5, <1>11, <1>12, Zenon DEF AddedTo, K, N
<1> QED BY <1>13 DEF new, block

-----------------------------------------------------------------------------
(* The invariant *)

Covered(list, card) == \E k \in 1 .. Len(list) : Covers(list[k], card)

\* What is true of what a call leaves, whether it went wrong or not.
AResult == [status : {"running"} \cup Failures, blocks : Seq(ABlock), current : Int, cards : SUBSET Nat, erased : BOOLEAN]

Sane(r) ==
  /\ r \in AResult
  /\ Proper(r.blocks)
  /\ r.status # "erased" => r.current \in 1 .. Len(r.blocks)
  /\ r.status = "erased" => \A i \in 1 .. Len(r.blocks) : IsEmpty(r.blocks[i])
  /\ r.status = "lost" => \E i \in 1 .. Len(r.blocks) : r.blocks[i].size > DefaultBlockSize
  /\ r.status = "running" => FewEmpties(r.blocks)
  /\ ~r.erased => \A card \in r.cards : Covered(r.blocks, card)

Remembers(r) == RememberedIn(r.blocks, r.cards)

\* The object that was allocated last is not remembered yet.
RemembersButLast(r) ==
  \A i \in 1 .. Len(r.blocks) : \A j \in 1 .. Len(r.blocks[i].objects) :
    r.blocks[i].objects[j].remembered =>
      \/ Card(Header(r.blocks[i], j)) \in r.cards
      \/ r.status = "running" /\ i = r.current /\ j = Len(r.blocks[i].objects)

IInv == Sane(Now) /\ Remembers(Now)

LEMMA WithStatus ==
  ASSUME NEW r \in AResult, NEW c
  PROVE  [r EXCEPT !.status = c] =
           [status |-> c, blocks |-> r.blocks, current |-> r.current, cards |-> r.cards, erased |-> r.erased]
BY DEF AResult

LEMMA FailedSane ==
  ASSUME IInv, status = "running", NEW code \in {"bad_alloc", "null", "no table", "end"}
  PROVE  Sane(Failed(code)) /\ Remembers(Failed(code))
<1> DEFINE f == Failed(code)
<1>1. Now.status = status /\ Now.blocks = blocks /\ Now.current = current /\ Now.cards = cards /\ Now.erased = erased
  BY DEF Now
<1>2. f = [status |-> code, blocks |-> blocks, current |-> current, cards |-> cards, erased |-> erased]
  <2>1. Now \in AResult
    BY DEF IInv, Sane
  <2>2. f = [Now EXCEPT !.status = code]
    BY DEF Failed
  <2> HIDE DEF f
  <2>3. f = [status |-> code, blocks |-> Now.blocks, current |-> Now.current, cards |-> Now.cards, erased |-> Now.erased]
    BY <2>1, <2>2, WithStatus
  <2> QED BY <1>1, <2>3
<1> HIDE DEF f
<1>3. f.status = code /\ f.blocks = blocks /\ f.current = current /\ f.cards = cards /\ f.erased = erased
  <2> DEFINE b == blocks
             d == cards
             e == erased
  <2>1. f = [status |-> code, blocks |-> b, current |-> current, cards |-> d, erased |-> e]
    BY <1>2
  <2> HIDE DEF b, d, e
  <2>2. f.status = code /\ f.blocks = b /\ f.current = current /\ f.cards = d /\ f.erased = e
    BY <2>1
  <2> QED BY <2>2 DEF b, d, e
<1>4. f \in AResult
  <2>1. Now \in AResult
    BY DEF IInv, Sane
  <2>2. blocks \in Seq(ABlock) /\ current \in Int /\ cards \in SUBSET Nat /\ erased \in BOOLEAN
    BY <1>1, <2>1 DEF AResult
  <2>3. code \in {"running"} \cup Failures
    BY DEF Failures
  <2> QED BY <1>2, <2>2, <2>3 DEF AResult
<1>5. Sane(f)
  BY <1>1, <1>3, <1>4 DEF IInv, Sane
<1>6. Remembers(f)
  BY <1>1, <1>3 DEF IInv, Remembers
<1> QED BY <1>5, <1>6 DEF f

\* What an allocation leaves: the object lies on top of the current block.
Allocated(s, object) ==
  /\ Sane(s) /\ RemembersButLast(s)
  /\ s.status = "running" =>
       s.blocks[s.current].objects # <<>> /\ Last(s.blocks[s.current].objects) = object

LEMMA CreateNewBlockSane ==
  ASSUME IInv, status = "running",
         NEW r, Sane(r), Remembers(r), r.status = "running", NEW object \in AnObject, NEW s \in CreateNewBlock(r, object)
  PROVE  Allocated(s, object)
<1> DEFINE size == IF object.size > DefaultBlockSize THEN object.size ELSE DefaultBlockSize
<1>1. object.size \in Sizes /\ object.size \in Nat /\ DefaultBlockSize \in Nat
  BY ConstantFacts DEF AnObject
<1>2. size \in BlockSizes /\ size >= DefaultBlockSize /\ object.size <= size
  BY <1>1 DEF BlockSizes
<1>3. CASE Free(r.blocks) = {}
  <2>1. s = Failed("null")
    BY <1>3 DEF CreateNewBlock
  <2>2. Sane(s) /\ Remembers(s) /\ s.status = "null"
    BY <2>1, FailedSane DEF Failed, Now
  <2>3. RemembersButLast(s)
    BY <2>2 DEF Remembers, RememberedIn, RemembersButLast
  <2> QED BY <2>2, <2>3 DEF Allocated
<1>4. CASE Free(r.blocks) # {}
  <2> HIDE DEF size
  <2>1. PICK place \in Free(r.blocks) :
          s = [r EXCEPT !.blocks = InsertAt(@, r.current + 1, NewBlock(place, size, <<object>>)), !.current = @ + 1]
    BY <1>4 DEF CreateNewBlock, size
  <2> DEFINE block == NewBlock(place, size, <<object>>)
             pos   == r.current + 1
             new   == InsertAt(r.blocks, pos, block)
             N     == Len(r.blocks)
             K     == (1 .. N + 1) \ {pos}
  <2>2. r \in AResult /\ Proper(r.blocks) /\ r.current \in 1 .. N /\ FewEmpties(r.blocks)
    BY DEF Sane
  <2>3. N \in Nat /\ r.current \in Int /\ pos \in 1 .. N + 1 /\ r.blocks \in Seq(ABlock)
    BY <2>2 DEF Proper
  <2>4. <<object>> \in Seq(AnObject) /\ Len(<<object>>) = 1 /\ <<object>>[1] = object
    OBVIOUS
  <2>5. Used(block) = object.size /\ block.objects = <<object>>
    <3> DEFINE q == <<object>>
    <3>2. block.objects = q
      BY DEF NewBlock
    <3>3. q \in Seq(AnObject) /\ Len(q) = 1 /\ q[1] = object
      BY <2>4
    <3> HIDE DEF block, q
    <3>1. Filled(q)[0] = 0 /\ \A n \in 1 .. 1 : Filled(q)[n] = Filled(q)[n - 1] + q[n].size
      BY <3>3, FilledDefined
    <3>4. 1 \in 1 .. 1 /\ 1 - 1 = 0
      OBVIOUS
    <3>5. Filled(q)[1] = Filled(q)[0] + object.size
      BY <3>1, <3>3, <3>4
    <3>6. Used(block) = object.size
      BY <1>1, <3>1, <3>2, <3>3, <3>5 DEF Used
    <3> QED BY <3>2, <3>6 DEF q
  <2>6. Used(block) <= size
    BY <1>2, <2>5
  <2>19. AddedTo(r.blocks, new, pos, block)
    BY <1>2, <2>2, <2>3, <2>4, <2>6, Inserted
  <2>7. /\ Proper(new) /\ Len(new) = N + 1 /\ new[pos] = block
        /\ \E old \in [K -> 1 .. N] : /\ \A k \in K : new[k] = r.blocks[old[k]]
                                      /\ \A k, n \in K : old[k] = old[n] => k = n
                                      /\ \A i \in 1 .. N : \E k \in K : old[k] = i
    <3> HIDE DEF new, block
    <3> QED BY <2>19 DEF AddedTo
  <2>8. s = [status |-> r.status, blocks |-> new, current |-> pos, cards |-> r.cards, erased |-> r.erased]
    BY <2>1, <2>2 DEF AResult
  <2> HIDE DEF block, new
  <2>9. s.status = "running" /\ s.blocks = new /\ s.current = pos /\ s.cards = r.cards /\ s.erased = r.erased
    BY <2>8
  <2>10. s \in AResult
    <3>1. r.status \in {"running"} \cup Failures /\ r.cards \in SUBSET Nat /\ r.erased \in BOOLEAN /\ pos \in Int /\ new \in Seq(ABlock)
      BY <2>2, <2>3, <2>7 DEF AResult, Proper
    <3> HIDE DEF pos
    <3> QED BY <2>8, <3>1 DEF AResult
  <2> HIDE DEF pos, N, K
  <2>11. PICK old \in [K -> 1 .. N] : /\ \A k \in K : new[k] = r.blocks[old[k]]
                                      /\ \A k, n \in K : old[k] = old[n] => k = n
                                      /\ \A i \in 1 .. N : \E k \in K : old[k] = i
    BY <2>7
  <2>12. K \in SUBSET (1 .. N + 1) /\ pos \in 1 .. N + 1 /\ \A k \in 1 .. N + 1 : k = pos \/ k \in K
    BY <2>3 DEF K
  <2>13. ~IsEmpty(block)
    BY <2>5 DEF IsEmpty
  <2>14. FewEmpties(new)
    <3> DEFINE few == Empties(r.blocks)
               S   == Empties(new)
               f   == [k \in S |-> old[k]]
    <3>1. \A k \in S : k \in K /\ old[k] \in few
      BY <2>7, <2>11, <2>12, <2>13 DEF Empties, N
    <3>2. f \in [S -> few] /\ \A x, y \in S : f[x] = f[y] => x = y
      BY <2>11, <3>1
    <3>3. few \in SUBSET (1 .. N) /\ Cardinality(few) <= EmptyBlocks
      BY <2>2 DEF Empties, FewEmpties, N
    <3> HIDE DEF few, S, f
    <3>4. Cardinality(S) <= EmptyBlocks
      BY <2>3, <3>2, <3>3, FewerEmpties
    <3> QED BY <3>4 DEF S, FewEmpties
  <2>15. ~s.erased => \A card \in s.cards : Covered(new, card)
    <3> SUFFICES ASSUME ~r.erased, NEW card \in r.cards PROVE Covered(new, card)
      BY <2>9
    <3>1. PICK i \in 1 .. N : Covers(r.blocks[i], card)
      BY DEF Sane, Covered, N
    <3>2. PICK k \in K : old[k] = i
      BY <2>11
    <3>3. Covers(new[k], card)
      BY <2>11, <3>1, <3>2
    <3> QED BY <2>7, <2>12, <3>3 DEF Covered
  <2>16. Sane(s)
    BY <2>7, <2>9, <2>10, <2>12, <2>14, <2>15 DEF Sane
  <2>17. RemembersButLast(s)
    <3> SUFFICES ASSUME NEW i \in 1 .. N + 1, NEW j \in 1 .. Len(new[i].objects), new[i].objects[j].remembered
                 PROVE  Card(Header(new[i], j)) \in r.cards \/ (i = pos /\ j = Len(new[i].objects))
      BY <2>7, <2>9 DEF RemembersButLast
    <3>1. CASE i = pos
      <4>1. Len(new[i].objects) = 1
        BY <2>4, <2>5, <2>7, <3>1
      <4> QED BY <3>1, <4>1
    <3>2. CASE i \in K
      <4>1. new[i] = r.blocks[old[i]] /\ old[i] \in 1 .. N
        BY <2>11, <3>2
      <4> QED BY <4>1 DEF Remembers, RememberedIn, N
    <3> QED BY <2>12, <3>1, <3>2
  <2>18. s.blocks[s.current].objects # <<>> /\ Last(s.blocks[s.current].objects) = object
    <3> DEFINE q == <<object>>
    <3>1. q # <<>> /\ Len(q) = 1 /\ q[1] = object
      BY <2>4
    <3> HIDE DEF q
    <3>2. s.blocks[s.current].objects = q
      BY <2>5, <2>7, <2>9 DEF q
    <3> QED BY <3>1, <3>2 DEF Last
  <2> QED BY <2>16, <2>17, <2>18 DEF Allocated
<1> QED BY <1>3, <1>4

\* A block with one more object.
LEMMA AppendedFacts ==
  ASSUME NEW block \in ABlock, NEW object \in AnObject
  PROVE  LET kept == [block EXCEPT !.objects = Append(@, object)]
         IN  /\ kept \in ABlock /\ kept.begin = block.begin /\ kept.size = block.size
             /\ kept.objects = Append(block.objects, object)
             /\ Used(kept) = Used(block) + object.size
             /\ \A k \in 1 .. Len(block.objects) : Header(kept, k) = Header(block, k)
<1> DEFINE kept == [block EXCEPT !.objects = Append(@, object)]
           more == Append(block.objects, object)
<1>1. block.objects \in Seq(AnObject)
  BY BlockFacts
<1>2. /\ more \in Seq(AnObject) /\ Len(more) = Len(block.objects) + 1
      /\ \A n \in 0 .. Len(block.objects) : Filled(more)[n] = Filled(block.objects)[n]
      /\ Filled(more)[Len(block.objects) + 1] = Filled(block.objects)[Len(block.objects)] + object.size
  BY <1>1, FilledAppend
<1>3. kept = [block EXCEPT !.objects = more]
  OBVIOUS
<1> HIDE DEF kept, more
<1>4. kept = [begin |-> block.begin, size |-> block.size, objects |-> more] /\ kept \in ABlock
  BY <1>2, <1>3, WithObjects
<1>5. kept.begin = block.begin /\ kept.size = block.size /\ kept.objects = more
  BY <1>4
<1>6. Used(kept) = Used(block) + object.size
  BY <1>2, <1>5 DEF Used
<1>7. \A k \in 1 .. Len(block.objects) : Header(kept, k) = Header(block, k)
  BY <1>2, <1>5 DEF Header
<1> QED BY <1>4, <1>5, <1>6, <1>7 DEF kept, more

LEMMA WithBlocks ==
  ASSUME NEW r \in AResult, NEW b
  PROVE  [r EXCEPT !.blocks = b] =
           [status |-> r.status, blocks |-> b, current |-> r.current, cards |-> r.cards, erased |-> r.erased]
BY DEF AResult

LEMMA HasRoomSane ==
  ASSUME NEW r, Sane(r), Remembers(r), r.status = "running", NEW object \in AnObject,
         HasRoom(r.blocks[r.current], object.size)
  PROVE  Allocated([r EXCEPT !.blocks[r.current].objects = Append(@, object)], object)
<1> DEFINE s     == [r EXCEPT !.blocks[r.current].objects = Append(@, object)]
           N     == Len(r.blocks)
           c     == r.current
           block == r.blocks[c]
           kept  == [block EXCEPT !.objects = Append(@, object)]
           new   == [r.blocks EXCEPT ![c] = kept]
<1>1. r \in AResult /\ Proper(r.blocks) /\ c \in 1 .. N /\ FewEmpties(r.blocks)
  BY DEF Sane
<1>2. r.blocks \in Seq(ABlock) /\ N \in Nat /\ DOMAIN r.blocks = 1 .. N
  BY <1>1 DEF Proper
<1>3. s = [status |-> r.status, blocks |-> new, current |-> c, cards |-> r.cards, erased |-> r.erased]
  <2> DEFINE q == Append(r.blocks[r.current].objects, object)
  <2>1. s = [r EXCEPT !.blocks[c].objects = q] /\ new = [r.blocks EXCEPT ![c] = [r.blocks[c] EXCEPT !.objects = q]]
    OBVIOUS
  <2>2. s = [r EXCEPT !.blocks = new]
    <3> HIDE DEF s, new, c, q
    <3>1. [r EXCEPT !.blocks[c].objects = q] = [r EXCEPT !.blocks = [r.blocks EXCEPT ![c] = [r.blocks[c] EXCEPT !.objects = q]]]
      OBVIOUS
    <3> QED BY <2>1, <3>1
  <2> HIDE DEF s, new
  <2> QED BY <1>1, <2>2, WithBlocks
<1>4. block \in ABlock
  BY <1>1, <1>2
<1>5. HasRoom(block, object.size)
  OBVIOUS
<1> HIDE DEF block, s
<1>6. /\ kept \in ABlock /\ kept.begin = block.begin /\ kept.size = block.size
      /\ kept.objects = Append(block.objects, object)
      /\ Used(kept) = Used(block) + object.size
      /\ \A k \in 1 .. Len(block.objects) : Header(kept, k) = Header(block, k)
  BY <1>4, AppendedFacts
<1> HIDE DEF kept, c
<1>7. new \in Seq(ABlock) /\ Len(new) = N /\ DOMAIN new = 1 .. N /\ new[c] = kept /\ \A k \in 1 .. N : k # c => new[k] = r.blocks[k]
  <2> DEFINE b == r.blocks
  <2>1. b \in Seq(ABlock) /\ Len(b) = N /\ N \in Nat /\ c \in 1 .. N /\ kept \in ABlock
    BY <1>1, <1>2, <1>6
  <2>2. new = [b EXCEPT ![c] = kept]
    OBVIOUS
  <2> HIDE DEF b, N, new
  <2>3. b \in [1 .. N -> ABlock]
    BY <2>1
  <2>4. new \in [1 .. N -> ABlock] /\ new[c] = kept /\ \A k \in 1 .. N : k # c => new[k] = b[k]
    BY <2>1, <2>2, <2>3
  <2>5. new \in Seq(ABlock) /\ Len(new) = N /\ DOMAIN new = 1 .. N
    BY <2>1, <2>4
  <2> QED BY <2>4, <2>5 DEF b
<1> HIDE DEF new, N
<1>8. r.blocks[c] = block
  BY DEF block
<1>9. s.status = "running" /\ s.blocks = new /\ s.current = c /\ s.cards = r.cards /\ s.erased = r.erased
  BY <1>3
<1>10. s \in AResult
  <2>1. r.status \in {"running"} \cup Failures /\ r.cards \in SUBSET Nat /\ r.erased \in BOOLEAN /\ c \in Int
    BY <1>1 DEF AResult, c
  <2> QED BY <1>3, <1>7, <2>1 DEF AResult
<1>11. \A k \in 1 .. N : new[k].begin = r.blocks[k].begin /\ new[k].size = r.blocks[k].size
  BY <1>6, <1>7, <1>8
<1>12. Proper(new)
  <2>1. \A i \in 1 .. N : r.blocks[i].size >= DefaultBlockSize /\ Used(r.blocks[i]) <= r.blocks[i].size
    BY <1>1, <1>2 DEF Proper
  <2>2. \A i, j \in 1 .. N : r.blocks[i].begin = r.blocks[j].begin => i = j
    BY <1>1, <1>2 DEF Proper
  <2>3. Used(kept) <= kept.size
    BY <1>5, <1>6 DEF HasRoom
  <2>4. \A i \in 1 .. N : new[i].size >= DefaultBlockSize /\ Used(new[i]) <= new[i].size
    BY <1>7, <1>11, <2>1, <2>3
  <2>5. \A i, j \in 1 .. N : new[i].begin = new[j].begin => i = j
    BY <1>11, <2>2
  <2> QED BY <1>7, <2>4, <2>5 DEF Proper
<1>13. /\ block.objects \in Seq(AnObject) /\ Len(block.objects) \in Nat
       /\ Len(kept.objects) = Len(block.objects) + 1 /\ kept.objects[Len(kept.objects)] = object /\ kept.objects # <<>>
       /\ \A k \in 1 .. Len(block.objects) : kept.objects[k] = block.objects[k]
  <2>1. \A o \in Seq(AnObject), x \in AnObject : /\ Len(o) \in Nat /\ Len(Append(o, x)) = Len(o) + 1 /\ Append(o, x)[Len(o) + 1] = x
                                                /\ Append(o, x) # <<>>
                                                /\ \A k \in 1 .. Len(o) : Append(o, x)[k] = o[k]
    OBVIOUS
  <2>2. block.objects \in Seq(AnObject)
    BY <1>4, BlockFacts
  <2> QED BY <1>6, <2>1, <2>2
<1>14. FewEmpties(new)
  <2>1. Empties(new) \in SUBSET Empties(r.blocks)
    BY <1>7, <1>13 DEF Empties, IsEmpty, N
  <2>2. Empties(r.blocks) \in SUBSET (1 .. N) /\ Cardinality(Empties(r.blocks)) <= EmptyBlocks
    BY <1>1 DEF Empties, FewEmpties, N
  <2> DEFINE few == Empties(r.blocks)
             S   == Empties(new)
             f   == [k \in S |-> k]
  <2>3. f \in [S -> few] /\ \A x, y \in S : f[x] = f[y] => x = y
    BY <2>1
  <2> HIDE DEF few, S, f
  <2>4. Cardinality(S) <= EmptyBlocks
    BY <1>2, <2>2, <2>3, FewerEmpties DEF few
  <2> QED BY <2>4 DEF S, FewEmpties
<1>15. ~s.erased => \A card \in s.cards : Covered(new, card)
  <2> SUFFICES ASSUME ~r.erased, NEW card \in r.cards PROVE Covered(new, card)
    BY <1>9
  <2>1. PICK i \in 1 .. N : Covers(r.blocks[i], card)
    BY DEF Sane, Covered, N
  <2>2. Covers(new[i], card)
    BY <1>11, <2>1 DEF Covers
  <2> QED BY <1>7, <2>2 DEF Covered
<1>16. Sane(s)
  BY <1>1, <1>7, <1>9, <1>10, <1>12, <1>14, <1>15 DEF Sane
<1>17. RemembersButLast(s)
  <2> SUFFICES ASSUME NEW i \in 1 .. N, NEW j \in 1 .. Len(new[i].objects), new[i].objects[j].remembered
               PROVE  Card(Header(new[i], j)) \in r.cards \/ (i = c /\ j = Len(new[i].objects))
    BY <1>7, <1>9 DEF RemembersButLast
  <2>1. CASE i = c
    <3>1. j = Len(kept.objects) \/ j \in 1 .. Len(block.objects)
      <4>1. j \in 1 .. Len(kept.objects)
        BY <1>7, <2>1
      <4> QED BY <1>13, <4>1
    <3>2. CASE j \in 1 .. Len(block.objects)
      <4>1. block.objects[j].remembered /\ Header(new[i], j) = Header(block, j)
        BY <1>6, <1>7, <1>13, <2>1, <3>2
      <4>2. Card(Header(block, j)) \in r.cards
        BY <1>1, <1>8, <3>2, <4>1 DEF Remembers, RememberedIn, N
      <4> QED BY <4>1, <4>2
    <3> QED BY <1>7, <2>1, <3>1, <3>2
  <2>2. CASE i # c
    <3>1. new[i] = r.blocks[i]
      BY <1>7, <2>2
    <3> QED BY <3>1 DEF Remembers, RememberedIn, N
  <2> QED BY <2>1, <2>2
<1>18. s.blocks[s.current].objects # <<>> /\ Last(s.blocks[s.current].objects) = object
  BY <1>7, <1>9, <1>13 DEF Last
<1> QED BY <1>16, <1>17, <1>18 DEF s, Allocated

LEMMA AllocateSane ==
  ASSUME IInv, status = "running",
         NEW r, Sane(r), Remembers(r), r.status = "running", NEW object \in AnObject, NEW s \in Allocate(r, object)
  PROVE  Allocated(s, object)
<1>1. CASE HasRoom(r.blocks[r.current], object.size)
  <2>1. s = [r EXCEPT !.blocks[r.current].objects = Append(@, object)]
    BY <1>1 DEF Allocate
  <2> QED BY <1>1, <2>1, HasRoomSane
<1>2. CASE ~HasRoom(r.blocks[r.current], object.size)
  <2>1. s \in CreateNewBlock(r, object)
    BY <1>2 DEF Allocate
  <2> QED BY <2>1, CreateNewBlockSane
<1> QED BY <1>1, <1>2

-----------------------------------------------------------------------------
(* A collection *)

\* A list that a collection sweeps: blocks, and an empty one among them.
Sweepable(list, g) ==
  /\ Proper(g.list) /\ g.empty \in 1 .. Len(g.list)
  /\ \A C : RememberedIn(list, C) => RememberedIn(g.list, C)
  /\ \A card : Covered(list, card) => Covered(g.list, card)
  /\ (\A k \in 1 .. Len(list) : list[k].size = DefaultBlockSize) => Equal(g.list)

LEMMA GetEmptyBlockFacts ==
  ASSUME NEW list, Proper(list), NEW i \in 1 .. Len(list), NEW g \in GetEmptyBlock(list, i)
  PROVE  Sweepable(list, g)
<1> DEFINE next == NextBlock(list, i)
           N    == Len(list)
<1>1. list \in Seq(ABlock) /\ DOMAIN list = 1 .. N /\ N \in Nat
  BY DEF Proper
<1>2. next \in 1 .. N
  BY <1>1, RingFacts
<1> HIDE DEF next
<1>3. \A k \in 1 .. N : list[k].size >= DefaultBlockSize /\ Used(list[k]) <= list[k].size
  BY <1>1 DEF Proper
<1>4. CASE IsEmpty(list[next])
  <2>1. g.list = list /\ g.empty = next
    BY <1>4 DEF GetEmptyBlock, next
  <2>2. (\A k \in 1 .. N : list[k].size = DefaultBlockSize) => Equal(list)
    BY <1>3 DEF Equal
  <2> QED BY <1>2, <2>1, <2>2 DEF Sweepable
<1>5. CASE ~IsEmpty(list[next])
  <2>1. PICK place \in Free(list) :
          g = [list |-> InsertAt(list, next, NewBlock(place, DefaultBlockSize, <<>>)), empty |-> next]
    BY <1>5 DEF GetEmptyBlock, next
  <2> DEFINE block == NewBlock(place, DefaultBlockSize, <<>>)
             new   == InsertAt(list, next, block)
             K     == (1 .. N + 1) \ {next}
  <2>2. g.list = new /\ g.empty = next
    BY <2>1
  <2>3. block.objects = <<>> /\ block.size = DefaultBlockSize
    BY DEF NewBlock
  <2>4. Used(block) = 0 /\ DefaultBlockSize \in Nat
    BY <2>3, EmptyUsed, ConstantFacts
  <2>5. <<>> \in Seq(AnObject) /\ DefaultBlockSize \in BlockSizes /\ next \in 1 .. Len(list) + 1
    BY <1>1, <1>2 DEF BlockSizes
  <2>6. AddedTo(list, new, next, block)
    <3> DEFINE none == <<>>
               size == DefaultBlockSize
    <3>1. none \in Seq(AnObject) /\ size \in BlockSizes /\ size >= DefaultBlockSize /\ block = NewBlock(place, size, none)
          /\ Used(block) <= size
      BY <2>4, <2>5
    <3> HIDE DEF none, size, block, new
    <3>2. AddedTo(list, InsertAt(list, next, NewBlock(place, size, none)), next, NewBlock(place, size, none))
      BY <2>5, <3>1, Inserted
    <3> QED BY <3>1, <3>2 DEF new
  <2> HIDE DEF block, new
  <2>7. PICK old \in [K -> 1 .. N] :
           /\ \A k \in K : new[k] = list[old[k]]
           /\ \A m \in 1 .. N : \E k \in K : old[k] = m
    BY <2>6 DEF AddedTo
  <2>8. Proper(new) /\ Len(new) = N + 1 /\ new[next] = block
    BY <2>6 DEF AddedTo
  <2>9. K \in SUBSET (1 .. N + 1) /\ \A k \in 1 .. N + 1 : k = next \/ k \in K
    OBVIOUS
  <2> HIDE DEF K, N
  <2>10. ASSUME NEW C, RememberedIn(list, C) PROVE RememberedIn(new, C)
    <3> SUFFICES ASSUME NEW k \in 1 .. N + 1, NEW j \in 1 .. Len(new[k].objects), new[k].objects[j].remembered
                 PROVE  Card(Header(new[k], j)) \in C
      BY <2>8 DEF RememberedIn
    <3>1. k # next
      BY <2>3, <2>8
    <3>2. new[k] = list[old[k]] /\ old[k] \in 1 .. N
      BY <2>7, <2>9, <3>1
    <3> QED BY <2>10, <3>2 DEF RememberedIn, N
  <2>11. ASSUME NEW card, Covered(list, card) PROVE Covered(new, card)
    <3>1. PICK m \in 1 .. N : Covers(list[m], card)
      BY <2>11 DEF Covered, N
    <3>2. PICK k \in K : old[k] = m
      BY <2>7
    <3>3. Covers(new[k], card)
      BY <2>7, <3>1, <3>2
    <3> QED BY <2>8, <2>9, <3>3 DEF Covered
  <2>12. ASSUME \A k \in 1 .. N : list[k].size = DefaultBlockSize PROVE Equal(new)
    <3> SUFFICES ASSUME NEW k \in 1 .. N + 1 PROVE new[k].size = DefaultBlockSize /\ Used(new[k]) <= DefaultBlockSize
      BY <2>8 DEF Equal
    <3>1. CASE k = next
      BY <2>3, <2>4, <2>8, <3>1
    <3>2. CASE k # next
      <4>1. new[k] = list[old[k]] /\ old[k] \in 1 .. N
        BY <2>7, <2>9, <3>2
      <4>2. list[old[k]].size = DefaultBlockSize /\ Used(list[old[k]]) <= list[old[k]].size
        BY <1>3, <2>12, <4>1
      <4> QED BY <4>1, <4>2
    <3> QED BY <3>1, <3>2
  <2>13. next \in 1 .. N + 1
    BY <1>1, <1>2
  <2> QED BY <2>2, <2>8, <2>10, <2>11, <2>12, <2>13 DEF Sweepable, N
<1> QED BY <1>4, <1>5

LEMMA CollectedSane ==
  ASSUME IInv, status = "running", NEW g, Sweepable(blocks, g), NEW survivors, NEW hasPointerTable,
         NEW s \in Collected(g.list, g.empty, survivors, hasPointerTable)
  PROVE  Sane(s) /\ Remembers(s)
<1> DEFINE N      == Len(g.list)
           sweep  == Sweep(g.list, g.empty, survivors)
           swept  == sweep.list
           last   == sweep.fill
           spared == Spared(swept)
           sub    == Sublist(swept, spared)
<1>1. Proper(g.list) /\ g.list \in Seq(ABlock) /\ N \in Nat /\ DOMAIN g.list = 1 .. N /\ g.empty \in 1 .. N
  BY DEF Sweepable, Proper
<1>2. RememberedIn(g.list, cards) /\ \A card \in cards : ~erased => Covered(g.list, card)
  <2>1. Now.status = status /\ Now.blocks = blocks /\ Now.cards = cards /\ Now.erased = erased
    BY DEF Now
  <2>2. RememberedIn(blocks, cards)
    BY <2>1 DEF IInv, Remembers
  <2>3. \A card \in cards : ~erased => Covered(blocks, card)
    BY <2>1 DEF IInv, Sane
  <2> QED BY <2>2, <2>3 DEF Sweepable
<1>3. sweep \in ASweep(N) /\ SweepOK(g.list, sweep, cards)
  BY <1>1, <1>2, SweepIsOK
<1>4. last = SetCurrentBlock(PrevBlock(g.list, g.empty), sweep)
  BY DEF SetCurrentBlock
<1>5. CASE sweep.lost
  <2>1. s = Failed("lost")
    BY <1>5 DEF Collected
  <2>2. \E i \in 1 .. Len(blocks) : blocks[i].size > DefaultBlockSize
    <3> SUFFICES ASSUME ~ \E i \in 1 .. Len(blocks) : blocks[i].size > DefaultBlockSize PROVE FALSE
      OBVIOUS
    <3>1. Proper(blocks)
      BY DEF IInv, Sane, Now
    <3>2. \A i \in 1 .. Len(blocks) : blocks[i].size = DefaultBlockSize
      <4> TAKE i \in 1 .. Len(blocks)
      <4>1. blocks \in Seq(ABlock)
        BY <3>1 DEF Proper
      <4>2. blocks[i] \in ABlock /\ i \in DOMAIN blocks
        BY <4>1
      <4>3. blocks[i].size \in Nat /\ DefaultBlockSize \in Nat
        BY <4>2, BlockFacts, ConstantFacts
      <4>4. blocks[i].size >= DefaultBlockSize
        BY <3>1, <4>2 DEF Proper
      <4> QED BY <4>3, <4>4
    <3>3. Equal(g.list)
      BY <3>2 DEF Sweepable
    <3> QED BY <1>1, <1>5, <3>3, SweepAhead
  <2>3. Sane(s) /\ Remembers(s)
    <3>1. Now.status = status /\ Now.blocks = blocks /\ Now.current = current /\ Now.cards = cards /\ Now.erased = erased
      BY DEF Now
    <3>2. Now \in AResult
      BY DEF IInv, Sane
    <3>3. s = [Now EXCEPT !.status = "lost"]
      BY <2>1 DEF Failed
    <3>4. s = [status |-> "lost", blocks |-> Now.blocks, current |-> Now.current, cards |-> Now.cards, erased |-> Now.erased]
      BY <3>2, <3>3, WithStatus
    <3>5. s.status = "lost" /\ s.blocks = Now.blocks /\ s.current = Now.current /\ s.cards = Now.cards /\ s.erased = Now.erased
      BY <3>4
    <3>6. s \in AResult
      <4>1. Now.blocks \in Seq(ABlock) /\ Now.current \in Int /\ Now.cards \in SUBSET Nat /\ Now.erased \in BOOLEAN
        BY <3>2 DEF AResult
      <4>2. "lost" \in {"running"} \cup Failures
        BY DEF Failures
      <4> QED BY <3>4, <4>1, <4>2 DEF AResult
    <3> HIDE DEF sweep
    <3>7. Sane(s)
      BY <2>2, <3>1, <3>5, <3>6 DEF IInv, Sane
    <3> QED BY <3>5, <3>7 DEF IInv, Remembers
  <2> QED BY <2>3
<1>6. CASE ~sweep.lost /\ survivors # {} /\ ~hasPointerTable
  <2>1. s = Failed("no table")
    BY <1>6 DEF Collected
  <2> QED BY <2>1, FailedSane
<1>7. CASE ~sweep.lost /\ ~(survivors # {} /\ ~hasPointerTable)
  <2>1. PICK marked \in UpdateCardTable(sweep.moves) :
          s = [status  |-> IF last \in spared THEN "running" ELSE "erased",
               blocks  |-> sub,
               current |-> Cardinality({j \in spared : j <= last}),
               cards   |-> cards \cup marked,
               erased  |-> erased \/ spared # DOMAIN g.list]
    BY <1>4, <1>7, Zenon DEF Collected
  <2> HIDE DEF sweep
  <2>2. /\ swept \in [1 .. N -> ABlock] /\ last \in 1 .. N
        /\ SameBlocks(g.list, sweep) /\ NotOverfull(g.list, sweep) /\ FillNotEmpty(g.list, sweep)
        /\ MovesRemember(g.list, sweep, cards) /\ MovesCovered(g.list, sweep)
    BY <1>3 DEF ASweep, SweepOK
  <2>3. swept \in Seq(ABlock) /\ Len(swept) = N /\ DOMAIN swept = 1 .. N
    BY <1>1, <2>2
  <2>4. s.blocks = sub /\ s.cards = cards \cup marked /\ s.erased = (erased \/ spared # 1 .. N)
        /\ s.status = (IF last \in spared THEN "running" ELSE "erased")
        /\ s.current = Cardinality({j \in spared : j <= last})
    BY <1>1, <2>1
  <2> HIDE DEF swept, last
  <2>5. /\ spared \in SUBSET (1 .. N)
        /\ \A i \in 1 .. N : i \notin spared => IsEmpty(swept[i])
        /\ Cardinality(Empties(swept) \cap spared) <= EmptyBlocks
    BY <2>3, SparedFacts
  <2> HIDE DEF spared, N
  <2> DEFINE M == Cardinality(spared)
  <2>21. IsSublist(swept, spared, sub, M)
    BY <2>3, <2>5, SublistFacts
  <2>22. sub \in Seq(ABlock) /\ Len(sub) = M /\ M \in Nat
    BY <2>21 DEF IsSublist
  <2>6. PICK pos \in [1 .. M -> spared] :
           /\ sub \in Seq(ABlock) /\ Len(sub) = M /\ M \in Nat
           /\ \A n \in 1 .. M : sub[n] = swept[pos[n]]
           /\ \A n, m \in 1 .. M : pos[n] = pos[m] => n = m
           /\ \A p \in spared : \E n \in 1 .. M : pos[n] = p
    <3> HIDE DEF sub, M
    <3> QED BY <2>21, <2>22 DEF IsSublist
  <2> HIDE DEF sub, M
  <2>7. \A n \in 1 .. M : pos[n] \in 1 .. N /\ pos[n] \in spared
    BY <2>5, <2>6
  <2>8. \A k \in 1 .. N : swept[k].begin = g.list[k].begin /\ swept[k].size = g.list[k].size
    BY <2>2 DEF SameBlocks, swept, N
  <2>9. Proper(sub)
    <3>1. DOMAIN sub = 1 .. M
      BY <2>6
    <3>2. \A k \in 1 .. N : g.list[k].size >= DefaultBlockSize
      BY <1>1 DEF Proper, N
    <3>3. \A k, n \in 1 .. N : g.list[k].begin = g.list[n].begin => k = n
      BY <1>1 DEF Proper, N
    <3>4. \A k \in 1 .. N : Used(swept[k]) <= swept[k].size
      BY <1>7, <2>2 DEF NotOverfull, swept, N
    <3>5. \A n \in 1 .. M : sub[n].size >= DefaultBlockSize /\ Used(sub[n]) <= sub[n].size
      BY <2>6, <2>7, <2>8, <3>2, <3>4
    <3>6. \A n, m \in 1 .. M : sub[n].begin = sub[m].begin => n = m
      BY <2>6, <2>7, <2>8, <3>3
    <3> QED BY <2>6, <3>1, <3>5, <3>6 DEF Proper
  <2>10. marked \in SUBSET {move[2] : move \in sweep.moves} /\ \A move \in sweep.moves : move[1] \in cards => move[2] \in marked
    BY DEF UpdateCardTable
  <2>11. \A card \in marked : card \in Nat /\ \E k \in 1 .. N : Covers(swept[k], card)
    <3> TAKE card \in marked
    <3>1. PICK move \in sweep.moves : card = move[2]
      BY <2>10
    <3>2. card \in Nat /\ \E k \in 1 .. N : Covers(g.list[k], card)
      BY <1>7, <2>2, <3>1 DEF MovesCovered, N
    <3> QED BY <2>8, <3>2 DEF Covers
  <2>12. IsFiniteSet(spared) /\ Cardinality({j \in spared : j <= last}) \in 0 .. M
    <3> DEFINE low == {j \in spared : j <= last}
    <3>1. IsFiniteSet(spared)
      BY <1>1, <2>5, RankFacts DEF N
    <3>2. low \in SUBSET spared
      OBVIOUS
    <3> HIDE DEF low
    <3>3. IsFiniteSet(low) /\ Cardinality(low) <= M
      BY <3>1, <3>2, FS_Subset DEF M
    <3>4. Cardinality(low) \in Nat
      BY <3>3, FS_CardinalityType
    <3> QED BY <2>6, <3>1, <3>3, <3>4 DEF low
  <2>13. last \in spared => Cardinality({j \in spared : j <= last}) \in 1 .. M
    <3> SUFFICES ASSUME last \in spared PROVE Cardinality({j \in spared : j <= last}) # 0
      BY <2>6, <2>12
    <3> DEFINE low == {j \in spared : j <= last}
    <3>1. last \in Int
      BY <2>5
    <3>2. last \in low /\ low \in SUBSET spared
      BY <3>1
    <3> HIDE DEF low
    <3>3. IsFiniteSet(low)
      BY <2>12, <3>2, FS_Subset
    <3>4. Cardinality(low) # 0
      BY <3>2, <3>3, FS_EmptySet
    <3> QED BY <3>4 DEF low
  <2>14. Now.cards \in SUBSET Nat /\ Now.erased \in BOOLEAN /\ Now.cards = cards /\ Now.erased = erased
    <3>1. Now \in AResult /\ Now.cards = cards /\ Now.erased = erased
      BY DEF IInv, Sane, Now
    <3> QED BY <3>1 DEF AResult
  <2>15. s \in AResult
    <3> DEFINE st == IF last \in spared THEN "running" ELSE "erased"
               er == erased \/ spared # DOMAIN g.list
               cu == Cardinality({j \in spared : j <= last})
               ca == cards \cup marked
    <3>1. st \in {"running"} \cup Failures /\ er \in BOOLEAN
      BY DEF Failures
    <3>2. cu \in Int /\ ca \in SUBSET Nat
      BY <2>11, <2>12, <2>14
    <3>3. s = [status |-> st, blocks |-> sub, current |-> cu, cards |-> ca, erased |-> er]
      BY <2>1 DEF sub
    <3> HIDE DEF st, er, cu, ca
    <3> QED BY <2>6, <3>1, <3>2, <3>3 DEF AResult
  <2>16. last \notin spared => \A n \in 1 .. M : IsEmpty(sub[n])
    <3> SUFFICES ASSUME last \notin spared, NEW n \in 1 .. M PROVE IsEmpty(sub[n])
      OBVIOUS
    <3>1. last \in 1 .. N
      BY <2>2 DEF last
    <3>2. swept[last].objects = <<>>
      BY <2>5, <3>1 DEF IsEmpty
    <3>3. \A k \in 1 .. N : swept[k].objects = <<>>
      BY <2>2, <3>2 DEF FillNotEmpty, swept, last, N
    <3> QED BY <2>6, <2>7, <3>3 DEF IsEmpty
  <2>17. FewEmpties(sub)
    <3> DEFINE few == Empties(swept) \cap spared
               S   == Empties(sub)
               f   == [n \in S |-> pos[n]]
    <3>1. \A n \in S : n \in 1 .. M /\ pos[n] \in few
      BY <2>3, <2>6, <2>7 DEF Empties
    <3>2. f \in [S -> few] /\ \A x, y \in S : f[x] = f[y] => x = y
      BY <2>6, <3>1
    <3>3. few \in SUBSET (1 .. N) /\ Cardinality(few) <= EmptyBlocks /\ N \in Nat
      BY <1>1, <2>5 DEF N
    <3> HIDE DEF few, S, f
    <3>4. Cardinality(S) <= EmptyBlocks
      BY <3>2, <3>3, FewerEmpties
    <3> QED BY <3>4 DEF S, FewEmpties
  <2>18. ~s.erased => \A card \in s.cards : Covered(sub, card)
    <3> SUFFICES ASSUME ~erased, spared = 1 .. N, NEW card \in cards \cup marked PROVE Covered(sub, card)
      BY <2>4
    <3>1. PICK k \in 1 .. N : Covers(swept[k], card)
      <4>1. CASE card \in marked
        BY <2>11, <4>1
      <4>2. CASE card \in cards
        <5>1. PICK k \in 1 .. N : Covers(g.list[k], card)
          BY <1>2, <4>2 DEF Covered, N
        <5>2. Covers(swept[k], card)
          BY <2>8, <5>1 DEF Covers
        <5> QED BY <5>2
      <4> QED BY <4>1, <4>2
    <3>2. PICK n \in 1 .. M : pos[n] = k
      BY <2>3, <2>6
    <3>3. Covers(sub[n], card)
      BY <2>6, <3>1, <3>2
    <3> QED BY <2>6, <3>3 DEF Covered
  <2>19. Sane(s)
    <3>1. s.status = "running" \/ s.status = "erased"
      BY <2>4
    <3>2. s.status # "erased" => last \in spared
      BY <2>4
    <3>3. s.status = "erased" => last \notin spared
      BY <2>4
    <3> QED BY <2>4, <2>6, <2>9, <2>13, <2>15, <2>16, <2>17, <2>18, <3>1, <3>2, <3>3 DEF Sane
  <2>20. Remembers(s)
    <3> SUFFICES ASSUME NEW n \in 1 .. M, NEW j \in 1 .. Len(sub[n].objects), sub[n].objects[j].remembered
                 PROVE  Card(Header(sub[n], j)) \in cards \cup marked
      BY <2>4, <2>6 DEF Remembers, RememberedIn
    <3>1. sub[n] = swept[pos[n]] /\ pos[n] \in 1 .. N
      BY <2>6, <2>7
    <3>2. PICK move \in sweep.moves : move[1] \in cards /\ move[2] = Card(Header(swept[pos[n]], j))
      BY <2>2, <3>1 DEF MovesRemember, swept, N
    <3> QED BY <2>10, <3>1, <3>2
  <2> QED BY <2>19, <2>20
<1> QED BY <1>5, <1>6, <1>7

LEMMA MajorGCSane ==
  ASSUME IInv, status = "running", NEW hasPointerTable, NEW s \in MajorGC(hasPointerTable)
  PROVE  Sane(s) /\ Remembers(s)
<1>1. Proper(blocks) /\ current \in 1 .. Len(blocks)
  BY DEF IInv, Sane, Now
<1>2. CASE GetEmptyBlock(blocks, current) = {}
  <2>1. s = Failed("bad_alloc")
    BY <1>2 DEF MajorGC
  <2> QED BY <2>1, FailedSane
<1>3. CASE GetEmptyBlock(blocks, current) # {}
  <2>1. PICK g \in GetEmptyBlock(blocks, current) :
          s \in UNION {Collected(g.list, g.empty, survivors, hasPointerTable) : survivors \in SUBSET Objects(g.list)}
    BY <1>3, Zenon DEF MajorGC
  <2>2. PICK survivors \in SUBSET Objects(g.list) : s \in Collected(g.list, g.empty, survivors, hasPointerTable)
    BY <2>1
  <2>3. Sweepable(blocks, g)
    BY <1>1, GetEmptyBlockFacts
  <2> QED BY <2>2, <2>3, CollectedSane
<1> QED BY <1>2, <1>3

LEMMA AllocateOnOldSane ==
  ASSUME IInv, status = "running", NEW object \in AnObject, NEW hasPointerTable,
         NEW s \in AllocateOnOldGeneration(object, hasPointerTable)
  PROVE  Allocated(s, object)
<1>1. Sane(Now) /\ Remembers(Now) /\ Now.status = "running" /\ Now.blocks = blocks /\ Now.current = current
  BY DEF IInv, Now
<1>2. CASE object.size > DefaultBlockSize
  <2>1. s \in CreateNewBlock(Now, object)
    BY <1>2 DEF AllocateOnOldGeneration
  <2> QED BY <1>1, <2>1, CreateNewBlockSane
<1>3. CASE ~(object.size > DefaultBlockSize) /\ HasRoom(blocks[current], object.size)
  <2>1. s \in Allocate(Now, object)
    BY <1>3 DEF AllocateOnOldGeneration
  <2> QED BY <1>1, <2>1, AllocateSane
<1>4. CASE ~(object.size > DefaultBlockSize) /\ ~HasRoom(blocks[current], object.size)
  <2>1. PICK r \in MajorGC(hasPointerTable) : s \in IF r.status = "running" THEN Allocate(r, object) ELSE {r}
    BY <1>4, Zenon DEF AllocateOnOldGeneration
  <2>2. Sane(r) /\ Remembers(r)
    BY MajorGCSane
  <2>3. CASE r.status = "running"
    BY <2>1, <2>2, <2>3, AllocateSane
  <2>4. CASE r.status # "running"
    <3>1. s = r
      BY <2>1, <2>4
    <3>2. RemembersButLast(s)
      BY <2>2, <3>1 DEF Remembers, RememberedIn, RemembersButLast
    <3> QED BY <2>2, <2>4, <3>1, <3>2 DEF Allocated
  <2> QED BY <2>3, <2>4
<1> QED BY <1>2, <1>3, <1>4

LEMMA WithCards ==
  ASSUME NEW r \in AResult, NEW c
  PROVE  [r EXCEPT !.cards = c] =
           [status |-> r.status, blocks |-> r.blocks, current |-> r.current, cards |-> c, erased |-> r.erased]
BY DEF AResult

\* What was allocated is remembered if it is to be: by MakeDirty, or as it has no pointers.
LEMMA MakeDirtySane ==
  ASSUME NEW r, NEW object \in AnObject, Allocated(r, object)
  PROVE  /\ Sane(MakeDirty(r)) /\ Remembers(MakeDirty(r))
         /\ ~object.remembered => Remembers(r)
<1> DEFINE block == r.blocks[r.current]
           top   == Len(block.objects)
           card  == Card(Header(block, top))
<1>1. Sane(r) /\ RemembersButLast(r) /\ r \in AResult
  BY DEF Allocated, Sane
<1>2. CASE r.status # "running"
  <2>1. MakeDirty(r) = r
    BY <1>2 DEF MakeDirty
  <2>2. Remembers(r)
    BY <1>1, <1>2 DEF RemembersButLast, Remembers, RememberedIn
  <2> QED BY <1>1, <2>1, <2>2
<1>3. CASE r.status = "running"
  <2>1. Last(block.objects) = object /\ block.objects # <<>>
    BY <1>3 DEF Allocated
  <2>2. r.current \in 1 .. Len(r.blocks) /\ Proper(r.blocks)
    BY <1>1, <1>3 DEF Sane
  <2>3. block \in ABlock /\ Used(block) <= block.size
    BY <2>2 DEF Proper
  <2>4. top \in 1 .. top /\ block.objects[top] = object
    <3>1. \A o \in Seq(AnObject) : o # <<>> => Len(o) \in 1 .. Len(o)
      OBVIOUS
    <3>2. block.objects \in Seq(AnObject)
      BY <2>3, BlockFacts
    <3> QED BY <2>1, <3>1, <3>2 DEF Last
  <2>5. card \in Nat /\ Covers(block, card)
    BY <2>3, <2>4, HeaderCovered
  <2>6. Covered(r.blocks, card)
    BY <2>2, <2>5 DEF Covered
  <2>7. card = Card(Header(r.blocks[r.current], Len(r.blocks[r.current].objects)))
    OBVIOUS
  <2>8. CASE object.remembered
    <3> DEFINE s == MakeDirty(r)
               d == r.cards \cup {card}
    <3>1. s = [r EXCEPT !.cards = d]
      BY <1>3, <2>1, <2>8 DEF MakeDirty
    <3> HIDE DEF s, d, card, top, block
    <3>2. s = [status |-> r.status, blocks |-> r.blocks, current |-> r.current, cards |-> d, erased |-> r.erased]
      BY <1>1, <3>1, WithCards
    <3>3. s.status = r.status /\ s.blocks = r.blocks /\ s.current = r.current /\ s.cards = d /\ s.erased = r.erased
      BY <3>2
    <3>4. d = r.cards \cup {card}
      BY DEF d
    <3>5. s \in AResult
      <4>1. /\ r.status \in {"running"} \cup Failures /\ r.blocks \in Seq(ABlock) /\ r.current \in Int
            /\ r.cards \in SUBSET Nat /\ r.erased \in BOOLEAN
        BY <1>1 DEF AResult
      <4>2. d \in SUBSET Nat
        BY <2>5, <3>4, <4>1
      <4> QED BY <3>2, <4>1, <4>2 DEF AResult
    <3>6. ~s.erased => \A c \in s.cards : Covered(s.blocks, c)
      BY <1>1, <2>6, <3>3, <3>4 DEF Sane
    <3>7. Sane(s)
      BY <1>1, <3>3, <3>5, <3>6 DEF Sane
    <3>8. Remembers(s)
      BY <1>1, <2>7, <3>3, <3>4 DEF RemembersButLast, Remembers, RememberedIn
    <3> QED BY <2>8, <3>7, <3>8 DEF s
  <2>9. CASE ~object.remembered
    <3>1. MakeDirty(r) = r
      BY <2>1, <2>9 DEF MakeDirty
    <3>2. Remembers(r)
      <4> SUFFICES ASSUME NEW i \in 1 .. Len(r.blocks), NEW j \in 1 .. Len(r.blocks[i].objects), r.blocks[i].objects[j].remembered
                   PROVE  Card(Header(r.blocks[i], j)) \in r.cards
        BY DEF Remembers, RememberedIn
      <4>1. ~(i = r.current /\ j = Len(r.blocks[i].objects))
        BY <2>4, <2>9
      <4> QED BY <1>1, <4>1 DEF RemembersButLast
    <3> QED BY <1>1, <3>1, <3>2
  <2> QED BY <2>8, <2>9
<1> QED BY <1>2, <1>3

-----------------------------------------------------------------------------
(* The theorems *)

LEMMA InitIInv == Init => IInv
<1> SUFFICES ASSUME Init PROVE IInv
  OBVIOUS
<1> DEFINE none == <<>>
<1>1. PICK place \in Places : blocks = <<NewBlock(place, DefaultBlockSize, none)>>
  BY DEF Init
<1> DEFINE block == NewBlock(place, DefaultBlockSize, none)
<1>2. none \in Seq(AnObject) /\ block.objects = none /\ block.size = DefaultBlockSize /\ block \in ABlock
  <2>1. none \in Seq(AnObject) /\ DefaultBlockSize \in BlockSizes
    BY DEF BlockSizes
  <2> HIDE DEF none
  <2> QED BY <2>1 DEF NewBlock, ABlock
<1>3. Used(block) = 0 /\ DefaultBlockSize \in Nat
  BY <1>2, EmptyUsed, ConstantFacts
<1>4. current = 1 /\ cards = {} /\ erased = FALSE /\ status = "running"
  BY DEF Init
<1>5. Now.status = status /\ Now.blocks = blocks /\ Now.current = current /\ Now.cards = cards /\ Now.erased = erased
  BY DEF Now
<1>6. \A i \in 1 .. 0 : FALSE
  OBVIOUS
<1>7. none = <<>> /\ Len(none) = 0
  OBVIOUS
<1> HIDE DEF block, none
<1>8. blocks \in Seq(ABlock) /\ Len(blocks) = 1 /\ blocks[1] = block /\ DOMAIN blocks = 1 .. 1
  <2>1. blocks = <<block>>
    BY <1>1 DEF block
  <2> QED BY <1>2, <2>1
<1>9. Proper(blocks)
  BY <1>2, <1>3, <1>8 DEF Proper
<1>10. Now \in AResult
  <2>1. status \in {"running"} \cup Failures
    BY <1>4
  <2>2. current \in Int
    BY <1>4
  <2>3. cards \in SUBSET Nat
    BY <1>4
  <2>4. erased \in BOOLEAN
    BY <1>4
  <2> QED BY <1>8, <2>1, <2>2, <2>3, <2>4 DEF AResult, Now
<1>11. FewEmpties(blocks)
  <2>1. Empties(blocks) \in SUBSET (1 .. 1)
    BY <1>8 DEF Empties
  <2>2. IsFiniteSet(1 .. 1) /\ Cardinality(1 .. 1) = 1
    <3>1. 1 .. 1 = {1}
      OBVIOUS
    <3> QED BY <3>1, FS_Singleton
  <2>3. IsFiniteSet(Empties(blocks)) /\ Cardinality(Empties(blocks)) <= 1
    BY <2>1, <2>2, FS_Subset
  <2>4. Cardinality(Empties(blocks)) \in Nat
    BY <2>3, FS_CardinalityType
  <2> QED BY <2>3, <2>4, ConstantFacts DEF FewEmpties
<1>12. Sane(Now)
  BY <1>4, <1>5, <1>8, <1>9, <1>10, <1>11 DEF Sane
<1>13. Remembers(Now)
  <2>1. 1 .. Len(blocks[1].objects) = {}
    BY <1>2, <1>7, <1>8
  <2> QED BY <1>5, <1>8, <2>1 DEF Remembers, RememberedIn
<1> QED BY <1>12, <1>13 DEF IInv

LEMMA ReturnIInv ==
  ASSUME NEW results, \A s \in results : Sane(s) /\ Remembers(s), Return(results)
  PROVE  IInv'
<1>1. PICK s \in results : status' = s.status /\ blocks' = s.blocks /\ current' = s.current /\ cards' = s.cards /\ erased' = s.erased
  BY DEF Return
<1>2. Sane(s) /\ Remembers(s) /\ s \in AResult
  BY DEF Sane
<1>3. s = [status |-> s.status, blocks |-> s.blocks, current |-> s.current, cards |-> s.cards, erased |-> s.erased]
  BY <1>2 DEF AResult
<1>4. Now' = [status |-> s.status, blocks |-> s.blocks, current |-> s.current, cards |-> s.cards, erased |-> s.erased]
  BY <1>1 DEF Now
<1>5. Now' = s
  BY <1>3, <1>4
<1>6. IInv' = (Sane(Now') /\ Remembers(Now'))
  BY DEF IInv, Sane, Remembers, AResult
<1> QED BY <1>2, <1>5, <1>6

LEMMA NextIInv == IInv /\ [Next]_vars => IInv'
<1> SUFFICES ASSUME IInv, [Next]_vars PROVE IInv'
  OBVIOUS
<1>1. CASE AllocateLarge
  <2>1. PICK size \in Sizes : Return(AllocateOnOldGeneration([size |-> size, remembered |-> FALSE], FALSE))
    BY <1>1 DEF AllocateLarge
  <2> DEFINE object == [size |-> size, remembered |-> FALSE]
  <2>2. object \in AnObject /\ ~object.remembered
    BY DEF AnObject
  <2>3. status = "running"
    BY <1>1 DEF AllocateLarge
  <2> HIDE DEF object
  <2>4. \A s \in AllocateOnOldGeneration(object, FALSE) : Sane(s) /\ Remembers(s)
    <3> TAKE s \in AllocateOnOldGeneration(object, FALSE)
    <3>1. Allocated(s, object)
      BY <2>2, <2>3, AllocateOnOldSane
    <3>2. Remembers(s)
      BY <2>2, <3>1, MakeDirtySane
    <3> QED BY <3>1, <3>2 DEF Allocated
  <2> QED BY <2>1, <2>4, ReturnIInv DEF object
<1>2. CASE MinorGC
  <2>1. status = "running"
    BY <1>2 DEF MinorGC
  <2>2. CASE \E card \in cards : BlocksOf(card) = {}
    <3>1. Return({Failed("end")})
      BY <1>2, <2>2 DEF MinorGC
    <3>2. \A s \in {Failed("end")} : Sane(s) /\ Remembers(s)
      BY <2>1, FailedSane
    <3> QED BY <3>1, <3>2, ReturnIInv
  <2>3. CASE ~ \E card \in cards : BlocksOf(card) = {}
    <3>1. PICK size \in {n \in Sizes : n <= YoungBlockSize}, remembered \in BOOLEAN :
            Return({MakeDirty(result) : result \in
                      AllocateOnOldGeneration([size |-> size, remembered |-> remembered], TRUE)})
      BY <1>2, <2>3, Zenon DEF MinorGC
    <3> DEFINE object == [size |-> size, remembered |-> remembered]
    <3>2. object \in AnObject
      BY DEF AnObject
    <3> HIDE DEF object
    <3>3. \A s \in {MakeDirty(result) : result \in AllocateOnOldGeneration(object, TRUE)} : Sane(s) /\ Remembers(s)
      <4> SUFFICES ASSUME NEW r \in AllocateOnOldGeneration(object, TRUE) PROVE Sane(MakeDirty(r)) /\ Remembers(MakeDirty(r))
        OBVIOUS
      <4>1. Allocated(r, object)
        BY <2>1, <3>2, AllocateOnOldSane
      <4> QED BY <3>2, <4>1, MakeDirtySane
    <3>4. Return({MakeDirty(result) : result \in AllocateOnOldGeneration(object, TRUE)})
      BY <3>1 DEF object
    <3> QED BY <3>3, <3>4, ReturnIInv
  <2> QED BY <2>2, <2>3
<1>3. CASE Stopped \/ UNCHANGED vars
  <2>1. Now' = Now
    BY <1>3 DEF Stopped, vars, Now
  <2>2. IInv' = (Sane(Now') /\ Remembers(Now'))
    BY DEF IInv, Sane, Remembers, AResult
  <2> QED BY <2>1, <2>2 DEF IInv
<1> QED BY <1>1, <1>2, <1>3 DEF Next

LEMMA GenerationInvariant == Spec => []IInv
BY InitIInv, NextIInv, PTL DEF Spec

\* Blocks do not overlap and are not filled beyond their sizes, through all collections
\* and allocations.
THEOREM GenerationTypes == Spec => []TypeOK
<1>1. IInv => TypeOK
  <2> SUFFICES ASSUME IInv PROVE TypeOK
    OBVIOUS
  <2>1. Now.status = status /\ Now.blocks = blocks /\ Now.current = current /\ Now.cards = cards /\ Now.erased = erased
    BY DEF Now
  <2>2. Sane(Now) /\ Now \in AResult
    BY DEF IInv, Sane
  <2>3. Proper(blocks) /\ (status # "erased" => current \in 1 .. Len(blocks))
    BY <2>1, <2>2 DEF Sane
  <2>4. cards \in SUBSET Nat /\ erased \in BOOLEAN /\ status \in {"running"} \cup Failures
    BY <2>1, <2>2 DEF AResult
  <2>5. blocks \in Seq(ABlock) /\ DOMAIN blocks = 1 .. Len(blocks)
    BY <2>3 DEF Proper
  <2>6. \A i \in DOMAIN blocks : blocks[i].begin \in Places
    BY <2>5, BlockFacts
  <2> QED BY <2>3, <2>4, <2>5, <2>6 DEF TypeOK, Proper
<1> QED BY <1>1, GenerationInvariant, PTL

\* DeleteEmptyBlocks never erases the block that m_CurrentBlock designates, unless every
\* block is empty: the one filled last is not.
THEOREM CurrentSurviving == Spec => []CurrentSurvives
<1>1. IInv => CurrentSurvives
  <2> SUFFICES ASSUME IInv, status = "erased" PROVE \A i \in DOMAIN blocks : IsEmpty(blocks[i])
    BY DEF CurrentSurvives
  <2>1. (\A i \in 1 .. Len(blocks) : IsEmpty(blocks[i])) /\ blocks \in Seq(ABlock)
    BY DEF IInv, Sane, Proper, Now
  <2> QED BY <2>1
<1> QED BY <1>1, GenerationInvariant, PTL

\* In a generation of equally large blocks the sweep has room for every survivor, and never
\* copies one into a block that is still to be swept.
THEOREM NothingIsLost == Spec => []NothingLost
<1>1. IInv => NothingLost
  <2> SUFFICES ASSUME IInv, status = "lost" PROVE \E i \in DOMAIN blocks : blocks[i].size > DefaultBlockSize
    BY DEF NothingLost
  <2>1. (\E i \in 1 .. Len(blocks) : blocks[i].size > DefaultBlockSize) /\ blocks \in Seq(ABlock)
    BY DEF IInv, Sane, Proper, Now
  <2> QED BY <2>1
<1> QED BY <1>1, GenerationInvariant, PTL

\* After any collection there are no more empty blocks than DeleteEmptyBlocks spares.
THEOREM EmptiesAreBounded == Spec => []EmptiesBounded
<1>1. IInv => EmptiesBounded
  <2> SUFFICES ASSUME IInv, status = "running" PROVE Cardinality({i \in DOMAIN blocks : IsEmpty(blocks[i])}) <= EmptyBlocks
    BY DEF EmptiesBounded
  <2>1. Cardinality(Empties(blocks)) <= EmptyBlocks /\ blocks \in Seq(ABlock)
    BY DEF IInv, Sane, Proper, FewEmpties, Now
  <2>2. Empties(blocks) = {i \in DOMAIN blocks : IsEmpty(blocks[i])}
    BY <2>1 DEF Empties
  <2> QED BY <2>1, <2>2
<1> QED BY <1>1, GenerationInvariant, PTL

\* An object that is to be remembered has a dirty card after any number of collections, and
\* CheckCardTable finds its block there, unless the card begins before the block.
THEOREM RememberedAreFound == Spec => []RememberedIsFound
<1>1. IInv => RememberedIsFound
  <2> SUFFICES ASSUME IInv, NEW i \in DOMAIN blocks, NEW j \in DOMAIN blocks[i].objects, blocks[i].objects[j].remembered
               PROVE  /\ Card(Header(blocks[i], j)) \in cards
                      /\ Card(Header(blocks[i], j)) * CardSize >= blocks[i].begin => BlocksOf(Card(Header(blocks[i], j))) = {i}
    BY DEF RememberedIsFound
  <2> DEFINE card == Card(Header(blocks[i], j))
  <2>1. Proper(blocks) /\ RememberedIn(blocks, cards)
    BY DEF IInv, Sane, Remembers, Now
  <2>2. blocks \in Seq(ABlock) /\ i \in 1 .. Len(blocks) /\ blocks[i] \in ABlock /\ Used(blocks[i]) <= blocks[i].size
    BY <2>1 DEF Proper
  <2>3. j \in 1 .. Len(blocks[i].objects)
    BY <2>2, BlockFacts
  <2>4. card \in cards
    BY <2>1, <2>2, <2>3 DEF RememberedIn
  <2>5. card * CardSize >= blocks[i].begin => card * CardSize \in blocks[i].begin .. blocks[i].begin + blocks[i].size - 1
    BY <2>2, <2>3, HeaderCovered
  <2> HIDE DEF card
  <2>6. card * CardSize >= blocks[i].begin => FindBlock(blocks, card * CardSize) = {i}
    BY <2>1, <2>5, FoundInOne
  <2> QED BY <2>4, <2>6 DEF BlocksOf, card
<1> QED BY <1>1, GenerationInvariant, PTL

\* Until a block is erased, every dirty card has a block: one that CheckCardTable finds, or
\* one that begins within the card.
THEOREM CardsAreCovered == Spec => []CardsHaveBlocks
<1>1. IInv => CardsHaveBlocks
  <2> SUFFICES ASSUME IInv, ~erased, NEW card \in cards
               PROVE  BlocksOf(card) # {} \/ \E i \in DOMAIN blocks : Card(blocks[i].begin) = card /\ blocks[i].begin % CardSize # 0
    BY DEF CardsHaveBlocks
  <2>1. Covered(blocks, card) /\ blocks \in Seq(ABlock)
    BY DEF IInv, Sane, Proper, Now
  <2>2. PICK k \in 1 .. Len(blocks) : Covers(blocks[k], card)
    BY <2>1 DEF Covered
  <2>3. k \in DOMAIN blocks
    BY <2>1
  <2>4. CASE card * CardSize \in blocks[k].begin .. blocks[k].begin + blocks[k].size - 1
    <3>1. k \in BlocksOf(card)
      BY <2>3, <2>4 DEF BlocksOf, FindBlock
    <3> QED BY <3>1
  <2>5. CASE Card(blocks[k].begin) = card /\ blocks[k].begin % CardSize # 0
    BY <2>3, <2>5
  <2> QED BY <2>2, <2>4, <2>5 DEF Covers
<1> QED BY <1>1, GenerationInvariant, PTL

=============================================================================
