------------------------------ MODULE Sweep_proofs ------------------------------
(***************************************************************************)
(* Proofs about Sweep, for every number of blocks, every size of them and  *)
(* whatever they hold, most of them when no block is larger than another.  *)
(*                                                                         *)
(* The block being filled stays behind the block being swept because what  *)
(* was reserved in the block just behind it, together with what is left    *)
(* in it, fits into a block (Behind).  Hence an object is moved to a block *)
(* with a lower number, and moving the objects of the blocks in order      *)
(* overwrites none that is still to be moved (Moving).                     *)
(*                                                                         *)
(* Blocks of any sizes: the headers that are read, and the measure that    *)
(* each step decreases.                                                    *)
(***************************************************************************)
EXTENDS Sweep, FiniteSetTheorems, WellFoundedInduction, TLAPS

\* A nonempty set of naturals up to n has a greatest element.
LEMMA GreatestElement ==
  ASSUME NEW n \in Nat, NEW T, T \subseteq 0 .. n, T # {}
  PROVE  \E x \in T : \A y \in T : y <= x
<1> DEFINE U == {n - x : x \in T}
<1>1. U \subseteq Nat /\ U # {}
  <2>1. PICK x \in T : TRUE
    OBVIOUS
  <2>2. n - x \in U
    OBVIOUS
  <2>3. \A y \in T : n - y \in Nat
    OBVIOUS
  <2> QED BY <2>2, <2>3
<1> HIDE DEF U
<1>2. PICK u \in U : \A v \in U : ~ (<<v, u>> \in OpToRel(<, Nat))
  BY <1>1, NatLessThanWellFounded, WFMin
<1>3. \A v \in U : <<v, u>> \in Nat \X Nat
  BY <1>1, <1>2
<1>4. \A v \in U : ~ (v < u)
  BY <1>2, <1>3 DEF OpToRel
<1>5. PICK x \in T : u = n - x
  BY <1>2 DEF U
<1>6. ASSUME NEW y \in T PROVE y <= x
  <2>1. n - y \in U
    BY DEF U
  <2> QED BY <1>4, <1>5, <2>1
<1> QED BY <1>6

LEMMA HighestFacts ==
  ASSUME NEW n \in Nat, NEW S, S \subseteq 1 .. n
  PROVE  /\ Highest(S) \in S \cup {0}
         /\ Highest(S) \in 0 .. n
         /\ \A p \in S : p <= Highest(S)
<1>1. CASE S = {}
  BY <1>1 DEF Highest
<1>2. CASE S # {}
  <2>0. S \subseteq 0 .. n
    OBVIOUS
  <2>1. \E x \in S : \A y \in S : y <= x
    BY <1>2, <2>0, GreatestElement, Zenon
  <2>2. Highest(S) = CHOOSE o \in S : \A p \in S : p <= o
    BY <1>2 DEF Highest
  <2>3. Highest(S) \in S /\ \A p \in S : p <= Highest(S)
    BY <2>1, <2>2
  <2> DEFINE h == Highest(S)
  <2> HIDE DEF h
  <2>4. h \in S /\ \A p \in S : p <= h
    BY <2>3 DEF h
  <2>5. h \in 0 .. n
    BY <2>4
  <2> QED BY <2>4, <2>5 DEF h
<1> QED BY <1>1, <1>2

-----------------------------------------------------------------------------
(* The inductive invariant *)

\* The shape of the state, whatever the phase: the blocks and the objects in them
\* are those that the sweep began with.
Typed ==
  /\ tops \in [Blocks -> SUBSET Nat] /\ \A b \in Blocks : tops[b] \subseteq 1 .. Capacity[b]
  /\ tops[0] = {}
  /\ reached \subseteq Objects /\ aged \subseteq reached
  /\ used \in [Blocks -> Nat] /\ \A b \in Blocks : used[b] <= Capacity[b]
  /\ mem = [b \in Blocks |-> [o \in 1 .. Capacity[b] |-> mem[b][o]]]
  /\ DOMAIN newAddress \subseteq reached
  /\ \A a \in DOMAIN newAddress : newAddress[a] \in Addresses \cup {Promoted}
  /\ copied \subseteq DOMAIN newAddress
  /\ currentBlock \in 1 .. Last /\ emptyBlock \in Blocks
  /\ phase \in {"sweep", "move", "done"}

\* The block holds what it held when the sweep began.
Unmoved(b) == \A o \in 1 .. Capacity[b] : mem[b][o] = <<b, o>>

\* Between the block being filled and the block being swept there is nothing, and
\* what is left to sweep fits above what was filled if the two are neighbours.
Behind ==
  /\ emptyBlock < currentBlock
  /\ emptyBlock = currentBlock - 1 =>
       used[emptyBlock] + used[currentBlock] <= Capacity[currentBlock]
  /\ \A b \in emptyBlock + 1 .. currentBlock - 1 : used[b] = 0
  /\ \A b \in currentBlock .. Last : used[b] \in tops[b] \cup {0}
  /\ \A b \in currentBlock + 1 .. Last : \A o \in tops[b] : o <= used[b]

\* The marked objects that lay above an offset of the block being swept, or in a
\* block before it.
Above(offset) ==
  {a \in reached : a[1] < currentBlock \/ (a[1] = currentBlock /\ a[2] > offset)}

Sweeping ==
  /\ Behind
  /\ Above(used[currentBlock]) \subseteq DOMAIN newAddress
  /\ copied = {}
  /\ \A b \in Blocks : Unmoved(b)

\* Survivors go to a block before their own.
Descending == \A a \in Kept : newAddress[a][1] < a[1] /\ newAddress[a][1] <= emptyBlock

\* The object is whole at its new address.
Moved(a) == \A i \in 0 .. SizeOf(a) - 1 :
              mem[newAddress[a][1]][newAddress[a][2] - i] = <<a[1], a[2] - i>>

Moving ==
  /\ DOMAIN newAddress = reached
  /\ \A b \in currentBlock .. Last : Unmoved(b)
  /\ \A a \in reached : a[1] < currentBlock => a \in copied
  /\ phase = "done" => copied = reached
  /\ \A a \in copied \cap Kept : Moved(a)

Inv ==
  /\ Typed
  /\ Descending
  /\ PlacesReserved
  /\ phase = "sweep" => Sweeping
  /\ phase \in {"move", "done"} => Moving

-----------------------------------------------------------------------------
(* Sizes of objects *)

LEMMA ConstantFacts ==
  /\ Last \in Nat /\ Last >= 1 /\ Blocks = 0 .. Last
  /\ \A b \in Blocks : Capacity[b] \in Nat /\ Capacity[b] > 0
  /\ Promoted \notin Addresses
BY SweepAssumption DEF Blocks, Promoted, Addresses

\* An object reaches down to the next object of its block, or to the bottom.
LEMMA SizeFacts ==
  ASSUME NEW b \in Blocks, tops[b] \subseteq 1 .. Capacity[b], NEW o \in tops[b]
  PROVE  /\ o \in 1 .. Capacity[b]
         /\ SizeOf(<<b, o>>) \in 1 .. o
         /\ o - SizeOf(<<b, o>>) \in tops[b] \cup {0}
         /\ \A p \in tops[b] : p < o => p <= o - SizeOf(<<b, o>>)
<1> DEFINE S == {p \in tops[b] : p < o}
           h == Highest(S)
<1>1. Capacity[b] \in Nat /\ tops[b] \subseteq 1 .. Capacity[b]
  BY ConstantFacts
<1>2. S \subseteq 1 .. Capacity[b]
  BY <1>1
<1>3. h \in S \cup {0} /\ h \in 0 .. Capacity[b] /\ \A p \in S : p <= h
  <2> HIDE DEF S
  <2> QED BY <1>1, <1>2, HighestFacts
<1>4. SizeOf(<<b, o>>) = o - h
  BY DEF SizeOf
<1> HIDE DEF h
<1>5. o \in 1 .. Capacity[b] /\ h < o
  BY <1>1, <1>3
<1> QED BY <1>1, <1>3, <1>4, <1>5

LEMMA ObjectFacts ==
  ASSUME Typed, NEW a \in Objects
  PROVE  /\ a = <<a[1], a[2]>> /\ a[1] \in Blocks /\ a[2] \in tops[a[1]]
         /\ a[2] \in 1 .. Capacity[a[1]]
         /\ SizeOf(a) \in 1 .. a[2]
<1>1. PICK b \in Blocks : a \in {b} \X tops[b]
  BY DEF Objects
<1>2. a = <<a[1], a[2]>> /\ a[1] = b /\ a[2] \in tops[b]
  BY <1>1
<1>3. tops[b] \subseteq 1 .. Capacity[b]
  BY DEF Typed
<1> QED BY <1>1, <1>2, <1>3, SizeFacts

\* The object on top of the block being swept.
LEMMA VisitFacts ==
  ASSUME Inv, Visit
  PROVE  /\ phase = "sweep" /\ Typed /\ Sweeping
         /\ currentBlock \in 1 .. Last /\ currentBlock \in Blocks /\ emptyBlock \in 0 .. Last
         /\ used[currentBlock] \in tops[currentBlock] /\ used[currentBlock] \in Nat
         /\ Top = <<currentBlock, used[currentBlock]>>
         /\ SizeOf(Top) \in 1 .. used[currentBlock]
         /\ used[currentBlock] - SizeOf(Top) \in tops[currentBlock] \cup {0}
         /\ \A p \in tops[currentBlock] :
              p < used[currentBlock] => p <= used[currentBlock] - SizeOf(Top)
         /\ Reduced \in [Blocks -> Nat]
         /\ Reduced[currentBlock] = used[currentBlock] - SizeOf(Top)
         /\ \A b \in Blocks \ {currentBlock} : Reduced[b] = used[b]
<1>1. phase = "sweep" /\ Typed /\ Sweeping
  BY DEF Inv, Visit
<1>2. currentBlock \in 1 .. Last /\ currentBlock \in Blocks /\ emptyBlock \in 0 .. Last
  BY <1>1, ConstantFacts DEF Typed
<1>3. used[currentBlock] \in tops[currentBlock] /\ used[currentBlock] \in Nat
  <2>1. currentBlock \in currentBlock .. Last
    BY <1>2
  <2>2. used[currentBlock] > 0 /\ used[currentBlock] \in tops[currentBlock] \cup {0}
    BY <1>1, <2>1 DEF Visit, Sweeping, Behind
  <2>3. used[currentBlock] \in Nat
    BY <1>1, <1>2 DEF Typed
  <2> QED BY <2>2, <2>3
<1>4. Top = <<currentBlock, used[currentBlock]>>
  BY DEF Top
<1>5. /\ SizeOf(Top) \in 1 .. used[currentBlock]
      /\ used[currentBlock] - SizeOf(Top) \in tops[currentBlock] \cup {0}
      /\ \A p \in tops[currentBlock] :
           p < used[currentBlock] => p <= used[currentBlock] - SizeOf(Top)
  <2>1. tops[currentBlock] \subseteq 1 .. Capacity[currentBlock]
    BY <1>1, <1>2 DEF Typed
  <2> QED BY <1>2, <1>3, <1>4, <2>1, SizeFacts
<1>6. used[currentBlock] - SizeOf(Top) \in Nat
  BY <1>3, <1>5
<1>7. used \in [Blocks -> Nat]
  BY <1>1 DEF Typed
<1> QED BY <1>1, <1>2, <1>3, <1>4, <1>5, <1>6, <1>7 DEF Reduced

-----------------------------------------------------------------------------
(* The steps of Sweep *)

LEMMA InitInv == EqualCapacities /\ Init => Inv
<1> SUFFICES ASSUME Init PROVE Inv
  OBVIOUS
<1>1. \A b \in Blocks : tops[b] \subseteq 1 .. Capacity[b] /\ Capacity[b] \in Nat
  BY ConstantFacts DEF Init
<1>2. \A b \in Blocks : /\ used[b] \in tops[b] \cup {0} /\ used[b] \in 0 .. Capacity[b]
                         /\ \A o \in tops[b] : o <= used[b]
  <2>1. \A b \in Blocks : used[b] = Highest(tops[b])
    BY DEF Init
  <2> QED BY <1>1, <2>1, HighestFacts
<1>3. Typed
  <2>1. tops \in [Blocks -> SUBSET Nat]
    BY <1>1 DEF Init
  <2>9. tops[0] = {}
    BY DEF Init
  <2>2. used \in [Blocks -> Nat] /\ \A b \in Blocks : used[b] <= Capacity[b]
    BY <1>1, <1>2 DEF Init
  <2>3. \A b \in Blocks : \A o \in 1 .. Capacity[b] : mem[b][o] = <<b, o>>
    BY DEF Init
  <2>4. mem = [b \in Blocks |-> [o \in 1 .. Capacity[b] |-> mem[b][o]]]
    BY <2>3 DEF Init
  <2>5. aged \subseteq reached /\ reached \subseteq Objects
    BY DEF Init
  <2>6. currentBlock \in 1 .. Last /\ emptyBlock \in Blocks
    <3>1. currentBlock = 1 /\ emptyBlock = 0
      BY DEF Init
    <3> QED BY <3>1, ConstantFacts
  <2>7. newAddress = [a \in {} |-> Promoted] /\ copied = {} /\ phase = "sweep"
    BY DEF Init
  <2>8. DOMAIN newAddress = {}
    BY <2>7
  <2> QED BY <1>1, <2>1, <2>2, <2>4, <2>5, <2>6, <2>7, <2>8, <2>9 DEF Typed
<1>4. Sweeping
  <2>1. Behind
    <3>1. currentBlock = 1 /\ emptyBlock = 0 /\ tops[0] = {}
      BY DEF Init
    <3>2. 0 \in Blocks /\ 1 \in Blocks
      BY ConstantFacts
    <3>3. used[0] = 0
      BY <1>2, <3>1, <3>2
    <3>4. 1 .. Last \subseteq Blocks /\ 2 .. Last \subseteq Blocks
      BY ConstantFacts
    <3>5. \A b \in 2 .. Last : \A o \in tops[b] : o <= used[b]
      BY <1>2, <3>4
    <3> QED BY <1>1, <1>2, <3>1, <3>2, <3>3, <3>4, <3>5 DEF Behind
  <2>2. ASSUME NEW a \in Above(used[currentBlock])
        PROVE  FALSE
    <3>1. a \in reached /\ currentBlock = 1
      BY DEF Above, Init
    <3>2. a[1] \in Blocks /\ a[2] \in tops[a[1]]
      BY <1>3, <3>1, ObjectFacts DEF Typed
    <3>3. a[1] \in Nat
      BY <3>2, ConstantFacts
    <3>4. CASE a[1] < 1
      BY <3>2, <3>3, <3>4 DEF Init
    <3>5. CASE a[1] = 1 /\ a[2] > used[1]
      BY <1>1, <1>2, <3>2, <3>5
    <3> QED BY <3>1, <3>4, <3>5 DEF Above
  <2>3. \A b \in Blocks : Unmoved(b)
    BY DEF Init, Unmoved
  <2> QED BY <2>1, <2>2, <2>3 DEF Sweeping, Init
<1> QED BY <1>3, <1>4 DEF Inv, Init, Descending, PlacesReserved, Kept

\* What is above the new top of the block was visited, if what was on top is.
LEMMA VisitedKept ==
  ASSUME Inv, Visit, DOMAIN newAddress \subseteq DOMAIN newAddress',
         Top \in reached => Top \in DOMAIN newAddress'
  PROVE  Above(Reduced[currentBlock]) \subseteq DOMAIN newAddress'
<1> SUFFICES ASSUME NEW a \in Above(Reduced[currentBlock])
             PROVE  a \in DOMAIN newAddress'
  OBVIOUS
<1>0. a \in reached
  BY DEF Above
<1>1. a = <<a[1], a[2]>> /\ a[1] \in Blocks /\ a[2] \in tops[a[1]] /\ a[2] \in Nat
  BY <1>0, VisitFacts, ObjectFacts DEF Typed
<1>2. CASE a[1] < currentBlock \/ (a[1] = currentBlock /\ a[2] > used[currentBlock])
  BY <1>0, <1>2, VisitFacts DEF Sweeping, Above
<1>3. CASE a[1] = currentBlock /\ a[2] = used[currentBlock]
  BY <1>0, <1>1, <1>3, VisitFacts
<1>4. CASE a[1] = currentBlock /\ a[2] < used[currentBlock]
  <2>1. a[2] <= Reduced[currentBlock]
    BY <1>1, <1>4, VisitFacts
  <2>2. Reduced[currentBlock] \in Nat /\ currentBlock \in Nat
    BY VisitFacts
  <2> QED BY <1>1, <1>4, <2>1, <2>2 DEF Above
<1>5. used[currentBlock] \in Nat
  BY VisitFacts
<1> QED BY <1>1, <1>2, <1>3, <1>4, <1>5 DEF Above

\* Popping the object on top leaves the block being filled behind.
LEMMA BehindReduced ==
  ASSUME Inv, Visit, used' = Reduced, emptyBlock' = emptyBlock,
         UNCHANGED <<tops, currentBlock>>
  PROVE  /\ Behind'
         /\ used' \in [Blocks -> Nat]
         /\ \A b \in Blocks : used'[b] <= used[b] /\ used'[b] <= Capacity[b]
<1>1. \A b \in Blocks : used[b] \in Nat /\ used[b] <= Capacity[b] /\ Capacity[b] \in Nat
  BY ConstantFacts, VisitFacts DEF Typed
<1>2. \A b \in Blocks : used'[b] <= used[b] /\ used'[b] \in Nat
  BY <1>1, VisitFacts
<1>3. \A b \in Blocks : used'[b] <= Capacity[b]
  BY <1>1, <1>2
<1>4. ASSUME NEW b \in emptyBlock + 1 .. currentBlock - 1 PROVE used'[b] = 0
  <2>1. b \in Blocks \ {currentBlock}
    BY VisitFacts, ConstantFacts
  <2>2. used[b] = 0
    BY VisitFacts DEF Sweeping, Behind
  <2> QED BY <2>1, <2>2, VisitFacts
<1>5. ASSUME NEW b \in currentBlock .. Last PROVE used'[b] \in tops'[b] \cup {0}
  <2>1. CASE b = currentBlock
    BY <2>1, VisitFacts
  <2>2. CASE b # currentBlock
    <3>1. b \in Blocks \ {currentBlock}
      BY <2>2, VisitFacts, ConstantFacts
    <3>2. used[b] \in tops[b] \cup {0}
      BY VisitFacts DEF Sweeping, Behind
    <3> QED BY <3>1, <3>2, VisitFacts
  <2> QED BY <2>1, <2>2
<1>6. emptyBlock' = currentBlock' - 1 =>
        used'[emptyBlock'] + used'[currentBlock'] <= Capacity[currentBlock']
  <2>1. emptyBlock \in Blocks /\ currentBlock \in Blocks
    BY VisitFacts, ConstantFacts
  <2> QED BY <1>1, <1>2, <2>1, VisitFacts DEF Sweeping, Behind
<1>7. ASSUME NEW b \in currentBlock + 1 .. Last, NEW o \in tops[b] PROVE o <= used'[b]
  <2>1. b \in Blocks \ {currentBlock}
    BY VisitFacts, ConstantFacts
  <2>2. o <= used[b]
    BY VisitFacts DEF Sweeping, Behind
  <2> QED BY <2>1, <2>2, VisitFacts
<1> QED BY <1>2, <1>3, <1>4, <1>5, <1>6, <1>7, VisitFacts DEF Sweeping, Behind

LEMMA KeptFacts ==
  ASSUME Inv, NEW a \in Kept
  PROVE  /\ a \in reached /\ a \in DOMAIN newAddress /\ a \in Objects
         /\ newAddress[a][1] \in Blocks /\ newAddress[a][2] \in Nat
         /\ newAddress[a] = <<newAddress[a][1], newAddress[a][2]>>
         /\ newAddress[a][1] < a[1] /\ newAddress[a][1] <= emptyBlock
         /\ SizeOf(a) \in 1 .. a[2] /\ a[1] \in Blocks /\ a[2] \in 1 .. Capacity[a[1]]
         /\ a = <<a[1], a[2]>> /\ a[2] \in tops[a[1]]
         /\ newAddress[a][2] - SizeOf(a) >= 0
         /\ newAddress[a][2] <= used[newAddress[a][1]]
<1>1. Typed /\ Descending /\ PlacesReserved
  BY DEF Inv
<1>2. a \in reached /\ a \in DOMAIN newAddress /\ a \in Objects
  BY <1>1 DEF Typed, Kept
<1>3. newAddress[a] \in Addresses
  BY <1>1, <1>2 DEF Typed, Kept
<1>4. /\ newAddress[a][1] \in Blocks /\ newAddress[a][2] \in Nat
      /\ newAddress[a] = <<newAddress[a][1], newAddress[a][2]>>
  BY <1>3 DEF Addresses
<1>5. newAddress[a][1] < a[1] /\ newAddress[a][1] <= emptyBlock
  BY <1>1 DEF Descending
<1>6. newAddress[a][2] - SizeOf(a) >= 0 /\ newAddress[a][2] <= used[newAddress[a][1]]
  BY <1>1 DEF PlacesReserved
<1> QED BY <1>1, <1>2, <1>4, <1>5, <1>6, ObjectFacts

\* Places reserved earlier are below the blocks being swept.
LEMMA ReservedKept ==
  ASSUME Inv, UNCHANGED tops, Kept' = Kept,
         \A a \in Kept : newAddress'[a] = newAddress[a],
         emptyBlock' = emptyBlock,
         \A b \in Blocks : b <= emptyBlock => used'[b] = used[b]
  PROVE  Descending' /\ PlacesReserved'
<1>1. \A a : SizeOf(a)' = SizeOf(a)
  BY DEF SizeOf
<1>2. \A a \in Kept : Place(a)' = Place(a)
  BY <1>1 DEF Place
<1>3. Descending'
  BY DEF Inv, Descending
<1>4. ASSUME NEW a \in Kept
      PROVE  (/\ newAddress[a][1] \in Blocks
              /\ newAddress[a][2] - SizeOf(a) >= 0
              /\ newAddress[a][2] <= used[newAddress[a][1]])'
  <2>1. used'[newAddress[a][1]] = used[newAddress[a][1]]
    BY KeptFacts
  <2> QED BY <1>1, <2>1, KeptFacts DEF Blocks
<1>5. ASSUME NEW a \in Kept, NEW b \in Kept, a # b PROVE Place(a)' \cap Place(b)' = {}
  BY <1>2, <1>5 DEF Inv, PlacesReserved
<1> QED BY <1>3, <1>4, <1>5 DEF PlacesReserved

LEMMA SkipInv == Inv /\ Skip => Inv'
<1> SUFFICES ASSUME Inv, Skip PROVE Inv'
  OBVIOUS
<1>1. /\ Visit /\ ~IsMarked /\ used' = Reduced
      /\ UNCHANGED <<tops, reached, aged, mem, copied, currentBlock, newAddress, emptyBlock, phase>>
  BY DEF Skip, Visit
<1>2. /\ Behind' /\ used' \in [Blocks -> Nat]
      /\ \A b \in Blocks : used'[b] <= used[b] /\ used'[b] <= Capacity[b]
  BY <1>1, BehindReduced
<1>3. Typed'
  BY <1>1, <1>2, VisitFacts DEF Typed, Objects, Addresses, Promoted, Blocks
<1>4. Descending' /\ PlacesReserved'
  <2>1. Kept' = Kept
    BY <1>1 DEF Kept, Promoted
  <2>2. ASSUME NEW b \in Blocks, b <= emptyBlock PROVE used'[b] = used[b]
    <3>1. emptyBlock < currentBlock
      BY <1>1, VisitFacts DEF Sweeping, Behind
    <3>2. b \in Blocks \ {currentBlock}
      BY <1>1, <2>2, <3>1, VisitFacts, ConstantFacts
    <3> QED BY <1>1, <3>2, VisitFacts
  <2> QED BY <1>1, <2>1, <2>2, ReservedKept
<1>5. Sweeping'
  <2>1. Above(Reduced[currentBlock]) \subseteq DOMAIN newAddress'
    <3>1. DOMAIN newAddress \subseteq DOMAIN newAddress'
      BY <1>1
    <3>2. Top \in reached => Top \in DOMAIN newAddress'
      BY <1>1 DEF IsMarked
    <3>3. Visit
      BY <1>1
    <3> QED BY <3>1, <3>2, <3>3, VisitedKept
  <2> QED BY <1>1, <1>2, <2>1, VisitFacts DEF Sweeping, Unmoved, Above
<1> QED BY <1>1, <1>3, <1>4, <1>5, VisitFacts DEF Inv

LEMMA PromoteInv == Inv /\ Promote => Inv'
<1> SUFFICES ASSUME Inv, Promote PROVE Inv'
  OBVIOUS
<1>1. /\ Visit /\ IsMarked /\ used' = Reduced /\ MoveTo(Promoted)
      /\ UNCHANGED <<tops, reached, aged, mem, copied, currentBlock, emptyBlock, phase>>
  BY DEF Promote, Visit
<1>2. /\ Top \in reached /\ Top \notin DOMAIN newAddress
      /\ DOMAIN newAddress' = DOMAIN newAddress \cup {Top}
      /\ newAddress'[Top] = Promoted
      /\ \A a \in DOMAIN newAddress : newAddress'[a] = newAddress[a]
  BY <1>1 DEF IsMarked, MoveTo
<1>3. /\ Behind' /\ used' \in [Blocks -> Nat]
      /\ \A b \in Blocks : used'[b] <= used[b] /\ used'[b] <= Capacity[b]
  BY <1>1, BehindReduced
<1>4. Typed'
  <2>1. Typed
    BY DEF Inv
  <2>2. \A a \in DOMAIN newAddress' : newAddress'[a] \in Addresses \cup {Promoted}
    BY <1>2, <2>1 DEF Typed
  <2>3. DOMAIN newAddress' \subseteq reached /\ copied \subseteq DOMAIN newAddress'
    BY <1>2, <2>1 DEF Typed
  <2> QED BY <1>1, <1>3, <2>1, <2>2, <2>3 DEF Typed, Objects, Addresses, Promoted, Blocks
<1>5. Descending' /\ PlacesReserved'
  <2>1. Kept' = Kept /\ \A a \in Kept : newAddress'[a] = newAddress[a]
    BY <1>2 DEF Kept, Promoted
  <2>2. ASSUME NEW b \in Blocks, b <= emptyBlock PROVE used'[b] = used[b]
    <3>1. emptyBlock < currentBlock
      BY <1>1, VisitFacts DEF Sweeping, Behind
    <3>2. b \in Blocks \ {currentBlock}
      BY <1>1, <2>2, <3>1, VisitFacts, ConstantFacts
    <3> QED BY <1>1, <3>2, VisitFacts
  <2> QED BY <1>1, <2>1, <2>2, ReservedKept
<1>6. Sweeping'
  <2>1. Above(Reduced[currentBlock]) \subseteq DOMAIN newAddress'
    BY <1>1, <1>2, VisitedKept
  <2> QED BY <1>1, <1>3, <2>1, VisitFacts DEF Sweeping, Unmoved, Above
<1> QED BY <1>1, <1>4, <1>5, <1>6, VisitFacts DEF Inv

\* A survivor finds room in the block being filled or in the next one, and neither
\* is the block it comes from.
LEMMA RoomBehind ==
  ASSUME EqualCapacities, Inv, Visit, NEW block,
         block = IF HasRoom(emptyBlock, SizeOf(Top)) THEN emptyBlock ELSE Prev(emptyBlock)
  PROVE  /\ block \in Blocks \ {currentBlock} /\ emptyBlock <= block /\ block < currentBlock
         /\ HasRoom(block, SizeOf(Top))
         /\ block = currentBlock - 1 =>
              used[block] + used[currentBlock] <= Capacity[currentBlock]
<1> DEFINE c == currentBlock
           e == emptyBlock
           s == SizeOf(Top)
<1>1. /\ c \in 1 .. Last /\ e \in 0 .. Last /\ e < c /\ c \in Blocks /\ e \in Blocks
      /\ s \in 1 .. used[c] /\ Last \in Nat
  BY VisitFacts, ConstantFacts DEF Sweeping, Behind
<1>2. \A b \in Blocks : /\ used[b] \in Nat /\ used[b] <= Capacity[c] /\ Capacity[b] = Capacity[c]
                         /\ Capacity[b] \in Nat
  BY VisitFacts, ConstantFacts DEF Typed, EqualCapacities
<1>3. e = c - 1 => used[e] + used[c] <= Capacity[c]
  BY VisitFacts DEF Sweeping, Behind
<1>4. \A b \in Blocks \ {c} : HasRoom(b, s) <=> used[b] + s <= Capacity[c]
  BY <1>2, VisitFacts DEF HasRoom
<1> HIDE DEF c, e, s
<1>5. CASE HasRoom(e, s)
  BY <1>1, <1>3, <1>5 DEF c, e, s
<1>6. CASE ~HasRoom(e, s)
  <2>1. used[e] + s > Capacity[c]
    BY <1>1, <1>2, <1>4, <1>6
  <2>2. e # c - 1
    BY <1>1, <1>2, <1>3, <2>1
  <2>3. e + 1 \in 0 .. Last /\ e + 1 < c
    BY <1>1, <2>2
  <2>4. block = e + 1
    <3>1. block = (e + 1) % (Last + 1)
      BY <1>6 DEF Prev, e, s
    <3> QED BY <1>1, <2>3, <3>1
  <2>5. used[block] = 0
    BY <1>1, <2>3, <2>4, VisitFacts DEF Sweeping, Behind, c, e
  <2>6. block \in Blocks \ {c}
    BY <1>1, <2>3, <2>4, ConstantFacts
  <2>7. HasRoom(block, s)
    BY <1>1, <1>2, <1>4, <2>5, <2>6
  <2> QED BY <1>1, <1>2, <2>3, <2>4, <2>5, <2>6, <2>7 DEF c, e, s
<1> QED BY <1>5, <1>6

LEMMA KeepInv == EqualCapacities /\ Inv /\ Keep => Inv'
<1> SUFFICES ASSUME EqualCapacities, Inv, Keep PROVE Inv'
  OBVIOUS
<1>1. /\ Visit /\ IsMarked
      /\ UNCHANGED <<tops, reached, aged, mem, copied, currentBlock, phase>>
  BY DEF Keep, Visit
<1> DEFINE c == currentBlock
<1>2. PICK t, s, block :
        /\ t = Top /\ s = SizeOf(Top)
        /\ block = IF HasRoom(emptyBlock, SizeOf(Top)) THEN emptyBlock ELSE Prev(emptyBlock)
  OBVIOUS
<1>3. /\ block \in Blocks \ {c} /\ emptyBlock <= block /\ block < c
      /\ HasRoom(block, s)
      /\ block = c - 1 => used[block] + used[c] <= Capacity[c]
  BY <1>1, <1>2, RoomBehind
<1>4. /\ emptyBlock' = block
      /\ used' = [Reduced EXCEPT ![block] = @ + s]
      /\ MoveTo(<<block, used'[block]>>)
  BY <1>2, <1>3 DEF Keep
<1>5. /\ c \in 1 .. Last /\ c \in Blocks /\ block \in 0 .. Last /\ emptyBlock \in 0 .. Last
      /\ t = <<c, used[c]>> /\ used[c] \in Nat /\ s \in 1 .. used[c]
      /\ used[block] \in Nat /\ Capacity[block] \in Nat /\ Capacity[c] \in Nat
      /\ Capacity[block] = Capacity[c]
  BY <1>1, <1>2, <1>3, VisitFacts, ConstantFacts DEF Typed, EqualCapacities
<1>6. /\ used' \in [Blocks -> Nat]
      /\ used'[block] = used[block] + s /\ used'[c] = used[c] - s
      /\ \A b \in Blocks \ {c, block} : used'[b] = used[b]
      /\ used'[block] <= Capacity[block]
  <2>1. /\ Reduced \in [Blocks -> Nat] /\ Reduced[c] = used[c] - s
        /\ \A b \in Blocks \ {c} : Reduced[b] = used[b]
    BY <1>1, <1>2, VisitFacts
  <2>2. Reduced[block] + s <= Capacity[block]
    BY <1>3 DEF HasRoom
  <2> QED BY <1>3, <1>4, <1>5, <2>1, <2>2
<1>7. /\ t \in reached /\ t \notin DOMAIN newAddress
      /\ DOMAIN newAddress' = DOMAIN newAddress \cup {t}
      /\ newAddress'[t] = <<block, used'[block]>>
      /\ \A a \in DOMAIN newAddress : newAddress'[a] = newAddress[a]
  BY <1>1, <1>2, <1>4 DEF IsMarked, MoveTo
<1>8. \A b \in Blocks : used'[b] \in Nat /\ used'[b] <= Capacity[b] /\ Capacity[b] \in Nat
  <2>1. \A b \in Blocks : used[b] <= Capacity[b] /\ Capacity[b] \in Nat
    BY ConstantFacts DEF Inv, Typed
  <2>2. used'[c] <= Capacity[c]
    BY <1>5, <1>6, <2>1
  <2>3. \A b \in Blocks \ {c, block} : used'[b] <= Capacity[b]
    BY <1>6, <2>1
  <2> QED BY <1>6, <2>1, <2>2, <2>3
<1>9. Typed'
  <2>1. Typed
    BY DEF Inv
  <2>2. <<block, used'[block]>> \in Addresses
    BY <1>3, <1>8 DEF Addresses
  <2>3. \A a \in DOMAIN newAddress' : newAddress'[a] \in Addresses \cup {Promoted}
    BY <1>7, <2>1, <2>2 DEF Typed
  <2>4. DOMAIN newAddress' \subseteq reached /\ copied \subseteq DOMAIN newAddress'
    BY <1>7, <2>1 DEF Typed
  <2> QED BY <1>1, <1>3, <1>4, <1>6, <1>8, <2>1, <2>3, <2>4, SMTT(30)
        DEF Typed, Objects, Addresses, Promoted, Blocks
<1>10. <<block, used'[block]>> # Promoted
  <2>1. block # Last + 1
    BY <1>5, ConstantFacts
  <2> QED BY <2>1 DEF Promoted
<1>11. Kept' = Kept \cup {t} /\ t \notin Kept
  BY <1>7, <1>10 DEF Kept, Promoted
<1>12. \A a \in Kept : newAddress'[a] = newAddress[a]
  BY <1>7 DEF Kept
<1>13. t \in Objects /\ t[1] = c
  BY <1>1, <1>5, <1>7, VisitFacts DEF Typed
<1>14. Descending'
  <2>1. newAddress'[t][1] = block
    BY <1>7
  <2>2. ASSUME NEW a \in Kept PROVE newAddress'[a][1] < a[1] /\ newAddress'[a][1] <= block
    <3>1. newAddress[a][1] < a[1] /\ newAddress[a][1] <= emptyBlock /\ newAddress[a][1] \in 0 .. Last
      BY KeptFacts, ConstantFacts
    <3> QED BY <1>3, <1>5, <1>12, <3>1
  <2>3. \A a \in Kept \cup {t} : newAddress'[a][1] < a[1] /\ newAddress'[a][1] <= block
    BY <1>3, <1>5, <1>13, <2>1, <2>2
  <2> QED BY <1>4, <1>11, <2>3 DEF Descending
<1>15. \A a : SizeOf(a)' = SizeOf(a)
  BY <1>1 DEF SizeOf
<1>16. \A a \in Kept : Place(a)' = Place(a)
  BY <1>12, <1>15 DEF Place
<1>17. Place(t)' = {block} \X (used[block] + 1 .. used[block] + s)
  <2>1. SizeOf(t)' = s
    BY <1>2, <1>15
  <2>2. newAddress'[t][1] = block /\ newAddress'[t][2] = used[block] + s
    BY <1>6, <1>7
  <2>3. newAddress'[t][2] - SizeOf(t)' + 1 = used[block] + 1
    BY <1>5, <2>1, <2>2
  <2> QED BY <2>2, <2>3 DEF Place
<1>18. PlacesReserved'
  <2>0. \A b \in Blocks \ {c} : used[b] \in Nat /\ used'[b] \in Nat /\ used[b] <= used'[b]
    <3>1. \A b \in Blocks : used[b] \in Nat /\ used'[b] \in Nat
      BY <1>8 DEF Inv, Typed
    <3>2. used[block] <= used'[block]
      BY <1>5, <1>6
    <3> QED BY <1>6, <3>1, <3>2
  <2>1. ASSUME NEW a \in Kept
        PROVE  /\ newAddress'[a][1] \in Blocks
               /\ newAddress'[a][2] - SizeOf(a)' >= 0
               /\ newAddress'[a][2] <= used'[newAddress'[a][1]]
    <3>1. /\ newAddress[a][1] \in Blocks \ {c} /\ newAddress[a][2] \in Nat
          /\ newAddress[a][2] - SizeOf(a) >= 0 /\ newAddress[a][2] <= used[newAddress[a][1]]
      BY <1>3, <1>5, KeptFacts, ConstantFacts
    <3>2. used[newAddress[a][1]] <= used'[newAddress[a][1]] /\ used[newAddress[a][1]] \in Nat
          /\ used'[newAddress[a][1]] \in Nat
      BY <2>0, <3>1
    <3>3. SizeOf(a)' = SizeOf(a) /\ newAddress'[a] = newAddress[a]
      BY <1>12, <1>15
    <3> QED BY <3>1, <3>2, <3>3
  <2>2. /\ newAddress'[t][1] \in Blocks
        /\ newAddress'[t][2] - SizeOf(t)' >= 0
        /\ newAddress'[t][2] <= used'[newAddress'[t][1]]
    <3>1. SizeOf(t)' = s
      BY <1>2, <1>15
    <3> QED BY <1>3, <1>5, <1>6, <1>7, <3>1
  <2>3. ASSUME NEW a \in Kept PROVE Place(a)' \cap Place(t)' = {}
    <3>1. CASE newAddress[a][1] = block
      <4>1. newAddress[a][2] \in Nat /\ newAddress[a][2] <= used[block]
        BY <3>1, KeptFacts
      <4>2. \A x \in Place(a) : x[2] <= used[block]
        BY <1>5, <4>1, KeptFacts DEF Place
      <4>3. \A x \in Place(t)' : x[2] > used[block]
        BY <1>5, <1>17
      <4>4. \A x \in Place(a) : x[2] \in Int
        BY DEF Place
      <4> QED BY <1>5, <1>16, <4>2, <4>3, <4>4
    <3>2. CASE newAddress[a][1] # block
      BY <1>16, <1>17, <3>2 DEF Place
    <3> QED BY <3>1, <3>2
  <2>4. ASSUME NEW a \in Kept, NEW b \in Kept, a # b PROVE Place(a)' \cap Place(b)' = {}
    BY <1>16, <2>4 DEF Inv, PlacesReserved
  <2>5. (\A a \in Kept : /\ newAddress[a][1] \in Blocks
                         /\ newAddress[a][2] - SizeOf(a) >= 0
                         /\ newAddress[a][2] <= used[newAddress[a][1]])'
    BY <1>11, <2>1, <2>2 DEF Blocks
  <2>6. (\A a, b \in Kept : a # b => Place(a) \cap Place(b) = {})'
    BY <1>11, <2>3, <2>4
  <2> QED BY <2>5, <2>6 DEF PlacesReserved
<1>19. Behind'
  <2>1. block = c - 1 => used'[block] + used'[c] <= Capacity[c]
    BY <1>3, <1>5, <1>6
  <2>2. ASSUME NEW b \in block + 1 .. c - 1 PROVE used'[b] = 0
    <3>1. b \in Blocks \ {c, block} /\ b \in emptyBlock + 1 .. c - 1
      BY <1>3, <1>5, ConstantFacts
    <3>2. used[b] = 0
      BY <1>1, <3>1, VisitFacts DEF Sweeping, Behind
    <3> QED BY <1>6, <3>1, <3>2
  <2>3. ASSUME NEW b \in c .. Last PROVE used'[b] \in tops[b] \cup {0}
    <3>1. CASE b = c
      BY <1>1, <1>2, <1>6, <3>1, VisitFacts
    <3>2. CASE b # c
      <4>1. b \in Blocks \ {c, block}
        BY <1>3, <1>5, <3>2, ConstantFacts
      <4>2. used[b] \in tops[b] \cup {0}
        BY <1>1, VisitFacts DEF Sweeping, Behind
      <4> QED BY <1>6, <4>1, <4>2
    <3> QED BY <3>1, <3>2
  <2>4. ASSUME NEW b \in c + 1 .. Last, NEW o \in tops[b] PROVE o <= used'[b]
    <3>1. b \in Blocks \ {c, block}
      BY <1>3, <1>5, ConstantFacts
    <3>2. o <= used[b]
      BY <1>1, VisitFacts DEF Sweeping, Behind
    <3> QED BY <1>6, <3>1, <3>2
  <2> QED BY <1>1, <1>3, <1>4, <2>1, <2>2, <2>3, <2>4 DEF Behind
<1>20. Sweeping'
  <2>1. Above(Reduced[c]) \subseteq DOMAIN newAddress'
    <3>1. DOMAIN newAddress \subseteq DOMAIN newAddress'
      BY <1>7
    <3>2. Top \in reached => Top \in DOMAIN newAddress'
      BY <1>2, <1>7
    <3> QED BY <1>1, <3>1, <3>2, VisitedKept
  <2>2. Reduced[c] = used'[c]
    BY <1>1, <1>2, <1>6, VisitFacts
  <2>3. (Above(used[currentBlock]) \subseteq DOMAIN newAddress)'
    BY <1>1, <2>1, <2>2 DEF Above
  <2>4. (\A b \in Blocks : Unmoved(b))'
    BY <1>1, VisitFacts DEF Sweeping, Unmoved, Blocks
  <2> QED BY <1>1, <1>19, <2>3, <2>4, VisitFacts DEF Sweeping
<1> QED BY <1>1, <1>9, <1>14, <1>18, <1>20, VisitFacts DEF Inv

LEMMA NextBlockInv == Inv /\ NextBlock => Inv'
<1> SUFFICES ASSUME Inv, NextBlock PROVE Inv'
  OBVIOUS
<1>1. /\ phase = "sweep" /\ used[currentBlock] = 0
      /\ UNCHANGED <<tops, reached, aged, used, mem, newAddress, copied, emptyBlock>>
      /\ IF currentBlock = Last
           THEN currentBlock' = 1 /\ phase' = "move"
           ELSE currentBlock' = currentBlock + 1 /\ phase' = "sweep"
  BY DEF NextBlock
<1>2. Typed /\ Sweeping /\ Behind /\ Descending /\ PlacesReserved
  BY <1>1 DEF Inv, Sweeping
<1>3. currentBlock \in 1 .. Last /\ Last \in Nat /\ emptyBlock \in 0 .. Last
  BY <1>2, ConstantFacts DEF Typed
<1>4. currentBlock' \in 1 .. Last /\ phase' \in {"sweep", "move"}
  BY <1>1, <1>3
<1>5. Typed'
  BY <1>1, <1>2, <1>4 DEF Typed, Objects, Addresses, Promoted, Blocks
<1>6. Descending' /\ PlacesReserved'
  <2>1. Kept' = Kept
    BY <1>1 DEF Kept, Promoted
  <2>2. \A a \in Kept : newAddress'[a] = newAddress[a]
    BY <1>1
  <2> QED BY <1>1, <2>1, <2>2, ReservedKept
<1>7. \A a \in reached : a[1] \in 1 .. Last /\ a[2] \in tops[a[1]] /\ a[2] \in Nat /\ a[2] > 0
  <2> SUFFICES ASSUME NEW a \in reached
               PROVE  a[1] \in 1 .. Last /\ a[2] \in tops[a[1]] /\ a[2] \in Nat /\ a[2] > 0
    OBVIOUS
  <2>1. a \in Objects
    BY <1>2 DEF Typed
  <2>2. a[1] \in 0 .. Last /\ a[2] \in tops[a[1]] /\ a[2] \in 1 .. Capacity[a[1]]
    BY <1>2, <2>1, ObjectFacts DEF Blocks
  <2>3. tops[0] = {}
    BY <1>2 DEF Typed
  <2> QED BY <1>3, <2>2, <2>3, ConstantFacts
<1>8. ASSUME currentBlock = Last PROVE Moving'
  <2>1. currentBlock' = 1 /\ phase' = "move"
    BY <1>1, <1>8
  <2>2. Above(0) = reached
    BY <1>3, <1>7, <1>8 DEF Above
  <2>3. DOMAIN newAddress = reached /\ copied = {}
    BY <1>1, <1>2, <2>2 DEF Sweeping, Typed
  <2>4. \A b \in 1 .. Last : Unmoved(b)
    BY <1>2, ConstantFacts DEF Sweeping
  <2>5. (\A b \in currentBlock .. Last : Unmoved(b))'
    BY <1>1, <2>1, <2>4 DEF Unmoved
  <2> QED BY <1>1, <1>7, <2>1, <2>3, <2>5 DEF Moving
<1>9. ASSUME currentBlock # Last PROVE Sweeping'
  <2>1. currentBlock' = currentBlock + 1
    BY <1>1, <1>9
  <2>2. currentBlock + 1 \in 1 .. Last
    BY <1>3, <1>9
  <2>3. Behind'
    <3>1. \A b \in emptyBlock + 1 .. currentBlock : used[b] = 0
      BY <1>1, <1>2, <1>3 DEF Behind
    <3>2. \A b \in currentBlock + 1 .. Last :
            used[b] \in tops[b] \cup {0} /\ \A o \in tops[b] : o <= used[b]
      BY <1>2, <1>3 DEF Behind
    <3>3. emptyBlock < currentBlock
      BY <1>2 DEF Behind
    <3> QED BY <1>1, <1>3, <2>1, <2>2, <3>1, <3>2, <3>3 DEF Behind
  <2>4. (Above(used[currentBlock]) \subseteq DOMAIN newAddress)'
    <3> SUFFICES ASSUME NEW a \in reached,
                        \/ a[1] < currentBlock + 1
                        \/ a[1] = currentBlock + 1 /\ a[2] > used[currentBlock + 1]
                 PROVE  a \in DOMAIN newAddress
      BY <1>1, <2>1 DEF Above
    <3>1. CASE a[1] < currentBlock + 1
      <4>1. a[1] < currentBlock \/ (a[1] = currentBlock /\ a[2] > 0)
        BY <1>3, <1>7, <3>1
      <4> QED BY <1>1, <1>2, <4>1 DEF Sweeping, Above
    <3>2. CASE a[1] = currentBlock + 1 /\ a[2] > used[currentBlock + 1]
      <4>1. a[2] <= used[currentBlock + 1]
        BY <1>2, <1>3, <1>7, <2>2, <3>2 DEF Behind
      <4>2. used[currentBlock + 1] \in Nat
        BY <1>2, <2>2, ConstantFacts DEF Typed
      <4> QED BY <1>7, <3>2, <4>1, <4>2
    <3> QED BY <3>1, <3>2
  <2>5. (\A b \in Blocks : Unmoved(b))'
    BY <1>1, <1>2 DEF Sweeping, Unmoved, Blocks
  <2> QED BY <1>1, <1>2, <2>3, <2>4, <2>5 DEF Sweeping
<1> QED BY <1>1, <1>3, <1>5, <1>6, <1>8, <1>9 DEF Inv

-----------------------------------------------------------------------------
(* The steps of MoveSurvived *)

\* What copying an object to the place reserved for it writes.
LEMMA CopiedFacts ==
  ASSUME Inv, NEW a \in Kept, mem' = Copied(a, newAddress[a])
  PROVE  /\ mem' = [b \in Blocks |-> [o \in 1 .. Capacity[b] |-> mem'[b][o]]]
         /\ \A b \in Blocks \ {newAddress[a][1]} : mem'[b] = mem[b]
         /\ \A o \in 1 .. Capacity[newAddress[a][1]] :
              mem'[newAddress[a][1]][o] =
                IF o \in newAddress[a][2] - SizeOf(a) + 1 .. newAddress[a][2]
                  THEN mem[a[1]][a[2] - (newAddress[a][2] - o)]
                  ELSE mem[newAddress[a][1]][o]
<1>1. PICK to, s : to = newAddress[a] /\ s = SizeOf(a)
  OBVIOUS
<1>2. to[1] \in Blocks
  BY <1>1, KeptFacts
<1>3. DOMAIN mem = Blocks /\ \A b \in Blocks : DOMAIN mem[b] = 1 .. Capacity[b]
  <2>1. mem = [b \in Blocks |-> [o \in 1 .. Capacity[b] |-> mem[b][o]]]
    BY DEF Inv, Typed
  <2> QED BY <2>1
<1> DEFINE row == [o \in 1 .. Capacity[to[1]] |->
                     IF o \in to[2] - s + 1 .. to[2] THEN mem[a[1]][a[2] - (to[2] - o)]
                                                      ELSE mem[to[1]][o]]
<1>4. mem' = [mem EXCEPT ![to[1]] = row]
  BY <1>1, <1>2, <1>3 DEF Copied
<1>5. DOMAIN mem' = Blocks /\ mem'[to[1]] = row /\ \A b \in Blocks \ {to[1]} : mem'[b] = mem[b]
  <2> HIDE DEF row
  <2> QED BY <1>2, <1>3, <1>4
<1>6. mem' = [b \in Blocks |-> mem'[b]]
  <2> HIDE DEF row
  <2> QED BY <1>3, <1>4, <1>5
<1>7. ASSUME NEW b \in Blocks PROVE mem'[b] = [o \in 1 .. Capacity[b] |-> mem'[b][o]]
  <2>1. CASE b = to[1]
    BY <1>5, <2>1
  <2>2. CASE b # to[1]
    <3>1. mem[b] = [o \in 1 .. Capacity[b] |-> mem[b][o]]
      BY DEF Inv, Typed
    <3> QED BY <1>5, <2>2, <3>1
  <2> QED BY <2>1, <2>2
<1>8. mem' = [b \in Blocks |-> [o \in 1 .. Capacity[b] |-> mem'[b][o]]]
  <2> HIDE DEF row
  <2> QED BY <1>6, <1>7
<1> QED BY <1>1, <1>5, <1>8

\* An object that is copied to its place is whole there, and the objects already
\* moved and those of later blocks are not disturbed.
LEMMA MovedFacts ==
  ASSUME Inv, phase = "move", NEW a \in Kept, a[1] = currentBlock,
         mem' = Copied(a, newAddress[a]), UNCHANGED <<tops, newAddress>>
  PROVE  /\ Moved(a)'
         /\ \A x \in copied \cap Kept : x # a => Moved(x)'
         /\ \A b \in currentBlock .. Last : \A o \in 1 .. Capacity[b] : mem'[b][o] = <<b, o>>
<1>1. Moving /\ Typed
  BY DEF Inv
<1>2. PICK to, s : to = newAddress[a] /\ s = SizeOf(a)
  OBVIOUS
<1>3. /\ to[1] \in Blocks /\ to[2] \in Nat /\ to[1] < a[1] /\ to[2] - s >= 0
      /\ s \in 1 .. a[2] /\ a[2] \in 1 .. Capacity[a[1]] /\ a[1] \in Blocks
      /\ to[2] <= Capacity[to[1]]
  BY <1>1, <1>2, KeptFacts, ConstantFacts DEF Typed
<1>4. \A x : SizeOf(x)' = SizeOf(x)
  BY DEF SizeOf
<1>5. Last \in Nat /\ currentBlock \in 1 .. Last /\ \A b \in Blocks : Capacity[b] \in Nat
  BY <1>1, ConstantFacts DEF Typed
<1>6. ASSUME NEW b \in currentBlock .. Last, NEW o \in 1 .. Capacity[b]
      PROVE  mem'[b][o] = <<b, o>>
  <2>1. b \in Blocks \ {to[1]}
    BY <1>3, <1>5, ConstantFacts
  <2>2. mem'[b] = mem[b]
    <3>1. \A c \in Blocks \ {newAddress[a][1]} : mem'[c] = mem[c]
      BY CopiedFacts
    <3> QED BY <1>2, <2>1, <3>1
  <2> QED BY <1>1, <2>2 DEF Moving, Unmoved
<1>7. Moved(a)'
  <2> SUFFICES ASSUME NEW i \in 0 .. s - 1
               PROVE  mem'[to[1]][to[2] - i] = <<a[1], a[2] - i>>
    BY <1>2, <1>4 DEF Moved
  <2>1. to[2] - i \in 1 .. Capacity[to[1]] /\ to[2] - i \in to[2] - s + 1 .. to[2]
    <3>1. PICK x, room : x = to[2] /\ room = Capacity[to[1]]
      OBVIOUS
    <3> QED BY <1>3, <1>5, <3>1, SMTT(30)
  <2>2. a[2] - (to[2] - (to[2] - i)) = a[2] - i /\ a[2] - i \in 1 .. Capacity[a[1]]
    BY <1>3, <1>5
  <2>3. mem'[to[1]][to[2] - i] = mem[a[1]][a[2] - i]
    <3>1. mem'[newAddress[a][1]][newAddress[a][2] - i] =
            mem[a[1]][a[2] - (newAddress[a][2] - (newAddress[a][2] - i))]
      BY <1>2, <2>1, CopiedFacts
    <3> QED BY <1>2, <2>2, <3>1
  <2>4. a[1] \in currentBlock .. Last
    BY <1>5
  <2> QED BY <1>1, <2>2, <2>3, <2>4 DEF Moving, Unmoved
<1>8. ASSUME NEW x \in copied \cap Kept, x # a PROVE Moved(x)'
  <2>1. PICK y, n : y = newAddress[x] /\ n = SizeOf(x)
    OBVIOUS
  <2>2. /\ y[1] \in Blocks /\ y[2] \in Nat /\ y[2] - n >= 0 /\ n \in Nat
        /\ y[2] <= Capacity[y[1]]
    <3>1. /\ y[1] \in Blocks /\ y[2] \in Nat /\ y[2] - n >= 0 /\ y[2] <= used[y[1]]
          /\ x[1] \in Blocks /\ x[2] \in 1 .. Capacity[x[1]] /\ n \in 1 .. x[2]
      BY <2>1, KeptFacts
    <3> QED BY <1>1, <1>5, <3>1 DEF Typed
  <2> SUFFICES ASSUME NEW i \in 0 .. n - 1
               PROVE  mem'[y[1]][y[2] - i] = <<x[1], x[2] - i>>
    BY <1>4, <2>1 DEF Moved
  <2>3. mem[y[1]][y[2] - i] = <<x[1], x[2] - i>>
    BY <1>1, <2>1 DEF Moving, Moved
  <2>4. y[2] - i \in 1 .. Capacity[y[1]] /\ y[2] - i \in y[2] - n + 1 .. y[2]
    BY <1>5, <2>2
  <2>5. CASE y[1] # to[1]
    BY <1>2, <2>2, <2>3, <2>5, CopiedFacts
  <2>6. CASE y[1] = to[1]
    <3>1. Place(x) \cap Place(a) = {}
      BY <1>8 DEF Inv, PlacesReserved
    <3>2. Place(x) = {y[1]} \X (y[2] - n + 1 .. y[2])
      BY <2>1 DEF Place
    <3>3. Place(a) = {to[1]} \X (to[2] - s + 1 .. to[2])
      BY <1>2 DEF Place
    <3>4. y[2] - i \notin to[2] - s + 1 .. to[2]
      <4>1. <<y[1], y[2] - i>> \in Place(x)
        BY <2>4, <3>2
      <4>2. <<to[1], y[2] - i>> \notin Place(a)
        BY <2>6, <3>1, <4>1
      <4> QED BY <3>3, <4>2
    <3>5. mem'[to[1]][y[2] - i] = mem[to[1]][y[2] - i]
      BY <1>2, <2>4, <2>6, <3>4, CopiedFacts
    <3> QED BY <2>3, <2>6, <3>5
  <2> QED BY <2>5, <2>6
<1> QED BY <1>6, <1>7, <1>8

LEMMA MoveObjectInv == Inv /\ MoveObject => Inv'
<1> SUFFICES ASSUME Inv, MoveObject PROVE Inv'
  OBVIOUS
<1>1. /\ phase = "move"
      /\ UNCHANGED <<tops, reached, aged, used, newAddress, currentBlock, emptyBlock>>
  BY DEF MoveObject
<1>2. PICK a \in Pending :
        /\ copied' = copied \cup {a}
        /\ IF newAddress[a] = Promoted
             THEN UNCHANGED <<mem, phase>>
           ELSE IF newAddress[a][2] - SizeOf(a) < 0
             THEN UNCHANGED mem /\ phase' = "corrupt"
           ELSE mem' = Copied(a, newAddress[a]) /\ UNCHANGED phase
  BY DEF MoveObject
<1>3. a \in DOMAIN newAddress /\ a \notin copied /\ a[1] = currentBlock
  BY DEF Pending
<1>4. Moving /\ Typed
  BY <1>1 DEF Inv
<1>5. \/ a \notin Kept /\ UNCHANGED mem
      \/ a \in Kept /\ mem' = Copied(a, newAddress[a])
  <2>1. CASE newAddress[a] = Promoted
    BY <1>2, <2>1 DEF Kept
  <2>2. CASE newAddress[a] # Promoted
    <3>1. a \in Kept
      BY <1>3, <2>2 DEF Kept
    <3>2. newAddress[a][2] \in Nat /\ SizeOf(a) \in 1 .. a[2] /\ newAddress[a][2] - SizeOf(a) >= 0
      BY <3>1, KeptFacts
    <3>3. ~ (newAddress[a][2] - SizeOf(a) < 0)
      BY <3>2
    <3> QED BY <1>2, <2>2, <3>1, <3>3
  <2> QED BY <2>1, <2>2
<1>6. UNCHANGED phase
  <2>1. CASE newAddress[a] = Promoted
    BY <1>2, <2>1
  <2>2. CASE newAddress[a] # Promoted
    <3>1. a \in Kept
      BY <1>3, <2>2 DEF Kept
    <3>2. newAddress[a][2] \in Nat /\ SizeOf(a) \in 1 .. a[2] /\ newAddress[a][2] - SizeOf(a) >= 0
      BY <3>1, KeptFacts
    <3>3. ~ (newAddress[a][2] - SizeOf(a) < 0)
      BY <3>2
    <3> QED BY <1>2, <2>2, <3>3
  <2> QED BY <2>1, <2>2
<1>7. Kept' = Kept
  BY <1>1 DEF Kept, Promoted
<1>8. mem' = [b \in Blocks |-> [o \in 1 .. Capacity[b] |-> mem'[b][o]]]
  BY <1>4, <1>5, CopiedFacts DEF Typed
<1>9. Typed'
  BY <1>1, <1>2, <1>3, <1>4, <1>6, <1>8 DEF Typed, Objects, Addresses, Promoted, Blocks
<1>10. Descending' /\ PlacesReserved'
  <2>1. \A x \in Kept : newAddress'[x] = newAddress[x]
    BY <1>1
  <2> QED BY <1>1, <1>7, <2>1, ReservedKept
<1>11. Moving'
  <2>1. (\A b \in currentBlock .. Last : Unmoved(b))'
    <3>1. \A b \in currentBlock .. Last : \A o \in 1 .. Capacity[b] : mem'[b][o] = <<b, o>>
      BY <1>1, <1>3, <1>4, <1>5, MovedFacts DEF Moving, Unmoved
    <3> QED BY <1>1, <3>1 DEF Unmoved
  <2>2. (\A x \in copied \cap Kept : Moved(x))'
    <3> SUFFICES ASSUME NEW x \in (copied \cup {a}) \cap Kept PROVE Moved(x)'
      BY <1>2, <1>7
    <3>1. CASE a \in Kept /\ mem' = Copied(a, newAddress[a])
      BY <1>1, <1>3, <3>1, MovedFacts
    <3>2. CASE a \notin Kept /\ UNCHANGED mem
      <4>1. Moved(x)
        BY <1>4, <3>2 DEF Moving
      <4> QED BY <1>1, <3>2, <4>1 DEF Moved, SizeOf
    <3> QED BY <1>5, <3>1, <3>2
  <2>3. phase' # "done"
    BY <1>1, <1>6
  <2>4. (\A x \in reached : x[1] < currentBlock => x \in copied)'
    BY <1>1, <1>2, <1>4 DEF Moving
  <2> QED BY <1>1, <1>4, <2>1, <2>2, <2>3, <2>4 DEF Moving
<1> QED BY <1>1, <1>6, <1>9, <1>10, <1>11 DEF Inv

LEMMA NextMovedBlockInv == Inv /\ NextMovedBlock => Inv'
<1> SUFFICES ASSUME Inv, NextMovedBlock PROVE Inv'
  OBVIOUS
<1>1. /\ phase = "move" /\ Pending = {}
      /\ UNCHANGED <<tops, reached, aged, used, mem, newAddress, copied, emptyBlock>>
      /\ IF currentBlock = Last
           THEN phase' = "done" /\ currentBlock' = currentBlock
           ELSE currentBlock' = currentBlock + 1 /\ phase' = "move"
  BY DEF NextMovedBlock
<1>2. Typed /\ Moving
  BY <1>1 DEF Inv
<1>3. currentBlock \in 1 .. Last /\ Last \in Nat
  BY <1>2, ConstantFacts DEF Typed
<1>4. currentBlock' \in 1 .. Last /\ phase' \in {"move", "done"} /\ currentBlock <= currentBlock'
  BY <1>1, <1>3
<1>5. Typed'
  BY <1>1, <1>2, <1>4 DEF Typed, Objects, Addresses, Promoted, Blocks
<1>6. Descending' /\ PlacesReserved'
  <2>1. Kept' = Kept
    BY <1>1 DEF Kept, Promoted
  <2>2. \A a \in Kept : newAddress'[a] = newAddress[a]
    BY <1>1
  <2> QED BY <1>1, <2>1, <2>2, ReservedKept
<1>7. \A a \in reached : a[1] \in 0 .. Last
  BY <1>2, ObjectFacts DEF Typed, Blocks
<1>8. \A a \in reached : a[1] <= currentBlock => a \in copied
  <2> SUFFICES ASSUME NEW a \in reached, a[1] <= currentBlock PROVE a \in copied
    OBVIOUS
  <2>1. CASE a[1] < currentBlock
    BY <1>2, <2>1 DEF Moving
  <2>2. CASE a[1] = currentBlock
    BY <1>1, <1>2, <2>2 DEF Moving, Pending
  <2> QED BY <1>3, <1>7, <2>1, <2>2
<1>9. Moving'
  <2>1. (\A a \in reached : a[1] < currentBlock => a \in copied)'
    BY <1>1, <1>3, <1>7, <1>8
  <2>2. (phase = "done" => copied = reached)'
    <3> SUFFICES ASSUME phase' = "done" PROVE copied = reached
      BY <1>1
    <3>1. currentBlock = Last
      BY <1>1
    <3>2. \A a \in reached : a[1] <= Last
      BY <1>3, <1>7
    <3>3. reached \subseteq copied
      BY <1>8, <3>1, <3>2
    <3>4. copied \subseteq reached
      BY <1>2 DEF Typed
    <3> QED BY <3>3, <3>4
  <2>3. (\A b \in currentBlock .. Last : Unmoved(b))'
    <3>1. \A b \in currentBlock' .. Last : b \in currentBlock .. Last
      BY <1>3, <1>4
    <3> QED BY <1>1, <1>2, <3>1 DEF Moving, Unmoved
  <2>4. (\A a \in copied \cap Kept : Moved(a))'
    BY <1>1, <1>2 DEF Moving, Moved, Kept, Promoted, SizeOf
  <2> QED BY <1>1, <1>2, <2>1, <2>2, <2>3, <2>4 DEF Moving
<1> QED BY <1>4, <1>5, <1>6, <1>9 DEF Inv

LEMMA StutterInv == Inv /\ UNCHANGED vars => Inv'
<1> SUFFICES ASSUME Inv, UNCHANGED vars PROVE Inv'
  OBVIOUS
<1>1. UNCHANGED <<tops, reached, aged, used, mem, newAddress, copied, currentBlock,
                  emptyBlock, phase>>
  BY DEF vars
<1>2. Typed'
  BY <1>1 DEF Inv, Typed, Objects, Addresses, Promoted, Blocks
<1>3. Descending' /\ PlacesReserved'
  <2>1. Kept' = Kept
    BY <1>1 DEF Kept, Promoted
  <2>2. \A a \in Kept : newAddress'[a] = newAddress[a]
    BY <1>1
  <2> QED BY <1>1, <2>1, <2>2, ReservedKept
<1>4. Sweeping => Sweeping'
  BY <1>1 DEF Sweeping, Behind, Above, Unmoved, Blocks
<1>5. Moving => Moving'
  BY <1>1 DEF Moving, Moved, Unmoved, Kept, Promoted, SizeOf
<1> QED BY <1>1, <1>2, <1>3, <1>4, <1>5 DEF Inv

LEMMA NextInv == EqualCapacities /\ Inv /\ [Next]_vars => Inv'
<1> SUFFICES ASSUME EqualCapacities, Inv, [Next]_vars PROVE Inv'
  OBVIOUS
<1>1. CASE Skip
  BY <1>1, SkipInv
<1>2. CASE Promote
  BY <1>2, PromoteInv
<1>3. CASE Keep
  BY <1>3, KeepInv
<1>4. CASE NextBlock
  BY <1>4, NextBlockInv
<1>5. CASE MoveObject
  BY <1>5, MoveObjectInv
<1>6. CASE NextMovedBlock
  BY <1>6, NextMovedBlockInv
<1>7. CASE Finished
  BY <1>7, StutterInv DEF Finished
<1>8. CASE UNCHANGED vars
  BY <1>8, StutterInv
<1> QED BY <1>1, <1>2, <1>3, <1>4, <1>5, <1>6, <1>7, <1>8 DEF Next

-----------------------------------------------------------------------------
(* The theorems *)

\* What holds of blocks of different sizes too: the block being filled is at most
\* the block being swept, and what is on top of those still to be swept is a header.
Shape ==
  /\ TypeOK
  /\ \A b \in Blocks : tops[b] \subseteq 1 .. Capacity[b]
  /\ phase = "sweep" =>
       /\ emptyBlock <= currentBlock
       /\ \A b \in currentBlock .. Last : used[b] \in tops[b] \cup {0}

LEMMA InitShape == Init => Shape
<1> SUFFICES ASSUME Init PROVE Shape
  OBVIOUS
<1>1. \A b \in Blocks : tops[b] \subseteq 1 .. Capacity[b] /\ Capacity[b] \in Nat
  BY ConstantFacts DEF Init
<1>2. \A b \in Blocks : used[b] \in 0 .. Capacity[b] /\ used[b] \in tops[b] \cup {0}
  <2>1. \A b \in Blocks : used[b] = Highest(tops[b])
    BY DEF Init
  <2> QED BY <1>1, <2>1, HighestFacts
<1>3. tops \in [Blocks -> SUBSET (Nat \ {0})]
  <2>1. DOMAIN tops = Blocks /\ tops = [b \in Blocks |-> tops[b]]
    BY DEF Init
  <2>2. \A b \in Blocks : tops[b] \subseteq Nat \ {0}
    BY <1>1
  <2> QED BY <2>1, <2>2
<1>4. used \in [Blocks -> Nat] /\ \A b \in Blocks : used[b] <= Capacity[b]
  BY <1>1, <1>2 DEF Init
<1>5. reached \subseteq Addresses /\ aged \subseteq reached
  <2>1. Objects \subseteq Addresses
    BY <1>1 DEF Objects, Addresses
  <2> QED BY <2>1 DEF Init
<1>6. currentBlock = 1 /\ emptyBlock = 0 /\ 0 \in Blocks /\ 1 \in Blocks /\ 1 .. Last \subseteq Blocks
  <2>1. currentBlock = 1 /\ emptyBlock = 0
    BY DEF Init
  <2> QED BY <2>1, SweepAssumption DEF Blocks
<1>7. DOMAIN newAddress = {} /\ copied = {} /\ phase = "sweep"
  BY DEF Init
<1>8. emptyBlock <= currentBlock /\ \A b \in currentBlock .. Last : used[b] \in tops[b] \cup {0}
  BY <1>2, <1>6
<1> QED BY <1>1, <1>3, <1>4, <1>5, <1>6, <1>7, <1>8 DEF Shape, TypeOK

LEMMA VisitShape ==
  ASSUME Shape, Visit
  PROVE  /\ currentBlock \in 1 .. Last /\ currentBlock \in Blocks /\ emptyBlock \in 0 .. currentBlock
         /\ used[currentBlock] \in tops[currentBlock] /\ used[currentBlock] \in Nat
         /\ SizeOf(Top) \in 1 .. used[currentBlock]
         /\ Reduced \in [Blocks -> Nat] /\ \A b \in Blocks : Reduced[b] <= Capacity[b]
         /\ Reduced[currentBlock] = used[currentBlock] - SizeOf(Top)
         /\ used[currentBlock] <= Capacity[currentBlock]
         /\ \A b \in currentBlock .. Last : Reduced[b] \in tops[b] \cup {0}
<1>1. /\ currentBlock \in 1 .. Last /\ currentBlock \in Blocks /\ emptyBlock \in 0 .. currentBlock
      /\ used \in [Blocks -> Nat] /\ phase = "sweep"
  BY ConstantFacts DEF Shape, TypeOK, Visit
<1>2. used[currentBlock] \in tops[currentBlock]
  BY <1>1, ConstantFacts DEF Shape, Visit
<1>3. /\ SizeOf(Top) \in 1 .. used[currentBlock]
      /\ used[currentBlock] - SizeOf(Top) \in tops[currentBlock] \cup {0}
  <2>1. tops[currentBlock] \subseteq 1 .. Capacity[currentBlock]
    BY <1>1 DEF Shape
  <2> QED BY <1>1, <1>2, <2>1, SizeFacts DEF Top
<1>4. PICK n : n = used[currentBlock] - SizeOf(Top)
  OBVIOUS
<1>5. n \in Nat /\ n <= used[currentBlock]
  BY <1>1, <1>3, <1>4
<1>6. Reduced = [used EXCEPT ![currentBlock] = n]
  BY <1>4 DEF Reduced
<1>7. \A b \in Blocks : used[b] <= Capacity[b] /\ Capacity[b] \in Nat
  BY ConstantFacts DEF Shape, TypeOK
<1>8. ASSUME NEW b \in Blocks PROVE Reduced[b] <= Capacity[b]
  BY <1>1, <1>5, <1>6, <1>7
<1>9. ASSUME NEW b \in currentBlock .. Last PROVE Reduced[b] \in tops[b] \cup {0}
  <2>1. b \in Blocks
    BY <1>1, ConstantFacts
  <2>2. used[b] \in tops[b] \cup {0}
    BY <1>1 DEF Shape
  <2> QED BY <1>1, <1>3, <1>4, <1>6, <2>1, <2>2
<1> QED BY <1>1, <1>2, <1>3, <1>4, <1>5, <1>6, <1>7, <1>8, <1>9

LEMMA NextShape == Shape /\ [Next]_vars => Shape'
<1> SUFFICES ASSUME Shape, [Next]_vars PROVE Shape'
  OBVIOUS
<1>0. TypeOK /\ Last \in Nat /\ \A b \in Blocks : Capacity[b] \in Nat
  BY ConstantFacts DEF Shape
<1>1. CASE Skip
  <2>1. /\ used' \in [Blocks -> Nat] /\ \A b \in Blocks : used'[b] <= Capacity[b]
        /\ emptyBlock <= currentBlock /\ \A b \in currentBlock .. Last : used'[b] \in tops[b] \cup {0}
    BY <1>1, VisitShape DEF Skip
  <2> QED BY <1>1, <2>1 DEF Skip, Visit, Shape, TypeOK, Addresses, Promoted, Blocks
<1>2. CASE Promote
  <2>1. /\ used' \in [Blocks -> Nat] /\ \A b \in Blocks : used'[b] <= Capacity[b]
        /\ emptyBlock <= currentBlock /\ \A b \in currentBlock .. Last : used'[b] \in tops[b] \cup {0}
    BY <1>2, VisitShape DEF Promote
  <2>2. /\ DOMAIN newAddress' = DOMAIN newAddress \cup {Top} /\ Top \in reached
        /\ \A a \in DOMAIN newAddress' : newAddress'[a] \in Addresses \cup {Promoted}
    BY <1>0, <1>2 DEF Promote, MoveTo, TypeOK, IsMarked
  <2> QED BY <1>2, <2>1, <2>2 DEF Promote, Visit, Shape, TypeOK, Addresses, Promoted, Blocks
<1>3. CASE Keep
  <2>0. PICK size, block :
          /\ size = SizeOf(Top)
          /\ block = IF HasRoom(emptyBlock, size) THEN emptyBlock ELSE Prev(emptyBlock)
          /\ used' = IF HasRoom(block, size) THEN [Reduced EXCEPT ![block] = @ + size]
                                             ELSE Reduced
          /\ emptyBlock' = block
          /\ MoveTo(<<block, used'[block]>>)
    BY <1>3 DEF Keep
  <2>1. /\ Visit /\ IsMarked /\ UNCHANGED phase
    BY <1>3 DEF Keep
  <2>2. /\ size \in Nat /\ Reduced \in [Blocks -> Nat] /\ \A b \in Blocks : Reduced[b] <= Capacity[b]
        /\ currentBlock \in 1 .. Last /\ currentBlock \in Blocks /\ emptyBlock \in 0 .. currentBlock
        /\ used[currentBlock] \in tops[currentBlock] /\ used[currentBlock] \in Nat
        /\ size \in 1 .. used[currentBlock] /\ Reduced[currentBlock] = used[currentBlock] - size
        /\ used[currentBlock] <= Capacity[currentBlock]
    BY <2>0, <2>1, VisitShape
  <2>3. block \in 0 .. currentBlock /\ block \in Blocks
    <3>1. CASE HasRoom(emptyBlock, size)
      BY <1>0, <2>0, <2>2, <3>1 DEF Blocks
    <3>2. CASE ~HasRoom(emptyBlock, size)
      <4>1. HasRoom(currentBlock, size)
        BY <2>2 DEF HasRoom
      <4>2. emptyBlock + 1 \in 0 .. currentBlock
        BY <2>2, <3>2, <4>1
      <4>3. block = emptyBlock + 1
        BY <1>0, <2>0, <2>2, <3>2, <4>2 DEF Prev
      <4> QED BY <1>0, <2>2, <4>2, <4>3 DEF Blocks
    <3> QED BY <3>1, <3>2
  <2>4. used' \in [Blocks -> Nat] /\ \A b \in Blocks : used'[b] <= Capacity[b]
    BY <1>0, <2>0, <2>2, <2>3 DEF HasRoom
  <2>5. ASSUME NEW b \in currentBlock .. Last PROVE used'[b] \in tops[b] \cup {0}
    <3>1. b \in Blocks
      BY <1>0, <2>2 DEF Blocks
    <3>2. Reduced[b] \in tops[b] \cup {0}
      BY <2>1, VisitShape
    <3>3. CASE block = b /\ HasRoom(block, size)
      <4>1. b = currentBlock
        BY <2>2, <2>3, <3>3
      <4>2. used'[b] = Reduced[b] + size
        BY <2>0, <2>2, <3>1, <3>3
      <4>3. used'[b] = used[currentBlock]
        BY <2>2, <4>1, <4>2
      <4> QED BY <2>2, <4>1, <4>3
    <3>4. CASE ~ (block = b /\ HasRoom(block, size))
      BY <2>0, <2>2, <2>3, <3>1, <3>2, <3>4
    <3> QED BY <3>3, <3>4
  <2>6. <<block, used'[block]>> \in Addresses
    BY <2>3, <2>4 DEF Addresses
  <2>7. /\ DOMAIN newAddress' = DOMAIN newAddress \cup {Top} /\ Top \in reached
        /\ \A a \in DOMAIN newAddress' : newAddress'[a] \in Addresses \cup {Promoted}
    BY <1>0, <2>0, <2>1, <2>6 DEF MoveTo, TypeOK, IsMarked
  <2>8. block <= currentBlock
    BY <2>2, <2>3
  <2> QED BY <2>0, <2>1, <2>3, <2>4, <2>5, <2>7, <2>8
        DEF Visit, Shape, TypeOK, Addresses, Promoted, Blocks
<1>4. CASE NextBlock
  <2>1. currentBlock' \in Blocks \ {0}
    BY <1>0, <1>4 DEF NextBlock, TypeOK, Blocks
  <2>2. phase' = "sweep" => /\ emptyBlock <= currentBlock' /\ phase = "sweep"
                            /\ currentBlock' .. Last \subseteq currentBlock .. Last
    BY <1>0, <1>4 DEF NextBlock, Shape, TypeOK, Blocks
  <2>3. phase' \in {"sweep", "move"}
    BY <1>4 DEF NextBlock
  <2> QED BY <1>4, <2>1, <2>2, <2>3 DEF NextBlock, Shape, TypeOK, Addresses, Promoted, Blocks
<1>5. CASE MoveObject
  <2>1. copied' \subseteq DOMAIN newAddress /\ phase' \in {"move", "corrupt"}
    BY <1>0, <1>5 DEF MoveObject, Pending, TypeOK
  <2> QED BY <1>5, <2>1 DEF MoveObject, Shape, TypeOK, Addresses, Promoted, Blocks
<1>6. CASE NextMovedBlock
  <2>1. currentBlock' \in Blocks \ {0} /\ phase' \in {"move", "done"}
    BY <1>0, <1>6 DEF NextMovedBlock, TypeOK, Blocks
  <2> QED BY <1>6, <2>1 DEF NextMovedBlock, Shape, TypeOK, Addresses, Promoted, Blocks
<1>7. CASE Finished \/ UNCHANGED vars
  BY <1>7 DEF Finished, vars, Shape, TypeOK, Addresses, Promoted, Blocks
<1> QED BY <1>1, <1>2, <1>3, <1>4, <1>5, <1>6, <1>7 DEF Next

\* The variables stay in their types, blocks of different sizes included: the second
\* Expand of Sweep may fail, but it never fills a block beyond its capacity.
THEOREM TypeCorrectness == Spec => []TypeOK
<1>1. Shape => TypeOK
  BY DEF Shape
<1> QED BY <1>1, InitShape, NextShape, PTL DEF Spec

\* Sweep reads headers only where they are, blocks of different sizes included: the
\* block being filled never overtakes the block being swept, and an object that is
\* put back on the block it came from lies where it was.
THEOREM HeadersRead == Spec => []TopIsHeader
<1>1. Shape => TopIsHeader
  <2> SUFFICES ASSUME Shape, phase = "sweep", used[currentBlock] > 0
               PROVE  used[currentBlock] \in tops[currentBlock]
    BY DEF TopIsHeader
  <2>1. currentBlock \in currentBlock .. Last
    BY ConstantFacts DEF Shape, TypeOK
  <2> QED BY <2>1 DEF Shape
<1> QED BY <1>1, InitShape, NextShape, PTL DEF Spec

\* Sweep and MoveSurvived keep the invariant when no block is larger than another.
THEOREM Invariance == ASSUME EqualCapacities PROVE Spec => []Inv
<1>1. Init => Inv
  BY InitInv
<1>2. Inv /\ [Next]_vars => Inv'
  BY NextInv
<1> QED BY <1>1, <1>2, PTL DEF Spec

\* The block being filled stays behind the block being swept: Sweep never reserves
\* a place above objects that it has still to visit (SimpleGC Sweep, m_CurrentBlock
\* and emptyBlock).
THEOREM FillingStaysBehind == ASSUME EqualCapacities PROVE Spec => []FillsBehind
<1>1. Inv => FillsBehind
  BY DEF Inv, Sweeping, Behind, FillsBehind
<1> QED BY <1>1, Invariance, PTL

\* The places that Sweep reserves lie in the used part of a block and do not overlap.
THEOREM Reservation == ASSUME EqualCapacities PROVE Spec => []PlacesReserved
<1>1. Inv => PlacesReserved
  BY DEF Inv
<1> QED BY <1>1, Invariance, PTL

\* Whatever the order in which the hash tables of addresses yield the objects,
\* MoveSurvived leaves every survivor whole at its new address.
THEOREM Survival == ASSUME EqualCapacities PROVE Spec => []SurvivorsIntact
<1>1. Inv => SurvivorsIntact
  <2> SUFFICES ASSUME Inv PROVE SurvivorsIntact
    OBVIOUS
  <2>1. phase # "corrupt"
    BY DEF Inv, Typed
  <2>2. phase = "done" => Moving
    BY DEF Inv
  <2>3. phase = "done" => \A a \in Kept : Moved(a)
    <3> SUFFICES ASSUME phase = "done", NEW a \in Kept PROVE Moved(a)
      OBVIOUS
    <3>1. a \in copied
      BY <2>2, KeptFacts DEF Moving
    <3> QED BY <2>2, <3>1 DEF Moving
  <2> QED BY <2>1, <2>2, <2>3 DEF SurvivorsIntact, Moving, Moved
<1> QED BY <1>1, Invariance, PTL

-----------------------------------------------------------------------------
(* The sweep comes nearer to its end *)

\* What is left to do: the objects that are still to be visited while they are marked
\* or to be moved, the blocks, and the cells of the block being swept.
Left ==
  CASE phase = "sweep" -> <<2, Cardinality(reached \ DOMAIN newAddress), Last - currentBlock, used[currentBlock]>>
    [] phase = "move"  -> <<1, Cardinality(DOMAIN newAddress \ copied), Last - currentBlock, 0>>
    [] OTHER           -> <<0, 0, 0, 0>>

\* Below in the lexicographic order, which is well-founded on tuples of naturals.
Below(a, b) == \E i \in 1 .. 4 : a[i] < b[i] /\ \A j \in 1 .. i - 1 : a[j] = b[j]

\* Until the end, each step leaves less to do.
LeftDecreases == [][Left' \in Nat \X Nat \X Nat \X Nat /\ Below(Left', Left)]_vars

\* Finitely many objects were reached.
FinitelyReached == Shape /\ IsFiniteSet(reached)

\* Finitely many objects were in the blocks.
LEMMA InitFinitelyReached == Init => FinitelyReached
<1> SUFFICES ASSUME Init PROVE IsFiniteSet(reached)
  BY InitShape DEF FinitelyReached
<1> DEFINE Column(b) == {b} \X tops[b]
           O == {Column(b) : b \in Blocks}
<1>1. IsFiniteSet(Blocks)
  BY ConstantFacts, FS_Interval
<1>2. ASSUME NEW b \in Blocks PROVE IsFiniteSet(Column(b))
  <2>1. tops[b] \in SUBSET (1 .. Capacity[b])
    BY DEF Init
  <2>2. IsFiniteSet(tops[b])
    <3>1. Capacity[b] \in Int /\ 1 \in Int
      BY ConstantFacts
    <3>2. IsFiniteSet(1 .. Capacity[b])
      BY <3>1, FS_Interval
    <3> QED BY <2>1, <3>2, FS_Subset
  <2>3. IsFiniteSet({b})
    BY FS_Singleton
  <2> QED BY <2>2, <2>3, FS_Product
<1>3. IsFiniteSet(O)
  <2> DEFINE f == [b \in Blocks |-> Column(b)]
  <2> HIDE DEF Column
  <2>1. f \in [Blocks -> O] /\ \A T \in O : \E b \in Blocks : f[b] = T
    OBVIOUS
  <2> HIDE DEF f, O
  <2>2. f \in Surjection(Blocks, O)
    BY <2>1 DEF Surjection
  <2> QED BY <1>1, <2>2, FS_Surjection
<1>4. \A T \in O : IsFiniteSet(T)
  BY <1>2
<1>5. IsFiniteSet(Objects)
  <2>1. Objects = UNION O
    BY DEF Objects
  <2> HIDE DEF O
  <2> QED BY <1>3, <1>4, <2>1, FS_UNION
<1>6. reached \in SUBSET Objects
  BY DEF Init
<1> QED BY <1>5, <1>6, FS_Subset

\* Nothing is marked during the sweep.
LEMMA NextFinitelyReached == FinitelyReached /\ [Next]_vars => FinitelyReached'
<1> SUFFICES ASSUME FinitelyReached, [Next]_vars PROVE reached' = reached
  BY NextShape DEF FinitelyReached
<1> QED BY DEF Next, Skip, Promote, Keep, Visit, NextBlock, MoveObject, NextMovedBlock, Finished, vars

\* In each phase, what is left is a tuple of naturals.
LEMMA LeftTyped == FinitelyReached => Left \in Nat \X Nat \X Nat \X Nat
<1> SUFFICES ASSUME FinitelyReached PROVE Left \in Nat \X Nat \X Nat \X Nat
  OBVIOUS
<1>1. Last - currentBlock \in Nat /\ used[currentBlock] \in Nat
  BY ConstantFacts DEF FinitelyReached, Shape, TypeOK
<1>2. Cardinality(reached \ DOMAIN newAddress) \in Nat
  BY FS_Difference, FS_CardinalityType DEF FinitelyReached
<1>3. Cardinality(DOMAIN newAddress \ copied) \in Nat
  <2>1. DOMAIN newAddress \in SUBSET reached
    BY DEF FinitelyReached, Shape, TypeOK
  <2>2. IsFiniteSet(DOMAIN newAddress)
    BY <2>1, FS_Subset DEF FinitelyReached
  <2> QED BY <2>2, FS_Difference, FS_CardinalityType
<1> QED BY <1>1, <1>2, <1>3 DEF Left

\* A phase comes before another, fewer objects are left, fewer blocks, or fewer cells.
LEMMA BelowCases ==
  ASSUME NEW r, NEW c, NEW l, NEW u, NEW s, NEW d, NEW m, NEW v,
         \/ r < s
         \/ r = s /\ c < d
         \/ r = s /\ c = d /\ l < m
         \/ r = s /\ c = d /\ l = m /\ u < v
  PROVE  Below(<<r, c, l, u>>, <<s, d, m, v>>)
<1> DEFINE a == <<r, c, l, u>>
           b == <<s, d, m, v>>
<1>1. a[1] = r /\ a[2] = c /\ a[3] = l /\ a[4] = u /\ b[1] = s /\ b[2] = d /\ b[3] = m /\ b[4] = v
  OBVIOUS
<1> HIDE DEF a, b
<1>2. /\ \A j \in 1 .. 1 - 1 : FALSE
      /\ \A j \in 1 .. 2 - 1 : j = 1
      /\ \A j \in 1 .. 3 - 1 : j = 1 \/ j = 2
      /\ \A j \in 1 .. 4 - 1 : j = 1 \/ j = 2 \/ j = 3
  OBVIOUS
<1>3. CASE r < s
  <2>1. 1 \in 1 .. 4 /\ a[1] < b[1] /\ \A j \in 1 .. 1 - 1 : a[j] = b[j]
    BY <1>1, <1>2, <1>3
  <2> QED BY <2>1 DEF Below, a, b
<1>4. CASE r = s /\ c < d
  <2>1. 2 \in 1 .. 4 /\ a[2] < b[2] /\ \A j \in 1 .. 2 - 1 : a[j] = b[j]
    BY <1>1, <1>2, <1>4
  <2> QED BY <2>1 DEF Below, a, b
<1>5. CASE r = s /\ c = d /\ l < m
  <2>1. 3 \in 1 .. 4 /\ a[3] < b[3] /\ \A j \in 1 .. 3 - 1 : a[j] = b[j]
    BY <1>1, <1>2, <1>5
  <2> QED BY <2>1 DEF Below, a, b
<1>6. CASE r = s /\ c = d /\ l = m /\ u < v
  <2>1. 4 \in 1 .. 4 /\ a[4] < b[4] /\ \A j \in 1 .. 4 - 1 : a[j] = b[j]
    BY <1>1, <1>2, <1>6
  <2> QED BY <2>1 DEF Below, a, b
<1> QED BY <1>3, <1>4, <1>5, <1>6

\* A marked object that is visited is not left.
LEMMA MovedLess ==
  ASSUME FinitelyReached, IsMarked, NEW address, MoveTo(address), reached' = reached
  PROVE  Cardinality(reached \ DOMAIN newAddress)' < Cardinality(reached \ DOMAIN newAddress)
<1> DEFINE S == reached \ DOMAIN newAddress
<1>1. IsFiniteSet(S) /\ Cardinality(S) \in Nat
  BY FS_Difference, FS_CardinalityType DEF FinitelyReached
<1>2. (reached \ DOMAIN newAddress)' = S \ {Top} /\ Top \in S
  BY DEF MoveTo, IsMarked
<1> HIDE DEF S
<1>3. Cardinality(S \ {Top}) = Cardinality(S) - 1
  BY <1>1, <1>2, FS_RemoveElement
<1> QED BY <1>1, <1>2, <1>3 DEF S

\* A visit of a marked object leaves fewer of them, that of another fewer cells; a move
\* leaves fewer moves; and the next block and the next phase are nearer to the end.
LEMMA StepDecreases == FinitelyReached /\ Next => UNCHANGED vars \/ Below(Left', Left)
<1> SUFFICES ASSUME FinitelyReached, Next PROVE UNCHANGED vars \/ Below(Left', Left)
  OBVIOUS
<1> DEFINE unvisited == Cardinality(reached \ DOMAIN newAddress)
           uncopied == Cardinality(DOMAIN newAddress \ copied)
           blocks == Last - currentBlock
           cells == used[currentBlock]
<1>1. phase = "sweep" => Left = <<2, unvisited, blocks, cells>>
  BY DEF Left
<1>2. phase' = "sweep" => Left' = <<2, unvisited', blocks', cells'>>
  BY DEF Left
<1>3. phase = "move" => Left = <<1, uncopied, blocks, 0>>
  BY DEF Left
<1>4. phase' = "move" => Left' = <<1, uncopied', blocks', 0>>
  BY DEF Left
<1>5. phase' \notin {"sweep", "move"} => Left' = <<0, 0, 0, 0>>
  BY DEF Left
<1>6. currentBlock \in Int /\ Last \in Int
  BY ConstantFacts DEF FinitelyReached, Shape, TypeOK
<1> HIDE DEF unvisited, uncopied
<1>7. CASE Skip
  <2>1. phase = "sweep" /\ phase' = "sweep" /\ currentBlock' = currentBlock /\ used' = Reduced
        /\ reached' = reached /\ newAddress' = newAddress
    BY <1>7 DEF Skip, Visit
  <2>2. unvisited' = unvisited /\ blocks' = blocks
    BY <2>1 DEF unvisited
  <2>3. cells' < cells
    <3>1. /\ SizeOf(Top) \in 1 .. cells /\ cells \in Nat
          /\ Reduced[currentBlock] = cells - SizeOf(Top)
      BY <1>7, VisitShape DEF Skip, FinitelyReached
    <3>2. cells' = Reduced[currentBlock]
      BY <2>1
    <3> HIDE DEF cells
    <3> QED BY <3>1, <3>2
  <2> QED BY <1>1, <1>2, <2>1, <2>2, <2>3, BelowCases
<1>8. CASE Promote \/ Keep
  <2>1. Visit /\ IsMarked /\ phase' = phase /\ \E address : MoveTo(address)
    BY <1>8, Zenon DEF Promote, Keep
  <2>2. phase = "sweep" /\ phase' = "sweep" /\ reached' = reached
    BY <2>1 DEF Visit
  <2>3. unvisited' < unvisited
    BY <2>1, <2>2, MovedLess DEF unvisited
  <2> QED BY <1>1, <1>2, <2>2, <2>3, BelowCases
<1>9. CASE NextBlock
  <2>1. phase = "sweep" /\ reached' = reached /\ newAddress' = newAddress
    BY <1>9 DEF NextBlock
  <2>2. CASE currentBlock = Last
    <3>1. phase' = "move"
      BY <1>9, <2>2 DEF NextBlock
    <3>2. Left' = <<1, uncopied', blocks', 0>> /\ Left = <<2, unvisited, blocks, cells>> /\ 1 < 2
      BY <1>1, <1>4, <2>1, <3>1
    <3> QED BY <3>2, BelowCases
  <2>3. CASE currentBlock # Last
    <3>1. phase' = "sweep" /\ currentBlock' = currentBlock + 1
      BY <1>9, <2>1, <2>3 DEF NextBlock
    <3>2. unvisited' = unvisited
      BY <2>1 DEF unvisited
    <3>3. blocks' < blocks
      BY <1>6, <3>1
    <3> QED BY <1>1, <1>2, <2>1, <3>1, <3>2, <3>3, BelowCases
  <2> QED BY <2>2, <2>3
<1>10. CASE MoveObject
  <2>1. PICK a \in Pending : copied' = copied \cup {a}
    BY <1>10 DEF MoveObject
  <2>2. phase = "move" /\ newAddress' = newAddress /\ currentBlock' = currentBlock
        /\ phase' \in {"move", "corrupt"}
    BY <1>10 DEF MoveObject
  <2>3. uncopied' < uncopied
    <3> DEFINE S == DOMAIN newAddress \ copied
    <3>1. DOMAIN newAddress \in SUBSET reached
      BY DEF FinitelyReached, Shape, TypeOK
    <3>2. IsFiniteSet(DOMAIN newAddress)
      BY <3>1, FS_Subset DEF FinitelyReached
    <3>3. IsFiniteSet(S) /\ Cardinality(S) \in Nat
      BY <3>2, FS_Difference, FS_CardinalityType
    <3>4. (DOMAIN newAddress \ copied)' = S \ {a} /\ a \in S
      BY <2>1, <2>2 DEF Pending
    <3> HIDE DEF S
    <3>5. Cardinality(S \ {a}) = Cardinality(S) - 1
      BY <3>3, <3>4, FS_RemoveElement
    <3> QED BY <3>3, <3>4, <3>5 DEF S, uncopied
  <2>4. CASE phase' = "move"
    BY <1>3, <1>4, <2>2, <2>3, <2>4, BelowCases
  <2>5. CASE phase' = "corrupt"
    <3>1. Left' = <<0, 0, 0, 0>> /\ Left = <<1, uncopied, blocks, 0>> /\ 0 < 1
      BY <1>3, <1>5, <2>2, <2>5
    <3> QED BY <3>1, BelowCases
  <2> QED BY <2>2, <2>4, <2>5
<1>11. CASE NextMovedBlock
  <2>1. phase = "move" /\ newAddress' = newAddress /\ copied' = copied
    BY <1>11 DEF NextMovedBlock
  <2>2. CASE currentBlock = Last
    <3>1. phase' = "done"
      BY <1>11, <2>2 DEF NextMovedBlock
    <3>2. Left' = <<0, 0, 0, 0>> /\ Left = <<1, uncopied, blocks, 0>> /\ 0 < 1
      BY <1>3, <1>5, <2>1, <3>1
    <3> QED BY <3>2, BelowCases
  <2>3. CASE currentBlock # Last
    <3>1. phase' = "move" /\ currentBlock' = currentBlock + 1
      BY <1>11, <2>1, <2>3 DEF NextMovedBlock
    <3>2. uncopied' = uncopied
      BY <2>1 DEF uncopied
    <3>3. blocks' < blocks
      BY <1>6, <3>1
    <3> QED BY <1>3, <1>4, <2>1, <3>1, <3>2, <3>3, BelowCases
  <2> QED BY <2>2, <2>3
<1>12. CASE Finished
  BY <1>12 DEF Finished
<1> QED BY <1>7, <1>8, <1>9, <1>10, <1>11, <1>12 DEF Next

\* Each step of Sweep and MoveSurvived leaves less to do than before, in a well-founded
\* order, whatever the sizes of the blocks: neither loop can go on for ever, as long as
\* the collector takes its steps.
THEOREM Progress == Spec => LeftDecreases
<1> DEFINE Counted == Left \in Nat \X Nat \X Nat \X Nat
<1>1. FinitelyReached /\ Counted' /\ [Next]_vars => [Left' \in Nat \X Nat \X Nat \X Nat /\ Below(Left', Left)]_vars
  BY StepDecreases
<1>2. FinitelyReached => Counted
  BY LeftTyped
<1> HIDE DEF Counted
<1> QED BY <1>1, <1>2, InitFinitelyReached, NextFinitelyReached, PTL DEF Spec, LeftDecreases

=============================================================================
