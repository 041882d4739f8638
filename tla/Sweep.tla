-------------------------------- MODULE Sweep --------------------------------
(***************************************************************************)
(* One sweep of a generation of SimpleGarbageCollector: Sweep reserves a   *)
(* place for every marked object, MoveSurvived copies the objects there.   *)
(*                                                                         *)
(* A ManagedHeapGeneration is a ring of blocks.  Blocks are numbered in    *)
(* the order of Prev from the empty block where the sweep begins to fill,  *)
(* number 0; number 1 is m_CurrentBlock.  A block is a Stack: its objects  *)
(* lie one on the other, and an object is named by its block and by the    *)
(* offset of its header, which is its top cell.  A cell of memory is known *)
(* by the place where it was when the sweep began.                         *)
(*                                                                         *)
(* What is marked, and what is old enough to be promoted, is any choice:   *)
(* marking is not part of this module, nor is the room that a promoted     *)
(* object finds in the old generation.                                     *)
(***************************************************************************)
EXTENDS Integers

CONSTANTS
  Last,      \* the number of the last block of the ring
  Capacity,  \* of each block
  Young      \* whether the generation is the young one

Blocks == 0 .. Last

ASSUME SweepAssumption ==
  /\ Last \in Nat \ {0}
  /\ Capacity \in [Blocks -> Nat \ {0}]
  /\ Young \in BOOLEAN

VARIABLES
  tops,          \* the headers of the objects in each block
  reached,       \* the objects marked before the sweep
  aged,          \* those of them whose age becomes 32
  used,          \* m_Used of each block
  mem,           \* the memory of each block
  newAddress,    \* of the objects visited: where they go
  copied,        \* the objects moved there
  currentBlock,  \* the block being swept, then the block being moved
  emptyBlock,    \* the block being filled
  phase          \* Sweep, MoveSurvived, done, or memory outside a block was written

vars == <<tops, reached, aged, used, mem, newAddress, copied, currentBlock, emptyBlock, phase>>

\* Anywhere in the old generation.
Promoted == <<Last + 1, 0>>
Addresses == Blocks \X Nat

\* The largest element of a set of offsets, 0 of the empty set.
Highest(offsets) == IF offsets = {} THEN 0 ELSE CHOOSE o \in offsets : \A p \in offsets : p <= o

\* info->Size: objects lie next to one another.
SizeOf(address) == address[2] - Highest({o \in tops[address[1]] : o < address[2]})

\* Mutants of Prev: the block being filled is kept although it has no room; the
\* ring is followed the other way.
SameBlock(block) == block
OtherWay(block) == (block + Last) % (Last + 1)

\* ManagedHeapGeneration::Prev
Prev(block) == (block + 1) % (Last + 1)

\* The objects in the blocks.
Objects == UNION {{b} \X tops[b] : b \in Blocks}

\* Every other block holds any objects that fill it from the bottom.
Init ==
  /\ tops \in [Blocks -> SUBSET (1 .. Highest({Capacity[b] : b \in Blocks}))]
  /\ tops[0] = {} /\ \A b \in Blocks : tops[b] \subseteq 1 .. Capacity[b]
  /\ reached \in SUBSET Objects
  /\ aged \in SUBSET (IF Young THEN reached ELSE {})
  /\ used = [b \in Blocks |-> Highest(tops[b])]
  /\ mem = [b \in Blocks |-> [o \in 1 .. Capacity[b] |-> <<b, o>>]]
  /\ newAddress = [a \in {} |-> Promoted]
  /\ copied = {}
  /\ currentBlock = 1
  /\ emptyBlock = 0
  /\ phase = "sweep"

-----------------------------------------------------------------------------
(* Sweep *)

\* currentBlock->GetTop<ManagedHeapInfo>()
Top == <<currentBlock, used[currentBlock]>>

\* The block is not empty yet: what is on its top is read as a header.
Visit ==
  /\ phase = "sweep"
  /\ used[currentBlock] > 0
  /\ UNCHANGED <<tops, reached, aged, mem, copied, currentBlock>>

IsMarked == Top \in reached /\ Top \notin DOMAIN newAddress

\* currentBlock->Reduce(info->Size)
Reduced == [used EXCEPT ![currentBlock] = @ - SizeOf(Top)]

\* Mutant of Skip: an object that is not marked is not popped.
SkipInPlace ==
  /\ Visit
  /\ ~IsMarked
  /\ UNCHANGED <<used, newAddress, emptyBlock, phase>>

Skip ==
  /\ Visit
  /\ ~IsMarked
  /\ used' = Reduced
  /\ UNCHANGED <<newAddress, emptyBlock, phase>>

MoveTo(address) == newAddress' = [a \in DOMAIN newAddress \cup {Top} |->
                                   IF a = Top THEN address ELSE newAddress[a]]

Promote ==
  /\ Visit
  /\ IsMarked
  /\ Young /\ Top \in aged
  /\ used' = Reduced
  /\ MoveTo(Promoted)
  /\ UNCHANGED <<emptyBlock, phase>>

\* Mutants of HasRoom: a block is not filled to the brim; a block with any room
\* takes any object.
HasSpareRoom(block, size) == Reduced[block] + size < Capacity[block]
HasAnyRoom(block, size) == Reduced[block] < Capacity[block]

\* Stack::Expand returns whether the block has room for size more.
HasRoom(block, size) == Reduced[block] + size <= Capacity[block]

\* The survivor goes on top of the block being filled, or of the next one; that
\* the next one has no room is not noticed.  GetTop of a block that is still empty is
\* then a null pointer, which is outside a block like the place it gets here.
Keep ==
  /\ Visit
  /\ IsMarked
  /\ ~(Young /\ Top \in aged)
  /\ LET size  == SizeOf(Top)
         block == IF HasRoom(emptyBlock, size) THEN emptyBlock ELSE Prev(emptyBlock)
     IN  /\ used' = IF HasRoom(block, size) THEN [Reduced EXCEPT ![block] = @ + size] ELSE Reduced
         /\ emptyBlock' = block
         /\ MoveTo(<<block, used'[block]>>)
  /\ UNCHANGED phase

NextBlock ==
  /\ phase = "sweep"
  /\ used[currentBlock] = 0
  /\ IF currentBlock = Last
       THEN currentBlock' = 1 /\ phase' = "move"
       ELSE currentBlock' = currentBlock + 1 /\ UNCHANGED phase
  /\ UNCHANGED <<tops, reached, aged, used, mem, newAddress, copied, emptyBlock>>

-----------------------------------------------------------------------------
(* MoveSurvived *)

\* Mutant of Pending: the objects of all blocks are moved in one order.
PendingInAnyBlock == DOMAIN newAddress \ copied

Pending == {a \in DOMAIN newAddress \ copied : a[1] = currentBlock}

\* The memory after the cells of object were copied to address.
Copied(object, address) ==
  [mem EXCEPT ![address[1]] =
     [o \in DOMAIN @ |-> IF o \in address[2] - SizeOf(object) + 1 .. address[2]
                           THEN mem[object[1]][object[2] - (address[2] - o)]
                           ELSE @[o]]]

\* The objects of a block are moved in the order of a hash table.
MoveObject ==
  /\ phase = "move"
  /\ \E a \in Pending :
       LET to == newAddress[a]
       IN  /\ copied' = copied \cup {a}
           /\ IF to = Promoted
                THEN UNCHANGED <<mem, phase>>
              ELSE IF to[2] - SizeOf(a) < 0
                THEN UNCHANGED mem /\ phase' = "corrupt"
              ELSE mem' = Copied(a, to) /\ UNCHANGED phase
  /\ UNCHANGED <<tops, reached, aged, used, newAddress, currentBlock, emptyBlock>>

NextMovedBlock ==
  /\ phase = "move"
  /\ Pending = {}
  /\ IF currentBlock = Last
       THEN phase' = "done" /\ UNCHANGED currentBlock
       ELSE currentBlock' = currentBlock + 1 /\ UNCHANGED phase
  /\ UNCHANGED <<tops, reached, aged, used, mem, newAddress, copied, emptyBlock>>

Finished == phase \in {"done", "corrupt"} /\ UNCHANGED vars

Next ==
  \/ Skip \/ Promote \/ Keep \/ NextBlock
  \/ MoveObject \/ NextMovedBlock
  \/ Finished

\* The two loops run one step after the other, and nothing else runs meanwhile.
Spec == Init /\ [][Next]_vars /\ WF_vars(Next)

-----------------------------------------------------------------------------
(* Properties *)

\* The variables stay in their types: no block is filled beyond its capacity, and
\* only marked objects are given a place and moved.
TypeOK ==
  /\ tops \in [Blocks -> SUBSET (Nat \ {0})]
  /\ reached \subseteq Addresses /\ aged \subseteq reached
  /\ used \in [Blocks -> Nat] /\ \A b \in Blocks : used[b] <= Capacity[b]
  /\ DOMAIN newAddress \subseteq reached
  /\ \A a \in DOMAIN newAddress : newAddress[a] \in Addresses \cup {Promoted}
  /\ copied \subseteq DOMAIN newAddress
  /\ currentBlock \in Blocks \ {0} /\ emptyBlock \in Blocks
  /\ phase \in {"sweep", "move", "done", "corrupt"}

\* What is read as a header is one, although places are reserved on top of blocks
\* meanwhile, with a block that has too little room on top of the very block that
\* is being swept.
TopIsHeader ==
  phase = "sweep" /\ used[currentBlock] > 0 => used[currentBlock] \in tops[currentBlock]

\* The block being filled stays behind the block being swept, so that no place is
\* reserved above objects that are still to be visited.
FillsBehind == phase = "sweep" => emptyBlock < currentBlock

Kept == {a \in DOMAIN newAddress : newAddress[a] # Promoted}

\* The cells an object is to take.
Place(a) == {newAddress[a][1]} \X (newAddress[a][2] - SizeOf(a) + 1 .. newAddress[a][2])

\* The places of the survivors lie in the used part of their blocks, where nothing
\* is allocated after the sweep, and do not overlap.
PlacesReserved ==
  /\ \A a \in Kept : /\ newAddress[a][1] \in Blocks
                      /\ newAddress[a][2] - SizeOf(a) >= 0
                      /\ newAddress[a][2] <= used[newAddress[a][1]]
  /\ \A a, b \in Kept : a # b => Place(a) \cap Place(b) = {}

\* No block is larger than another, as when no object is larger than a block.
EqualCapacities == \A b, c \in Blocks : Capacity[b] = Capacity[c]

\* After the sweep every object that was reached is whole at its new address,
\* whatever the order of the moves, unless it was promoted; on the way nothing is
\* copied outside a block.
SurvivorsIntact ==
  /\ phase # "corrupt"
  /\ phase = "done" =>
       /\ DOMAIN newAddress = reached
       /\ \A a \in Kept : \A i \in 0 .. SizeOf(a) - 1 :
            mem[newAddress[a][1]][newAddress[a][2] - i] = <<a[1], a[2] - i>>

\* The sweep ends, because every object is visited at most once while it is marked
\* and once while it is not.
Terminates == <>(phase \in {"done", "corrupt"})
=============================================================================
