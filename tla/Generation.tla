------------------------------ MODULE Generation ------------------------------
(***************************************************************************)
(* The old generation as a ManagedHeapGeneration: its list of blocks, its  *)
(* current block, and the cards of the objects in the blocks.              *)
(*                                                                         *)
(* A block begins where the allocator placed it and is filled from its     *)
(* end downwards.  An object is its size, and whether it was promoted with *)
(* pointers that the card table is to remember.  A card is a piece of      *)
(* memory; cards begin at multiples of their size, blocks need not.        *)
(*                                                                         *)
(* The survivors of a collection are any of the objects.  The memory they  *)
(* are copied to is the subject of Sweep, pointers that of GenerationalGC. *)
(* The young generation is such a list too: its objects are as small as    *)
(* those promoted here, and it has no cards.                               *)
(***************************************************************************)
EXTENDS Integers, SequencesExt

CONSTANTS
  DefaultBlockSize,    \* of the old generation
  YoungBlockSize,      \* of the young one: larger objects are allocated here
  Sizes,               \* of objects
  EmptyBlocks,         \* that DeleteEmptyBlocks spares: 8
  CardSize,            \* 64
  Places               \* where the allocator may place a block

ASSUME GenerationAssumption ==
  /\ {DefaultBlockSize, YoungBlockSize, EmptyBlocks, CardSize} \subseteq Nat \ {0}
  /\ YoungBlockSize <= DefaultBlockSize
  /\ Sizes \subseteq Nat \ {0} /\ Places \subseteq Nat
  /\ \A p, q \in Places : p < q => \A size \in Sizes \cup {DefaultBlockSize} : p + size <= q

VARIABLES
  blocks,   \* m_Blocks
  current,  \* the place in it of m_CurrentBlock
  cards,    \* the dirty cards of m_CardTable
  erased,   \* a history: whether a block was erased
  status    \* "running", or how the machine went wrong

vars == <<blocks, current, cards, erased, status>>

Failures == {"bad_alloc", "null", "erased", "lost", "no table", "end"}

NewBlock(place, size, objects) == [begin |-> place, size |-> size, objects |-> objects]

\* The bytes that the first n of the objects take, for every n.
Filled(objects) ==
  LET filled[n \in 0 .. Len(objects)] == IF n = 0 THEN 0 ELSE filled[n - 1] + objects[n].size
  IN  filled

\* m_Used
Used(block) == Filled(block.objects)[Len(block.objects)]

IsEmpty(block) == block.objects = <<>>

\* Mutant of HasRoom: off by one.
HasRoomAlmost(block, size) == Used(block) + size <= block.size + 1

HasRoom(block, size) == Used(block) + size <= block.size

\* Where the i-th object of the block has its header.
Header(block, i) == block.begin + block.size - Filled(block.objects)[i]

Card(address) == address \div CardSize

Free(list) == Places \ {list[i].begin : i \in DOMAIN list}

\* ManagedHeapGeneration::Next
NextBlock(list, i) == IF i = Len(list) THEN 1 ELSE i + 1

\* ManagedHeapGeneration::Prev
PrevBlock(list, i) == IF i = 1 THEN Len(list) ELSE i - 1

\* Mutant of FindBlock: the first byte of a block is taken for none of it.
FindBlockAbove(list, address) ==
  {i \in DOMAIN list : address \in list[i].begin + 1 .. list[i].begin + list[i].size - 1}

\* The blocks that an address lies in.
FindBlock(list, address) ==
  {i \in DOMAIN list : address \in list[i].begin .. list[i].begin + list[i].size - 1}

Init ==
  /\ \E place \in Places : blocks = <<NewBlock(place, DefaultBlockSize, <<>>)>>
  /\ current = 1
  /\ cards = {}
  /\ erased = FALSE
  /\ status = "running"

\* What a call leaves: at first what there is; what goes wrong leaves it so.
Now == [status |-> status, blocks |-> blocks, current |-> current, cards |-> cards, erased |-> erased]
Failed(code) == [Now EXCEPT !.status = code]

-----------------------------------------------------------------------------
(* A collection *)

\* GetEmptyBlock: the lists with an empty block next to the current one.
GetEmptyBlock(list, i) ==
  LET next == NextBlock(list, i)
  IN  IF IsEmpty(list[next])
        THEN {[list |-> list, empty |-> next]}
        ELSE {[list |-> InsertAt(list, next, NewBlock(place, DefaultBlockSize, <<>>)), empty |-> next] :
                place \in Free(list)}

\* PrevBlock, n times.
Before(list, i, n) == IF n < i THEN i - n ELSE i - n + Len(list)

Objects(list) == UNION {{i} \X DOMAIN list[i].objects : i \in DOMAIN list}

\* Mutant of NextToFill: the ring is followed the other way.
OtherWay(list, fill) == NextBlock(list, fill)

\* emptyBlock = generation->Prev(emptyBlock)
NextToFill(list, fill) == PrevBlock(list, fill)

\* One survivor is given a place in the block that is being filled, or in the one
\* before it.  It is lost if that has no room either, or is still to be swept.
Keep(list, sweep, from) ==
  LET object == list[from[1]].objects[from[2]]
      fill   == IF HasRoom(sweep.list[sweep.fill], object.size) THEN sweep.fill ELSE NextToFill(list, sweep.fill)
      block  == sweep.list[fill]
      kept   == [block EXCEPT !.objects = Append(@, object)]
  IN  [list  |-> [sweep.list EXCEPT ![fill] = kept],
       fill  |-> fill,
       moves |-> sweep.moves \cup {<<Card(Header(list[from[1]], from[2])), Card(Header(kept, Len(kept.objects)))>>},
       lost  |-> sweep.lost \/ fill = from[1] \/ ~HasRoom(block, object.size)]

\* The sweep of the block i, from its top, after n objects were looked at.
SweptObjects(list, begun, i, survivors) ==
  LET count == Len(list[i].objects)
      swept[n \in 0 .. count] ==
        IF n = 0 THEN begun
        ELSE IF <<i, count + 1 - n>> \in survivors
          THEN Keep(list, swept[n - 1], <<i, count + 1 - n>>)
          ELSE swept[n - 1]
  IN  swept

SweepBlock(list, begun, i, survivors) ==
  SweptObjects(list, begun, i, survivors)[Len(list[i].objects)]

\* The sweep after n blocks, from the one before the empty block on.
SweptBlocks(list, empty, survivors) ==
  LET begun == [list |-> [i \in DOMAIN list |-> [list[i] EXCEPT !.objects = <<>>]],
                fill |-> empty, moves |-> {}, lost |-> FALSE]
      swept[n \in 0 .. Len(list) - 1] ==
        IF n = 0 THEN begun ELSE SweepBlock(list, swept[n - 1], Before(list, empty, n), survivors)
  IN  swept

\* Sweep, with the cards between which survivors were moved.
Sweep(list, empty, survivors) == SweptBlocks(list, empty, survivors)[Len(list) - 1]

\* Mutant of UpdateCardTable: the card of the new address is not marked.
KeepCardTable(moves) == {{}}

\* The cards that UpdateTables marks: those to which something moved from a dirty
\* card, one that it has just marked included, if it comes later in the hash table.
UpdateCardTable(moves) ==
  {marked \in SUBSET {move[2] : move \in moves} :
     /\ \A move \in moves : move[1] \in cards => move[2] \in marked
     /\ \A card \in marked : \E move \in moves : move[2] = card /\ move[1] \in cards \cup marked}

\* Mutant of Spared: off by one.
SparedOneMore(list) ==
  {i \in DOMAIN list :
     IsEmpty(list[i]) => Cardinality({j \in 1 .. i - 1 : IsEmpty(list[j])}) <= EmptyBlocks}

\* The blocks that DeleteEmptyBlocks leaves: the first that are empty are spared.
Spared(list) ==
  {i \in DOMAIN list :
     IsEmpty(list[i]) => Cardinality({j \in 1 .. i - 1 : IsEmpty(list[j])}) < EmptyBlocks}

\* Mutant of SetCurrentBlock: it is not called.
KeepCurrentBlock(old, sweep) == old

SetCurrentBlock(old, sweep) == sweep.fill

\* The sequence of those places of the list.
Sublist(list, places) ==
  [n \in 1 .. Cardinality(places) |->
     list[CHOOSE i \in places : Cardinality({j \in places : j < i}) = n - 1]]

\* MajorGC from Sweep on.  UpdateMinorPointerTable is given the table of the minor
\* collection, or null.
Collected(list, empty, survivors, hasPointerTable) ==
  LET sweep  == Sweep(list, empty, survivors)
      last   == SetCurrentBlock(PrevBlock(list, empty), sweep)
      spared == Spared(sweep.list)
  IN  IF sweep.lost THEN {Failed("lost")}
      ELSE IF survivors # {} /\ ~hasPointerTable THEN {Failed("no table")}
      ELSE {[status  |-> IF last \in spared THEN "running" ELSE "erased",
             blocks  |-> Sublist(sweep.list, spared),
             current |-> Cardinality({j \in spared : j <= last}),
             cards   |-> cards \cup marked,
             erased  |-> erased \/ spared # DOMAIN list] : marked \in UpdateCardTable(sweep.moves)}

\* GetEmptyBlock throws where there is no memory for a block.
MajorGC(hasPointerTable) ==
  IF GetEmptyBlock(blocks, current) = {}
    THEN {Failed("bad_alloc")}
    ELSE UNION {UNION {Collected(begun.list, begun.empty, survivors, hasPointerTable) :
                         survivors \in SUBSET Objects(begun.list)} :
                  begun \in GetEmptyBlock(blocks, current)}

-----------------------------------------------------------------------------
(* Allocation *)

\* It comes after the current one; where there is no memory for it, the caller
\* writes through a null pointer.
CreateNewBlock(result, object) ==
  LET size == IF object.size > DefaultBlockSize THEN object.size ELSE DefaultBlockSize
  IN  IF Free(result.blocks) = {}
        THEN {Failed("null")}
        ELSE {[result EXCEPT !.blocks = InsertAt(@, result.current + 1, NewBlock(place, size, <<object>>)),
                             !.current = @ + 1] : place \in Free(result.blocks)}

Allocate(result, object) ==
  IF HasRoom(result.blocks[result.current], object.size)
    THEN {[result EXCEPT !.blocks[result.current].objects = Append(@, object)]}
    ELSE CreateNewBlock(result, object)

AllocateOnOldGeneration(object, hasPointerTable) ==
  IF object.size > DefaultBlockSize
    THEN CreateNewBlock(Now, object)
  ELSE IF HasRoom(blocks[current], object.size)
    THEN Allocate(Now, object)
  ELSE UNION {IF result.status = "running" THEN Allocate(result, object) ELSE {result} :
                result \in MajorGC(hasPointerTable)}

Return(results) ==
  \E result \in results :
    /\ status' = result.status
    /\ blocks' = result.blocks
    /\ current' = result.current
    /\ cards' = result.cards
    /\ erased' = result.erased

\* The program allocates an object larger than a young block; no table of a minor
\* collection is at hand.
AllocateLarge ==
  /\ status = "running"
  /\ \E size \in {s \in Sizes : s > YoungBlockSize} :
       Return(AllocateOnOldGeneration([size |-> size, remembered |-> FALSE], FALSE))

\* MakeDirty of an object that was allocated now, and lies on top of its block.
MakeDirty(result) ==
  LET block == result.blocks[result.current]
  IN  IF result.status = "running" /\ Last(block.objects).remembered
        THEN [result EXCEPT !.cards = @ \cup {Card(Header(block, Len(block.objects)))}]
        ELSE result

\* Where CheckCardTable looks for the block of a card: at the card's first byte.
BlocksOf(card) == FindBlock(blocks, card * CardSize)

\* A minor collection, as far as it concerns the old generation: CheckCardTable
\* takes the end of the list for the block of a card that is found in none, and a
\* survivor is promoted, with pointers to young objects or without.
MinorGC ==
  /\ status = "running"
  /\ IF \E card \in cards : BlocksOf(card) = {}
       THEN Return({Failed("end")})
       ELSE \E size \in {s \in Sizes : s <= YoungBlockSize}, remembered \in BOOLEAN :
              Return({MakeDirty(result) : result \in
                        AllocateOnOldGeneration([size |-> size, remembered |-> remembered], TRUE)})

Stopped == status # "running" /\ UNCHANGED vars

Next == AllocateLarge \/ MinorGC \/ Stopped

Spec == Init /\ [][Next]_vars

-----------------------------------------------------------------------------
(* Properties *)

\* The variables stay in their types: blocks do not overlap and are not filled beyond
\* their sizes.
TypeOK ==
  /\ \A i \in DOMAIN blocks :
       /\ blocks[i].begin \in Places /\ Used(blocks[i]) <= blocks[i].size
       /\ \A j \in DOMAIN blocks : blocks[i].begin = blocks[j].begin => i = j
  /\ status # "erased" => current \in DOMAIN blocks
  /\ \A card \in cards : card \in Nat
  /\ erased \in BOOLEAN
  /\ status \in {"running"} \cup Failures

\* The block that m_CurrentBlock designates is erased by no collection that anything
\* survives: the block filled last is not empty, wherever it is in the list.
CurrentSurvives == status = "erased" => \A i \in DOMAIN blocks : IsEmpty(blocks[i])

\* Survivors find room in the block that is filled or in the one before it, and that
\* one was swept before, in whatever order the list has grown: unless some block, and
\* with it an object, is larger than the others.
NothingLost == status = "lost" => \E i \in DOMAIN blocks : blocks[i].size > DefaultBlockSize

\* A block that is empty is never allocated from, except as the one that the next
\* collection fills first; but collections leave only so many.
EmptiesBounded ==
  status = "running" => Cardinality({i \in DOMAIN blocks : IsEmpty(blocks[i])}) <= EmptyBlocks

\* An object that is to be remembered keeps a dirty card through all collections that
\* move it, and the next minor collection finds its block there; but not where the
\* card begins before the block does.
RememberedIsFound ==
  \A i \in DOMAIN blocks : \A j \in DOMAIN blocks[i].objects :
    LET card == Card(Header(blocks[i], j))
    IN  blocks[i].objects[j].remembered =>
          /\ card \in cards
          /\ card * CardSize >= blocks[i].begin => BlocksOf(card) = {i}

\* CheckCardTable finds a block for every card, as long as no block was erased, where
\* blocks begin with cards.
CardsHaveBlocks ==
  ~erased => \A card \in cards :
    BlocksOf(card) # {} \/ \E i \in DOMAIN blocks : Card(blocks[i].begin) = card /\ blocks[i].begin % CardSize # 0
=============================================================================
