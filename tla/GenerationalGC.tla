---------------------------- MODULE GenerationalGC ----------------------------
(***************************************************************************)
(* What SimpleGarbageCollector keeps: objects, the pointers between them,  *)
(* the two generations, ages, the card table, and both collections.        *)
(*                                                                         *)
(* An object keeps its name when it is moved.  A pointer that a collection *)
(* does not rewrite although its object was moved or freed is Dangling.    *)
(* Whether a block has room is any choice, so a collection may happen at   *)
(* every allocation that tests for room.  How the blocks are swept is the  *)
(* subject of the module Sweep.                                            *)
(*                                                                         *)
(* The mutator is any sequence of instructions that load, store and create *)
(* GCPointers; what is on the operand stack between them is left out.      *)
(***************************************************************************)
EXTENDS Naturals, FiniteSets

CONSTANTS
  Objects,       \* a bound: at most so many are live when one is allocated
  Fields,        \* of the objects, each a GCPointer
  Locals,        \* the local variables, each a GCPointer
  PromotionAge,  \* 32
  Null,
  Dangling       \* a pointer to what is no longer the object

ASSUME GCAssumption ==
  /\ PromotionAge \in Nat \ {0}
  /\ Null \notin Objects /\ Dangling \notin Objects /\ Null # Dangling

VARIABLES
  gen,     \* the generation of each object; "free" when there is none
  kind,    \* "structure" if the pointers are fields of the object's structure,
           \* "aggregate" if elements of an array or fields of an inner structure
  age,     \* ManagedHeapInfo::Age of young objects
  fields,  \* the pointers in each object
  locals,  \* the pointers in the local variables
  dirty,   \* the old objects whose card in m_CardTable is dirty
  phase,   \* "run", after a collection by "minor" or "major", or "broken"
  causes   \* a history: what has happened that may break a pointer

vars == <<gen, kind, age, fields, locals, dirty, phase, causes>>

Pointers == Objects \cup {Null, Dangling}
Live  == {o \in Objects : gen[o] # "free"}
Young == {o \in Objects : gen[o] = "young"}
Old   == {o \in Objects : gen[o] = "old"}

Designated == {locals[l] : l \in Locals}
Targets(S) == {fields[o][f] : o \in S, f \in Fields}

NoPointers == [f \in Fields |-> Null]

Init ==
  /\ gen = [o \in Objects |-> "free"]
  /\ kind = [o \in Objects |-> "structure"]
  /\ age = [o \in Objects |-> 0]
  /\ fields = [o \in Objects |-> NoPointers]
  /\ locals = [l \in Locals |-> Null]
  /\ dirty = {}
  /\ phase = "run"
  /\ causes = {}

-----------------------------------------------------------------------------
(* The mutator *)

\* store, or the end of the variable.
Store ==
  /\ phase = "run"
  /\ \E l \in Locals, p \in Designated \cup {Null} : locals' = [locals EXCEPT ![l] = p]
  /\ UNCHANGED <<gen, kind, age, fields, dirty, phase, causes>>

\* flea or alea, tload and store.
TLoad ==
  /\ phase = "run"
  /\ \E l \in Locals, o \in Designated \cap Objects, f \in Fields :
       locals' = [locals EXCEPT ![l] = fields[o][f]]
  /\ UNCHANGED <<gen, kind, age, fields, dirty, phase, causes>>

\* DRefAndAssign<GCPointerObject>: no card is marked.
TStore ==
  /\ phase = "run"
  /\ \E o \in Designated \cap Objects, f \in Fields, p \in Designated \cup {Null} :
       /\ fields' = [fields EXCEPT ![o][f] = p]
       /\ causes' = causes \cup IF o \in Old \ dirty /\ p \in Young THEN {"store"} ELSE {}
  /\ UNCHANGED <<gen, kind, age, locals, dirty, phase>>

\* The new object, all of whose pointers are null, is stored in a local variable.
Create(generation) ==
  /\ \E o \in Objects \ Live, k \in {"structure", "aggregate"}, l \in Locals :
       /\ gen' = [gen EXCEPT ![o] = generation]
       /\ kind' = [kind EXCEPT ![o] = k]
       /\ locals' = [locals EXCEPT ![l] = o]
  /\ phase' = "run"
  /\ UNCHANGED <<age, fields, dirty, causes>>

\* There was room, or the minor collection is over.
AllocateOnYoungGeneration == phase \in {"run", "minor"} /\ Create("young")

\* There was room, or the object is larger than a block, or the major collection
\* is over.
AllocateOnOldGeneration == phase \in {"run", "major"} /\ Create("old")

-----------------------------------------------------------------------------
(* Marking *)

\* Mutant of Marked: MarkGCObjects is missing.
MarkedByRoots(generation, scanned) == (Designated \cup Targets(scanned)) \cap generation

\* The objects of a generation that are marked from the local variables and from
\* the scanned objects of the other generation: the least set that contains what
\* these and its own objects point to.
Marked(generation, scanned) ==
  {o \in generation :
     \A S \in SUBSET generation :
       (Designated \cup Targets(scanned \cup S)) \cap generation \subseteq S => o \in S}

\* CheckCardTable looks at every object of the old generation whose header lies in
\* a dirty card: the objects that were remembered and any that share their cards.
\* That it finds their blocks is the subject of the module Generation.
Scannable == {S \in SUBSET Old : dirty \subseteq S}

\* CheckYoungGeneration looks at young objects whose own cards are dirty, but only
\* cards of old objects are ever marked.  Cards stay dirty when their block is erased:
\* where a young block lies there later, more is looked at, and kept, than here.
ScannedByMajor == {}

-----------------------------------------------------------------------------
(* Collections *)

\* Mutant of Promoted: the age is compared before it is increased.
PromotedLate(marked) == {o \in marked : age[o] = PromotionAge}

\* The marked young objects that become old.
Promoted(marked) == {o \in marked : age[o] + 1 = PromotionAge}

\* A pointer to an object of a generation that was collected.
Stale(pointer, generation) == IF pointer \in generation THEN Dangling ELSE pointer

\* Mutants of UpdateCardTable: no promoted object is remembered; only those that
\* point to promoted objects are.
NoCardTable(marked) == {}
CardTableOfPromoted(marked) ==
  {o \in Promoted(marked) : kind[o] = "structure" /\ Targets({o}) \cap Promoted(marked) # {}}

\* The promoted objects to remember: those that point to objects that stay young,
\* as far as the fields of their structures tell.
UpdateCardTable(marked) ==
  {o \in Promoted(marked) :
     kind[o] = "structure" /\ Targets({o}) \cap (marked \ Promoted(marked)) # {}}

\* History: an array, or a structure with the pointer in an inner one, is promoted
\* with a pointer to an object that stays young.
Aggregate(marked) ==
  IF \E o \in Promoted(marked) :
       kind[o] = "aggregate" /\ Targets({o}) \cap (marked \ Promoted(marked)) # {}
    THEN {"aggregate"} ELSE {}

\* Marking, sweeping and moving the young generation.  The pointers that marking
\* met are rewritten: those in local variables, in scanned and in marked objects.
MinorGC ==
  /\ phase = "run"
  /\ \E scanned \in Scannable :
       LET marked == Marked(Young, scanned)
           freed  == Young \ marked
       IN  /\ gen' = [o \in Objects |-> IF o \in freed THEN "free"
                                        ELSE IF o \in Promoted(marked) THEN "old"
                                        ELSE gen[o]]
           /\ age' = [o \in Objects |-> IF o \in marked \ Promoted(marked) THEN age[o] + 1 ELSE 0]
           /\ fields' = [o \in Objects |->
                IF o \in freed THEN NoPointers
                ELSE IF o \in Old \ scanned
                  THEN [f \in Fields |-> Stale(fields[o][f], Young)]
                ELSE fields[o]]
           /\ dirty' = dirty \cup UpdateCardTable(marked)
           /\ causes' = causes \cup Aggregate(marked)
  /\ phase' = "minor" /\ Live' # Objects
  /\ UNCHANGED <<kind, locals>>

\* A major collection for an object that is allocated in the old generation, with
\* no pointer table of a minor collection: UpdateMinorPointerTable dereferences
\* the null pointer as soon as an object was marked.  Pointers in young objects
\* are not rewritten.
MajorGC ==
  /\ phase = "run"
  /\ LET marked == Marked(Old, ScannedByMajor)
     IN  IF marked # {}
           THEN phase' = "broken" /\ UNCHANGED <<gen, fields, dirty>>
           ELSE /\ phase' = "major"
                /\ gen' = [o \in Objects |-> IF o \in Old THEN "free" ELSE gen[o]]
                /\ Live' # Objects
                /\ fields' = [o \in Objects |->
                     IF o \in Old THEN NoPointers
                     ELSE [f \in Fields |-> Stale(fields[o][f], Old)]]
                /\ dirty' = {}
  /\ causes' = causes \cup {"major"}
  /\ UNCHANGED <<kind, age, locals>>

\* The first survivor of a minor collection is promoted, and its allocation starts
\* a major collection, which moves the old objects and what the minor collection
\* knows about pointers in them.
MinorGCWithMajorGC ==
  /\ phase = "run"
  /\ \E scanned \in Scannable :
       LET marked == Marked(Young, scanned)
           kept   == Marked(Old, ScannedByMajor)
           freed  == (Young \ marked) \cup (Old \ kept)
       IN  /\ Promoted(marked) # {}
           /\ {o \in scanned : Targets({o}) \cap Young # {}} \subseteq kept
           /\ gen' = [o \in Objects |-> IF o \in freed THEN "free"
                                        ELSE IF o \in Promoted(marked) THEN "old"
                                        ELSE gen[o]]
           /\ age' = [o \in Objects |-> IF o \in marked \ Promoted(marked) THEN age[o] + 1 ELSE 0]
           /\ fields' = [o \in Objects |->
                IF o \in freed THEN NoPointers
                ELSE IF o \in Young THEN [f \in Fields |-> Stale(fields[o][f], Old)]
                ELSE IF o \in Old \ scanned
                  THEN [f \in Fields |-> Stale(fields[o][f], Young)]
                ELSE fields[o]]
           /\ dirty' = (dirty \cap kept) \cup UpdateCardTable(marked)
           /\ causes' = causes \cup {"major"} \cup Aggregate(marked)
  /\ phase' = "minor" /\ Live' # Objects
  /\ UNCHANGED <<kind, locals>>

\* The major collection starts after another survivor was given a place: it walks
\* over a header that is not there yet.  Or it moves old objects in which the
\* minor collection is to rewrite pointers, and takes their sizes from where they
\* were, or frees them.
MajorGCMisreads ==
  /\ phase = "run"
  /\ \E scanned \in Scannable :
       LET marked == Marked(Young, scanned)
       IN  /\ Promoted(marked) # {}
           /\ Cardinality(marked) > 1 \/ Targets(scanned) \cap Young # {}
  /\ phase' = "broken"
  /\ causes' = causes \cup {"major"}
  /\ UNCHANGED <<gen, kind, age, fields, locals, dirty>>

\* Marking follows a pointer to what is no longer an object: in a minor collection, or
\* in the major collection that the promotions in it start.
MarkMisreads ==
  /\ phase = "run"
  /\ \E scanned \in Scannable :
       LET marked == Marked(Young, scanned)
       IN  \/ Dangling \in Designated \cup Targets(scanned \cup marked)
           \/ Promoted(marked) # {} /\ Dangling \in Targets(Marked(Old, ScannedByMajor))
  /\ phase' = "broken"
  /\ UNCHANGED <<gen, kind, age, fields, locals, dirty, causes>>

Stopped == phase = "broken" /\ UNCHANGED vars

Next ==
  \/ Store \/ TLoad \/ TStore
  \/ AllocateOnYoungGeneration \/ AllocateOnOldGeneration
  \/ MinorGC \/ MajorGC \/ MinorGCWithMajorGC
  \/ MajorGCMisreads \/ MarkMisreads
  \/ Stopped

Spec == Init /\ [][Next]_vars

-----------------------------------------------------------------------------
(* Properties *)

\* The variables stay in their types; what is free holds no pointers, and only old
\* objects are remembered.
TypeOK ==
  /\ gen \in [Objects -> {"free", "young", "old"}]
  /\ kind \in [Objects -> {"structure", "aggregate"}]
  /\ age \in [Objects -> 0 .. PromotionAge - 1]
  /\ fields \in [Objects -> [Fields -> Pointers]]
  /\ locals \in [Locals -> Pointers]
  /\ dirty \subseteq Old
  /\ phase \in {"run", "minor", "major", "broken"}
  /\ causes \subseteq {"store", "aggregate", "major"}
  /\ \A o \in Objects \ Live : fields[o] = NoPointers
  /\ (Designated \cup Targets(Live)) \cap Objects \subseteq Live

\* The least set of objects that contains what local variables and its own objects
\* point to.
Reachable == {o \in Live : \A S \in SUBSET Live :
                (Designated \cup Targets(S)) \cap Objects \subseteq S => o \in S}

\* Whatever the program can reach is where its pointer says.
Intact == phase # "broken" /\ Dangling \notin Designated \cup Targets(Reachable)

\* Nothing that is reachable is lost, as long as no pointer to a young object was
\* stored into an old one, none was promoted in an array or in an inner structure,
\* and no major collection ran: minor collections alone, with the card table that
\* promotion maintains, lose nothing.
MinorCollectionsSafe == causes = {} => Intact

\* Until then the card table remembers every old object that points to young ones,
\* though the young are promoted and the old are not scanned between collections.
Remembered == causes = {} => \A o \in Old \ dirty : Targets({o}) \cap Young = {}

\* The program may store what pointers it likes where it likes.
StoresSafe == causes \subseteq {"store"} => Intact

\* The old generation may be collected.
MajorCollectionsSafe == causes \subseteq {"major"} => Intact

\* The objects of a generation that the local variables reach through its objects.
Within(generation) ==
  {o \in generation : \A S \in SUBSET generation :
     (Designated \cup Targets(S)) \cap generation \subseteq S => o \in S}

\* No collection, after whatever has gone wrong between the generations, frees an
\* object that is reachable within its generation, or loses a pointer on the way.
GenerationsSurvive ==
  [][\A generation \in {Young, Old} :
       phase = "run" /\ phase' \in {"minor", "major"} =>
         \A o \in Within(generation) :
           /\ o \in Live'
           /\ \A f \in Fields : fields[o][f] \in generation => fields'[o][f] = fields[o][f]
    ]_vars
=============================================================================
