------------------------ MODULE GenerationalGC_proofs ------------------------
(***************************************************************************)
(* What minor collections keep, for any number of objects, fields and      *)
(* local variables and any age of promotion.                               *)
(***************************************************************************)
EXTENDS GenerationalGC, TLAPS

(* Marking *)

\* What is marked is closed: it contains whatever of its generation the local
\* variables, the scanned objects and the marked objects point to.
LEMMA MarkedClosed ==
  ASSUME NEW generation, NEW scanned
  PROVE  /\ Marked(generation, scanned) \subseteq generation
         /\ (Designated \cup Targets(scanned \cup Marked(generation, scanned))) \cap generation
              \subseteq Marked(generation, scanned)
<1> DEFINE marked == Marked(generation, scanned)
           Closed(S) == (Designated \cup Targets(scanned \cup S)) \cap generation \subseteq S
<1>1. marked \subseteq generation
  BY DEF Marked
<1>2. ASSUME NEW o \in (Designated \cup Targets(scanned \cup marked)) \cap generation
      PROVE  o \in marked
  <2> SUFFICES ASSUME NEW S \in SUBSET generation, Closed(S) PROVE o \in S
    BY DEF Marked
  <2>1. marked \subseteq S
    BY DEF Marked
  <2>2. Targets(scanned \cup marked) \subseteq Targets(scanned \cup S)
    BY <2>1 DEF Targets
  <2> QED BY <2>2
<1> QED BY <1>1, <1>2

\* What a generation reaches by itself is marked, whatever else is scanned.
LEMMA WithinMarked ==
  ASSUME NEW generation, NEW scanned
  PROVE  Within(generation) \subseteq Marked(generation, scanned)
<1> DEFINE marked == Marked(generation, scanned)
<1>1. Targets(marked) \subseteq Targets(scanned \cup marked)
  BY DEF Targets
<1>2. /\ marked \in SUBSET generation
      /\ (Designated \cup Targets(marked)) \cap generation \subseteq marked
  BY <1>1, MarkedClosed
<1> QED BY <1>2 DEF Within

LEMMA GenerationFacts ==
  ASSUME TypeOK
  PROVE  /\ Live = Young \cup Old /\ Young \cap Old = {}
         /\ Young \subseteq Objects /\ Old \subseteq Objects
BY DEF TypeOK, Live, Young, Old

LEMMA TargetFacts ==
  ASSUME TypeOK, NEW o \in Live, NEW f \in Fields
  PROVE  fields[o][f] \in Young \cup Old \cup {Null, Dangling}
<1>1. fields[o][f] \in Pointers /\ fields[o][f] \in Targets(Live)
  BY DEF TypeOK, Live, Targets
<1> QED BY <1>1, GenerationFacts DEF TypeOK, Pointers

-----------------------------------------------------------------------------
(* Types *)

LEMMA StoreType == TypeOK /\ (Store \/ TLoad) => TypeOK'
<1> SUFFICES ASSUME TypeOK, Store \/ TLoad PROVE TypeOK'
  OBVIOUS
<1>1. UNCHANGED <<gen, kind, age, fields, dirty, phase, causes>>
  BY DEF Store, TLoad
<1>2. PICK l \in Locals, p \in Designated \cup Targets(Live) \cup {Null} :
        locals' = [locals EXCEPT ![l] = p]
  <2>1. CASE Store
    BY <2>1 DEF Store
  <2>2. CASE TLoad
    <3>1. PICK l \in Locals, o \in Designated \cap Objects, f \in Fields :
            locals' = [locals EXCEPT ![l] = fields[o][f]]
      BY <2>2 DEF TLoad
    <3>2. fields[o][f] \in Targets(Live)
      BY <3>1 DEF TypeOK, Targets
    <3> QED BY <3>1, <3>2
  <2> QED BY <2>1, <2>2
<1>3. p \in Pointers
  BY <1>2 DEF TypeOK, Pointers, Designated, Targets, Live
<1>4. Designated' \subseteq Designated \cup {p}
  BY <1>2 DEF Designated, TypeOK
<1>5. Live' = Live /\ Old' = Old /\ Targets(Live)' = Targets(Live)
  BY <1>1 DEF Live, Old, Targets
<1>6. (Designated' \cup Targets(Live)') \cap Objects \subseteq Live'
  BY <1>2, <1>4, <1>5, GCAssumption DEF TypeOK
<1> QED BY <1>1, <1>2, <1>3, <1>5, <1>6 DEF TypeOK

LEMMA TStoreType == TypeOK /\ TStore => TypeOK'
<1> SUFFICES ASSUME TypeOK, TStore PROVE TypeOK'
  OBVIOUS
<1>1. UNCHANGED <<gen, kind, age, locals, dirty, phase>>
  BY DEF TStore
<1>2. PICK o \in Designated \cap Objects, f \in Fields, p \in Designated \cup {Null} :
        /\ fields' = [fields EXCEPT ![o][f] = p]
        /\ causes' = causes \cup IF o \in Old \ dirty /\ p \in Young THEN {"store"} ELSE {}
  BY DEF TStore
<1>3. p \in Pointers /\ o \in Live
  BY DEF TypeOK, Pointers, Designated
<1>4. fields' \in [Objects -> [Fields -> Pointers]] /\ causes' \subseteq {"store", "aggregate", "major"}
  BY <1>2, <1>3 DEF TypeOK
<1>5. Live' = Live /\ Old' = Old /\ Designated' = Designated
  BY <1>1 DEF Live, Old, Designated
<1>6. Targets(Live)' \subseteq Targets(Live) \cup {p}
  BY <1>2, <1>5 DEF Targets, TypeOK, Live
<1>7. \A a \in Objects \ Live : fields'[a] = NoPointers
  BY <1>2, <1>3 DEF TypeOK
<1>8. (Designated' \cup Targets(Live)') \cap Objects \subseteq Live'
  BY <1>5, <1>6, GCAssumption DEF TypeOK
<1> QED BY <1>1, <1>4, <1>5, <1>7, <1>8 DEF TypeOK

LEMMA CreateType ==
  TypeOK /\ (AllocateOnYoungGeneration \/ AllocateOnOldGeneration) => TypeOK'
<1> SUFFICES ASSUME TypeOK, NEW generation \in {"young", "old"}, Create(generation)
             PROVE  TypeOK'
  BY DEF AllocateOnYoungGeneration, AllocateOnOldGeneration
<1>1. phase' = "run" /\ UNCHANGED <<age, fields, dirty, causes>>
  BY DEF Create
<1>2. PICK o \in Objects \ Live, k \in {"structure", "aggregate"}, l \in Locals :
        /\ gen' = [gen EXCEPT ![o] = generation]
        /\ kind' = [kind EXCEPT ![o] = k]
        /\ locals' = [locals EXCEPT ![l] = o]
  BY DEF Create
<1>3. Live' = Live \cup {o} /\ Old \subseteq Old'
  BY <1>2 DEF TypeOK, Live, Old
<1>4. Designated' \subseteq Designated \cup {o}
  BY <1>2 DEF Designated, TypeOK
<1>5. Targets(Live)' \subseteq Targets(Live) \cup {Null}
  <2>1. fields[o] = NoPointers
    BY <1>2 DEF TypeOK
  <2> QED BY <1>1, <1>3, <2>1 DEF Targets, NoPointers
<1>6. /\ gen' \in [Objects -> {"free", "young", "old"}]
      /\ kind' \in [Objects -> {"structure", "aggregate"}]
      /\ locals' \in [Locals -> Pointers]
  BY <1>2 DEF TypeOK, Pointers
<1>7. (Designated' \cup Targets(Live)') \cap Objects \subseteq Live'
  BY <1>3, <1>4, <1>5, GCAssumption DEF TypeOK
<1> QED BY <1>1, <1>3, <1>6, <1>7 DEF TypeOK

\* A minor collection marks young objects, whatever the local variables designate
\* among them, and what the scanned and the marked objects point to.
LEMMA MinorFacts ==
  ASSUME TypeOK, NEW scanned \in Scannable
  PROVE  /\ scanned \subseteq Old /\ dirty \subseteq scanned
         /\ Marked(Young, scanned) \subseteq Young
         /\ Designated \cap Young \subseteq Marked(Young, scanned)
         /\ \A o \in scanned \cup Marked(Young, scanned), f \in Fields :
              fields[o][f] \in Young => fields[o][f] \in Marked(Young, scanned)
         /\ Promoted(Marked(Young, scanned)) \subseteq Marked(Young, scanned)
         /\ UpdateCardTable(Marked(Young, scanned)) \subseteq Promoted(Marked(Young, scanned))
<1>1. scanned \subseteq Old /\ dirty \subseteq scanned
  BY DEF Scannable
<1>2. \A o \in scanned \cup Marked(Young, scanned), f \in Fields :
        fields[o][f] \in Targets(scanned \cup Marked(Young, scanned))
  BY DEF Targets
<1>3. /\ Promoted(Marked(Young, scanned)) \subseteq Marked(Young, scanned)
      /\ UpdateCardTable(Marked(Young, scanned)) \subseteq Promoted(Marked(Young, scanned))
  BY DEF Promoted, UpdateCardTable
<1> QED BY <1>1, <1>2, <1>3, MarkedClosed

\* What every kind of collection that ends owes: survivors among the live objects,
\* to which all pointers that are left lead.
LEMMA SurvivorsType ==
  ASSUME TypeOK, NEW kept \in SUBSET Live, Live' = kept, locals' = locals,
         Designated \cap Objects \subseteq kept,
         fields' \in [Objects -> [Fields -> Pointers]],
         \A o \in Objects \ kept : fields'[o] = NoPointers,
         \A o \in kept, f \in Fields : fields'[o][f] \in Objects => fields'[o][f] \in kept
  PROVE  /\ \A o \in Objects \ Live' : fields'[o] = NoPointers
         /\ (Designated' \cup Targets(Live)') \cap Objects \subseteq Live'
<1>1. Designated' = Designated
  BY DEF Designated
<1>2. Targets(Live)' \cap Objects \subseteq kept
  BY DEF Targets
<1> QED BY <1>1, <1>2

\* What minor collections do, with or without a major one: kept is what is left of
\* the old generation.
Collected(scanned, kept) ==
  LET marked == Marked(Young, scanned)
  IN  /\ Designated \cap Old \subseteq kept
      /\ gen' = [o \in Objects |-> IF o \in marked \ Promoted(marked) THEN "young"
                                   ELSE IF o \in Promoted(marked) \cup kept THEN "old"
                                   ELSE "free"]
      /\ age' = [o \in Objects |-> IF o \in marked \ Promoted(marked) THEN age[o] + 1 ELSE 0]
      /\ fields' \in [Objects -> [Fields -> Pointers]]
      /\ \A o \in Objects \ (marked \cup kept) : fields'[o] = NoPointers
      /\ \A o \in marked \cup kept, f \in Fields :
           \/ fields'[o][f] = Dangling
           \/ /\ fields'[o][f] = fields[o][f]
              /\ fields[o][f] \in Objects => fields[o][f] \in marked \cup kept
      /\ dirty' = (dirty \cap kept) \cup UpdateCardTable(marked)
      /\ causes' \subseteq causes \cup {"major", "aggregate"}
      /\ phase' = "minor" /\ UNCHANGED <<kind, locals>>

\* What only a minor collection without a major one does: the pointers that marking
\* did not meet in old objects are the only ones that break.
Rewritten(scanned) ==
  LET marked == Marked(Young, scanned)
  IN  /\ \A o \in marked \cup scanned, f \in Fields : fields'[o][f] = fields[o][f]
      /\ \A o \in Old \ scanned, f \in Fields : fields'[o][f] = Stale(fields[o][f], Young)
      /\ causes' = causes \cup Aggregate(marked)

LEMMA MinorOutcome ==
  ASSUME TypeOK, MinorGC
  PROVE  \E scanned \in Scannable : Collected(scanned, Old) /\ Rewritten(scanned)
<1>1. PICK scanned \in Scannable :
        LET marked == Marked(Young, scanned)
            freed  == Young \ marked
        IN  /\ gen' = [o \in Objects |-> IF o \in freed THEN "free"
                                         ELSE IF o \in Promoted(marked) THEN "old"
                                         ELSE gen[o]]
            /\ age' = [o \in Objects |-> IF o \in marked \ Promoted(marked) THEN age[o] + 1 ELSE 0]
            /\ fields' = [o \in Objects |->
                 IF o \in freed THEN NoPointers
                 ELSE IF o \in Old \ scanned
                   THEN [f \in Fields |-> Stale(fields[o][f], Young)]
                 ELSE fields[o]]
            /\ dirty' = dirty \cup UpdateCardTable(marked)
            /\ causes' = causes \cup Aggregate(marked)
  BY DEF MinorGC
<1> DEFINE marked == Marked(Young, scanned)
<1>2. gen' = [o \in Objects |-> IF o \in marked \ Promoted(marked) THEN "young"
                                ELSE IF o \in Promoted(marked) \cup Old THEN "old"
                                ELSE "free"]
  <2> SUFFICES ASSUME NEW o \in Objects
               PROVE  gen'[o] = IF o \in marked \ Promoted(marked) THEN "young"
                                ELSE IF o \in Promoted(marked) \cup Old THEN "old"
                                ELSE "free"
    BY <1>1
  <2>1. gen'[o] = IF o \in Young \ marked THEN "free"
                  ELSE IF o \in Promoted(marked) THEN "old" ELSE gen[o]
    BY <1>1
  <2>2. marked \subseteq Young /\ Promoted(marked) \subseteq marked
    BY MinorFacts
  <2> QED BY <2>1, <2>2 DEF TypeOK, Young, Old
<1>3. \A o \in Objects \ (marked \cup Old) : fields'[o] = NoPointers
  BY <1>1, GenerationFacts DEF TypeOK
<1>4. ASSUME NEW o \in marked \cup Old, NEW f \in Fields
      PROVE  fields'[o][f] = IF o \in Old \ scanned THEN Stale(fields[o][f], Young)
                                                    ELSE fields[o][f]
  BY <1>1, MinorFacts, GenerationFacts DEF TypeOK
<1>5. fields' \in [Objects -> [Fields -> Pointers]]
  BY <1>1 DEF TypeOK, Stale, Pointers, NoPointers
<1>6. ASSUME NEW o \in marked \cup Old, NEW f \in Fields, fields'[o][f] # Dangling
      PROVE  /\ fields'[o][f] = fields[o][f]
             /\ fields[o][f] \in Objects => fields[o][f] \in marked \cup Old
  <2>1. o \in Live
    BY MinorFacts, GenerationFacts
  <2>2. fields[o][f] \in Young \cup Old \cup {Null, Dangling}
    BY <2>1, TargetFacts
  <2>3. fields[o][f] \in Young => fields[o][f] \in marked
    BY <1>4, <1>6, MinorFacts DEF Stale
  <2>4. fields'[o][f] = fields[o][f]
    BY <1>4, <1>6 DEF Stale
  <2> QED BY <2>2, <2>3, <2>4, GCAssumption
<1>7. dirty' = (dirty \cap Old) \cup UpdateCardTable(marked)
  BY <1>1 DEF TypeOK
<1>8. causes' = causes \cup Aggregate(marked) /\ Aggregate(marked) \subseteq {"aggregate"}
  BY <1>1 DEF Aggregate
<1>9. /\ phase' = "minor" /\ UNCHANGED <<kind, locals>>
      /\ age' = [o \in Objects |-> IF o \in marked \ Promoted(marked) THEN age[o] + 1 ELSE 0]
  BY <1>1 DEF MinorGC
<1>10. Collected(scanned, Old)
  <2>1. \A o \in marked \cup Old, f \in Fields :
           \/ fields'[o][f] = Dangling
           \/ /\ fields'[o][f] = fields[o][f]
              /\ fields[o][f] \in Objects => fields[o][f] \in marked \cup Old
    BY <1>6
  <2> QED BY <1>2, <1>3, <1>5, <1>7, <1>8, <1>9, <2>1 DEF Collected
<1>11. Rewritten(scanned)
  <2>1. \A o \in marked \cup scanned, f \in Fields : fields'[o][f] = fields[o][f]
    BY <1>4, MinorFacts, GenerationFacts
  <2>2. \A o \in Old \ scanned, f \in Fields : fields'[o][f] = Stale(fields[o][f], Young)
    BY <1>4
  <2> QED BY <1>8, <2>1, <2>2 DEF Rewritten
<1> QED BY <1>10, <1>11

LEMMA MinorWithMajorOutcome ==
  ASSUME TypeOK, MinorGCWithMajorGC
  PROVE  /\ \E scanned \in Scannable, kept \in SUBSET Old : Collected(scanned, kept)
         /\ "major" \in causes'
<1>1. PICK scanned \in Scannable :
        LET marked == Marked(Young, scanned)
            kept   == Marked(Old, ScannedByMajor)
            freed  == (Young \ marked) \cup (Old \ kept)
        IN  /\ gen' = [o \in Objects |-> IF o \in freed THEN "free"
                                         ELSE IF o \in Promoted(marked) THEN "old"
                                         ELSE gen[o]]
            /\ age' = [o \in Objects |-> IF o \in marked \ Promoted(marked) THEN age[o] + 1 ELSE 0]
            /\ fields' = [o \in Objects |->
                 IF o \in freed THEN NoPointers
                 ELSE IF o \in Young THEN [f \in Fields |-> Stale(fields[o][f], Old)]
                 ELSE IF o \in Old \ scanned
                   THEN [f \in Fields |-> Stale(fields[o][f], Young)]
                 ELSE fields[o]]
            /\ dirty' = (dirty \cap kept) \cup UpdateCardTable(marked)
            /\ causes' = causes \cup {"major"} \cup Aggregate(marked)
  BY DEF MinorGCWithMajorGC
<1> DEFINE marked == Marked(Young, scanned)
           kept   == Marked(Old, ScannedByMajor)
<1>2. /\ kept \subseteq Old /\ Designated \cap Old \subseteq kept
      /\ \A o \in kept, f \in Fields : fields[o][f] \in Old => fields[o][f] \in kept
  <2>1. \A o \in kept, f \in Fields : fields[o][f] \in Targets(ScannedByMajor \cup kept)
    BY DEF Targets
  <2> QED BY <2>1, MarkedClosed
<1>3. gen' = [o \in Objects |-> IF o \in marked \ Promoted(marked) THEN "young"
                                ELSE IF o \in Promoted(marked) \cup kept THEN "old"
                                ELSE "free"]
  <2> SUFFICES ASSUME NEW o \in Objects
               PROVE  gen'[o] = IF o \in marked \ Promoted(marked) THEN "young"
                                ELSE IF o \in Promoted(marked) \cup kept THEN "old"
                                ELSE "free"
    BY <1>1
  <2>1. gen'[o] = IF o \in (Young \ marked) \cup (Old \ kept) THEN "free"
                  ELSE IF o \in Promoted(marked) THEN "old" ELSE gen[o]
    BY <1>1
  <2>2. marked \subseteq Young /\ Promoted(marked) \subseteq marked
    BY MinorFacts
  <2> QED BY <1>2, <2>1, <2>2 DEF TypeOK, Young, Old
<1>4. \A o \in Objects \ (marked \cup kept) : fields'[o] = NoPointers
  BY <1>1, GenerationFacts DEF TypeOK
<1>5. fields' \in [Objects -> [Fields -> Pointers]]
  BY <1>1 DEF TypeOK, Stale, Pointers, NoPointers
<1>6. ASSUME NEW o \in marked \cup kept, NEW f \in Fields, fields'[o][f] # Dangling
      PROVE  /\ fields'[o][f] = fields[o][f]
             /\ fields[o][f] \in Objects => fields[o][f] \in marked \cup kept
  <2>1. o \in Live /\ o \in Objects
    BY <1>2, MinorFacts, GenerationFacts
  <2>2. fields[o][f] \in Young \cup Old \cup {Null, Dangling}
    BY <2>1, TargetFacts
  <2>3. CASE o \in marked
    <3>1. o \in Young /\ o \notin (Young \ marked) \cup (Old \ kept)
      BY <2>3, MinorFacts, GenerationFacts
    <3>2. fields'[o] = [g \in Fields |-> Stale(fields[o][g], Old)]
      BY <1>1, <2>1, <3>1
    <3>3. fields'[o][f] = fields[o][f] /\ fields[o][f] \notin Old
      BY <1>6, <3>2 DEF Stale
    <3>4. fields[o][f] \in Young => fields[o][f] \in marked
      BY <2>3, MinorFacts
    <3> QED BY <2>2, <3>3, <3>4, GCAssumption
  <2>4. CASE o \notin marked
    <3>1. o \in kept /\ o \in Old /\ o \notin Young /\ o \notin (Young \ marked) \cup (Old \ kept)
      BY <1>2, <2>4, GenerationFacts
    <3>2. fields'[o] = IF o \in Old \ scanned THEN [g \in Fields |-> Stale(fields[o][g], Young)]
                                              ELSE fields[o]
      BY <1>1, <2>1, <3>1
    <3>3. fields'[o][f] = fields[o][f]
      BY <1>6, <3>2 DEF Stale
    <3>4. fields[o][f] \in Young => fields[o][f] \in marked
      BY <1>6, <3>1, <3>2, MinorFacts DEF Stale
    <3>5. fields[o][f] \in Old => fields[o][f] \in kept
      BY <1>2, <3>1
    <3> QED BY <2>2, <3>3, <3>4, <3>5, GCAssumption
  <2> QED BY <2>3, <2>4
<1>7. causes' = causes \cup {"major"} \cup Aggregate(marked) /\ Aggregate(marked) \subseteq {"aggregate"}
  BY <1>1 DEF Aggregate
<1>8. /\ phase' = "minor" /\ UNCHANGED <<kind, locals>>
      /\ age' = [o \in Objects |-> IF o \in marked \ Promoted(marked) THEN age[o] + 1 ELSE 0]
      /\ dirty' = (dirty \cap kept) \cup UpdateCardTable(marked)
  BY <1>1 DEF MinorGCWithMajorGC
<1>9. \A o \in marked \cup kept, f \in Fields :
         \/ fields'[o][f] = Dangling
         \/ /\ fields'[o][f] = fields[o][f]
            /\ fields[o][f] \in Objects => fields[o][f] \in marked \cup kept
  BY <1>6
<1>10. Collected(scanned, kept)
  BY <1>2, <1>3, <1>4, <1>5, <1>7, <1>8, <1>9 DEF Collected
<1> QED BY <1>2, <1>7, <1>10

LEMMA CollectedType ==
  ASSUME TypeOK, NEW scanned \in Scannable, NEW kept \in SUBSET Old, Collected(scanned, kept)
  PROVE  TypeOK'
<1> DEFINE marked == Marked(Young, scanned)
<1>1. marked \subseteq Young /\ Promoted(marked) \subseteq marked
      /\ UpdateCardTable(marked) \subseteq Promoted(marked)
  BY MinorFacts
<1>2. gen' = [o \in Objects |-> IF o \in marked \ Promoted(marked) THEN "young"
                                ELSE IF o \in Promoted(marked) \cup kept THEN "old"
                                ELSE "free"]
  BY DEF Collected
<1>3. Live' = marked \cup kept /\ Old' = Promoted(marked) \cup kept
  BY <1>1, <1>2, GenerationFacts DEF Live, Old
<1>4. gen' \in [Objects -> {"free", "young", "old"}]
  BY <1>2
<1>5. age' \in [Objects -> 0 .. PromotionAge - 1]
  <2>1. age' = [o \in Objects |-> IF o \in marked \ Promoted(marked) THEN age[o] + 1 ELSE 0]
    BY DEF Collected
  <2>2. ASSUME NEW o \in marked \ Promoted(marked) PROVE age[o] + 1 \in 0 .. PromotionAge - 1
    <3>1. age[o] \in 0 .. PromotionAge - 1
      BY <1>1, GenerationFacts DEF TypeOK
    <3>2. age[o] + 1 # PromotionAge
      BY DEF Promoted
    <3> QED BY <3>1, <3>2, GCAssumption
  <2> QED BY <2>1, <2>2, GCAssumption
<1>6. dirty' \subseteq Old'
  BY <1>1, <1>3 DEF Collected
<1>7. /\ kind' = kind /\ locals' = locals /\ phase' = "minor"
      /\ causes' \subseteq causes \cup {"major", "aggregate"}
      /\ fields' \in [Objects -> [Fields -> Pointers]]
      /\ \A o \in Objects \ (marked \cup kept) : fields'[o] = NoPointers
  BY DEF Collected
<1>8. \A o \in marked \cup kept, f \in Fields :
         fields'[o][f] \in Objects => fields'[o][f] \in marked \cup kept
  BY GCAssumption DEF Collected
<1>9. marked \cup kept \in SUBSET Live /\ Designated \cap Objects \subseteq marked \cup kept
  <2>1. Designated \cap Objects \subseteq Young \cup Old
    BY GenerationFacts DEF TypeOK
  <2>2. Designated \cap Young \subseteq marked /\ Designated \cap Old \subseteq kept
    BY MinorFacts DEF Collected
  <2> QED BY <1>1, <2>1, <2>2, GenerationFacts
<1>10. /\ \A o \in Objects \ Live' : fields'[o] = NoPointers
       /\ (Designated' \cup Targets(Live)') \cap Objects \subseteq Live'
  BY <1>3, <1>7, <1>8, <1>9, SurvivorsType
<1> QED BY <1>3, <1>4, <1>5, <1>6, <1>7, <1>10 DEF TypeOK

LEMMA MajorType == TypeOK /\ MajorGC => TypeOK'
<1> SUFFICES ASSUME TypeOK, MajorGC PROVE TypeOK'
  OBVIOUS
<1> DEFINE kept == Marked(Old, ScannedByMajor)
<1>1. CASE kept # {}
  <2>1. phase' = "broken" /\ causes' = causes \cup {"major"}
        /\ UNCHANGED <<gen, fields, dirty, kind, age, locals>>
    BY <1>1 DEF MajorGC
  <2> QED BY <2>1 DEF TypeOK, Live, Old, Designated, Targets
<1>2. CASE kept = {}
  <2>1. /\ phase' = "major" /\ causes' = causes \cup {"major"}
        /\ UNCHANGED <<kind, age, locals>>
        /\ gen' = [o \in Objects |-> IF o \in Old THEN "free" ELSE gen[o]]
        /\ fields' = [o \in Objects |-> IF o \in Old THEN NoPointers
                                        ELSE [f \in Fields |-> Stale(fields[o][f], Old)]]
        /\ dirty' = {}
    BY <1>2 DEF MajorGC
  <2>2. Live' = Young
    BY <2>1, GenerationFacts DEF Live, Old, Young, TypeOK
  <2>3. Designated \cap Objects \subseteq Young
    <3>1. Designated \cap Old = {}
      BY <1>2, MarkedClosed
    <3> QED BY <3>1, GenerationFacts DEF TypeOK
  <2>4. gen' \in [Objects -> {"free", "young", "old"}] /\ fields' \in [Objects -> [Fields -> Pointers]]
    BY <2>1 DEF TypeOK, Stale, Pointers, NoPointers
  <2>5. \A o \in Objects \ Young : fields'[o] = NoPointers
    <3> SUFFICES ASSUME NEW o \in Objects \ Young, o \notin Old PROVE fields'[o] = NoPointers
      BY <2>1
    <3>1. fields[o] = NoPointers
      BY GenerationFacts DEF TypeOK
    <3>2. Null \notin Old
      BY GenerationFacts, GCAssumption
    <3> QED BY <2>1, <3>1, <3>2 DEF NoPointers, Stale
  <2>6. ASSUME NEW o \in Young, NEW f \in Fields, fields'[o][f] \in Objects
        PROVE  fields'[o][f] \in Young
    <3>1. o \in Live /\ o \in Objects /\ o \notin Old
      BY GenerationFacts
    <3>2. fields[o][f] \in Young \cup Old \cup {Null, Dangling}
      BY <3>1, TargetFacts
    <3>3. fields'[o][f] = Stale(fields[o][f], Old)
      BY <2>1, <3>1
    <3> QED BY <2>6, <3>2, <3>3, GCAssumption DEF Stale
  <2>7. Young \in SUBSET Live
    BY GenerationFacts
  <2>8. /\ \A o \in Objects \ Live' : fields'[o] = NoPointers
        /\ (Designated' \cup Targets(Live)') \cap Objects \subseteq Live'
    BY <2>1, <2>2, <2>3, <2>4, <2>5, <2>6, <2>7, SurvivorsType
  <2> QED BY <2>1, <2>4, <2>8 DEF TypeOK
<1> QED BY <1>1, <1>2

LEMMA UnchangedType == TypeOK /\ (MajorGCMisreads \/ MarkMisreads \/ UNCHANGED vars) => TypeOK'
<1> SUFFICES ASSUME TypeOK, MajorGCMisreads \/ MarkMisreads \/ UNCHANGED vars PROVE TypeOK'
  OBVIOUS
<1>1. /\ UNCHANGED <<gen, kind, age, fields, locals, dirty>>
      /\ phase' \in {phase, "broken"} /\ causes' \subseteq causes \cup {"major"}
  BY DEF MajorGCMisreads, MarkMisreads, vars
<1> QED BY <1>1 DEF TypeOK, Live, Old, Designated, Targets

LEMMA TypeStep == TypeOK /\ [Next]_vars => TypeOK'
<1> SUFFICES ASSUME TypeOK, [Next]_vars PROVE TypeOK'
  OBVIOUS
<1>1. CASE MinorGC
  BY <1>1, MinorOutcome, CollectedType
<1>2. CASE MinorGCWithMajorGC
  BY <1>2, MinorWithMajorOutcome, CollectedType
<1> QED BY <1>1, <1>2, StoreType, TStoreType, CreateType, MajorType, UnchangedType DEF Next, Stopped

LEMMA TypeInit == Init => TypeOK
<1> SUFFICES ASSUME Init PROVE TypeOK
  OBVIOUS
<1>1. Live = {} /\ Old = {} /\ Designated \subseteq {Null}
  BY DEF Init, Live, Old, Designated
<1>2. Targets(Live) = {}
  BY <1>1 DEF Targets
<1> QED BY <1>1, <1>2, GCAssumption DEF Init, TypeOK, Pointers, NoPointers

\* The variables stay in their types; in particular, no pointer but Dangling ones
\* leads to what is free, no age exceeds that of promotion, and whatever is
\* remembered is old.
THEOREM TypeCorrectness == Spec => []TypeOK
BY TypeInit, TypeStep, PTL DEF Spec

-----------------------------------------------------------------------------
(* Minor collections lose nothing *)

\* No pointer of a live object dangles, and every old object that points to young ones
\* is remembered.  That objects the program cannot reach hold no Dangling pointers
\* either is what makes it inductive: a dirty card may have them scanned.
Whole ==
  /\ phase # "broken"
  /\ Dangling \notin Designated \cup Targets(Live)
  /\ \A o \in Old \ dirty, f \in Fields : fields[o][f] \notin Young

\* The invariant, while nothing of causes has happened.
Sound == causes = {} => Whole

LEMMA MutatorSound ==
  ASSUME TypeOK, Sound, Store \/ TLoad \/ TStore
  PROVE  Sound'
<1> SUFFICES ASSUME causes' = {} PROVE Whole'
  BY DEF Sound, Whole
<1>1. CASE Store \/ TLoad
  <2>1. UNCHANGED <<gen, fields, dirty, phase, causes>>
    BY <1>1 DEF Store, TLoad
  <2>2. Designated' \subseteq Designated \cup Targets(Live) \cup {Null}
    <3>1. CASE Store
      BY <3>1 DEF Store, Designated, TypeOK
    <3>2. CASE TLoad
      <4>1. PICK l \in Locals, o \in Designated \cap Objects, f \in Fields :
              locals' = [locals EXCEPT ![l] = fields[o][f]]
        BY <3>2 DEF TLoad
      <4>2. fields[o][f] \in Targets(Live)
        BY DEF TypeOK, Targets
      <4> QED BY <4>1, <4>2 DEF Designated, TypeOK
    <3> QED BY <1>1, <3>1, <3>2
  <2>3. Live' = Live /\ Old' = Old /\ Young' = Young /\ Targets(Live)' = Targets(Live)
    BY <2>1 DEF Live, Old, Young, Targets
  <2> QED BY <2>1, <2>2, <2>3, GCAssumption DEF Sound, Whole
<1>2. CASE TStore
  <2>1. UNCHANGED <<gen, locals, dirty, phase>>
    BY <1>2 DEF TStore
  <2>2. PICK o \in Designated \cap Objects, f \in Fields, p \in Designated \cup {Null} :
          /\ fields' = [fields EXCEPT ![o][f] = p]
          /\ causes' = causes \cup IF o \in Old \ dirty /\ p \in Young THEN {"store"} ELSE {}
    BY <1>2 DEF TStore
  <2>3. causes = {} /\ ~(o \in Old \ dirty /\ p \in Young)
    BY <2>2
  <2>4. Live' = Live /\ Old' = Old /\ Young' = Young /\ Designated' = Designated
    BY <2>1 DEF Live, Old, Young, Designated
  <2>5. Targets(Live)' \subseteq Targets(Live) \cup {p}
    BY <2>2, <2>4 DEF Targets, TypeOK, Live
  <2>6. ASSUME NEW a \in Old \ dirty, NEW g \in Fields PROVE fields'[a][g] \notin Young
    <3>1. fields[a][g] \notin Young
      BY <2>3 DEF Sound, Whole
    <3> QED BY <2>2, <2>3, <3>1 DEF TypeOK, Old
  <2>7. p # Dangling
    BY <2>3, GCAssumption DEF Sound, Whole
  <2> QED BY <2>1, <2>3, <2>4, <2>5, <2>6, <2>7 DEF Sound, Whole
<1> QED BY <1>1, <1>2

LEMMA CreateSound ==
  ASSUME TypeOK, Sound, AllocateOnYoungGeneration \/ AllocateOnOldGeneration
  PROVE  Sound'
<1> SUFFICES ASSUME NEW generation \in {"young", "old"}, Create(generation), causes' = {}
             PROVE  Whole'
  BY DEF Sound, Whole, AllocateOnYoungGeneration, AllocateOnOldGeneration
<1>1. phase' = "run" /\ UNCHANGED <<age, fields, dirty, causes>>
  BY DEF Create
<1>2. PICK o \in Objects \ Live, l \in Locals :
        /\ gen' = [gen EXCEPT ![o] = generation]
        /\ locals' = [locals EXCEPT ![l] = o]
  BY DEF Create
<1>3. Live' = Live \cup {o} /\ Old' \subseteq Old \cup {o} /\ Young' \subseteq Young \cup {o}
  BY <1>2 DEF TypeOK, Live, Old, Young
<1>4. Designated' \subseteq Designated \cup {o}
  BY <1>2 DEF Designated, TypeOK
<1>5. \A f \in Fields : fields[o][f] = Null
  BY <1>2 DEF TypeOK, NoPointers
<1>6. Targets(Live)' \subseteq Targets(Live) \cup {Null}
  BY <1>1, <1>3, <1>5 DEF Targets
<1>7. ASSUME NEW a \in Old' \ dirty, NEW f \in Fields PROVE fields[a][f] \notin Young'
  <2>1. CASE a = o
    BY <1>2, <1>3, <1>5, <2>1, GenerationFacts, GCAssumption
  <2>2. CASE a # o
    <3>1. a \in Old /\ a \in Live
      BY <1>3, <2>2, GenerationFacts
    <3>2. fields[a][f] \in Young \cup Old \cup {Null, Dangling} /\ fields[a][f] \notin Young
      BY <1>1, <3>1, TargetFacts DEF Sound, Whole
    <3>3. fields[a][f] # o
      BY <1>2, <3>2, GenerationFacts, GCAssumption
    <3> QED BY <1>3, <3>2, <3>3
  <2> QED BY <2>1, <2>2
<1> QED BY <1>1, <1>2, <1>3, <1>4, <1>6, <1>7, GCAssumption DEF Sound, Whole

\* The step that the card table is for: an object that was not scanned points to
\* nothing that moved, and a promoted one is remembered.
LEMMA MinorSound ==
  ASSUME TypeOK, Sound, MinorGC
  PROVE  Sound'
<1> SUFFICES ASSUME causes' = {} PROVE Whole'
  BY DEF Sound, Whole
<1>1. PICK scanned \in Scannable : Collected(scanned, Old) /\ Rewritten(scanned)
  BY MinorOutcome
<1> DEFINE marked == Marked(Young, scanned)
<1>2. causes = {} /\ Aggregate(marked) = {}
  BY <1>1 DEF Rewritten
<1>3. phase' = "minor" /\ locals' = locals
      /\ dirty' = (dirty \cap Old) \cup UpdateCardTable(marked)
  BY <1>1 DEF Collected
<1>4. /\ marked \subseteq Young /\ Promoted(marked) \subseteq marked
      /\ scanned \subseteq Old /\ dirty \subseteq scanned
  BY MinorFacts
<1>5. /\ Live' = marked \cup Old /\ Old' = Promoted(marked) \cup Old
      /\ Young' = marked \ Promoted(marked)
  <2>1. gen' = [o \in Objects |-> IF o \in marked \ Promoted(marked) THEN "young"
                                  ELSE IF o \in Promoted(marked) \cup Old THEN "old"
                                  ELSE "free"]
    BY <1>1 DEF Collected
  <2> QED BY <1>4, <2>1, GenerationFacts DEF Live, Old, Young
<1>6. ASSUME NEW o \in marked \cup Old, NEW f \in Fields PROVE fields'[o][f] = fields[o][f]
  <2>1. CASE o \in marked \cup scanned
    BY <1>1, <2>1 DEF Rewritten
  <2>2. CASE o \in Old \ scanned
    <3>1. o \in Old \ dirty
      BY <1>4, <2>2
    <3>2. fields[o][f] \notin Young
      BY <1>2, <3>1 DEF Sound, Whole
    <3> QED BY <1>1, <2>2, <3>2 DEF Rewritten, Stale
  <2> QED BY <2>1, <2>2
<1>7. Designated' = Designated /\ Targets(Live)' \subseteq Targets(Live)
  <2>1. marked \cup Old \subseteq Live
    BY <1>4, GenerationFacts
  <2> QED BY <1>3, <1>5, <1>6, <2>1 DEF Designated, Targets
<1>8. ASSUME NEW o \in Old' \ dirty', NEW f \in Fields PROVE fields'[o][f] \notin Young'
  <2>1. fields'[o][f] = fields[o][f]
    BY <1>4, <1>5, <1>6
  <2>2. CASE o \in Old
    BY <1>2, <1>3, <1>4, <1>5, <2>1, <2>2 DEF Sound, Whole
  <2>3. CASE o \in Promoted(marked)
    <3>1. o \notin UpdateCardTable(marked)
      BY <1>3
    <3>2. kind[o] \in {"structure", "aggregate"}
      BY <1>4, <2>3, GenerationFacts DEF TypeOK
    <3>3. ~(kind[o] = "aggregate" /\ Targets({o}) \cap (marked \ Promoted(marked)) # {})
      BY <1>2, <2>3 DEF Aggregate
    <3>4. Targets({o}) \cap (marked \ Promoted(marked)) = {}
      BY <2>3, <3>1, <3>2, <3>3 DEF UpdateCardTable
    <3>5. fields[o][f] \in Targets({o})
      BY DEF Targets
    <3> QED BY <1>5, <2>1, <3>4, <3>5
  <2> QED BY <1>5, <2>2, <2>3
<1> QED BY <1>2, <1>3, <1>7, <1>8 DEF Sound, Whole

LEMMA OthersSound ==
  ASSUME TypeOK, Sound,
         MajorGC \/ MinorGCWithMajorGC \/ MajorGCMisreads \/ MarkMisreads \/ UNCHANGED vars
  PROVE  Sound'
<1>1. CASE MajorGC \/ MinorGCWithMajorGC \/ MajorGCMisreads
  <2>1. "major" \in causes'
    BY <1>1, MinorWithMajorOutcome DEF MajorGC, MajorGCMisreads
  <2> QED BY <2>1 DEF Sound, Whole
<1>2. CASE MarkMisreads
  <2>1. causes' = causes
    BY <1>2 DEF MarkMisreads
  <2>2. PICK scanned \in Scannable :
          \/ Dangling \in Designated \cup Targets(scanned \cup Marked(Young, scanned))
          \/ Dangling \in Targets(Marked(Old, ScannedByMajor))
    BY <1>2 DEF MarkMisreads
  <2>3. scanned \cup Marked(Young, scanned) \subseteq Live
    BY MinorFacts, GenerationFacts
  <2>5. Marked(Old, ScannedByMajor) \subseteq Live
    BY GenerationFacts DEF Marked
  <2>4. Dangling \in Designated \cup Targets(Live)
    BY <2>2, <2>3, <2>5 DEF Targets
  <2> QED BY <2>1, <2>4 DEF Sound, Whole
<1>3. CASE UNCHANGED vars
  BY <1>3 DEF Sound, Whole, vars, Live, Old, Young, Designated, Targets
<1> QED BY <1>1, <1>2, <1>3

LEMMA SoundStep == TypeOK /\ Sound /\ [Next]_vars => Sound'
BY MutatorSound, CreateSound, MinorSound, OthersSound DEF Next, Stopped

LEMMA SoundInit == Init => Sound
<1> SUFFICES ASSUME Init PROVE Sound
  OBVIOUS
<1>1. Live = {} /\ Old = {} /\ Designated \subseteq {Null} /\ phase = "run"
  BY DEF Init, Live, Old, Designated
<1>2. Targets(Live) = {}
  BY <1>1 DEF Targets
<1> QED BY <1>1, <1>2, GCAssumption DEF Sound, Whole

LEMMA Soundness == Spec => []Sound
<1>1. Init => TypeOK /\ Sound
  BY TypeInit, SoundInit
<1>2. TypeOK /\ Sound /\ [Next]_vars => (TypeOK /\ Sound)'
  BY TypeStep, SoundStep
<1> QED BY <1>1, <1>2, PTL DEF Spec

\* While the only collections are minor ones, and no pointer to a young object was
\* stored into an old one or promoted in an array or an inner structure, nothing
\* that is reachable is lost, however often the generation is collected.
THEOREM MinorCollectionsKeep == Spec => []MinorCollectionsSafe
<1>1. Sound => MinorCollectionsSafe
  BY DEF Sound, Whole, MinorCollectionsSafe, Intact, Reachable, Targets
<1> QED BY <1>1, Soundness, PTL

\* Until then the card table remembers every old object that points to young ones.
THEOREM CardTableRemembers == Spec => []Remembered
<1>1. Sound => Remembered
  BY DEF Sound, Whole, Remembered, Targets
<1> QED BY <1>1, Soundness, PTL

-----------------------------------------------------------------------------
(* What collections keep, whatever happened before *)

\* What one kind of collection owes.
Keeps(generation) ==
  \A o \in Within(generation) :
    /\ o \in Live'
    /\ \A f \in Fields : fields[o][f] \in generation => fields'[o][f] = fields[o][f]

LEMMA MinorKeeps ==
  ASSUME TypeOK, MinorGC
  PROVE  Keeps(Young) /\ Keeps(Old)
<1>1. PICK scanned \in Scannable : Collected(scanned, Old) /\ Rewritten(scanned)
  BY MinorOutcome
<1> DEFINE marked == Marked(Young, scanned)
<1>2. \A o \in Objects : o \in marked \cup Old => gen'[o] # "free"
  BY MinorFacts, <1>1 DEF Collected
<1>3. marked \cup Old \subseteq Live'
  BY <1>2, MinorFacts, GenerationFacts DEF Live
<1>4. Within(Young) \subseteq marked /\ Within(Old) \subseteq Old
  BY WithinMarked DEF Within
<1>5. \A o \in marked, f \in Fields : fields'[o][f] = fields[o][f]
  BY <1>1 DEF Rewritten
<1>6. ASSUME NEW o \in Old, NEW f \in Fields, fields[o][f] \in Old
      PROVE  fields'[o][f] = fields[o][f]
  BY <1>1, <1>6, GenerationFacts DEF Rewritten, Stale
<1> QED BY <1>3, <1>4, <1>5, <1>6 DEF Keeps

LEMMA MajorKeeps ==
  ASSUME TypeOK, MajorGC, phase' = "major"
  PROVE  Keeps(Young) /\ Keeps(Old)
<1>1. /\ Marked(Old, ScannedByMajor) = {}
      /\ gen' = [o \in Objects |-> IF o \in Old THEN "free" ELSE gen[o]]
      /\ fields' = [o \in Objects |-> IF o \in Old THEN NoPointers
                                      ELSE [f \in Fields |-> Stale(fields[o][f], Old)]]
  BY DEF MajorGC
<1>2. Within(Old) = {}
  BY <1>1, WithinMarked
<1>3. ASSUME NEW o \in Within(Young)
      PROVE  o \in Live' /\ \A f \in Fields : fields[o][f] \in Young => fields'[o][f] = fields[o][f]
  <2>1. o \in Young /\ o \in Objects /\ o \notin Old
    BY GenerationFacts DEF Within
  <2> QED BY <1>1, <2>1, GenerationFacts DEF Live, Young, Stale
<1> QED BY <1>2, <1>3 DEF Keeps

LEMMA MinorWithMajorKeeps ==
  ASSUME TypeOK, MinorGCWithMajorGC
  PROVE  Keeps(Young) /\ Keeps(Old)
<1>1. PICK scanned \in Scannable :
        LET marked == Marked(Young, scanned)
            kept   == Marked(Old, ScannedByMajor)
            freed  == (Young \ marked) \cup (Old \ kept)
        IN  /\ gen' = [o \in Objects |-> IF o \in freed THEN "free"
                                         ELSE IF o \in Promoted(marked) THEN "old"
                                         ELSE gen[o]]
            /\ fields' = [o \in Objects |->
                 IF o \in freed THEN NoPointers
                 ELSE IF o \in Young THEN [f \in Fields |-> Stale(fields[o][f], Old)]
                 ELSE IF o \in Old \ scanned
                   THEN [f \in Fields |-> Stale(fields[o][f], Young)]
                 ELSE fields[o]]
  BY DEF MinorGCWithMajorGC
<1> DEFINE marked == Marked(Young, scanned)
           kept   == Marked(Old, ScannedByMajor)
           freed  == (Young \ marked) \cup (Old \ kept)
<1>2. Within(Young) \subseteq marked /\ Within(Old) \subseteq kept
  BY WithinMarked
<1>3. marked \subseteq Young /\ kept \subseteq Old
  BY MarkedClosed
<1>4. \A o \in marked \cup kept : o \in Objects /\ o \notin freed /\ gen[o] # "free"
  BY <1>3, GenerationFacts DEF Young, Old
<1>5. \A o \in marked \cup kept : o \in Live'
  BY <1>1, <1>4 DEF Live
<1>6. ASSUME NEW o \in marked, NEW f \in Fields, fields[o][f] \in Young
      PROVE  fields'[o][f] = fields[o][f]
  BY <1>1, <1>3, <1>4, <1>6, GenerationFacts DEF Stale
<1>7. ASSUME NEW o \in kept, NEW f \in Fields, fields[o][f] \in Old
      PROVE  fields'[o][f] = fields[o][f]
  <2>1. fields'[o] = IF o \in Old \ scanned THEN [g \in Fields |-> Stale(fields[o][g], Young)]
                                            ELSE fields[o]
    BY <1>1, <1>3, <1>4, GenerationFacts
  <2> QED BY <1>7, <2>1, GenerationFacts DEF Stale
<1> QED BY <1>2, <1>5, <1>6, <1>7 DEF Keeps

\* No collection frees what local variables reach within one generation, or loses a
\* pointer on the way: neither a stale card table nor a major collection in between
\* can break it.
THEOREM CollectionsKeepGenerations == Spec => GenerationsSurvive
<1>1. TypeOK /\ [Next]_vars =>
        [\A generation \in {Young, Old} :
           phase = "run" /\ phase' \in {"minor", "major"} =>
             \A o \in Within(generation) :
               /\ o \in Live'
               /\ \A f \in Fields : fields[o][f] \in generation => fields'[o][f] = fields[o][f]
        ]_vars
  <2> SUFFICES ASSUME TypeOK, Next, phase = "run", phase' \in {"minor", "major"},
                      NEW generation \in {Young, Old}
               PROVE  Keeps(generation)
    BY DEF Keeps
  <2>1. MinorGC \/ MajorGC \/ MinorGCWithMajorGC
    BY DEF Next, Store, TLoad, TStore, Create, AllocateOnYoungGeneration, AllocateOnOldGeneration,
           MajorGCMisreads, MarkMisreads, Stopped, vars
  <2>2. MajorGC => phase' = "major"
    BY DEF MajorGC
  <2> QED BY <2>1, <2>2, MinorKeeps, MajorKeeps, MinorWithMajorKeeps
<1> QED BY <1>1, TypeCorrectness, PTL DEF Spec, GenerationsSurvive
=============================================================================
