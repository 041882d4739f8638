---------------------------- MODULE Isolation_proofs ----------------------------
(***************************************************************************)
(* Proofs about CallStack, of programs that pass no local variable as an   *)
(* argument and exchange no objects of different sizes: every active       *)
(* function has its own part of the stack, with its arguments just below   *)
(* its frame; and the top of the stack is always the header of an object   *)
(* or a frame, although copy leaves cells that no type is written to, if   *)
(* tload finds no such cells in arrays.                                    *)
(***************************************************************************)
EXTENDS CallStack_proofs, SequenceTheorems

\* The arguments of the function of a frame, which are the first of its locals, and
\* how many locals lie in m_LocalVariables before its own.
Args(f) == IF f.StackBegin = 0 THEN 0 ELSE Arity[f.Function]
First(f) == f.VariableBegin + Args(f)

\* A local designates an object that no object above it reaches into.
LocalsApart ==
  \A i \in 1 .. Len(locals) :
    /\ locals[i] <= used /\ IsObject(mem[locals[i]])
    /\ \A o \in locals[i] + 1 .. used : locals[i] <= o - SizeOf(mem[o])

\* The arguments lie next to each other below the frame, and the locals of the callers
\* below them.
ArgumentsHeld(f) ==
  f.StackBegin > 0 =>
    \E walk \in Walks(ObjectSize, f.StackBegin - 1, Args(f)) :
      /\ \A j \in 1 .. Args(f) : locals[f.VariableBegin + j] = walk[j - 1]
      /\ \A i \in 1 .. f.VariableBegin : locals[i] <= walk[Args(f)]

\* The own locals of the frame, of which the last one is given, lie above it and
\* ascend.
Ascending(f, last) ==
  /\ First(f) <= last
  /\ \A i \in First(f) + 1 .. last :
       /\ f.StackBegin < locals[i]
       /\ \A j \in First(f) + 1 .. i - 1 : locals[j] < locals[i]

FramesApart ==
  /\ \A f \in ActiveFrames :
       /\ First(f) <= Len(locals)
       /\ f.StackBegin = 0 => f.VariableBegin = 0
       /\ f.StackBegin > 0 => Ascending(mem[f.StackBegin].val, f.VariableBegin)
       /\ ArgumentsHeld(f)
  /\ \A f, g \in ActiveFrames : f.StackBegin < g.StackBegin => First(f) <= g.VariableBegin

\* The inductive invariant.
Isolated ==
  /\ LocalsApart
  /\ FramesApart
  /\ status = "running" => Ascending(frame, Len(locals))
-----------------------------------------------------------------------------
(* Frames and walks *)

\* The frames on the stack and m_StackFrame are typed, and the newest lies highest.
LEMMA FrameFacts ==
  ASSUME Inv
  PROVE  /\ \A o \in SavedFrames :
              /\ o \in 1 .. used /\ mem[o].shape = NoneType /\ mem[o].val \in ActiveFrames
              /\ o <= frame.StackBegin /\ mem[o].val.StackBegin < o
         /\ frame \in ActiveFrames
         /\ \A f \in ActiveFrames :
              /\ f \in StackFrame /\ f.StackBegin \in 0 .. used /\ f.VariableBegin \in Nat
              /\ f.StackBegin = 0 \/ f.StackBegin \in SavedFrames
              /\ f = frame \/ f.StackBegin < frame.StackBegin
              /\ f.StackBegin > 0 => Args(f) = Arity[f.Function] /\ f.Function \in Callables
              /\ Args(f) \in Nat /\ First(f) \in Nat
<1>1. /\ used \in Nat /\ StackSize \in Nat /\ used <= StackSize
      /\ mem \in [1 .. StackSize -> Cells] /\ frame \in StackFrame
  BY InvStack DEF StackOK, Inv, TypeOK
<1>2. \A o \in SavedFrames : o \in 1 .. used /\ mem[o].shape = NoneType /\ mem[o].val \in StackFrame
  <2>1. \A o \in SavedFrames : o \in 1 .. used /\ mem[o].shape = NoneType /\ mem[o] \in Cells
    BY <1>1 DEF SavedFrames
  <2> QED BY <2>1, ProgramAssumption DEF Cells, Raw
<1>3. \A o \in SavedFrames : mem[o].val.StackBegin < o
  BY <1>1, <1>2 DEF Inv, FrameChain, IsNewest, StackFrame
<1>4. \A o \in SavedFrames : o <= frame.StackBegin
  BY <1>1, <1>2 DEF Inv, FrameChain, IsNewest
<1>5. \A f \in ActiveFrames : f.StackBegin = 0 \/ f.StackBegin \in SavedFrames
  <2>1. frame.StackBegin = 0 \/ frame.StackBegin \in SavedFrames
    BY DEF Inv, FrameChain, IsNewest
  <2>2. \A o \in SavedFrames : mem[o].val.StackBegin = 0 \/ mem[o].val.StackBegin \in SavedFrames
    BY DEF Inv, FrameChain, IsNewest
  <2> QED BY <2>1, <2>2 DEF ActiveFrames
<1>6. \A f \in ActiveFrames : f \in StackFrame
  BY <1>1, <1>2 DEF ActiveFrames
<1>7. \A f \in ActiveFrames : f = frame \/ f.StackBegin < frame.StackBegin
  <2> SUFFICES ASSUME NEW o \in SavedFrames PROVE mem[o].val.StackBegin < frame.StackBegin
    BY DEF ActiveFrames
  <2> QED BY <1>1, <1>2, <1>3, <1>4 DEF StackFrame
<1>8. \A f \in ActiveFrames : f.StackBegin \in 0 .. used /\ f.VariableBegin \in Nat
  BY <1>1, <1>2, <1>5, <1>6 DEF StackFrame
<1>9. \A f \in ActiveFrames : f.StackBegin > 0 => Args(f) = Arity[f.Function] /\ f.Function \in Callables
  <2> SUFFICES ASSUME NEW f \in ActiveFrames, f.StackBegin > 0
               PROVE  Args(f) = Arity[f.Function] /\ f.Function \in Callables
    OBVIOUS
  <2>1. f.Function # Entrypoint
    BY <1>8 DEF Inv, FrameChain
  <2> QED BY <2>1, <1>6, <1>8 DEF StackFrame, Args
<1>10. \A f \in ActiveFrames : Args(f) \in Nat /\ First(f) \in Nat
  BY <1>8, <1>9, ProgramAssumption DEF Args, First
<1> QED BY <1>2, <1>3, <1>4, <1>5, <1>6, <1>7, <1>8, <1>9, <1>10 DEF ActiveFrames

\* A walk over whole objects descends, and every offset that it passes lies in one of
\* them.
LEMMA WalkDown ==
  ASSUME NEW base \in Nat, NEW n \in Nat, NEW walk \in Walks(ObjectSize, base, n)
  PROVE  /\ walk \in [0 .. n -> 0 .. base] /\ walk[0] = base
         /\ \A j \in 1 .. n : walk[j - 1] > 0 /\ IsObject(mem[walk[j - 1]])
                               /\ walk[j] = walk[j - 1] - SizeOf(mem[walk[j - 1]])
         /\ \A i, j \in 0 .. n : i < j => walk[j] < walk[i]
         /\ \A j \in 0 .. n : \A o \in walk[j] + 1 .. base :
              \E k \in 1 .. j : walk[k] < o /\ o <= walk[k - 1]
<1>1. /\ walk \in [0 .. n -> 0 .. base] /\ walk[0] = base
      /\ \A j \in 1 .. n : /\ walk[j - 1] > 0 /\ IsObject(mem[walk[j - 1]])
                            /\ walk[j] = walk[j - 1] - SizeOf(mem[walk[j - 1]])
  BY DEF Walks, SizeOf
<1>2. \A j \in 1 .. n : walk[j] < walk[j - 1]
  <2> SUFFICES ASSUME NEW j \in 1 .. n PROVE walk[j] < walk[j - 1]
    OBVIOUS
  <2>1. walk[j - 1] \in Int /\ SizeOf(mem[walk[j - 1]]) \in Nat \ {0}
    BY <1>1, SizeFacts
  <2>2. walk[j] = walk[j - 1] - SizeOf(mem[walk[j - 1]])
    BY <1>1
  <2> QED BY <2>1, <2>2
<1>3. ASSUME NEW i \in 0 .. n, NEW j \in 0 .. n, i < j PROVE walk[j] < walk[i]
  <2> DEFINE Wrong == {k \in 0 .. n : i < k /\ ~(walk[k] < walk[i])}
  <2> SUFFICES ASSUME Wrong # {} PROVE FALSE
    BY <1>3
  <2>1. PICK k \in Wrong : \A l \in Wrong : k <= l
    <3>1. Wrong \subseteq Nat
      OBVIOUS
    <3> HIDE DEF Wrong
    <3> QED BY <3>1, LeastElement
  <2>2. k \in 1 .. n /\ i <= k - 1 /\ k - 1 \in 0 .. n /\ k - 1 \notin Wrong
    BY <2>1
  <2>3. walk[k] < walk[k - 1] /\ walk[k - 1] \in Int /\ walk[k] \in Int /\ walk[i] \in Int
    BY <1>1, <1>2, <2>2
  <2>4. k - 1 = i \/ walk[k - 1] < walk[i]
    BY <2>2
  <2> QED BY <2>1, <2>3, <2>4
<1>4. ASSUME NEW j \in 0 .. n, NEW o \in walk[j] + 1 .. base
      PROVE  \E k \in 1 .. j : walk[k] < o /\ o <= walk[k - 1]
  <2> DEFINE Passed == {k \in 0 .. j : walk[k] < o}
  <2>1. Passed \subseteq Nat /\ j \in Passed
    <3>1. walk[j] \in Int
      BY <1>1
    <3> QED BY <3>1
  <2>2. PICK k \in Passed : \A l \in Passed : k <= l
    <3> HIDE DEF Passed
    <3> QED BY <2>1, LeastElement
  <2>3. k # 0
    BY <1>1, <2>2
  <2>4. k \in 1 .. j /\ k - 1 \in 0 .. j /\ k - 1 \notin Passed /\ walk[k - 1] \in Int
    BY <1>1, <2>2, <2>3
  <2> QED BY <2>2, <2>4
<1> QED BY <1>1, <1>3, <1>4

\* No object among those walked over reaches below them.
LEMMA WalkNested ==
  ASSUME NestedIn(mem, used), used \in Nat, NEW base \in Nat, base <= used, NEW n \in Nat,
         NEW walk \in Walks(ObjectSize, base, n)
  PROVE  \A j \in 0 .. n : \A o \in walk[j] + 1 .. base : walk[j] <= o - SizeOf(mem[o])
<1>1. /\ walk \in [0 .. n -> 0 .. base] /\ walk[0] = base
      /\ \A j \in 1 .. n : walk[j - 1] > 0 /\ IsObject(mem[walk[j - 1]])
                            /\ walk[j] = walk[j - 1] - SizeOf(mem[walk[j - 1]])
      /\ \A i, j \in 0 .. n : i < j => walk[j] < walk[i]
      /\ \A j \in 0 .. n : \A o \in walk[j] + 1 .. base :
           \E k \in 1 .. j : walk[k] < o /\ o <= walk[k - 1]
  BY WalkDown
<1> SUFFICES ASSUME NEW j \in 0 .. n, NEW o \in walk[j] + 1 .. base
             PROVE  walk[j] <= o - SizeOf(mem[o])
  OBVIOUS
<1>2. PICK k \in 1 .. j : walk[k] < o /\ o <= walk[k - 1]
  BY <1>1
<1>3. k \in 1 .. n /\ k \in 0 .. n /\ k - 1 \in 0 .. n
  OBVIOUS
<1>4. /\ walk[k] \in 0 .. base /\ walk[k - 1] \in 1 .. base /\ walk[j] \in 0 .. base
      /\ walk[k] = walk[k - 1] - SizeOf(mem[walk[k - 1]])
  BY <1>1, <1>3
<1>5. walk[j] <= walk[k]
  <2>1. k = j \/ k < j
    OBVIOUS
  <2> QED BY <1>1, <1>3, <1>4, <2>1
<1> DEFINE a == walk[k - 1]
<1>6. a \in 1 .. used /\ walk[k] = a - SizeOf(mem[a]) /\ SizeOf(mem[a]) \in Nat
  BY <1>4, SizeFacts
<1>7. walk[k] <= o - SizeOf(mem[o])
  <2>1. CASE o = a
    BY <1>4, <1>6, <2>1
  <2>2. CASE o # a
    <3>1. o \in a - SizeOf(mem[a]) + 1 .. a - 1
      BY <1>2, <1>4, <1>6, <2>2
    <3> QED BY <1>6, <3>1 DEF NestedIn
  <2> QED BY <2>1, <2>2
<1> QED
  <2>1. SizeOf(mem[o]) \in Nat /\ o \in Int
    BY <1>4, SizeFacts
  <2> QED BY <1>4, <1>5, <1>7, <2>1

\* Where no array is passed, the walk of ret is that of call.
LEMMA WalkOfReturn ==
  ASSUME NEW base \in Nat, NEW n \in Nat,
         NEW walk \in Walks(ObjectSize, base, n), \A j \in 1 .. n : mem[walk[j - 1]].shape \notin Arrays,
         NEW back \in Walks(TypeSize, base, n)
  PROVE  back = walk
<1>1. /\ walk \in [0 .. n -> 0 .. base] /\ walk[0] = base
      /\ \A j \in 1 .. n : /\ IsObject(mem[walk[j - 1]])
                            /\ walk[j] = walk[j - 1] - ObjectSize[mem[walk[j - 1]].shape]
  BY DEF Walks
<1>2. /\ back \in [0 .. n -> 0 .. base] /\ back[0] = base
      /\ \A j \in 1 .. n : back[j] = back[j - 1] - TypeSize[mem[back[j - 1]].shape]
  BY DEF Walks
<1> DEFINE Wrong == {j \in 0 .. n : back[j] # walk[j]}
<1>3. Wrong = {}
  <2> SUFFICES ASSUME Wrong # {} PROVE FALSE
    OBVIOUS
  <2>1. PICK k \in Wrong : \A l \in Wrong : k <= l
    <3>1. Wrong \subseteq Nat
      OBVIOUS
    <3> HIDE DEF Wrong
    <3> QED BY <3>1, LeastElement
  <2>2. k \in 1 .. n /\ k - 1 \in 0 .. n /\ k - 1 \notin Wrong
    BY <1>1, <1>2, <2>1
  <2>3. back[k - 1] = walk[k - 1]
    BY <2>2
  <2> DEFINE s == mem[walk[k - 1]].shape
  <2>4. s \in Scalars \cup Structs
    BY <1>1, <2>2 DEF IsObject, Shapes
  <2>5. TypeSize[s] = ObjectSize[s]
    BY <2>4, LayoutAssumption
  <2>6. walk[k] = walk[k - 1] - ObjectSize[s]
    BY <1>1, <2>2
  <2>7. back[k] = walk[k - 1] - TypeSize[s]
    BY <1>2, <2>2, <2>3
  <2> QED BY <2>1, <2>5, <2>6, <2>7
<1>4. \A j \in 0 .. n : back[j] = walk[j]
  BY <1>3
<1> QED BY <1>1, <1>2, <1>4

\* The walk of ret ends no deeper than that of call, and what reaches across its end
\* from the arguments is an array.
LEMMA ReturnEnd ==
  ASSUME NestedIn(mem, used), used \in Nat, NEW base \in Nat, base <= used, NEW n \in Nat,
         NEW walk \in Walks(ObjectSize, base, n), NEW back \in Walks(TypeSize, base, n)
  PROVE  /\ back[n] \in 0 .. base /\ walk[n] \in 0 .. base /\ walk[n] <= back[n]
         /\ \A p \in back[n] + 1 .. base :
              mem[p].shape \in Structs => back[n] <= p - SizeOf(mem[p])
<1>1. /\ walk \in [0 .. n -> 0 .. base] /\ walk[0] = base
      /\ \A j \in 1 .. n : IsObject(mem[walk[j - 1]])
                            /\ walk[j] = walk[j - 1] - SizeOf(mem[walk[j - 1]])
      /\ \A i, j \in 0 .. n : i < j => walk[j] < walk[i]
  BY WalkDown
<1>2. /\ back \in [0 .. n -> 0 .. base] /\ back[0] = base
      /\ \A j \in 1 .. n : /\ back[j - 1] > 0 /\ IsObject(mem[back[j - 1]])
                            /\ back[j] = back[j - 1] - TypeSize[mem[back[j - 1]].shape]
  BY DEF Walks
<1>3. \A j \in 0 .. n : \A o \in walk[j] + 1 .. base : walk[j] <= o - SizeOf(mem[o])
  BY WalkNested
<1>4. \A j \in 1 .. n : /\ TypeSize[mem[back[j - 1]].shape] \in Nat
                         /\ TypeSize[mem[back[j - 1]].shape] <= SizeOf(mem[back[j - 1]])
                         /\ SizeOf(mem[back[j - 1]]) \in Nat
  BY <1>2, SizeFacts DEF IsObject, SizeOf
<1>5. ASSUME NEW j \in 0 .. n PROVE walk[j] <= back[j]
  <2> DEFINE Wrong == {k \in 0 .. n : ~(walk[k] <= back[k])}
  <2> SUFFICES ASSUME Wrong # {} PROVE FALSE
    BY <1>5
  <2>1. PICK k \in Wrong : \A l \in Wrong : k <= l
    <3>1. Wrong \subseteq Nat
      OBVIOUS
    <3> HIDE DEF Wrong
    <3> QED BY <3>1, LeastElement
  <2>2. k # 0
    BY <1>1, <1>2, <2>1
  <2>3. k \in 1 .. n /\ k - 1 \in 0 .. n /\ k - 1 < k /\ k - 1 \notin Wrong /\ k \in 0 .. n
    BY <2>1, <2>2
  <2> DEFINE o == back[k - 1]
  <2>4. o \in 0 .. base /\ walk[k - 1] \in 0 .. base /\ walk[k] \in 0 .. base
    BY <1>1, <1>2, <2>3
  <2>5. walk[k - 1] <= o /\ walk[k] < walk[k - 1]
    BY <1>1, <2>3
  <2>6. o \in walk[k] + 1 .. base
    BY <2>4, <2>5
  <2>7. walk[k] <= o - SizeOf(mem[o])
    BY <1>3, <2>3, <2>6
  <2>8. back[k] = o - TypeSize[mem[o].shape]
    BY <1>2, <2>3
  <2>9. /\ TypeSize[mem[o].shape] \in Nat /\ TypeSize[mem[o].shape] <= SizeOf(mem[o])
        /\ SizeOf(mem[o]) \in Nat
    BY <1>4, <2>3
  <2>10. ~(walk[k] <= back[k])
    BY <2>1
  <2> HIDE DEF o
  <2> QED BY <2>4, <2>7, <2>8, <2>9, <2>10
<1>6. back[n] \in 0 .. base /\ walk[n] \in 0 .. base /\ walk[n] <= back[n]
  BY <1>1, <1>2, <1>5
<1>7. ASSUME NEW p \in back[n] + 1 .. base, mem[p].shape \in Structs
      PROVE  back[n] <= p - SizeOf(mem[p])
  <2> DEFINE Passed == {k \in 0 .. n : back[k] < p}
  <2>1. n \in Passed
    BY <1>6
  <2>2. PICK k \in Passed : \A l \in Passed : k <= l
    <3>1. Passed \subseteq Nat
      OBVIOUS
    <3> HIDE DEF Passed
    <3> QED BY <2>1, <3>1, LeastElement
  <2>3. k # 0
    BY <1>2, <1>6, <2>2
  <2>4. k \in 1 .. n /\ k - 1 \in 0 .. n /\ k - 1 \notin Passed /\ k \in 0 .. n /\ back[k] < p
    BY <2>2, <2>3
  <2> DEFINE a == back[k - 1]
  <2>5. a \in 1 .. base /\ back[k] \in 0 .. base /\ p <= a
    BY <1>2, <1>6, <2>4
  <2>6. back[k] = a - TypeSize[mem[a].shape] /\ IsObject(mem[a]) /\ TypeSize[mem[a].shape] \in Nat
    BY <1>2, <1>4, <2>4
  <2> HIDE DEF a, Passed
  <2>7. mem[a].shape \in Arrays \cup Scalars => p = a
    <3>1. mem[a].shape \in Arrays \cup Scalars => TypeSize[mem[a].shape] = 1
      BY LayoutAssumption DEF Shapes
    <3>2. TypeSize[mem[a].shape] = 1 => back[k] = a - 1
      BY <2>6
    <3> QED BY <2>4, <2>5, <3>1, <3>2
  <2>8. mem[a].shape \in Scalars \cup Structs
    <3>1. CASE p = a
      BY <1>7, <3>1
    <3>2. CASE p # a
      BY <2>6, <2>7, <3>2 DEF IsObject, Shapes
    <3> QED BY <3>1, <3>2
  <2>9. TypeSize[mem[a].shape] = SizeOf(mem[a])
    BY <2>6, <2>8, LayoutAssumption DEF SizeOf
  <2>10. back[k] <= p - SizeOf(mem[p])
    <3>1. CASE p = a
      BY <2>5, <2>6, <2>9, <3>1
    <3>2. CASE p # a
      <4>1. p \in a - SizeOf(mem[a]) + 1 .. a - 1 /\ a \in 1 .. used
        BY <2>4, <2>5, <2>6, <2>9, <3>2
      <4> QED BY <2>6, <2>9, <4>1 DEF NestedIn
    <3> QED BY <3>1, <3>2
  <2>11. back[n] <= back[k]
    <3> DEFINE Higher == {l \in 0 .. n - k : ~(back[k + l] <= back[k])}
    <3> SUFFICES ASSUME Higher # {} PROVE FALSE
      <4>1. n - k \in 0 .. n - k /\ k + (n - k) = n
        BY <2>4
      <4>2. n - k \in Higher \/ back[k + (n - k)] <= back[k]
        BY <4>1
      <4> QED BY <4>1, <4>2
    <3>1. PICK l \in Higher : \A i \in Higher : l <= i
      <4>1. Higher \subseteq Nat
        OBVIOUS
      <4> HIDE DEF Higher
      <4> QED BY <4>1, LeastElement
    <3>2. l # 0
      BY <2>4, <2>5, <3>1
    <3>3. PICK h, j : h = l - 1 /\ j = k + l
      OBVIOUS
    <3>4. h \in 0 .. n - k /\ h \notin Higher /\ j \in 1 .. n /\ j - 1 \in 0 .. n /\ k + h = j - 1
      BY <2>4, <3>1, <3>2, <3>3
    <3>5. back[k + h] <= back[k]
      BY <3>4
    <3>6. back[j - 1] <= back[k]
      <4> HIDE DEF Higher
      <4> QED BY <3>4, <3>5
    <3>7. ~(back[j] <= back[k])
      BY <3>1, <3>3
    <3> HIDE DEF Higher
    <3>8. back[j] = back[j - 1] - TypeSize[mem[back[j - 1]].shape]
          /\ TypeSize[mem[back[j - 1]].shape] \in Nat /\ back[j - 1] \in Int
      BY <1>2, <1>4, <3>4
    <3>9. PICK x, y, z : x = back[j - 1] /\ y = back[j] /\ z = TypeSize[mem[back[j - 1]].shape]
      OBVIOUS
    <3>10. x <= back[k] /\ y = x - z /\ z \in Nat /\ x \in Int /\ ~(y <= back[k])
      BY <3>6, <3>7, <3>8, <3>9
    <3> QED BY <2>5, <3>10
  <2> QED
    <3>1. SizeOf(mem[p]) \in Nat /\ p \in Int
      BY <1>6, SizeFacts
    <3> QED BY <1>6, <2>5, <2>10, <2>11, <3>1
<1> QED BY <1>6, <1>7

-----------------------------------------------------------------------------
(* What an instruction leaves *)

\* The beginning of a sequence.
LEMMA FrontFacts ==
  ASSUME NEW S, NEW s \in Seq(S), NEW n \in Nat, n <= Len(s)
  PROVE  /\ SubSeq(s, 1, n) \in Seq(S) /\ Len(SubSeq(s, 1, n)) = n
         /\ \A i \in 1 .. n : SubSeq(s, 1, n)[i] = s[i]
<1>1. Len(s) \in Nat
  OBVIOUS
<1>2. \A i \in 1 .. n : s[i] \in S /\ 1 + i - 1 = i
  BY <1>1
<1>3. SubSeq(s, 1, n) = [i \in 1 .. n |-> s[i]]
  BY <1>1, <1>2
<1> QED BY <1>1, <1>2, <1>3

LEMMA LocalsTyped ==
  ASSUME Inv
  PROVE  Len(locals) \in Nat /\ \A i \in 1 .. Len(locals) : locals[i] \in Nat \ {0}
<1>1. locals \in Seq(1 .. StackSize) /\ StackSize \in Nat
  BY InvStack
<1>2. ASSUME NEW i \in 1 .. Len(locals) PROVE locals[i] \in 1 .. StackSize
  BY <1>1
<1> QED BY <1>1, <1>2

\* The newest local of the running function is the highest of all, and those of its
\* callers, with its arguments, lie below its frame.
LEMMA Ordered ==
  ASSUME Inv, Isolated, status = "running"
  PROVE  /\ Len(locals) \in Nat /\ First(frame) \in Nat /\ First(frame) <= Len(locals)
         /\ \A i \in 1 .. Len(locals) :
              /\ locals[i] \in 1 .. used
              /\ \/ locals[i] < frame.StackBegin
                 \/ i > First(frame) /\ (i = Len(locals) \/ locals[i] < locals[Len(locals)])
<1>1. /\ Len(locals) \in Nat /\ locals \in Seq(1 .. StackSize) /\ frame.VariableBegin \in Nat
      /\ used \in Nat /\ Args(frame) \in Nat /\ First(frame) \in Nat /\ frame.StackBegin \in Nat
  BY InvStack, FrameFacts
<1>2. /\ Ascending(frame, Len(locals)) /\ ArgumentsHeld(frame)
      /\ frame.StackBegin = 0 => frame.VariableBegin = 0 /\ Args(frame) = 0
  BY FrameFacts DEF Isolated, FramesApart, Args
<1>3. ASSUME NEW i \in 1 .. Len(locals), i <= First(frame) PROVE locals[i] < frame.StackBegin
  <2>1. frame.StackBegin > 0
    BY <1>1, <1>2, <1>3 DEF First
  <2>2. PICK walk \in Walks(ObjectSize, frame.StackBegin - 1, Args(frame)) :
          /\ \A j \in 1 .. Args(frame) : locals[frame.VariableBegin + j] = walk[j - 1]
          /\ \A j \in 1 .. frame.VariableBegin : locals[j] <= walk[Args(frame)]
    BY <1>2, <2>1 DEF ArgumentsHeld
  <2>3. walk \in [0 .. Args(frame) -> 0 .. frame.StackBegin - 1]
    BY DEF Walks
  <2>4. locals[i] \in Int
    BY LocalsTyped
  <2>5. CASE i <= frame.VariableBegin
    <3>1. walk[Args(frame)] \in 0 .. frame.StackBegin - 1
      BY <1>1, <2>3
    <3>2. locals[i] <= walk[Args(frame)]
      BY <1>1, <2>2, <2>5
    <3> QED BY <1>1, <2>4, <3>1, <3>2
  <2>6. CASE i > frame.VariableBegin
    <3> DEFINE j == i - frame.VariableBegin
    <3>1. j \in 1 .. Args(frame) /\ i = frame.VariableBegin + j
      BY <1>1, <1>3, <2>6 DEF First
    <3>2. walk[j - 1] \in 0 .. frame.StackBegin - 1
      BY <1>1, <2>3, <3>1
    <3>3. locals[i] = walk[j - 1]
      BY <2>2, <3>1
    <3> QED BY <1>1, <3>2, <3>3
  <2> QED BY <1>1, <2>5, <2>6
<1>4. \A i \in First(frame) + 1 .. Len(locals) : i = Len(locals) \/ locals[i] < locals[Len(locals)]
  BY <1>1, <1>2 DEF Ascending
<1>5. \A i \in 1 .. Len(locals) : locals[i] \in 1 .. used
  BY <1>1, LocalsTyped DEF Isolated, LocalsApart
<1>6. First(frame) <= Len(locals)
  BY <1>2 DEF Ascending
<1> QED BY <1>1, <1>3, <1>4, <1>5, <1>6

\* Below an object on top that is not the newest local, and an object below it that is
\* not either, there are all locals.
LEMMA ClearTop ==
  ASSUME Inv, Isolated, status = "running", used > 0, IsObject(mem[used]), ~IsLocalVariable(0)
  PROVE  \A i \in 1 .. Len(locals) : locals[i] <= used - SizeOf(mem[used])
<1>1. used \in Nat /\ Len(locals) \in Nat /\ frame.StackBegin \in 0 .. used
  BY InvStack, FrameFacts
<1>2. \A i \in 1 .. Len(locals) : locals[i] \in 1 .. used - 1
  <2> SUFFICES ASSUME NEW i \in 1 .. Len(locals) PROVE locals[i] \in 1 .. used - 1
    OBVIOUS
  <2>1. locals[i] \in 1 .. used /\ locals[Len(locals)] \in 1 .. used
        /\ (locals[i] < frame.StackBegin \/ i = Len(locals) \/ locals[i] < locals[Len(locals)])
    BY <1>1, Ordered
  <2>2. locals[Len(locals)] # used
    BY <1>1 DEF IsLocalVariable
  <2> QED BY <1>1, <2>1, <2>2
<1> QED BY <1>1, <1>2 DEF Isolated, LocalsApart

LEMMA ClearPair ==
  ASSUME Inv, Isolated, status = "running", used > 0, IsObject(mem[used]), ~IsLocalVariable(0),
         NEW below \in Nat \ {0}, below = used - SizeOf(mem[used]), IsObject(mem[below]),
         ~IsLocalVariable(SizeOf(mem[used]))
  PROVE  \A i \in 1 .. Len(locals) : locals[i] <= below - SizeOf(mem[below])
<1>1. used \in Nat /\ Len(locals) \in Nat /\ frame.StackBegin \in 0 .. used
  BY InvStack, FrameFacts
<1>2. below \in 1 .. used /\ \A o \in below + 1 .. used : mem[o].shape # NoneType
  BY <1>1, InvStack, TopObject
<1>3. frame.StackBegin < below
  <2>1. frame.StackBegin = 0 \/ mem[frame.StackBegin].shape = NoneType
    BY FrameFacts
  <2>2. mem[below].shape # NoneType
    BY ProgramAssumption DEF IsObject
  <2> QED BY <1>1, <1>2, <2>1, <2>2
<1>4. \A i \in 1 .. Len(locals) : locals[i] \in 1 .. below - 1
  <2> SUFFICES ASSUME NEW i \in 1 .. Len(locals) PROVE locals[i] \in 1 .. below - 1
    OBVIOUS
  <2>1. locals[i] \in 1 .. used /\ locals[Len(locals)] \in 1 .. used
        /\ (locals[i] < frame.StackBegin \/ i = Len(locals) \/ locals[i] < locals[Len(locals)])
    BY <1>1, Ordered
  <2>2. locals[i] <= below /\ locals[Len(locals)] <= below
    BY <1>1, ClearTop
  <2>3. locals[Len(locals)] # below
    BY <1>1 DEF IsLocalVariable
  <2> QED BY <1>1, <1>2, <1>3, <2>1, <2>2, <2>3
<1> QED BY <1>1, <1>2, <1>4 DEF Isolated, LocalsApart

\* m_StackFrame, apart from Caller.
SameFrame ==
  /\ frame'.StackBegin = frame.StackBegin
  /\ frame'.VariableBegin = frame.VariableBegin
  /\ frame'.Function = frame.Function

\* A frame keeps its arguments, and its caller its locals, when they stay where they are,
\* whatever happens to the values they hold.
LEMMA FrameCarried ==
  ASSUME Inv, Isolated, NEW e \in ActiveFrames, NEW f,
         f.StackBegin = e.StackBegin, f.VariableBegin = e.VariableBegin, f.Function = e.Function,
         First(e) <= Len(locals'),
         e.StackBegin > 0 => mem'[e.StackBegin] = mem[e.StackBegin],
         \A i \in 1 .. First(e) :
           /\ locals'[i] = locals[i]
           /\ IsObject(mem'[locals[i]]) /\ SizeOf(mem'[locals[i]]) = SizeOf(mem[locals[i]])
  PROVE  /\ First(f) <= Len(locals')
         /\ f.StackBegin = 0 => f.VariableBegin = 0
         /\ f.StackBegin > 0 => Ascending(mem[f.StackBegin].val, f.VariableBegin)'
         /\ ArgumentsHeld(f)'
<1>1. /\ e.StackBegin \in Nat /\ e.VariableBegin \in Nat /\ Args(e) \in Nat /\ First(e) \in Nat
      /\ First(e) = e.VariableBegin + Args(e)
      /\ e.StackBegin > 0 => mem[e.StackBegin].val \in ActiveFrames
      /\ Args(f) = Args(e) /\ First(f) = First(e)
  BY FrameFacts DEF First, Args
<1>2. /\ e.StackBegin = 0 => e.VariableBegin = 0
      /\ e.StackBegin > 0 => Ascending(mem[e.StackBegin].val, e.VariableBegin)
      /\ ArgumentsHeld(e)
  BY DEF Isolated, FramesApart
<1>3. ASSUME e.StackBegin > 0
      PROVE  \E walk \in Walks(ObjectSize, e.StackBegin - 1, Args(e))' :
               /\ \A j \in 1 .. Args(e) :
                    locals'[e.VariableBegin + j] = walk[j - 1]
               /\ \A i \in 1 .. e.VariableBegin : locals'[i] <= walk[Args(e)]
  <2>1. PICK walk \in Walks(ObjectSize, e.StackBegin - 1, Args(e)) :
          /\ \A j \in 1 .. Args(e) :
               locals[e.VariableBegin + j] = walk[j - 1]
          /\ \A i \in 1 .. e.VariableBegin : locals[i] <= walk[Args(e)]
    BY <1>2, <1>3 DEF ArgumentsHeld
  <2>2. \A j \in 1 .. Args(e) : e.VariableBegin + j \in 1 .. First(e)
    BY <1>1
  <2>3. \A i \in 1 .. e.VariableBegin : i \in 1 .. First(e)
    BY <1>1
  <2>4. \A j \in 1 .. Args(e) :
          /\ locals'[e.VariableBegin + j] = walk[j - 1]
          /\ IsObject(mem'[walk[j - 1]]) /\ SizeOf(mem'[walk[j - 1]]) = SizeOf(mem[walk[j - 1]])
    BY <2>1, <2>2
  <2>5. walk \in Walks(ObjectSize, e.StackBegin - 1, Args(e))'
    BY <2>4 DEF Walks, SizeOf
  <2>6. \A i \in 1 .. e.VariableBegin : locals'[i] <= walk[Args(e)]
    BY <2>1, <2>3
  <2> QED BY <2>4, <2>5, <2>6
<1>4. ArgumentsHeld(f)'
  BY <1>1, <1>3 DEF ArgumentsHeld
<1>5. ASSUME e.StackBegin > 0
      PROVE  Ascending(mem[e.StackBegin].val, e.VariableBegin)'
  <2>1. mem'[e.StackBegin].val = mem[e.StackBegin].val
    BY <1>5
  <2>2. PICK d \in ActiveFrames : d = mem[e.StackBegin].val
    BY <1>1, <1>5
  <2>3. Ascending(d, e.VariableBegin) /\ mem'[e.StackBegin].val = d /\ First(d) \in Nat
    BY <1>2, <1>5, <2>1, <2>2, FrameFacts
  <2>4. \A i \in First(d) + 1 .. e.VariableBegin : locals'[i] = locals[i]
    BY <1>1, <2>3
  <2>5. \A i \in First(d) + 1 .. e.VariableBegin : \A j \in First(d) + 1 .. i - 1 :
          j \in First(d) + 1 .. e.VariableBegin
    BY <1>1, <2>3
  <2>6. Ascending(d, e.VariableBegin)'
    BY <2>3, <2>4, <2>5 DEF Ascending, First, Args
  <2> QED BY <2>3, <2>6
<1> QED BY <1>1, <1>2, <1>4, <1>5

\* The frames keep their arguments when the saved frames stay, and the locals that are
\* not the running function's own.
LEMMA FramesKept ==
  ASSUME Inv, Inv', Isolated, KeepsFrames, SameFrame,
         First(frame) <= Len(locals'),
         \A i \in 1 .. First(frame) :
           /\ locals'[i] = locals[i]
           /\ IsObject(mem'[locals[i]]) /\ SizeOf(mem'[locals[i]]) = SizeOf(mem[locals[i]])
  PROVE  FramesApart'
<1>1. /\ frame \in ActiveFrames /\ Len(locals') \in Nat
      /\ \A f \in ActiveFrames :
           /\ f.StackBegin \in Nat /\ f.VariableBegin \in Nat /\ Args(f) \in Nat /\ First(f) \in Nat
           /\ First(f) = f.VariableBegin + Args(f)
           /\ f.StackBegin > 0 => f.StackBegin \in SavedFrames
           /\ f = frame \/ f.StackBegin < frame.StackBegin
  <2>1. Len(locals') \in Nat
    BY DEF Inv, TypeOK
  <2> QED BY <2>1, FrameFacts DEF First
<1>2. \A f \in ActiveFrames : First(f) <= First(frame)
  BY <1>1 DEF Isolated, FramesApart
<1>3. \A f \in ActiveFrames' : \E e \in ActiveFrames :
         f.StackBegin = e.StackBegin /\ f.VariableBegin = e.VariableBegin /\ f.Function = e.Function
  <2>1. ActiveFrames' = {frame'} \cup {mem'[o].val : o \in SavedFrames'}
    BY DEF ActiveFrames
  <2>2. \A o \in SavedFrames' : mem'[o].val \in ActiveFrames
    BY DEF ActiveFrames, KeepsFrames
  <2> QED BY <1>1, <2>1, <2>2 DEF SameFrame
<1>4. ASSUME NEW f \in ActiveFrames'
      PROVE  /\ First(f) <= Len(locals')
             /\ f.StackBegin = 0 => f.VariableBegin = 0
             /\ f.StackBegin > 0 => Ascending(mem[f.StackBegin].val, f.VariableBegin)'
             /\ ArgumentsHeld(f)'
  <2>1. PICK e \in ActiveFrames :
          f.StackBegin = e.StackBegin /\ f.VariableBegin = e.VariableBegin /\ f.Function = e.Function
    BY <1>3
  <2>2. First(e) <= Len(locals') /\ \A i \in 1 .. First(e) : i \in 1 .. First(frame)
    BY <1>1, <1>2
  <2>3. e.StackBegin > 0 => mem'[e.StackBegin] = mem[e.StackBegin]
    BY <1>1 DEF KeepsFrames
  <2> QED BY <2>1, <2>2, <2>3, FrameCarried
<1>5. \A f, g \in ActiveFrames' : f.StackBegin < g.StackBegin => First(f) <= g.VariableBegin
  <2> SUFFICES ASSUME NEW f \in ActiveFrames', NEW g \in ActiveFrames', f.StackBegin < g.StackBegin
               PROVE  First(f) <= g.VariableBegin
    OBVIOUS
  <2>1. PICK d \in ActiveFrames :
          f.StackBegin = d.StackBegin /\ f.VariableBegin = d.VariableBegin /\ f.Function = d.Function
    BY <1>3
  <2>2. PICK e \in ActiveFrames :
          g.StackBegin = e.StackBegin /\ g.VariableBegin = e.VariableBegin /\ g.Function = e.Function
    BY <1>3
  <2>3. First(f) = First(d)
    BY <2>1 DEF Args, First
  <2> QED BY <2>1, <2>2, <2>3 DEF Isolated, FramesApart
<1> QED BY <1>4, <1>5 DEF FramesApart

\* What lies on top was replaced down to an offset above which there are no frames and
\* no locals but the newest, which may be forgotten with it.
LEMMA TopRewritten ==
  ASSUME Inv, Inv', Isolated, status = "running", SameFrame,
         NEW top \in Nat, top <= used, top <= used',
         \A o \in 1 .. top : mem'[o] = mem[o],
         \A o \in top + 1 .. used : mem[o].shape # NoneType,
         \A o \in top + 1 .. used' : mem'[o].shape # NoneType /\ top <= o - SizeOf(mem'[o]),
         \/ locals' = locals
         \/ Len(locals) > First(frame) /\ locals' = SubSeq(locals, 1, Len(locals) - 1),
         \A i \in 1 .. Len(locals') : locals[i] <= top
  PROVE  Isolated'
<1>1. /\ used \in Nat /\ used' \in Nat /\ locals \in Seq(1 .. StackSize)
      /\ Len(locals) \in Nat /\ First(frame) \in Nat /\ First(frame) <= Len(locals)
  <2>1. used' \in Nat
    BY DEF Inv, TypeOK
  <2> QED BY <2>1, InvStack, Ordered
<1>2. /\ Len(locals') \in Nat /\ Len(locals') <= Len(locals) /\ First(frame) <= Len(locals')
      /\ \A i \in 1 .. Len(locals') : locals'[i] = locals[i]
  <2>1. CASE locals' = locals
    BY <1>1, <2>1
  <2>2. CASE Len(locals) > First(frame) /\ locals' = SubSeq(locals, 1, Len(locals) - 1)
    BY <1>1, <2>2
  <2> QED BY <2>1, <2>2
<1>3. \A i \in 1 .. Len(locals') : locals[i] \in 1 .. top
  BY <1>1, <1>2, LocalsTyped
<1>4. KeepsFrames
  <2>1. \A o \in SavedFrames : o \in 1 .. top
    BY <1>1 DEF SavedFrames
  <2>2. \A o \in SavedFrames' : o \in 1 .. top
    BY <1>1 DEF SavedFrames
  <2> QED BY <1>1, <2>1, <2>2 DEF KeepsFrames, SavedFrames
<1>5. LocalsApart'
  <2> SUFFICES ASSUME NEW i \in 1 .. Len(locals')
               PROVE  /\ locals'[i] <= used' /\ IsObject(mem'[locals'[i]])
                      /\ \A o \in locals'[i] + 1 .. used' : locals'[i] <= o - SizeOf(mem'[o])
    BY DEF LocalsApart
  <2> DEFINE a == locals[i]
  <2>1. a \in 1 .. top /\ locals'[i] = a /\ IsObject(mem[a]) /\ mem'[a] = mem[a]
    BY <1>1, <1>2, <1>3 DEF Isolated, LocalsApart
  <2>2. \A o \in a + 1 .. used : a <= o - SizeOf(mem[o])
    BY <1>1, <1>2 DEF Isolated, LocalsApart
  <2> HIDE DEF a
  <2>3. ASSUME NEW o \in a + 1 .. used' PROVE a <= o - SizeOf(mem'[o])
    <3>1. CASE o <= top
      BY <1>1, <2>1, <2>2, <3>1
    <3>2. CASE o > top
      <4>1. top <= o - SizeOf(mem'[o]) /\ SizeOf(mem'[o]) \in Nat
        BY <1>1, <2>1, <3>2, SizeFacts
      <4> QED BY <2>1, <4>1
    <3> QED BY <2>1, <3>1, <3>2
  <2> QED BY <1>1, <2>1, <2>3
<1>6. FramesApart'
  <2>1. \A i \in 1 .. First(frame) : i \in 1 .. Len(locals') /\ i \in 1 .. Len(locals)
    BY <1>1, <1>2
  <2>2. \A i \in 1 .. First(frame) : locals[i] \in 1 .. top /\ mem'[locals[i]] = mem[locals[i]]
    BY <1>3, <2>1
  <2>3. \A i \in 1 .. First(frame) : IsObject(mem[locals[i]]) /\ locals'[i] = locals[i]
    BY <1>2, <2>1 DEF Isolated, LocalsApart
  <2> QED BY <1>2, <1>4, <2>2, <2>3, FramesKept
<1>7. Ascending(frame, Len(locals))'
  <2>1. Ascending(frame, Len(locals))
    BY DEF Isolated
  <2>2. First(frame)' = First(frame)
    BY DEF SameFrame, First, Args
  <2>3. \A i \in First(frame) + 1 .. Len(locals') :
          i \in First(frame) + 1 .. Len(locals) /\ locals'[i] = locals[i]
    BY <1>1, <1>2
  <2>4. \A i \in First(frame) + 1 .. Len(locals') : \A j \in First(frame) + 1 .. i - 1 :
          j \in First(frame) + 1 .. Len(locals')
    BY <1>1, <1>2
  <2> QED BY <1>2, <2>1, <2>2, <2>3, <2>4 DEF Ascending, SameFrame
<1> QED BY <1>5, <1>6, <1>7 DEF Isolated

\* Nothing in an object reaches below it.
LEMMA OneObject ==
  ASSUME Inv', NEW top \in Nat, used' > 0, IsObject(mem'[used']), used' - SizeOf(mem'[used']) = top
  PROVE  /\ top < used'
         /\ \A o \in top + 1 .. used' : mem'[o].shape # NoneType /\ top <= o - SizeOf(mem'[o])
<1>1. used' \in 1 .. used' /\ NestedIn(mem', used') /\ mem'[used'].shape # NoneType
  BY ProgramAssumption DEF Inv, TypeOK, ObjectsNested, IsObject
<1>2. SizeOf(mem'[used']) \in Nat \ {0}
  BY SizeFacts
<1>3. ASSUME NEW o \in top + 1 .. used' PROVE mem'[o].shape # NoneType /\ top <= o - SizeOf(mem'[o])
  <2>1. CASE o = used'
    BY <1>1, <1>2, <2>1
  <2>2. CASE o # used'
    <3>1. o \in used' - SizeOf(mem'[used']) + 1 .. used' - 1
      BY <1>1, <1>2, <2>2
    <3> QED BY <1>1, <3>1 DEF NestedIn
  <2> QED BY <2>1, <2>2
<1> QED BY <1>1, <1>2, <1>3

\* One object was placed above all locals.
LEMMA TopPlaced ==
  ASSUME Inv, Inv', Isolated, status = "running", SameFrame, locals' = locals,
         NEW top \in Nat, top <= used,
         \A o \in top + 1 .. used : mem[o].shape # NoneType,
         \A i \in 1 .. Len(locals) : locals[i] <= top,
         NEW block \in Seq(Cells), Len(block) > 0, IsObject(block[1]), SizeOf(block[1]) = Len(block),
         mem' = Placed(mem, block, used'), used' = top + Len(block)
  PROVE  Isolated'
<1>1. used' \in 1 .. StackSize /\ StackSize \in Nat /\ used \in 0 .. StackSize /\ Len(block) \in Nat
  BY InvStack DEF Inv, TypeOK
<1>2. mem'[used'] = block[1] /\ \A o \in 1 .. top : mem'[o] = mem[o]
  BY <1>1 DEF Placed
<1>3. /\ top < used'
      /\ \A o \in top + 1 .. used' : mem'[o].shape # NoneType /\ top <= o - SizeOf(mem'[o])
  <2>1. used' - SizeOf(mem'[used']) = top /\ IsObject(mem'[used']) /\ used' > 0
    BY <1>1, <1>2
  <2> QED BY <2>1, OneObject
<1>4. top <= used' /\ \A i \in 1 .. Len(locals') : locals[i] <= top
  BY <1>1, <1>3
<1> QED BY <1>2, <1>3, <1>4, TopRewritten

\* Objects were taken off the top, and with them the newest local if it was there.
LEMMA TopTaken ==
  ASSUME Inv, Inv', Isolated, status = "running", SameFrame,
         \/ locals' = locals
         \/ Len(locals) > First(frame) /\ locals' = SubSeq(locals, 1, Len(locals) - 1),
         NEW top \in Nat, top <= used,
         \A o \in top + 1 .. used : mem[o].shape # NoneType,
         \A i \in 1 .. Len(locals') : locals[i] <= top,
         mem' = Trimmed(mem, top), used' = top
  PROVE  Isolated'
<1>1. used' \in 0 .. StackSize /\ StackSize \in Nat /\ used \in 0 .. StackSize
  BY InvStack DEF Inv, TypeOK
<1>2. \A o \in 1 .. top : mem'[o] = mem[o]
  BY <1>1 DEF Trimmed, Placed
<1> QED BY <1>1, <1>2, TopRewritten

\* Nothing but m_StackFrame.Caller, the exception and the status changed.
LEMMA StackKept ==
  ASSUME Inv, Inv', Isolated, SameFrame, UNCHANGED <<mem, used, locals>>,
         status' = "running" => status = "running"
  PROVE  Isolated'
<1>1. KeepsFrames
  BY DEF KeepsFrames, SavedFrames
<1>2. LocalsApart'
  BY DEF Isolated, LocalsApart
<1>3. First(frame) <= Len(locals')
  BY FrameFacts DEF Isolated, FramesApart
<1>4. FramesApart'
  <2>1. \A i \in 1 .. First(frame) : i \in 1 .. Len(locals)
    BY <1>3, FrameFacts, LocalsTyped
  <2>2. \A i \in 1 .. First(frame) : IsObject(mem[locals[i]])
    BY <2>1 DEF Isolated, LocalsApart
  <2> QED BY <1>1, <1>3, <2>2, FramesKept
<1>5. ASSUME status' = "running" PROVE Ascending(frame, Len(locals))'
  BY <1>5 DEF Isolated, SameFrame, Ascending, First, Args
<1> QED BY <1>2, <1>4, <1>5 DEF Isolated

-----------------------------------------------------------------------------
(* Isolation: one lemma per action *)

LEMMA OccurExceptionIsolated ==
  ASSUME Inv, Inv', Isolated, NEW code, OccurException(code)
  PROVE  Isolated'
  BY StackKept DEF OccurException, Occur, SameFrame

LEMMA CrashIsolated ==
  ASSUME Inv, Inv', Isolated, Crash
  PROVE  Isolated'
  BY StackKept DEF Crash, SameFrame

LEMMA AdvanceSame == Inv /\ Advance => SameFrame
  BY DEF Inv, TypeOK, StackFrame, Advance, SameFrame

LEMMA JumpSame ==
  ASSUME Inv, NEW index, frame' = [frame EXCEPT !.Caller = index]
  PROVE  SameFrame
  BY DEF Inv, TypeOK, StackFrame, SameFrame

\* A new object has the header that its shape says.
LEMMA NewHeader ==
  ASSUME NEW s \in Shapes, NEW value \in Values
  PROVE  /\ NewObject(s, value) \in Seq(Cells) /\ Len(NewObject(s, value)) = ObjectSize[s]
         /\ Len(NewObject(s, value)) > 0 /\ IsObject(NewObject(s, value)[1])
         /\ SizeOf(NewObject(s, value)[1]) = Len(NewObject(s, value))
<1>1. ObjectSize[s] \in Nat \ {0} /\ Layout[s][1] = s
  BY SizeFacts, LayoutAssumption
<1>2. NewObject(s, value) \in Seq(Cells) /\ Len(NewObject(s, value)) = ObjectSize[s]
  BY NewObjectBlock
<1>3. NewObject(s, value)[1] = [shape |-> s, val |-> value]
  BY <1>1 DEF NewObject
<1> QED BY <1>1, <1>2, <1>3 DEF IsObject, SizeOf

LEMMA PushAnyIsolated ==
  ASSUME Inv, Inv', Isolated, status = "running", NEW shapes \in SUBSET Shapes, PushAny(shapes)
  PROVE  Isolated'
<1> SUFFICES ASSUME ~ \E code : OccurException(code) PROVE Isolated'
  BY OccurExceptionIsolated
<1>1. PICK s \in shapes, value \in Values : PushObject(NewObject(s, value)) /\ Advance /\ UNCHANGED locals
  BY DEF PushAny
<1>2. SameFrame /\ locals' = locals
  BY <1>1, AdvanceSame
<1> DEFINE block == NewObject(s, value)
<1>3. /\ block \in Seq(Cells) /\ Len(block) > 0 /\ IsObject(block[1]) /\ SizeOf(block[1]) = Len(block)
  BY NewHeader
<1>4. mem' = Placed(mem, block, used') /\ used' = used + Len(block)
  BY <1>1 DEF PushObject
<1> HIDE DEF block
<1>5. /\ used \in Nat /\ used <= used /\ \A o \in used + 1 .. used : mem[o].shape # NoneType
      /\ \A i \in 1 .. Len(locals) : locals[i] <= used
  BY InvStack DEF Isolated, LocalsApart
<1> QED BY <1>2, <1>3, <1>4, <1>5, TopPlaced

LEMMA PushIsolated == Inv /\ Inv' /\ Isolated /\ InterpretPush => Isolated'
<1>1. Numbers \cup Structs \in SUBSET Shapes
  BY ProgramAssumption DEF Shapes
<1> QED BY <1>1, PushAnyIsolated DEF InterpretPush, Fetch

\* All locals lie below a scalar on top that is not the newest local.
LEMMA ScalarClear ==
  ASSUME Inv, Isolated, status = "running", ScalarTop
  PROVE  /\ used \in Nat \ {0} /\ used - 1 \in Nat /\ used - 1 <= used
         /\ \A o \in used - 1 + 1 .. used : mem[o].shape # NoneType
         /\ \A i \in 1 .. Len(locals) : locals[i] <= used - 1
<1>1. /\ used \in Nat \ {0} /\ used - 1 \in Nat /\ used - 1 <= used /\ used > 0
      /\ \A o \in used - 1 + 1 .. used : mem[o].shape # NoneType
  BY ScalarOperands DEF ScalarTop
<1>2. IsObject(mem[used]) /\ SizeOf(mem[used]) = 1 /\ ~IsLocalVariable(0)
  BY LayoutAssumption DEF ScalarTop, IsObject, SizeOf, Shapes
<1>3. \A i \in 1 .. Len(locals) : locals[i] <= used - SizeOf(mem[used])
  BY <1>1, <1>2, ClearTop
<1> QED BY <1>1, <1>2, <1>3

LEMMA ReplaceTopIsolated ==
  ASSUME Inv, Inv', Isolated, status = "running", ScalarTop,
         NEW block \in Seq(Cells), Len(block) > 0, IsObject(block[1]), SizeOf(block[1]) = Len(block),
         ReplaceTop(block)
  PROVE  Isolated'
<1> SUFFICES ASSUME ~ \E code : OccurException(code) PROVE Isolated'
  BY OccurExceptionIsolated
<1>1. used' = used - 1 + Len(block) /\ mem' = Placed(mem, block, used') /\ Advance /\ UNCHANGED locals
  BY DEF ReplaceTop
<1>2. SameFrame /\ locals' = locals
  BY <1>1, AdvanceSame
<1> QED BY <1>1, <1>2, ScalarClear, TopPlaced

LEMMA OccurAndPopIsolated ==
  ASSUME Inv, Inv', Isolated, status = "running", ScalarTop, NEW code, OccurAndPop(code)
  PROVE  Isolated'
<1>1. SameFrame /\ locals' = locals /\ mem' = Trimmed(mem, used - 1) /\ used' = used - 1
  BY DEF OccurAndPop, SameFrame, Reduce
<1> QED BY <1>1, ScalarClear, TopTaken

LEMMA APushIsolated == Inv /\ Inv' /\ Isolated /\ InterpretAPush => Isolated'
<1> SUFFICES ASSUME Inv, Inv', Isolated, InterpretAPush, ~ \E code : OccurException(code), ~Crash
             PROVE  Isolated'
  BY OccurExceptionIsolated, CrashIsolated
<1>1. PICK s \in Arrays :
        ~IsLocalVariable(0) /\ ~IsNull(used) /\ mem[used].shape \in Numbers /\ ReplaceTop(NewObject(s, Zero))
  BY DEF InterpretAPush, CountOnTop
<1>2. s \in Shapes /\ Zero \in Values /\ ScalarTop /\ status = "running"
  BY <1>1, ProgramAssumption DEF Shapes, ScalarTop, InterpretAPush, Fetch
<1> DEFINE block == NewObject(s, Zero)
<1>3. /\ block \in Seq(Cells) /\ Len(block) > 0 /\ IsObject(block[1]) /\ SizeOf(block[1]) = Len(block)
  BY <1>2, NewHeader
<1>4. ReplaceTop(block)
  BY <1>1
<1> HIDE DEF block
<1> QED BY <1>2, <1>3, <1>4, ReplaceTopIsolated

LEMMA PopIsolated == Inv /\ Inv' /\ Isolated /\ InterpretPop => Isolated'
<1> SUFFICES ASSUME Inv, Inv', Isolated, InterpretPop PROVE Isolated'
  OBVIOUS
<1>1. /\ status = "running" /\ used \in Nat /\ Len(locals) \in Nat
      /\ locals' = IF IsLocalVariable(0) THEN SubSeq(locals, 1, Len(locals) - 1) ELSE locals
  BY InvStack DEF InterpretPop, Fetch
<1>2. ASSUME IsLocalVariable(0)
      PROVE  /\ Len(locals) > First(frame) /\ used > 0 /\ IsObject(mem[used])
             /\ \A i \in 1 .. Len(locals) - 1 : locals[i] <= used - SizeOf(mem[used])
  <2>1. Len(locals) \in 1 .. Len(locals) /\ locals[Len(locals)] = used
    <3>1. locals # <<>> /\ locals[Len(locals)] = used /\ locals \in Seq(1 .. StackSize)
      BY <1>1, <1>2, InvStack DEF IsLocalVariable
    <3> QED BY <3>1
  <2>2. frame.StackBegin \in 0 .. used /\ First(frame) \in Nat
    BY FrameFacts
  <2>3. used > 0 /\ IsObject(mem[used]) /\ Len(locals) > First(frame)
    <3>1. locals[Len(locals)] \in 1 .. used
          /\ (locals[Len(locals)] < frame.StackBegin \/ Len(locals) > First(frame))
      BY <1>1, <2>1, Ordered
    <3> QED BY <1>1, <2>1, <2>2, <3>1 DEF Isolated, LocalsApart
  <2>4. \A i \in 1 .. Len(locals) - 1 : locals[i] \in 1 .. used - 1
    <3> SUFFICES ASSUME NEW i \in 1 .. Len(locals) - 1 PROVE locals[i] \in 1 .. used - 1
      OBVIOUS
    <3>1. i \in 1 .. Len(locals) /\ i # Len(locals)
      BY <1>1
    <3>2. locals[i] \in 1 .. used /\ (locals[i] < frame.StackBegin \/ locals[i] < locals[Len(locals)])
      BY <1>1, <3>1, Ordered
    <3> QED BY <1>1, <2>1, <2>2, <3>2
  <2>5. \A i \in 1 .. Len(locals) - 1 : used \in locals[i] + 1 .. used /\ i \in 1 .. Len(locals)
    BY <1>1, <2>4
  <2> QED BY <2>3, <2>5 DEF Isolated, LocalsApart
<1>3. CASE IsNull(used) \/ ~IsObject(mem[used])
  <2>1. Occur(frame.Function, frame.Caller, "STACK_EMPTY")
    BY <1>3 DEF InterpretPop
  <2>2. locals' = locals
    BY <1>1, <1>2, <1>3 DEF IsNull
  <2> QED BY <2>1, <2>2, StackKept DEF Occur, SameFrame
<1>4. CASE ~(IsNull(used) \/ ~IsObject(mem[used]))
  <2>1. used > 0 /\ IsObject(mem[used]) /\ Reduce(ObjectSize[mem[used].shape]) /\ SameFrame
    BY <1>1, <1>4, AdvanceSame DEF InterpretPop, IsNull
  <2> DEFINE top == used - SizeOf(mem[used])
  <2>2. /\ top \in Nat /\ top <= used /\ SizeOf(mem[used]) = ObjectSize[mem[used].shape]
        /\ \A o \in top + 1 .. used : mem[o].shape # NoneType
    BY <2>1, <1>1, InvStack, TopObject
  <2>3. mem' = Trimmed(mem, top) /\ used' = top
    BY <2>1, <2>2 DEF Reduce
  <2> HIDE DEF top
  <2>4. CASE IsLocalVariable(0)
    <3>1. Len(locals) > First(frame) /\ locals' = SubSeq(locals, 1, Len(locals) - 1)
          /\ Len(locals') = Len(locals) - 1
      <4>1. locals \in Seq(1 .. StackSize) /\ Len(locals) - 1 \in Nat
        BY <1>1, <1>2, <2>4, FrameFacts, InvStack
      <4>2. locals' = SubSeq(locals, 1, Len(locals) - 1)
        BY <1>1, <2>4
      <4>3. Len(SubSeq(locals, 1, Len(locals) - 1)) = Len(locals) - 1
        <5>1. Len(locals) - 1 <= Len(locals)
          BY <1>1
        <5> QED BY <4>1, <5>1, FrontFacts
      <4> QED BY <1>2, <2>4, <4>2, <4>3
    <3>2. \A i \in 1 .. Len(locals') : locals[i] <= top
      BY <1>2, <2>4, <3>1 DEF top
    <3> QED BY <1>1, <2>1, <2>2, <2>3, <3>1, <3>2, TopTaken
  <2>5. CASE ~IsLocalVariable(0)
    <3>1. locals' = locals /\ \A i \in 1 .. Len(locals') : locals[i] <= top
      BY <1>1, <2>1, <2>5, ClearTop DEF top
    <3> QED BY <1>1, <2>1, <2>2, <2>3, <3>1, TopTaken
  <2> QED BY <2>4, <2>5
<1> QED BY <1>3, <1>4

LEMMA LoadIsolated == \A operand \in Operands : Inv /\ Inv' /\ Isolated /\ InterpretLoad(operand) => Isolated'
<1> SUFFICES ASSUME NEW operand \in Operands, Inv, Inv', Isolated, InterpretLoad(operand),
                    ~ \E code : OccurException(code), ~Crash
             PROVE  Isolated'
  BY OccurExceptionIsolated, CrashIsolated
<1> DEFINE index == LocalIndex(operand)
           offset == locals[index + 1]
<1>1. /\ ~(index >= Len(locals)) /\ PushObject(ObjectAt(offset)) /\ Advance /\ UNCHANGED locals
  BY DEF InterpretLoad
<1>2. status = "running" /\ SameFrame /\ locals' = locals
  BY <1>1, AdvanceSame DEF InterpretLoad, Fetch
<1>3. index \in Nat
  BY LocalIndexTyped
<1> HIDE DEF index
<1>4. index + 1 \in 1 .. Len(locals)
  BY <1>1, <1>3, InvStack
<1>5. offset \in 1 .. used /\ IsObject(mem[offset])
  BY <1>2, <1>4, Ordered DEF Isolated, LocalsApart
<1> DEFINE block == ObjectAt(offset)
<1>6. /\ block \in Seq(Cells) /\ Len(block) = SizeOf(mem[offset]) /\ block[1] = mem[offset]
      /\ SizeOf(mem[offset]) \in Nat \ {0}
  <2> HIDE DEF offset
  <2>1. /\ block \in Seq(Cells) /\ Len(block) = SizeOf(mem[offset]) /\ SizeOf(mem[offset]) \in Nat \ {0}
        /\ \A i \in 1 .. SizeOf(mem[offset]) : block[i] = mem[offset - i + 1]
    BY <1>5, ObjectBlock, SizeFacts, InvStack DEF StackOK, ObjectsNested
  <2>2. block[1] = mem[offset - 1 + 1] /\ offset - 1 + 1 = offset
    BY <1>5, <2>1
  <2> QED BY <2>1, <2>2
<1>7. mem' = Placed(mem, block, used') /\ used' = used + Len(block)
  BY <1>1 DEF PushObject
<1>8. /\ Len(block) > 0 /\ IsObject(block[1]) /\ SizeOf(block[1]) = Len(block)
  BY <1>5, <1>6
<1> HIDE DEF block
<1>9. /\ used \in Nat /\ used <= used /\ \A o \in used + 1 .. used : mem[o].shape # NoneType
      /\ \A i \in 1 .. Len(locals) : locals[i] <= used
  BY InvStack DEF Isolated, LocalsApart
<1> QED BY <1>2, <1>6, <1>7, <1>8, <1>9, TopPlaced

\* The running function's frame is not an object.
LEMMA FrameBelow ==
  ASSUME Inv, NEW o \in Nat \ {0}, IsObject(mem[o]), frame.StackBegin <= o
  PROVE  frame.StackBegin < o
<1>1. frame.StackBegin \in Nat /\ (frame.StackBegin = 0 \/ mem[frame.StackBegin].shape = NoneType)
  BY FrameFacts, InvStack
<1>2. mem[o].shape # NoneType
  BY ProgramAssumption DEF IsObject
<1> QED BY <1>1, <1>2

LEMMA StoreNewIsolated == \A operand \in Operands : Inv /\ Inv' /\ Isolated /\ StoreNew(operand) => Isolated'
<1> SUFFICES ASSUME NEW operand \in Operands, Inv, Inv', Isolated, StoreNew(operand),
                    ~ \E code : OccurException(code)
             PROVE  Isolated'
  BY OccurExceptionIsolated
<1>1. /\ ~IsLocalVariable(0) /\ ~IsNull(used) /\ IsObject(mem[used])
      /\ locals' = Append(locals, used) /\ Advance /\ UNCHANGED <<mem, used>>
  BY DEF StoreNew
<1>2. status = "running" /\ SameFrame
  BY <1>1, AdvanceSame DEF StoreNew, Fetch
<1>3. /\ used \in Nat \ {0} /\ frame.StackBegin < used /\ First(frame) \in Nat /\ Len(locals) \in Nat
      /\ First(frame) <= Len(locals)
  <2>1. used \in Nat \ {0} /\ frame.StackBegin <= used
    BY <1>1, InvStack, FrameFacts DEF IsNull
  <2> QED BY <1>1, <1>2, <2>1, FrameBelow, Ordered
<1>4. \A i \in 1 .. Len(locals) : locals[i] < used
  <2>1. \A i \in 1 .. Len(locals) : locals[i] <= used - SizeOf(mem[used]) /\ locals[i] \in Nat
    BY <1>1, <1>2, <1>3, ClearTop, LocalsTyped
  <2>2. SizeOf(mem[used]) \in Nat \ {0}
    BY SizeFacts
  <2> QED BY <1>3, <2>1, <2>2
<1>5. /\ Len(locals') = Len(locals) + 1 /\ locals'[Len(locals) + 1] = used
      /\ \A i \in 1 .. Len(locals) : locals'[i] = locals[i]
  BY <1>1, <1>3, InvStack
<1>6. LocalsApart'
  <2>1. \A i \in 1 .. Len(locals') : i \in 1 .. Len(locals) \/ i = Len(locals) + 1
    BY <1>3, <1>5
  <2>2. ~ \E o \in used + 1 .. used : TRUE
    BY <1>3
  <2>3. used <= used
    BY <1>3
  <2> QED BY <1>1, <1>5, <2>1, <2>2, <2>3 DEF Isolated, LocalsApart
<1>7. KeepsFrames
  BY <1>1 DEF KeepsFrames, SavedFrames
<1>8. FramesApart'
  <2>1. First(frame) <= Len(locals') /\ \A i \in 1 .. First(frame) : i \in 1 .. Len(locals)
    BY <1>3, <1>5
  <2>2. \A i \in 1 .. First(frame) : IsObject(mem[locals[i]])
    BY <2>1 DEF Isolated, LocalsApart
  <2> QED BY <1>1, <1>2, <1>5, <1>7, <2>1, <2>2, FramesKept
<1>9. Ascending(frame, Len(locals))'
  <2>1. First(frame)' = First(frame) /\ Ascending(frame, Len(locals))
    BY <1>2 DEF SameFrame, First, Args, Isolated
  <2>2. ASSUME NEW i \in First(frame) + 1 .. Len(locals')
        PROVE  /\ frame.StackBegin < locals'[i]
               /\ \A j \in First(frame) + 1 .. i - 1 : locals'[j] < locals'[i]
    <3>1. CASE i \in First(frame) + 1 .. Len(locals)
      <4>1. \A j \in First(frame) + 1 .. i - 1 : j \in 1 .. Len(locals)
        BY <1>3, <3>1
      <4>2. i \in 1 .. Len(locals)
        BY <1>3, <3>1
      <4> QED BY <1>5, <2>1, <3>1, <4>1, <4>2 DEF Ascending
    <3>2. CASE i = Len(locals) + 1
      <4>1. \A j \in First(frame) + 1 .. i - 1 : j \in 1 .. Len(locals)
        BY <1>3, <3>2
      <4> QED BY <1>3, <1>4, <1>5, <3>2, <4>1
    <3> QED BY <1>3, <1>5, <3>1, <3>2
  <2>3. First(frame) <= Len(locals')
    BY <1>3, <1>5
  <2> QED BY <1>2, <2>1, <2>2, <2>3 DEF Ascending, SameFrame
<1> QED BY <1>6, <1>8, <1>9 DEF Isolated

LEMMA CopyIsolated == Inv /\ Inv' /\ Isolated /\ InterpretCopy => Isolated'
<1> SUFFICES ASSUME Inv, Inv', Isolated, InterpretCopy, ~ \E code : OccurException(code)
             PROVE  Isolated'
  BY OccurExceptionIsolated
<1> DEFINE top   == mem[used]
           block == Duplicate(ObjectAt(used))
           t     == used + TypeSize[top.shape] - SizeOf(top)
<1>1. /\ ~IsLocalVariable(0) /\ ~IsNull(used) /\ IsObject(top)
      /\ used' = used + TypeSize[top.shape]
      /\ mem' = Placed(mem, block, used')
      /\ Advance
      /\ UNCHANGED locals
  BY DEF InterpretCopy
<1>2. status = "running" /\ SameFrame /\ locals' = locals
  BY <1>1, AdvanceSame DEF InterpretCopy, Fetch
<1>3. used \in 1 .. used /\ used \in Nat /\ used > 0 /\ SizeOf(top) \in Nat \ {0}
  BY <1>1, InvStack, SizeFacts DEF IsNull
<1>4. /\ ObjectAt(used) \in Seq(Cells) /\ BlockNested(ObjectAt(used))
      /\ Len(ObjectAt(used)) = SizeOf(top) /\ SizeOf(top) \in 1 .. used
      /\ ObjectAt(used)[1] = top
      /\ \A i \in 1 .. Len(ObjectAt(used)) : ObjectAt(used)[i].shape # NoneType
  <2>1. mem \in [1 .. StackSize -> Cells] /\ used \in 0 .. StackSize /\ NestedIn(mem, used)
    BY InvStack DEF StackOK, ObjectsNested
  <2>2. mem[used - 1 + 1] = mem[used] /\ SizeOf(top) \in 1 .. used
    BY <1>3, <2>1, ObjectBlock
  <2>3. top.shape # NoneType
    BY <1>1, ProgramAssumption DEF IsObject
  <2> QED BY <1>3, <2>1, <2>2, <2>3, ObjectBlock
<1>5. block \in Seq(Cells) /\ Len(block) = SizeOf(top)
  BY <1>1, <1>3, <1>4, DuplicateBlock
<1>6. block[1] = top
  <2>1. 1 \in 1 .. Len(ObjectAt(used))
    BY <1>3, <1>4
  <2> QED BY <1>4, <2>1 DEF Duplicate
<1>7. TypeSize[top.shape] \in Nat /\ TypeSize[top.shape] <= SizeOf(top)
  BY <1>1, SizeFacts DEF IsObject, SizeOf
<1>8. /\ \A o \in used - SizeOf(top) + 1 .. used : mem[o].shape # NoneType
      /\ \A i \in 1 .. Len(locals) : locals[i] <= used - SizeOf(top) /\ locals[i] \in Nat
  BY <1>1, <1>2, <1>3, TopObject, ClearTop, LocalsTyped, InvStack
<1>9. IsObject(block[1]) /\ SizeOf(block[1]) = Len(block) /\ Len(block) > 0
  BY <1>1, <1>3, <1>5, <1>6
<1> HIDE DEF block, top
<1>10. t \in Nat /\ t <= used /\ used' = t + Len(block)
  BY <1>1, <1>3, <1>4, <1>5, <1>7
<1>11. \A i \in 1 .. Len(locals) : locals[i] <= t
  BY <1>3, <1>7, <1>8
<1>12. \A o \in t + 1 .. used : mem[o].shape # NoneType
  BY <1>3, <1>4, <1>7, <1>8
<1> HIDE DEF t
<1> QED BY <1>1, <1>2, <1>5, <1>9, <1>10, <1>11, <1>12, TopPlaced

\* An operation replaces scalars that are no locals by one scalar.
LEMMA YieldIsolated ==
  ASSUME Inv, Inv', Isolated, status = "running",
         NEW operands \in {1, 2}, NEW type \in Scalars, NEW results \in SUBSET Values,
         used - operands \in Nat, \A o \in used - operands + 1 .. used : mem[o].shape # NoneType,
         \A i \in 1 .. Len(locals) : locals[i] <= used - operands,
         Yield(operands, type, results)
  PROVE  Isolated'
<1>1. PICK result \in results :
        /\ mem' = Placed(mem, <<[shape |-> type, val |-> result]>>, used - operands + 1)
        /\ used' = used - operands + 1
        /\ Advance
        /\ UNCHANGED locals
  BY DEF Yield
<1> DEFINE block == NewObject(type, result)
<1>2. type \in Shapes /\ ObjectSize[type] = 1 /\ Layout[type][1] = type /\ result \in Values
  BY LayoutAssumption DEF Shapes
<1>3. block = <<[shape |-> type, val |-> result]>>
  BY <1>2 DEF NewObject
<1>4. block \in Seq(Cells) /\ Len(block) > 0 /\ IsObject(block[1]) /\ SizeOf(block[1]) = Len(block)
      /\ Len(block) = 1
  BY <1>2, NewHeader
<1>5. used - operands <= used /\ used \in Nat
  BY InvStack
<1> HIDE DEF block
<1>6. /\ mem' = Placed(mem, block, used') /\ used' = used - operands + Len(block)
      /\ SameFrame /\ locals' = locals
  BY <1>1, <1>3, <1>4, <1>5, AdvanceSame
<1> QED BY <1>4, <1>5, <1>6, TopPlaced

LEMMA BinaryIsolated ==
  Inv /\ Inv' /\ Isolated /\ (InterpretOperation \/ InterpretDiv \/ InterpretCmp) => Isolated'
<1> SUFFICES ASSUME Inv, Inv', Isolated, InterpretOperation \/ InterpretDiv \/ InterpretCmp,
                    ~ \E code : OccurException(code)
             PROVE  Isolated'
  BY OccurExceptionIsolated
<1> DEFINE top == mem[used].shape
<1>1. /\ ~ OccurException("STACK_EMPTY") /\ ~ OccurException("STACK_DIFFERENTTYPE")
      /\ ~ OccurException(InvalidOperand(top)) /\ ~ OccurException("POINTER_INVALIDFORPOINTER")
  OBVIOUS
<1>2. /\ ~ IsNull(used) /\ ~ IsNull(used - 1) /\ top \in Scalars /\ mem[used - 1].shape = top
      /\ ~IsLocalVariable(0) /\ ~IsLocalVariable(1) /\ status = "running"
  BY <1>1 DEF InterpretOperation, InterpretDiv, InterpretCmp, NumberOnTop, ScalarOnTop, PopTwoSameType, Fetch
<1>3. /\ 2 \in {1, 2} /\ used - 2 \in Nat /\ used - 1 \in Nat \ {0} /\ used \in Nat \ {0} /\ IntType \in Scalars
      /\ \A o \in used - 2 + 1 .. used : mem[o].shape # NoneType
      /\ \A o \in used - 1 + 1 .. used : mem[o].shape # NoneType
  BY <1>2, ScalarOperands, ProgramAssumption DEF IsNull
<1>4. /\ IsObject(mem[used]) /\ SizeOf(mem[used]) = 1
      /\ IsObject(mem[used - 1]) /\ SizeOf(mem[used - 1]) = 1
  BY <1>2, LayoutAssumption DEF IsObject, SizeOf, Shapes
<1>5. \A i \in 1 .. Len(locals) : locals[i] <= used - 2
  <2> DEFINE below == used - 1
  <2>1. below \in Nat \ {0} /\ below = used - SizeOf(mem[used]) /\ IsObject(mem[below]) /\ SizeOf(mem[below]) = 1
        /\ ~IsLocalVariable(SizeOf(mem[used])) /\ used > 0 /\ below - 1 = used - 2
    BY <1>2, <1>3, <1>4
  <2> HIDE DEF below
  <2>2. \A i \in 1 .. Len(locals) : locals[i] <= below - SizeOf(mem[below])
    BY <1>2, <1>4, <2>1, ClearPair
  <2> QED BY <2>1, <2>2
<1>6. Yield(2, top, Values) \/ Yield(2, IntType, Values) \/ OccurAndPop("ARITHMETIC_DIVIDEBYZERO")
  BY <1>1 DEF InterpretOperation, InterpretDiv, InterpretCmp, NumberOnTop, ScalarOnTop, PopTwoSameType
<1>7. CASE Yield(2, top, Values)
  BY <1>2, <1>3, <1>5, <1>7, YieldIsolated
<1>8. CASE Yield(2, IntType, Values)
  BY <1>2, <1>3, <1>5, <1>8, YieldIsolated
<1>9. CASE OccurAndPop("ARITHMETIC_DIVIDEBYZERO")
  <2>1. ScalarTop
    BY <1>2 DEF ScalarTop
  <2> QED BY <1>2, <1>9, <2>1, OccurAndPopIsolated
<1> QED BY <1>6, <1>7, <1>8, <1>9

LEMMA UnaryIsolated == Inv /\ Inv' /\ Isolated /\ (InterpretNeg \/ TypeCast) => Isolated'
<1> SUFFICES ASSUME Inv, Inv', Isolated, InterpretNeg \/ TypeCast, ~ \E code : OccurException(code)
             PROVE  Isolated'
  BY OccurExceptionIsolated
<1> DEFINE top == mem[used].shape
<1>1. ~ OccurException("STACK_EMPTY") /\ ~ OccurException(InvalidOperand(top))
      /\ ~ OccurException("POINTER_INVALIDFORPOINTER")
  OBVIOUS
<1>2. ~IsLocalVariable(0) /\ ~ IsNull(used) /\ top \in Scalars /\ IsObject(mem[used]) /\ status = "running"
  BY <1>1 DEF InterpretNeg, TypeCast, NumberOnTop, ScalarOnTop, Fetch
<1>3. PICK type \in Scalars, results \in SUBSET Values : Yield(1, type, results)
  <2>1. CASE InterpretNeg
    BY <1>1, <1>2, <2>1 DEF InterpretNeg, NumberOnTop, ScalarOnTop
  <2>2. CASE TypeCast
    <3>1. mem[used].val \in Values
      <4>1. mem[used] \in Cells
        BY <1>2, ScalarOperands, InvStack DEF StackOK
      <4> QED BY <1>2, <4>1, ProgramAssumption DEF Cells, IsObject, Raw, Shapes
    <3>2. PICK type \in Numbers : Yield(1, type, IF type = top THEN {mem[used].val} ELSE Values)
      BY <1>1, <2>2 DEF TypeCast, NumberOnTop, ScalarOnTop
    <3> QED BY <3>1, <3>2, ProgramAssumption
  <2> QED BY <2>1, <2>2
<1>4. 1 \in {1, 2} /\ used - 1 \in Nat /\ used > 0 /\ \A o \in used - 1 + 1 .. used : mem[o].shape # NoneType
  BY <1>2, ScalarOperands
<1>5. \A i \in 1 .. Len(locals) : locals[i] <= used - 1
  <2>1. SizeOf(mem[used]) = 1
    BY <1>2, LayoutAssumption DEF IsObject, SizeOf, Shapes
  <2> QED BY <1>2, <1>4, <2>1, ClearTop
<1> QED BY <1>2, <1>3, <1>4, <1>5, YieldIsolated

LEMMA UnhandledIsolated == Inv /\ Inv' /\ Isolated /\ Unhandled => Isolated'
  BY AdvanceSame, StackKept DEF Unhandled, Advance

LEMMA JmpIsolated == Inv /\ Inv' /\ Isolated /\ InterpretJmp => Isolated'
  BY JumpSame, StackKept DEF InterpretJmp

LEMMA JumpConditionIsolated == Inv /\ Inv' /\ Isolated /\ JumpCondition => Isolated'
<1> SUFFICES ASSUME Inv, Inv', Isolated, JumpCondition, ~ \E code : OccurException(code) PROVE Isolated'
  BY OccurExceptionIsolated
<1>1. /\ ~IsLocalVariable(0) /\ ~ IsNull(used) /\ mem[used].shape \in Scalars /\ IsObject(mem[used])
      /\ status = "running"
      /\ \/ Advance /\ UNCHANGED <<mem, used, locals>>
         \/ /\ \E label \in 0 .. InstructionCount[frame.Function] - 1 :
                 frame' = [frame EXCEPT !.Caller = label]
            /\ Reduce(1)
            /\ UNCHANGED <<depth, locals, exception, status>>
  BY DEF JumpCondition, Fetch
<1>2. CASE Advance /\ UNCHANGED <<mem, used, locals>>
  BY <1>2, AdvanceSame, StackKept DEF Advance
<1>3. CASE /\ \E label \in 0 .. InstructionCount[frame.Function] - 1 :
                frame' = [frame EXCEPT !.Caller = label]
           /\ Reduce(1)
           /\ UNCHANGED <<depth, locals, exception, status>>
  <2>1. SameFrame /\ locals' = locals /\ mem' = Trimmed(mem, used - 1) /\ used' = used - 1
    BY <1>3, JumpSame DEF Reduce
  <2>2. used \in Nat \ {0} /\ used - 1 \in Nat /\ used - 1 <= used /\ used > 0
        /\ \A o \in used - 1 + 1 .. used : mem[o].shape # NoneType
    BY <1>1, ScalarOperands
  <2>3. \A i \in 1 .. Len(locals') : locals[i] <= used - 1
    <3>1. SizeOf(mem[used]) = 1
      BY <1>1, LayoutAssumption DEF IsObject, SizeOf, Shapes
    <3> QED BY <1>1, <2>1, <2>2, <3>1, ClearTop
  <2> QED BY <1>1, <2>1, <2>2, <2>3, TopTaken
<1> QED BY <1>1, <1>2, <1>3

LEMMA AboveOrBelow ==
  ASSUME NEW top \in Nat, NEW n \in Nat, NEW o \in 1 .. n
  PROVE  o \in 1 .. top \/ o \in top + 1 .. n
OBVIOUS

\* Below the new top every cell is an object as before, or none.
LEMMA SizesKept ==
  ASSUME Inv, Inv', Isolated, SameFrame, locals' = locals, status = "running",
         used' <= used, \A o \in used' + 1 .. used : mem[o].shape # NoneType,
         \A o \in 1 .. used' :
           /\ IsObject(mem'[o]) = IsObject(mem[o]) /\ SizeOf(mem'[o]) = SizeOf(mem[o])
           /\ mem[o].shape = NoneType \/ mem'[o].shape = NoneType => mem'[o] = mem[o],
         \A i \in 1 .. Len(locals) : locals[i] <= used'
  PROVE  Isolated'
<1> PICK top : top = used'
  OBVIOUS
<1>1. used \in Nat /\ top \in Nat /\ top <= used
  BY InvStack DEF Inv, TypeOK
<1>2. KeepsFrames
  <2>1. \A o \in SavedFrames : o \in 1 .. top /\ mem'[o] = mem[o]
    <3> SUFFICES ASSUME NEW o \in SavedFrames PROVE o \in 1 .. top /\ mem'[o] = mem[o]
      OBVIOUS
    <3>1. o \in 1 .. used /\ mem[o].shape = NoneType
      BY DEF SavedFrames
    <3>2. \A p \in top + 1 .. used : mem[p].shape # NoneType
      OBVIOUS
    <3>3. o \in 1 .. top \/ o \in top + 1 .. used
      BY <1>1, <3>1, AboveOrBelow, Zenon
    <3>5. o \in 1 .. top
      BY <3>1, <3>2, <3>3, Zenon
    <3> QED BY <3>1, <3>5
  <2>2. \A o \in SavedFrames' : o \in 1 .. top /\ mem'[o] = mem[o]
    <3>1. \A o \in SavedFrames' : o \in 1 .. used' /\ mem'[o].shape = NoneType
      BY DEF SavedFrames
    <3> QED BY <3>1
  <2>3. \A o \in SavedFrames' : o \in SavedFrames
    BY <1>1, <2>2 DEF SavedFrames
  <2>4. \A o \in SavedFrames : o \in SavedFrames'
    BY <1>1, <2>1 DEF SavedFrames
  <2> QED BY <2>1, <2>3, <2>4 DEF KeepsFrames
<1>3. \A i \in 1 .. Len(locals) :
        /\ locals[i] \in 1 .. top /\ IsObject(mem[locals[i]])
        /\ IsObject(mem'[locals[i]]) /\ SizeOf(mem'[locals[i]]) = SizeOf(mem[locals[i]])
  <2>1. \A i \in 1 .. Len(locals) : locals[i] \in 1 .. top /\ IsObject(mem[locals[i]])
    BY <1>1, LocalsTyped DEF Isolated, LocalsApart
  <2> QED BY <2>1
<1>4. LocalsApart'
  <2> SUFFICES ASSUME NEW i \in 1 .. Len(locals)
               PROVE  \A o \in locals[i] + 1 .. top : locals[i] <= o - SizeOf(mem'[o])
    BY <1>1, <1>3 DEF LocalsApart
  <2>1. \A o \in locals[i] + 1 .. used : locals[i] <= o - SizeOf(mem[o])
    BY DEF Isolated, LocalsApart
  <2>2. \A o \in locals[i] + 1 .. top : o \in 1 .. top /\ o \in locals[i] + 1 .. used
    BY <1>1, <1>3
  <2> QED BY <2>1, <2>2
<1>5. First(frame) \in Nat /\ First(frame) <= Len(locals)
  BY Ordered
<1>6. FramesApart'
  <2>1. \A i \in 1 .. First(frame) : i \in 1 .. Len(locals)
    BY <1>5, LocalsTyped
  <2> QED BY <1>2, <1>3, <1>5, <2>1, FramesKept
<1>7. Ascending(frame, Len(locals))'
  BY DEF Isolated, SameFrame, Ascending, First, Args
<1> QED BY <1>4, <1>6, <1>7 DEF Isolated

LEMMA MemoryIsolated == Inv /\ Inv' /\ Isolated /\ MemoryInstruction => Isolated'
<1> SUFFICES ASSUME Inv, Inv', Isolated, MemoryEffect PROVE Isolated'
  BY MemoryEffects, OccurExceptionIsolated, CrashIsolated
<1>0. status = "running"
  BY DEF MemoryEffect, Fetch
<1>1. CASE \E shapes \in SUBSET Scalars : PushAny(shapes)
  <2>1. \A shapes \in SUBSET Scalars : shapes \in SUBSET Shapes
    BY DEF Shapes
  <2> QED BY <1>0, <1>1, <2>1, PushAnyIsolated
<1>2. CASE ScalarTop /\ \E type \in Scalars : Yield(1, type, Values)
  <2>1. 1 \in {1, 2} /\ Values \in SUBSET Values
    OBVIOUS
  <2> QED BY <1>0, <1>2, <2>1, ScalarClear, YieldIsolated
<1>3. CASE ScalarTop /\ Reduce(1) /\ Advance /\ UNCHANGED locals
  <2>1. SameFrame /\ locals' = locals /\ mem' = Trimmed(mem, used - 1) /\ used' = used - 1
    BY <1>3, AdvanceSame DEF Reduce
  <2> QED BY <1>0, <1>3, <2>1, ScalarClear, TopTaken
<1>4. CASE ScalarTop /\ \E code \in PointerErrors : OccurAndPop(code)
  BY <1>0, <1>4, OccurAndPopIsolated
<1>5. CASE ScalarTop /\ \E object \in Targets : ReplaceTop(object)
  <2>1. PICK object \in Targets : ReplaceTop(object)
    BY <1>5
  <2>2. object \in Seq(Cells) /\ Len(object) > 0 /\ IsObject(object[1]) /\ SizeOf(object[1]) = Len(object)
    BY TargetBlock
  <2> QED BY <1>0, <1>5, <2>1, <2>2, ReplaceTopIsolated
<1>6. CASE /\ ScalarTop /\ ~IsNull(used - 1) /\ mem[used - 1].shape \in Scalars
           /\ \E type \in Scalars : Yield(2, type, Values)
  <2>1. PICK type \in Scalars, result \in Values :
          /\ mem' = Placed(mem, <<[shape |-> type, val |-> result]>>, used - 2 + 1)
          /\ used' = used - 2 + 1 /\ Advance /\ UNCHANGED locals
    BY <1>6 DEF Yield
  <2>2. used \in Nat /\ used - 1 \in Nat \ {0} /\ used' = used - 1 /\ used <= StackSize /\ StackSize \in Nat
    <3>1. used \in 0 .. StackSize /\ StackSize \in Nat
      BY InvStack DEF StackOK
    <3> QED BY <1>6, <2>1, <3>1 DEF IsNull
  <2>3. /\ \A o \in 1 .. used - 2 : mem'[o] = mem[o]
        /\ mem'[used - 1] = [shape |-> type, val |-> result]
    BY <2>1, <2>2 DEF Placed
  <2>4. /\ IsObject(mem'[used - 1]) /\ IsObject(mem[used - 1])
        /\ SizeOf(mem'[used - 1]) = 1 /\ SizeOf(mem[used - 1]) = 1
        /\ mem[used - 1].shape # NoneType /\ mem'[used - 1].shape # NoneType
    BY <1>6, <2>3, LayoutAssumption, ProgramAssumption DEF IsObject, SizeOf, Shapes
  <2>5. \A o \in 1 .. used' :
          /\ IsObject(mem'[o]) = IsObject(mem[o]) /\ SizeOf(mem'[o]) = SizeOf(mem[o])
          /\ mem[o].shape = NoneType \/ mem'[o].shape = NoneType => mem'[o] = mem[o]
    <3> SUFFICES ASSUME NEW o \in 1 .. used - 1
                 PROVE  /\ IsObject(mem'[o]) = IsObject(mem[o]) /\ SizeOf(mem'[o]) = SizeOf(mem[o])
                        /\ mem[o].shape = NoneType \/ mem'[o].shape = NoneType => mem'[o] = mem[o]
      BY <2>2
    <3>1. CASE o = used - 1
      BY <2>4, <3>1
    <3>2. CASE o # used - 1
      <4>1. o \in 1 .. used - 2
        BY <2>2, <3>2
      <4>2. mem'[o] = mem[o]
        BY <2>3, <4>1
      <4> QED BY <4>2 DEF IsObject, SizeOf
    <3> QED BY <3>1, <3>2
  <2>6. SameFrame
    BY <2>1, AdvanceSame
  <2>7. used' <= used /\ \A o \in used' + 1 .. used : mem[o].shape # NoneType
    BY <1>0, <1>6, <2>2, ScalarClear
  <2>8. \A i \in 1 .. Len(locals) : locals[i] <= used'
    BY <1>0, <1>6, <2>2, ScalarClear
  <2> QED BY <1>0, <2>1, <2>5, <2>6, <2>7, <2>8, SizesKept
<1>7. CASE \E size \in Nat : /\ ScalarBelowTop(size)
                             /\ Reduce(size + 1) /\ Advance /\ UNCHANGED locals
  <2>1. PICK size \in Nat : /\ ScalarBelowTop(size)
                            /\ Reduce(size + 1) /\ Advance /\ UNCHANGED locals
    BY <1>7
  <2> PICK top : top = used - (size + 1)
    OBVIOUS
  <2>2. /\ top \in Nat /\ top <= used
        /\ \A o \in top + 1 .. used : mem[o].shape # NoneType
    BY <2>1, TwoOnTop
  <2>3. \A i \in 1 .. Len(locals) : locals[i] <= top
    <3> PICK below : below = used - size
      OBVIOUS
    <3>1. /\ used > 0 /\ used \in Nat /\ IsObject(mem[used]) /\ size = SizeOf(mem[used]) /\ ~IsLocalVariable(0)
          /\ ~IsLocalVariable(SizeOf(mem[used])) /\ below \in Nat \ {0} /\ below = used - SizeOf(mem[used])
      BY <2>1, InvStack DEF ScalarBelowTop, IsNull
    <3>2. IsObject(mem[below]) /\ SizeOf(mem[below]) = 1
      BY <2>1, LayoutAssumption DEF ScalarBelowTop, IsObject, SizeOf, Shapes
    <3>3. \A i \in 1 .. Len(locals) : locals[i] <= below - SizeOf(mem[below])
      BY <1>0, <3>1, <3>2, ClearPair
    <3>4. below - SizeOf(mem[below]) = top
      BY <3>1, <3>2
    <3> QED BY <3>3, <3>4
  <2>4. SameFrame /\ locals' = locals /\ mem' = Trimmed(mem, top) /\ used' = top
    BY <2>1, AdvanceSame DEF Reduce
  <2> QED BY <1>0, <2>2, <2>3, <2>4, TopTaken
<1> QED BY <1>1, <1>2, <1>3, <1>4, <1>5, <1>6, <1>7 DEF MemoryEffect

LEMMA FallOffIsolated == Inv /\ Inv' /\ Isolated /\ FallOff => Isolated'
  BY OccurExceptionIsolated, StackKept DEF FallOff, SameFrame

LEMMA StutterIsolated == Inv /\ Inv' /\ Isolated /\ UNCHANGED vars => Isolated'
  BY StackKept DEF vars, SameFrame

\* What lies below the new top stays.
LEMMA TrimmedBelow ==
  ASSUME NEW m, NEW t \in Int
  PROVE  \A o \in 1 .. StackSize : ~(o > t) => Trimmed(m, t)[o] = m[o]
  BY ProgramAssumption DEF Trimmed, Placed

LEMMA StoreOverIsolated ==
  ASSUME ~MixedSizes
  PROVE  \A operand \in Operands : Inv /\ Inv' /\ Isolated /\ StoreOver(operand) => Isolated'
<1> SUFFICES ASSUME NEW operand \in Operands, Inv, Inv', Isolated, StoreOver(operand),
                    ~ \E code : OccurException(code), ~Crash
             PROVE  Isolated'
  BY OccurExceptionIsolated, CrashIsolated
<1> DEFINE q      == locals[LocalIndex(operand) + 1]
           top    == mem[used]
           block  == ObjectAt(used)
           w      == [o \in 1 .. StackSize |->
                        IF o \in q - Len(block) + 1 .. q THEN block[q - o + 1] ELSE mem[o]]
<1>1. /\ ~IsLocalVariable(0) /\ LocalIndex(operand) < Len(locals) /\ ~IsNull(used)
      /\ SameType(top.shape, mem[q].shape) /\ IsObject(top)
      /\ top.shape \in Arrays => Exchangeable(top.shape, mem[q].shape)
      /\ used' = IF top.shape \in Arrays THEN used ELSE used - Len(block)
      /\ mem' = Trimmed(w, used')
      /\ Advance
      /\ locals' = locals
  BY DEF StoreOver
<1>2. status = "running" /\ SameFrame
  BY <1>1, AdvanceSame DEF StoreOver, Fetch
<1>3. LocalIndex(operand) + 1 \in 1 .. Len(locals) /\ used \in 1 .. StackSize /\ StackSize \in Nat
      /\ Len(locals) \in Nat /\ First(frame) \in Nat /\ First(frame) <= Len(locals)
  <2>1. LocalIndex(operand) + 1 \in 1 .. Len(locals) /\ used \in 1 .. StackSize /\ StackSize \in Nat
    BY <1>1, LocalIndexTyped, InvStack DEF IsNull, StackOK
  <2> QED BY <1>2, <2>1, Ordered
<1>4. /\ q \in 1 .. used /\ IsObject(mem[q]) /\ SizeOf(mem[q]) = SizeOf(top) /\ q <= used - SizeOf(top)
      /\ SizeOf(top) \in 1 .. used
      /\ \A o \in q + 1 .. used : q <= o - SizeOf(mem[o])
  <2>1. q \in 1 .. used /\ IsObject(mem[q]) /\ \A o \in q + 1 .. used : q <= o - SizeOf(mem[o])
    <3>1. locals[LocalIndex(operand) + 1] \in 1 .. used
      BY <1>2, <1>3, Ordered
    <3>2. /\ IsObject(mem[locals[LocalIndex(operand) + 1]])
          /\ \A o \in locals[LocalIndex(operand) + 1] + 1 .. used :
               locals[LocalIndex(operand) + 1] <= o - SizeOf(mem[o])
      BY <1>3 DEF Isolated, LocalsApart
    <3> QED BY <3>1, <3>2
  <2>2. SizeOf(mem[q]) = SizeOf(top)
    BY <1>1, SameSize DEF SameType, IsObject, Shapes
  <2>3. q <= used - SizeOf(top)
    BY <1>1, <1>2, <1>3, ClearTop
  <2>4. SizeOf(top) \in 1 .. used
    BY <1>1, <1>3, TopObject, InvStack
  <2> QED BY <2>1, <2>2, <2>3, <2>4
<1> DEFINE n == SizeOf(top)
<1>5. /\ Len(block) = n /\ block[1] = top /\ used - n \in Nat
      /\ \A i \in 1 .. Len(locals) : locals[i] \in 1 .. used - n
  <2>1. mem \in [1 .. StackSize -> Cells] /\ used \in 0 .. StackSize /\ NestedIn(mem, used)
    BY InvStack DEF StackOK, ObjectsNested
  <2>2. used \in 1 .. used /\ mem[used - 1 + 1] = mem[used] /\ 1 \in 1 .. n
    BY <1>3, <1>4
  <2>3. Len(block) = n /\ block[1] = mem[used - 1 + 1]
    BY <2>1, <2>2, ObjectBlock
  <2>4. \A i \in 1 .. Len(locals) : locals[i] <= used - n /\ locals[i] \in Nat \ {0}
    BY <1>1, <1>2, <1>3, ClearTop, LocalsTyped
  <2> QED BY <1>3, <1>4, <2>2, <2>3, <2>4
<1>6. used' \in 1 .. StackSize /\ used - n <= used' /\ used' <= used
  BY <1>1, <1>3, <1>4, <1>5
<1>7. \A o \in 1 .. used' : mem'[o] = IF o \in q - n + 1 .. q THEN block[q - o + 1] ELSE mem[o]
  <2>1. ASSUME NEW o \in 1 .. used' PROVE o \in 1 .. StackSize /\ mem'[o] = w[o]
    <3>1. o \in 1 .. StackSize /\ ~(o > used')
      BY <1>3, <1>6
    <3> HIDE DEF w
    <3>2. used' \in Int
      BY <1>6
    <3>3. Trimmed(w, used')[o] = w[o]
      BY <3>1, <3>2, TrimmedBelow, <1>6
    <3> QED BY <1>1, <3>1, <3>3
  <2> QED BY <1>5, <2>1
<1> HIDE DEF w, block
<1>8. mem'[q] = top /\ IsObject(mem'[q]) /\ SizeOf(mem'[q]) = n
  <2>1. q \in 1 .. used' /\ q \in q - n + 1 .. q /\ q - q + 1 = 1
    BY <1>3, <1>4, <1>5, <1>6
  <2>2. mem'[q] = top
    BY <1>5, <1>7, <2>1
  <2> QED BY <1>1, <2>2 DEF SameType
<1> HIDE DEF q, top, n
\* The object that is overwritten holds no other local.
<1>9. \A i \in 1 .. Len(locals) : locals[i] = q \/ locals[i] \notin q - n + 1 .. q
  <2> SUFFICES ASSUME NEW i \in 1 .. Len(locals), locals[i] \in q - n + 1 .. q, locals[i] # q PROVE FALSE
    OBVIOUS
  <2>1. q \in locals[i] + 1 .. used
    BY <1>4
  <2>2. locals[i] <= q - SizeOf(mem[q])
    BY <2>1 DEF Isolated, LocalsApart
  <2> QED BY <1>4, <2>2 DEF n
<1>10. \A i \in 1 .. Len(locals) :
         /\ locals[i] \in 1 .. used' /\ IsObject(mem'[locals[i]])
         /\ SizeOf(mem'[locals[i]]) = SizeOf(mem[locals[i]])
  <2> SUFFICES ASSUME NEW i \in 1 .. Len(locals)
               PROVE  /\ locals[i] \in 1 .. used' /\ IsObject(mem'[locals[i]])
                      /\ SizeOf(mem'[locals[i]]) = SizeOf(mem[locals[i]])
    OBVIOUS
  <2>1. locals[i] \in 1 .. used' /\ IsObject(mem[locals[i]])
    <3>1. IsObject(mem[locals[i]])
      BY DEF Isolated, LocalsApart
    <3> QED BY <1>5, <1>6, <3>1
  <2>2. CASE locals[i] = q
    <3>1. SizeOf(mem[q]) = n
      BY <1>4 DEF n
    <3> QED BY <1>8, <2>1, <2>2, <3>1
  <2>3. CASE locals[i] \notin q - n + 1 .. q
    BY <1>7, <2>1, <2>3
  <2> QED BY <1>9, <2>2, <2>3
<1>11. LocalsApart'
  <2> SUFFICES ASSUME NEW i \in 1 .. Len(locals), NEW o \in locals[i] + 1 .. used'
               PROVE  locals[i] <= o - SizeOf(mem'[o])
    BY <1>1, <1>6, <1>10 DEF LocalsApart
  <2>1. locals[i] \in 1 .. used' /\ o \in 1 .. used' /\ o \in locals[i] + 1 .. used
    BY <1>3, <1>6, <1>10
  <2>2. CASE o \notin q - n + 1 .. q
    <3>1. mem'[o] = mem[o]
      BY <1>7, <2>1, <2>2
    <3> QED BY <2>1, <3>1 DEF Isolated, LocalsApart
  <2>3. CASE o \in q - n + 1 .. q
    <3>0. n \in Nat /\ q \in Nat
      BY <1>4 DEF n
    <3>1. locals[i] <= q - n
      BY <1>9, <2>1, <2>3, <3>0
    <3>2. q - n <= o - SizeOf(mem'[o]) /\ SizeOf(mem'[o]) \in Nat
      <4>1. CASE o = q
        BY <1>8, <3>0, <4>1, SizeFacts
      <4>2. CASE o # q
        <5>1. NestedIn(mem', used')
          BY DEF Inv, ObjectsNested
        <5>2. q \in 1 .. used' /\ o \in q - SizeOf(mem'[q]) + 1 .. q - 1
          <6>1. q <= used - n
            BY <1>4 DEF n, top
          <6> QED BY <1>3, <1>4, <1>6, <1>8, <2>3, <3>0, <4>2, <6>1
        <5>3. q - SizeOf(mem'[q]) <= o - SizeOf(mem'[o])
          BY <5>1, <5>2 DEF NestedIn
        <5> QED BY <1>8, <5>3, SizeFacts
      <4> QED BY <4>1, <4>2
    <3> QED BY <2>1, <3>0, <3>1, <3>2
  <2> QED BY <2>2, <2>3
<1>12. KeepsFrames
  <2>1. ASSUME NEW o \in q - n + 1 .. q PROVE mem[o].shape # NoneType
    <3>1. mem[q].shape # NoneType
      BY <1>4, ProgramAssumption DEF IsObject
    <3>2. o = q \/ o \in q - SizeOf(mem[q]) + 1 .. q - 1
      BY <1>4 DEF n
    <3> QED BY <1>4, <3>1, <3>2, InvStack DEF ObjectsNested, NestedIn
  <2>2. ASSUME NEW o \in q - n + 1 .. q PROVE mem'[o].shape # NoneType
    <3>1. mem'[q].shape # NoneType /\ NestedIn(mem', used')
      BY <1>8, ProgramAssumption DEF IsObject, Inv, ObjectsNested
    <3>2. o = q \/ o \in q - SizeOf(mem'[q]) + 1 .. q - 1
      BY <1>4, <1>8 DEF n
    <3>3. q \in 1 .. used'
      BY <1>3, <1>4, <1>5, <1>6 DEF top, n
    <3> QED BY <3>1, <3>2, <3>3 DEF NestedIn
  <2>3. \A o \in used' + 1 .. used : mem[o].shape # NoneType
    <3>1. \A o \in used - n + 1 .. used : mem[o].shape # NoneType
      BY <1>1, <1>3, TopObject, InvStack DEF n, top
    <3>2. PICK u : u = used'
      OBVIOUS
    <3>3. u \in Int /\ used - n <= u /\ used - n \in Int /\ used \in Int
      BY <1>3, <1>5, <1>6, <3>2 DEF n, top
    <3>4. \A o \in u + 1 .. used : mem[o].shape # NoneType
      BY <3>1, <3>3
    <3> QED BY <3>2, <3>4
  <2>4. \A o \in 1 .. used : o \in 1 .. used' \/ o \in used' + 1 .. used
    <3>1. PICK u : u = used'
      OBVIOUS
    <3>2. u \in Int /\ used \in Int
      BY <1>3, <1>6, <3>1
    <3>3. \A o \in 1 .. used : o \in 1 .. u \/ o \in u + 1 .. used
      BY <3>2
    <3> QED BY <3>1, <3>3
  <2>5. \A o \in 1 .. used' : o \in 1 .. used /\ (o \in q - n + 1 .. q \/ mem'[o] = mem[o])
    BY <1>3, <1>6, <1>7
  <2> QED BY <2>1, <2>2, <2>3, <2>4, <2>5 DEF KeepsFrames, SavedFrames
<1>13. FramesApart'
  <2>1. \A i \in 1 .. First(frame) : i \in 1 .. Len(locals) /\ locals'[i] = locals[i]
    BY <1>1, <1>3
  <2>2. First(frame) <= Len(locals')
    BY <1>1, <1>3
  <2>3. \A i \in 1 .. First(frame) :
          /\ locals'[i] = locals[i]
          /\ IsObject(mem'[locals[i]]) /\ SizeOf(mem'[locals[i]]) = SizeOf(mem[locals[i]])
    BY <1>10, <2>1
  <2> QED BY <1>2, <1>12, <2>2, <2>3, FramesKept
<1>14. Ascending(frame, Len(locals))'
  <2>1. First(frame)' = First(frame) /\ Ascending(frame, Len(locals))
    BY <1>2 DEF SameFrame, First, Args, Isolated
  <2> QED BY <1>1, <1>2, <2>1 DEF Ascending, SameFrame
<1> QED BY <1>11, <1>13, <1>14 DEF Isolated

LEMMA StoreIsolated ==
  ASSUME ~MixedSizes
  PROVE  \A operand \in Operands : Inv /\ Inv' /\ Isolated /\ InterpretStore(operand) => Isolated'
  BY StoreNewIsolated, StoreOverIsolated, OccurExceptionIsolated DEF InterpretStore

LEMMA SwapIsolated ==
  ASSUME ~MixedSizes
  PROVE  Inv /\ Inv' /\ Isolated /\ InterpretSwap => Isolated'
<1> SUFFICES ASSUME Inv, Inv', Isolated, InterpretSwap, ~ \E code : OccurException(code), ~Crash
             PROVE  Isolated'
  BY OccurExceptionIsolated, CrashIsolated
<1> DEFINE top   == mem[used]
           n     == ObjectSize[top.shape]
           low   == used - n
           first == IF top.shape \in Scalars THEN 1 ELSE 2
           t     == used - 2 * n
<1>1. /\ ~IsNull(used) /\ IsObject(top) /\ ~IsNull(low) /\ ~(t < 0)
      /\ ~IsLocalVariable(0) /\ ~IsLocalVariable(n)
      /\ ~(top.shape \in Scalars /\ mem[low].shape # top.shape)
      /\ ~(top.shape \in Structs /\ mem[low].shape \notin Structs)
      /\ ~(top.shape \in Arrays /\ mem[low].shape \notin Arrays)
      /\ Exchangeable(top.shape, mem[low].shape)
      /\ mem' = Swapped(n, first) /\ Advance /\ UNCHANGED <<used, locals>>
  BY DEF InterpretSwap
<1>2. status = "running" /\ SameFrame /\ locals' = locals /\ used' = used
  BY <1>1, AdvanceSame DEF InterpretSwap, Fetch
<1>3. /\ used \in 1 .. StackSize /\ StackSize \in Nat /\ n \in Nat \ {0} /\ SizeOf(top) = n
      /\ low \in 1 .. used /\ low = used - n /\ t \in Nat /\ t = low - n
  BY <1>1, InvStack, SizeFacts DEF IsNull, IsObject, SizeOf, StackOK
<1>4. IsObject(mem[low]) /\ SizeOf(mem[low]) = n
  BY <1>1, <1>3, SameSize DEF IsObject, Shapes
<1>5. first \in 1 .. 2 /\ (first = 1 => n = 1)
  <2>1. top.shape \in Scalars => n = 1
    BY LayoutAssumption
  <2> QED BY <2>1
<1>6. \A i \in 1 .. Len(locals) : locals[i] <= t
  <2>1. \A i \in 1 .. Len(locals) : locals[i] <= low - SizeOf(mem[low])
    <3>1. /\ low \in Nat \ {0} /\ low = used - SizeOf(mem[used]) /\ IsObject(mem[used]) /\ used > 0
          /\ ~IsLocalVariable(SizeOf(mem[used]))
      BY <1>1, <1>3
    <3> HIDE DEF low, n
    <3> QED BY <1>1, <1>2, <1>4, <3>1, ClearPair
  <2> QED BY <1>3, <1>4, <2>1
<1> HIDE DEF t, low, n, top, first
<1>7. /\ \A o \in 1 .. t : mem'[o] = mem[o]
      /\ mem'[used] = IF first = 1 THEN mem[low] ELSE mem[used]
      /\ mem'[low] = IF first = 1 THEN mem[used] ELSE mem[low]
  <2>1. \A o \in 1 .. StackSize :
          mem'[o] = IF used - o + 1 \in first .. n THEN mem[o - n]
                    ELSE IF used - n - o + 1 \in first .. n THEN mem[o + n]
                    ELSE mem[o]
    BY <1>1 DEF Swapped
  <2>2. ASSUME NEW o \in 1 .. t PROVE mem'[o] = mem[o]
    <3>1. o \in 1 .. StackSize /\ used - o + 1 \notin first .. n /\ used - n - o + 1 \notin first .. n
      BY <1>3, <1>5
    <3> QED BY <2>1, <3>1
  <2>3. mem'[used] = IF first = 1 THEN mem[low] ELSE mem[used]
    <3>1. used - used + 1 = 1 /\ used - n = low /\ used - n - used + 1 \notin first .. n
      BY <1>3, <1>5
    <3>2. 1 \in first .. n <=> first = 1
      BY <1>3, <1>5
    <3> QED BY <1>3, <2>1, <3>1, <3>2
  <2>4. mem'[low] = IF first = 1 THEN mem[used] ELSE mem[low]
    <3>1. used - low + 1 \notin first .. n /\ used - n - low + 1 = 1 /\ low + n = used /\ low \in 1 .. StackSize
      BY <1>3, <1>5
    <3>2. 1 \in first .. n <=> first = 1
      BY <1>3, <1>5
    <3> QED BY <2>1, <3>1, <3>2
  <2> QED BY <2>2, <2>3, <2>4
<1>8. ASSUME NEW base \in {low, used}
      PROVE  \A o \in base - n + 1 .. base : mem'[o].shape # NoneType /\ base - n <= o - SizeOf(mem'[o])
  <2>1. IsObject(mem'[base]) /\ SizeOf(mem'[base]) = n /\ base \in 1 .. used'
    BY <1>1, <1>2, <1>3, <1>4, <1>7 DEF top
  <2>2. mem'[base].shape # NoneType
    BY <2>1, ProgramAssumption DEF IsObject
  <2>3. NestedIn(mem', used')
    BY DEF Inv, ObjectsNested
  <2>4. \A o \in base - n + 1 .. base : o = base \/ o \in base - n + 1 .. base - 1
    BY <1>2, <1>3, <2>1
  <2>5. base - n <= base - n
    BY <1>2, <1>3, <2>1
  <2> QED BY <2>1, <2>2, <2>3, <2>4, <2>5 DEF NestedIn
<1>9. \A o \in t + 1 .. used' : mem'[o].shape # NoneType /\ t <= o - SizeOf(mem'[o])
  <2> SUFFICES ASSUME NEW o \in t + 1 .. used' PROVE mem'[o].shape # NoneType /\ t <= o - SizeOf(mem'[o])
    OBVIOUS
  <2>1. SizeOf(mem'[o]) \in Nat /\ o \in Int
    BY <1>2, <1>3, SizeFacts
  <2>2. CASE o \in low - n + 1 .. low
    BY <1>3, <1>8, <2>2
  <2>3. CASE o \in used - n + 1 .. used
    BY <1>3, <1>8, <2>1, <2>3
  <2> QED BY <1>2, <1>3, <2>2, <2>3
<1>10. \A o \in t + 1 .. used : mem[o].shape # NoneType
  <2>1. \A o \in low + 1 .. used : mem[o].shape # NoneType
    <3>1. \A o \in used - SizeOf(mem[used]) + 1 .. used : mem[o].shape # NoneType
      BY <1>1, <1>3, TopObject, InvStack DEF top
    <3> QED BY <1>3, <3>1 DEF top
  <2>2. \A o \in low - n + 1 .. low - 1 : mem[o].shape # NoneType
    BY <1>3, <1>4, InvStack DEF ObjectsNested, NestedIn
  <2>3. mem[low].shape # NoneType
    BY <1>4, ProgramAssumption DEF IsObject
  <2> QED BY <1>3, <2>1, <2>2, <2>3
<1>11. t \in Nat /\ t <= used /\ t <= used' /\ \A i \in 1 .. Len(locals') : locals[i] <= t
  BY <1>2, <1>3, <1>6
<1> QED BY <1>2, <1>7, <1>9, <1>10, <1>11, TopRewritten

-----------------------------------------------------------------------------
(* Isolation: call and ret *)

\* The arguments that a walk met become locals, and at most a frame is put above them.
LEMMA ArgumentsApart ==
  ASSUME Inv, Isolated, NEW n \in Nat, NEW walk \in Arguments(n),
         locals' = locals \o Offsets(walk, n),
         NEW top \in Nat, top = used', used <= top, \A o \in 1 .. used : mem'[o] = mem[o],
         \A o \in used + 1 .. top : used <= o - SizeOf(mem'[o])
  PROVE  /\ LocalsApart'
         /\ Len(locals') = Len(locals) + n
         /\ \A i \in 1 .. Len(locals) : locals'[i] = locals[i]
         /\ \A j \in 1 .. n : locals'[Len(locals) + j] = walk[j - 1]
<1>1. used \in Nat /\ Len(locals) \in Nat /\ locals \in Seq(1 .. StackSize)
  BY InvStack
<1>2. /\ Len(locals') = Len(locals) + n
      /\ \A i \in 1 .. Len(locals) : locals'[i] = locals[i]
      /\ \A j \in 1 .. n : locals'[Len(locals) + j] = walk[j - 1]
  <2>1. Offsets(walk, n) \in Seq(1 .. StackSize)
    BY ArgumentsTyped, InvStack
  <2>2. Len(Offsets(walk, n)) = n /\ \A j \in 1 .. n : Offsets(walk, n)[j] = walk[j - 1]
    BY DEF Offsets
  <2> DEFINE added == Offsets(walk, n)
  <2>3. added \in Seq(1 .. StackSize) /\ Len(added) = n
    BY <2>1, <2>2
  <2>4. locals' = locals \o added /\ \A j \in 1 .. n : added[j] = walk[j - 1]
    BY <2>2
  <2> HIDE DEF added
  <2>5. /\ Len(locals \o added) = Len(locals) + n
        /\ \A i \in 1 .. Len(locals) : (locals \o added)[i] = locals[i]
        /\ \A j \in 1 .. n : (locals \o added)[Len(locals) + j] = added[j]
    <3>1. /\ Len(locals \o added) = Len(locals) + n
          /\ \A i \in 1 .. Len(locals) + n : (locals \o added)[i] =
               IF i <= Len(locals) THEN locals[i] ELSE added[i - Len(locals)]
      BY <1>1, <2>3, ConcatProperties
    <3>2. \A i \in 1 .. Len(locals) : i \in 1 .. Len(locals) + n /\ i <= Len(locals)
      BY <1>1
    <3>3. \A j \in 1 .. n : /\ Len(locals) + j \in 1 .. Len(locals) + n
                             /\ ~(Len(locals) + j <= Len(locals)) /\ Len(locals) + j - Len(locals) = j
      BY <1>1
    <3> QED BY <3>1, <3>2, <3>3
  <2> QED BY <2>3, <2>4, <2>5
<1>3. /\ \A j \in 1 .. n : walk[j - 1] \in 1 .. used /\ IsObject(mem[walk[j - 1]])
      /\ \A j \in 1 .. n : \A o \in walk[j - 1] + 1 .. used : walk[j - 1] <= o - SizeOf(mem[o])
  <2>1. walk \in Walks(ObjectSize, used, n) /\ NestedIn(mem, used) /\ used <= used
    BY <1>1, InvStack DEF Arguments, ObjectsNested
  <2>2. /\ walk \in [0 .. n -> 0 .. used]
        /\ \A j \in 1 .. n : walk[j - 1] > 0 /\ IsObject(mem[walk[j - 1]])
    BY <2>1 DEF Walks
  <2>3. \A j \in 1 .. n : j - 1 \in 0 .. n
    OBVIOUS
  <2>4. \A j \in 0 .. n : \A o \in walk[j] + 1 .. used : walk[j] <= o - SizeOf(mem[o])
    BY <1>1, <2>1, WalkNested
  <2>5. ASSUME NEW j \in 1 .. n PROVE walk[j - 1] \in 1 .. used
    <3>1. walk[j - 1] \in 0 .. used /\ walk[j - 1] > 0
      BY <2>2, <2>3
    <3> QED BY <1>1, <3>1
  <2> QED BY <2>2, <2>3, <2>4, <2>5
<1>4. ASSUME NEW a \in 1 .. used, IsObject(mem[a]), \A o \in a + 1 .. used : a <= o - SizeOf(mem[o])
      PROVE  a <= top /\ IsObject(mem'[a]) /\ \A o \in a + 1 .. top : a <= o - SizeOf(mem'[o])
  <2>1. a <= top /\ IsObject(mem'[a])
    BY <1>1, <1>4
  <2>2. ASSUME NEW o \in a + 1 .. top PROVE a <= o - SizeOf(mem'[o])
    <3>1. CASE o \in 1 .. used
      BY <1>4, <3>1
    <3>2. CASE o \in used + 1 .. top
      <4>1. SizeOf(mem'[o]) \in Nat /\ used <= o - SizeOf(mem'[o])
        BY <3>2, SizeFacts
      <4> QED BY <1>1, <4>1
    <3> QED BY <1>1, <3>1, <3>2
  <2> QED BY <2>1, <2>2
<1>5. LocalsApart'
  <2> SUFFICES ASSUME NEW i \in 1 .. Len(locals')
               PROVE  /\ locals'[i] <= top /\ IsObject(mem'[locals'[i]])
                      /\ \A o \in locals'[i] + 1 .. top : locals'[i] <= o - SizeOf(mem'[o])
    BY DEF LocalsApart
  <2>1. CASE i \in 1 .. Len(locals)
    <3>1. /\ locals[i] \in 1 .. used /\ IsObject(mem[locals[i]])
          /\ \A o \in locals[i] + 1 .. used : locals[i] <= o - SizeOf(mem[o])
      BY <1>1, <2>1, LocalsTyped DEF Isolated, LocalsApart
    <3> QED BY <1>2, <1>4, <2>1, <3>1
  <2>2. CASE i \notin 1 .. Len(locals)
    <3> DEFINE j == i - Len(locals)
    <3>1. j \in 1 .. n /\ i = Len(locals) + j
      BY <1>1, <1>2, <2>2
    <3>2. locals'[i] = walk[j - 1]
      BY <1>2, <3>1
    <3> QED BY <1>3, <1>4, <3>1, <3>2
  <2> QED BY <2>1, <2>2
<1> QED BY <1>2, <1>5

LEMMA CallFailsIsolated == \A function \in Callables : Inv /\ Inv' /\ Isolated /\ CallFails(function) => Isolated'
<1> SUFFICES ASSUME NEW function \in Callables, Inv, Inv', Isolated, CallFails(function) PROVE Isolated'
  OBVIOUS
<1>1. PICK n \in 0 .. Arity[function] - 1 : \E walk \in Arguments(n) :
        /\ Occur(function, IF function \in Natives THEN 0 ELSE -1, "STACK_EMPTY")
        /\ locals' = IF walk[n] = 0 THEN locals \o Offsets(walk, n) ELSE locals
  BY DEF CallFails
<1>2. PICK walk \in Arguments(n) :
        /\ Occur(function, IF function \in Natives THEN 0 ELSE -1, "STACK_EMPTY")
        /\ locals' = IF walk[n] = 0 THEN locals \o Offsets(walk, n) ELSE locals
  BY <1>1
<1>3. UNCHANGED <<mem, used, frame, depth>> /\ status' = "exception" /\ SameFrame
  BY <1>2 DEF Occur, SameFrame
<1>4. CASE locals' = locals
  BY <1>3, <1>4, StackKept
<1>5. CASE locals' = locals \o Offsets(walk, n)
  <2>1. used \in Nat /\ Len(locals) \in Nat /\ n \in Nat /\ First(frame) \in Nat /\ First(frame) <= Len(locals)
    <3>1. n \in Nat /\ frame \in ActiveFrames /\ First(frame) \in Nat
      BY ProgramAssumption, FrameFacts
    <3> QED BY <3>1, InvStack DEF Isolated, FramesApart
  <2>2. /\ LocalsApart' /\ Len(locals') = Len(locals) + n
        /\ \A i \in 1 .. Len(locals) : locals'[i] = locals[i]
    <3>1. used = used' /\ used <= used /\ \A o \in 1 .. used : mem'[o] = mem[o]
      BY <1>3, <2>1
    <3>2. \A o \in used + 1 .. used : used <= o - SizeOf(mem'[o])
      BY <2>1
    <3> QED BY <1>5, <2>1, <3>1, <3>2, ArgumentsApart
  <2>3. KeepsFrames
    BY <1>3 DEF KeepsFrames, SavedFrames
  <2>4. First(frame) <= Len(locals') /\ \A i \in 1 .. First(frame) : i \in 1 .. Len(locals)
    BY <2>1, <2>2
  <2>5. \A i \in 1 .. First(frame) : locals'[i] = locals[i] /\ IsObject(mem[locals[i]])
    BY <2>2, <2>4 DEF Isolated, LocalsApart
  <2>6. FramesApart'
    BY <1>3, <2>3, <2>4, <2>5, FramesKept
  <2> QED BY <1>3, <2>2, <2>6 DEF Isolated
<1> QED BY <1>2, <1>4, <1>5

\* No local of the caller lies among arguments that are no locals.
LEMMA ArgumentsFree ==
  ASSUME Inv, Isolated, NEW n \in Nat, NEW walk \in Arguments(n), Permitted(walk, n), ~LocalArguments
  PROVE  \A i \in 1 .. Len(locals) : locals[i] <= walk[n]
<1>1. /\ walk \in [0 .. n -> 0 .. used] /\ walk[0] = used /\ used \in Nat
      /\ \A j \in 1 .. n : /\ walk[j - 1] > 0 /\ IsObject(mem[walk[j - 1]])
                            /\ walk[j] = walk[j - 1] - SizeOf(mem[walk[j - 1]])
  BY InvStack DEF Arguments, Walks, SizeOf
<1> SUFFICES ASSUME NEW i \in 1 .. Len(locals) PROVE locals[i] <= walk[n]
  OBVIOUS
<1>2. locals[i] \in 1 .. used /\ \A o \in locals[i] + 1 .. used : locals[i] <= o - SizeOf(mem[o])
  BY <1>1, LocalsTyped DEF Isolated, LocalsApart
<1> DEFINE Passed == {j \in 0 .. n : ~(locals[i] <= walk[j])}
<1> SUFFICES ASSUME Passed # {} PROVE FALSE
  OBVIOUS
<1>3. PICK k \in Passed : \A l \in Passed : k <= l
  <2>1. Passed \subseteq Nat
    OBVIOUS
  <2> HIDE DEF Passed
  <2> QED BY <2>1, LeastElement
<1>4. k # 0
  BY <1>1, <1>2, <1>3
<1>5. k \in 1 .. n /\ k - 1 \in 0 .. n /\ k - 1 \in 0 .. n - 1 /\ k - 1 \notin Passed
  BY <1>3, <1>4
<1>6. locals[i] <= walk[k - 1] /\ locals[i] # walk[k - 1] /\ walk[k - 1] \in 0 .. used
  BY <1>1, <1>5 DEF Permitted
<1>7. walk[k - 1] \in locals[i] + 1 .. used
  BY <1>1, <1>2, <1>6
<1>8. locals[i] <= walk[k]
  BY <1>1, <1>2, <1>5, <1>7
<1> QED BY <1>3, <1>8

\* The frames after a call are the new one and those before.
LEMMA EnterFrames ==
  ASSUME Inv, NEW function \in Callables, NEW walk, Enter(function, walk, 0)
  PROVE  /\ used' = used + 1
         /\ frame'.StackBegin = used + 1 /\ frame'.VariableBegin = Len(locals) /\ frame'.Function = function
         /\ locals' = locals \o Offsets(walk, Arity[function])
         /\ mem'[used + 1].shape = NoneType /\ mem'[used + 1].val = frame
         /\ \A o \in 1 .. used : mem'[o] = mem[o]
         /\ ActiveFrames' = ActiveFrames \cup {frame'}
<1> DEFINE cell == [shape |-> NoneType, val |-> frame]
<1>1. /\ used' = used + 1 /\ mem' = Placed(mem, <<cell>>, used + 1) /\ used + 1 <= StackSize
      /\ frame' = [StackBegin |-> used + 1, VariableBegin |-> Len(locals), Caller |-> 0, Function |-> function]
      /\ locals' = locals \o Offsets(walk, Arity[function])
  BY DEF Enter, PushObject
<1>2. used \in Nat /\ StackSize \in Nat
  BY InvStack
<1>3. cell.shape = NoneType /\ cell.val = frame
  OBVIOUS
<1> HIDE DEF cell
<1>4. mem'[used + 1] = cell /\ \A o \in 1 .. used : mem'[o] = mem[o]
  BY <1>1, <1>2 DEF Placed
<1>5. \A o \in 1 .. used + 1 : o \in 1 .. used \/ o = used + 1
  BY <1>2
<1>6. /\ \A o \in 1 .. used : o \in SavedFrames' <=> o \in SavedFrames
      /\ used + 1 \in SavedFrames' /\ SavedFrames \subseteq 1 .. used /\ SavedFrames' \subseteq 1 .. used + 1
  BY <1>1, <1>2, <1>3, <1>4 DEF SavedFrames
<1>7. ActiveFrames' = ActiveFrames \cup {frame'}
  <2>1. ActiveFrames' = {frame'} \cup {mem'[o].val : o \in SavedFrames'}
    BY DEF ActiveFrames
  <2>2. \A o \in SavedFrames' : mem'[o].val \in ActiveFrames
    BY <1>3, <1>4, <1>5, <1>6 DEF ActiveFrames
  <2>3. mem'[used + 1].val = frame
    BY <1>3, <1>4
  <2>4. \A o \in SavedFrames : o \in SavedFrames' /\ mem'[o].val = mem[o].val
    BY <1>4, <1>6
  <2> QED BY <1>6, <2>1, <2>2, <2>3, <2>4 DEF ActiveFrames
<1> QED BY <1>1, <1>3, <1>4, <1>7

LEMMA EnterIsolated ==
  ASSUME ~LocalArguments, Inv, Inv', Isolated, status = "running",
         NEW function \in Callables, NEW walk \in Arguments(Arity[function]),
         Permitted(walk, Arity[function]), Enter(function, walk, 0)
  PROVE  Isolated'
<1> DEFINE n == Arity[function]
<1>1. /\ used \in Nat /\ Len(locals) \in Nat /\ n \in Nat /\ SizeOf(mem'[used + 1]) = 1
      /\ used' = used + 1
      /\ frame'.StackBegin = used + 1 /\ frame'.VariableBegin = Len(locals) /\ frame'.Function = function
      /\ locals' = locals \o Offsets(walk, n)
      /\ mem'[used + 1].val = frame
      /\ \A o \in 1 .. used : mem'[o] = mem[o]
      /\ ActiveFrames' = ActiveFrames \cup {frame'}
  <2>1. mem'[used + 1].shape = NoneType
    BY EnterFrames
  <2>2. SizeOf(mem'[used + 1]) = 1
    BY <2>1, ProgramAssumption DEF SizeOf, IsObject
  <2> QED BY <2>2, EnterFrames, InvStack, ProgramAssumption
<1> HIDE DEF n
<1>2. /\ LocalsApart' /\ Len(locals') = Len(locals) + n
      /\ \A i \in 1 .. Len(locals) : locals'[i] = locals[i]
      /\ \A j \in 1 .. n : locals'[Len(locals) + j] = walk[j - 1]
  <2> DEFINE top == used + 1
  <2>1. top \in Nat /\ top = used' /\ used <= top
    BY <1>1
  <2>2. \A o \in used + 1 .. top : used <= o - SizeOf(mem'[o])
    BY <1>1
  <2> HIDE DEF top
  <2> QED BY <1>1, <2>1, <2>2, ArgumentsApart DEF n
<1>3. \A e \in ActiveFrames :
        /\ e.StackBegin \in 0 .. used /\ First(e) \in Nat /\ First(e) <= Len(locals)
        /\ e.VariableBegin \in Nat
  BY FrameFacts DEF Isolated, FramesApart
<1>4. \A i \in 1 .. Len(locals) : locals[i] \in 1 .. used /\ IsObject(mem[locals[i]])
  BY <1>1, LocalsTyped DEF Isolated, LocalsApart
\* The frames of the callers.
<1>5. ASSUME NEW f \in ActiveFrames
      PROVE  /\ First(f) <= Len(locals')
             /\ f.StackBegin = 0 => f.VariableBegin = 0
             /\ f.StackBegin > 0 => Ascending(mem[f.StackBegin].val, f.VariableBegin)'
             /\ ArgumentsHeld(f)'
  <2>1. First(f) <= Len(locals')
    BY <1>1, <1>2, <1>3
  <2>2. f.StackBegin > 0 => mem'[f.StackBegin] = mem[f.StackBegin]
    BY <1>1, <1>3
  <2>3. \A i \in 1 .. First(f) : i \in 1 .. Len(locals)
    BY <1>1, <1>3
  <2>4. \A i \in 1 .. First(f) :
          /\ locals'[i] = locals[i]
          /\ IsObject(mem'[locals[i]]) /\ SizeOf(mem'[locals[i]]) = SizeOf(mem[locals[i]])
    BY <1>1, <1>2, <1>4, <2>3
  <2> QED BY <2>1, <2>2, <2>4, FrameCarried
\* The new frame, whose arguments are those the walk met.
<1>6. PICK f \in ActiveFrames' : f = frame'
  BY <1>1
<1>7. /\ f.StackBegin = used + 1 /\ f.VariableBegin = Len(locals) /\ Args(f) = n
      /\ First(f) = Len(locals')
  <2>1. f.StackBegin = used + 1 /\ f.VariableBegin = Len(locals) /\ f.Function = function
    BY <1>1, <1>6
  <2>2. f.StackBegin # 0
    BY <1>1, <2>1
  <2> QED BY <1>2, <2>1, <2>2 DEF Args, First, n
<1>8. Ascending(mem[f.StackBegin].val, f.VariableBegin)'
  <2>1. frame \in ActiveFrames /\ Ascending(frame, Len(locals)) /\ First(frame) \in Nat
    BY FrameFacts DEF Isolated
  <2>2. PICK e \in ActiveFrames : e = frame
    BY <2>1
  <2>3. \A i \in First(e) + 1 .. Len(locals) : locals'[i] = locals[i]
    BY <1>1, <1>2, <2>1, <2>2
  <2>4. \A i \in First(e) + 1 .. Len(locals) : \A j \in First(e) + 1 .. i - 1 :
          j \in First(e) + 1 .. Len(locals)
    BY <1>1, <2>1, <2>2
  <2>5. Ascending(e, f.VariableBegin)'
    <3>1. Ascending(e, Len(locals))
      BY <2>1, <2>2
    <3> QED BY <1>7, <2>3, <2>4, <3>1 DEF Ascending, First, Args
  <2>6. mem'[f.StackBegin].val = e
    BY <1>1, <1>7, <2>2
  <2> QED BY <2>5, <2>6
<1>9. ArgumentsHeld(f)'
  <2>1. /\ walk \in [0 .. n -> 0 .. used] /\ walk[0] = used
        /\ \A j \in 1 .. n : /\ walk[j - 1] > 0 /\ IsObject(mem[walk[j - 1]])
                              /\ walk[j] = walk[j - 1] - ObjectSize[mem[walk[j - 1]].shape]
    BY DEF Arguments, Walks, n
  <2>2. \A j \in 1 .. n : mem'[walk[j - 1]] = mem[walk[j - 1]] /\ j - 1 \in 0 .. n - 1
    <3> SUFFICES ASSUME NEW j \in 1 .. n
                 PROVE  mem'[walk[j - 1]] = mem[walk[j - 1]] /\ j - 1 \in 0 .. n - 1
      OBVIOUS
    <3>1. j - 1 \in 0 .. n - 1 /\ j - 1 \in 0 .. n
      BY <1>1
    <3>2. walk[j - 1] \in 0 .. used /\ walk[j - 1] > 0
      BY <2>1, <3>1
    <3>3. walk[j - 1] \in 1 .. used
      BY <1>1, <3>2
    <3> QED BY <1>1, <3>1, <3>3
  <2>4. walk \in Walks(ObjectSize, f.StackBegin - 1, Args(f))'
    <3>1. PICK base : base = used
      OBVIOUS
    <3>2. walk \in Walks(ObjectSize, base, n)'
      BY <2>1, <2>2, <3>1 DEF Walks
    <3>3. f.StackBegin - 1 = base /\ Args(f) = n
      BY <1>1, <1>7, <3>1
    <3> QED BY <3>2, <3>3
  <2>5. \A i \in 1 .. Len(locals) : locals'[i] <= walk[n]
    BY <1>1, <1>2, ArgumentsFree DEF n
  <2>6. \A j \in 1 .. Args(f) : locals'[f.VariableBegin + j] = walk[j - 1]
    BY <1>2, <1>7
  <2>7. \A i \in 1 .. f.VariableBegin : locals'[i] <= walk[Args(f)]
    BY <1>7, <2>5
  <2> QED BY <2>4, <2>6, <2>7 DEF ArgumentsHeld
<1>10. FramesApart'
  <2>1. f.StackBegin # 0
    BY <1>1, <1>7
  <2>2. Len(locals') \in Nat
    BY <1>1, <1>2
  <2>3. \A e \in ActiveFrames' : e \in ActiveFrames \/ e = f
    BY <1>1, <1>6
  <2>4. \A e \in ActiveFrames : First(e) <= f.VariableBegin /\ ~(f.StackBegin < e.StackBegin)
    BY <1>1, <1>3, <1>7
  <2>5. ~(f.StackBegin < f.StackBegin)
    BY <1>1, <1>7
  <2>6. \A d, e \in ActiveFrames : d.StackBegin < e.StackBegin => First(d) <= e.VariableBegin
    BY DEF Isolated, FramesApart
  <2>7. First(f) <= Len(locals')
    BY <1>7, <2>2
  <2>8. \A e \in ActiveFrames' :
          /\ First(e) <= Len(locals')
          /\ e.StackBegin = 0 => e.VariableBegin = 0
          /\ e.StackBegin > 0 => Ascending(mem[e.StackBegin].val, e.VariableBegin)'
          /\ ArgumentsHeld(e)'
    BY <1>5, <1>8, <1>9, <2>1, <2>3, <2>7
  <2>9. \A d, e \in ActiveFrames' : d.StackBegin < e.StackBegin => First(d) <= e.VariableBegin
    BY <2>3, <2>4, <2>5, <2>6
  <2> QED BY <2>8, <2>9 DEF FramesApart
<1>11. Ascending(frame, Len(locals))'
  <2>1. First(f) = Len(locals') /\ Len(locals') \in Nat
    BY <1>1, <1>2, <1>7
  <2>2. First(f) <= Len(locals') /\ ~ \E i \in First(f) + 1 .. Len(locals') : TRUE
    BY <2>1
  <2>3. First(f) = First(frame)'
    BY <1>6 DEF First, Args
  <2> QED BY <2>2, <2>3 DEF Ascending
<1> QED BY <1>2, <1>10, <1>11 DEF Isolated

LEMMA CallFunctionIsolated ==
  ASSUME ~LocalArguments
  PROVE  \A function \in Callables : Inv /\ Inv' /\ Isolated /\ Fetch /\ CallFunction(function) => Isolated'
<1> SUFFICES ASSUME NEW function \in Callables, Inv, Inv', Isolated, Fetch, CallFunction(function)
             PROVE  Isolated'
  OBVIOUS
<1>1. PICK walk \in Arguments(Arity[function]) :
        Permitted(walk, Arity[function]) /\ Enter(function, walk, 0)
  BY DEF CallFunction
<1>2. status = "running"
  BY DEF Fetch
<1> QED BY <1>1, <1>2, EnterIsolated

\* Where a function returns to: above the locals of its callers, and just above its
\* arguments if none of them is an array.
LEMMA NativeReturns ==
  ASSUME ~LocalArguments, Inv, Isolated,
         NEW function \in Callables, NEW walk \in Arguments(Arity[function]),
         Permitted(walk, Arity[function]), NEW result, Return(function, used, result)
  PROVE  \E end \in Nat :
           /\ end <= used /\ walk[Arity[function]] \in 0 .. end
           /\ used' = end + Len(result) /\ mem' = Placed(mem, result, used')
           /\ \A o \in end + 1 .. used : mem[o].shape # NoneType
           /\ \A p \in end + 1 .. used : mem[p].shape \in Structs => end <= p - SizeOf(mem[p])
           /\ \A i \in 1 .. Len(locals) : locals[i] <= end
<1> DEFINE n == Arity[function]
<1>1. n \in Nat /\ used \in Nat /\ walk \in Walks(ObjectSize, used, n)
  BY ProgramAssumption, InvStack DEF Arguments
<1>2. PICK back \in Walks(TypeSize, used, n) :
        used' = back[n] + Len(result) /\ mem' = Placed(mem, result, used')
  BY DEF Return
<1>3. /\ used \in 0 .. used /\ used \in 0 .. StackSize /\ mem \in [1 .. StackSize -> Cells] /\ NestedIn(mem, used)
      /\ used <= used
  BY InvStack DEF StackOK, ObjectsNested
<1>4. \A i \in 1 .. Len(locals) : locals[i] <= walk[n]
  BY <1>1, ArgumentsFree
<1> HIDE DEF n
<1> PICK end : end = back[n]
  OBVIOUS
<1>5. /\ end \in 0 .. used /\ walk[n] \in 0 .. used /\ walk[n] <= end
      /\ \A p \in end + 1 .. used : mem[p].shape \in Structs => end <= p - SizeOf(mem[p])
  BY <1>1, <1>2, <1>3, ReturnEnd
<1>6. \A o \in end + 1 .. used : mem[o].shape # NoneType
  BY <1>1, <1>2, <1>3, WalkCrossesNoFrame
<1>7. end \in Nat /\ end <= used /\ walk[n] \in 0 .. end
  BY <1>1, <1>5
<1>8. \A i \in 1 .. Len(locals) : locals[i] <= end
  BY <1>4, <1>7, LocalsTyped
<1> QED BY <1>2, <1>5, <1>6, <1>7, <1>8 DEF n

LEMMA CallNativeIsolated ==
  ASSUME ~LocalArguments
  PROVE  \A function \in Callables : Inv /\ Inv' /\ Isolated /\ Fetch /\ CallNative(function) => Isolated'
<1> SUFFICES ASSUME NEW function \in Callables, Inv, Inv', Isolated, Fetch, CallNative(function), ~Crash
             PROVE  Isolated'
  BY CrashIsolated
<1>1. status = "running"
  BY DEF Fetch
<1> DEFINE n == Arity[function]
<1>2. PICK walk \in Arguments(n) :
       /\ Permitted(walk, n)
       /\ \/ Enter(function, walk, 0)
          \/ /\ \/ \E s \in Shapes : \E value \in Values : Return(function, used, NewObject(s, value))
                \/ Return(function, used, <<>>)
             /\ Advance
             /\ UNCHANGED locals
  <2>1. PICK walk \in Arguments(n) :
         /\ Permitted(walk, n)
         /\ \/ NativeFails(function, walk)
            \/ /\ IF HasResult[function]
                    THEN \E s \in Shapes : \E value \in Values :
                           /\ used + 1 + ObjectSize[s] <= StackSize
                           /\ Return(function, used, NewObject(s, value))
                    ELSE Return(function, used, <<>>)
               /\ Advance
               /\ UNCHANGED locals
    BY DEF CallNative
  <2>2. NativeFails(function, walk) => Enter(function, walk, 0)
    BY DEF NativeFails
  <2> QED BY <2>1, <2>2
<1>3. CASE Enter(function, walk, 0)
  BY <1>1, <1>2, <1>3, EnterIsolated
<1>4. ASSUME Advance, locals' = locals, NEW result, Return(function, used, result),
             \/ result = <<>>
             \/ result \in Seq(Cells) /\ Len(result) > 0 /\ IsObject(result[1])
                  /\ SizeOf(result[1]) = Len(result)
      PROVE  Isolated'
  <2>1. PICK top \in Nat :
          /\ top <= used
          /\ used' = top + Len(result) /\ mem' = Placed(mem, result, used')
          /\ \A o \in top + 1 .. used : mem[o].shape # NoneType
          /\ \A i \in 1 .. Len(locals) : locals[i] <= top
    BY <1>2, <1>4, NativeReturns
  <2>2. SameFrame
    BY <1>4, AdvanceSame
  <2>3. CASE result = <<>>
    <3>1. used' = top /\ mem' = Trimmed(mem, top)
      <4>1. Len(<<>>) = 0 /\ top + 0 = top
        BY <2>1
      <4>2. used' = top
        BY <2>1, <2>3, <4>1
      <4> QED BY <2>1, <2>3, <4>2 DEF Trimmed
    <3>2. \A i \in 1 .. Len(locals') : locals[i] <= top
      BY <1>4, <2>1
    <3> QED BY <1>1, <1>4, <2>1, <2>2, <3>1, <3>2, TopTaken
  <2>4. CASE result \in Seq(Cells) /\ Len(result) > 0 /\ IsObject(result[1]) /\ SizeOf(result[1]) = Len(result)
    BY <1>1, <1>4, <2>1, <2>2, <2>4, TopPlaced
  <2> QED BY <1>4, <2>3, <2>4
<1>5. CASE Advance /\ locals' = locals /\ Return(function, used, <<>>)
  BY <1>4, <1>5
<1>6. CASE Advance /\ locals' = locals /\ \E s \in Shapes : \E value \in Values :
             Return(function, used, NewObject(s, value))
  <2>1. PICK s \in Shapes, value \in Values : Return(function, used, NewObject(s, value))
    BY <1>6
  <2>2. PICK result : result = NewObject(s, value)
    OBVIOUS
  <2>3. /\ result \in Seq(Cells) /\ Len(result) > 0 /\ IsObject(result[1])
        /\ SizeOf(result[1]) = Len(result)
    BY <2>2, NewHeader
  <2> QED BY <1>4, <1>6, <2>1, <2>2, <2>3
<1> QED BY <1>2, <1>3, <1>5, <1>6

LEMMA CallIsolated ==
  ASSUME ~LocalArguments
  PROVE  Inv /\ Inv' /\ Isolated /\ InterpretCall => Isolated'
<1> SUFFICES ASSUME Inv, Inv', Isolated, InterpretCall PROVE Isolated'
  OBVIOUS
<1>1. Fetch
  BY DEF InterpretCall
<1>2. PICK function \in Callables :
        \/ OccurException("STACK_OVERFLOW")
        \/ CallFails(function) \/ CallFunction(function) \/ CallNative(function)
  BY DEF InterpretCall
<1> QED BY <1>1, <1>2, OccurExceptionIsolated, CallFailsIsolated, CallFunctionIsolated, CallNativeIsolated

\* What a return from a call does, in terms of the walk over the arguments.
LEMMA Returns ==
  ASSUME Inv, Isolated, InterpretRet, depth # 0, ~Crash, ~ \E code : OccurException(code)
  PROVE  LET result == IF HasResult[frame.Function] THEN ObjectAt(used) ELSE <<>>
         IN  /\ status = "running" /\ status' = status /\ depth' = depth - 1
             /\ frame.StackBegin \in 1 .. used /\ frame.StackBegin \in SavedFrames
             /\ frame' = [mem[frame.StackBegin].val EXCEPT !.Caller = @ + 1]
             /\ locals' = SubSeq(locals, 1, frame.VariableBegin)
             /\ frame.VariableBegin \in 0 .. Len(locals)
             /\ \E walk \in Walks(ObjectSize, frame.StackBegin - 1, Args(frame)) :
                  \E end \in 0 .. frame.StackBegin - 1 :
                    /\ \A j \in 1 .. Args(frame) : locals[frame.VariableBegin + j] = walk[j - 1]
                    /\ \A i \in 1 .. frame.VariableBegin : locals[i] <= walk[Args(frame)]
                    /\ walk[Args(frame)] \in 0 .. end
                    /\ (\A j \in 1 .. Args(frame) : mem[walk[j - 1]].shape \notin Arrays) => end = walk[Args(frame)]
                    /\ \A o \in end + 1 .. frame.StackBegin - 1 : mem[o].shape # NoneType
                    /\ \A p \in end + 1 .. frame.StackBegin - 1 :
                         mem[p].shape \in Structs => end <= p - SizeOf(mem[p])
                    /\ used' = end + Len(result)
                    /\ mem' = Placed(mem, result, used')
             /\ result \in Seq(Cells) /\ Len(result) \in 0 .. used - frame.StackBegin
             /\ HasResult[frame.Function] =>
                  /\ used > 0 /\ IsObject(mem[used]) /\ Len(result) = SizeOf(mem[used])
                  /\ Len(result) > 0 /\ result[1] = mem[used]
<1> DEFINE begin  == frame.StackBegin
           n      == Args(frame)
           result == IF HasResult[frame.Function] THEN ObjectAt(used) ELSE <<>>
<1>1. /\ ~(HasResult[frame.Function] /\ (IsNull(used) \/ ~IsObject(mem[used])))
      /\ ~(frame.VariableBegin > Len(locals))
      /\ Return(frame.Function, begin - 1, result)
      /\ frame' = [mem[begin].val EXCEPT !.Caller = @ + 1]
      /\ locals' = SubSeq(locals, 1, frame.VariableBegin)
      /\ depth' = depth - 1
      /\ status' = status /\ status = "running"
  BY DEF InterpretRet, Fetch
<1>2. begin \in SavedFrames
  <2>1. IsFiniteSet(SavedFrames) /\ depth = Cardinality(SavedFrames)
    BY SavedFramesFinite, InvStack DEF Inv, FrameChain
  <2>2. SavedFrames # {}
    BY <2>1, FS_EmptySet
  <2> QED BY <2>2 DEF Inv, FrameChain, IsNewest
<1>3. /\ begin \in 1 .. used /\ used \in 0 .. StackSize /\ used \in Nat /\ StackSize \in Nat
      /\ mem \in [1 .. StackSize -> Cells] /\ NestedIn(mem, used)
  BY <1>2, InvStack DEF SavedFrames, StackOK, ObjectsNested
<1>4. /\ n \in Nat /\ n = Arity[frame.Function] /\ frame.VariableBegin \in Nat /\ frame \in ActiveFrames
      /\ Len(locals) \in Nat
  BY <1>3, FrameFacts, InvStack
<1>5. PICK walk \in Walks(ObjectSize, begin - 1, n) :
        /\ \A j \in 1 .. n : locals[frame.VariableBegin + j] = walk[j - 1]
        /\ \A i \in 1 .. frame.VariableBegin : locals[i] <= walk[n]
  <2>1. ArgumentsHeld(frame)
    BY <1>4 DEF Isolated, FramesApart
  <2>2. frame.StackBegin > 0
    BY <1>3
  <2> QED BY <2>1, <2>2 DEF ArgumentsHeld
<1>6. PICK back \in Walks(TypeSize, begin - 1, n) :
        used' = back[n] + Len(result) /\ mem' = Placed(mem, result, used')
  BY <1>1, <1>4 DEF Return
<1> HIDE DEF n
<1> PICK end : end = back[n]
  OBVIOUS
<1>7. (\A j \in 1 .. n : mem[walk[j - 1]].shape \notin Arrays) => end = walk[n]
  <2>1. begin - 1 \in Nat
    BY <1>3
  <2> HIDE DEF begin
  <2> QED BY <2>1, <1>4, <1>5, <1>6, WalkOfReturn
<1>8. /\ end \in 0 .. begin - 1 /\ walk[n] \in 0 .. end
      /\ \A o \in end + 1 .. begin - 1 : mem[o].shape # NoneType
      /\ \A p \in end + 1 .. begin - 1 : mem[p].shape \in Structs => end <= p - SizeOf(mem[p])
  <2> PICK base : base = begin - 1
    OBVIOUS
  <2>1. base \in Nat /\ base \in 0 .. used /\ base <= used
    BY <1>3
  <2>2. walk \in Walks(ObjectSize, base, n) /\ back \in Walks(TypeSize, base, n)
    BY <1>5, <1>6
  <2>3. /\ end \in 0 .. base /\ walk[n] \in 0 .. base /\ walk[n] <= end
        /\ \A p \in end + 1 .. base : mem[p].shape \in Structs => end <= p - SizeOf(mem[p])
    BY <1>3, <1>4, <2>1, <2>2, ReturnEnd
  <2>4. \A o \in end + 1 .. base : mem[o].shape # NoneType
    BY <1>3, <1>4, <2>1, <2>2, WalkCrossesNoFrame
  <2>5. walk[n] \in 0 .. end
    BY <2>1, <2>3
  <2> QED BY <2>3, <2>4, <2>5
<1>9. /\ result \in Seq(Cells) /\ Len(result) \in 0 .. used - begin
      /\ HasResult[frame.Function] =>
           /\ used > 0 /\ IsObject(mem[used]) /\ Len(result) = SizeOf(mem[used])
           /\ Len(result) > 0 /\ result[1] = mem[used]
  <2>1. CASE ~HasResult[frame.Function]
    <3>1. result = <<>> /\ result \in Seq(Cells) /\ Len(result) \in 0 .. used - begin
      BY <1>3, <2>1
    <3> QED BY <2>1, <3>1
  <2>2. CASE HasResult[frame.Function]
    <3>1. result = ObjectAt(used) /\ used \in 1 .. used /\ IsObject(mem[used])
      BY <1>1, <1>3, <2>2 DEF IsNull
    <3>2. /\ ObjectAt(used) \in Seq(Cells) /\ Len(ObjectAt(used)) = SizeOf(mem[used])
          /\ \A i \in 1 .. SizeOf(mem[used]) : ObjectAt(used)[i] = mem[used - i + 1]
      BY <1>3, <3>1, ObjectBlock
    <3>3. SizeOf(mem[used]) \in 1 .. used /\ begin <= used - SizeOf(mem[used])
      <4>1. /\ SizeOf(mem[used]) \in 1 .. used
            /\ \A o \in used - SizeOf(mem[used]) + 1 .. used : mem[o].shape # NoneType
        <5>1. used > 0 /\ StackOK /\ ObjectsNested
          BY <1>3, InvStack
        <5> QED BY <3>1, <5>1, TopObject
      <4>2. mem[begin].shape = NoneType
        BY <1>2 DEF SavedFrames
      <4> QED BY <1>3, <4>1, <4>2
    <3>4. ObjectAt(used)[1] = mem[used]
      <4>1. used - 1 + 1 = used /\ 1 \in 1 .. SizeOf(mem[used])
        BY <1>3, <3>3
      <4> QED BY <3>2, <4>1
    <3>5. Len(result) = SizeOf(mem[used]) /\ result \in Seq(Cells) /\ result[1] = mem[used]
      BY <3>1, <3>2, <3>4
    <3> HIDE DEF result, begin
    <3> QED BY <1>3, <3>1, <3>3, <3>5
  <2> QED BY <2>1, <2>2
<1>10. frame.VariableBegin \in 0 .. Len(locals)
  BY <1>1, <1>4
<1>11. \E w \in Walks(ObjectSize, begin - 1, n) : \E e \in 0 .. begin - 1 :
         /\ \A j \in 1 .. n : locals[frame.VariableBegin + j] = w[j - 1]
         /\ \A i \in 1 .. frame.VariableBegin : locals[i] <= w[n]
         /\ w[n] \in 0 .. e
         /\ (\A j \in 1 .. n : mem[w[j - 1]].shape \notin Arrays) => e = w[n]
         /\ \A o \in e + 1 .. begin - 1 : mem[o].shape # NoneType
         /\ \A p \in e + 1 .. begin - 1 : mem[p].shape \in Structs => e <= p - SizeOf(mem[p])
         /\ used' = e + Len(result)
         /\ mem' = Placed(mem, result, used')
  <2> HIDE DEF result, begin
  <2>1. end \in 0 .. begin - 1
    BY <1>8
  <2> WITNESS walk \in Walks(ObjectSize, begin - 1, n)
  <2> WITNESS end \in 0 .. begin - 1
  <2> QED BY <1>5, <1>6, <1>7, <1>8
<1> HIDE DEF result
<1> QED BY <1>1, <1>2, <1>3, <1>9, <1>10, <1>11 DEF n, result

LEMMA RetIsolated == Inv /\ Inv' /\ Isolated /\ InterpretRet => Isolated'
<1> SUFFICES ASSUME Inv, Inv', Isolated, InterpretRet, ~Crash, ~ \E code : OccurException(code)
             PROVE  Isolated'
  BY OccurExceptionIsolated, CrashIsolated
<1>1. CASE depth = 0
  <2>1. /\ frame' = [frame EXCEPT !.Caller = InstructionCount[frame.Function]]
        /\ UNCHANGED <<mem, used, depth, locals, exception, status>>
    BY <1>1 DEF InterpretRet
  <2> QED BY <2>1, JumpSame, StackKept
<1>2. CASE depth # 0
  <2> DEFINE begin  == frame.StackBegin
             first  == frame.VariableBegin
             n      == Args(frame)
             result == IF HasResult[frame.Function] THEN ObjectAt(used) ELSE <<>>
  <2>1. /\ status = "running"
        /\ begin \in 1 .. used /\ begin \in SavedFrames
        /\ frame' = [mem[begin].val EXCEPT !.Caller = @ + 1]
        /\ locals' = SubSeq(locals, 1, first) /\ first \in 0 .. Len(locals)
        /\ \E walk \in Walks(ObjectSize, begin - 1, n) : \E end \in 0 .. begin - 1 :
             /\ \A i \in 1 .. first : locals[i] <= walk[n]
             /\ walk[n] \in 0 .. end
             /\ \A o \in end + 1 .. begin - 1 : mem[o].shape # NoneType
             /\ used' = end + Len(result)
             /\ mem' = Placed(mem, result, used')
        /\ result \in Seq(Cells) /\ Len(result) \in 0 .. used - begin
        /\ HasResult[frame.Function] =>
             /\ IsObject(mem[used]) /\ Len(result) = SizeOf(mem[used])
             /\ Len(result) > 0 /\ result[1] = mem[used]
    BY <1>2, Returns
  <2>2. PICK walk \in Walks(ObjectSize, begin - 1, n), top \in 0 .. begin - 1 :
          /\ \A i \in 1 .. first : locals[i] <= walk[n]
          /\ walk[n] \in 0 .. top
          /\ \A o \in top + 1 .. begin - 1 : mem[o].shape # NoneType
          /\ used' = top + Len(result)
          /\ mem' = Placed(mem, result, used')
    BY <2>1
  <2>3. ~HasResult[frame.Function] => Len(result) = 0
    OBVIOUS
  <2> HIDE DEF result, n
  <2>4. /\ used \in Nat /\ StackSize \in Nat /\ used <= StackSize /\ Len(locals) \in Nat
        /\ top \in 0 .. begin - 1 /\ top \in Nat /\ top < begin /\ begin <= used /\ begin \in Nat
        /\ used' = top + Len(result) /\ Len(result) \in Nat /\ used' \in 0 .. used
    <3>1. used \in Nat /\ StackSize \in Nat /\ used <= StackSize /\ Len(locals) \in Nat
      BY InvStack DEF StackOK
    <3>2. Len(result) \in Nat /\ Len(result) <= used - begin /\ begin \in 1 .. used /\ begin \in Nat
      BY <2>1, <3>1
    <3>3. top \in 0 .. begin - 1 /\ used' = top + Len(result)
      BY <2>2
    <3> HIDE DEF begin
    <3> QED BY <3>1, <3>2, <3>3
  <2>5. /\ Len(locals') = first /\ first \in Nat
        /\ \A i \in 1 .. first : locals'[i] = locals[i] /\ i \in 1 .. Len(locals)
    <3>1. locals \in Seq(1 .. StackSize) /\ first \in Nat /\ first <= Len(locals)
      BY <2>1, <2>4, InvStack
    <3>2. Len(SubSeq(locals, 1, first)) = first /\ \A i \in 1 .. first : SubSeq(locals, 1, first)[i] = locals[i]
      BY <3>1, FrontFacts
    <3> QED BY <2>1, <2>4, <3>1, <3>2
  <2>6. /\ \A o \in 1 .. top : mem'[o] = mem[o]
        /\ Len(result) > 0 => mem'[used'] = result[1]
    <3>1. PICK u : u = used'
      OBVIOUS
    <3>2. u = top + Len(result) /\ u \in Nat /\ u <= StackSize
      BY <2>4, <3>1
    <3>3. mem' = Placed(mem, result, u)
      BY <2>2, <3>1
    <3>4. /\ \A o \in 1 .. top : mem'[o] = mem[o]
          /\ Len(result) > 0 => mem'[u] = result[1]
      BY <2>4, <3>2, <3>3 DEF Placed
    <3> QED BY <3>1, <3>4
  <2>7. \A o \in top + 1 .. used' : mem'[o].shape # NoneType /\ top <= o - SizeOf(mem'[o])
    <3>1. CASE HasResult[frame.Function]
      <4>1. /\ used' > 0 /\ IsObject(mem'[used']) /\ used' - SizeOf(mem'[used']) = top
        <5>1. mem'[used'] = mem[used] /\ SizeOf(mem[used]) = Len(result) /\ IsObject(mem[used]) /\ Len(result) > 0
          BY <2>1, <2>6, <3>1
        <5> QED BY <2>4, <5>1
      <4> QED BY <2>4, <4>1, OneObject
    <3>2. CASE ~HasResult[frame.Function]
      <4>1. used' = top
        BY <2>3, <2>4, <3>2
      <4>2. ~ \E o \in top + 1 .. top : TRUE
        BY <2>4
      <4> QED BY <4>1, <4>2
    <3> QED BY <3>1, <3>2
  <2>8. \A i \in 1 .. first :
          /\ locals[i] \in 1 .. top /\ IsObject(mem[locals[i]]) /\ mem'[locals[i]] = mem[locals[i]]
          /\ \A o \in locals[i] + 1 .. used : locals[i] <= o - SizeOf(mem[o])
    <3> SUFFICES ASSUME NEW i \in 1 .. first
                 PROVE  /\ locals[i] \in 1 .. top /\ IsObject(mem[locals[i]]) /\ mem'[locals[i]] = mem[locals[i]]
                        /\ \A o \in locals[i] + 1 .. used : locals[i] <= o - SizeOf(mem[o])
      OBVIOUS
    <3>1. locals[i] <= top
      BY <2>2, <2>5, LocalsTyped
    <3>2. /\ locals[i] \in Nat \ {0} /\ IsObject(mem[locals[i]])
          /\ \A o \in locals[i] + 1 .. used : locals[i] <= o - SizeOf(mem[o])
      BY <2>5, LocalsTyped DEF Isolated, LocalsApart
    <3>3. locals[i] \in 1 .. top
      BY <2>4, <3>1, <3>2
    <3> QED BY <2>6, <3>2, <3>3
  <2>9. LocalsApart'
    <3> SUFFICES ASSUME NEW i \in 1 .. Len(locals')
                 PROVE  /\ locals'[i] <= used' /\ IsObject(mem'[locals'[i]])
                        /\ \A o \in locals'[i] + 1 .. used' : locals'[i] <= o - SizeOf(mem'[o])
      BY DEF LocalsApart
    <3> DEFINE a == locals[i]
    <3>1. /\ i \in 1 .. first /\ locals'[i] = a /\ a \in 1 .. top /\ IsObject(mem'[a])
          /\ \A o \in a + 1 .. used : a <= o - SizeOf(mem[o])
      BY <2>5, <2>8
    <3> HIDE DEF a
    <3>2. ASSUME NEW o \in a + 1 .. used' PROVE a <= o - SizeOf(mem'[o])
      <4>1. CASE o <= top
        BY <2>4, <2>6, <3>1, <4>1
      <4>2. CASE o > top
        <5>1. o \in top + 1 .. used'
          <6>1. PICK u : u = used'
            OBVIOUS
          <6>2. u \in Nat /\ o \in a + 1 .. u
            BY <2>4, <6>1
          <6>3. o \in top + 1 .. u
            BY <2>4, <3>1, <4>2, <6>2
          <6> QED BY <6>1, <6>3
        <5>2. top <= o - SizeOf(mem'[o])
          BY <2>7, <5>1
        <5>3. SizeOf(mem'[o]) \in Nat
          BY SizeFacts
        <5>4. o \in Int
          BY <2>4, <5>1
        <5> QED BY <2>4, <3>1, <5>2, <5>3, <5>4
      <4> QED BY <2>4, <3>1, <4>1, <4>2
    <3>3. a <= used'
      BY <2>4, <3>1
    <3> QED BY <3>1, <3>2, <3>3
  \* Every frame that is left is the caller's or one below it.
  <2>10. ASSUME NEW f \in ActiveFrames'
         PROVE  \E e \in ActiveFrames :
                  /\ f.StackBegin = e.StackBegin /\ f.VariableBegin = e.VariableBegin /\ f.Function = e.Function
                  /\ e.StackBegin < begin
                  /\ e.StackBegin > 0 => mem'[e.StackBegin] = mem[e.StackBegin]
    <3>1. ActiveFrames' = {frame'} \cup {mem'[o].val : o \in SavedFrames'}
      BY DEF ActiveFrames
    <3>2. \A o \in SavedFrames' : o \in 1 .. top /\ mem'[o] = mem[o] /\ o \in SavedFrames
      <4> SUFFICES ASSUME NEW o \in SavedFrames' PROVE o \in 1 .. top /\ mem'[o] = mem[o] /\ o \in SavedFrames
        OBVIOUS
      <4>1. o \in 1 .. used' /\ mem'[o].shape = NoneType
        BY DEF SavedFrames
      <4>2. o \in 1 .. top
        BY <2>4, <2>7, <4>1
      <4> QED BY <2>4, <2>6, <4>1, <4>2 DEF SavedFrames
    <3>3. \A o \in SavedFrames : o < begin => o \in 1 .. top
      <4> SUFFICES ASSUME NEW o \in SavedFrames, o < begin PROVE o \in 1 .. top
        OBVIOUS
      <4>1. o \in 1 .. used /\ mem[o].shape = NoneType
        BY DEF SavedFrames
      <4>2. \A p \in top + 1 .. begin - 1 : mem[p].shape # NoneType
        BY <2>2
      <4>3. begin \in Nat
        BY <2>4
      <4> HIDE DEF begin
      <4> QED BY <2>4, <4>1, <4>2, <4>3
    <3>4. \A e \in ActiveFrames : e.StackBegin < begin /\ e.StackBegin > 0 => mem'[e.StackBegin] = mem[e.StackBegin]
      <4>1. \A e \in ActiveFrames : e.StackBegin \in Nat /\ (e.StackBegin = 0 \/ e.StackBegin \in SavedFrames)
        BY FrameFacts
      <4> QED BY <2>6, <3>3, <4>1
    <3>5. /\ \A o \in SavedFrames : /\ mem[o].val \in ActiveFrames /\ mem[o].val.StackBegin < o
                                    /\ mem[o].val \in StackFrame
          /\ \A o \in SavedFrames : mem[o].val.StackBegin \in Nat
      BY FrameFacts
    <3>6. CASE f = frame'
      <4> DEFINE e == mem[begin].val
      <4>1. e \in ActiveFrames /\ e.StackBegin < begin /\ e \in StackFrame
        BY <2>1, <3>5
      <4>2. f = [e EXCEPT !.Caller = @ + 1]
        BY <2>1, <3>6
      <4> HIDE DEF e
      <4>3. f.StackBegin = e.StackBegin /\ f.VariableBegin = e.VariableBegin /\ f.Function = e.Function
        BY <4>1, <4>2 DEF StackFrame
      <4> QED BY <3>4, <4>1, <4>3
    <3>7. CASE f \in {mem'[o].val : o \in SavedFrames'}
      <4>1. PICK o \in SavedFrames' : f = mem'[o].val
        BY <3>7
      <4>2. f = mem[o].val /\ o \in 1 .. top /\ o \in SavedFrames
        BY <3>2, <4>1
      <4>3. f \in ActiveFrames /\ f.StackBegin < o /\ f.StackBegin \in Nat
        BY <3>5, <4>2
      <4>4. f.StackBegin < begin
        <5>1. o \in Nat /\ o <= top
          <6>1. top \in Nat
            BY <2>4
          <6> QED BY <4>2, <6>1
        <5>2. begin \in Nat /\ top < begin /\ top \in Nat
          BY <2>4
        <5> HIDE DEF begin
        <5> QED BY <4>3, <5>1, <5>2
      <4> QED BY <3>4, <4>3, <4>4
    <3> QED BY <3>1, <3>6, <3>7
  <2>11. \A e \in ActiveFrames : e.StackBegin < begin => First(e) <= first /\ First(e) \in Nat
    BY FrameFacts DEF Isolated, FramesApart
  <2>12. ASSUME NEW f \in ActiveFrames'
         PROVE  /\ First(f) <= Len(locals')
                /\ f.StackBegin = 0 => f.VariableBegin = 0
                /\ f.StackBegin > 0 => Ascending(mem[f.StackBegin].val, f.VariableBegin)'
                /\ ArgumentsHeld(f)'
    <3>1. PICK e \in ActiveFrames :
            /\ f.StackBegin = e.StackBegin /\ f.VariableBegin = e.VariableBegin /\ f.Function = e.Function
            /\ e.StackBegin < begin
            /\ e.StackBegin > 0 => mem'[e.StackBegin] = mem[e.StackBegin]
      BY <2>10
    <3>2. First(e) <= Len(locals') /\ \A i \in 1 .. First(e) : i \in 1 .. first
      BY <2>5, <2>11, <3>1
    <3>3. \A i \in 1 .. First(e) :
            /\ locals'[i] = locals[i]
            /\ IsObject(mem'[locals[i]]) /\ SizeOf(mem'[locals[i]]) = SizeOf(mem[locals[i]])
      BY <2>5, <2>8, <3>2
    <3> QED BY <3>1, <3>2, <3>3, FrameCarried
  <2>13. \A f, g \in ActiveFrames' : f.StackBegin < g.StackBegin => First(f) <= g.VariableBegin
    <3> SUFFICES ASSUME NEW f \in ActiveFrames', NEW g \in ActiveFrames', f.StackBegin < g.StackBegin
                 PROVE  First(f) <= g.VariableBegin
      OBVIOUS
    <3>1. PICK d \in ActiveFrames :
            f.StackBegin = d.StackBegin /\ f.VariableBegin = d.VariableBegin /\ f.Function = d.Function
      BY <2>10
    <3>2. PICK e \in ActiveFrames :
            g.StackBegin = e.StackBegin /\ g.VariableBegin = e.VariableBegin /\ g.Function = e.Function
      BY <2>10
    <3>3. First(f) = First(d)
      BY <3>1 DEF Args, First
    <3> QED BY <3>1, <3>2, <3>3 DEF Isolated, FramesApart
  <2>14. FramesApart'
    BY <2>12, <2>13 DEF FramesApart
  \* The caller's own locals ascend because they did when it called.
  <2>15. Ascending(frame, Len(locals))'
    <3> DEFINE e == mem[begin].val
    <3>1. e \in ActiveFrames /\ e \in StackFrame /\ Ascending(e, first) /\ First(e) \in Nat
      <4>1. begin > 0 /\ begin \in SavedFrames
        BY <2>1, <2>4
      <4>2. /\ e \in ActiveFrames /\ frame \in ActiveFrames
            /\ \A f \in ActiveFrames : f \in StackFrame /\ First(f) \in Nat
        BY <4>1, FrameFacts
      <4>3. begin > 0 => Ascending(e, first)
        BY <4>2 DEF Isolated, FramesApart
      <4> QED BY <4>1, <4>2, <4>3
    <3>2. frame'.StackBegin = e.StackBegin /\ frame'.VariableBegin = e.VariableBegin /\ frame'.Function = e.Function
      BY <2>1, <3>1 DEF StackFrame
    <3>3. First(e) <= first
      BY <3>1 DEF Ascending
    <3> HIDE DEF e
    <3>4. First(frame)' = First(e)
      BY <3>2 DEF First, Args
    <3>5. \A i \in First(e) + 1 .. first : /\ locals'[i] = locals[i]
                                          /\ \A j \in First(e) + 1 .. i - 1 : locals'[j] = locals[j]
      BY <2>5, <3>1
    <3> QED BY <2>5, <3>1, <3>2, <3>3, <3>4, <3>5 DEF Ascending
  <2> QED BY <2>9, <2>14, <2>15 DEF Isolated
<1> QED BY <1>1, <1>2

-----------------------------------------------------------------------------
(* The theorems *)

LEMMA InitIsolated == Init => Isolated
<1> SUFFICES ASSUME Init PROVE Isolated
  OBVIOUS
<1>1. Len(locals) = 0 /\ SavedFrames = {} /\ frame.StackBegin = 0 /\ frame.VariableBegin = 0
  BY ProgramAssumption DEF Init, SavedFrames
<1>2. ActiveFrames = {frame} /\ First(frame) = 0
  BY <1>1 DEF ActiveFrames, First, Args
<1>3. LocalsApart
  BY <1>1 DEF LocalsApart
<1>4. ArgumentsHeld(frame)
  BY <1>1 DEF ArgumentsHeld
<1>5. FramesApart
  BY <1>1, <1>2, <1>4 DEF FramesApart
<1>6. Ascending(frame, Len(locals))
  BY <1>1, <1>2 DEF Ascending
<1> QED BY <1>3, <1>5, <1>6 DEF Isolated

LEMMA NextIsolated ==
  ASSUME ~MixedSizes, ~LocalArguments
  PROVE  Inv /\ Inv' /\ Isolated /\ [Next]_vars => Isolated'
<1> SUFFICES ASSUME Inv, Inv', Isolated, [Next]_vars PROVE Isolated'
  OBVIOUS
<1>1. CASE InterpretPush BY <1>1, PushIsolated
<1>2. CASE InterpretAPush BY <1>2, APushIsolated
<1>3. CASE InterpretPop BY <1>3, PopIsolated
<1>4. CASE \E operand \in Operands : InterpretLoad(operand) BY <1>4, LoadIsolated
<1>5. CASE \E operand \in Operands : InterpretStore(operand) BY <1>5, StoreIsolated
<1>6. CASE InterpretCopy BY <1>6, CopyIsolated
<1>7. CASE InterpretSwap BY <1>7, SwapIsolated
<1>8. CASE InterpretOperation \/ InterpretDiv \/ InterpretCmp BY <1>8, BinaryIsolated
<1>9. CASE InterpretNeg \/ TypeCast BY <1>9, UnaryIsolated
<1>10. CASE Unhandled BY <1>10, UnhandledIsolated
<1>11. CASE InterpretJmp BY <1>11, JmpIsolated
<1>12. CASE JumpCondition BY <1>12, JumpConditionIsolated
<1>13. CASE InterpretCall BY <1>13, CallIsolated
<1>14. CASE InterpretRet BY <1>14, RetIsolated
<1>15. CASE UnknownOperand BY <1>15, OccurExceptionIsolated DEF UnknownOperand
<1>16. CASE FallOff BY <1>16, FallOffIsolated
<1>17. CASE Stopped \/ UNCHANGED vars BY <1>17, StutterIsolated DEF Stopped
<1>18. CASE MemoryInstruction BY <1>18, MemoryIsolated
<1> QED
  BY <1>1, <1>2, <1>3, <1>4, <1>5, <1>6, <1>7, <1>8, <1>9, <1>10, <1>11, <1>12, <1>13, <1>14, <1>15,
     <1>16, <1>17, <1>18
  DEF Next, MemoryInstruction

\* Every active function keeps its own part of the stack in every execution of
\* programs that pass no local variable as an argument and exchange no objects of
\* different sizes.
THEOREM Isolation ==
  ASSUME ~MixedSizes, ~LocalArguments
  PROVE  Spec => []Isolated
<1>1. Init => Inv /\ Isolated
  BY InitInv, InitIsolated
<1>2. Inv /\ Isolated /\ [Next]_vars => Inv' /\ Isolated'
  BY NextInv, NextIsolated
<1> QED BY <1>1, <1>2, PTL DEF Spec

\* Every local of every active function designates an object that is still on the
\* stack, so that load and store never read above the top or a stale byte, in every
\* execution of programs that pass no local variable as an argument and exchange no
\* objects of different sizes.
THEOREM LocalsStay ==
  ASSUME ~MixedSizes, ~LocalArguments
  PROVE  Spec => []LocalsDesignateObjects
<1>1. Isolated => LocalsDesignateObjects
  BY DEF Isolated, LocalsApart, LocalsDesignateObjects
<1> QED BY <1>1, Isolation, PTL

\* The arguments of every active function lie next to each other just below its
\* frame, where ret looks for them, whatever its callees did meanwhile, if no local
\* variable is passed as an argument and no objects of different sizes are exchanged.
THEOREM ArgumentsStay ==
  ASSUME ~MixedSizes, ~LocalArguments
  PROVE  Spec => []ParametersBelowFrame
<1>1. Inv /\ Isolated => ParametersBelowFrame
  <2> SUFFICES ASSUME Inv, Isolated, NEW f \in ActiveFrames, f.StackBegin > 0
               PROVE  \E walk \in Walks(ObjectSize, f.StackBegin - 1, Arity[f.Function]) :
                        \A j \in 1 .. Arity[f.Function] :
                          /\ f.VariableBegin + j <= Len(locals)
                          /\ locals[f.VariableBegin + j] = walk[j - 1]
    BY DEF ParametersBelowFrame
  <2>1. /\ Args(f) = Arity[f.Function] /\ Args(f) \in Nat /\ f.VariableBegin \in Nat
        /\ Len(locals) \in Nat
    BY FrameFacts, InvStack
  <2>2. First(f) <= Len(locals) /\ ArgumentsHeld(f)
    BY DEF Isolated, FramesApart
  <2>3. PICK walk \in Walks(ObjectSize, f.StackBegin - 1, Args(f)) :
          \A j \in 1 .. Args(f) : locals[f.VariableBegin + j] = walk[j - 1]
    BY <2>2 DEF ArgumentsHeld
  <2>4. \A j \in 1 .. Args(f) : f.VariableBegin + j <= Len(locals)
    BY <2>1, <2>2 DEF First
  <2> QED BY <2>1, <2>3, <2>4
<1> QED BY <1>1, Invariance, Isolation, PTL

\* The locals that the running function declared lie above its frame in the order of
\* their numbers, so that only the last one, the one that IsLocalVariable compares, can
\* be on top, if no local variable is passed as an argument and no objects of different
\* sizes are exchanged.
THEOREM OwnLocalsOrdered ==
  ASSUME ~MixedSizes, ~LocalArguments
  PROVE  Spec => []OwnLocalsAscend
<1>1. Inv /\ Isolated => OwnLocalsAscend
  <2> SUFFICES ASSUME Inv, Isolated, status = "running" PROVE OwnLocalsAscend
    BY DEF OwnLocalsAscend
  <2> DEFINE first == IF depth = 0 THEN 1 ELSE frame.VariableBegin + Arity[frame.Function] + 1
  <2>1. Ascending(frame, Len(locals)) /\ frame \in ActiveFrames
    BY FrameFacts DEF Isolated
  <2>2. depth = 0 <=> frame.StackBegin = 0
    <3>1. IsFiniteSet(SavedFrames) /\ depth = Cardinality(SavedFrames)
      BY SavedFramesFinite, InvStack DEF Inv, FrameChain
    <3>2. depth = 0 <=> SavedFrames = {}
      BY <3>1, FS_EmptySet
    <3>3. \A o \in SavedFrames : o # 0
      BY FrameFacts
    <3> QED BY <3>2, <3>3 DEF Inv, FrameChain, IsNewest
  <2>3. first = First(frame) + 1 /\ First(frame) \in Nat
    <3>1. /\ frame.StackBegin = 0 => frame.VariableBegin = 0
          /\ frame.StackBegin > 0 => Args(frame) = Arity[frame.Function]
          /\ frame.StackBegin \in Nat /\ First(frame) \in Nat /\ frame.VariableBegin \in Nat
          /\ Args(frame) \in Nat
      BY <2>1, FrameFacts DEF Isolated, FramesApart
    <3>2. CASE frame.StackBegin = 0
      BY <2>2, <3>1, <3>2 DEF First, Args
    <3>3. CASE frame.StackBegin > 0
      BY <2>2, <3>1, <3>3 DEF First
    <3> QED BY <3>1, <3>2, <3>3
  <2> HIDE DEF first
  <2>4. ASSUME NEW i \in first .. Len(locals)
        PROVE  locals[i] > (IF i = first THEN frame.StackBegin ELSE locals[i - 1])
    <3>1. /\ i \in First(frame) + 1 .. Len(locals) /\ i \in 1 .. Len(locals) /\ i \in Nat
          /\ i # first => i - 1 \in First(frame) + 1 .. i - 1 /\ i - 1 \in 1 .. Len(locals)
      BY <2>3, InvStack
    <3>2. frame.StackBegin < locals[i] /\ \A j \in First(frame) + 1 .. i - 1 : locals[j] < locals[i]
      BY <2>1, <3>1 DEF Ascending
    <3>3. frame.StackBegin \in Nat /\ \A j \in 1 .. Len(locals) : locals[j] \in Nat
      BY FrameFacts, LocalsTyped
    <3> QED BY <3>1, <3>2, <3>3
  <2> QED BY <2>4 DEF OwnLocalsAscend, first
<1> QED BY <1>1, Invariance, Isolation, PTL

-----------------------------------------------------------------------------
(* What the top of the stack is *)

\* In memory m, every cell up to top that no type was written to lies in a structure
\* above it, and none in an array.
ReadableIn(m, top) ==
  /\ \A o \in 1 .. top : m[o].shape = NoType =>
       \E p \in o + 1 .. top : m[p].shape \in Structs /\ p - SizeOf(m[p]) < o
  /\ \A a \in 1 .. top : m[a].shape \in Arrays =>
       \A o \in a - SizeOf(m[a]) + 1 .. a : m[o].shape # NoType

\* The inductive invariant.
Readable == ReadableIn(mem, used)

\* A block that leaves no such cell bare: it has none, or is a structure around it.
ReadableBlock(block) ==
  \/ \A i \in 1 .. Len(block) : block[i].shape # NoType
  \/ /\ block[1].shape \in Structs
     /\ \A i \in 1 .. Len(block) : block[i].shape \in Arrays =>
          \A j \in i .. i - 1 + SizeOf(block[i]) : block[j].shape # NoType

\* The stack is rewritten above a point that no structure crosses.
LEMMA ReadableRewritten ==
  ASSUME NEW m, NEW w, NEW u \in Nat, NEW v \in Nat, NEW top \in Nat, top <= u, top <= v,
         ReadableIn(m, u), NestedIn(m, u), \A o \in 1 .. top : w[o] = m[o],
         \A o \in top + 1 .. u : m[o].shape \in Structs => top <= o - SizeOf(m[o]),
         \A o \in top + 1 .. v : top <= o - SizeOf(w[o]),
         \/ \A o \in top + 1 .. v : w[o].shape # NoType
         \/ /\ w[v].shape \in Structs /\ top = v - SizeOf(w[v])
            /\ \A a \in top + 1 .. v : w[a].shape \in Arrays =>
                 \A o \in a - SizeOf(w[a]) + 1 .. a : w[o].shape # NoType
  PROVE  ReadableIn(w, v)
<1>1. ASSUME NEW o \in 1 .. v, w[o].shape = NoType
      PROVE  \E p \in o + 1 .. v : w[p].shape \in Structs /\ p - SizeOf(w[p]) < o
  <2>1. CASE o <= top
    <3>1. o \in 1 .. u /\ o \in 1 .. top /\ m[o].shape = NoType
      BY <1>1, <2>1
    <3>2. PICK p \in o + 1 .. u : m[p].shape \in Structs /\ p - SizeOf(m[p]) < o
      BY <3>1 DEF ReadableIn
    <3>3. p <= top
      <4>1. SizeOf(m[p]) \in Nat
        BY SizeFacts
      <4> SUFFICES ASSUME p > top PROVE FALSE
        OBVIOUS
      <4>2. top <= p - SizeOf(m[p])
        BY <3>1, <3>2
      <4> QED BY <2>1, <3>2, <4>1, <4>2
    <3>4. p \in 1 .. top /\ p \in o + 1 .. v
      BY <3>1, <3>3
    <3> QED BY <3>2, <3>4
  <2>2. CASE o > top
    <3>1. o \in top + 1 .. v
      BY <2>2
    <3>2. w[v].shape \in Structs /\ top = v - SizeOf(w[v])
      BY <1>1, <3>1
    <3>3. o # v
      BY <1>1, <3>2, ProgramAssumption DEF Shapes
    <3>4. v \in o + 1 .. v
      BY <3>3
    <3> QED BY <2>2, <3>2, <3>4
  <2> QED BY <2>1, <2>2
<1>2. ASSUME NEW a \in 1 .. v, w[a].shape \in Arrays, NEW o \in a - SizeOf(w[a]) + 1 .. a
      PROVE  w[o].shape # NoType
  <2>1. CASE a <= top
    <3>1. a \in 1 .. u /\ a \in 1 .. top /\ w[a] = m[a]
      BY <2>1
    <3>2. m[o].shape # NoType
      BY <1>2, <3>1 DEF ReadableIn
    <3>3. o \in 1 .. top
      <4>1. SizeOf(m[a]) <= a /\ SizeOf(m[a]) \in Nat
        BY <3>1, SizeFacts DEF NestedIn
      <4> QED BY <2>1, <3>1, <4>1
    <3> QED BY <3>2, <3>3
  <2>2. CASE a > top
    <3>1. a \in top + 1 .. v
      BY <2>2
    <3>2. top <= a - SizeOf(w[a]) /\ SizeOf(w[a]) \in Nat
      BY <3>1, SizeFacts
    <3>3. o \in top + 1 .. v
      BY <3>1, <3>2
    <3> QED BY <1>2, <3>1, <3>3
  <2> QED BY <2>1, <2>2
<1> QED BY <1>1, <1>2 DEF ReadableIn

\* Nothing in an object reaches below it.
LEMMA ObjectReaches ==
  ASSUME NEW m, NEW u \in Nat, NestedIn(m, u), NEW a \in 1 .. u
  PROVE  \A o \in a - SizeOf(m[a]) + 1 .. a : a - SizeOf(m[a]) <= o - SizeOf(m[o])
<1>1. SizeOf(m[a]) \in Nat \ {0}
  BY SizeFacts
<1> SUFFICES ASSUME NEW o \in a - SizeOf(m[a]) + 1 .. a PROVE a - SizeOf(m[a]) <= o - SizeOf(m[o])
  OBVIOUS
<1>2. o = a \/ o \in a - SizeOf(m[a]) + 1 .. a - 1
  BY <1>1
<1> QED BY <1>1, <1>2 DEF NestedIn

\* A block replaces what lay above a point that no structure crosses.
LEMMA ReadableOver ==
  ASSUME NEW m, NEW w, NEW u \in Nat, NEW v \in Nat, NEW top \in Nat, top <= u,
         NEW block \in Seq(Cells), Len(block) > 0, SizeOf(block[1]) = Len(block), ReadableBlock(block),
         v = top + Len(block), ReadableIn(m, u), NestedIn(m, u), NestedIn(w, v),
         \A o \in top + 1 .. u : m[o].shape \in Structs => top <= o - SizeOf(m[o]),
         \A o \in 1 .. top : w[o] = m[o],
         \A o \in top + 1 .. v : w[o] = block[v - o + 1]
  PROVE  ReadableIn(w, v)
<1>1. top <= v /\ Len(block) \in Nat /\ \A o \in top + 1 .. v : v - o + 1 \in 1 .. Len(block)
  OBVIOUS
<1>2. w[v] = block[1] /\ SizeOf(w[v]) = Len(block) /\ top = v - SizeOf(w[v])
  <2>1. v \in top + 1 .. v /\ v - v + 1 = 1
    BY <1>1
  <2> QED BY <1>1, <2>1
<1>3. \A o \in top + 1 .. v : top <= o - SizeOf(w[o])
  <2>1. v \in 1 .. v
    BY <1>1
  <2> QED BY <1>2, <2>1, ObjectReaches
<1>4. \/ \A o \in top + 1 .. v : w[o].shape # NoType
      \/ /\ w[v].shape \in Structs /\ top = v - SizeOf(w[v])
         /\ \A a \in top + 1 .. v : w[a].shape \in Arrays =>
              \A o \in a - SizeOf(w[a]) + 1 .. a : w[o].shape # NoType
  <2>1. CASE \A i \in 1 .. Len(block) : block[i].shape # NoType
    BY <1>1, <2>1
  <2>2. CASE /\ block[1].shape \in Structs
             /\ \A i \in 1 .. Len(block) : block[i].shape \in Arrays =>
                  \A j \in i .. i - 1 + SizeOf(block[i]) : block[j].shape # NoType
    <3>1. ASSUME NEW a \in top + 1 .. v, w[a].shape \in Arrays, NEW o \in a - SizeOf(w[a]) + 1 .. a
          PROVE  w[o].shape # NoType
      <4> DEFINE i == v - a + 1
                 j == v - o + 1
      <4>1. i \in 1 .. Len(block) /\ w[a] = block[i]
        BY <1>1
      <4>2. top <= a - SizeOf(w[a]) /\ SizeOf(w[a]) \in Nat
        BY <1>3, SizeFacts
      <4>3. PICK size : size = SizeOf(w[a])
        OBVIOUS
      <4>4. top <= a - size /\ size \in Nat /\ o \in a - size + 1 .. a
        BY <4>2, <4>3
      <4>5. o \in top + 1 .. v /\ j \in i .. i - 1 + size
        BY <1>1, <4>4
      <4>6. w[o] = block[j]
        BY <4>5
      <4>7. size = SizeOf(block[i]) /\ block[i].shape \in Arrays
        BY <3>1, <4>1, <4>3
      <4> HIDE DEF i, j
      <4> QED BY <2>2, <4>1, <4>5, <4>6, <4>7
    <3> QED BY <1>2, <2>2, <3>1
  <2> QED BY <2>1, <2>2 DEF ReadableBlock
<1> QED BY <1>1, <1>3, <1>4, ReadableRewritten

LEMMA ReadablePlaced ==
  ASSUME Inv, Inv', Readable, NEW top \in Nat, top <= used,
         \A o \in top + 1 .. used : mem[o].shape \in Structs => top <= o - SizeOf(mem[o]),
         NEW block \in Seq(Cells), Len(block) > 0, SizeOf(block[1]) = Len(block), ReadableBlock(block),
         mem' = Placed(mem, block, used'), used' = top + Len(block)
  PROVE  Readable'
<1>1. PICK v : v = used'
  OBVIOUS
<1>2. PICK w : w = mem'
  OBVIOUS
<1>3. /\ v \in 1 .. StackSize /\ StackSize \in Nat /\ used \in Nat /\ Len(block) \in Nat
      /\ v = top + Len(block) /\ v \in Nat /\ NestedIn(w, v) /\ NestedIn(mem, used)
  <2>1. used' \in 0 .. StackSize /\ NestedIn(mem', used')
    BY DEF Inv, TypeOK, ObjectsNested
  <2>2. StackSize \in Nat /\ used \in Nat /\ NestedIn(mem, used) /\ Len(block) \in Nat
    BY InvStack DEF ObjectsNested, StackOK
  <2>3. v \in 0 .. StackSize /\ NestedIn(w, v) /\ v = top + Len(block)
    BY <1>1, <1>2, <2>1
  <2> QED BY <2>2, <2>3
<1>4. w = Placed(mem, block, v)
  BY <1>1, <1>2
<1>5. /\ \A o \in 1 .. top : w[o] = mem[o]
      /\ \A o \in top + 1 .. v : w[o] = block[v - o + 1]
  BY <1>3, <1>4 DEF Placed
<1>6. ReadableIn(w, v)
  BY <1>3, <1>5, ReadableOver DEF Readable
<1> QED BY <1>1, <1>2, <1>6 DEF Readable

LEMMA ReadableTaken ==
  ASSUME Inv, Inv', Readable, NEW top \in Nat, top <= used,
         \A o \in top + 1 .. used : mem[o].shape \in Structs => top <= o - SizeOf(mem[o]),
         mem' = Trimmed(mem, top), used' = top
  PROVE  Readable'
<1>1. /\ StackSize \in Nat /\ used \in 0 .. StackSize /\ used \in Nat /\ NestedIn(mem, used)
  BY InvStack DEF ObjectsNested, StackOK
<1>2. PICK w : w = Trimmed(mem, top)
  OBVIOUS
<1>3. \A o \in 1 .. top : w[o] = mem[o]
  BY <1>1, <1>2 DEF Trimmed, Placed
<1>4. ReadableIn(w, top)
  <2>1. top <= top /\ top + 1 .. top = {}
    OBVIOUS
  <2>2. \A o \in top + 1 .. top : top <= o - SizeOf(w[o]) /\ w[o].shape # NoType
    BY <2>1
  <2> QED BY <1>1, <1>3, <2>1, <2>2, ReadableRewritten DEF Readable
<1> QED BY <1>2, <1>4 DEF Readable

LEMMA ReadableKept ==
  ASSUME Readable, UNCHANGED <<mem, used>>
  PROVE  Readable'
  BY DEF Readable, ReadableIn

\* An object on the stack is such a block.
LEMMA ObjectReadable ==
  ASSUME Inv, Readable, NEW a \in 1 .. used, IsObject(mem[a])
  PROVE  ReadableBlock(ObjectAt(a))
<1> DEFINE n == SizeOf(mem[a])
           block == ObjectAt(a)
<1>1. /\ n \in 1 .. a /\ Len(block) = n /\ \A i \in 1 .. n : block[i] = mem[a - i + 1]
      /\ BlockNested(block) /\ a \in Nat /\ used \in Nat
  <2>1. mem \in [1 .. StackSize -> Cells] /\ used \in 0 .. StackSize /\ NestedIn(mem, used)
    BY InvStack DEF StackOK, ObjectsNested
  <2>2. used \in Nat /\ a \in Nat
    BY InvStack
  <2> QED BY <2>1, <2>2, ObjectBlock
<1>2. block[1] = mem[a]
  <2>1. a - 1 + 1 = a /\ 1 \in 1 .. n
    BY <1>1
  <2> QED BY <1>1, <2>1
<1> SUFFICES ReadableBlock(block)
  OBVIOUS
<1> HIDE DEF block
<1>3. CASE mem[a].shape \in Structs
  <2>1. ASSUME NEW i \in 1 .. n, block[i].shape \in Arrays, NEW j \in i .. i - 1 + SizeOf(block[i])
        PROVE  block[j].shape # NoType
    <3> DEFINE b == a - i + 1
               o == a - j + 1
    <3>1. block[i] = mem[b] /\ b \in 1 .. used
      BY <1>1
    <3>2. i - 1 + SizeOf(block[i]) <= n /\ SizeOf(block[i]) \in Nat
      BY <1>1, SizeFacts DEF BlockNested
    <3>3. j \in 1 .. n
      BY <1>1, <3>2
    <3>4. block[j] = mem[o]
      BY <1>1, <3>3
    <3>5. PICK size : size = SizeOf(block[i])
      OBVIOUS
    <3>6. o \in b - size + 1 .. b
      BY <1>1, <3>2, <3>3, <3>5
    <3>7. size = SizeOf(mem[b]) /\ mem[b].shape \in Arrays
      BY <2>1, <3>1, <3>5
    <3> HIDE DEF b, o
    <3> QED BY <3>1, <3>4, <3>6, <3>7 DEF Readable, ReadableIn
  <2> QED BY <1>1, <1>2, <1>3, <2>1 DEF ReadableBlock
<1>4. CASE mem[a].shape \in Arrays
  <2>1. ASSUME NEW i \in 1 .. n PROVE block[i].shape # NoType
    <3>1. a - i + 1 \in a - n + 1 .. a /\ block[i] = mem[a - i + 1]
      BY <1>1
    <3> QED BY <1>4, <3>1 DEF Readable, ReadableIn
  <2> QED BY <1>1, <2>1 DEF ReadableBlock
<1>5. CASE mem[a].shape \in Scalars
  <2>1. n = 1
    BY <1>5, LayoutAssumption DEF SizeOf, IsObject, Shapes
  <2>2. mem[a].shape # NoType
    BY <1>5, ProgramAssumption DEF Shapes
  <2>3. \A i \in 1 .. Len(block) : i = 1
    BY <1>1, <2>1
  <2> QED BY <1>2, <2>2, <2>3 DEF ReadableBlock
<1> QED BY <1>3, <1>4, <1>5 DEF IsObject, Shapes

LEMMA NewReadable ==
  ASSUME NEW s \in Shapes, NEW value \in Values
  PROVE  ReadableBlock(NewObject(s, value))
<1> DEFINE n == ObjectSize[s]
<1>1. n \in Nat /\ \A i \in 1 .. n : Layout[s][i] \in Shapes
  BY SizeFacts
<1>2. NewObject(s, value) = [i \in 1 .. n |-> [shape |-> Layout[s][i], val |-> value]]
  BY DEF NewObject
<1>3. Len(NewObject(s, value)) = n
  BY NewHeader
<1>4. \A i \in 1 .. n : NewObject(s, value)[i].shape # NoType
  BY <1>1, <1>2, ProgramAssumption
<1> QED BY <1>3, <1>4 DEF ReadableBlock

-----------------------------------------------------------------------------
(* The top of the stack: one lemma per action *)

LEMMA OccurReadable ==
  ASSUME Readable, NEW code, OccurException(code)
  PROVE  Readable'
  BY ReadableKept DEF OccurException, Occur

LEMMA CrashReadable ==
  ASSUME Readable, Crash
  PROVE  Readable'
  BY ReadableKept DEF Crash

\* The object on top reaches down to where the next one starts.
LEMMA TopReaches ==
  ASSUME Inv, used > 0, IsObject(mem[used])
  PROVE  /\ used - SizeOf(mem[used]) \in Nat /\ used - SizeOf(mem[used]) <= used
         /\ \A o \in used - SizeOf(mem[used]) + 1 .. used : used - SizeOf(mem[used]) <= o - SizeOf(mem[o])
<1>1. used \in Nat /\ used \in 1 .. used /\ NestedIn(mem, used)
  BY InvStack DEF ObjectsNested
<1>2. used - SizeOf(mem[used]) \in Nat /\ SizeOf(mem[used]) \in Nat
  BY <1>1, SizeFacts DEF NestedIn
<1> QED BY <1>1, <1>2, ObjectReaches

LEMMA ScalarCell ==
  ASSUME NEW cell, cell.shape \in Scalars
  PROVE  IsObject(cell) /\ SizeOf(cell) = 1
  BY LayoutAssumption DEF IsObject, SizeOf, Shapes

LEMMA PushAnyReadable ==
  ASSUME Inv, Inv', Readable, NEW shapes \in SUBSET Shapes, PushAny(shapes)
  PROVE  Readable'
<1> SUFFICES ASSUME ~ \E code : OccurException(code) PROVE Readable'
  BY OccurReadable
<1>1. PICK s \in shapes, value \in Values : PushObject(NewObject(s, value))
  BY DEF PushAny
<1> DEFINE block == NewObject(s, value)
<1>2. /\ block \in Seq(Cells) /\ Len(block) > 0 /\ SizeOf(block[1]) = Len(block) /\ ReadableBlock(block)
  BY NewHeader, NewReadable
<1>3. mem' = Placed(mem, block, used') /\ used' = used + Len(block)
  BY <1>1 DEF PushObject
<1>4. used \in Nat /\ used <= used /\ used + 1 .. used = {}
  BY InvStack
<1> HIDE DEF block
<1> QED BY <1>2, <1>3, <1>4, ReadablePlaced

LEMMA PushReadable == Inv /\ Inv' /\ Readable /\ InterpretPush => Readable'
<1>1. Numbers \cup Structs \in SUBSET Shapes
  BY ProgramAssumption DEF Shapes
<1> QED BY <1>1, PushAnyReadable DEF InterpretPush

\* A scalar on top reaches no deeper.
LEMMA ScalarReaches ==
  ASSUME Inv, ScalarTop
  PROVE  /\ used - 1 \in Nat /\ used - 1 <= used
         /\ \A o \in used - 1 + 1 .. used : used - 1 <= o - SizeOf(mem[o])
<1>1. used > 0 /\ IsObject(mem[used]) /\ SizeOf(mem[used]) = 1
  BY ScalarCell, InvStack DEF ScalarTop, IsNull
<1> QED BY <1>1, TopReaches

LEMMA ReplaceTopReadable ==
  ASSUME Inv, Inv', Readable, ScalarTop,
         NEW block \in Seq(Cells), Len(block) > 0, SizeOf(block[1]) = Len(block), ReadableBlock(block),
         ReplaceTop(block)
  PROVE  Readable'
<1> SUFFICES ASSUME ~ \E code : OccurException(code) PROVE Readable'
  BY OccurReadable
<1>1. mem' = Placed(mem, block, used') /\ used' = used - 1 + Len(block)
  BY DEF ReplaceTop
<1> QED BY <1>1, ScalarReaches, ReadablePlaced

LEMMA APushReadable == Inv /\ Inv' /\ Readable /\ InterpretAPush => Readable'
<1> SUFFICES ASSUME Inv, Inv', Readable, InterpretAPush, ~ \E code : OccurException(code), ~Crash
             PROVE  Readable'
  BY OccurReadable, CrashReadable
<1>1. PICK s \in Arrays :
        ~IsLocalVariable(0) /\ ~IsNull(used) /\ mem[used].shape \in Numbers /\ ReplaceTop(NewObject(s, Zero))
  BY DEF InterpretAPush, CountOnTop
<1>2. s \in Shapes /\ Zero \in Values /\ ScalarTop
  BY <1>1, ProgramAssumption DEF Shapes, ScalarTop
<1> DEFINE block == NewObject(s, Zero)
<1>3. /\ block \in Seq(Cells) /\ Len(block) > 0 /\ SizeOf(block[1]) = Len(block) /\ ReadableBlock(block)
  BY <1>2, NewHeader, NewReadable
<1>4. ReplaceTop(block)
  BY <1>1
<1> HIDE DEF block
<1> QED BY <1>2, <1>3, <1>4, ReplaceTopReadable

LEMMA PopReadable == Inv /\ Inv' /\ Readable /\ InterpretPop => Readable'
<1> SUFFICES ASSUME Inv, Inv', Readable, InterpretPop PROVE Readable'
  OBVIOUS
<1>1. CASE IsNull(used) \/ ~IsObject(mem[used])
  BY <1>1, ReadableKept DEF InterpretPop, Occur
<1>2. CASE ~(IsNull(used) \/ ~IsObject(mem[used]))
  <2> DEFINE top == used - SizeOf(mem[used])
  <2>1. used > 0 /\ IsObject(mem[used]) /\ Reduce(SizeOf(mem[used]))
    BY <1>2, InvStack DEF InterpretPop, IsNull, SizeOf
  <2>2. top \in Nat /\ top <= used /\ \A o \in top + 1 .. used : top <= o - SizeOf(mem[o])
    BY <2>1, TopReaches
  <2>3. mem' = Trimmed(mem, top) /\ used' = top
    BY <2>1 DEF Reduce
  <2> HIDE DEF top
  <2> QED BY <2>2, <2>3, ReadableTaken
<1> QED BY <1>1, <1>2

LEMMA LoadReadable == \A operand \in Operands : Inv /\ Inv' /\ Isolated /\ Readable /\ InterpretLoad(operand) => Readable'
<1> SUFFICES ASSUME NEW operand \in Operands, Inv, Inv', Isolated, Readable, InterpretLoad(operand),
                    ~ \E code : OccurException(code), ~Crash
             PROVE  Readable'
  BY OccurReadable, CrashReadable
<1> DEFINE index == LocalIndex(operand)
           offset == locals[index + 1]
           block == ObjectAt(offset)
<1>1. /\ ~(index >= Len(locals)) /\ PushObject(block) /\ status = "running"
  BY DEF InterpretLoad, Fetch
<1>2. index \in Nat
  BY LocalIndexTyped
<1> HIDE DEF index
<1>3. index + 1 \in 1 .. Len(locals)
  BY <1>1, <1>2, InvStack
<1>4. offset \in 1 .. used /\ IsObject(mem[offset])
  BY <1>1, <1>3, Ordered DEF Isolated, LocalsApart
<1> HIDE DEF offset
<1>5. /\ block \in Seq(Cells) /\ Len(block) = SizeOf(mem[offset]) /\ block[1] = mem[offset]
      /\ SizeOf(mem[offset]) \in Nat \ {0}
  <2>1. /\ block \in Seq(Cells) /\ Len(block) = SizeOf(mem[offset]) /\ SizeOf(mem[offset]) \in Nat \ {0}
        /\ \A i \in 1 .. SizeOf(mem[offset]) : block[i] = mem[offset - i + 1]
    BY <1>4, ObjectBlock, SizeFacts, InvStack DEF StackOK, ObjectsNested
  <2>2. block[1] = mem[offset - 1 + 1] /\ offset - 1 + 1 = offset
    BY <1>4, <2>1
  <2> QED BY <2>1, <2>2
<1>6. ReadableBlock(block)
  BY <1>4, ObjectReadable
<1>7. mem' = Placed(mem, block, used') /\ used' = used + Len(block)
  BY <1>1 DEF PushObject
<1>8. used \in Nat /\ used <= used /\ used + 1 .. used = {}
  BY InvStack
<1> HIDE DEF block
<1>9. Len(block) > 0 /\ SizeOf(block[1]) = Len(block)
  BY <1>5
<1> QED BY <1>5, <1>6, <1>7, <1>8, <1>9, ReadablePlaced

LEMMA CopyReadable == Inv /\ Inv' /\ Readable /\ InterpretCopy => Readable'
<1> SUFFICES ASSUME Inv, Inv', Readable, InterpretCopy, ~ \E code : OccurException(code)
             PROVE  Readable'
  BY OccurReadable
<1> DEFINE top    == mem[used]
           object == ObjectAt(used)
           n      == SizeOf(top)
<1>1. /\ ~IsNull(used) /\ IsObject(top)
      /\ used' = used + TypeSize[top.shape]
      /\ mem' = Placed(mem, Duplicate(object), used')
  BY DEF InterpretCopy
<1>2. used \in 1 .. used /\ used \in Nat /\ used > 0 /\ n \in Nat \ {0} /\ used <= used /\ used + 1 .. used = {}
  BY <1>1, InvStack, SizeFacts DEF IsNull
<1>3. /\ object \in Seq(Cells) /\ BlockNested(object) /\ Len(object) = n /\ n \in 1 .. used
      /\ \A i \in 1 .. n : object[i] = mem[used - i + 1]
      /\ object[1] = top
      /\ \A i \in 1 .. n : object[i].shape # NoneType
  <2>1. mem \in [1 .. StackSize -> Cells] /\ used \in 0 .. StackSize /\ NestedIn(mem, used)
    BY InvStack DEF StackOK, ObjectsNested
  <2>2. mem[used - 1 + 1] = mem[used] /\ SizeOf(top) \in 1 .. used
    BY <1>2, <2>1, ObjectBlock
  <2>3. top.shape # NoneType
    BY <1>1, ProgramAssumption DEF IsObject
  <2> QED BY <1>2, <2>1, <2>2, <2>3, ObjectBlock
<1>4. ReadableBlock(object)
  BY <1>1, <1>2, ObjectReadable
<1> HIDE DEF object
<1>5. CASE top.shape \in Structs
  <2> DEFINE block == Duplicate(object)
  <2>1. /\ block = [i \in 1 .. n |-> IF i = 1 THEN top ELSE Raw]
        /\ block \in Seq(Cells) /\ Len(block) = n
    <3>1. block = [i \in 1 .. Len(object) |-> IF i = 1 THEN object[1] ELSE Raw]
      BY <1>3, <1>5 DEF Duplicate
    <3>2. block \in Seq(Cells) /\ Len(block) = n
      BY <1>1, <1>2, <1>3, DuplicateBlock
    <3> QED BY <1>3, <3>1, <3>2
  <2>2. block[1] = top /\ \A i \in 1 .. n : block[i].shape \notin Arrays
    <3>1. Raw.shape \notin Arrays /\ top.shape \notin Arrays
      BY <1>5, ProgramAssumption DEF Raw, Shapes
    <3> QED BY <1>2, <2>1, <3>1
  <2>3. ReadableBlock(block)
    BY <1>5, <2>1, <2>2 DEF ReadableBlock
  <2>4. used' = used + Len(block) /\ mem' = Placed(mem, block, used')
    <3>1. TypeSize[top.shape] = n
      BY <1>1, <1>5, LayoutAssumption DEF SizeOf
    <3> QED BY <1>1, <2>1, <3>1
  <2>5. Len(block) > 0 /\ SizeOf(block[1]) = Len(block)
    BY <1>2, <2>1, <2>2
  <2> HIDE DEF block
  <2> QED BY <1>2, <2>1, <2>3, <2>4, <2>5, ReadablePlaced
<1>6. CASE top.shape \in Scalars
  <2>1. n = 1 /\ TypeSize[top.shape] = 1 /\ Duplicate(object) = object
    <3>1. n = 1 /\ top.shape \notin Structs
      BY <1>6, ScalarCell, ProgramAssumption
    <3>2. TypeSize[top.shape] = ObjectSize[top.shape] /\ ObjectSize[top.shape] = 1
      BY <1>6, LayoutAssumption
    <3> QED BY <1>3, <3>1, <3>2 DEF Duplicate
  <2>2. used' = used + Len(object) /\ mem' = Placed(mem, object, used')
        /\ Len(object) > 0 /\ SizeOf(object[1]) = Len(object)
    BY <1>1, <1>3, <2>1
  <2> QED BY <1>2, <1>3, <1>4, <2>2, ReadablePlaced
<1>7. CASE top.shape \in Arrays
  <2>1. TypeSize[top.shape] = 1 /\ Duplicate(object) = object
    <3>1. top.shape \notin Structs /\ TypeSize[top.shape] = 1
      BY <1>7, LayoutAssumption, ProgramAssumption
    <3> QED BY <1>3, <3>1 DEF Duplicate
  <2> DEFINE low == used - n
             v   == used + 1
             w   == Placed(mem, object, v)
  <2>2. used' = v /\ mem' = w
    BY <1>1, <2>1
  <2>3. /\ low \in Nat /\ low <= used /\ low <= v /\ v \in Nat /\ v \in 1 .. StackSize /\ StackSize \in Nat
        /\ NestedIn(mem, used) /\ NestedIn(w, v)
        /\ \A o \in low + 1 .. used : low <= o - SizeOf(mem[o])
    <3>1. used' \in 0 .. StackSize /\ StackSize \in Nat /\ NestedIn(mem', used') /\ NestedIn(mem, used)
      BY InvStack DEF Inv, TypeOK, ObjectsNested
    <3>2. v \in 0 .. StackSize /\ NestedIn(w, v)
      BY <2>2, <3>1
    <3> HIDE DEF w
    <3> QED BY <1>1, <1>2, <1>3, <3>1, <3>2, TopReaches
  <2>4. /\ \A o \in 1 .. low + 1 : w[o] = mem[o]
        /\ \A o \in low + 2 .. v : v - o + 1 \in 1 .. n /\ w[o] = object[v - o + 1]
    <3>1. \A o \in 1 .. StackSize :
            w[o] = IF o > v THEN Raw ELSE IF o > v - Len(object) THEN object[v - o + 1] ELSE mem[o]
      BY DEF Placed
    <3>2. v - Len(object) = low + 1 /\ n \in Nat
      BY <1>2, <1>3
    <3>3. \A o \in 1 .. low + 1 : o \in 1 .. StackSize /\ ~(o > v) /\ ~(o > low + 1)
      BY <1>2, <1>3, <2>3
    <3>4. \A o \in low + 2 .. v : o \in 1 .. StackSize /\ ~(o > v) /\ o > low + 1 /\ v - o + 1 \in 1 .. n
      BY <1>2, <1>3, <2>3
    <3> HIDE DEF w, low, v
    <3> QED BY <3>1, <3>2, <3>3, <3>4
  <2> HIDE DEF w
  <2>5. \A o \in low + 1 .. used : mem[o].shape # NoType
    BY <1>2, <1>7 DEF Readable, ReadableIn
  <2>6. \A i \in 1 .. n : object[i].shape # NoType
    <3>1. \A i \in 1 .. n : used - i + 1 \in low + 1 .. used
      BY <1>2
    <3> QED BY <1>3, <2>5, <3>1
  <2>7. low + 1 \in 1 .. low + 1 /\ low + 1 \in low + 1 .. used
        /\ \A o \in low + 1 .. v : o = low + 1 \/ o \in low + 2 .. v
    BY <1>2, <1>3, <2>3
  <2>8. \A o \in low + 1 .. v : w[o].shape # NoType
    <3>1. w[low + 1].shape # NoType
      BY <2>4, <2>5, <2>7
    <3> QED BY <2>4, <2>6, <2>7, <3>1
  <2>9. \A o \in low + 1 .. v : low <= o - SizeOf(w[o])
    <3>0. PICK cell : cell = low + 1
      OBVIOUS
    <3>1. low <= cell - SizeOf(w[cell])
      <4>1. cell \in low + 1 .. used /\ w[cell] = mem[cell]
        BY <2>4, <2>7, <3>0
      <4> QED BY <2>3, <4>1
    <3>2. ASSUME NEW o \in low + 2 .. v PROVE low <= o - SizeOf(w[o])
      <4>1. v \in low + 2 .. v /\ v - v + 1 = 1 /\ v \in 1 .. v
        BY <1>2, <1>3, <2>3
      <4>2. SizeOf(w[v]) = n
        BY <1>3, <2>4, <4>1
      <4>3. o \in v - n + 1 .. v /\ v - n = low + 1
        BY <1>2, <1>3, <2>3
      <4>4. v - n <= o - SizeOf(w[o]) /\ SizeOf(w[o]) \in Nat
        BY <2>3, <4>1, <4>2, <4>3, ObjectReaches, SizeFacts
      <4> QED BY <1>2, <1>3, <2>3, <4>3, <4>4
    <3> SUFFICES ASSUME NEW o \in low + 1 .. v PROVE low <= o - SizeOf(w[o])
      OBVIOUS
    <3>3. o = cell \/ o \in low + 2 .. v
      BY <2>7, <3>0
    <3> HIDE DEF low, v
    <3> QED BY <3>1, <3>2, <3>3
  <2>10. \A o \in 1 .. low : w[o] = mem[o]
    BY <2>3, <2>4
  <2> HIDE DEF low, v
  <2>11. ReadableIn(w, v)
    BY <1>2, <2>3, <2>8, <2>9, <2>10, ReadableRewritten DEF Readable
  <2> QED BY <2>2, <2>11 DEF Readable
<1> QED BY <1>1, <1>5, <1>6, <1>7 DEF IsObject, Shapes

LEMMA YieldReadable ==
  ASSUME Inv, Inv', Readable, NEW operands \in {1, 2}, NEW type \in Scalars, NEW results \in SUBSET Values,
         used - operands \in Nat,
         \A o \in used - operands + 1 .. used : used - operands <= o - SizeOf(mem[o]),
         Yield(operands, type, results)
  PROVE  Readable'
<1>1. PICK result \in results :
        /\ mem' = Placed(mem, <<[shape |-> type, val |-> result]>>, used - operands + 1)
        /\ used' = used - operands + 1
  BY DEF Yield
<1> DEFINE block == NewObject(type, result)
<1>2. type \in Shapes /\ ObjectSize[type] = 1 /\ Layout[type][1] = type /\ result \in Values
  BY LayoutAssumption DEF Shapes
<1>3. block = <<[shape |-> type, val |-> result]>>
  BY <1>2 DEF NewObject
<1>4. block \in Seq(Cells) /\ Len(block) > 0 /\ SizeOf(block[1]) = Len(block) /\ ReadableBlock(block)
      /\ Len(block) = 1
  BY <1>2, NewHeader, NewReadable
<1>5. used - operands <= used /\ used \in Nat
  BY InvStack
<1> HIDE DEF block
<1>6. mem' = Placed(mem, block, used') /\ used' = used - operands + Len(block)
  BY <1>1, <1>3, <1>4, <1>5
<1> QED BY <1>4, <1>5, <1>6, ReadablePlaced

\* Two scalars on top reach no deeper.
LEMMA PairReaches ==
  ASSUME Inv, used - 1 > 0, mem[used].shape \in Scalars, mem[used - 1].shape \in Scalars
  PROVE  /\ used - 2 \in Nat /\ used - 1 \in Nat /\ used - 1 <= used
         /\ \A o \in used - 1 + 1 .. used : used - 1 <= o - SizeOf(mem[o])
         /\ \A o \in used - 2 + 1 .. used : used - 2 <= o - SizeOf(mem[o])
<1>1. used \in Nat
  BY InvStack
<1>2. SizeOf(mem[used]) = 1 /\ SizeOf(mem[used - 1]) = 1
  BY ScalarCell
<1>3. \A o \in used - 1 + 1 .. used : o = used
  BY <1>1
<1>4. \A o \in used - 2 + 1 .. used : o = used \/ o = used - 1
  BY <1>1
<1> QED BY <1>1, <1>2, <1>3, <1>4

LEMMA BinaryReadable ==
  Inv /\ Inv' /\ Readable /\ (InterpretOperation \/ InterpretDiv \/ InterpretCmp) => Readable'
<1> SUFFICES ASSUME Inv, Inv', Readable, InterpretOperation \/ InterpretDiv \/ InterpretCmp,
                    ~ \E code : OccurException(code)
             PROVE  Readable'
  BY OccurReadable
<1> DEFINE top == mem[used].shape
<1>1. /\ ~ OccurException("STACK_EMPTY") /\ ~ OccurException("STACK_DIFFERENTTYPE")
      /\ ~ OccurException(InvalidOperand(top)) /\ ~ OccurException("POINTER_INVALIDFORPOINTER")
  OBVIOUS
<1>2. ~ IsNull(used - 1) /\ top \in Scalars /\ mem[used - 1].shape = top
  BY <1>1 DEF InterpretOperation, InterpretDiv, InterpretCmp, NumberOnTop, ScalarOnTop, PopTwoSameType
<1>3. /\ 2 \in {1, 2} /\ IntType \in Scalars /\ used - 2 \in Nat /\ used - 1 \in Nat /\ used - 1 <= used
      /\ \A o \in used - 1 + 1 .. used : used - 1 <= o - SizeOf(mem[o])
      /\ \A o \in used - 2 + 1 .. used : used - 2 <= o - SizeOf(mem[o])
  <2>1. used - 1 > 0
    BY <1>2, InvStack DEF IsNull
  <2> QED BY <1>2, <2>1, PairReaches, ProgramAssumption
<1>4. Yield(2, top, Values) \/ Yield(2, IntType, Values) \/ OccurAndPop("ARITHMETIC_DIVIDEBYZERO")
  BY <1>1 DEF InterpretOperation, InterpretDiv, InterpretCmp, NumberOnTop, ScalarOnTop, PopTwoSameType
<1>5. CASE Yield(2, top, Values)
  BY <1>2, <1>3, <1>5, YieldReadable
<1>6. CASE Yield(2, IntType, Values)
  BY <1>3, <1>6, YieldReadable
<1>7. CASE OccurAndPop("ARITHMETIC_DIVIDEBYZERO")
  BY <1>3, <1>7, ReadableTaken DEF OccurAndPop, Reduce
<1> QED BY <1>4, <1>5, <1>6, <1>7

LEMMA UnaryReadable == Inv /\ Inv' /\ Readable /\ (InterpretNeg \/ TypeCast) => Readable'
<1> SUFFICES ASSUME Inv, Inv', Readable, InterpretNeg \/ TypeCast, ~ \E code : OccurException(code)
             PROVE  Readable'
  BY OccurReadable
<1> DEFINE top == mem[used].shape
<1>1. ~ OccurException("STACK_EMPTY") /\ ~ OccurException(InvalidOperand(top))
      /\ ~ OccurException("POINTER_INVALIDFORPOINTER")
  OBVIOUS
<1>2. ~ IsNull(used) /\ top \in Scalars /\ IsObject(mem[used])
  BY <1>1 DEF InterpretNeg, TypeCast, NumberOnTop, ScalarOnTop
<1>3. PICK type \in Scalars, results \in SUBSET Values : Yield(1, type, results)
  <2>1. CASE InterpretNeg
    BY <1>1, <1>2, <2>1 DEF InterpretNeg, NumberOnTop, ScalarOnTop
  <2>2. CASE TypeCast
    <3>1. mem[used].val \in Values
      <4>1. mem[used] \in Cells
        BY <1>2, ScalarOperands, InvStack DEF StackOK
      <4> QED BY <1>2, <4>1, ProgramAssumption DEF Cells, IsObject, Raw, Shapes
    <3>2. PICK type \in Numbers : Yield(1, type, IF type = top THEN {mem[used].val} ELSE Values)
      BY <1>1, <2>2 DEF TypeCast, NumberOnTop, ScalarOnTop
    <3> QED BY <3>1, <3>2, ProgramAssumption
  <2> QED BY <2>1, <2>2
<1>4. /\ 1 \in {1, 2} /\ used - 1 \in Nat
      /\ \A o \in used - 1 + 1 .. used : used - 1 <= o - SizeOf(mem[o])
  <2>1. used > 0 /\ SizeOf(mem[used]) = 1
    BY <1>2, ScalarCell, InvStack DEF IsNull
  <2> QED BY <1>2, <2>1, TopReaches
<1> QED BY <1>3, <1>4, YieldReadable

LEMMA JumpConditionReadable == Inv /\ Inv' /\ Readable /\ JumpCondition => Readable'
<1> SUFFICES ASSUME Inv, Inv', Readable, JumpCondition, ~ \E code : OccurException(code) PROVE Readable'
  BY OccurReadable
<1>1. /\ ~ IsNull(used) /\ mem[used].shape \in Scalars /\ IsObject(mem[used])
      /\ UNCHANGED <<mem, used>> \/ Reduce(1)
  BY DEF JumpCondition
<1>2. /\ used - 1 \in Nat /\ used - 1 <= used
      /\ \A o \in used - 1 + 1 .. used : used - 1 <= o - SizeOf(mem[o])
  <2>1. used > 0 /\ SizeOf(mem[used]) = 1
    BY <1>1, ScalarCell, InvStack DEF IsNull
  <2> QED BY <1>1, <2>1, TopReaches
<1>3. CASE UNCHANGED <<mem, used>>
  BY <1>3, ReadableKept
<1>4. CASE Reduce(1)
  BY <1>2, <1>4, ReadableTaken DEF Reduce
<1> QED BY <1>1, <1>3, <1>4

\* The frame of a callee lies on top.
LEMMA EnterReadable ==
  ASSUME Inv, Inv', Readable, NEW function, NEW walk, NEW caller, Enter(function, walk, caller)
  PROVE  Readable'
<1> DEFINE block == <<[shape |-> NoneType, val |-> frame]>>
<1>1. mem' = Placed(mem, block, used') /\ used' = used + Len(block)
  BY DEF Enter, PushObject
<1>2. block \in Seq(Cells) /\ Len(block) = 1 /\ SizeOf(block[1]) = 1 /\ ReadableBlock(block)
  <2>1. [shape |-> NoneType, val |-> frame] \in Cells
    BY DEF Cells, Inv, TypeOK
  <2>2. ~IsObject([shape |-> NoneType, val |-> frame]) /\ NoneType # NoType
    BY ProgramAssumption DEF IsObject
  <2> QED BY <2>1, <2>2 DEF SizeOf, ReadableBlock
<1>3. used \in Nat /\ used <= used /\ used + 1 .. used = {}
  BY InvStack
<1>4. Len(block) > 0 /\ SizeOf(block[1]) = Len(block)
  BY <1>2
<1> HIDE DEF block
<1> QED BY <1>1, <1>2, <1>3, <1>4, ReadablePlaced

\* No structure among the arguments of a virtual function reaches below where the
\* function returns to.
LEMMA ArgumentsReach ==
  ASSUME Inv, NEW function \in Callables, NEW walk \in Arguments(Arity[function]),
         NEW result, Return(function, used, result)
  PROVE  \E end \in Nat :
           /\ end <= used /\ used' = end + Len(result) /\ mem' = Placed(mem, result, used')
           /\ \A p \in end + 1 .. used : mem[p].shape \in Structs => end <= p - SizeOf(mem[p])
<1> DEFINE n == Arity[function]
<1>1. n \in Nat /\ used \in Nat /\ used <= used /\ NestedIn(mem, used) /\ walk \in Walks(ObjectSize, used, n)
  BY ProgramAssumption, InvStack DEF Arguments, ObjectsNested
<1>2. PICK back \in Walks(TypeSize, used, n) :
        used' = back[n] + Len(result) /\ mem' = Placed(mem, result, used')
  BY DEF Return
<1> HIDE DEF n
<1>3. /\ back[n] \in 0 .. used
      /\ \A p \in back[n] + 1 .. used : mem[p].shape \in Structs => back[n] <= p - SizeOf(mem[p])
  BY <1>1, <1>2, ReturnEnd
<1> QED BY <1>1, <1>2, <1>3

LEMMA CallReadable == Inv /\ Inv' /\ Readable /\ InterpretCall => Readable'
<1> SUFFICES ASSUME Inv, Inv', Readable, InterpretCall, ~Crash, ~ \E code : OccurException(code)
             PROVE  Readable'
  BY OccurReadable, CrashReadable
<1>1. PICK function \in Callables :
        CallFails(function) \/ CallFunction(function) \/ CallNative(function)
  BY DEF InterpretCall
<1> DEFINE n == Arity[function]
<1>2. CASE CallFails(function)
  BY <1>2, ReadableKept DEF CallFails, Occur
<1>3. CASE CallFunction(function)
  BY <1>3, EnterReadable DEF CallFunction
<1>4. ASSUME NEW walk \in Arguments(n), NEW result, Return(function, used, result),
             \/ result = <<>>
             \/ result \in Seq(Cells) /\ Len(result) > 0 /\ SizeOf(result[1]) = Len(result)
                  /\ ReadableBlock(result)
      PROVE  Readable'
  <2>1. PICK top \in Nat :
          /\ top <= used /\ used' = top + Len(result) /\ mem' = Placed(mem, result, used')
          /\ \A p \in top + 1 .. used : mem[p].shape \in Structs => top <= p - SizeOf(mem[p])
    BY <1>4, ArgumentsReach
  <2>2. CASE result = <<>>
    <3>1. Len(<<>>) = 0 /\ top + 0 = top
      BY <2>1
    <3>2. used' = top
      BY <2>1, <2>2, <3>1
    <3>3. mem' = Trimmed(mem, top)
      BY <2>1, <2>2, <3>2 DEF Trimmed
    <3> QED BY <2>1, <3>2, <3>3, ReadableTaken
  <2>3. CASE result # <<>>
    BY <1>4, <2>1, <2>3, ReadablePlaced
  <2> QED BY <2>2, <2>3
<1>5. CASE CallNative(function)
  <2>1. PICK walk \in Arguments(n) :
          \/ Enter(function, walk, 0)
          \/ \E s \in Shapes : \E value \in Values : Return(function, used, NewObject(s, value))
          \/ Return(function, used, <<>>)
    BY <1>5 DEF CallNative, NativeFails
  <2>2. CASE Enter(function, walk, 0)
    BY <2>2, EnterReadable
  <2>3. CASE \E s \in Shapes : \E value \in Values : Return(function, used, NewObject(s, value))
    <3>1. PICK s \in Shapes, value \in Values : Return(function, used, NewObject(s, value))
      BY <2>3
    <3>2. PICK result : result = NewObject(s, value)
      OBVIOUS
    <3>3. result \in Seq(Cells) /\ Len(result) > 0 /\ SizeOf(result[1]) = Len(result) /\ ReadableBlock(result)
      BY <3>2, NewHeader, NewReadable
    <3> QED BY <1>4, <2>1, <3>1, <3>2, <3>3
  <2>4. CASE Return(function, used, <<>>)
    BY <1>4, <2>1, <2>4
  <2> QED BY <2>1, <2>2, <2>3, <2>4
<1> QED BY <1>1, <1>2, <1>3, <1>5

\* No structure among the arguments, the frame and what a function left above it
\* reaches below where the function returns to, if none among the arguments does.
LEMMA FrameReaches ==
  ASSUME Inv, frame.StackBegin > 0, mem[frame.StackBegin].shape = NoneType,
         NEW end \in 0 .. frame.StackBegin - 1,
         \A p \in end + 1 .. frame.StackBegin - 1 : mem[p].shape \in Structs => end <= p - SizeOf(mem[p])
  PROVE  \A o \in end + 1 .. used : mem[o].shape \in Structs => end <= o - SizeOf(mem[o])
<1>1. PICK begin : begin = frame.StackBegin
  OBVIOUS
<1>2. begin \in 1 .. used /\ used \in Nat /\ NestedIn(mem, used)
  BY <1>1, FrameFacts, InvStack DEF ObjectsNested
<1>3. end \in 0 .. begin - 1
  BY <1>1
<1> SUFFICES ASSUME NEW o \in end + 1 .. used, mem[o].shape \in Structs PROVE end <= o - SizeOf(mem[o])
  OBVIOUS
<1>4. SizeOf(mem[o]) \in Nat /\ o \in 1 .. used
  BY <1>2, <1>3, SizeFacts
<1>5. CASE o <= begin - 1
  <2>1. o \in end + 1 .. begin - 1
    BY <1>2, <1>3, <1>5
  <2> QED BY <1>1, <2>1
<1>6. CASE o = begin
  <2>1. SizeOf(mem[begin]) = 1
    BY <1>1, ProgramAssumption DEF SizeOf, IsObject
  <2> QED BY <1>2, <1>3, <1>6, <2>1
<1>7. CASE o > begin
  <2>1. begin <= o - SizeOf(mem[o])
    <3> SUFFICES ASSUME ~(begin <= o - SizeOf(mem[o])) PROVE FALSE
      OBVIOUS
    <3>1. begin \in o - SizeOf(mem[o]) + 1 .. o - 1
      BY <1>2, <1>4, <1>7
    <3>2. mem[begin].shape # NoneType
      BY <1>2, <1>4, <3>1 DEF NestedIn
    <3> QED BY <1>1, <3>2
  <2> QED BY <1>2, <1>3, <1>4, <2>1
<1> QED BY <1>2, <1>3, <1>4, <1>5, <1>6, <1>7

LEMMA RetReadable == Inv /\ Inv' /\ Isolated /\ Readable /\ InterpretRet => Readable'
<1> SUFFICES ASSUME Inv, Inv', Isolated, Readable, InterpretRet, ~Crash, ~ \E code : OccurException(code)
             PROVE  Readable'
  BY OccurReadable, CrashReadable
<1>1. CASE depth = 0
  BY <1>1, ReadableKept DEF InterpretRet
<1>2. CASE depth # 0
  <2> DEFINE n      == Args(frame)
             result == IF HasResult[frame.Function] THEN ObjectAt(used) ELSE <<>>
  <2>1. /\ frame.StackBegin \in 1 .. used /\ frame.StackBegin \in SavedFrames
        /\ \E walk \in Walks(ObjectSize, frame.StackBegin - 1, n) :
           \E end \in 0 .. frame.StackBegin - 1 :
             /\ \A p \in end + 1 .. frame.StackBegin - 1 :
                  mem[p].shape \in Structs => end <= p - SizeOf(mem[p])
             /\ used' = end + Len(result)
             /\ mem' = Placed(mem, result, used')
        /\ result \in Seq(Cells)
        /\ HasResult[frame.Function] =>
             /\ IsObject(mem[used]) /\ Len(result) = SizeOf(mem[used])
             /\ Len(result) > 0 /\ result[1] = mem[used]
    BY <1>2, Returns
  <2>2. PICK top \in 0 .. frame.StackBegin - 1 :
          /\ \A p \in top + 1 .. frame.StackBegin - 1 :
               mem[p].shape \in Structs => top <= p - SizeOf(mem[p])
          /\ used' = top + Len(result)
          /\ mem' = Placed(mem, result, used')
    BY <2>1
  <2>3. used \in Nat /\ frame.StackBegin > 0 /\ mem[frame.StackBegin].shape = NoneType
    BY <2>1, FrameFacts, InvStack DEF SavedFrames
  <2>4. \A o \in top + 1 .. used : mem[o].shape \in Structs => top <= o - SizeOf(mem[o])
    BY <2>2, <2>3, FrameReaches
  <2>5. used' = top + Len(result) /\ mem' = Placed(mem, result, used')
    BY <2>2
  <2>6. top \in Nat /\ top <= used
    <3>1. PICK begin : begin = frame.StackBegin
      OBVIOUS
    <3>2. top \in 0 .. begin - 1 /\ begin \in 1 .. used
      BY <2>1, <2>2, <3>1
    <3> QED BY <2>3, <3>2
  <2>7. CASE HasResult[frame.Function]
    <3>1. ReadableBlock(result)
      <4>1. IsObject(mem[used]) /\ used \in 1 .. used /\ result = ObjectAt(used)
        BY <2>1, <2>3, <2>7
      <4> HIDE DEF result
      <4> QED BY <4>1, ObjectReadable
    <3>2. result \in Seq(Cells) /\ Len(result) > 0 /\ SizeOf(result[1]) = Len(result)
      BY <2>1, <2>7
    <3> HIDE DEF result
    <3> QED BY <2>4, <2>5, <2>6, <3>1, <3>2, ReadablePlaced
  <2>8. CASE ~HasResult[frame.Function]
    <3>1. result = <<>>
      BY <2>8
    <3> HIDE DEF result
    <3>2. used' = top
      <4>1. Len(<<>>) = 0 /\ top + 0 = top
        BY <2>6
      <4> QED BY <2>5, <3>1, <4>1
    <3>3. mem' = Trimmed(mem, top)
      BY <2>5, <3>1, <3>2 DEF Trimmed
    <3> QED BY <2>4, <2>6, <3>2, <3>3, ReadableTaken
  <2> QED BY <2>7, <2>8
<1> QED BY <1>1, <1>2

LEMMA SwapReadable ==
  ASSUME ~MixedSizes
  PROVE  Inv /\ Inv' /\ Readable /\ InterpretSwap => Readable'
<1> SUFFICES ASSUME Inv, Inv', Readable, InterpretSwap, ~ \E code : OccurException(code), ~Crash
             PROVE  Readable'
  BY OccurReadable, CrashReadable
<1> DEFINE top   == mem[used]
           n     == ObjectSize[top.shape]
           low   == used - n
           first == IF top.shape \in Scalars THEN 1 ELSE 2
           t     == used - 2 * n
           w     == Swapped(n, first)
<1>1. /\ ~IsNull(used) /\ IsObject(top) /\ ~IsNull(low) /\ ~(t < 0)
      /\ ~(top.shape \in Scalars /\ mem[low].shape # top.shape)
      /\ ~(top.shape \in Structs /\ mem[low].shape \notin Structs)
      /\ ~(top.shape \in Arrays /\ mem[low].shape \notin Arrays)
      /\ Exchangeable(top.shape, mem[low].shape)
      /\ mem' = w /\ used' = used
  BY DEF InterpretSwap
<1>2. /\ used \in 1 .. StackSize /\ StackSize \in Nat /\ n \in Nat \ {0} /\ SizeOf(top) = n
      /\ low \in 1 .. used /\ low = used - n /\ t \in Nat /\ t = low - n
  BY <1>1, InvStack, SizeFacts DEF IsNull, IsObject, SizeOf, StackOK
<1>3. IsObject(mem[low]) /\ SizeOf(mem[low]) = n
  BY <1>1, <1>2, SameSize DEF IsObject, Shapes
<1>4. first \in 1 .. 2 /\ (first = 1 => n = 1) /\ (top.shape \notin Scalars => first = 2)
  <2>1. top.shape \in Scalars => n = 1
    BY LayoutAssumption
  <2> QED BY <2>1
<1>5. NestedIn(mem, used) /\ NestedIn(w, used)
  <2>1. NestedIn(mem', used')
    BY DEF Inv, ObjectsNested
  <2> QED BY <1>1, <2>1, InvStack DEF ObjectsNested
<1>6. \A o \in 1 .. StackSize :
        w[o] = IF used - o + 1 \in first .. n THEN mem[o - n]
               ELSE IF used - n - o + 1 \in first .. n THEN mem[o + n]
               ELSE mem[o]
  BY DEF Swapped
<1>7. \/ top.shape \in Scalars /\ mem[low].shape = top.shape
      \/ top.shape \in Structs /\ mem[low].shape \in Structs
      \/ top.shape \in Arrays /\ mem[low].shape \in Arrays
  BY <1>1 DEF IsObject, Shapes
<1> HIDE DEF t, low, n, top, first, w
\* Each of the two objects gets the cells of the other one.
<1>8. /\ \A o \in 1 .. t : w[o] = mem[o]
      /\ \A o \in t + 1 .. low - 1 : first = 2 => w[o] = mem[o + n]
      /\ \A o \in low + 1 .. used - 1 : first = 2 => w[o] = mem[o - n]
      /\ first = 2 => w[low] = mem[low] /\ w[used] = mem[used]
  <2>1. ASSUME NEW o \in 1 .. t PROVE w[o] = mem[o]
    <3>1. o \in 1 .. StackSize /\ used - o + 1 \notin first .. n /\ used - n - o + 1 \notin first .. n
      BY <1>2, <1>4
    <3> QED BY <1>6, <3>1
  <2>2. ASSUME NEW o \in t + 1 .. low - 1, first = 2 PROVE w[o] = mem[o + n]
    <3>1. o \in 1 .. StackSize /\ used - o + 1 \notin first .. n /\ used - n - o + 1 \in first .. n
      BY <1>2, <2>2
    <3> QED BY <1>6, <3>1
  <2>3. ASSUME NEW o \in low + 1 .. used - 1, first = 2 PROVE w[o] = mem[o - n]
    <3>1. o \in 1 .. StackSize /\ used - o + 1 \in first .. n
      BY <1>2, <2>3
    <3> QED BY <1>6, <3>1
  <2>4. ASSUME first = 2 PROVE w[low] = mem[low] /\ w[used] = mem[used]
    <3>1. low \in 1 .. StackSize /\ used - low + 1 \notin first .. n /\ used - n - low + 1 \notin first .. n
      BY <1>2, <2>4
    <3>2. used - used + 1 \notin first .. n /\ used - n - used + 1 \notin first .. n
      BY <1>2, <2>4
    <3> QED BY <1>2, <1>6, <3>1, <3>2
  <2> QED BY <2>1, <2>2, <2>3, <2>4
\* What either object reaches, before and after.
<1>9. ASSUME NEW m, NestedIn(m, used), SizeOf(m[low]) = n, SizeOf(m[used]) = n
      PROVE  /\ \A o \in t + 1 .. low : t <= o - SizeOf(m[o])
             /\ \A o \in low + 1 .. used : low <= o - SizeOf(m[o])
             /\ \A o \in t + 1 .. used : t <= o - SizeOf(m[o])
  <2>1. low \in 1 .. used /\ used \in 1 .. used /\ used \in Nat
    BY <1>2
  <2>2. /\ \A o \in low - SizeOf(m[low]) + 1 .. low : low - SizeOf(m[low]) <= o - SizeOf(m[o])
        /\ \A o \in used - SizeOf(m[used]) + 1 .. used : used - SizeOf(m[used]) <= o - SizeOf(m[o])
    BY <1>9, <2>1, ObjectReaches
  <2>3. \A o \in t + 1 .. low : t <= o - SizeOf(m[o])
    BY <1>2, <1>9, <2>2
  <2>4. \A o \in low + 1 .. used : low <= o - SizeOf(m[o])
    BY <1>2, <1>9, <2>2
  <2>5. ASSUME NEW o \in t + 1 .. used PROVE t <= o - SizeOf(m[o])
    <3>1. SizeOf(m[o]) \in Nat
      BY SizeFacts
    <3>2. CASE o <= low
      BY <1>2, <2>3, <3>2
    <3>3. CASE o > low
      BY <1>2, <2>4, <3>1, <3>3
    <3> QED BY <1>2, <3>2, <3>3
  <2> QED BY <2>3, <2>4, <2>5
<1>10. CASE top.shape \in Structs
  <2>1. first = 2 /\ w[low].shape \in Structs /\ w[used].shape \in Structs
        /\ SizeOf(w[low]) = n /\ SizeOf(w[used]) = n
    <3>1. top.shape \notin Scalars
      BY <1>10, ProgramAssumption
    <3>2. first = 2 /\ w[low] = mem[low] /\ w[used] = mem[used]
      BY <1>4, <1>8, <3>1
    <3>3. mem[low].shape \in Structs
      BY <1>7, <1>10, ProgramAssumption
    <3> QED BY <1>2, <1>3, <1>10, <3>2, <3>3 DEF top
  <2>2. /\ \A o \in t + 1 .. used : t <= o - SizeOf(mem[o])
        /\ \A o \in t + 1 .. low : t <= o - SizeOf(w[o])
        /\ \A o \in low + 1 .. used : low <= o - SizeOf(w[o])
    BY <1>2, <1>3, <1>5, <1>9, <2>1 DEF top
  <2>3. ASSUME NEW a \in t + 1 .. low, w[a].shape \in Arrays, NEW o \in a - SizeOf(w[a]) + 1 .. a
        PROVE  w[o].shape # NoType
    <3>1. a # low
      BY <2>1, <2>3, ProgramAssumption
    <3>2. a \in t + 1 .. low - 1 /\ SizeOf(w[a]) \in Nat
      BY <1>2, <3>1, SizeFacts
    <3>3. o \in t + 1 .. low - 1
      BY <1>2, <2>2, <3>2
    <3>4. w[a] = mem[a + n] /\ w[o] = mem[o + n]
      BY <1>8, <2>1, <3>2, <3>3
    <3>5. PICK b \in 1 .. used : b = a + n
      BY <1>2, <3>2
    <3>6. PICK size \in Nat : size = SizeOf(w[a])
      BY <3>2
    <3>7. o + n \in b - size + 1 .. b
      BY <1>2, <3>2, <3>3, <3>5, <3>6
    <3>8. size = SizeOf(mem[b]) /\ mem[b].shape \in Arrays
      BY <2>3, <3>4, <3>5, <3>6
    <3> QED BY <3>4, <3>7, <3>8 DEF Readable, ReadableIn
  <2>4. ASSUME NEW a \in low + 1 .. used, w[a].shape \in Arrays, NEW o \in a - SizeOf(w[a]) + 1 .. a
        PROVE  w[o].shape # NoType
    <3>1. a # used
      BY <2>1, <2>4, ProgramAssumption
    <3>2. a \in low + 1 .. used - 1 /\ SizeOf(w[a]) \in Nat
      BY <1>2, <3>1, SizeFacts
    <3>3. o \in low + 1 .. used - 1
      BY <1>2, <2>2, <3>2
    <3>4. w[a] = mem[a - n] /\ w[o] = mem[o - n]
      BY <1>8, <2>1, <3>2, <3>3
    <3>5. PICK b \in 1 .. used : b = a - n
      BY <1>2, <3>2
    <3>6. PICK size \in Nat : size = SizeOf(w[a])
      BY <3>2
    <3>7. o - n \in b - size + 1 .. b
      BY <1>2, <3>2, <3>3, <3>5, <3>6
    <3>8. size = SizeOf(mem[b]) /\ mem[b].shape \in Arrays
      BY <2>4, <3>4, <3>5, <3>6
    <3> QED BY <3>4, <3>7, <3>8 DEF Readable, ReadableIn
  <2>5. ReadableIn(w, low)
    <3>1. used \in Nat /\ low \in Nat /\ t \in Nat /\ t <= used /\ t <= low /\ t = low - SizeOf(w[low])
      BY <1>2, <2>1
    <3> QED BY <1>5, <1>8, <2>1, <2>2, <2>3, <3>1, ReadableRewritten DEF Readable
  <2>6. ReadableIn(w, used)
    <3>1. used \in Nat /\ low \in Nat /\ low <= low /\ low <= used /\ low \in Int /\ low = used - SizeOf(w[used])
          /\ low + 1 .. low = {}
      BY <1>2, <2>1
    <3>2. \A o \in 1 .. low : w[o] = w[o]
      OBVIOUS
    <3>3. NestedIn(w, low)
      BY <1>5, <3>1, <3>2, NestedPrefix
    <3> QED BY <2>1, <2>2, <2>4, <2>5, <3>1, <3>2, <3>3, ReadableRewritten
  <2> QED BY <1>1, <2>6 DEF Readable
<1>11. CASE top.shape \notin Structs
  <2>1. \A o \in t + 1 .. used : mem[o].shape # NoType
    <3>1. CASE top.shape \in Arrays
      <4>1. mem[low].shape \in Arrays /\ mem[used].shape \in Arrays
        BY <1>7, <3>1, ProgramAssumption DEF top
      <4>2. \A o \in low - n + 1 .. low : mem[o].shape # NoType
        BY <1>2, <1>3, <4>1 DEF Readable, ReadableIn
      <4>3. \A o \in used - n + 1 .. used : mem[o].shape # NoType
        BY <1>2, <4>1 DEF Readable, ReadableIn, top
      <4> QED BY <1>2, <4>2, <4>3
    <3>2. CASE top.shape \in Scalars
      <4>1. mem[low].shape \in Scalars /\ mem[used].shape \in Scalars /\ n = 1
        BY <1>1, <1>2, <3>2, ScalarCell DEF top
      <4>2. mem[low].shape # NoType /\ mem[used].shape # NoType
        BY <4>1, ProgramAssumption DEF Shapes
      <4>3. \A o \in t + 1 .. used : o = low \/ o = used
        BY <1>2, <4>1
      <4> QED BY <4>2, <4>3
    <3> QED BY <1>1, <1>11, <3>1, <3>2 DEF IsObject, Shapes
  <2>2. \A o \in t + 1 .. used : w[o].shape # NoType
    <3> SUFFICES ASSUME NEW o \in t + 1 .. used PROVE w[o].shape # NoType
      OBVIOUS
    <3>1. o \in 1 .. StackSize
      BY <1>2
    <3>2. CASE used - o + 1 \in first .. n
      <4>1. o - n \in t + 1 .. used
        BY <1>2, <1>4, <3>2
      <4> QED BY <1>6, <2>1, <3>1, <3>2, <4>1
    <3>3. CASE used - o + 1 \notin first .. n /\ used - n - o + 1 \in first .. n
      <4>1. o + n \in t + 1 .. used
        BY <1>2, <1>4, <3>3
      <4> QED BY <1>6, <2>1, <3>1, <3>3, <4>1
    <3>4. CASE used - o + 1 \notin first .. n /\ used - n - o + 1 \notin first .. n
      BY <1>6, <2>1, <3>1, <3>4
    <3> QED BY <3>2, <3>3, <3>4
  <2>3. \A o \in t + 1 .. used : t <= o - SizeOf(mem[o])
    BY <1>2, <1>3, <1>5, <1>9 DEF top
  <2>4. \A o \in t + 1 .. used : t <= o - SizeOf(w[o])
    <3>1. SizeOf(w[low]) = n /\ SizeOf(w[used]) = n
      <4>1. CASE first = 2
        BY <1>2, <1>3, <1>8, <4>1 DEF top
      <4>2. CASE first = 1
        <5>1. n = 1 /\ low + 1 = used /\ low = used - 1
          BY <1>2, <1>4, <4>2
        <5>2. w[used] = mem[low]
          <6>1. used - used + 1 \in first .. n /\ used - n = low
            BY <1>2, <4>2, <5>1
          <6> QED BY <1>2, <1>6, <6>1
        <5>3. w[low] = mem[used]
          <6>1. used - low + 1 \notin first .. n /\ used - n - low + 1 \in first .. n /\ low + n = used
                /\ low \in 1 .. StackSize
            BY <1>2, <4>2, <5>1
          <6> QED BY <1>6, <6>1
        <5> QED BY <1>2, <1>3, <5>2, <5>3 DEF top
      <4> QED BY <1>4, <4>1, <4>2
    <3> QED BY <1>5, <1>9, <3>1
  <2>5. ReadableIn(w, used)
    <3>1. used \in Nat /\ t \in Nat /\ t <= used
      BY <1>2
    <3> QED BY <1>5, <1>8, <2>2, <2>3, <2>4, <3>1, ReadableRewritten DEF Readable
  <2> QED BY <1>1, <2>5 DEF Readable
<1> QED BY <1>10, <1>11

LEMMA StoreOverReadable ==
  ASSUME ~MixedSizes
  PROVE  \A operand \in Operands : Inv /\ Inv' /\ Isolated /\ Readable /\ StoreOver(operand) => Readable'
<1> SUFFICES ASSUME NEW operand \in Operands, Inv, Inv', Isolated, Readable, StoreOver(operand),
                    ~ \E code : OccurException(code), ~Crash
             PROVE  Readable'
  BY OccurReadable, CrashReadable
<1> DEFINE index  == LocalIndex(operand) + 1
           q      == locals[index]
           top    == mem[used]
           block  == ObjectAt(used)
           n      == SizeOf(top)
           stored == [o \in 1 .. StackSize |->
                        IF o \in q - Len(block) + 1 .. q THEN block[q - o + 1] ELSE mem[o]]
<1>1. /\ status = "running"
      /\ ~IsLocalVariable(0) /\ LocalIndex(operand) < Len(locals) /\ ~IsNull(used)
      /\ SameType(top.shape, mem[q].shape) /\ IsObject(top)
      /\ top.shape \in Arrays => Exchangeable(top.shape, mem[q].shape)
      /\ used' = IF top.shape \in Arrays THEN used ELSE used - Len(block)
      /\ mem' = Trimmed(stored, used')
  BY DEF StoreOver, Fetch
<1>2. index \in 1 .. Len(locals) /\ used \in 1 .. StackSize /\ StackSize \in Nat /\ used > 0
  BY <1>1, LocalIndexTyped, InvStack DEF IsNull, StackOK
<1> HIDE DEF index
<1>3. /\ q \in 1 .. used /\ IsObject(mem[q]) /\ q <= used - n
      /\ \A o \in q + 1 .. used : q <= o - SizeOf(mem[o])
  <2>1. locals[index] \in 1 .. used /\ IsObject(mem[locals[index]])
        /\ \A o \in locals[index] + 1 .. used : locals[index] <= o - SizeOf(mem[o])
    BY <1>1, <1>2, Ordered DEF Isolated, LocalsApart
  <2>2. locals[index] <= used - n
    BY <1>1, <1>2, ClearTop
  <2> QED BY <2>1, <2>2
<1>4. SizeOf(mem[q]) = n
  BY <1>1, <1>3, SameSize DEF SameType, IsObject, Shapes
<1>5. /\ block \in Seq(Cells) /\ Len(block) = n /\ n \in 1 .. used /\ block[1] = top
      /\ ReadableBlock(block)
  <2>1. mem \in [1 .. StackSize -> Cells] /\ used \in 0 .. StackSize /\ NestedIn(mem, used)
        /\ used \in 1 .. used /\ used - 1 + 1 = used
    BY <1>2, InvStack DEF StackOK, ObjectsNested
  <2>2. /\ block \in Seq(Cells) /\ Len(block) = n /\ n \in 1 .. used
        /\ \A i \in 1 .. n : block[i] = mem[used - i + 1]
    BY <2>1, ObjectBlock
  <2>3. block[1] = mem[used - 1 + 1]
    BY <2>2
  <2>4. ReadableBlock(block)
    BY <1>1, <2>1, ObjectReadable
  <2> QED BY <2>1, <2>2, <2>3, <2>4
<1> DEFINE t == q - n
<1>6. t \in Nat /\ q = t + n /\ q \in Nat /\ n \in Nat /\ used \in Nat
  <2>1. SizeOf(mem[q]) <= q
    BY <1>3, InvStack DEF ObjectsNested, NestedIn
  <2> QED BY <1>2, <1>3, <1>4, <1>5, <2>1
<1>7. PICK v : v = used'
  OBVIOUS
<1>8. v \in 1 .. used /\ used - n <= v /\ q <= v /\ (v = used \/ v = used - n)
  <2>1. v = used \/ v = used - n
    BY <1>1, <1>5, <1>7
  <2>2. v \in 1 .. used /\ used - n <= v /\ q <= v
    BY <1>3, <1>5, <1>6, <2>1
  <2> QED BY <2>1, <2>2
<1>9. PICK w : w = mem'
  OBVIOUS
<1>10. \A o \in 1 .. v : w[o] = IF o \in t + 1 .. q THEN block[q - o + 1] ELSE mem[o]
  <2>1. w = Trimmed(stored, v)
    BY <1>1, <1>7, <1>9
  <2> SUFFICES ASSUME NEW o \in 1 .. v
               PROVE  w[o] = IF o \in t + 1 .. q THEN block[q - o + 1] ELSE mem[o]
    OBVIOUS
  <2>2. o \in 1 .. StackSize /\ ~(o > v) /\ v \in Int
    BY <1>2, <1>8
  <2>3. stored[o] = IF o \in t + 1 .. q THEN block[q - o + 1] ELSE mem[o]
    BY <1>5, <2>2
  <2> HIDE DEF stored
  <2>4. w[o] = stored[o]
    BY <2>1, <2>2, TrimmedBelow
  <2> QED BY <2>3, <2>4
<1>11. NestedIn(mem, used) /\ NestedIn(w, v)
  <2>1. NestedIn(mem', used')
    BY DEF Inv, ObjectsNested
  <2> QED BY <1>7, <1>9, <2>1, InvStack DEF ObjectsNested
<1> HIDE DEF stored, block
\* Up to the local variable, the stack reads like one on which the object was pushed.
<1>12. ReadableIn(w, q)
  <2>1. \A o \in t + 1 .. used : t <= o - SizeOf(mem[o])
    <3> SUFFICES ASSUME NEW o \in t + 1 .. used PROVE t <= o - SizeOf(mem[o])
      OBVIOUS
    <3>1. CASE o <= q
      <4>1. \A p \in q - SizeOf(mem[q]) + 1 .. q : q - SizeOf(mem[q]) <= p - SizeOf(mem[p])
        BY <1>3, <1>6, <1>11, ObjectReaches
      <4>2. o \in t + 1 .. q
        BY <1>6, <3>1
      <4> QED BY <1>4, <4>1, <4>2
    <3>2. CASE o > q
      <4>1. q <= o - SizeOf(mem[o]) /\ SizeOf(mem[o]) \in Nat
        BY <1>3, <1>6, <3>2, SizeFacts
      <4> QED BY <1>6, <4>1
    <3> QED BY <1>6, <3>1, <3>2
  <2>2. /\ \A o \in 1 .. t : w[o] = mem[o]
        /\ \A o \in t + 1 .. q : w[o] = block[q - o + 1]
    <3>1. /\ \A o \in 1 .. t : o \in 1 .. v /\ o \notin t + 1 .. q
          /\ \A o \in t + 1 .. q : o \in 1 .. v
      BY <1>6, <1>8
    <3> HIDE DEF t, q
    <3> QED BY <1>10, <3>1
  <2>3. NestedIn(w, q)
    <3>1. v \in Nat /\ q \in Int /\ \A o \in 1 .. q : w[o] = w[o]
      BY <1>6, <1>8
    <3> QED BY <1>8, <1>11, <3>1, NestedPrefix
  <2>4. t <= used /\ q = t + Len(block) /\ Len(block) > 0 /\ SizeOf(block[1]) = Len(block)
    BY <1>3, <1>5, <1>6
  <2>5. ReadableIn(mem, used) /\ block \in Seq(Cells) /\ ReadableBlock(block)
    BY <1>5 DEF Readable
  <2> HIDE DEF t, q, n
  <2> QED BY <1>6, <1>11, <2>1, <2>2, <2>3, <2>4, <2>5, ReadableOver
\* Above it, nothing changed and nothing reached below it.
<1>13. \A o \in q + 1 .. v : w[o] = mem[o] /\ o \in 1 .. used /\ q <= o - SizeOf(mem[o])
  <2> SUFFICES ASSUME NEW o \in q + 1 .. v PROVE w[o] = mem[o] /\ o \in 1 .. used /\ q <= o - SizeOf(mem[o])
    OBVIOUS
  <2>1. o \in 1 .. v /\ o \notin t + 1 .. q /\ o \in 1 .. used /\ o \in q + 1 .. used
    BY <1>6, <1>8
  <2> HIDE DEF t, q
  <2> QED BY <1>3, <1>10, <2>1
<1>14. \A o \in v + 1 .. used : v <= o - SizeOf(mem[o])
  <2>1. CASE v = used
    BY <1>6, <2>1
  <2>2. CASE v = used - n
    BY <1>1, <1>2, <2>2, TopReaches
  <2> QED BY <1>8, <2>1, <2>2
<1> HIDE DEF q, n, t, top
<1>15. ASSUME NEW o \in 1 .. v, w[o].shape = NoType
       PROVE  \E p \in o + 1 .. v : w[p].shape \in Structs /\ p - SizeOf(w[p]) < o
  <2>1. CASE o <= q
    <3>1. o \in 1 .. q
      BY <1>6, <2>1
    <3>2. PICK p \in o + 1 .. q : w[p].shape \in Structs /\ p - SizeOf(w[p]) < o
      BY <1>12, <1>15, <3>1 DEF ReadableIn
    <3>3. p \in o + 1 .. v
      BY <1>6, <1>8
    <3> QED BY <3>2, <3>3
  <2>2. CASE o > q
    <3>1. o \in q + 1 .. v
      BY <1>6, <2>2
    <3>2. PICK p \in o + 1 .. used : mem[p].shape \in Structs /\ p - SizeOf(mem[p]) < o
      BY <1>13, <1>15, <3>1 DEF Readable, ReadableIn
    <3>3. p <= v
      <4> SUFFICES ASSUME p > v PROVE FALSE
        BY <1>8
      <4>1. p \in v + 1 .. used /\ SizeOf(mem[p]) \in Nat
        BY <1>8, SizeFacts
      <4>2. v <= p - SizeOf(mem[p])
        BY <1>14, <4>1
      <4> QED BY <1>8, <3>2, <4>1, <4>2
    <3>4. p \in q + 1 .. v /\ p \in o + 1 .. v
      BY <1>6, <1>8, <3>1, <3>3
    <3> QED BY <1>13, <3>2, <3>4
  <2> QED BY <1>6, <2>1, <2>2
<1>16. ASSUME NEW a \in 1 .. v, w[a].shape \in Arrays, NEW o \in a - SizeOf(w[a]) + 1 .. a
       PROVE  w[o].shape # NoType
  <2>1. CASE a <= q
    <3>1. a \in 1 .. q
      BY <1>6, <2>1
    <3> QED BY <1>12, <1>16, <3>1 DEF ReadableIn
  <2>2. CASE a > q
    <3>1. a \in q + 1 .. v
      BY <1>6, <2>2
    <3>2. w[a] = mem[a] /\ a \in 1 .. used /\ q <= a - SizeOf(mem[a]) /\ SizeOf(mem[a]) \in Nat
      BY <1>13, <3>1, SizeFacts
    <3>3. o \in q + 1 .. v
      BY <1>6, <1>8, <1>16, <3>1, <3>2
    <3> QED BY <1>13, <1>16, <3>2, <3>3 DEF Readable, ReadableIn
  <2> QED BY <1>6, <2>1, <2>2
<1> QED BY <1>7, <1>9, <1>15, <1>16 DEF Readable, ReadableIn

\* tload finds no structures in arrays that copy left without the headers of their
\* fields.
WholeElements ==
  \A object \in Targets : \A i \in 1 .. Len(object) : object[i].shape \in Arrays =>
    \A j \in i .. i - 1 + SizeOf(object[i]) : object[j].shape # NoType

LEMMA TargetReadable ==
  ASSUME WholeElements, NEW object \in Targets
  PROVE  ReadableBlock(object)
<1>1. IsObject(object[1]) /\ Len(object) = SizeOf(object[1]) /\ Len(object) \in Nat \ {0}
  BY TargetBlock
<1>2. 1 \in 1 .. Len(object)
  BY <1>1
<1>3. CASE object[1].shape \in Structs
  BY <1>3 DEF ReadableBlock, WholeElements
<1>4. CASE object[1].shape \in Arrays
  <2>1. \A j \in 1 .. 1 - 1 + SizeOf(object[1]) : object[j].shape # NoType
    BY <1>2, <1>4 DEF WholeElements
  <2>2. 1 - 1 + SizeOf(object[1]) = Len(object)
    BY <1>1
  <2> QED BY <2>1, <2>2 DEF ReadableBlock
<1>5. CASE object[1].shape \in Scalars
  <2>1. Len(object) = 1 /\ object[1].shape # NoType
    BY <1>1, <1>5, ScalarCell, ProgramAssumption DEF Shapes
  <2>2. \A i \in 1 .. Len(object) : i = 1
    BY <2>1
  <2> QED BY <2>1, <2>2 DEF ReadableBlock
<1> QED BY <1>1, <1>3, <1>4, <1>5 DEF IsObject, Shapes

LEMMA MemoryReadable ==
  ASSUME WholeElements
  PROVE  Inv /\ Inv' /\ Readable /\ MemoryInstruction => Readable'
<1> SUFFICES ASSUME Inv, Inv', Readable, MemoryEffect PROVE Readable'
  BY MemoryEffects, OccurReadable, CrashReadable
<1>1. CASE \E shapes \in SUBSET Scalars : PushAny(shapes)
  <2>1. \A shapes \in SUBSET Scalars : shapes \in SUBSET Shapes
    BY DEF Shapes
  <2> QED BY <1>1, <2>1, PushAnyReadable
<1>2. CASE ScalarTop /\ \E type \in Scalars : Yield(1, type, Values)
  <2>1. 1 \in {1, 2} /\ Values \in SUBSET Values
    OBVIOUS
  <2> QED BY <1>2, <2>1, ScalarReaches, YieldReadable
<1>3. CASE ScalarTop /\ Reduce(1) /\ Advance /\ UNCHANGED locals
  BY <1>3, ScalarReaches, ReadableTaken DEF Reduce
<1>4. CASE ScalarTop /\ \E code \in PointerErrors : OccurAndPop(code)
  BY <1>4, ScalarReaches, ReadableTaken DEF OccurAndPop, Reduce
<1>5. CASE ScalarTop /\ \E object \in Targets : ReplaceTop(object)
  <2>1. PICK object \in Targets : ReplaceTop(object)
    BY <1>5
  <2>2. object \in Seq(Cells) /\ Len(object) > 0 /\ SizeOf(object[1]) = Len(object) /\ ReadableBlock(object)
    BY TargetBlock, TargetReadable
  <2> QED BY <1>5, <2>1, <2>2, ReplaceTopReadable
<1>6. CASE /\ ScalarTop /\ ~IsNull(used - 1) /\ mem[used - 1].shape \in Scalars
           /\ \E type \in Scalars : Yield(2, type, Values)
  <2>1. used - 1 > 0 /\ mem[used].shape \in Scalars /\ 2 \in {1, 2} /\ Values \in SUBSET Values
    BY <1>6, InvStack DEF IsNull, ScalarTop
  <2> QED BY <1>6, <2>1, PairReaches, YieldReadable
<1>7. CASE \E size \in Nat : /\ ScalarBelowTop(size)
                             /\ Reduce(size + 1) /\ Advance /\ UNCHANGED locals
  <2>1. PICK size \in Nat : ScalarBelowTop(size) /\ Reduce(size + 1)
    BY <1>7
  <2> PICK top : top = used - (size + 1)
    OBVIOUS
  <2>2. top \in Nat /\ top <= used /\ mem' = Trimmed(mem, top) /\ used' = top
    BY <2>1, TwoOnTop DEF Reduce
  <2>3. \A o \in top + 1 .. used : top <= o - SizeOf(mem[o])
    <3>1. /\ used > 0 /\ used \in Nat /\ IsObject(mem[used]) /\ size = SizeOf(mem[used])
      BY <2>1, InvStack DEF ScalarBelowTop, IsNull
    <3>2. \A o \in used - size + 1 .. used : used - size <= o - SizeOf(mem[o])
      BY <3>1, TopReaches
    <3>3. SizeOf(mem[used - size]) = 1
      BY <2>1, ScalarCell DEF ScalarBelowTop
    <3> SUFFICES ASSUME NEW o \in used - size .. used PROVE top <= o - SizeOf(mem[o])
      BY <3>1
    <3>4. SizeOf(mem[o]) \in Nat
      BY SizeFacts
    <3>5. CASE o = used - size
      BY <3>1, <3>3, <3>5
    <3>6. CASE o # used - size
      <4>1. o \in used - size + 1 .. used
        BY <3>1, <3>6
      <4>2. used - size <= o - SizeOf(mem[o])
        BY <3>2, <4>1
      <4> PICK length : length = SizeOf(mem[o])
        OBVIOUS
      <4>3. used - size <= o - length /\ length \in Nat /\ o \in Int
        BY <3>4, <4>1, <4>2
      <4>4. top <= o - length
        BY <3>1, <4>3
      <4> QED BY <4>4
    <3> QED BY <3>5, <3>6
  <2> QED BY <2>2, <2>3, ReadableTaken
<1> QED BY <1>1, <1>2, <1>3, <1>4, <1>5, <1>6, <1>7 DEF MemoryEffect

LEMMA NextReadable ==
  ASSUME ~MixedSizes, WholeElements
  PROVE  Inv /\ Inv' /\ Isolated /\ Readable /\ [Next]_vars => Readable'
<1> SUFFICES ASSUME Inv, Inv', Isolated, Readable, [Next]_vars PROVE Readable'
  OBVIOUS
<1>1. CASE InterpretPush BY <1>1, PushReadable
<1>2. CASE InterpretAPush BY <1>2, APushReadable
<1>3. CASE InterpretPop BY <1>3, PopReadable
<1>4. CASE \E operand \in Operands : InterpretLoad(operand) BY <1>4, LoadReadable
<1>5. CASE \E operand \in Operands : InterpretStore(operand)
  <2>1. PICK operand \in Operands : InterpretStore(operand)
    BY <1>5
  <2>2. CASE StoreNew(operand)
    BY <2>2, OccurReadable, ReadableKept DEF StoreNew
  <2>3. CASE StoreOver(operand)
    BY <2>3, StoreOverReadable
  <2> QED BY <2>1, <2>2, <2>3, OccurReadable DEF InterpretStore
<1>6. CASE InterpretCopy BY <1>6, CopyReadable
<1>7. CASE InterpretSwap BY <1>7, SwapReadable
<1>8. CASE InterpretOperation \/ InterpretDiv \/ InterpretCmp BY <1>8, BinaryReadable
<1>9. CASE InterpretNeg \/ TypeCast BY <1>9, UnaryReadable
<1>10. CASE Unhandled BY <1>10, ReadableKept DEF Unhandled
<1>11. CASE InterpretJmp BY <1>11, ReadableKept DEF InterpretJmp
<1>12. CASE JumpCondition BY <1>12, JumpConditionReadable
<1>13. CASE InterpretCall BY <1>13, CallReadable
<1>14. CASE InterpretRet BY <1>14, RetReadable
<1>15. CASE UnknownOperand BY <1>15, OccurReadable DEF UnknownOperand
<1>16. CASE FallOff BY <1>16, OccurReadable, ReadableKept DEF FallOff
<1>17. CASE Stopped \/ UNCHANGED vars BY <1>17, ReadableKept DEF Stopped, vars
<1>18. CASE MemoryInstruction BY <1>18, MemoryReadable
<1> QED
  BY <1>1, <1>2, <1>3, <1>4, <1>5, <1>6, <1>7, <1>8, <1>9, <1>10, <1>11, <1>12, <1>13, <1>14, <1>15,
     <1>16, <1>17, <1>18
  DEF Next, MemoryInstruction

\* What lies on top of the stack starts with a header that somebody wrote, in every
\* execution of programs that pass no local variable as an argument, exchange no objects
\* of different sizes and load no array of structures without headers: the bytes that
\* copy leaves without a type stay inside a structure, and outside arrays.
THEOREM TopReadable ==
  ASSUME ~MixedSizes, ~LocalArguments, WholeElements
  PROVE  Spec => []TopIsReadable
<1>1. Init => Readable
  <2>1. ASSUME used = 0 PROVE 1 .. used = {}
    BY <2>1
  <2> QED BY <2>1 DEF Init, Readable, ReadableIn
<1>2. Readable /\ Inv => TopIsReadable
  <2> SUFFICES ASSUME Readable, Inv, used > 0, mem[used].shape = NoType PROVE FALSE
    BY DEF TopIsReadable
  <2>1. used \in 1 .. used /\ used + 1 .. used = {}
    BY InvStack
  <2> QED BY <2>1 DEF Readable, ReadableIn
<1>3. Inv /\ Inv' /\ Isolated /\ Readable /\ [Next]_vars => Readable'
  BY NextReadable
<1> QED BY <1>1, <1>2, <1>3, Invariance, Isolation, PTL DEF Spec

=============================================================================
