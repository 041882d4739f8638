----------------------------- MODULE Caller_proofs -----------------------------
(***************************************************************************)
(* Proofs about CallStack, of programs that pass no local variable as an   *)
(* argument and exchange objects of one size: what a function, and its     *)
(* return, leave to the caller, and, from that, that the one stack of      *)
(* objects implements Activations.                                         *)
(***************************************************************************)
EXTENDS Isolation_proofs, CallStackRefinement

-----------------------------------------------------------------------------
(* Where the arguments end *)

\* The walk over the arguments ends where ArgumentsEnd says.
LEMMA EndOfWalk ==
  ASSUME Inv, frame.StackBegin > 0,
         NEW walk \in Walks(ObjectSize, frame.StackBegin - 1, Args(frame)),
         \A j \in 1 .. Args(frame) : locals[frame.VariableBegin + j] = walk[j - 1]
  PROVE  ArgumentsEnd = walk[Args(frame)] /\ walk[Args(frame)] \in 0 .. frame.StackBegin - 1
<1>1. /\ Args(frame) = Arity[frame.Function] /\ Args(frame) \in Nat /\ frame.StackBegin \in Nat
  BY FrameFacts
<1> DEFINE base == frame.StackBegin - 1
           n    == Args(frame)
<1>2. /\ walk \in [0 .. n -> 0 .. base] /\ walk[0] = base
      /\ \A j \in 1 .. n : walk[j] = walk[j - 1] - SizeOf(mem[walk[j - 1]])
  <2>1. base \in Nat /\ n \in Nat /\ walk \in Walks(ObjectSize, base, n)
    BY <1>1
  <2> HIDE DEF base, n
  <2> QED BY <2>1, WalkDown
<1>3. walk[n] \in 0 .. base
  BY <1>1, <1>2
<1>4. CASE n = 0
  BY <1>1, <1>2, <1>3, <1>4 DEF ArgumentsEnd
<1>5. CASE n # 0
  <2>1. n \in 1 .. n
    BY <1>1, <1>5
  <2>2. locals[frame.VariableBegin + n] = walk[n - 1] /\ walk[n] = walk[n - 1] - SizeOf(mem[walk[n - 1]])
    BY <1>2, <2>1
  <2>3. ArgumentsEnd = locals[frame.VariableBegin + n] - SizeOf(mem[locals[frame.VariableBegin + n]])
    BY <1>1, <1>5 DEF ArgumentsEnd
  <2> QED BY <1>3, <2>2, <2>3
<1> QED BY <1>4, <1>5

\* Only the entrypoint has depth 0.
LEMMA DepthOfFrame ==
  ASSUME Inv
  PROVE  depth \in Nat /\ (depth > 0 <=> frame.StackBegin > 0)
<1>1. IsFiniteSet(SavedFrames) /\ depth = Cardinality(SavedFrames) /\ depth \in Nat
  BY SavedFramesFinite, InvStack DEF Inv, FrameChain, TypeOK
<1>2. depth = 0 <=> SavedFrames = {}
  BY <1>1, FS_EmptySet
<1>3. frame.StackBegin \in Nat /\ \A o \in SavedFrames : o # 0
  BY FrameFacts
<1>4. IsNewest(frame.StackBegin, SavedFrames)
  BY DEF Inv, FrameChain
<1>5. frame.StackBegin = 0 <=> SavedFrames = {}
  BY <1>3, <1>4 DEF IsNewest
<1> QED BY <1>1, <1>2, <1>3, <1>5

\* The arguments of the running function lie below its frame, and the locals of its
\* callers below them.
LEMMA CallersBelow ==
  ASSUME Inv, Isolated, depth > 0
  PROVE  /\ frame.StackBegin \in 1 .. used /\ mem[frame.StackBegin].shape = NoneType
         /\ ArgumentsEnd \in 0 .. frame.StackBegin - 1
         /\ frame.VariableBegin \in Nat /\ frame.VariableBegin <= Len(locals)
         /\ \A i \in 1 .. frame.VariableBegin : locals[i] <= ArgumentsEnd
<1>1. frame.StackBegin > 0
  BY DepthOfFrame
<1>2. /\ frame \in ActiveFrames /\ frame.StackBegin \in SavedFrames /\ frame.VariableBegin \in Nat
      /\ frame.StackBegin \in 1 .. used /\ mem[frame.StackBegin].shape = NoneType
      /\ Args(frame) \in Nat /\ First(frame) = frame.VariableBegin + Args(frame)
  BY <1>1, FrameFacts DEF First
<1>3. ArgumentsHeld(frame) /\ First(frame) <= Len(locals)
  BY <1>2 DEF Isolated, FramesApart
<1>4. PICK walk \in Walks(ObjectSize, frame.StackBegin - 1, Args(frame)) :
        /\ \A j \in 1 .. Args(frame) : locals[frame.VariableBegin + j] = walk[j - 1]
        /\ \A i \in 1 .. frame.VariableBegin : locals[i] <= walk[Args(frame)]
  BY <1>1, <1>3 DEF ArgumentsHeld
<1>5. ArgumentsEnd = walk[Args(frame)] /\ walk[Args(frame)] \in 0 .. frame.StackBegin - 1
  BY <1>1, <1>4, EndOfWalk
<1>6. frame.VariableBegin <= Len(locals)
  BY <1>2, <1>3, InvStack
<1> QED BY <1>2, <1>4, <1>5, <1>6

-----------------------------------------------------------------------------
(* Return *)

\* Only ret leaves a function.
LEMMA OnlyRetReturns ==
  ASSUME Inv, [Next]_vars, depth' < depth
  PROVE  InterpretRet /\ depth # 0 /\ ~Crash /\ ~ \E code : OccurException(code)
<1>1. depth \in Nat
  BY DEF Inv, TypeOK
<1>2. depth' # depth /\ depth' # depth + 1
  BY <1>1
<1>3. ~Crash /\ ~Advance /\ (\A code : ~OccurException(code)) /\ \A function, index, code : ~Occur(function, index, code)
  BY <1>2 DEF Crash, Advance, OccurException, Occur
<1>4. ~InterpretPush /\ ~InterpretAPush /\ ~InterpretPop
  BY <1>3 DEF InterpretPush, PushAny, InterpretAPush, CountOnTop, ReplaceTop, InterpretPop
<1>5. ~ \E operand \in Operands : InterpretLoad(operand) \/ InterpretStore(operand)
  BY <1>3 DEF InterpretLoad, InterpretStore, StoreNew, StoreOver
<1>6. ~InterpretCopy /\ ~InterpretSwap /\ ~Unhandled
  BY <1>3 DEF InterpretCopy, InterpretSwap, Unhandled
<1>7. ~InterpretOperation /\ ~InterpretDiv /\ ~InterpretCmp /\ ~InterpretNeg /\ ~TypeCast
  BY <1>2, <1>3 DEF InterpretOperation, InterpretDiv, InterpretCmp, InterpretNeg, TypeCast, NumberOnTop,
     ScalarOnTop, PopTwoSameType, Yield, OccurAndPop
<1>8. ~InterpretJmp /\ ~JumpCondition
  BY <1>2, <1>3 DEF InterpretJmp, JumpCondition
<1>9. ~InterpretCall
  BY <1>2, <1>3 DEF InterpretCall, CallFails, CallFunction, CallNative, NativeFails, Enter
<1>10. ~UnknownOperand /\ ~FallOff /\ ~Stopped /\ ~UNCHANGED vars
  BY <1>2, <1>3 DEF UnknownOperand, FallOff, Stopped, vars
<1>11. ~MemoryInstruction
  <2>1. ~MemoryEffect
    BY <1>2, <1>3 DEF MemoryEffect, PushAny, Yield, OccurAndPop, ReplaceTop
  <2> QED BY <1>3, <2>1, MemoryEffects
<1>12. InterpretRet
  BY <1>4, <1>5, <1>6, <1>7, <1>8, <1>9, <1>10, <1>11 DEF Next, MemoryInstruction
<1> QED BY <1>1, <1>2, <1>3, <1>12 DEF InterpretRet

\* What a return leaves, of the arguments and below them.
LEMMA ReturnReplaces ==
  ASSUME Inv, Isolated, [Next]_vars, depth' < depth
  PROVE  LET result == IF HasResult[frame.Function] THEN ObjectAt(used) ELSE <<>>
             end    == used' - Len(result)
         IN  /\ end \in ArgumentsEnd .. frame.StackBegin - 1
             /\ ArrayArguments = {} => end = ArgumentsEnd
             /\ \A o \in 1 .. end : mem'[o] = mem[o]
             /\ \A i \in 1 .. Len(result) : mem'[used' - i + 1] = result[i]
<1> DEFINE result == IF HasResult[frame.Function] THEN ObjectAt(used) ELSE <<>>
<1>1. InterpretRet /\ depth # 0 /\ ~Crash /\ ~ \E code : OccurException(code)
  BY OnlyRetReturns
<1>2. /\ frame.StackBegin \in 1 .. used
      /\ \E walk \in Walks(ObjectSize, frame.StackBegin - 1, Args(frame)) :
           \E end \in 0 .. frame.StackBegin - 1 :
             /\ \A j \in 1 .. Args(frame) : locals[frame.VariableBegin + j] = walk[j - 1]
             /\ walk[Args(frame)] \in 0 .. end
             /\ (\A j \in 1 .. Args(frame) : mem[walk[j - 1]].shape \notin Arrays) => end = walk[Args(frame)]
             /\ used' = end + Len(result)
             /\ mem' = Placed(mem, result, used')
      /\ result \in Seq(Cells) /\ Len(result) \in 0 .. used - frame.StackBegin
  BY <1>1, Returns
<1> HIDE DEF result
<1>3. /\ used \in Nat /\ frame.StackBegin > 0 /\ frame.StackBegin \in Nat /\ StackSize \in Nat /\ used <= StackSize
      /\ Args(frame) = Arity[frame.Function]
  BY <1>2, InvStack, FrameFacts DEF StackOK
<1>4. PICK walk \in Walks(ObjectSize, frame.StackBegin - 1, Args(frame)), end \in 0 .. frame.StackBegin - 1 :
        /\ \A j \in 1 .. Args(frame) : locals[frame.VariableBegin + j] = walk[j - 1]
        /\ walk[Args(frame)] \in 0 .. end
        /\ (\A j \in 1 .. Args(frame) : mem[walk[j - 1]].shape \notin Arrays) => end = walk[Args(frame)]
        /\ used' = end + Len(result)
        /\ mem' = Placed(mem, result, used')
  BY <1>2
<1>5. ArgumentsEnd = walk[Args(frame)]
  BY <1>3, <1>4, EndOfWalk
<1>6. ArrayArguments = {} => end = ArgumentsEnd
  BY <1>3, <1>4, <1>5 DEF ArrayArguments
<1>7. PICK u : u = used'
  OBVIOUS
<1>8. u = end + Len(result) /\ mem' = Placed(mem, result, u)
  BY <1>4, <1>7
<1>9. u \in Nat /\ u <= StackSize /\ Len(result) \in Nat /\ Len(result) <= u /\ u - Len(result) = end
  BY <1>2, <1>3, <1>8
<1>10. ASSUME NEW i \in 1 .. Len(result) PROVE mem'[u - i + 1] = result[i]
  <2>1. u - i + 1 \in 1 .. StackSize /\ ~(u - i + 1 > u) /\ u - i + 1 > u - Len(result)
        /\ u - (u - i + 1) + 1 = i
    BY <1>3, <1>9
  <2> QED BY <1>8, <2>1 DEF Placed
<1>11. ASSUME NEW o \in 1 .. end PROVE mem'[o] = mem[o]
  <2>1. o \in 1 .. StackSize /\ ~(o > u) /\ ~(o > u - Len(result))
    BY <1>3, <1>9
  <2> QED BY <1>8, <2>1 DEF Placed
<1>12. end \in ArgumentsEnd .. frame.StackBegin - 1
  BY <1>3, <1>4, <1>5
<1> QED BY <1>6, <1>7, <1>9, <1>10, <1>11, <1>12 DEF result

\* A return takes the arguments off the caller's stack and nothing below them, leaves
\* the callee's result, unchanged, in their place, and leaves no part of an argument
\* there unless one of them is an array, which ret takes off by the size of its header:
\* of every program that passes no local variable as an argument, exchanges objects of
\* one size and does not write through pointers into the stack.
THEOREM ReturnsReplaceArguments ==
  ASSUME ~MixedSizes, ~LocalArguments
  PROVE  Spec => ReturnReplacesArguments
<1>1. Inv /\ Isolated /\ [Next]_vars =>
        [depth' < depth =>
           LET result == IF HasResult[frame.Function] THEN ObjectAt(used) ELSE <<>>
               end    == used' - Len(result)
           IN  /\ end \in ArgumentsEnd .. frame.StackBegin - 1
               /\ ArrayArguments = {} => end = ArgumentsEnd
               /\ \A o \in 1 .. end : mem'[o] = mem[o]
               /\ \A i \in 1 .. Len(result) : mem'[used' - i + 1] = result[i]]_vars
  BY ReturnReplaces
<1> QED BY <1>1, Invariance, Isolation, PTL DEF Spec, ReturnReplacesArguments

-----------------------------------------------------------------------------
(* What a step leaves to the caller *)

\* The arguments of the function keep their sizes, whatever is stored there.
ArgumentsSized ==
  \A i \in frame.VariableBegin + 1 .. First(frame) : SizeOf(mem'[locals[i]]) = SizeOf(mem[locals[i]])

\* The step of CallerUntouched, which leaves the end of the arguments where it was.
CallerKept ==
  /\ \A o \in 1 .. ArgumentsEnd : mem'[o] = mem[o]
  /\ SubSeq(locals', 1, frame.VariableBegin) = SubSeq(locals, 1, frame.VariableBegin)
  /\ frame'.StackBegin >= frame.StackBegin =>
       mem'[frame.StackBegin] = mem[frame.StackBegin] /\ ArgumentsSized

\* The arguments of the running function lie below its frame.
LEMMA ArgumentsBelow ==
  ASSUME Inv, Isolated, depth > 0
  PROVE  /\ First(frame) \in Nat /\ First(frame) <= Len(locals)
         /\ \A i \in frame.VariableBegin + 1 .. First(frame) : locals[i] \in 1 .. frame.StackBegin - 1
<1>1. /\ Args(frame) \in Nat /\ First(frame) = frame.VariableBegin + Args(frame) /\ frame \in ActiveFrames
      /\ frame.StackBegin \in Nat /\ frame.StackBegin > 0 /\ frame.VariableBegin \in Nat
  BY FrameFacts, DepthOfFrame DEF First
<1>2. First(frame) \in Nat /\ First(frame) <= Len(locals) /\ ArgumentsHeld(frame)
  BY <1>1 DEF Isolated, FramesApart
<1>3. PICK walk \in Walks(ObjectSize, frame.StackBegin - 1, Args(frame)) :
        \A j \in 1 .. Args(frame) : locals[frame.VariableBegin + j] = walk[j - 1]
  BY <1>1, <1>2 DEF ArgumentsHeld
<1> DEFINE base == frame.StackBegin - 1
           n    == Args(frame)
<1>4. walk \in [0 .. n -> 0 .. base] /\ \A j \in 1 .. n : walk[j - 1] > 0
  BY <1>1, <1>3 DEF Walks
<1>5. ASSUME NEW i \in frame.VariableBegin + 1 .. First(frame) PROVE locals[i] \in 1 .. base
  <2>1. /\ i - frame.VariableBegin \in 1 .. n /\ i - frame.VariableBegin - 1 \in 0 .. n
        /\ i = frame.VariableBegin + (i - frame.VariableBegin)
    BY <1>1
  <2>2. locals[i] = walk[i - frame.VariableBegin - 1]
    BY <1>3, <2>1
  <2>3. walk[i - frame.VariableBegin - 1] \in 0 .. base /\ walk[i - frame.VariableBegin - 1] > 0
    BY <1>4, <2>1
  <2> QED BY <1>1, <2>2, <2>3
<1> QED BY <1>2, <1>5

\* Where no frame lies, a step may write, and the locals of the callers stay.
LEMMA AboveCaller ==
  ASSUME Inv, Inv', Isolated, depth > 0,
         NEW top \in Nat, top <= used,
         \A o \in 1 .. top : mem'[o] = mem[o],
         \A o \in top + 1 .. used : mem[o].shape # NoneType,
         frame.VariableBegin <= Len(locals'),
         \A i \in 1 .. frame.VariableBegin : locals'[i] = locals[i]
  PROVE  CallerKept
<1>1. /\ frame.StackBegin \in 1 .. used /\ mem[frame.StackBegin].shape = NoneType
      /\ ArgumentsEnd \in 0 .. frame.StackBegin - 1
      /\ frame.VariableBegin \in Nat /\ frame.VariableBegin <= Len(locals)
  BY CallersBelow
<1>2. used \in Nat /\ locals \in Seq(1 .. StackSize) /\ locals' \in Seq(1 .. StackSize)
  BY InvStack DEF Inv, TypeOK
<1>3. frame.StackBegin \in 1 .. top
  BY <1>1, <1>2
<1>4. SubSeq(locals', 1, frame.VariableBegin) = SubSeq(locals, 1, frame.VariableBegin)
  <2> DEFINE n == frame.VariableBegin
  <2>1. n \in Nat /\ n <= Len(locals) /\ n <= Len(locals') /\ \A i \in 1 .. n : locals'[i] = locals[i]
    BY <1>1
  <2> HIDE DEF n
  <2>2. PICK s : s = SubSeq(locals, 1, n)
    OBVIOUS
  <2>3. PICK t : t = SubSeq(locals', 1, n)
    OBVIOUS
  <2>4. s \in Seq(1 .. StackSize) /\ Len(s) = n /\ \A i \in 1 .. n : s[i] = locals[i]
    BY <1>2, <2>1, <2>2, FrontFacts
  <2>5. t \in Seq(1 .. StackSize) /\ Len(t) = n /\ \A i \in 1 .. n : t[i] = locals'[i]
    BY <1>2, <2>1, <2>3, FrontFacts
  <2>6. s = t
    BY <2>1, <2>4, <2>5, SeqEqual
  <2> QED BY <2>2, <2>3, <2>6 DEF n
<1>5. ArgumentsEnd \in Nat /\ ArgumentsEnd <= top
  <2> DEFINE begin == frame.StackBegin
  <2>1. begin \in 1 .. top
    BY <1>3
  <2>2. ArgumentsEnd \in 0 .. begin - 1
    BY <1>1
  <2> HIDE DEF begin
  <2>3. begin \in Nat /\ begin <= top
    BY <2>1
  <2> QED BY <2>2, <2>3
<1>6. \A o \in 1 .. ArgumentsEnd : mem'[o] = mem[o]
  BY <1>5
<1>7. mem'[frame.StackBegin] = mem[frame.StackBegin]
  BY <1>3
<1>8. ArgumentsSized
  <2> SUFFICES ASSUME NEW i \in frame.VariableBegin + 1 .. First(frame)
               PROVE  mem'[locals[i]] = mem[locals[i]]
    BY DEF ArgumentsSized
  <2>1. locals[i] \in 1 .. frame.StackBegin - 1
    BY ArgumentsBelow
  <2>2. locals[i] \in 1 .. top
    BY <1>3, <2>1
  <2> QED BY <2>2
<1> QED BY <1>4, <1>6, <1>7, <1>8 DEF CallerKept

\* So do instructions that leave the locals alone.
LEMMA LocalsKept ==
  ASSUME Inv, Inv', Isolated, depth > 0, locals' = locals,
         NEW top \in Nat, top <= used,
         \A o \in 1 .. top : mem'[o] = mem[o],
         \A o \in top + 1 .. used : mem[o].shape # NoneType
  PROVE  CallerKept
<1>1. frame.VariableBegin <= Len(locals')
  BY CallersBelow
<1> QED BY <1>1, AboveCaller

LEMMA NothingWritten ==
  ASSUME Inv, Inv', Isolated, depth > 0, mem' = mem, locals' = locals
  PROVE  CallerKept
<1>1. used \in Nat /\ used <= used /\ \A o \in used + 1 .. used : mem[o].shape # NoneType
  BY InvStack
<1> QED BY <1>1, LocalsKept

LEMMA OccurExceptionKept ==
  Inv /\ Inv' /\ Isolated /\ depth > 0 /\ (\E code : OccurException(code)) => CallerKept
  BY NothingWritten DEF OccurException, Occur

LEMMA CrashKept == Inv /\ Inv' /\ Isolated /\ depth > 0 /\ Crash => CallerKept
  BY NothingWritten DEF Crash

\* The instructions that place a block on top of what they leave.
LEMMA BlockKept ==
  ASSUME Inv, Inv', Isolated, depth > 0, locals' = locals,
         NEW top \in Nat, top <= used, NEW block \in Seq(Cells),
         used' = top + Len(block), mem' = Placed(mem, block, used'),
         \A o \in top + 1 .. used : mem[o].shape # NoneType
  PROVE  CallerKept
<1>1. used \in Nat /\ StackSize \in Nat /\ used <= StackSize /\ Len(block) \in Nat
  BY InvStack DEF StackOK
<1>2. PICK u : u = used'
  OBVIOUS
<1>3. u = top + Len(block) /\ mem' = Placed(mem, block, u)
  BY <1>2
<1>4. \A o \in 1 .. top : mem'[o] = mem[o]
  BY <1>1, <1>3 DEF Placed
<1> QED BY <1>4, LocalsKept

LEMMA PushAnyKept ==
  ASSUME Inv, Inv', Isolated, depth > 0, NEW shapes \in SUBSET Shapes, PushAny(shapes)
  PROVE  CallerKept
<1> SUFFICES ASSUME ~ \E code : OccurException(code) PROVE CallerKept
  BY OccurExceptionKept
<1>1. PICK s \in shapes, value \in Values : PushObject(NewObject(s, value)) /\ UNCHANGED locals
  BY DEF PushAny
<1>2. PICK block : block = NewObject(s, value)
  OBVIOUS
<1>3. block \in Seq(Cells) /\ used' = used + Len(block) /\ mem' = Placed(mem, block, used')
  BY <1>1, <1>2, NewHeader DEF PushObject
<1>4. used \in Nat /\ used <= used /\ \A o \in used + 1 .. used : mem[o].shape # NoneType
  BY InvStack
<1> QED BY <1>1, <1>3, <1>4, BlockKept

LEMMA PushKept == Inv /\ Inv' /\ Isolated /\ depth > 0 /\ InterpretPush => CallerKept
<1>1. Numbers \cup Structs \in SUBSET Shapes
  BY ProgramAssumption DEF Shapes
<1> QED BY <1>1, PushAnyKept DEF InterpretPush

LEMMA ReplaceTopKept ==
  ASSUME Inv, Inv', Isolated, depth > 0, ~IsNull(used), mem[used].shape \in Scalars,
         NEW block \in Seq(Cells), ReplaceTop(block)
  PROVE  CallerKept
<1> SUFFICES ASSUME ~ \E code : OccurException(code) PROVE CallerKept
  BY OccurExceptionKept
<1>1. used' = used - 1 + Len(block) /\ mem' = Placed(mem, block, used') /\ UNCHANGED locals
  BY DEF ReplaceTop
<1>2. used - 1 \in Nat /\ used - 1 <= used /\ \A o \in used - 1 + 1 .. used : mem[o].shape # NoneType
  BY ScalarOperands
<1> QED BY <1>1, <1>2, BlockKept

LEMMA APushKept == Inv /\ Inv' /\ Isolated /\ depth > 0 /\ InterpretAPush => CallerKept
<1> SUFFICES ASSUME Inv, Inv', Isolated, depth > 0, InterpretAPush, ~ \E code : OccurException(code), ~Crash
             PROVE  CallerKept
  BY OccurExceptionKept, CrashKept
<1>1. PICK s \in Arrays : /\ ~IsNull(used) /\ mem[used].shape \in Numbers
                          /\ ReplaceTop(NewObject(s, Zero))
  BY DEF InterpretAPush, CountOnTop
<1>2. NewObject(s, Zero) \in Seq(Cells) /\ mem[used].shape \in Scalars
  BY <1>1, NewHeader, ProgramAssumption DEF Shapes
<1> QED BY <1>1, <1>2, ReplaceTopKept

LEMMA PopKept == Inv /\ Inv' /\ Isolated /\ depth > 0 /\ InterpretPop => CallerKept
<1> SUFFICES ASSUME Inv, Inv', Isolated, depth > 0, InterpretPop PROVE CallerKept
  OBVIOUS
<1>1. /\ status = "running" /\ used \in Nat /\ Len(locals) \in Nat /\ locals \in Seq(1 .. StackSize)
      /\ frame.VariableBegin \in Nat /\ frame.VariableBegin <= Len(locals)
      /\ frame.StackBegin \in 1 .. used /\ First(frame) \in Nat /\ frame.VariableBegin <= First(frame)
  <2>1. Args(frame) \in Nat
    BY FrameFacts
  <2> QED BY <2>1, InvStack, CallersBelow DEF InterpretPop, Fetch, First
\* The newest local is forgotten only if it is the running function's own.
<1>2. frame.VariableBegin <= Len(locals') /\ \A i \in 1 .. frame.VariableBegin : locals'[i] = locals[i]
  <2>1. CASE ~IsLocalVariable(0)
    BY <1>1, <2>1 DEF InterpretPop
  <2>2. CASE IsLocalVariable(0)
    <3>1. locals' = SubSeq(locals, 1, Len(locals) - 1)
      BY <2>2 DEF InterpretPop
    <3>2. Len(locals) \in 1 .. Len(locals) /\ locals[Len(locals)] = used
      <4>1. locals # <<>> /\ locals[Len(locals)] = used - 0
        BY <2>2 DEF IsLocalVariable
      <4> QED BY <1>1, <4>1
    <3>3. Len(locals) > First(frame)
      <4>1. locals[Len(locals)] < frame.StackBegin \/ Len(locals) > First(frame)
        BY <1>1, <3>2, Ordered
      <4> QED BY <1>1, <3>2, <4>1
    <3>4. Len(locals) - 1 \in Nat /\ Len(locals) - 1 <= Len(locals) /\ frame.VariableBegin <= Len(locals) - 1
      BY <1>1, <3>2, <3>3
    <3>5. /\ Len(locals') = Len(locals) - 1
          /\ \A i \in 1 .. Len(locals) - 1 : locals'[i] = locals[i]
      BY <1>1, <3>1, <3>4, FrontFacts
    <3> QED BY <1>1, <3>4, <3>5
  <2> QED BY <2>1, <2>2
<1>3. CASE IsNull(used) \/ ~IsObject(mem[used])
  <2>1. mem' = mem
    BY <1>3 DEF InterpretPop, Occur
  <2>2. used <= used /\ \A o \in used + 1 .. used : mem[o].shape # NoneType
    BY <1>1
  <2> QED BY <1>1, <1>2, <2>1, <2>2, AboveCaller
<1>4. CASE ~(IsNull(used) \/ ~IsObject(mem[used]))
  <2> DEFINE top == used - SizeOf(mem[used])
  <2>1. /\ top \in Nat /\ top <= used /\ SizeOf(mem[used]) = ObjectSize[mem[used].shape]
        /\ \A o \in top + 1 .. used : mem[o].shape # NoneType
    BY <1>1, <1>4, InvStack, TopObject DEF IsNull
  <2>2. mem' = Trimmed(mem, top)
    BY <1>4, <2>1 DEF InterpretPop, Reduce
  <2> HIDE DEF top
  <2>3. \A o \in 1 .. top : mem'[o] = mem[o]
    BY <1>1, <2>1, <2>2, TrimmedBelow, InvStack DEF StackOK
  <2> QED BY <1>2, <2>1, <2>3, AboveCaller
<1> QED BY <1>3, <1>4

LEMMA LoadKept ==
  \A operand \in Operands : Inv /\ Inv' /\ Isolated /\ depth > 0 /\ InterpretLoad(operand) => CallerKept
<1> SUFFICES ASSUME NEW operand \in Operands, Inv, Inv', Isolated, depth > 0, InterpretLoad(operand),
                    ~ \E code : OccurException(code), ~Crash
             PROVE  CallerKept
  BY OccurExceptionKept, CrashKept
<1>1. PICK block : block = ObjectAt(locals[LocalIndex(operand) + 1])
  OBVIOUS
<1>2. PushObject(block) /\ locals' = locals
  BY <1>1 DEF InterpretLoad
<1>3. used \in Nat /\ used <= used /\ StackSize \in Nat /\ used <= StackSize
      /\ \A o \in used + 1 .. used : mem[o].shape # NoneType
  BY InvStack DEF StackOK
<1>4. \A o \in 1 .. used : mem'[o] = mem[o]
  <2>1. Len(block) \in Nat
    <3>1. PICK n \in Nat : n = SizeOf(mem[locals[LocalIndex(operand) + 1]])
      BY SizeFacts
    <3>2. block = [i \in 1 .. n |-> mem[locals[LocalIndex(operand) + 1] - i + 1]]
      BY <1>1, <3>1 DEF ObjectAt
    <3> QED BY <3>2
  <2> QED BY <1>2, <1>3, <2>1 DEF PushObject, Placed
<1> QED BY <1>2, <1>3, <1>4, LocalsKept

LEMMA StoreNewKept ==
  \A operand \in Operands : Inv /\ Inv' /\ Isolated /\ depth > 0 /\ StoreNew(operand) => CallerKept
<1> SUFFICES ASSUME NEW operand \in Operands, Inv, Inv', Isolated, depth > 0, StoreNew(operand),
                    ~ \E code : OccurException(code)
             PROVE  CallerKept
  BY OccurExceptionKept
<1>1. locals' = Append(locals, used) /\ mem' = mem
  BY DEF StoreNew
<1>2. /\ Len(locals) \in Nat /\ locals \in Seq(1 .. StackSize) /\ frame.VariableBegin \in Nat
      /\ frame.VariableBegin <= Len(locals)
  BY InvStack, CallersBelow
<1>3. frame.VariableBegin <= Len(locals') /\ \A i \in 1 .. frame.VariableBegin : locals'[i] = locals[i]
  BY <1>1, <1>2
<1>4. used \in Nat /\ used <= used /\ \A o \in used + 1 .. used : mem[o].shape # NoneType
  BY InvStack
<1> QED BY <1>1, <1>3, <1>4, AboveCaller

LEMMA CopyKept == Inv /\ Inv' /\ Isolated /\ depth > 0 /\ InterpretCopy => CallerKept
<1> SUFFICES ASSUME Inv, Inv', Isolated, depth > 0, InterpretCopy, ~ \E code : OccurException(code)
             PROVE  CallerKept
  BY OccurExceptionKept
<1> DEFINE top   == mem[used]
           block == Duplicate(ObjectAt(used))
           low   == used - SizeOf(top)
<1>1. /\ ~IsNull(used) /\ IsObject(top) /\ locals' = locals
      /\ used' = used + TypeSize[top.shape] /\ mem' = Placed(mem, block, used')
  BY DEF InterpretCopy
<1>2. used \in 1 .. used /\ used \in Nat /\ StackSize \in Nat /\ used <= StackSize
  BY <1>1, InvStack DEF IsNull, StackOK
<1>3. /\ low \in Nat /\ low <= used /\ SizeOf(top) \in Nat
      /\ \A o \in low + 1 .. used : mem[o].shape # NoneType
  BY <1>1, <1>2, TopObject, InvStack
<1>4. Len(block) = SizeOf(top)
  <2>1. Len(ObjectAt(used)) = SizeOf(top)
    BY <1>2, ObjectBlock, InvStack DEF StackOK, ObjectsNested
  <2> QED BY <1>3, <2>1 DEF Duplicate
<1>5. TypeSize[top.shape] \in Nat
  BY <1>1, SizeFacts DEF IsObject
<1> HIDE DEF block
<1>6. PICK u : u = used'
  OBVIOUS
<1>7. u = used + TypeSize[top.shape] /\ mem' = Placed(mem, block, u)
  BY <1>1, <1>6
<1> HIDE DEF top
<1>8. \A o \in 1 .. low : o \in 1 .. StackSize /\ ~(o > u) /\ ~(o > u - Len(block))
  BY <1>2, <1>3, <1>4, <1>5, <1>7
<1>9. \A o \in 1 .. low : mem'[o] = mem[o]
  BY <1>7, <1>8 DEF Placed
<1> HIDE DEF low
<1> QED BY <1>1, <1>3, <1>9, LocalsKept

\* Scalars on top are taken off, and perhaps replaced.
LEMMA YieldKept ==
  ASSUME Inv, Inv', Isolated, depth > 0,
         NEW operands \in {1, 2}, NEW type, NEW results,
         used - operands \in Nat, \A o \in used - operands + 1 .. used : mem[o].shape # NoneType,
         Yield(operands, type, results)
  PROVE  CallerKept
<1>1. PICK cell : mem' = Placed(mem, <<cell>>, used - operands + 1)
  BY DEF Yield
<1>2. PICK top \in Nat : top = used - operands
  OBVIOUS
<1>3. locals' = locals /\ mem' = Placed(mem, <<cell>>, top + 1)
  BY <1>1, <1>2 DEF Yield
<1>4. used \in Nat /\ StackSize \in Nat /\ used <= StackSize
  BY InvStack DEF StackOK
<1>5. top <= used /\ top <= StackSize /\ \A o \in top + 1 .. used : mem[o].shape # NoneType
  BY <1>2, <1>4
<1>6. Len(<<cell>>) = 1
  OBVIOUS
<1>7. \A o \in 1 .. top : mem'[o] = mem[o]
  BY <1>3, <1>4, <1>5, <1>6 DEF Placed
<1> QED BY <1>3, <1>5, <1>7, LocalsKept

\* A scalar on top is taken off.
LEMMA ReduceKept ==
  ASSUME Inv, Inv', Isolated, depth > 0, ~IsNull(used), mem[used].shape \in Scalars,
         Reduce(1), locals' = locals
  PROVE  CallerKept
<1>1. PICK top \in Nat : top = used - 1
  BY ScalarOperands
<1>2. used \in Nat /\ StackSize \in Nat /\ used <= StackSize
  BY InvStack DEF StackOK
<1>3. mem' = Trimmed(mem, top)
  BY <1>1 DEF Reduce
<1>4. top <= used /\ \A o \in 1 .. top : o \in 1 .. StackSize /\ ~(o > top)
  BY <1>1, <1>2
<1>5. \A o \in 1 .. top : mem'[o] = mem[o]
  BY <1>3, <1>4, TrimmedBelow
<1>6. \A o \in top + 1 .. used : mem[o].shape # NoneType
  BY <1>1, ScalarOperands
<1> QED BY <1>4, <1>5, <1>6, LocalsKept

LEMMA BinaryKept ==
  Inv /\ Inv' /\ Isolated /\ depth > 0 /\ (InterpretOperation \/ InterpretDiv \/ InterpretCmp) => CallerKept
<1> SUFFICES ASSUME Inv, Inv', Isolated, depth > 0, InterpretOperation \/ InterpretDiv \/ InterpretCmp,
                    ~ \E code : OccurException(code)
             PROVE  CallerKept
  BY OccurExceptionKept
<1> DEFINE top == mem[used].shape
<1>1. /\ ~ OccurException("STACK_EMPTY") /\ ~ OccurException("STACK_DIFFERENTTYPE")
      /\ ~ OccurException(InvalidOperand(top)) /\ ~ OccurException("POINTER_INVALIDFORPOINTER")
  OBVIOUS
<1>2. ~ IsNull(used) /\ ~ IsNull(used - 1) /\ top \in Scalars /\ mem[used - 1].shape = top
  BY <1>1 DEF InterpretOperation, InterpretDiv, InterpretCmp, NumberOnTop, ScalarOnTop, PopTwoSameType
<1>3. Yield(2, top, Values) \/ Yield(2, IntType, Values) \/ \E code : OccurAndPop(code)
  BY <1>1 DEF InterpretOperation, InterpretDiv, InterpretCmp, NumberOnTop, ScalarOnTop, PopTwoSameType
<1>4. used - 2 \in Nat /\ \A o \in used - 2 + 1 .. used : mem[o].shape # NoneType
  BY <1>2, ScalarOperands
<1>5. CASE \E code : OccurAndPop(code)
  BY <1>2, <1>5, ReduceKept DEF OccurAndPop
<1>6. CASE Yield(2, top, Values)
  BY <1>4, <1>6, YieldKept
<1>7. CASE Yield(2, IntType, Values)
  BY <1>4, <1>7, YieldKept
<1> QED BY <1>3, <1>5, <1>6, <1>7

LEMMA UnaryKept == Inv /\ Inv' /\ Isolated /\ depth > 0 /\ (InterpretNeg \/ TypeCast) => CallerKept
<1> SUFFICES ASSUME Inv, Inv', Isolated, depth > 0, InterpretNeg \/ TypeCast, ~ \E code : OccurException(code)
             PROVE  CallerKept
  BY OccurExceptionKept
<1>1. ~ OccurException("STACK_EMPTY") /\ ~ OccurException(InvalidOperand(mem[used].shape))
      /\ ~ OccurException("POINTER_INVALIDFORPOINTER")
  OBVIOUS
<1>2. ~ IsNull(used) /\ mem[used].shape \in Scalars
  BY <1>1 DEF InterpretNeg, TypeCast, NumberOnTop, ScalarOnTop
<1>3. \E type, results : Yield(1, type, results)
  <2>1. CASE InterpretNeg
    BY <1>1, <2>1 DEF InterpretNeg, NumberOnTop, ScalarOnTop
  <2>2. CASE TypeCast
    BY <1>1, <2>2 DEF TypeCast, ScalarOnTop
  <2> QED BY <2>1, <2>2
<1>4. used - 1 \in Nat /\ \A o \in used - 1 + 1 .. used : mem[o].shape # NoneType
  BY <1>2, ScalarOperands
<1> QED BY <1>3, <1>4, YieldKept

LEMMA JumpKept == Inv /\ Inv' /\ Isolated /\ depth > 0 /\ (InterpretJmp \/ JumpCondition) => CallerKept
<1> SUFFICES ASSUME Inv, Inv', Isolated, depth > 0, InterpretJmp \/ JumpCondition, ~ \E code : OccurException(code)
             PROVE  CallerKept
  BY OccurExceptionKept
<1>1. CASE UNCHANGED <<mem, locals>>
  BY <1>1, NothingWritten
<1>2. CASE ~UNCHANGED <<mem, locals>>
  <2>1. ~IsNull(used) /\ mem[used].shape \in Scalars /\ Reduce(1) /\ locals' = locals
    BY <1>2 DEF InterpretJmp, JumpCondition
  <2> QED BY <2>1, ReduceKept
<1> QED BY <1>1, <1>2

\* The instructions that take pointers or yield them.
LEMMA MemoryKept == Inv /\ Inv' /\ Isolated /\ depth > 0 /\ MemoryInstruction => CallerKept
<1> SUFFICES ASSUME Inv, Inv', Isolated, depth > 0, MemoryEffect PROVE CallerKept
  BY MemoryEffects, OccurExceptionKept, CrashKept
<1>1. CASE \E shapes \in SUBSET Scalars : PushAny(shapes)
  <2>1. \A shapes \in SUBSET Scalars : shapes \in SUBSET Shapes
    BY DEF Shapes
  <2> QED BY <1>1, <2>1, PushAnyKept
<1>2. CASE ScalarTop /\ \E type \in Scalars : Yield(1, type, Values)
  <2>1. 1 \in {1, 2} /\ used - 1 \in Nat /\ \A o \in used - 1 + 1 .. used : mem[o].shape # NoneType
    BY <1>2, ScalarOperands DEF ScalarTop
  <2> QED BY <1>2, <2>1, YieldKept
<1>3. CASE ScalarTop /\ Reduce(1) /\ UNCHANGED locals
  BY <1>3, ReduceKept DEF ScalarTop
<1>4. CASE ScalarTop /\ \E code \in PointerErrors : OccurAndPop(code)
  BY <1>4, ReduceKept DEF ScalarTop, OccurAndPop
<1>5. CASE ScalarTop /\ \E object \in Targets : ReplaceTop(object)
  BY <1>5, TargetBlock, ReplaceTopKept DEF ScalarTop
<1>6. CASE /\ ScalarTop /\ ~IsNull(used - 1) /\ mem[used - 1].shape \in Scalars
           /\ \E type \in Scalars : Yield(2, type, Values)
  <2>1. used \in Nat /\ used - 2 \in Nat
    BY <1>6, InvStack DEF IsNull
  <2>2. mem[used].shape # NoneType /\ mem[used - 1].shape # NoneType
    BY <1>6, ProgramAssumption DEF ScalarTop, Shapes
  <2>3. \A o \in used - 2 + 1 .. used : o = used \/ o = used - 1
    BY <2>1
  <2>4. 2 \in {1, 2} /\ \A o \in used - 2 + 1 .. used : mem[o].shape # NoneType
    BY <2>2, <2>3
  <2> QED BY <1>6, <2>1, <2>4, YieldKept
<1>7. CASE \E size \in Nat : ScalarBelowTop(size) /\ Reduce(size + 1) /\ UNCHANGED locals
  <2>1. PICK size \in Nat : ScalarBelowTop(size) /\ Reduce(size + 1) /\ UNCHANGED locals
    BY <1>7
  <2>2. PICK top : top = used - (size + 1)
    OBVIOUS
  <2>3. top \in Nat /\ top <= used /\ \A o \in top + 1 .. used : mem[o].shape # NoneType
    BY <2>1, <2>2, TwoOnTop
  <2>4. \A o \in 1 .. top : mem'[o] = mem[o]
    <3>1. mem' = Trimmed(mem, top)
      BY <2>1, <2>2 DEF Reduce
    <3>2. \A o \in 1 .. top : o \in 1 .. StackSize
      BY <2>3, InvStack DEF StackOK
    <3> QED BY <2>3, <3>1, <3>2, TrimmedBelow, InvStack DEF StackOK
  <2> QED BY <2>1, <2>3, <2>4, LocalsKept
<1> QED BY <1>1, <1>2, <1>3, <1>4, <1>5, <1>6, <1>7 DEF MemoryEffect

\* swap exchanges two objects above the frame.
LEMMA SwapKept ==
  ASSUME ~MixedSizes
  PROVE  Inv /\ Inv' /\ Isolated /\ depth > 0 /\ InterpretSwap => CallerKept
<1> SUFFICES ASSUME Inv, Inv', Isolated, depth > 0, InterpretSwap, ~ \E code : OccurException(code), ~Crash
             PROVE  CallerKept
  BY OccurExceptionKept, CrashKept
<1> DEFINE top   == mem[used]
           n     == ObjectSize[top.shape]
           low   == used - n
           first == IF top.shape \in Scalars THEN 1 ELSE 2
           t     == used - 2 * n
<1>1. /\ ~IsNull(used) /\ IsObject(top) /\ ~IsNull(low) /\ ~(t < 0)
      /\ ~(top.shape \in Scalars /\ mem[low].shape # top.shape)
      /\ ~(top.shape \in Structs /\ mem[low].shape \notin Structs)
      /\ ~(top.shape \in Arrays /\ mem[low].shape \notin Arrays)
      /\ Exchangeable(top.shape, mem[low].shape)
      /\ mem' = Swapped(n, first) /\ locals' = locals
  BY DEF InterpretSwap
<1>2. /\ used \in 1 .. StackSize /\ StackSize \in Nat /\ n \in Nat \ {0} /\ SizeOf(top) = n
      /\ low \in 1 .. used /\ low = used - n /\ t \in Nat /\ t = low - n
  BY <1>1, InvStack, SizeFacts, SMTT(30) DEF IsNull, IsObject, SizeOf, StackOK
<1>3. IsObject(mem[low]) /\ SizeOf(mem[low]) = n
  BY <1>1, <1>2, SameSize DEF IsObject, Shapes
<1>4. first \in 1 .. 2
  OBVIOUS
<1> HIDE DEF t, low, n, top, first
<1>5. \A o \in 1 .. t : mem'[o] = mem[o]
  <2> SUFFICES ASSUME NEW o \in 1 .. t PROVE mem'[o] = mem[o]
    OBVIOUS
  <2>1. o \in 1 .. StackSize /\ used - o + 1 \notin first .. n /\ used - n - o + 1 \notin first .. n
    BY <1>2, <1>4
  <2> QED BY <1>1, <2>1 DEF Swapped
<1>6. \A o \in t + 1 .. used : mem[o].shape # NoneType
  <2>1. \A o \in low + 1 .. used : mem[o].shape # NoneType
    <3>1. \A o \in used - SizeOf(mem[used]) + 1 .. used : mem[o].shape # NoneType
      BY <1>1, <1>2, TopObject, InvStack DEF top
    <3> QED BY <1>2, <3>1 DEF top
  <2>2. \A o \in low - n + 1 .. low - 1 : mem[o].shape # NoneType
    BY <1>2, <1>3, InvStack DEF ObjectsNested, NestedIn
  <2>3. mem[low].shape # NoneType
    BY <1>3, ProgramAssumption DEF IsObject
  <2> QED BY <1>2, <2>1, <2>2, <2>3
<1>7. t \in Nat /\ t <= used
  BY <1>2
<1> QED BY <1>1, <1>5, <1>6, <1>7, LocalsKept

\* The locals that a call appends leave those before them.
LEMMA ArgumentsAppended ==
  ASSUME Inv, NEW n \in Nat, NEW walk \in Arguments(n), locals' = locals \o Offsets(walk, n)
  PROVE  /\ Len(locals') = Len(locals) + n
         /\ \A i \in 1 .. Len(locals) : locals'[i] = locals[i]
         /\ \A j \in 1 .. n : locals'[Len(locals) + j] = walk[j - 1]
<1>1. Len(locals) \in Nat /\ locals \in Seq(1 .. StackSize)
  BY InvStack
<1>2. PICK added : added = Offsets(walk, n)
  OBVIOUS
<1>3. added \in Seq(1 .. StackSize) /\ Len(added) = n /\ \A j \in 1 .. n : added[j] = walk[j - 1]
  <2>1. Offsets(walk, n) \in Seq(1 .. StackSize)
    BY ArgumentsTyped, InvStack
  <2>2. Len(Offsets(walk, n)) = n /\ \A j \in 1 .. n : Offsets(walk, n)[j] = walk[j - 1]
    BY DEF Offsets
  <2> QED BY <1>2, <2>1, <2>2
<1>4. PICK all : all = locals \o added
  OBVIOUS
<1>5. /\ Len(all) = Len(locals) + n
      /\ \A i \in 1 .. Len(locals) + n : all[i] = IF i <= Len(locals) THEN locals[i] ELSE added[i - Len(locals)]
  BY <1>1, <1>3, <1>4, ConcatProperties
<1>6. /\ \A i \in 1 .. Len(locals) : i \in 1 .. Len(locals) + n /\ i <= Len(locals)
      /\ \A j \in 1 .. n : /\ Len(locals) + j \in 1 .. Len(locals) + n /\ ~(Len(locals) + j <= Len(locals))
                           /\ Len(locals) + j - Len(locals) = j
  BY <1>1
<1>7. \A i \in 1 .. Len(locals) : all[i] = locals[i]
  BY <1>5, <1>6
<1>8. ASSUME NEW j \in 1 .. n PROVE all[Len(locals) + j] = walk[j - 1]
  <2>1. PICK k : k = Len(locals) + j
    OBVIOUS
  <2>2. k \in 1 .. Len(locals) + n /\ ~(k <= Len(locals)) /\ k - Len(locals) = j
    BY <1>6, <2>1
  <2>3. all[k] = added[j]
    BY <1>5, <2>2
  <2> QED BY <1>3, <2>1, <2>3
<1>9. locals' = all
  BY <1>2, <1>4
<1> QED BY <1>5, <1>7, <1>8, <1>9

\* A call makes locals of what lies on top, and puts the frame above it.
LEMMA CallFailsKept ==
  \A function \in Callables : Inv /\ Inv' /\ Isolated /\ depth > 0 /\ CallFails(function) => CallerKept
<1> SUFFICES ASSUME NEW function \in Callables, Inv, Inv', Isolated, depth > 0, CallFails(function)
             PROVE  CallerKept
  OBVIOUS
<1>1. PICK n \in 0 .. Arity[function] - 1 : \E walk \in Arguments(n) :
        mem' = mem /\ locals' = IF walk[n] = 0 THEN locals \o Offsets(walk, n) ELSE locals
  BY DEF CallFails, Occur
<1>2. PICK walk \in Arguments(n) :
        mem' = mem /\ locals' = IF walk[n] = 0 THEN locals \o Offsets(walk, n) ELSE locals
  BY <1>1
<1>3. CASE locals' = locals
  BY <1>2, <1>3, NothingWritten
<1>4. CASE locals' = locals \o Offsets(walk, n)
  <2>1. /\ Len(locals) \in Nat /\ locals \in Seq(1 .. StackSize) /\ n \in Nat
        /\ frame.VariableBegin \in Nat /\ frame.VariableBegin <= Len(locals)
    BY InvStack, CallersBelow, ProgramAssumption
  <2>2. Len(locals') = Len(locals) + n /\ \A i \in 1 .. Len(locals) : locals'[i] = locals[i]
    BY <1>4, <2>1, ArgumentsAppended
  <2>3. frame.VariableBegin <= Len(locals) + n /\ \A i \in 1 .. frame.VariableBegin : i \in 1 .. Len(locals)
    BY <2>1
  <2>4. used \in Nat /\ used <= used /\ \A o \in used + 1 .. used : mem[o].shape # NoneType
    BY InvStack
  <2>5. frame.VariableBegin <= Len(locals') /\ \A i \in 1 .. frame.VariableBegin : locals'[i] = locals[i]
    BY <2>2, <2>3
  <2> QED BY <1>2, <2>4, <2>5, AboveCaller
<1> QED BY <1>2, <1>3, <1>4

LEMMA EnterKept ==
  ASSUME Inv, Inv', Isolated, depth > 0, NEW function \in Callables,
         NEW walk \in Arguments(Arity[function]), Enter(function, walk, 0)
  PROVE  CallerKept
<1> DEFINE n == Arity[function]
<1>1. /\ Len(locals) \in Nat /\ n \in Nat /\ used \in Nat /\ used <= used
      /\ frame.VariableBegin \in Nat /\ frame.VariableBegin <= Len(locals)
      /\ locals' = locals \o Offsets(walk, n)
      /\ \A o \in 1 .. used : mem'[o] = mem[o]
      /\ \A o \in used + 1 .. used : mem[o].shape # NoneType
  <2>1. n \in Nat
    BY ProgramAssumption
  <2>2. Len(locals) \in Nat /\ used \in Nat
    BY InvStack
  <2>3. frame.VariableBegin \in Nat /\ frame.VariableBegin <= Len(locals)
    BY CallersBelow
  <2>4. locals' = locals \o Offsets(walk, n) /\ \A o \in 1 .. used : mem'[o] = mem[o]
    BY EnterFrames
  <2>5. used <= used /\ \A o \in used + 1 .. used : mem[o].shape # NoneType
    BY <2>2
  <2> QED BY <2>1, <2>2, <2>3, <2>4, <2>5
<1>2. Len(locals') = Len(locals) + n /\ \A i \in 1 .. Len(locals) : locals'[i] = locals[i]
  BY <1>1, ArgumentsAppended
<1>3. frame.VariableBegin <= Len(locals) + n /\ \A i \in 1 .. frame.VariableBegin : i \in 1 .. Len(locals)
  BY <1>1
<1>4. frame.VariableBegin <= Len(locals') /\ \A i \in 1 .. frame.VariableBegin : locals'[i] = locals[i]
  BY <1>2, <1>3
<1> QED BY <1>1, <1>4, AboveCaller

LEMMA CallNativeKept ==
  ASSUME ~LocalArguments
  PROVE  \A function \in Callables : Inv /\ Inv' /\ Isolated /\ depth > 0 /\ CallNative(function) => CallerKept
<1> SUFFICES ASSUME NEW function \in Callables, Inv, Inv', Isolated, depth > 0, CallNative(function), ~Crash
             PROVE  CallerKept
  BY CrashKept
<1> DEFINE n == Arity[function]
<1>1. PICK walk \in Arguments(n) :
       /\ Permitted(walk, n)
       /\ \/ Enter(function, walk, 0)
          \/ /\ \/ \E s \in Shapes : \E value \in Values : Return(function, used, NewObject(s, value))
                \/ Return(function, used, <<>>)
             /\ UNCHANGED locals
  BY DEF CallNative, NativeFails
<1>2. CASE Enter(function, walk, 0)
  BY <1>1, <1>2, EnterKept
<1>3. ASSUME locals' = locals, NEW result \in Seq(Cells), Return(function, used, result)
      PROVE  CallerKept
  <2>1. PICK top \in Nat :
          /\ top <= used /\ used' = top + Len(result) /\ mem' = Placed(mem, result, used')
          /\ \A o \in top + 1 .. used : mem[o].shape # NoneType
    BY <1>1, <1>3, NativeReturns
  <2> QED BY <1>3, <2>1, BlockKept
<1>4. <<>> \in Seq(Cells) /\ \A s \in Shapes : \A value \in Values : NewObject(s, value) \in Seq(Cells)
  BY NewHeader
<1> QED BY <1>1, <1>2, <1>3, <1>4

LEMMA CallKept ==
  ASSUME ~LocalArguments
  PROVE  Inv /\ Inv' /\ Isolated /\ depth > 0 /\ InterpretCall => CallerKept
<1> SUFFICES ASSUME Inv, Inv', Isolated, depth > 0, InterpretCall PROVE CallerKept
  OBVIOUS
<1>1. PICK function \in Callables :
        \/ OccurException("STACK_OVERFLOW")
        \/ CallFails(function) \/ CallFunction(function) \/ CallNative(function)
  BY DEF InterpretCall
<1>2. CASE CallFunction(function)
  BY <1>2, EnterKept DEF CallFunction
<1> QED BY <1>1, <1>2, OccurExceptionKept, CallFailsKept, CallNativeKept

\* ret leaves what lies below the arguments.
LEMMA RetKept == Inv /\ Inv' /\ Isolated /\ depth > 0 /\ InterpretRet => CallerKept
<1> SUFFICES ASSUME Inv, Inv', Isolated, depth > 0, InterpretRet, ~Crash, ~ \E code : OccurException(code)
             PROVE  CallerKept
  BY OccurExceptionKept, CrashKept
<1> DEFINE result == IF HasResult[frame.Function] THEN ObjectAt(used) ELSE <<>>
           n      == frame.VariableBegin
<1>1. depth # 0 /\ frame.StackBegin > 0 /\ used \in Nat /\ StackSize \in Nat /\ used <= StackSize
  BY DepthOfFrame, InvStack DEF StackOK
<1>2. /\ frame.StackBegin \in 1 .. used /\ frame.StackBegin \in SavedFrames
      /\ frame' = [mem[frame.StackBegin].val EXCEPT !.Caller = @ + 1]
      /\ locals' = SubSeq(locals, 1, n) /\ n \in 0 .. Len(locals)
      /\ \E walk \in Walks(ObjectSize, frame.StackBegin - 1, Args(frame)) :
           \E end \in 0 .. frame.StackBegin - 1 :
             /\ \A j \in 1 .. Args(frame) : locals[frame.VariableBegin + j] = walk[j - 1]
             /\ walk[Args(frame)] \in 0 .. end
             /\ used' = end + Len(result)
             /\ mem' = Placed(mem, result, used')
      /\ result \in Seq(Cells) /\ Len(result) \in 0 .. used - frame.StackBegin
  BY <1>1, Returns
<1> HIDE DEF result
<1>3. PICK end \in 0 .. frame.StackBegin - 1 :
        /\ used' = end + Len(result) /\ mem' = Placed(mem, result, used')
        /\ ArgumentsEnd \in 0 .. end
  BY <1>1, <1>2, EndOfWalk
<1>4. \A o \in 1 .. ArgumentsEnd : mem'[o] = mem[o]
  <2>1. PICK u : u = used'
    OBVIOUS
  <2>2. PICK top : top = ArgumentsEnd
    OBVIOUS
  <2>3. u = end + Len(result) /\ mem' = Placed(mem, result, u) /\ top \in 0 .. end
    BY <1>3, <2>1, <2>2
  <2>4. PICK begin : begin = frame.StackBegin
    OBVIOUS
  <2>5. begin \in 1 .. used /\ end \in 0 .. begin - 1 /\ Len(result) \in Nat
    BY <1>2, <1>3, <2>4
  <2>6. \A o \in 1 .. top : o \in 1 .. StackSize /\ ~(o > u) /\ ~(o > u - Len(result))
    BY <1>1, <2>3, <2>5
  <2>7. \A o \in 1 .. top : mem'[o] = mem[o]
    BY <2>3, <2>6 DEF Placed
  <2> QED BY <2>2, <2>7
<1>5. SubSeq(locals', 1, n) = SubSeq(locals, 1, n)
  <2>1. locals \in Seq(1 .. StackSize) /\ n \in Nat /\ n <= Len(locals)
    BY <1>2, InvStack
  <2> HIDE DEF n
  <2>2. PICK s : s = SubSeq(locals, 1, n)
    OBVIOUS
  <2>3. s \in Seq(1 .. StackSize) /\ Len(s) = n
    BY <2>1, <2>2, FrontFacts
  <2>4. SubSeq(s, 1, n) = s
    BY <2>3, SubSeqFull
  <2> QED BY <1>2, <2>2, <2>4 DEF n
<1>6. ~(frame'.StackBegin >= frame.StackBegin)
  <2>1. PICK e \in StackFrame : e = mem[frame.StackBegin].val /\ e.StackBegin < frame.StackBegin
    BY <1>2, FrameFacts
  <2>2. frame'.StackBegin = e.StackBegin
    BY <1>2, <2>1 DEF StackFrame
  <2>3. e.StackBegin \in Nat /\ frame.StackBegin \in Nat
    BY <1>1, <1>2, <2>1 DEF StackFrame
  <2> QED BY <2>1, <2>2, <2>3
<1> QED BY <1>4, <1>5, <1>6 DEF CallerKept

-----------------------------------------------------------------------------
(* Numbers of local variables *)

\* As long as the program runs, no object is two locals.
LocalsDiffer ==
  status = "running" => \A i, j \in 1 .. Len(locals) : i # j => locals[i] # locals[j]

\* There are no more locals than cells.
LEMMA FewLocals ==
  ASSUME Inv, LocalsDiffer, status = "running"
  PROVE  Len(locals) <= StackSize
<1>1. locals \in Seq(1 .. StackSize) /\ StackSize \in Nat /\ Len(locals) \in Nat
  BY InvStack
<1> SUFFICES ASSUME Len(locals) > StackSize PROVE FALSE
  BY <1>1
<1> DEFINE S == 1 .. Len(locals)
           T == 1 .. StackSize
<1>2. locals \in [S -> T]
  BY <1>1
<1>3. IsFiniteSet(S) /\ IsFiniteSet(T) /\ Cardinality(T) < Cardinality(S)
  <2>1. IsFiniteSet(S) /\ Cardinality(S) = Len(locals)
    <3>1. IsFiniteSet(S) /\ Cardinality(S) = IF 1 > Len(locals) THEN 0 ELSE Len(locals) - 1 + 1
      BY <1>1, FS_Interval
    <3> HIDE DEF S
    <3> QED BY <1>1, <3>1
  <2>2. IsFiniteSet(T) /\ Cardinality(T) = StackSize
    <3>1. IsFiniteSet(T) /\ Cardinality(T) = IF 1 > StackSize THEN 0 ELSE StackSize - 1 + 1
      BY <1>1, FS_Interval
    <3> HIDE DEF T
    <3> QED BY <1>1, <3>1
  <2> QED BY <1>1, <2>1, <2>2
<1>4. \E i, j \in S : i # j /\ locals[i] = locals[j]
  <2> HIDE DEF S, T
  <2> QED BY <1>2, <1>3, FS_PigeonHole
<1> QED BY <1>4 DEF LocalsDiffer

\* Only store and call make locals, as long as the program runs.
LEMMA LocalsOfStep ==
  ASSUME Inv, [Next]_vars, status' = "running"
  PROVE  \/ locals' = locals
         \/ \E n \in 0 .. Len(locals) : locals' = SubSeq(locals, 1, n)
         \/ \E operand \in Operands : StoreNew(operand) /\ locals' = Append(locals, used)
         \/ \E function \in Functions : CallFunction(function)
<1>1. ~Crash /\ (\A code : ~OccurException(code)) /\ \A function, index, code : ~Occur(function, index, code)
  BY DEF Crash, OccurException, Occur
<1>2. Len(locals) \in Nat /\ locals \in Seq(1 .. StackSize)
  BY InvStack
<1>3. CASE InterpretPop
  <2>1. CASE ~IsLocalVariable(0)
    BY <1>3, <2>1 DEF InterpretPop
  <2>2. CASE IsLocalVariable(0)
    <3>1. Len(locals) - 1 \in 0 .. Len(locals)
      BY <1>2, <2>2 DEF IsLocalVariable
    <3> QED BY <1>3, <2>2, <3>1 DEF InterpretPop
  <2> QED BY <2>1, <2>2
<1>4. CASE InterpretRet
  <2>1. CASE depth = 0
    BY <1>4, <2>1 DEF InterpretRet
  <2>2. CASE depth # 0
    <3>1. frame.VariableBegin \in Nat
      BY FrameFacts
    <3>2. locals' = SubSeq(locals, 1, frame.VariableBegin) /\ ~(frame.VariableBegin > Len(locals))
      BY <1>1, <1>4, <2>2 DEF InterpretRet
    <3>3. frame.VariableBegin \in 0 .. Len(locals)
      BY <1>2, <3>1, <3>2
    <3> QED BY <3>2, <3>3
  <2> QED BY <2>1, <2>2
<1>5. CASE \E operand \in Operands : InterpretStore(operand)
  BY <1>1, <1>5 DEF InterpretStore, StoreNew, StoreOver
<1>6. CASE InterpretCall
  <2>1. PICK function \in Callables : CallFunction(function) \/ CallNative(function)
    BY <1>1, <1>6 DEF InterpretCall, CallFails
  <2>2. CASE CallFunction(function)
    BY <2>2 DEF CallFunction
  <2>3. CASE CallNative(function)
    BY <1>1, <2>3 DEF CallNative, NativeFails
  <2> QED BY <2>1, <2>2, <2>3
<1>7. InterpretPush \/ InterpretAPush \/ (\E operand \in Operands : InterpretLoad(operand))
        \/ InterpretCopy \/ InterpretSwap \/ Unhandled \/ InterpretJmp \/ JumpCondition => locals' = locals
  BY <1>1 DEF InterpretPush, InterpretAPush, InterpretLoad, InterpretCopy, InterpretSwap, Unhandled,
     InterpretJmp, JumpCondition, PushAny, CountOnTop, ReplaceTop
<1>8. InterpretOperation \/ InterpretDiv \/ InterpretCmp \/ InterpretNeg \/ TypeCast => locals' = locals
  BY <1>1 DEF InterpretOperation, InterpretDiv, InterpretCmp, InterpretNeg, TypeCast, NumberOnTop,
     ScalarOnTop, PopTwoSameType, Yield, OccurAndPop
<1>9. UnknownOperand \/ FallOff \/ Stopped \/ UNCHANGED vars => locals' = locals
  BY <1>1 DEF UnknownOperand, FallOff, Stopped, vars
<1>10. MemoryInstruction => locals' = locals
  <2>1. MemoryEffect => locals' = locals
    BY <1>1 DEF MemoryEffect, PushAny, Yield, OccurAndPop, ReplaceTop
  <2> QED BY <1>1, <2>1, MemoryEffects
<1> QED BY <1>3, <1>4, <1>5, <1>6, <1>7, <1>8, <1>9, <1>10 DEF Next, MemoryInstruction

LEMMA NextDiffer ==
  ASSUME ~LocalArguments
  PROVE  Inv /\ Isolated /\ LocalsDiffer /\ [Next]_vars => LocalsDiffer'
<1> SUFFICES ASSUME Inv, Isolated, LocalsDiffer, [Next]_vars, status' = "running"
             PROVE  \A i, j \in 1 .. Len(locals') : i # j => locals'[i] # locals'[j]
  BY DEF LocalsDiffer
<1>1. status = "running"
  BY DEF Next, Fetch, InterpretPush, InterpretAPush, InterpretPop, InterpretLoad, InterpretStore, StoreNew,
     StoreOver, InterpretCopy, InterpretSwap, InterpretOperation, InterpretDiv, InterpretCmp, InterpretNeg,
     TypeCast, Unhandled, InterpretJmp, JumpCondition, InterpretCall, InterpretRet, UnknownOperand, FallOff,
     Stopped, vars, InterpretNew, InterpretLea, InterpretANew, InterpretDelete, InterpretIncDec, InterpretFLea,
     InterpretCount, InterpretALea, InterpretTLoad, InterpretTStore
<1>2. Len(locals) \in Nat /\ locals \in Seq(1 .. StackSize)
      /\ \A i, j \in 1 .. Len(locals) : i # j => locals[i] # locals[j]
  BY <1>1, InvStack DEF LocalsDiffer
<1>3. CASE locals' = locals
  BY <1>2, <1>3
<1>4. CASE \E n \in 0 .. Len(locals) : locals' = SubSeq(locals, 1, n)
  <2>1. PICK n \in 0 .. Len(locals) : locals' = SubSeq(locals, 1, n)
    BY <1>4
  <2>2. n \in Nat /\ n <= Len(locals)
    BY <1>2
  <2>3. Len(locals') = n /\ \A i \in 1 .. n : locals'[i] = locals[i]
    BY <1>2, <2>1, <2>2, FrontFacts
  <2>4. \A i \in 1 .. n : i \in 1 .. Len(locals)
    BY <1>2, <2>2
  <2> QED BY <1>2, <2>3, <2>4
<1>5. CASE \E operand \in Operands : StoreNew(operand) /\ locals' = Append(locals, used)
  <2>1. ~IsLocalVariable(0) /\ locals' = Append(locals, used)
    BY <1>5 DEF StoreNew
  <2>2. \A i \in 1 .. Len(locals) : locals[i] # used
    <3> SUFFICES ASSUME NEW i \in 1 .. Len(locals), locals[i] = used PROVE FALSE
      OBVIOUS
    <3>1. Len(locals) \in 1 .. Len(locals) /\ locals # <<>>
      BY <1>2
    <3>2. locals[Len(locals)] # used
      <4>1. used \in Nat /\ used - 0 = used
        BY InvStack
      <4> QED BY <2>1, <3>1, <4>1 DEF IsLocalVariable
    <3>3. /\ locals[Len(locals)] \in 1 .. used
          /\ used < frame.StackBegin \/ i = Len(locals) \/ used < locals[Len(locals)]
      BY <1>1, <3>1, Ordered
    <3>4. frame.StackBegin \in 0 .. used /\ used \in Nat
      BY FrameFacts, InvStack
    <3> QED BY <3>2, <3>3, <3>4
  <2>3. /\ Len(locals') = Len(locals) + 1 /\ locals'[Len(locals) + 1] = used
        /\ \A i \in 1 .. Len(locals) : locals'[i] = locals[i]
    <3>1. locals \in Seq(Int) /\ used \in Int
      BY <1>2, InvStack
    <3> QED BY <1>2, <2>1, <3>1, AppendProperties
  <2>4. \A i \in 1 .. Len(locals) + 1 : i \in 1 .. Len(locals) \/ i = Len(locals) + 1
    BY <1>2
  <2> QED BY <1>2, <2>2, <2>3, <2>4
<1>6. CASE \E function \in Functions : CallFunction(function)
  <2>1. PICK function \in Functions : CallFunction(function)
    BY <1>6
  <2> DEFINE n == Arity[function]
  <2>2. PICK walk \in Arguments(n) : Permitted(walk, n) /\ locals' = locals \o Offsets(walk, n)
    BY <2>1 DEF CallFunction, Enter
  <2>3. n \in Nat /\ used \in Nat
    BY ProgramAssumption, InvStack DEF Callables
  <2> HIDE DEF n
  <2>4. /\ Len(locals') = Len(locals) + n
        /\ \A i \in 1 .. Len(locals) : locals'[i] = locals[i]
        /\ \A j \in 1 .. n : locals'[Len(locals) + j] = walk[j - 1]
    BY <2>2, <2>3, ArgumentsAppended
  <2>5. walk \in [0 .. n -> 0 .. used] /\ \A i, j \in 0 .. n : i < j => walk[j] < walk[i]
    BY <2>2, <2>3, WalkDown DEF Arguments
  <2>6. ASSUME NEW i \in 1 .. n, NEW j \in 1 .. n, i # j PROVE walk[i - 1] # walk[j - 1]
    <3>1. /\ i - 1 \in 0 .. n /\ j - 1 \in 0 .. n /\ (i - 1 < j - 1 \/ j - 1 < i - 1)
          /\ walk[i - 1] \in Int /\ walk[j - 1] \in Int
      BY <2>3, <2>5, <2>6
    <3> QED BY <2>5, <3>1
  <2>7. ASSUME NEW i \in 1 .. Len(locals), NEW j \in 1 .. n PROVE locals[i] # walk[j - 1]
    <3>1. j - 1 \in 0 .. n - 1
      BY <2>3
    <3> QED BY <2>2, <3>1 DEF Permitted
  <2>8. ASSUME NEW i \in 1 .. Len(locals) + n
        PROVE  \/ i \in 1 .. Len(locals) /\ locals'[i] = locals[i]
               \/ \E k \in 1 .. n : i = Len(locals) + k /\ locals'[i] = walk[k - 1]
    <3>1. CASE i <= Len(locals)
      BY <1>2, <2>4, <3>1
    <3>2. CASE i > Len(locals)
      <4>1. PICK k \in 1 .. n : i = Len(locals) + k
        <5>1. i - Len(locals) \in 1 .. n /\ i = Len(locals) + (i - Len(locals))
          BY <1>2, <2>3, <3>2
        <5> QED BY <5>1
      <4>2. locals'[Len(locals) + k] = walk[k - 1]
        BY <2>4
      <4> QED BY <4>1, <4>2
    <3> QED BY <1>2, <2>3, <3>1, <3>2
  <2> SUFFICES ASSUME NEW i \in 1 .. Len(locals'), NEW j \in 1 .. Len(locals'), i # j
               PROVE  locals'[i] # locals'[j]
    OBVIOUS
  <2>9. i \in 1 .. Len(locals) + n /\ j \in 1 .. Len(locals) + n
    BY <2>4
  <2>10. CASE i \in 1 .. Len(locals) /\ locals'[i] = locals[i]
    <3>1. CASE j \in 1 .. Len(locals) /\ locals'[j] = locals[j]
      BY <1>2, <2>10, <3>1
    <3>2. CASE \E k \in 1 .. n : j = Len(locals) + k /\ locals'[j] = walk[k - 1]
      BY <2>7, <2>10, <3>2
    <3> QED BY <2>8, <2>9, <3>1, <3>2
  <2>11. CASE \E k \in 1 .. n : i = Len(locals) + k /\ locals'[i] = walk[k - 1]
    <3>1. PICK k \in 1 .. n : i = Len(locals) + k /\ locals'[i] = walk[k - 1]
      BY <2>11
    <3>2. CASE j \in 1 .. Len(locals) /\ locals'[j] = locals[j]
      BY <2>7, <3>1, <3>2
    <3>3. CASE \E l \in 1 .. n : j = Len(locals) + l /\ locals'[j] = walk[l - 1]
      <4>1. PICK l \in 1 .. n : j = Len(locals) + l /\ locals'[j] = walk[l - 1]
        BY <3>3
      <4>2. k # l
        BY <3>1, <4>1
      <4>3. walk[k - 1] # walk[l - 1]
        BY <2>6, <4>2
      <4> QED BY <3>1, <4>1, <4>3
    <3> QED BY <2>8, <2>9, <3>2, <3>3
  <2> QED BY <2>8, <2>9, <2>10, <2>11
<1> QED BY <1>3, <1>4, <1>5, <1>6, LocalsOfStep

-----------------------------------------------------------------------------
(* Store, and the theorem *)

\* A number that does not wrap is that of one of the function's own locals, arguments
\* included: its object lies above where the arguments end, with all its cells.
LEMMA OwnLocal ==
  ASSUME Inv, Isolated, status = "running", depth > 0,
         NEW i \in 1 .. Len(locals), frame.VariableBegin < i
  PROVE  ArgumentsEnd <= locals[i] - SizeOf(mem[locals[i]])
<1>1. /\ frame.StackBegin \in 1 .. used /\ mem[frame.StackBegin].shape = NoneType
      /\ ArgumentsEnd \in 0 .. frame.StackBegin - 1
      /\ frame.VariableBegin \in Nat
  BY CallersBelow
<1>2. /\ Args(frame) \in Nat /\ First(frame) = frame.VariableBegin + Args(frame) /\ frame \in ActiveFrames
      /\ used \in Nat /\ Len(locals) \in Nat /\ frame.StackBegin \in Nat /\ frame.StackBegin > 0
  BY <1>1, FrameFacts, InvStack DEF First
<1>3. locals[i] \in 1 .. used /\ IsObject(mem[locals[i]]) /\ SizeOf(mem[locals[i]]) \in Nat
  BY Ordered, SizeFacts DEF Isolated, LocalsApart
<1>4. CASE i <= First(frame)
  <2>1. ArgumentsHeld(frame)
    BY <1>2 DEF Isolated, FramesApart
  <2>2. PICK walk \in Walks(ObjectSize, frame.StackBegin - 1, Args(frame)) :
          \A j \in 1 .. Args(frame) : locals[frame.VariableBegin + j] = walk[j - 1]
    BY <1>2, <2>1 DEF ArgumentsHeld
  <2>3. ArgumentsEnd = walk[Args(frame)]
    BY <1>2, <2>2, EndOfWalk
  <2> DEFINE base == frame.StackBegin - 1
             n    == Args(frame)
  <2>4. /\ walk \in [0 .. n -> 0 .. base]
        /\ \A j \in 1 .. n : walk[j] = walk[j - 1] - SizeOf(mem[walk[j - 1]])
        /\ \A j, k \in 0 .. n : j < k => walk[k] < walk[j]
    <3>1. base \in Nat /\ n \in Nat /\ walk \in Walks(ObjectSize, base, n)
      BY <1>2
    <3> HIDE DEF base, n
    <3> QED BY <3>1, WalkDown
  <2>5. PICK j \in 1 .. n : i = frame.VariableBegin + j
    <3>1. i - frame.VariableBegin \in 1 .. n /\ i = frame.VariableBegin + (i - frame.VariableBegin)
      BY <1>1, <1>2, <1>4
    <3> QED BY <3>1
  <2>6. walk[j] = locals[i] - SizeOf(mem[locals[i]])
    BY <2>2, <2>4, <2>5
  <2>7. walk[n] <= walk[j]
    <3>1. j \in 0 .. n /\ n \in 0 .. n /\ (j = n \/ j < n)
      BY <1>2
    <3>2. base \in Nat /\ n \in Nat
      BY <1>2
    <3> HIDE DEF base, n
    <3>3. walk[n] \in 0 .. base /\ walk[j] \in 0 .. base
      BY <2>4, <3>1
    <3>4. j = n \/ walk[n] < walk[j]
      BY <2>4, <3>1
    <3> QED BY <3>2, <3>3, <3>4
  <2> QED BY <2>3, <2>6, <2>7
<1>5. CASE i > First(frame)
  <2>1. frame.StackBegin < locals[i]
    <3>1. i \in First(frame) + 1 .. Len(locals)
      BY <1>1, <1>2, <1>5
    <3> QED BY <3>1 DEF Isolated, Ascending
  <2>2. frame.StackBegin <= locals[i] - SizeOf(mem[locals[i]])
    <3> DEFINE a == locals[i]
    <3>1. \A p \in a - SizeOf(mem[a]) + 1 .. a - 1 : mem[p].shape # NoneType
      BY <1>3, InvStack DEF ObjectsNested, NestedIn
    <3>2. a \in 1 .. used /\ frame.StackBegin < a /\ SizeOf(mem[a]) \in Nat
      BY <1>3, <2>1
    <3> HIDE DEF a
    <3>3. frame.StackBegin <= a - SizeOf(mem[a])
      BY <1>1, <1>2, <3>1, <3>2
    <3> QED BY <3>3 DEF a
  <2> QED BY <1>1, <1>2, <1>3, <2>2
<1> QED BY <1>1, <1>2, <1>4, <1>5

LEMMA StoreOverKept ==
  ASSUME ~MixedSizes, \A operand \in Operands : operand + StackSize < WordSize
  PROVE  \A operand \in Operands :
           Inv /\ Inv' /\ Isolated /\ LocalsDiffer /\ depth > 0 /\ StoreOver(operand) => CallerKept
<1> SUFFICES ASSUME NEW operand \in Operands, Inv, Inv', Isolated, LocalsDiffer, depth > 0, StoreOver(operand),
                    ~ \E code : OccurException(code), ~Crash
             PROVE  CallerKept
  BY OccurExceptionKept, CrashKept
<1> DEFINE i      == LocalIndex(operand) + 1
           q      == locals[i]
           top    == mem[used]
           block  == ObjectAt(used)
           w      == [o \in 1 .. StackSize |->
                        IF o \in q - Len(block) + 1 .. q THEN block[q - o + 1] ELSE mem[o]]
           n      == SizeOf(top)
           begin  == frame.StackBegin
<1>1. /\ ~IsLocalVariable(0) /\ LocalIndex(operand) < Len(locals) /\ ~IsNull(used)
      /\ SameType(top.shape, mem[q].shape) /\ IsObject(top)
      /\ ~(top.shape \in Arrays /\ Count[top.shape] # Count[mem[q].shape])
      /\ top.shape \in Arrays => Exchangeable(top.shape, mem[q].shape)
      /\ used' = IF top.shape \in Arrays THEN used ELSE used - Len(block)
      /\ mem' = Trimmed(w, used')
      /\ locals' = locals
  BY DEF StoreOver
<1>2. status = "running"
  BY DEF StoreOver, Fetch
<1>3. /\ i \in 1 .. Len(locals) /\ used \in 1 .. StackSize /\ StackSize \in Nat /\ Len(locals) \in Nat
      /\ begin \in 1 .. used /\ mem[begin].shape = NoneType /\ ArgumentsEnd \in 0 .. begin - 1
      /\ frame.VariableBegin \in Nat /\ frame.VariableBegin <= Len(locals)
  <2>1. i \in 1 .. Len(locals) /\ used \in 1 .. StackSize /\ StackSize \in Nat /\ Len(locals) \in Nat
    BY <1>1, LocalIndexTyped, InvStack DEF IsNull, StackOK
  <2> QED BY <2>1, CallersBelow
<1>4. frame.VariableBegin < i
  <2>1. Len(locals) <= StackSize
    BY <1>2, FewLocals
  <2>2. operand \in Nat /\ WordSize \in Nat /\ operand + StackSize < WordSize
    BY ProgramAssumption
  <2>3. operand + frame.VariableBegin \in 0 .. WordSize - 1
    BY <1>3, <2>1, <2>2
  <2>4. LocalIndex(operand) = operand + frame.VariableBegin
    BY <2>2, <2>3 DEF LocalIndex
  <2> QED BY <1>3, <2>2, <2>4
<1>5. /\ q \in 1 .. used /\ IsObject(mem[q]) /\ ArgumentsEnd <= q - SizeOf(mem[q])
  <2>1. q \in 1 .. used /\ IsObject(mem[q])
    BY <1>2, <1>3, Ordered DEF Isolated, LocalsApart
  <2> HIDE DEF i
  <2> QED BY <1>2, <1>3, <1>4, <2>1, OwnLocal
<1>6. SizeOf(mem[q]) = n
  BY <1>1, SameSize DEF SameType, IsObject, Shapes
<1>7. /\ Len(block) = n /\ n \in Nat /\ used - n \in Nat /\ q <= used - n
      /\ \A o \in used - n + 1 .. used : mem[o].shape # NoneType
  <2>1. used \in 1 .. used /\ mem \in [1 .. StackSize -> Cells] /\ used \in 0 .. StackSize /\ NestedIn(mem, used)
    BY <1>3, InvStack DEF StackOK, ObjectsNested
  <2>2. Len(block) = n
    BY <2>1, ObjectBlock
  <2>3. q <= used - n
    BY <1>1, <1>2, <1>3, ClearTop
  <2>4. n \in 1 .. used /\ \A o \in used - n + 1 .. used : mem[o].shape # NoneType
    BY <1>1, <1>3, TopObject, InvStack
  <2>5. n \in Nat /\ used - n \in Nat
    BY <1>3, <2>4
  <2> QED BY <2>2, <2>3, <2>4, <2>5
<1>8. \A o \in q - n + 1 .. q : mem[o].shape # NoneType
  <2>1. \A o \in q - SizeOf(mem[q]) + 1 .. q - 1 : mem[o].shape # NoneType
    BY <1>5, InvStack DEF ObjectsNested, NestedIn
  <2>2. mem[q].shape # NoneType
    BY <1>5, ProgramAssumption DEF IsObject
  <2> QED BY <1>5, <1>6, <2>1, <2>2
<1> DEFINE u == IF top.shape \in Arrays THEN used ELSE used - n
<1>9. mem' = Trimmed(w, u) /\ u \in Nat /\ used - n <= u /\ u <= used
  <2>1. used' = u
    BY <1>1, <1>7
  <2>2. u \in Nat /\ used - n <= u /\ u <= used
    <3> HIDE DEF n
    <3> QED BY <1>3, <1>7
  <2>3. mem' = Trimmed(w, u)
    BY <1>1, <2>1
  <2> QED BY <2>2, <2>3
<1> HIDE DEF u, top
<1>10. ASSUME NEW o \in 1 .. StackSize, o \notin q - n + 1 .. q, o <= u PROVE mem'[o] = mem[o]
  <2>1. w[o] = mem[o]
    BY <1>7, <1>10
  <2> HIDE DEF w
  <2>2. Trimmed(w, u)[o] = w[o]
    BY <1>3, <1>9, <1>10, TrimmedBelow
  <2> QED BY <1>9, <2>1, <2>2
<1> HIDE DEF w, block, n, q, begin
<1>11. \A o \in 1 .. ArgumentsEnd : mem'[o] = mem[o]
  <2> SUFFICES ASSUME NEW o \in 1 .. ArgumentsEnd PROVE mem'[o] = mem[o]
    OBVIOUS
  <2>1. ArgumentsEnd \in Nat /\ ArgumentsEnd <= q - n /\ q \in Nat /\ q <= used
    BY <1>3, <1>5, <1>6
  <2>2. o \in 1 .. StackSize /\ o \notin q - n + 1 .. q /\ o <= u
    BY <1>3, <1>7, <1>9, <2>1
  <2> QED BY <1>10, <2>2
<1>12. mem'[begin] = mem[begin]
  <2>1. begin \in 1 .. StackSize /\ begin \notin q - n + 1 .. q
    BY <1>3, <1>8
  <2>2. begin <= u
    <3>1. begin <= used - n
      BY <1>3, <1>7
    <3> QED BY <1>3, <1>7, <1>9, <3>1
  <2> QED BY <1>10, <2>1, <2>2
<1>13. ArgumentsSized
  <2> SUFFICES ASSUME NEW j \in frame.VariableBegin + 1 .. First(frame)
               PROVE  SizeOf(mem'[locals[j]]) = SizeOf(mem[locals[j]])
    BY DEF ArgumentsSized
  <2>1. locals[j] \in 1 .. begin - 1 /\ j \in 1 .. Len(locals)
    BY <1>3, ArgumentsBelow DEF begin
  <2>2. begin <= used - n
    BY <1>3, <1>7
  <2>3. locals[j] \in 1 .. StackSize /\ locals[j] <= u
    BY <1>3, <1>7, <1>9, <2>1, <2>2
  <2>4. CASE locals[j] = q
    <3>1. q \in 1 .. StackSize /\ q <= u
      BY <2>3, <2>4
    <3>2. mem'[q] = w[q]
      BY <1>3, <1>9, <3>1, TrimmedBelow
    <3>3. 1 \in 1 .. n /\ q \in q - n + 1 .. q /\ q - q + 1 = 1
      BY <1>5, <1>6, <1>7, SizeFacts
    <3>4. w[q] = block[1]
      BY <1>7, <3>1, <3>3 DEF w
    <3>5. block[1] = top
      <4>1. used \in 1 .. used /\ mem \in [1 .. StackSize -> Cells] /\ used \in 0 .. StackSize /\ NestedIn(mem, used)
        BY <1>3, InvStack DEF StackOK, ObjectsNested
      <4>2. \A k \in 1 .. SizeOf(mem[used]) : ObjectAt(used)[k] = mem[used - k + 1]
        BY <4>1, ObjectBlock
      <4>3. used - 1 + 1 = used
        BY <1>3
      <4> QED BY <3>3, <4>2, <4>3 DEF block, top, n
    <3> QED BY <1>6, <2>4, <3>2, <3>4, <3>5 DEF n
  <2>5. CASE locals[j] # q
    <3>1. locals[j] \notin q - n + 1 .. q
      <4>1. CASE locals[j] > q
        BY <1>5, <4>1
      <4>2. CASE locals[j] < q
        <5>1. q \in locals[j] + 1 .. used
          BY <1>5, <2>1, <4>2
        <5>2. locals[j] <= q - SizeOf(mem[q])
          BY <2>1, <5>1 DEF Isolated, LocalsApart
        <5> QED BY <1>5, <1>6, <1>7, <2>1, <5>2
      <4> QED BY <1>5, <2>1, <2>5, <4>1, <4>2
    <3> QED BY <1>10, <2>3, <3>1
  <2> QED BY <2>4, <2>5
<1> QED BY <1>1, <1>11, <1>12, <1>13 DEF CallerKept, begin

LEMMA NextKept ==
  ASSUME ~MixedSizes, ~LocalArguments,
         \A operand \in Operands : operand + StackSize < WordSize
  PROVE  Inv /\ Inv' /\ Isolated /\ LocalsDiffer /\ [Next]_vars /\ depth > 0 => CallerKept
<1> SUFFICES ASSUME Inv, Inv', Isolated, LocalsDiffer, [Next]_vars, depth > 0 PROVE CallerKept
  OBVIOUS
<1>1. CASE InterpretPush BY <1>1, PushKept
<1>2. CASE InterpretAPush BY <1>2, APushKept
<1>3. CASE InterpretPop BY <1>3, PopKept
<1>4. CASE \E operand \in Operands : InterpretLoad(operand) BY <1>4, LoadKept
<1>5. CASE \E operand \in Operands : InterpretStore(operand)
  BY <1>5, StoreNewKept, StoreOverKept, OccurExceptionKept DEF InterpretStore
<1>6. CASE InterpretCopy BY <1>6, CopyKept
<1>7. CASE InterpretSwap BY <1>7, SwapKept
<1>8. CASE InterpretOperation \/ InterpretDiv \/ InterpretCmp BY <1>8, BinaryKept
<1>9. CASE InterpretNeg \/ TypeCast BY <1>9, UnaryKept
<1>10. CASE Unhandled BY <1>10, NothingWritten DEF Unhandled
<1>11. CASE InterpretJmp \/ JumpCondition BY <1>11, JumpKept
<1>12. CASE InterpretCall BY <1>12, CallKept
<1>13. CASE InterpretRet BY <1>13, RetKept
<1>14. CASE UnknownOperand BY <1>14, OccurExceptionKept DEF UnknownOperand
<1>15. CASE FallOff BY <1>15, OccurExceptionKept, NothingWritten DEF FallOff
<1>16. CASE Stopped \/ UNCHANGED vars BY <1>16, NothingWritten DEF Stopped, vars
<1>17. CASE MemoryInstruction BY <1>17, MemoryKept
<1> QED
  BY <1>1, <1>2, <1>3, <1>4, <1>5, <1>6, <1>7, <1>8, <1>9, <1>10, <1>11, <1>12, <1>13, <1>14, <1>15,
     <1>16, <1>17
  DEF Next, MemoryInstruction

\* Nothing a function does, its return included, changes the caller's objects below the
\* arguments, the caller's locals or, until it returns, its saved frame: of every program
\* that passes no local variable, exchanges objects of one size, writes through no pointer
\* into the stack, and whose operands are so small that their sum with VariableBegin does
\* not wrap, as it may in the code.
THEOREM CallersUntouched ==
  ASSUME ~MixedSizes, ~LocalArguments,
         \A operand \in Operands : operand + StackSize < WordSize
  PROVE  Spec => CallerUntouched
<1>1. Init => LocalsDiffer
  BY DEF Init, LocalsDiffer
<1>2. Inv /\ Isolated /\ LocalsDiffer /\ [Next]_vars => LocalsDiffer'
  BY NextDiffer
<1>3. Inv /\ Inv' /\ Isolated /\ LocalsDiffer /\ [Next]_vars =>
        [depth > 0 =>
           /\ \A o \in 1 .. ArgumentsEnd : mem'[o] = mem[o]
           /\ SubSeq(locals', 1, frame.VariableBegin) = SubSeq(locals, 1, frame.VariableBegin)
           /\ frame'.StackBegin >= frame.StackBegin => mem'[frame.StackBegin] = mem[frame.StackBegin]]_vars
  BY NextKept DEF CallerKept
<1> QED BY <1>1, <1>2, <1>3, Invariance, Isolation, PTL DEF Spec, CallerUntouched

-----------------------------------------------------------------------------
(* Objects between two points of the stack *)

\* Numbers from B to N, each of which is in T if all before it are, are in T.
LEMMA FromTo ==
  ASSUME NEW B \in Nat, NEW N \in Nat, NEW T,
         \A n \in B .. N : (\A k \in B .. n - 1 : k \in T) => n \in T
  PROVE  \A n \in B .. N : n \in T
<1> DEFINE missing == {n \in B .. N : n \notin T}
<1> SUFFICES ASSUME missing # {} PROVE FALSE
  OBVIOUS
<1>1. PICK n \in missing : \A k \in missing : n <= k
  <2>1. missing \subseteq Nat
    OBVIOUS
  <2> HIDE DEF missing
  <2> QED BY <2>1, LeastElement
<1>2. \A k \in B .. n - 1 : k \in T
  <2> SUFFICES ASSUME NEW k \in B .. n - 1 PROVE k \in T
    OBVIOUS
  <2>1. k \in B .. N /\ ~(n <= k)
    BY <1>1
  <2>2. k \notin missing
    <3> HIDE DEF missing
    <3> QED BY <1>1, <2>1
  <2> QED BY <2>1, <2>2
<1> QED BY <1>1, <1>2

\* ObjectAt and ObjectsBetween in memory m.
ObjectIn(m, o) == [i \in 1 .. SizeOf(m[o]) |-> m[o - i + 1]]

ObjectsIn(m, begin, top) ==
  LET objects[o \in begin .. top] ==
        IF o = begin \/ o - SizeOf(m[o]) < begin THEN <<>>
        ELSE Append(objects[o - SizeOf(m[o])], ObjectIn(m, o))
  IN  objects[top]

\* The memory of ObjectsBetween is the stack.
LEMMA ObjectsOfStack ==
  \A begin, top : ObjectsBetween(begin, top) = ObjectsIn(mem, begin, top)
BY Zenon DEF ObjectsBetween, ObjectsIn, ObjectAt, ObjectIn

\* The recursion of ObjectsIn.
ObjectsFrom(m, begin, top, f) ==
  [o \in begin .. top |->
     IF o = begin \/ o - SizeOf(m[o]) < begin THEN <<>>
     ELSE Append(f[o - SizeOf(m[o])], ObjectIn(m, o))]

\* It defines a function.
LEMMA ObjectsDefined ==
  ASSUME NEW m, NEW begin \in Nat, NEW top \in Nat, begin <= top
  PROVE  \E f : f = ObjectsFrom(m, begin, top, f)
<1> DEFINE T == {n \in begin .. top : \E f : f = ObjectsFrom(m, begin, n, f)}
<1>1. ASSUME NEW n \in begin .. top, \A k \in begin .. n - 1 : k \in T PROVE n \in T
  <2>1. PICK f : n > begin => f = ObjectsFrom(m, begin, n - 1, f)
    <3>1. n > begin => n - 1 \in begin .. n - 1
      OBVIOUS
    <3> QED BY <1>1, <3>1
  <2> DEFINE size == SizeOf(m[n])
             last == IF n = begin \/ n - size < begin THEN <<>> ELSE Append(f[n - size], ObjectIn(m, n))
             g    == [o \in begin .. n |-> IF o = n THEN last ELSE f[o]]
  <2>2. \A o \in begin .. n : g[o] = IF o = n THEN last ELSE f[o]
    OBVIOUS
  <2>3. \A o : SizeOf(m[o]) \in Nat \ {0}
    BY SizeFacts
  <2> HIDE DEF g
  <2>4. \A o \in begin .. n : o - SizeOf(m[o]) >= begin => g[o - SizeOf(m[o])] = f[o - SizeOf(m[o])]
    <3> SUFFICES ASSUME NEW o \in begin .. n, o - SizeOf(m[o]) >= begin
                 PROVE  g[o - SizeOf(m[o])] = f[o - SizeOf(m[o])]
      OBVIOUS
    <3>1. o - SizeOf(m[o]) \in begin .. n /\ o - SizeOf(m[o]) # n
      BY <2>3
    <3> QED BY <2>2, <3>1
  <2>5. ASSUME NEW o \in begin .. n
        PROVE  g[o] = IF o = begin \/ o - SizeOf(m[o]) < begin THEN <<>>
                      ELSE Append(g[o - SizeOf(m[o])], ObjectIn(m, o))
    <3>1. o - SizeOf(m[o]) < begin \/ o - SizeOf(m[o]) >= begin
      BY <2>3
    <3>2. CASE o = n
      BY <2>2, <2>4, <3>1, <3>2
    <3>3. CASE o # n
      <4>1. o \in begin .. n - 1 /\ n > begin
        BY <3>3
      <4>2. f[o] = IF o = begin \/ o - SizeOf(m[o]) < begin THEN <<>>
                   ELSE Append(f[o - SizeOf(m[o])], ObjectIn(m, o))
        BY <2>1, <4>1 DEF ObjectsFrom
      <4>3. g[o] = f[o]
        BY <2>2, <3>3
      <4> QED BY <2>4, <3>1, <4>2, <4>3
    <3> QED BY <3>2, <3>3
  <2>6. g = [o \in begin .. n |-> g[o]]
    BY DEF g
  <2>7. g = ObjectsFrom(m, begin, n, g)
    BY <2>5, <2>6 DEF ObjectsFrom
  <2> QED BY <2>7
<1> HIDE DEF T
<1>2. \A n \in begin .. top : n \in T
  BY <1>1, FromTo
<1>3. top \in T
  BY <1>2
<1> QED BY <1>3 DEF T

\* And only one, up to whatever point.
LEMMA ObjectsUnique ==
  ASSUME NEW m, NEW begin \in Nat, NEW n \in Nat, NEW top \in Nat, begin <= n, n <= top,
         NEW f, f = ObjectsFrom(m, begin, n, f), NEW g, g = ObjectsFrom(m, begin, top, g)
  PROVE  \A o \in begin .. n : f[o] = g[o]
<1> DEFINE T == {o \in begin .. n : f[o] = g[o]}
<1>1. ASSUME NEW o \in begin .. n, \A k \in begin .. o - 1 : k \in T PROVE o \in T
  <2>1. f[o] = IF o = begin \/ o - SizeOf(m[o]) < begin THEN <<>>
               ELSE Append(f[o - SizeOf(m[o])], ObjectIn(m, o))
    BY DEF ObjectsFrom
  <2>2. g[o] = IF o = begin \/ o - SizeOf(m[o]) < begin THEN <<>>
               ELSE Append(g[o - SizeOf(m[o])], ObjectIn(m, o))
    <3>1. o \in begin .. top
      OBVIOUS
    <3> QED BY <3>1 DEF ObjectsFrom
  <2>3. o - SizeOf(m[o]) < begin \/ f[o - SizeOf(m[o])] = g[o - SizeOf(m[o])]
    <3>1. SizeOf(m[o]) \in Nat \ {0}
      BY SizeFacts
    <3>2. o - SizeOf(m[o]) < begin \/ o - SizeOf(m[o]) \in begin .. o - 1
      BY <3>1
    <3> QED BY <1>1, <3>2
  <2> QED BY <2>1, <2>2, <2>3
<1> HIDE DEF T
<1>2. \A o \in begin .. n : o \in T
  BY <1>1, FromTo
<1> QED BY <1>2 DEF T

\* The objects up to one are those below it, and it.
LEMMA ObjectsStep ==
  ASSUME NEW m, NEW begin \in Nat
  PROVE  /\ ObjectsIn(m, begin, begin) = <<>>
         /\ \A top \in Nat : begin < top =>
              ObjectsIn(m, begin, top) =
                IF top - SizeOf(m[top]) < begin THEN <<>>
                ELSE Append(ObjectsIn(m, begin, top - SizeOf(m[top])), ObjectIn(m, top))
<1> DEFINE F(n) == CHOOSE f : f = ObjectsFrom(m, begin, n, f)
<1>1. ASSUME NEW n \in Nat, begin <= n
      PROVE  F(n) = ObjectsFrom(m, begin, n, F(n)) /\ ObjectsIn(m, begin, n) = F(n)[n]
  <2>1. F(n) = ObjectsFrom(m, begin, n, F(n))
    BY <1>1, ObjectsDefined
  <2>2. ObjectsIn(m, begin, n) = F(n)[n]
    BY Zenon DEF ObjectsIn, ObjectsFrom
  <2> QED BY <2>1, <2>2
<1> HIDE DEF F
<1>2. ObjectsIn(m, begin, begin) = <<>>
  <2>1. begin \in begin .. begin
    OBVIOUS
  <2>2. ObjectsFrom(m, begin, begin, F(begin))[begin] = <<>>
    BY <2>1 DEF ObjectsFrom
  <2> QED BY <1>1, <2>2
<1>3. ASSUME NEW top \in Nat, begin < top
      PROVE  ObjectsIn(m, begin, top) =
               IF top - SizeOf(m[top]) < begin THEN <<>>
               ELSE Append(ObjectsIn(m, begin, top - SizeOf(m[top])), ObjectIn(m, top))
  <2> DEFINE low == top - SizeOf(m[top])
  <2>1. SizeOf(m[top]) \in Nat \ {0}
    BY SizeFacts
  <2>2. F(top) = ObjectsFrom(m, begin, top, F(top)) /\ ObjectsIn(m, begin, top) = F(top)[top]
    BY <1>1, <1>3
  <2>3. F(top)[top] = IF low < begin THEN <<>> ELSE Append(F(top)[low], ObjectIn(m, top))
    <3>1. top \in begin .. top /\ top # begin
      BY <1>3
    <3> QED BY <2>2, <3>1 DEF ObjectsFrom
  <2>4. CASE low < begin
    BY <2>2, <2>3, <2>4
  <2>5. CASE ~(low < begin)
    <3>1. low \in Nat /\ begin <= low /\ low <= top /\ begin <= top
      BY <2>1, <2>5
    <3>2. F(low) = ObjectsFrom(m, begin, low, F(low)) /\ ObjectsIn(m, begin, low) = F(low)[low]
      BY <1>1, <3>1
    <3> HIDE DEF low
    <3>3. \A o \in begin .. low : F(low)[o] = F(top)[o]
      BY <2>2, <3>1, <3>2, ObjectsUnique
    <3>4. low \in begin .. low
      BY <3>1
    <3>5. F(top)[low] = ObjectsIn(m, begin, low)
      BY <3>2, <3>3, <3>4
    <3>6. ObjectsIn(m, begin, top) = Append(ObjectsIn(m, begin, low), ObjectIn(m, top))
      BY <2>2, <2>3, <2>5, <3>5
    <3> QED BY <2>5, <3>6 DEF low
  <2> QED BY <2>4, <2>5
<1> QED BY <1>2, <1>3

\* Objects are sequences of what may be an object.
LEMMA ObjectsTyped ==
  ASSUME NEW m, NEW begin \in Nat, NEW top \in Nat, begin <= top,
         NEW S, \A o \in begin + 1 .. top : ObjectIn(m, o) \in S
  PROVE  ObjectsIn(m, begin, top) \in Seq(S)
<1> DEFINE T == {n \in begin .. top : ObjectsIn(m, begin, n) \in Seq(S)}
<1>1. ASSUME NEW n \in begin .. top, \A k \in begin .. n - 1 : k \in T PROVE n \in T
  <2> DEFINE low == n - SizeOf(m[n])
  <2>1. CASE n = begin
    <3>1. ObjectsIn(m, begin, n) = <<>>
      BY <2>1, ObjectsStep
    <3> QED BY <3>1
  <2>2. CASE n # begin
    <3>1. ObjectsIn(m, begin, n) =
            IF low < begin THEN <<>> ELSE Append(ObjectsIn(m, begin, low), ObjectIn(m, n))
      <4>1. n \in Nat /\ begin < n
        BY <2>2
      <4> QED BY <4>1, ObjectsStep
    <3>2. low < begin \/ low \in begin .. n - 1
      <4>1. SizeOf(m[n]) \in Nat \ {0}
        BY SizeFacts
      <4> QED BY <4>1
    <3>3. low < begin \/ ObjectsIn(m, begin, low) \in Seq(S)
      BY <1>1, <3>2
    <3>4. ObjectIn(m, n) \in S
      <4>1. n \in begin + 1 .. top
        BY <2>2
      <4> QED BY <4>1
    <3> HIDE DEF low
    <3>5. <<>> \in Seq(S)
      OBVIOUS
    <3>6. ~(low < begin) => Append(ObjectsIn(m, begin, low), ObjectIn(m, n)) \in Seq(S)
      BY <3>3, <3>4
    <3>7. ObjectsIn(m, begin, n) \in Seq(S)
      BY <3>1, <3>5, <3>6
    <3> QED BY <3>7
  <2> QED BY <2>1, <2>2
<1> HIDE DEF T
<1>2. \A n \in begin .. top : n \in T
  BY <1>1, FromTo
<1>3. top \in T
  BY <1>2
<1> QED BY <1>3 DEF T

\* They depend on nothing but what lies there.
LEMMA ObjectsSame ==
  ASSUME NEW m, NEW w, NEW begin \in Nat, NEW top \in Nat, begin <= top,
         \A o \in begin + 1 .. top : w[o] = m[o]
  PROVE  ObjectsIn(w, begin, top) = ObjectsIn(m, begin, top)
<1> DEFINE T == {n \in begin .. top : ObjectsIn(w, begin, n) = ObjectsIn(m, begin, n)}
<1>1. ASSUME NEW n \in begin .. top, \A k \in begin .. n - 1 : k \in T PROVE n \in T
  <2> DEFINE low == n - SizeOf(m[n])
  <2>1. CASE n = begin
    <3>1. ObjectsIn(m, begin, n) = <<>> /\ ObjectsIn(w, begin, n) = <<>>
      BY <2>1, ObjectsStep
    <3> QED BY <3>1
  <2>2. CASE n # begin
    <3>1. n \in Nat /\ begin < n /\ n \in begin + 1 .. top
      BY <2>2
    <3>2. w[n] = m[n]
      BY <3>1
    <3>3. ObjectsIn(m, begin, n) =
            IF low < begin THEN <<>> ELSE Append(ObjectsIn(m, begin, low), ObjectIn(m, n))
      BY <3>1, ObjectsStep
    <3>4. ObjectsIn(w, begin, n) =
            IF low < begin THEN <<>> ELSE Append(ObjectsIn(w, begin, low), ObjectIn(w, n))
      BY <3>1, <3>2, ObjectsStep
    <3>5. SizeOf(m[n]) \in Nat \ {0}
      BY SizeFacts
    <3>6. low < begin \/ low \in begin .. n - 1
      BY <3>5
    <3>7. low < begin \/ ObjectsIn(m, begin, low) = ObjectsIn(w, begin, low)
      BY <1>1, <3>6
    <3>8. low < begin \/ ObjectIn(m, n) = ObjectIn(w, n)
      <4> SUFFICES ASSUME ~(low < begin) PROVE ObjectIn(m, n) = ObjectIn(w, n)
        OBVIOUS
      <4>1. \A i \in 1 .. SizeOf(m[n]) : n - i + 1 \in begin + 1 .. top
        BY <3>5, <3>6
      <4>2. \A i \in 1 .. SizeOf(m[n]) : m[n - i + 1] = w[n - i + 1]
        BY <4>1
      <4> QED BY <3>2, <4>2 DEF ObjectIn
    <3> HIDE DEF low
    <3> QED BY <3>3, <3>4, <3>7, <3>8
  <2> QED BY <2>1, <2>2
<1> HIDE DEF T
<1>2. \A n \in begin .. top : n \in T
  BY <1>1, FromTo
<1>3. top \in T
  BY <1>2
<1> QED BY <1>3 DEF T

\* No object from above mid and up to top reaches below mid.
NoneReachesBelow(m, mid, top) == \A o \in mid + 1 .. top : mid <= o - SizeOf(m[o])

\* The objects up to top are those up to mid and those above.
SplitAt(m, begin, mid, top) == ObjectsIn(m, begin, top) = ObjectsIn(m, begin, mid) \o ObjectsIn(m, mid, top)

\* Where no object from above reaches below a point, they are those below and those above.
LEMMA ObjectsSplit ==
  ASSUME NEW m, NEW begin \in Nat, NEW mid \in Nat, NEW top \in Nat, begin <= mid, mid <= top,
         NoneReachesBelow(m, mid, top)
  PROVE  SplitAt(m, begin, mid, top)
<1> \A o \in mid + 1 .. top : mid <= o - SizeOf(m[o])
  BY DEF NoneReachesBelow
<1> DEFINE S == {ObjectIn(m, o) : o \in 1 .. top}
           lower == ObjectsIn(m, begin, mid)
           T == {n \in mid .. top : ObjectsIn(m, begin, n) = lower \o ObjectsIn(m, mid, n)}
<1>1. \A n \in mid .. top : ObjectsIn(m, mid, n) \in Seq(S)
  <2> TAKE n \in mid .. top
  <2>1. \A o \in mid + 1 .. n : ObjectIn(m, o) \in S
    OBVIOUS
  <2>2. n \in Nat /\ mid <= n
    OBVIOUS
  <2> HIDE DEF S
  <2> QED BY <2>1, <2>2, ObjectsTyped
<1>2. lower \in Seq(S)
  <2>1. \A o \in begin + 1 .. mid : ObjectIn(m, o) \in S
    OBVIOUS
  <2> HIDE DEF S
  <2> QED BY <2>1, ObjectsTyped
<1>3. \A o \in mid + 1 .. top : ObjectIn(m, o) \in S
  OBVIOUS
<1> HIDE DEF S
<1>4. ASSUME NEW n \in mid .. top, \A k \in mid .. n - 1 : k \in T PROVE n \in T
  <2> DEFINE low == n - SizeOf(m[n])
  <2>1. CASE n = mid
    <3>1. ObjectsIn(m, mid, n) = <<>>
      BY <2>1, ObjectsStep
    <3>2. lower \o <<>> = lower
      <4> HIDE DEF lower
      <4> QED BY <1>2
    <3> QED BY <2>1, <3>1, <3>2
  <2>2. CASE n # mid
    <3>1. n \in Nat /\ mid < n /\ begin < n /\ n \in mid + 1 .. top
      BY <2>2
    <3>2. SizeOf(m[n]) \in Nat \ {0}
      BY SizeFacts
    <3>3. low \in mid .. n - 1 /\ ~(low < mid) /\ ~(low < begin)
      <4>1. mid <= low
        BY <3>1
      <4> QED BY <3>1, <3>2, <4>1
    <3>4. ObjectsIn(m, begin, n) = Append(ObjectsIn(m, begin, low), ObjectIn(m, n))
      <4>1. ObjectsIn(m, begin, n) =
              IF low < begin THEN <<>> ELSE Append(ObjectsIn(m, begin, low), ObjectIn(m, n))
        BY <3>1, ObjectsStep
      <4> QED BY <3>3, <4>1
    <3>5. ObjectsIn(m, mid, n) = Append(ObjectsIn(m, mid, low), ObjectIn(m, n))
      <4>1. ObjectsIn(m, mid, n) =
              IF low < mid THEN <<>> ELSE Append(ObjectsIn(m, mid, low), ObjectIn(m, n))
        BY <3>1, ObjectsStep
      <4> QED BY <3>3, <4>1
    <3>6. ObjectsIn(m, begin, low) = lower \o ObjectsIn(m, mid, low)
      BY <1>4, <3>3
    <3>7. \A x \in S : \A s, t \in Seq(S) : Append(s \o t, x) = s \o Append(t, x)
      <4> TAKE x \in S
      <4> TAKE s, t \in Seq(S)
      <4>1. s \o t \in Seq(S) /\ <<x>> \in Seq(S)
        BY ConcatProperties
      <4>2. Append(s \o t, x) = (s \o t) \o <<x>> /\ Append(t, x) = t \o <<x>>
        BY <4>1, AppendIsConcat
      <4>3. (s \o t) \o <<x>> = s \o (t \o <<x>>)
        BY <4>1, ConcatAssociative
      <4> QED BY <4>2, <4>3
    <3>8. ObjectIn(m, n) \in S /\ ObjectsIn(m, mid, low) \in Seq(S)
      <4>1. low \in mid .. top
        BY <3>3
      <4> HIDE DEF low
      <4> QED BY <1>1, <1>3, <3>1, <4>1
    <3> HIDE DEF low, lower
    <3>9. Append(lower \o ObjectsIn(m, mid, low), ObjectIn(m, n)) = lower \o Append(ObjectsIn(m, mid, low), ObjectIn(m, n))
      BY <1>2, <3>7, <3>8
    <3> QED BY <3>4, <3>5, <3>6, <3>9 DEF lower
  <2> QED BY <2>1, <2>2
<1> HIDE DEF T
<1>5. \A n \in mid .. top : n \in T
  BY <1>4, FromTo
<1>6. top \in T
  BY <1>5
<1> QED BY <1>6 DEF T, lower, SplitAt

\* A walk passes the objects that lie between its ends, from the top down.
LEMMA ObjectsWalked ==
  ASSUME NEW base \in Nat, NEW n \in Nat, NEW walk \in Walks(ObjectSize, base, n)
  PROVE  /\ Len(ObjectsIn(mem, walk[n], base)) = n
         /\ \A i \in 1 .. n : ObjectsIn(mem, walk[n], base)[i] = ObjectIn(mem, walk[n - i])
<1>1. /\ walk \in [0 .. n -> 0 .. base] /\ walk[0] = base
      /\ \A j \in 1 .. n : walk[j] = walk[j - 1] - SizeOf(mem[walk[j - 1]])
      /\ \A i, j \in 0 .. n : i < j => walk[j] < walk[i]
  BY WalkDown
<1> DEFINE end == walk[n]
           S   == {ObjectIn(mem, o) : o \in 1 .. base}
           T   == {k \in 0 .. n :
                     /\ Len(ObjectsIn(mem, end, walk[n - k])) = k
                     /\ \A i \in 1 .. k : ObjectsIn(mem, end, walk[n - k])[i] = ObjectIn(mem, walk[n - i])}
<1>2. end \in Nat /\ \A k \in 0 .. n : walk[n - k] \in end .. base
  <2>1. n \in 0 .. n /\ end \in 0 .. base
    BY <1>1
  <2>2. ASSUME NEW k \in 0 .. n PROVE walk[n - k] \in end .. base
    <3>1. n - k \in 0 .. n /\ (n - k = n \/ n - k < n)
      OBVIOUS
    <3>2. walk[n - k] \in 0 .. base /\ (n - k = n \/ walk[n] < walk[n - k])
      BY <1>1, <2>1, <3>1
    <3> QED BY <2>1, <3>2
  <2> QED BY <2>1, <2>2
<1>3. ASSUME NEW k \in 0 .. n, \A l \in 0 .. k - 1 : l \in T PROVE k \in T
  <2>1. CASE k = 0
    <3>1. n - k = n
      BY <2>1
    <3>2. ObjectsIn(mem, end, end) = <<>>
      <4> HIDE DEF end
      <4> QED BY <1>2, ObjectsStep
    <3> QED BY <2>1, <3>1, <3>2
  <2>2. CASE k # 0
    <3> DEFINE o   == walk[n - k]
               low == walk[n - (k - 1)]
    <3>1. k - 1 \in 0 .. n /\ k - 1 \in 0 .. k - 1 /\ n - (k - 1) \in 1 .. n /\ (n - (k - 1)) - 1 = n - k
      BY <2>2
    <3>2. walk[n - (k - 1)] = walk[n - k] - SizeOf(mem[walk[n - k]])
      BY <1>1, <3>1
    <3>3. o \in end .. base /\ low \in end .. base
      BY <1>2, <3>1
    <3>4. /\ Len(ObjectsIn(mem, end, low)) = k - 1
          /\ \A i \in 1 .. k - 1 : ObjectsIn(mem, end, low)[i] = ObjectIn(mem, walk[n - i])
      BY <1>3, <3>1
    <3>5. low = o - SizeOf(mem[o])
      BY <3>2
    <3> HIDE DEF o, low
    <3>6. SizeOf(mem[o]) \in Nat \ {0}
      BY SizeFacts
    <3> HIDE DEF end
    <3>7. o \in Nat /\ end < o /\ low \in Nat /\ end <= low /\ ~(low < end) /\ o \in 1 .. base
      BY <1>2, <3>3, <3>5, <3>6
    <3>8. ObjectsIn(mem, end, o) = Append(ObjectsIn(mem, end, low), ObjectIn(mem, o))
      <4>1. ObjectsIn(mem, end, o) =
              IF o - SizeOf(mem[o]) < end THEN <<>>
              ELSE Append(ObjectsIn(mem, end, o - SizeOf(mem[o])), ObjectIn(mem, o))
        BY <1>2, <3>7, ObjectsStep
      <4> QED BY <3>5, <3>7, <4>1
    <3>9. ObjectsIn(mem, end, low) \in Seq(S)
      <4>1. \A p \in end + 1 .. low : ObjectIn(mem, p) \in S
        <5>1. \A p \in end + 1 .. low : p \in 1 .. base
          BY <1>2, <3>3
        <5> QED BY <5>1
      <4> HIDE DEF S
      <4> QED BY <1>2, <3>7, <4>1, ObjectsTyped
    <3>10. ObjectIn(mem, o) \in S
      BY <3>7
    <3> DEFINE objects == ObjectsIn(mem, end, o)
               lower == ObjectsIn(mem, end, low)
    <3>11. /\ Len(objects) = k /\ objects[k] = ObjectIn(mem, o)
           /\ \A i \in 1 .. k - 1 : objects[i] = lower[i]
      <4>1. objects = Append(lower, ObjectIn(mem, o)) /\ Len(lower) = k - 1
        BY <3>4, <3>8
      <4> HIDE DEF S, objects, lower
      <4> QED BY <3>9, <3>10, <4>1 DEF lower
    <3>12. \A i \in 1 .. k : objects[i] = ObjectIn(mem, walk[n - i])
      <4> TAKE i \in 1 .. k
      <4>1. i = k \/ i \in 1 .. k - 1
        OBVIOUS
      <4> HIDE DEF objects
      <4> QED BY <3>4, <3>11, <4>1 DEF o
    <3> QED BY <3>11, <3>12 DEF o, end
  <2> QED BY <2>1, <2>2
<1> HIDE DEF T
<1>4. \A k \in 0 .. n : k \in T
  <2>1. 0 \in Nat
    OBVIOUS
  <2> QED BY <1>3, <2>1, FromTo
<1>5. n \in T
  BY <1>4
<1>6. walk[n - n] = base
  BY <1>1
<1> QED BY <1>5, <1>6 DEF T, end

-----------------------------------------------------------------------------
(* The saved frames by their number from the bottom *)

\* The number of p among the places, from 0.
Rank(places, p) == Cardinality({j \in places : j < p})

\* The place that has the number.
PlaceIn(places, d) == CHOOSE p \in places : Rank(places, p) = d

\* The elements of a finite set of numbers have ranks from 0 on.
LEMMA RankFacts ==
  ASSUME NEW N \in Nat, NEW places \in SUBSET (1 .. N)
  PROVE  /\ IsFiniteSet(places) /\ Cardinality(places) \in Nat
         /\ \A p \in places : Rank(places, p) \in 0 .. Cardinality(places) - 1
         /\ \A p, q \in places : p < q => Rank(places, p) < Rank(places, q)
         /\ \A p, q \in places : Rank(places, p) = Rank(places, q) => p = q
         /\ \A d \in 0 .. Cardinality(places) - 1 : \E p \in places : Rank(places, p) = d
<1> DEFINE C == Cardinality(places)
           below(p) == {j \in places : j < p}
<1>1. IsFiniteSet(places)
  <2>1. IsFiniteSet(1 .. N)
    BY FS_Interval
  <2> QED BY <2>1, FS_Subset
<1>2. C \in Nat
  BY <1>1, FS_CardinalityType
<1>3. ASSUME NEW p \in places, NEW q \in places, p < q
      PROVE  Cardinality(below(p)) < Cardinality(below(q))
  <2>1. below(p) \in SUBSET below(q) /\ p \in below(q) /\ p \notin below(p) /\ below(q) \in SUBSET places
    <3>1. \A j \in places : j \in Int
      OBVIOUS
    <3>2. \A j \in places : j < p => j < q
      BY <1>3, <3>1
    <3>3. ~(p < p)
      BY <3>1
    <3> QED BY <1>3, <3>2, <3>3
  <2> HIDE DEF below
  <2>2. IsFiniteSet(below(q))
    BY <1>1, <2>1, FS_Subset
  <2>3. IsFiniteSet(below(p))
    BY <2>1, <2>2, FS_Subset
  <2>4. Cardinality(below(p)) \in Nat /\ Cardinality(below(q)) \in Nat
    BY <2>2, <2>3, FS_CardinalityType
  <2>5. Cardinality(below(p)) <= Cardinality(below(q)) /\ Cardinality(below(p)) # Cardinality(below(q))
    BY <2>1, <2>2, FS_Subset
  <2> QED BY <2>4, <2>5
<1>4. ASSUME NEW p \in places PROVE Cardinality(below(p)) \in 0 .. C - 1
  <2>1. below(p) \in SUBSET places /\ below(p) # places
    BY DEF below
  <2> HIDE DEF below
  <2>2. IsFiniteSet(below(p))
    BY <1>1, <2>1, FS_Subset
  <2>3. Cardinality(below(p)) \in Nat
    BY <2>2, FS_CardinalityType
  <2>4. Cardinality(below(p)) <= C /\ Cardinality(below(p)) # C
    BY <1>1, <2>1, FS_Subset
  <2> QED BY <1>2, <2>3, <2>4
<1>5. \A p \in places : Rank(places, p) = Cardinality(below(p))
  BY DEF Rank
<1> HIDE DEF below, C
<1>6. \A p, q \in places : Rank(places, p) = Rank(places, q) => p = q
  <2> SUFFICES ASSUME NEW p \in places, NEW q \in places, Rank(places, p) = Rank(places, q), p # q PROVE FALSE
    OBVIOUS
  <2>1. Cardinality(below(p)) \in Int /\ Cardinality(below(q)) \in Int
    BY <1>2, <1>4
  <2>2. p < q \/ q < p
    OBVIOUS
  <2>3. Cardinality(below(p)) # Cardinality(below(q))
    BY <1>3, <2>1, <2>2
  <2> QED BY <1>5, <2>3
<1> DEFINE f == [p \in places |-> Rank(places, p)]
<1>7. f \in Injection(places, 0 .. C - 1)
  <2>1. f \in [places -> 0 .. C - 1]
    BY <1>4, <1>5
  <2>2. \A p, q \in places : f[p] = f[q] => p = q
    BY <1>6
  <2> HIDE DEF f
  <2> QED BY <2>1, <2>2 DEF Injection, IsInjective
<1>8. IsFiniteSet(0 .. C - 1) /\ Cardinality(0 .. C - 1) = C
  <2>1. 0 \in Int /\ C - 1 \in Int /\ (IF 0 > C - 1 THEN 0 ELSE (C - 1) - 0 + 1) = C
    BY <1>2
  <2>2. IsFiniteSet(0 .. C - 1) /\ Cardinality(0 .. C - 1) = IF 0 > C - 1 THEN 0 ELSE (C - 1) - 0 + 1
    BY <2>1, FS_Interval
  <2> QED BY <2>1, <2>2
<1>9. f \in Surjection(places, 0 .. C - 1)
  <2> HIDE DEF f
  <2> QED BY <1>7, <1>8, FS_Injection DEF C
<1>10. \A d \in 0 .. C - 1 : \E p \in places : Rank(places, p) = d
  <2> TAKE d \in 0 .. C - 1
  <2>1. \A x \in 0 .. C - 1 : \E p \in places : f[p] = x
    <3> HIDE DEF f
    <3> QED BY <1>9 DEF Surjection
  <2> QED BY <2>1
<1>11. \A p, q \in places : p < q => Rank(places, p) < Rank(places, q)
  BY <1>3, <1>5
<1> QED BY <1>1, <1>2, <1>4, <1>5, <1>6, <1>10, <1>11 DEF C

\* Every number below the count of the places is the number of one of them.
LEMMA PlaceFacts ==
  ASSUME NEW N \in Nat, NEW places \in SUBSET (1 .. N)
  PROVE  /\ Cardinality(places) \in Nat
         /\ \A d \in 0 .. Cardinality(places) - 1 : PlaceIn(places, d) \in places /\ Rank(places, PlaceIn(places, d)) = d
         /\ \A p \in places : Rank(places, p) \in 0 .. Cardinality(places) - 1 /\ PlaceIn(places, Rank(places, p)) = p
         /\ \A d, e \in 0 .. Cardinality(places) - 1 : d < e => PlaceIn(places, d) < PlaceIn(places, e)
<1> DEFINE C == Cardinality(places)
<1>1. C \in Nat
  BY RankFacts
<1>2. \A d \in 0 .. C - 1 : PlaceIn(places, d) \in places /\ Rank(places, PlaceIn(places, d)) = d
  <2> TAKE d \in 0 .. C - 1
  <2>1. \E p \in places : Rank(places, p) = d
    BY RankFacts
  <2> QED BY <2>1 DEF PlaceIn
<1>3. \A p \in places : Rank(places, p) \in 0 .. C - 1
  BY RankFacts
<1>4. \A p \in places : PlaceIn(places, Rank(places, p)) = p
  <2> TAKE p \in places
  <2>1. PlaceIn(places, Rank(places, p)) \in places /\ Rank(places, PlaceIn(places, Rank(places, p))) = Rank(places, p)
    BY <1>2, <1>3
  <2> QED BY <2>1, RankFacts
<1>5. ASSUME NEW d \in 0 .. C - 1, NEW e \in 0 .. C - 1, d < e
      PROVE  PlaceIn(places, d) < PlaceIn(places, e)
  <2> DEFINE p == PlaceIn(places, d)
             q == PlaceIn(places, e)
  <2>1. p \in places /\ q \in places /\ Rank(places, p) = d /\ Rank(places, q) = e
    BY <1>2
  <2> HIDE DEF p, q
  <2>2. p # q
    BY <1>5, <2>1
  <2>3. q < p => Rank(places, q) < Rank(places, p)
    BY <2>1, RankFacts
  <2>4. p \in Int /\ q \in Int
    BY <2>1
  <2> QED BY <1>1, <1>5, <2>1, <2>2, <2>3, <2>4 DEF p, q
<1> QED BY <1>1, <1>2, <1>3, <1>4, <1>5

\* More places above leave the numbers of those below.
LEMMA PlacePrefix ==
  ASSUME NEW N \in Nat, NEW places \in SUBSET (1 .. N), NEW few \in SUBSET places,
         \A p \in few, q \in places : q < p => q \in few
  PROVE  \A d \in 0 .. Cardinality(few) - 1 : PlaceIn(places, d) = PlaceIn(few, d)
<1> TAKE d \in 0 .. Cardinality(few) - 1
<1> DEFINE p == PlaceIn(few, d)
<1>1. few \in SUBSET (1 .. N)
  OBVIOUS
<1>2. p \in few /\ Rank(few, p) = d
  BY <1>1, PlaceFacts
<1> HIDE DEF p
<1>3. {j \in places : j < p} = {j \in few : j < p}
  BY <1>2
<1>4. p \in places /\ Rank(places, p) = d
  BY <1>2, <1>3 DEF Rank
<1>5. PlaceIn(places, Rank(places, p)) = p
  BY <1>4, PlaceFacts
<1> QED BY <1>4, <1>5 DEF p

\* The newest of the places is the last.
LEMMA PlaceNewest ==
  ASSUME NEW N \in Nat, NEW places \in SUBSET (1 .. N), NEW newest, IsNewest(newest, places)
  PROVE  IF Cardinality(places) = 0 THEN newest = 0 ELSE newest = PlaceIn(places, Cardinality(places) - 1)
<1> DEFINE C == Cardinality(places)
<1>1. IsFiniteSet(places) /\ C \in Nat
  BY RankFacts
<1>2. CASE C = 0
  <2>1. places = {}
    <3> HIDE DEF C
    <3>1. Cardinality(places) = 0
      BY <1>2 DEF C
    <3> QED BY <1>1, <3>1, FS_EmptySet
  <2> QED BY <1>2, <2>1 DEF IsNewest
<1>3. CASE C # 0
  <2>1. places # {}
    <3>1. Cardinality({}) = 0
      BY FS_EmptySet
    <3> QED BY <1>3, <3>1
  <2>2. newest \in places /\ \A p \in places : p <= newest
    BY <2>1 DEF IsNewest
  <2> DEFINE r == Rank(places, newest)
             last == PlaceIn(places, C - 1)
  <2>3. r \in 0 .. C - 1 /\ PlaceIn(places, r) = newest
    BY <2>2, PlaceFacts
  <2>4. C - 1 \in 0 .. C - 1
    BY <1>1, <1>3
  <2>5. last \in places
    BY <2>4, PlaceFacts
  <2>6. r < C - 1 => newest < last
    <3>1. \A d, e \in 0 .. C - 1 : d < e => PlaceIn(places, d) < PlaceIn(places, e)
      BY PlaceFacts
    <3> HIDE DEF r, C
    <3> QED BY <2>3, <2>4, <3>1
  <2> HIDE DEF r, last, C
  <2>7. last <= newest /\ last \in Int /\ newest \in Int
    BY <2>2, <2>5
  <2>8. r = C - 1
    BY <1>1, <2>3, <2>6, <2>7
  <2> QED BY <1>3, <2>3, <2>8 DEF C
<1> QED BY <1>2, <1>3

\* The place of a saved frame is found by its number.
LEMMA SavedAtPlace == \A d : SavedAt(d) = PlaceIn(SavedFrames, d)
BY Zenon DEF SavedAt, PlaceIn, Rank

\* The frames of the active functions by their depth.
LEMMA Chain ==
  ASSUME Inv
  PROVE  /\ depth \in Nat /\ FrameOf(depth) = frame
         /\ \A d \in 0 .. depth : FrameOf(d) \in ActiveFrames /\ (FrameOf(d).StackBegin = 0 <=> d = 0)
         /\ \A d \in 0 .. depth - 1 :
              /\ SavedAt(d) \in SavedFrames /\ FrameOf(d) = mem[SavedAt(d)].val
              /\ FrameOf(d + 1).StackBegin = SavedAt(d)
         /\ \A d, e \in 0 .. depth - 1 : d < e => SavedAt(d) < SavedAt(e)
<1> DEFINE C == Cardinality(SavedFrames)
<1>1. used \in Nat /\ SavedFrames \in SUBSET (1 .. used) /\ C \in Nat /\ depth = C
  BY InvStack, SavedFramesFinite DEF Inv, FrameChain
<1>2. /\ \A d \in 0 .. C - 1 : SavedAt(d) \in SavedFrames /\ Rank(SavedFrames, SavedAt(d)) = d
      /\ \A d, e \in 0 .. C - 1 : d < e => SavedAt(d) < SavedAt(e)
  BY <1>1, PlaceFacts, SavedAtPlace
<1> HIDE DEF C
<1>3. \A d \in 0 .. depth - 1 : FrameOf(d) = mem[SavedAt(d)].val
  BY <1>1 DEF FrameOf
<1>4. FrameOf(depth) = frame
  BY DEF FrameOf
<1>5. \A d \in 0 .. depth : FrameOf(d) \in ActiveFrames
  <2> TAKE d \in 0 .. depth
  <2>1. CASE d = depth
    BY <1>4, <2>1 DEF ActiveFrames
  <2>2. CASE d # depth
    <3>1. d \in 0 .. depth - 1
      BY <1>1, <2>2
    <3> QED BY <1>1, <1>2, <1>3, <3>1 DEF ActiveFrames
  <2> QED BY <2>1, <2>2
<1>6. ASSUME NEW d \in 0 .. depth
      PROVE  IF d = 0 THEN FrameOf(d).StackBegin = 0 ELSE FrameOf(d).StackBegin = SavedAt(d - 1)
  <2>1. CASE d = depth
    <3>1. IsNewest(frame.StackBegin, SavedFrames)
      BY DEF Inv, FrameChain
    <3>2. IF C = 0 THEN frame.StackBegin = 0 ELSE frame.StackBegin = PlaceIn(SavedFrames, C - 1)
      BY <1>1, <3>1, PlaceNewest DEF C
    <3> QED BY <1>1, <1>4, <2>1, <3>2, SavedAtPlace
  <2>2. CASE d # depth
    <3> DEFINE o == SavedAt(d)
               below == {p \in SavedFrames : p < o}
    <3>1. d \in 0 .. depth - 1
      BY <1>1, <2>2
    <3>2. o \in SavedFrames /\ Rank(SavedFrames, o) = d /\ FrameOf(d) = mem[o].val
      BY <1>1, <1>2, <1>3, <3>1
    <3>3. below \in SUBSET (1 .. used) /\ Cardinality(below) = d /\ below \in SUBSET SavedFrames
      BY <1>1, <3>2 DEF Rank
    <3>4. IsNewest(mem[o].val.StackBegin, below)
      BY <3>2 DEF Inv, FrameChain
    <3>5. \A p \in below, q \in SavedFrames : q < p => q \in below
      <4> SUFFICES ASSUME NEW p \in below, NEW q \in SavedFrames, q < p PROVE q < o
        OBVIOUS
      <4>1. p \in SavedFrames /\ p < o /\ \A r \in SavedFrames : r \in Int
        BY <1>1
      <4> HIDE DEF o, below
      <4>2. p \in Int /\ q \in Int /\ o \in Int
        BY <3>2, <4>1
      <4> QED BY <4>1, <4>2
    <3> HIDE DEF o, below
    <3>6. IF d = 0 THEN mem[o].val.StackBegin = 0 ELSE mem[o].val.StackBegin = PlaceIn(below, d - 1)
      <4>1. IF Cardinality(below) = 0 THEN mem[o].val.StackBegin = 0
            ELSE mem[o].val.StackBegin = PlaceIn(below, Cardinality(below) - 1)
        BY <1>1, <3>3, <3>4, PlaceNewest
      <4> QED BY <3>3, <4>1
    <3>7. d # 0 => d - 1 \in 0 .. Cardinality(below) - 1
      BY <1>1, <3>1, <3>3
    <3>8. \A e \in 0 .. Cardinality(below) - 1 : PlaceIn(SavedFrames, e) = PlaceIn(below, e)
      BY <1>1, <3>3, <3>5, PlacePrefix
    <3> QED BY <3>2, <3>6, <3>7, <3>8, SavedAtPlace
  <2> QED BY <2>1, <2>2
<1>7. ASSUME NEW d \in 0 .. depth PROVE FrameOf(d).StackBegin = 0 <=> d = 0
  <2>1. d # 0 => d - 1 \in 0 .. C - 1
    BY <1>1
  <2>2. d # 0 => SavedAt(d - 1) # 0
    BY <1>1, <1>2, <2>1
  <2> QED BY <1>6, <2>2
<1>8. ASSUME NEW d \in 0 .. depth - 1 PROVE FrameOf(d + 1).StackBegin = SavedAt(d)
  <2>1. d + 1 \in 0 .. depth /\ d + 1 # 0 /\ d + 1 - 1 = d
    BY <1>1
  <2> QED BY <1>6, <2>1
<1> QED BY <1>1, <1>2, <1>3, <1>4, <1>5, <1>7, <1>8

\* A walk meets no saved frame.
LEMMA WalkMeetsNoFrame ==
  ASSUME NestedIn(mem, used), used \in Nat, NEW base \in Nat, base <= used, NEW n \in Nat,
         NEW walk \in Walks(ObjectSize, base, n)
  PROVE  \A o \in walk[n] + 1 .. base : mem[o].shape # NoneType
<1> TAKE o \in walk[n] + 1 .. base
<1>1. walk \in [0 .. n -> 0 .. base] /\ n \in 0 .. n
  BY WalkDown, SMTT(30)
<1>2. \A q \in walk[n] + 1 .. base : \E k \in 1 .. n : walk[k] < q /\ q <= walk[k - 1]
  BY <1>1, WalkDown
<1>3. PICK k \in 1 .. n : walk[k] < o /\ o <= walk[k - 1]
  BY <1>2
<1> DEFINE w == walk[k - 1]
<1>4. w \in 0 .. base /\ w > 0 /\ IsObject(mem[w]) /\ walk[k] = w - SizeOf(mem[w])
  <2>1. k - 1 \in 0 .. n
    OBVIOUS
  <2>2. \A j \in 1 .. n : walk[j - 1] > 0 /\ IsObject(mem[walk[j - 1]])
                             /\ walk[j] = walk[j - 1] - SizeOf(mem[walk[j - 1]])
    BY WalkDown, SMTT(30)
  <2>3. walk[k - 1] \in 0 .. base
    BY <1>1, <2>1
  <2> QED BY <2>2, <2>3
<1>5. walk[n] \in 0 .. base
  BY <1>1
<1> HIDE DEF w
<1>6. w \in 1 .. used /\ SizeOf(mem[w]) \in Nat
  BY <1>4, SizeFacts
<1>7. \A q \in w - SizeOf(mem[w]) + 1 .. w - 1 : mem[q].shape # NoneType
  BY <1>6 DEF NestedIn
<1>8. CASE o = w
  BY <1>4, <1>8, ProgramAssumption DEF IsObject
<1>9. CASE o # w
  <2>1. o \in w - SizeOf(mem[w]) + 1 .. w - 1
    BY <1>3, <1>4, <1>5, <1>6, <1>9 DEF w
  <2> QED BY <1>7, <2>1
<1> QED BY <1>8, <1>9

\* The walk over the arguments of any active function ends where its part begins.
LEMMA Begins ==
  ASSUME Inv, Isolated, NEW d \in 1 .. depth
  PROVE  \E walk \in Walks(ObjectSize, FrameOf(d).StackBegin - 1, Args(FrameOf(d))) :
           /\ Begin(d) = walk[Args(FrameOf(d))]
           /\ Begin(d) \in 0 .. FrameOf(d).StackBegin - 1
           /\ \A j \in 1 .. Args(FrameOf(d)) : locals[FrameOf(d).VariableBegin + j] = walk[j - 1]
           /\ \A i \in 1 .. FrameOf(d).VariableBegin : locals[i] <= Begin(d)
           /\ \A o \in Begin(d) + 1 .. FrameOf(d).StackBegin - 1 : mem[o].shape # NoneType
<1> DEFINE f == FrameOf(d)
           n == Args(f)
           begin == f.StackBegin
<1>1. d \in 0 .. depth /\ d # 0 /\ depth \in Nat
  BY Chain
<1>2. f \in ActiveFrames /\ f.StackBegin # 0
  BY <1>1, Chain
<1>3. begin \in 1 .. used /\ n \in Nat /\ n = Arity[f.Function] /\ used \in Nat /\ f.VariableBegin \in Nat
  BY <1>2, FrameFacts, InvStack
<1>4. PICK walk \in Walks(ObjectSize, begin - 1, n) :
        /\ \A j \in 1 .. n : locals[f.VariableBegin + j] = walk[j - 1]
        /\ \A i \in 1 .. f.VariableBegin : locals[i] <= walk[n]
  <2>1. ArgumentsHeld(f) /\ f.StackBegin > 0
    BY <1>2, <1>3 DEF Isolated, FramesApart
  <2> HIDE DEF f
  <2> QED BY <2>1 DEF ArgumentsHeld
<1>5. Begin(d) = IF n = 0 THEN begin - 1 ELSE locals[f.VariableBegin + n] - SizeOf(mem[locals[f.VariableBegin + n]])
  <2>1. Begin(d) = IF Arity[f.Function] = 0 THEN begin - 1
                   ELSE locals[f.VariableBegin + Arity[f.Function]] - SizeOf(mem[locals[f.VariableBegin + Arity[f.Function]]])
    BY <1>1 DEF Begin
  <2> QED BY <1>3, <2>1
<1> HIDE DEF f, n, begin
<1>6. begin - 1 \in Nat
  BY <1>3
<1>7. walk \in [0 .. n -> 0 .. begin - 1] /\ walk[0] = begin - 1
  BY <1>3, <1>6, WalkDown
<1>8. n > 0 => walk[n] = walk[n - 1] - SizeOf(mem[walk[n - 1]])
  <2>1. n > 0 => n \in 1 .. n
    BY <1>3
  <2> QED BY <1>3, <1>6, <2>1, WalkDown, SMTT(30)
<1>9. n > 0 => locals[f.VariableBegin + n] = walk[n - 1]
  <2>1. n > 0 => n \in 1 .. n
    BY <1>3
  <2> QED BY <1>4, <2>1
<1>10. Begin(d) = walk[n]
  BY <1>3, <1>5, <1>7, <1>8, <1>9
<1>11. walk[n] \in 0 .. begin - 1
  BY <1>3, <1>7
<1>12. \A o \in walk[n] + 1 .. begin - 1 : mem[o].shape # NoneType
  <2>1. begin - 1 <= used
    BY <1>3
  <2> QED BY <1>3, <1>6, <2>1, WalkMeetsNoFrame DEF Inv, ObjectsNested
<1> QED BY <1>4, <1>10, <1>11, <1>12 DEF f, n, begin

\* Where the locals of an activation end.
Last(d) == IF d = depth THEN Len(locals) ELSE FrameOf(d + 1).VariableBegin

\* The activation at depth d, with what it is read from.
Part(m, l, d, f, begin, end, last) ==
  [function |-> f.Function,
   next     |-> f.Caller,
   objects  |-> IF d = 0 THEN ObjectsIn(m, f.StackBegin, end)
                ELSE ObjectsIn(m, begin, f.StackBegin - 1) \o ObjectsIn(m, f.StackBegin, end),
   locals   |-> [i \in 1 .. last - f.VariableBegin |-> l[f.VariableBegin + i] - begin]]

\* An activation before a step, and after it.
LEMMA ActivationPart ==
  \A d : Activation(d) = Part(mem, locals, d, FrameOf(d), Begin(d), End(d), Last(d))
BY ObjectsOfStack, Zenon DEF Activation, Part, Last

\* The same, in the state after a step.
LEMMA ActivationNext ==
  ASSUME NEW d
  PROVE  Activation(d)' = Part(mem', locals', d, FrameOf(d)', Begin(d)', End(d)', Last(d)')
BY Zenon DEF Activation, Part, Last, ObjectsBetween, ObjectsIn, ObjectAt, ObjectIn

\* The part of an activation lies below those of the activations above it.
LEMMA Layers ==
  ASSUME Inv, Isolated
  PROVE  /\ \A d \in 0 .. depth :
              /\ FrameOf(d).StackBegin \in 0 .. used /\ FrameOf(d).VariableBegin \in Nat
              /\ Args(FrameOf(d)) \in Nat /\ First(FrameOf(d)) <= Len(locals)
              /\ Begin(d) \in 0 .. FrameOf(d).StackBegin
              /\ d # 0 => Begin(d) <= FrameOf(d).StackBegin - 1
         /\ \A d, e \in 0 .. depth : d < e =>
              /\ FrameOf(d).StackBegin < FrameOf(e).StackBegin
              /\ FrameOf(d).StackBegin <= Begin(e)
              /\ First(FrameOf(d)) <= FrameOf(e).VariableBegin
<1>1. ASSUME NEW d \in 0 .. depth
      PROVE  /\ FrameOf(d) \in ActiveFrames
             /\ FrameOf(d).StackBegin \in 0 .. used /\ FrameOf(d).VariableBegin \in Nat
             /\ Args(FrameOf(d)) \in Nat /\ First(FrameOf(d)) <= Len(locals) /\ First(FrameOf(d)) \in Nat
  <2>1. FrameOf(d) \in ActiveFrames
    BY Chain
  <2>2. First(FrameOf(d)) <= Len(locals)
    BY <2>1 DEF Isolated, FramesApart
  <2> QED BY <2>1, <2>2, FrameFacts
<1>2. ASSUME NEW d \in 0 .. depth
      PROVE  /\ Begin(d) \in 0 .. FrameOf(d).StackBegin
             /\ d # 0 => Begin(d) <= FrameOf(d).StackBegin - 1
  <2>1. CASE d = 0
    <3>1. Begin(d) = 0 /\ FrameOf(d).StackBegin \in Nat
      BY <1>1, <2>1 DEF Begin
    <3> QED BY <2>1, <3>1
  <2>2. CASE d # 0
    <3>1. d \in 1 .. depth
      BY <2>2
    <3>2. Begin(d) \in 0 .. FrameOf(d).StackBegin - 1
      BY <3>1, Begins
    <3> QED BY <1>1, <3>2
  <2> QED BY <2>1, <2>2
<1>3. ASSUME NEW d \in 0 .. depth, NEW e \in 0 .. depth, d < e
      PROVE  /\ FrameOf(d).StackBegin < FrameOf(e).StackBegin
             /\ FrameOf(d).StackBegin <= Begin(e)
             /\ First(FrameOf(d)) <= FrameOf(e).VariableBegin
  <2> DEFINE f == FrameOf(d)
             g == FrameOf(e)
  <2>1. e \in 1 .. depth /\ depth \in Nat /\ e # 0
    BY <1>3, Chain
  <2>2. f.StackBegin \in 0 .. used /\ g.StackBegin \in 0 .. used /\ f \in ActiveFrames /\ g \in ActiveFrames
    BY <1>1
  <2>3. f.StackBegin < g.StackBegin
    <3>1. g.StackBegin # 0 /\ (d = 0 => f.StackBegin = 0)
      BY <2>1, Chain
    <3>2. d # 0 => f.StackBegin = SavedAt(d - 1)
      <4>1. d # 0 => d - 1 \in 0 .. depth - 1 /\ d - 1 + 1 = d
        BY <2>1
      <4> QED BY <4>1, Chain
    <3>3. g.StackBegin = SavedAt(e - 1)
      <4>1. e - 1 \in 0 .. depth - 1 /\ e - 1 + 1 = e
        BY <2>1
      <4> QED BY <4>1, Chain
    <3>4. d # 0 => SavedAt(d - 1) < SavedAt(e - 1)
      <4>1. d # 0 => d - 1 \in 0 .. depth - 1 /\ e - 1 \in 0 .. depth - 1 /\ d - 1 < e - 1
        BY <1>3, <2>1
      <4> QED BY <4>1, Chain
    <3> HIDE DEF f, g
    <3> QED BY <2>2, <3>1, <3>2, <3>3, <3>4
  <2>4. \A o \in Begin(e) + 1 .. g.StackBegin - 1 : mem[o].shape # NoneType
    BY <2>1, Begins
  <2>5. f.StackBegin = 0 \/ mem[f.StackBegin].shape = NoneType
    BY <2>2, FrameFacts DEF SavedFrames
  <2>6. Begin(e) \in 0 .. g.StackBegin
    BY <1>2
  <2>7. First(f) <= g.VariableBegin
    BY <2>2, <2>3 DEF Isolated, FramesApart
  <2> HIDE DEF f, g
  <2>8. f.StackBegin <= Begin(e)
    BY <2>2, <2>3, <2>4, <2>5, <2>6
  <2> QED BY <2>3, <2>7, <2>8 DEF f, g
<1> QED BY <1>1, <1>2, <1>3

\* The last argument of an active function lies below its frame.
LEMMA LastArgument ==
  ASSUME Inv, Isolated, NEW d \in 1 .. depth, Args(FrameOf(d)) > 0
  PROVE  locals[First(FrameOf(d))] \in 0 .. FrameOf(d).StackBegin - 1
<1> DEFINE f == FrameOf(d)
           n == Args(f)
<1>1. PICK walk \in Walks(ObjectSize, f.StackBegin - 1, n) : \A j \in 1 .. n : locals[f.VariableBegin + j] = walk[j - 1]
  BY Begins
<1>2. f.StackBegin \in Nat \ {0} /\ n \in Nat
  <2>1. d \in 0 .. depth /\ d # 0
    OBVIOUS
  <2> QED BY <2>1, Chain, Layers
<1> HIDE DEF f
<1>3. n \in 1 .. n /\ n - 1 \in 0 .. n /\ f.StackBegin - 1 \in Nat
  BY <1>2 DEF f
<1>4. walk \in [0 .. n -> 0 .. f.StackBegin - 1]
  BY <1>2, <1>3, WalkDown
<1>5. locals[f.VariableBegin + n] = walk[n - 1]
  BY <1>1, <1>3
<1> QED BY <1>3, <1>4, <1>5 DEF f, First

\* What leaves the frame of an activation and its last argument leaves its begin.
LEMMA BeginKept ==
  ASSUME Inv, NEW d \in 0 .. depth,
         FrameOf(d)'.StackBegin = FrameOf(d).StackBegin,
         FrameOf(d)'.VariableBegin = FrameOf(d).VariableBegin,
         FrameOf(d)'.Function = FrameOf(d).Function,
         Args(FrameOf(d)) > 0 =>
           /\ locals'[First(FrameOf(d))] = locals[First(FrameOf(d))]
           /\ SizeOf(mem'[locals[First(FrameOf(d))]]) = SizeOf(mem[locals[First(FrameOf(d))]])
  PROVE  Begin(d)' = Begin(d)
<1>1. CASE d = 0
  BY <1>1 DEF Begin
<1>2. CASE d # 0
  <2> DEFINE f == FrameOf(d)
             n == Arity[f.Function]
             last == locals[f.VariableBegin + n]
  <2>1. f \in ActiveFrames /\ f.StackBegin > 0
    <3>1. f \in ActiveFrames /\ f.StackBegin # 0
      BY <1>2, Chain
    <3> QED BY <3>1, FrameFacts
  <2>2. n = Args(f) /\ n \in Nat /\ First(f) = f.VariableBegin + n
    BY <2>1, FrameFacts DEF First
  <2>3. Begin(d) = IF n = 0 THEN f.StackBegin - 1 ELSE last - SizeOf(mem[last])
    BY <1>2 DEF Begin
  <2>4. Begin(d)' = IF Arity[FrameOf(d)'.Function] = 0 THEN FrameOf(d)'.StackBegin - 1
                    ELSE locals'[FrameOf(d)'.VariableBegin + Arity[FrameOf(d)'.Function]]
                         - SizeOf(mem'[locals'[FrameOf(d)'.VariableBegin + Arity[FrameOf(d)'.Function]]])
    BY <1>2 DEF Begin, SizeOf, IsObject
  <2>5. Begin(d)' = IF n = 0 THEN f.StackBegin - 1
                    ELSE locals'[f.VariableBegin + n] - SizeOf(mem'[locals'[f.VariableBegin + n]])
    BY <2>4
  <2>6. n > 0 => locals'[f.VariableBegin + n] = last /\ SizeOf(mem'[last]) = SizeOf(mem[last])
    BY <2>2
  <2> HIDE DEF f, n, last
  <2> QED BY <2>2, <2>3, <2>5, <2>6
<1> QED BY <1>1, <1>2

\* What leaves the frames, objects and locals below an activation leaves the
\* activations there.
LEMMA LowerKept ==
  ASSUME Inv, Isolated, NEW e \in 1 .. depth, depth' \in Nat, e <= depth',
         \A d \in 0 .. e - 1 : FrameOf(d)' = FrameOf(d),
         FrameOf(e)'.VariableBegin = FrameOf(e).VariableBegin,
         Begin(e)' = Begin(e),
         \A o \in 1 .. Begin(e) : mem'[o] = mem[o],
         \A i \in 1 .. FrameOf(e).VariableBegin : locals'[i] = locals[i]
  PROVE  \A d \in 0 .. e - 1 : Activation(d)' = Activation(d)
<1>1. depth \in Nat /\ e \in 0 .. depth /\ \A d \in 0 .. e - 1 : d \in 0 .. depth /\ d < e
  BY Chain
<1>2. ASSUME NEW d \in 0 .. e - 1 PROVE Begin(d)' = Begin(d)
  <2> DEFINE f == FrameOf(d)
             last == locals[First(f)]
  <2>1. d \in 0 .. depth /\ d < e
    BY <1>1
  <2>2. Args(f) > 0 => last \in 1 .. Begin(e)
    <3>1. CASE d = 0
      BY <2>1, <3>1, Chain DEF Args
    <3>2. CASE d # 0
      <4>1. d \in 1 .. depth /\ Args(f) \in Nat /\ f.StackBegin \in Nat
        BY <2>1, <3>2, Layers
      <4>2. f.StackBegin <= Begin(e) /\ Begin(e) \in Nat
        BY <1>1, <2>1, Layers
      <4>3. Args(f) > 0 => last \in 0 .. f.StackBegin - 1
        BY <4>1, LastArgument
      <4>4. Args(f) > 0 => last \in 1 .. used
        <5>1. f \in ActiveFrames
          BY <2>1, Chain
        <5>2. First(f) <= Len(locals) /\ First(f) = f.VariableBegin + Args(f) /\ f.VariableBegin \in Nat
          BY <5>1, FrameFacts DEF Isolated, FramesApart, First
        <5>3. Args(f) > 0 => First(f) \in 1 .. Len(locals)
          BY <4>1, <5>2, LocalsTyped
        <5> QED BY <5>3, LocalsTyped, InvStack DEF Isolated, LocalsApart
      <4> HIDE DEF f, last
      <4> QED BY <4>1, <4>2, <4>3, <4>4
    <3> QED BY <3>1, <3>2
  <2>3. Args(f) > 0 => First(f) \in 1 .. FrameOf(e).VariableBegin
    <3>1. First(f) <= FrameOf(e).VariableBegin /\ FrameOf(e).VariableBegin \in Nat
      BY <1>1, <2>1, Layers
    <3>2. Args(f) \in Nat /\ f.VariableBegin \in Nat /\ First(f) = f.VariableBegin + Args(f)
      BY <2>1, Layers DEF First
    <3> HIDE DEF f
    <3> QED BY <3>1, <3>2
  <2>4. Args(f) > 0 => locals'[First(f)] = last /\ mem'[last] = mem[last]
    BY <2>2, <2>3
  <2>5. FrameOf(d)' = f
    OBVIOUS
  <2> QED BY <2>1, <2>4, <2>5, BeginKept
<1> SUFFICES ASSUME NEW d \in 0 .. e - 1 PROVE Activation(d)' = Activation(d)
  OBVIOUS
<1>3. d # depth /\ d # depth' /\ d + 1 \in 1 .. e /\ d \in 0 .. depth /\ d + 1 \in 0 .. depth /\ d < d + 1 /\ d \in Nat
  BY <1>1
<1>4. Begin(d + 1)' = Begin(d + 1) /\ FrameOf(d + 1)'.VariableBegin = FrameOf(d + 1).VariableBegin
  <2>1. CASE d + 1 = e
    BY <2>1
  <2>2. CASE d + 1 # e
    <3>1. d + 1 \in 0 .. e - 1
      BY <1>3, <2>2
    <3> QED BY <1>2, <3>1
  <2> QED BY <2>1, <2>2
<1> DEFINE f == FrameOf(d)
           begin == Begin(d)
           end == Begin(d + 1)
           last == FrameOf(d + 1).VariableBegin
<1>5. End(d) = end /\ End(d)' = end /\ Last(d) = last /\ Last(d)' = last
  BY <1>3, <1>4 DEF End, Last
<1>6. Activation(d)' = Part(mem', locals', d, f, begin, end, last)
  <2>1. Activation(d)' = Part(mem', locals', d, FrameOf(d)', Begin(d)', End(d)', Last(d)')
    BY ActivationNext
  <2> QED BY <1>2, <1>5, <2>1
<1>7. Activation(d) = Part(mem, locals, d, f, begin, end, last)
  BY <1>5, ActivationPart
<1>8. /\ f.StackBegin \in Nat /\ f.VariableBegin \in Nat /\ begin \in Nat
      /\ d # 0 => begin <= f.StackBegin - 1
  BY <1>3, Layers
<1>9. f.StackBegin <= end /\ end \in Nat /\ last \in Nat /\ Begin(e) \in Nat /\ FrameOf(e).VariableBegin \in Nat
  BY <1>1, <1>3, Layers
<1>10. end <= Begin(e) /\ last <= FrameOf(e).VariableBegin
  <2>1. CASE d + 1 = e
    BY <1>9, <2>1
  <2>2. CASE d + 1 # e
    <3>1. d + 1 < e /\ d + 1 \in 0 .. depth
      BY <1>3, <2>2
    <3>2. FrameOf(d + 1).StackBegin <= Begin(e) /\ First(FrameOf(d + 1)) <= FrameOf(e).VariableBegin
      BY <1>1, <3>1, Layers
    <3>3. /\ end \in 0 .. FrameOf(d + 1).StackBegin /\ Args(FrameOf(d + 1)) \in Nat
          /\ FrameOf(d + 1).StackBegin \in Nat
      BY <3>1, Layers
    <3>4. First(FrameOf(d + 1)) = last + Args(FrameOf(d + 1))
      BY DEF First
    <3> HIDE DEF end, last
    <3> QED BY <1>9, <3>2, <3>3, <3>4
  <2> QED BY <2>1, <2>2
<1>11. (\A o \in 1 .. end : mem'[o] = mem[o]) /\ (\A i \in 1 .. last : locals'[i] = locals[i])
  <2> HIDE DEF end, last
  <2> QED BY <1>9, <1>10
<1> HIDE DEF f, begin, end, last
<1>12. ObjectsIn(mem', f.StackBegin, end) = ObjectsIn(mem, f.StackBegin, end)
  <2> DEFINE low == f.StackBegin
  <2>1. low \in Nat /\ end \in Nat /\ low <= end
    BY <1>8, <1>9
  <2>2. \A o \in low + 1 .. end : mem'[o] = mem[o]
    BY <1>8, <1>9, <1>11
  <2> HIDE DEF low
  <2>3. ObjectsIn(mem', low, end) = ObjectsIn(mem, low, end)
    BY <2>1, <2>2, ObjectsSame
  <2> QED BY <2>3 DEF low
<1>13. d # 0 => ObjectsIn(mem', begin, f.StackBegin - 1) = ObjectsIn(mem, begin, f.StackBegin - 1)
  <2> SUFFICES ASSUME d # 0 PROVE ObjectsIn(mem', begin, f.StackBegin - 1) = ObjectsIn(mem, begin, f.StackBegin - 1)
    OBVIOUS
  <2> DEFINE top == f.StackBegin - 1
  <2>1. top \in Nat /\ begin \in Nat /\ begin <= top
    BY <1>8
  <2>2. \A o \in begin + 1 .. top : mem'[o] = mem[o]
    BY <1>8, <1>9, <1>11
  <2> HIDE DEF top
  <2>3. ObjectsIn(mem', begin, top) = ObjectsIn(mem, begin, top)
    BY <2>1, <2>2, ObjectsSame
  <2> QED BY <2>3 DEF top
<1>14. [i \in 1 .. last - f.VariableBegin |-> locals'[f.VariableBegin + i] - begin] =
       [i \in 1 .. last - f.VariableBegin |-> locals[f.VariableBegin + i] - begin]
  <2>1. \A i \in 1 .. last - f.VariableBegin : locals'[f.VariableBegin + i] = locals[f.VariableBegin + i]
    BY <1>8, <1>9, <1>11
  <2> QED BY <2>1
<1> QED BY <1>6, <1>7, <1>12, <1>13, <1>14, Zenon DEF Part

-----------------------------------------------------------------------------
(* Steps that leave the activations below the newest *)

\* As long as the program runs, only call and ret change more of the frame than the
\* place in the code.
LEMMA KindsOfStep ==
  ASSUME Inv, [Next]_vars, status' = "running"
  PROVE  \/ depth' = depth /\ SameFrame
         \/ \E function \in Functions : InterpretCall /\ CallFunction(function)
         \/ depth' < depth
<1> DEFINE Stays == depth' = depth /\ SameFrame
<1>1. ~Crash /\ (\A code : ~OccurException(code)) /\ \A function, index, code : ~Occur(function, index, code)
  BY DEF Crash, OccurException, Occur
<1>2. Advance => Stays
  BY AdvanceSame DEF Advance
<1>3. \A index : frame' = [frame EXCEPT !.Caller = index] /\ depth' = depth => Stays
  BY JumpSame
<1>4. UNCHANGED <<frame, depth>> => Stays
  BY DEF SameFrame
<1> HIDE DEF Stays
<1>5. InterpretPush \/ InterpretAPush \/ InterpretPop \/ (\E operand \in Operands : InterpretLoad(operand))
        \/ InterpretCopy \/ InterpretSwap \/ Unhandled => Stays
  BY <1>1, <1>2 DEF InterpretPush, InterpretAPush, InterpretPop, InterpretLoad, InterpretCopy, InterpretSwap,
     Unhandled, PushAny, CountOnTop, ReplaceTop
<1>6. (\E operand \in Operands : InterpretStore(operand)) => Stays
  BY <1>1, <1>2 DEF InterpretStore, StoreNew, StoreOver
<1>7. InterpretOperation \/ InterpretDiv \/ InterpretCmp \/ InterpretNeg \/ TypeCast => Stays
  BY <1>1, <1>2 DEF InterpretOperation, InterpretDiv, InterpretCmp, InterpretNeg, TypeCast, NumberOnTop,
     ScalarOnTop, PopTwoSameType, Yield, OccurAndPop
<1>8. InterpretJmp \/ JumpCondition => Stays
  <2>1. CASE InterpretJmp
    BY <1>3, <2>1 DEF InterpretJmp
  <2>2. CASE JumpCondition
    BY <1>1, <1>2, <1>3, <2>2 DEF JumpCondition
  <2> QED BY <2>1, <2>2
<1>9. InterpretCall => Stays \/ \E function \in Functions : InterpretCall /\ CallFunction(function)
  <2> SUFFICES ASSUME InterpretCall
               PROVE  Stays \/ \E function \in Functions : InterpretCall /\ CallFunction(function)
    OBVIOUS
  <2>1. PICK function \in Callables : CallFunction(function) \/ CallNative(function)
    BY <1>1 DEF InterpretCall, CallFails
  <2>2. CASE CallFunction(function)
    BY <2>2 DEF CallFunction
  <2>3. CASE CallNative(function)
    BY <1>1, <1>2, <2>3 DEF CallNative, NativeFails
  <2> QED BY <2>1, <2>2, <2>3
<1>10. InterpretRet => Stays \/ depth' < depth
  <2> SUFFICES ASSUME InterpretRet PROVE Stays \/ depth' < depth
    OBVIOUS
  <2>1. CASE depth = 0
    BY <1>3, <2>1 DEF InterpretRet
  <2>2. CASE depth # 0
    <3>1. depth' = depth - 1 /\ depth \in Nat
      BY <1>1, <2>2 DEF InterpretRet, Inv, TypeOK
    <3> QED BY <3>1
  <2> QED BY <2>1, <2>2
<1>11. UnknownOperand \/ FallOff \/ Stopped \/ UNCHANGED vars => Stays
  BY <1>1, <1>4 DEF UnknownOperand, FallOff, Stopped, vars
<1>12. MemoryInstruction => Stays
  <2>1. MemoryEffect => Stays
    BY <1>1, <1>2 DEF MemoryEffect, PushAny, Yield, OccurAndPop, ReplaceTop
  <2> QED BY <1>1, <2>1, MemoryEffects
<1> QED BY <1>5, <1>6, <1>7, <1>8, <1>9, <1>10, <1>11, <1>12 DEF Next, MemoryInstruction, Stays

\* In such a step the arguments stay locals.
LEMMA ArgumentsStayLocals ==
  ASSUME Inv, Inv', Isolated, Isolated', [Next]_vars, status' = "running", depth' = depth, SameFrame
  PROVE  \A i \in 1 .. First(frame) : locals'[i] = locals[i]
<1>1. First(frame) <= Len(locals') /\ First(frame) \in Nat
  <2>1. First(frame) \in Nat
    BY FrameFacts
  <2>2. First(frame') = First(frame)
    BY DEF First, Args, SameFrame
  <2>3. First(frame') <= Len(locals')
    BY DEF Isolated, FramesApart, ActiveFrames, First, Args
  <2> QED BY <2>1, <2>2, <2>3
<1>2. Len(locals) \in Nat /\ locals \in Seq(1 .. StackSize)
  BY InvStack
<1>3. CASE locals' = locals
  BY <1>3
<1>4. CASE \E n \in 0 .. Len(locals) : locals' = SubSeq(locals, 1, n)
  <2>1. PICK n \in 0 .. Len(locals) : locals' = SubSeq(locals, 1, n)
    BY <1>4
  <2>2. Len(locals') = n /\ \A i \in 1 .. n : locals'[i] = locals[i]
    BY <1>2, <2>1, FrontFacts
  <2> QED BY <1>1, <2>2
<1>5. CASE \E operand \in Operands : StoreNew(operand) /\ locals' = Append(locals, used)
  <2>1. First(frame) <= Len(locals)
    BY DEF Isolated, FramesApart, ActiveFrames
  <2> QED BY <1>1, <1>2, <1>5, <2>1
<1>6. ~ \E function \in Functions : CallFunction(function)
  <2>1. depth' # depth + 1
    BY DEF Inv, TypeOK
  <2> QED BY <2>1 DEF CallFunction, Enter
<1> QED BY <1>3, <1>4, <1>5, <1>6, LocalsOfStep

\* The places of the saved frames after a step.
LEMMA SavedAtNext ==
  ASSUME NEW d
  PROVE  SavedAt(d)' = PlaceIn(SavedFrames', d)
BY Zenon DEF SavedAt, PlaceIn, Rank, SavedFrames

\* Where the arguments end, the part of the newest activation begins.
LEMMA NewestBegins ==
  ASSUME Inv, depth > 0
  PROVE  Begin(depth) = ArgumentsEnd
<1>1. FrameOf(depth) = frame /\ depth # 0
  BY Chain
<1> QED BY <1>1 DEF Begin, ArgumentsEnd

\* The saved frames lie below the arguments of the newest function, but for the last.
LEMMA SavedBelow ==
  ASSUME Inv, Isolated, depth > 0
  PROVE  /\ frame.StackBegin \in SavedFrames /\ frame.StackBegin \in Nat \ {0}
         /\ ArgumentsEnd \in 0 .. frame.StackBegin - 1
         /\ \A o \in SavedFrames : o = frame.StackBegin \/ o \in 1 .. ArgumentsEnd
<1>1. depth \in 1 .. depth /\ depth \in Nat /\ FrameOf(depth) = frame
  BY Chain
<1>2. ArgumentsEnd \in 0 .. frame.StackBegin - 1 /\ \A o \in ArgumentsEnd + 1 .. frame.StackBegin - 1 : mem[o].shape # NoneType
  BY <1>1, Begins, NewestBegins
<1>3. frame.StackBegin \in 1 .. used /\ frame.StackBegin \in SavedFrames
  BY CallersBelow DEF SavedFrames
<1>4. \A o \in SavedFrames : o \in 1 .. used /\ mem[o].shape = NoneType /\ o <= frame.StackBegin
  BY FrameFacts
<1>5. used \in Nat
  BY InvStack
<1> QED BY <1>2, <1>3, <1>4, <1>5

\* A step that leaves the caller and the frame leaves every activation but the newest.
LEMMA WorkKept ==
  ASSUME Inv, Inv', Isolated, depth > 0, depth' = depth, SameFrame, CallerKept,
         \A i \in 1 .. First(frame) : locals'[i] = locals[i]
  PROVE  \A d \in 0 .. depth - 1 : Activation(d)' = Activation(d)
<1> DEFINE begin == frame.StackBegin
<1>1. depth \in Nat /\ depth \in 1 .. depth /\ FrameOf(depth) = frame /\ Begin(depth) = ArgumentsEnd
  BY Chain, NewestBegins
<1>2. begin \in SavedFrames /\ begin \in Nat \ {0} /\ ArgumentsEnd \in 0 .. begin - 1
  BY SavedBelow
<1>3. \A o \in SavedFrames : o \in Nat /\ o > 0 /\ o <= begin /\ mem[o].shape = NoneType /\ mem'[o] = mem[o]
  <2>1. mem'[begin] = mem[begin] /\ \A o \in 1 .. ArgumentsEnd : mem'[o] = mem[o]
    BY <1>2 DEF CallerKept, SameFrame
  <2>2. \A o \in SavedFrames : o = begin \/ o \in 1 .. ArgumentsEnd
    BY SavedBelow
  <2>3. \A o \in SavedFrames : mem[o].shape = NoneType
    BY DEF SavedFrames
  <2> HIDE DEF begin
  <2> TAKE o \in SavedFrames
  <2>4. CASE o = begin
    BY <1>2, <2>1, <2>3, <2>4
  <2>5. CASE o \in 1 .. ArgumentsEnd
    <3>1. mem'[o] = mem[o]
      BY <2>1, <2>5
    <3>2. o \in Nat /\ o > 0 /\ o <= begin
      BY <1>2, <2>5
    <3> QED BY <2>3, <3>1, <3>2
  <2> QED BY <2>2, <2>4, <2>5
<1>4. SavedFrames' = SavedFrames
  <2>1. begin \in SavedFrames' /\ used' \in Nat
    <3>1. IsNewest(begin, SavedFrames')
      BY DEF Inv, FrameChain, IsNewest, SameFrame
    <3>2. used' \in Nat
      BY ProgramAssumption DEF Inv, TypeOK
    <3> QED BY <1>2, <3>1, <3>2 DEF IsNewest
  <2>2. SavedFrames' = {o \in 1 .. used' : mem'[o].shape = NoneType}
    BY DEF SavedFrames
  <2> HIDE DEF begin
  <2>3. SavedFrames \in SUBSET (SavedFrames')
    <3>1. begin <= used'
      BY <2>1, <2>2
    <3> QED BY <1>2, <1>3, <2>1, <2>2, <3>1
  <2>4. IsFiniteSet(SavedFrames')
    <3>1. SavedFrames' \in SUBSET (1 .. used')
      BY <2>2
    <3> QED BY <2>1, <3>1, RankFacts
  <2>5. Cardinality(SavedFrames') = Cardinality(SavedFrames)
    <3>1. depth' = Cardinality(SavedFrames')
      BY DEF Inv, FrameChain
    <3>2. depth = Cardinality(SavedFrames)
      BY DEF Inv, FrameChain
    <3> QED BY <3>1, <3>2
  <2> QED BY <2>3, <2>4, <2>5, FS_Subset
<1>5. ASSUME NEW d \in 0 .. depth - 1 PROVE FrameOf(d)' = FrameOf(d)
  <2>1. SavedAt(d)' = SavedAt(d)
    BY <1>4, SavedAtNext, SavedAtPlace
  <2>2. SavedAt(d) \in SavedFrames /\ FrameOf(d) = mem[SavedAt(d)].val
    BY Chain
  <2>3. FrameOf(d)' = mem'[SavedAt(d)'].val
    BY <1>1 DEF FrameOf
  <2> QED BY <1>3, <2>1, <2>2, <2>3
<1>6. FrameOf(depth)' = frame'
  BY DEF FrameOf
<1>7. Begin(depth)' = Begin(depth)
  <2>1. Args(frame) > 0 => First(frame) \in 1 .. First(frame) /\ First(frame) \in frame.VariableBegin + 1 .. First(frame)
    <3>1. Args(frame) \in Nat /\ frame.VariableBegin \in Nat /\ First(frame) = frame.VariableBegin + Args(frame)
      BY FrameFacts DEF First
    <3> QED BY <3>1
  <2>2. ArgumentsSized
    BY <1>2 DEF CallerKept, SameFrame
  <2>3. Args(frame) > 0 =>
          /\ locals'[First(frame)] = locals[First(frame)]
          /\ SizeOf(mem'[locals[First(frame)]]) = SizeOf(mem[locals[First(frame)]])
    BY <2>1, <2>2 DEF ArgumentsSized
  <2>4. depth \in 0 .. depth
    BY <1>1
  <2> QED BY <1>1, <1>6, <2>3, <2>4, BeginKept DEF SameFrame
<1>8. \A i \in 1 .. frame.VariableBegin : locals'[i] = locals[i]
  <2>1. frame.VariableBegin \in Nat /\ Args(frame) \in Nat /\ First(frame) = frame.VariableBegin + Args(frame)
    BY FrameFacts DEF First
  <2> QED BY <2>1
<1>9. /\ FrameOf(depth)'.VariableBegin = FrameOf(depth).VariableBegin
      /\ \A o \in 1 .. Begin(depth) : mem'[o] = mem[o]
      /\ \A i \in 1 .. FrameOf(depth).VariableBegin : locals'[i] = locals[i]
  BY <1>1, <1>6, <1>8 DEF SameFrame, CallerKept
<1> QED BY <1>1, <1>5, <1>7, <1>9, LowerKept

-----------------------------------------------------------------------------
(* Calls *)

\* The callee's frame is saved above those of the callers.
LEMMA CallFrames ==
  ASSUME Inv, NEW function \in Callables, NEW walk, Enter(function, walk, 0), NEW D \in Nat, D = depth
  PROVE  /\ depth' = D + 1
         /\ \A d \in 0 .. D : FrameOf(d)' = FrameOf(d)
         /\ FrameOf(D + 1)' = frame'
<1>1. /\ used' = used + 1 /\ mem'[used + 1].shape = NoneType /\ mem'[used + 1].val = frame
      /\ \A o \in 1 .. used : mem'[o] = mem[o]
  BY EnterFrames
<1>2. depth' = D + 1 /\ used \in Nat /\ D = Cardinality(SavedFrames) /\ SavedFrames \in SUBSET (1 .. used)
  BY InvStack, SavedFramesFinite DEF Enter, Inv, FrameChain
<1>3. SavedFrames' = SavedFrames \cup {used + 1}
  <2>1. SavedFrames' = {o \in 1 .. used' : mem'[o].shape = NoneType}
    BY DEF SavedFrames
  <2> QED BY <1>1, <1>2, <2>1 DEF SavedFrames
<1> DEFINE few == SavedFrames
           all == SavedFrames'
<1>4. used + 1 \in Nat /\ few \in SUBSET (1 .. used) /\ all \in SUBSET (1 .. used + 1) /\ all = few \cup {used + 1}
  BY <1>2, <1>3
<1> HIDE DEF few, all
<1>5. \A d \in 0 .. D - 1 : PlaceIn(all, d) = PlaceIn(few, d)
  <2>1. few \in SUBSET all
    BY <1>4
  <2>2. \A p \in few, q \in all : q < p => q \in few
    <3> SUFFICES ASSUME NEW p \in few, NEW q \in all, q < p PROVE q \in few
      OBVIOUS
    <3>1. p \in 1 .. used
      BY <1>4
    <3>2. q \in 1 .. used + 1
      BY <1>4
    <3>3. q # used + 1
      BY <1>2, <3>1, <3>2
    <3> QED BY <1>4, <3>3
  <2>3. Cardinality(few) = D
    BY <1>2 DEF few
  <2>4. \A d \in 0 .. Cardinality(few) - 1 : PlaceIn(all, d) = PlaceIn(few, d)
    BY <1>4, <2>1, <2>2, PlacePrefix
  <2> QED BY <2>3, <2>4
<1>6. PlaceIn(all, D) = used + 1
  <2>1. {j \in all : j < used + 1} = few
    <3>1. \A j \in few : j < used + 1 /\ j \in all
      BY <1>2, <1>4
    <3>2. \A j \in all : j < used + 1 => j \in few
      BY <1>2, <1>4
    <3> QED BY <3>1, <3>2
  <2>2. Rank(all, used + 1) = D
    BY <1>2, <2>1 DEF Rank, few
  <2>3. used + 1 \in all
    BY <1>4
  <2>4. \A N \in Nat : all \in SUBSET (1 .. N) => \A p \in all : PlaceIn(all, Rank(all, p)) = p
    BY PlaceFacts
  <2>5. \A p \in all : PlaceIn(all, Rank(all, p)) = p
    BY <1>4, <2>4
  <2> QED BY <2>2, <2>3, <2>5
<1>7. ASSUME NEW d \in 0 .. D PROVE FrameOf(d)' = FrameOf(d)
  <2>1. FrameOf(d)' = mem'[PlaceIn(all, d)].val
    <3>1. SavedAt(d)' = PlaceIn(all, d)
      BY SavedAtNext DEF all
    <3>2. d # depth'
      BY <1>2
    <3> QED BY <3>1, <3>2 DEF FrameOf
  <2>2. CASE d = D
    BY <1>1, <1>6, <2>1, <2>2 DEF FrameOf
  <2>3. CASE d # D
    <3>1. d \in 0 .. D - 1 /\ d # depth
      BY <2>3
    <3>2. PlaceIn(all, d) = SavedAt(d)
      BY <1>5, <3>1, SavedAtPlace DEF few
    <3>3. SavedAt(d) \in 1 .. used
      BY <1>2, <3>1, Chain
    <3>4. FrameOf(d) = mem[SavedAt(d)].val
      BY <3>1 DEF FrameOf
    <3> QED BY <1>1, <2>1, <3>2, <3>3, <3>4
  <2> QED BY <2>2, <2>3
<1>8. FrameOf(D + 1)' = frame'
  BY <1>2 DEF FrameOf
<1> QED BY <1>2, <1>7, <1>8

\* A sequence of two parts.
LEMMA Parts ==
  ASSUME NEW S, NEW s \in Seq(S), NEW t \in Seq(S)
  PROVE  /\ s \o t \in Seq(S) /\ Len(s \o t) = Len(s) + Len(t)
         /\ SubSeq(s \o t, 1, Len(s \o t) - Len(t)) = s
         /\ SubSeq(s \o t, Len(s \o t) - Len(t) + 1, Len(s \o t)) = t
<1> DEFINE u == s \o t
<1>1. u \in Seq(S) /\ Len(u) = Len(s) + Len(t) /\ Len(s) \in Nat /\ Len(t) \in Nat
  BY ConcatProperties
<1>2. \A i \in 1 .. Len(s) + Len(t) : u[i] = IF i <= Len(s) THEN s[i] ELSE t[i - Len(s)]
  BY ConcatProperties
<1> HIDE DEF u
<1>3. SubSeq(u, 1, Len(s)) = s
  <2> DEFINE v == SubSeq(u, 1, Len(s))
  <2>1. v \in Seq(S) /\ Len(v) = Len(s) /\ \A i \in 1 .. Len(s) : v[i] = u[i]
    <3>1. Len(s) \in Nat /\ Len(s) <= Len(u)
      BY <1>1
    <3> QED BY <1>1, <3>1, FrontFacts
  <2> HIDE DEF v
  <2>2. \A i \in 1 .. Len(v) : v[i] = s[i]
    BY <1>1, <1>2, <2>1
  <2>3. v = s
    BY <2>1, <2>2, SeqEqual
  <2> QED BY <2>3 DEF v
<1>4. SubSeq(u, Len(s) + 1, Len(u)) = t
  <2> DEFINE m == Len(s) + 1
             n == Len(u)
             v == SubSeq(u, m, n)
  <2>1. m \in Int /\ n \in Int /\ n - m + 1 = Len(t) /\ (IF m <= n THEN n - m + 1 ELSE 0) = Len(t)
    BY <1>1
  <2>2. \A i \in m .. n : u[i] \in S
    BY <1>1
  <2> HIDE DEF m, n
  <2>3. v \in Seq(S) /\ Len(v) = (IF m <= n THEN n - m + 1 ELSE 0) /\ \A i \in 1 .. n - m + 1 : v[i] = u[m + i - 1]
    BY <2>1, <2>2, SubSeqProperties
  <2>4. \A i \in 1 .. Len(t) : v[i] = u[m + i - 1]
    BY <2>1, <2>3
  <2> HIDE DEF v
  <2>5. \A i \in 1 .. Len(t) : v[i] = t[i]
    <3> TAKE i \in 1 .. Len(t)
    <3>1. m + i - 1 = Len(s) + i
      BY <1>1 DEF m
    <3>2. u[Len(s) + i] = t[i]
      <4>1. Len(s) + i \in 1 .. Len(s) + Len(t) /\ ~(Len(s) + i <= Len(s)) /\ Len(s) + i - Len(s) = i
        BY <1>1
      <4> QED BY <1>2, <4>1
    <3> QED BY <2>4, <3>1, <3>2
  <2>6. v = t
    <3>1. Len(v) = Len(t)
      BY <2>1, <2>3
    <3> QED BY <2>3, <2>5, <3>1, SeqEqual
  <2> QED BY <2>6 DEF v, m, n
<1>5. Len(u) - Len(t) = Len(s)
  BY <1>1
<1> QED BY <1>1, <1>3, <1>4, <1>5 DEF u

\* A call moves the arguments from the activation that was the newest to a new one.
LEMMA CallActivations ==
  ASSUME Inv, Isolated, NEW function \in Functions, CallFunction(function), NEW D \in Nat, D = depth
  PROVE  LET objects == Activation(D).objects
             n == Arity[function]
         IN  /\ depth' = D + 1
             /\ \A d \in 0 .. D - 1 : Activation(d)' = Activation(d)
             /\ n \in Nat /\ Len(objects) \in Nat /\ n <= Len(objects)
             /\ Activation(D)' = [Activation(D) EXCEPT !.objects = SubSeq(objects, 1, Len(objects) - n)]
             /\ Activation(D + 1)'.function = function /\ Activation(D + 1)'.next = 0
             /\ Activation(D + 1)'.objects = SubSeq(objects, Len(objects) - n + 1, Len(objects))
             /\ Len(Activation(D + 1)'.locals) = n
<1> DEFINE n == Arity[function]
           f == FrameOf(D)
           begin == Begin(D)
<1>1. PICK walk \in Arguments(n) : Enter(function, walk, 0)
  BY DEF CallFunction
<1> DEFINE end == walk[n]
<1>2. function \in Callables /\ n \in Nat /\ used \in Nat /\ NestedIn(mem, used)
  BY ProgramAssumption, InvStack DEF Callables, ObjectsNested
<1>3. /\ walk \in Walks(ObjectSize, used, n) /\ walk \in [0 .. n -> 0 .. used] /\ walk[0] = used /\ end \in 0 .. used
      /\ n > 0 => walk[n] = walk[n - 1] - SizeOf(mem[walk[n - 1]]) /\ walk[n - 1] \in 1 .. used
  <2>1. walk \in Walks(ObjectSize, used, n) /\ n \in 0 .. n
    BY <1>1, <1>2 DEF Arguments
  <2>2. walk \in [0 .. n -> 0 .. used] /\ walk[0] = used
    BY <1>2, <2>1, WalkDown
  <2>3. \A j \in 1 .. n : walk[j - 1] > 0 /\ walk[j] = walk[j - 1] - SizeOf(mem[walk[j - 1]])
    BY <1>2, <2>1, WalkDown
  <2>4. n > 0 => n \in 1 .. n /\ n - 1 \in 0 .. n
    BY <1>2
  <2>5. n > 0 => walk[n - 1] \in 0 .. used
    BY <2>2, <2>4
  <2> QED BY <2>1, <2>2, <2>3, <2>4, <2>5
<1>4. /\ used' = used + 1 /\ \A o \in 1 .. used : mem'[o] = mem[o]
      /\ frame'.StackBegin = used + 1 /\ frame'.VariableBegin = Len(locals) /\ frame'.Function = function
      /\ frame'.Caller = 0
  BY <1>1, <1>2, EnterFrames DEF Enter
<1>5. /\ Len(locals') = Len(locals) + n /\ Len(locals) \in Nat
      /\ \A i \in 1 .. Len(locals) : locals'[i] = locals[i]
      /\ \A j \in 1 .. n : locals'[Len(locals) + j] = walk[j - 1]
  BY <1>1, <1>2, ArgumentsAppended, LocalsTyped DEF Enter
<1>6. depth' = D + 1 /\ (\A d \in 0 .. D : FrameOf(d)' = FrameOf(d)) /\ FrameOf(D + 1)' = frame'
  BY <1>1, <1>2, CallFrames
<1>7. f = frame /\ D \in 0 .. depth /\ f.StackBegin \in 0 .. used /\ f.VariableBegin \in Nat
      /\ begin \in 0 .. f.StackBegin /\ (D # 0 => begin <= f.StackBegin - 1)
  BY Layers, Chain
<1>8. f.StackBegin <= end
  <2>1. f.StackBegin = 0 \/ mem[f.StackBegin].shape = NoneType
    <3>1. f \in ActiveFrames
      BY <1>7, Chain
    <3> QED BY <3>1, FrameFacts DEF SavedFrames
  <2>2. \A o \in end + 1 .. used : mem[o].shape # NoneType
    <3>1. used <= used
      BY <1>2
    <3> QED BY <1>2, <1>3, <3>1, WalkMeetsNoFrame
  <2> HIDE DEF f, end
  <2> QED BY <1>2, <1>3, <1>7, <2>1, <2>2
<1>9. Begin(D + 1)' = end
  <2>1. Begin(D + 1)' = IF Arity[frame'.Function] = 0 THEN frame'.StackBegin - 1
                        ELSE LET k == locals'[frame'.VariableBegin + Arity[frame'.Function]]
                             IN  k - SizeOf(mem'[k])
    <3>1. D + 1 # 0
      OBVIOUS
    <3> QED BY <1>6, <3>1 DEF Begin, SizeOf, IsObject
  <2>2. Begin(D + 1)' = IF n = 0 THEN frame'.StackBegin - 1
                        ELSE locals'[Len(locals) + n] - SizeOf(mem'[locals'[Len(locals) + n]])
    BY <1>4, <2>1, Zenon
  <2>3. n > 0 => locals'[Len(locals) + n] = walk[n - 1]
    <3>1. n > 0 => n \in 1 .. n
      BY <1>2
    <3> QED BY <1>5, <3>1
  <2>4. n > 0 => mem'[walk[n - 1]] = mem[walk[n - 1]]
    BY <1>3, <1>4
  <2> HIDE DEF n
  <2> QED BY <1>2, <1>3, <1>4, <2>2, <2>3, <2>4
<1>10. Begin(D)' = begin
  <2> DEFINE last == locals[First(f)]
  <2>1. Args(f) > 0 => First(f) \in 1 .. Len(locals)
    <3>1. First(f) <= Len(locals) /\ Args(f) \in Nat /\ First(f) = f.VariableBegin + Args(f)
      BY <1>7, Layers DEF First
    <3> HIDE DEF f
    <3> QED BY <1>5, <1>7, <3>1
  <2>2. \A i \in 1 .. Len(locals) : locals[i] \in 1 .. used
    BY <1>2, LocalsTyped DEF Isolated, LocalsApart
  <2>3. Args(f) > 0 => locals'[First(f)] = last /\ mem'[last] = mem[last]
    BY <1>4, <1>5, <2>1, <2>2
  <2>4. FrameOf(D)' = f
    BY <1>6
  <2> QED BY <1>7, <2>3, <2>4, BeginKept
<1>11. \A d \in 0 .. D - 1 : Activation(d)' = Activation(d)
  <2>1. CASE D = 0
    BY <2>1
  <2>2. CASE D # 0
    <3>1. D \in 1 .. depth /\ depth' \in Nat /\ D <= depth'
      BY <1>6, <2>2
    <3>2. \A d \in 0 .. D - 1 : FrameOf(d)' = FrameOf(d)
      BY <1>6
    <3>3. FrameOf(D)'.VariableBegin = FrameOf(D).VariableBegin
      BY <1>6
    <3>4. \A o \in 1 .. Begin(D) : mem'[o] = mem[o]
      <4> HIDE DEF f
      <4> QED BY <1>2, <1>4, <1>7
    <3>5. \A i \in 1 .. FrameOf(D).VariableBegin : locals'[i] = locals[i]
      <4>1. frame.VariableBegin \in Nat /\ frame.VariableBegin <= Len(locals)
        BY <3>1, CallersBelow
      <4> QED BY <1>5, <1>7, <4>1
    <3> QED BY <1>10, <3>1, <3>2, <3>3, <3>4, <3>5, LowerKept
  <2> QED BY <2>1, <2>2
<1> DEFINE S == {ObjectIn(mem, o) : o \in 1 .. used}
           pre == ObjectsIn(mem, begin, f.StackBegin - 1)
           own == ObjectsIn(mem, f.StackBegin, end)
           arguments == ObjectsIn(mem, end, used)
           remaining == IF D = 0 THEN own ELSE pre \o own
<1>12. own \in Seq(S) /\ arguments \in Seq(S) /\ (D # 0 => pre \in Seq(S)) /\ Len(arguments) = n
  <2> HIDE DEF f, end, n, begin
  <2>1. \A b \in Nat, t \in 0 .. used : \A o \in b + 1 .. t : ObjectIn(mem, o) \in S
    BY <1>2
  <2> HIDE DEF S
  <2>2. \A b \in Nat, t \in 0 .. used : b <= t => ObjectsIn(mem, b, t) \in Seq(S)
    <3> TAKE b \in Nat, t \in 0 .. used
    <3>1. t \in Nat /\ \A o \in b + 1 .. t : ObjectIn(mem, o) \in S
      BY <2>1
    <3> QED BY <3>1, ObjectsTyped
  <2>3. f.StackBegin \in Nat /\ end \in 0 .. used /\ f.StackBegin <= end
    BY <1>3, <1>7, <1>8 DEF end
  <2>4. end \in Nat /\ used \in 0 .. used /\ end <= used
    BY <1>2, <2>3
  <2>5. D # 0 => begin \in Nat /\ f.StackBegin - 1 \in 0 .. used /\ begin <= f.StackBegin - 1
    BY <1>2, <1>7
  <2>6. Len(arguments) = n
    BY <1>2, <1>3, ObjectsWalked DEF end
  <2> QED BY <2>2, <2>3, <2>4, <2>5, <2>6
<1>13. ObjectsIn(mem, f.StackBegin, used) = own \o arguments
  <2>1. \A o \in end + 1 .. used : end <= o - SizeOf(mem[o])
    <3>1. n \in 0 .. n /\ used <= used
      BY <1>2
    <3>2. \A j \in 0 .. n : \A o \in walk[j] + 1 .. used : walk[j] <= o - SizeOf(mem[o])
      BY <1>2, <1>3, <3>1, WalkNested
    <3> QED BY <3>1, <3>2
  <2> DEFINE low  == f.StackBegin
             last == end
             top  == used
  <2>2. low \in Nat /\ last \in Nat /\ top \in Nat /\ last <= top /\ low <= last
    BY <1>2, <1>3, <1>7, <1>8
  <2>3. NoneReachesBelow(mem, last, top)
    BY <2>1 DEF NoneReachesBelow
  <2> HIDE DEF low, last, top
  <2>4. SplitAt(mem, low, last, top)
    BY <2>2, <2>3, ObjectsSplit
  <2> QED BY <2>4 DEF low, last, top, SplitAt
<1>14. Activation(D) = Part(mem, locals, D, f, begin, used, Len(locals))
  BY ActivationPart DEF End, Last
<1>15. Activation(D)' = Part(mem', locals', D, f, begin, end, Len(locals))
  <2>1. D # depth' /\ D \in 0 .. D
    BY <1>6
  <2>2. End(D)' = end
    BY <1>9, <2>1 DEF End
  <2>3. Last(D)' = Len(locals)
    BY <1>4, <1>6, <2>1 DEF Last
  <2>4. FrameOf(D)' = f
    BY <1>6, <2>1
  <2>5. Activation(D)' = Part(mem', locals', D, FrameOf(D)', Begin(D)', End(D)', Last(D)')
    BY ActivationNext
  <2> QED BY <1>10, <2>2, <2>3, <2>4, <2>5
<1>16. Activation(D + 1)' = Part(mem', locals', D + 1, frame', end, used', Len(locals'))
  <2>1. End(D + 1)' = used' /\ Last(D + 1)' = Len(locals')
    BY <1>6 DEF End, Last
  <2>2. Activation(D + 1)' = Part(mem', locals', D + 1, FrameOf(D + 1)', Begin(D + 1)', End(D + 1)', Last(D + 1)')
    BY ActivationNext
  <2> QED BY <1>6, <1>9, <2>1, <2>2
<1> HIDE DEF S
<1>17. Activation(D).objects = remaining \o arguments /\ remaining \in Seq(S)
  <2> DEFINE whole == ObjectsIn(mem, f.StackBegin, used)
  <2>1. Activation(D).objects = IF D = 0 THEN whole ELSE pre \o whole
    <3> DEFINE here == [i \in 1 .. Len(locals) - f.VariableBegin |-> locals[f.VariableBegin + i] - begin]
    <3>1. Activation(D) = [function |-> f.Function, next |-> f.Caller,
                           objects |-> IF D = 0 THEN whole ELSE pre \o whole, locals |-> here]
      BY <1>14, Zenon DEF Part
    <3> HIDE DEF whole, pre, here, f
    <3> QED BY <3>1
  <2> HIDE DEF pre, own, arguments, whole
  <2>2. D # 0 => pre \o (own \o arguments) = (pre \o own) \o arguments /\ pre \o own \in Seq(S)
    BY <1>12, ConcatAssociative, ConcatProperties, SMTT(30)
  <2>3. whole = own \o arguments
    BY <1>13 DEF whole, own, arguments
  <2> QED BY <1>12, <2>1, <2>2, <2>3
<1>18. Activation(D)' = [Activation(D) EXCEPT !.objects = remaining]
  <2>1. ObjectsIn(mem', f.StackBegin, end) = own
    <3> DEFINE low == f.StackBegin
    <3>1. low \in Nat /\ end \in Nat /\ low <= end
      BY <1>3, <1>7, <1>8
    <3>2. \A o \in low + 1 .. end : mem'[o] = mem[o]
      <4> HIDE DEF low, end
      <4> QED BY <1>2, <1>3, <1>4, <3>1 DEF end
    <3> HIDE DEF low, end
    <3>3. ObjectsIn(mem', low, end) = ObjectsIn(mem, low, end)
      BY <3>1, <3>2, ObjectsSame
    <3> QED BY <3>3 DEF low
  <2>2. D # 0 => ObjectsIn(mem', begin, f.StackBegin - 1) = pre
    <3> SUFFICES ASSUME D # 0 PROVE ObjectsIn(mem', begin, f.StackBegin - 1) = pre
      OBVIOUS
    <3> DEFINE high == f.StackBegin - 1
    <3>1. begin \in Nat /\ high \in Nat /\ begin <= high /\ high <= used
      BY <1>2, <1>7
    <3>2. \A o \in begin + 1 .. high : mem'[o] = mem[o]
      <4> HIDE DEF begin, high
      <4> QED BY <1>2, <1>4, <3>1
    <3> HIDE DEF begin, high
    <3>3. ObjectsIn(mem', begin, high) = ObjectsIn(mem, begin, high)
      BY <3>1, <3>2, ObjectsSame
    <3> QED BY <3>3 DEF high
  <2>3. [i \in 1 .. Len(locals) - f.VariableBegin |-> locals'[f.VariableBegin + i] - begin] =
        [i \in 1 .. Len(locals) - f.VariableBegin |-> locals[f.VariableBegin + i] - begin]
    <3>1. \A i \in 1 .. Len(locals) - f.VariableBegin : locals'[f.VariableBegin + i] = locals[f.VariableBegin + i]
      <4> HIDE DEF f
      <4> QED BY <1>5, <1>7, SMTT(30)
    <3> QED BY <3>1
  <2> DEFINE here == [i \in 1 .. Len(locals) - f.VariableBegin |-> locals[f.VariableBegin + i] - begin]
  <2>4. Activation(D)' = [function |-> f.Function, next |-> f.Caller, objects |-> remaining, locals |-> here]
    BY <1>15, <2>1, <2>2, <2>3, Zenon DEF Part
  <2>5. \E objects : Activation(D) = [function |-> f.Function, next |-> f.Caller, objects |-> objects, locals |-> here]
    BY <1>14, Zenon DEF Part
  <2> HIDE DEF remaining, here, f
  <2> QED BY <2>4, <2>5
<1>19. /\ Activation(D + 1)'.function = function /\ Activation(D + 1)'.next = 0
       /\ Activation(D + 1)'.objects = arguments /\ Len(Activation(D + 1)'.locals) = n
  <2> DEFINE below == ObjectsIn(mem', end, frame'.StackBegin - 1)
             above == ObjectsIn(mem', frame'.StackBegin, used')
             here  == [i \in 1 .. Len(locals') - frame'.VariableBegin |-> locals'[frame'.VariableBegin + i] - end]
  <2>1. D + 1 # 0
    OBVIOUS
  <2>2. Activation(D + 1)' = [function |-> frame'.Function, next |-> frame'.Caller,
                              objects |-> below \o above, locals |-> here]
    BY <1>16, <2>1, Zenon DEF Part
  <2>3. below = arguments
    <3>1. frame'.StackBegin - 1 = used
      BY <1>2, <1>4
    <3>2. end \in Nat /\ used \in Nat /\ end <= used
      BY <1>2, <1>3
    <3>3. \A o \in end + 1 .. used : mem'[o] = mem[o]
      <4> HIDE DEF end
      <4> QED BY <1>2, <1>4, <3>2
    <3> HIDE DEF end
    <3>4. ObjectsIn(mem', end, used) = ObjectsIn(mem, end, used)
      BY <3>2, <3>3, ObjectsSame
    <3> QED BY <3>1, <3>4
  <2>4. above = <<>>
    <3>1. used + 1 \in Nat
      BY <1>2
    <3> QED BY <1>4, <3>1, ObjectsStep
  <2>5. arguments \o <<>> = arguments
    BY <1>12, ConcatEmptySeq
  <2>6. Len(here) = n
    <3>1. Len(locals') - frame'.VariableBegin = n
      <4> HIDE DEF n
      <4> QED BY <1>2, <1>4, <1>5
    <3> HIDE DEF n
    <3> QED BY <1>2, <3>1
  <2> HIDE DEF below, above, here, arguments
  <2> QED BY <1>4, <2>2, <2>3, <2>4, <2>5, <2>6
<1> DEFINE objects == Activation(D).objects
<1> HIDE DEF remaining, arguments, n
<1>20. /\ Len(objects) = Len(remaining) + Len(arguments) /\ Len(remaining) \in Nat
       /\ SubSeq(objects, 1, Len(objects) - n) = remaining
       /\ SubSeq(objects, Len(objects) - n + 1, Len(objects)) = arguments
  <2>1. arguments \in Seq(S) /\ Len(arguments) = n
    BY <1>12
  <2> QED BY <1>17, <2>1, Parts
<1> HIDE DEF objects
<1>21. Len(objects) \in Nat /\ n <= Len(objects)
  <2>1. Len(arguments) = n
    BY <1>12
  <2> QED BY <1>2, <1>20, <2>1
<1> QED
  <2>1. /\ Activation(D)' = [Activation(D) EXCEPT !.objects = SubSeq(objects, 1, Len(objects) - n)]
        /\ Activation(D + 1)'.objects = SubSeq(objects, Len(objects) - n + 1, Len(objects))
    BY <1>18, <1>19, <1>20, Zenon
  <2> QED BY <1>2, <1>6, <1>11, <1>19, <1>21, <2>1, Zenon DEF objects, n

-----------------------------------------------------------------------------
(* Returns *)

\* What ret leaves on the stack.
LEMMA ReturnEnds ==
  ASSUME Inv, Isolated, InterpretRet, depth # 0, ~Crash, ~ \E code : OccurException(code)
  PROVE  LET result == IF HasResult[frame.Function] THEN ObjectAt(used) ELSE <<>>
         IN  /\ \E end \in ArgumentsEnd .. frame.StackBegin - 1 :
                  /\ used' = end + Len(result) /\ mem' = Placed(mem, result, used')
                  /\ ArrayArguments = {} => end = ArgumentsEnd
             /\ NoneReachesBelow(mem, ArgumentsEnd, frame.StackBegin - 1)
             /\ \A i \in 1 .. frame.VariableBegin : locals[i] <= ArgumentsEnd
<1> DEFINE result == IF HasResult[frame.Function] THEN ObjectAt(used) ELSE <<>>
<1>1. /\ frame.StackBegin \in 1 .. used
      /\ \E walk \in Walks(ObjectSize, frame.StackBegin - 1, Args(frame)) :
           \E end \in 0 .. frame.StackBegin - 1 :
             /\ \A j \in 1 .. Args(frame) : locals[frame.VariableBegin + j] = walk[j - 1]
             /\ \A i \in 1 .. frame.VariableBegin : locals[i] <= walk[Args(frame)]
             /\ walk[Args(frame)] \in 0 .. end
             /\ (\A j \in 1 .. Args(frame) : mem[walk[j - 1]].shape \notin Arrays) => end = walk[Args(frame)]
             /\ used' = end + Len(result)
             /\ mem' = Placed(mem, result, used')
  BY Returns
<1>2. frame.StackBegin > 0 /\ frame.StackBegin - 1 \in Nat /\ frame.StackBegin - 1 <= used /\ used \in Nat
      /\ Args(frame) = Arity[frame.Function] /\ Args(frame) \in Nat /\ NestedIn(mem, used)
  BY <1>1, DepthOfFrame, FrameFacts, InvStack DEF ObjectsNested
<1> HIDE DEF result
<1>3. PICK walk \in Walks(ObjectSize, frame.StackBegin - 1, Args(frame)), end \in 0 .. frame.StackBegin - 1 :
        /\ \A j \in 1 .. Args(frame) : locals[frame.VariableBegin + j] = walk[j - 1]
        /\ \A i \in 1 .. frame.VariableBegin : locals[i] <= walk[Args(frame)]
        /\ walk[Args(frame)] \in 0 .. end
        /\ (\A j \in 1 .. Args(frame) : mem[walk[j - 1]].shape \notin Arrays) => end = walk[Args(frame)]
        /\ used' = end + Len(result)
        /\ mem' = Placed(mem, result, used')
  BY <1>1
<1>4. ArgumentsEnd = walk[Args(frame)]
  BY <1>2, <1>3, EndOfWalk
<1>5. ArrayArguments = {} => end = ArgumentsEnd
  BY <1>2, <1>3, <1>4 DEF ArrayArguments
<1>6. end \in ArgumentsEnd .. frame.StackBegin - 1
  BY <1>2, <1>3, <1>4
<1>7. NoneReachesBelow(mem, ArgumentsEnd, frame.StackBegin - 1)
  <2> DEFINE base == frame.StackBegin - 1
             n    == Args(frame)
  <2>1. base \in Nat /\ base <= used /\ n \in Nat /\ n \in 0 .. n
    BY <1>2
  <2> HIDE DEF base
  <2>2. \A o \in walk[n] + 1 .. base : walk[n] <= o - SizeOf(mem[o])
    BY <1>2, <1>3, <2>1, WalkNested DEF base
  <2> QED BY <1>4, <2>2 DEF NoneReachesBelow, base
<1> QED BY <1>3, <1>4, <1>5, <1>6, <1>7 DEF result

\* The frame of the returning function is the only one that leaves.
LEMMA ReturnFrames ==
  ASSUME Inv, Inv', Isolated, InterpretRet, ~Crash, ~ \E code : OccurException(code), depth # 0,
         NEW D \in Nat, depth = D + 1
  PROVE  /\ \A d \in 0 .. D - 1 : FrameOf(d)' = FrameOf(d)
         /\ FrameOf(D)' = [FrameOf(D) EXCEPT !.Caller = @ + 1]
<1> DEFINE begin == frame.StackBegin
           result == IF HasResult[frame.Function] THEN ObjectAt(used) ELSE <<>>
<1>1. /\ depth' = depth - 1
      /\ frame' = [mem[begin].val EXCEPT !.Caller = @ + 1]
      /\ \E end \in ArgumentsEnd .. begin - 1 : used' = end + Len(result) /\ mem' = Placed(mem, result, used')
      /\ Len(result) \in 0 .. used - begin
  BY Returns, ReturnEnds
<1> HIDE DEF result
<1> PICK end \in ArgumentsEnd .. begin - 1 : used' = end + Len(result) /\ mem' = Placed(mem, result, used')
  BY <1>1
<1>2. /\ begin \in SavedFrames /\ begin \in Nat \ {0} /\ ArgumentsEnd \in 0 .. begin - 1 /\ used \in Nat
      /\ begin <= used
      /\ \A o \in SavedFrames : o = begin \/ o \in 1 .. ArgumentsEnd
  <2>1. depth > 0
    OBVIOUS
  <2> QED BY <2>1, SavedBelow, InvStack DEF SavedFrames
<1>3. /\ depth' = D /\ \A o \in 1 .. ArgumentsEnd : mem'[o] = mem[o]
      /\ used' \in Nat /\ ArgumentsEnd <= used'
  <2>1. used <= StackSize /\ StackSize \in Nat
    BY ProgramAssumption DEF Inv, TypeOK
  <2> HIDE DEF begin
  <2>2. used' \in Nat /\ ArgumentsEnd <= used' /\ Len(result) \in Nat
    BY <1>1, <1>2
  <2>3. \A o \in 1 .. ArgumentsEnd : o \in 1 .. StackSize /\ ~(o > used') /\ ~(o > used' - Len(result))
    <3>1. end \in Nat /\ ArgumentsEnd <= end /\ end <= used /\ used' - Len(result) = end
      BY <1>1, <1>2, <2>1, <2>2
    <3> QED BY <1>2, <2>1, <2>2, <3>1
  <2>4. \A o \in 1 .. ArgumentsEnd : mem'[o] = mem[o]
    BY <1>1, <2>3 DEF Placed
  <2> QED BY <1>1, <2>2, <2>4
<1> DEFINE few == {j \in SavedFrames : j < begin}
<1>4. Cardinality(few) = D /\ SavedFrames \in SUBSET (1 .. used) /\ FrameOf(D) = mem[begin].val
      /\ \A d \in 0 .. D - 1 : PlaceIn(few, d) = SavedAt(d) /\ FrameOf(d) = mem[SavedAt(d)].val /\ SavedAt(d) \in few
  <2>1. SavedFrames \in SUBSET (1 .. used) /\ D + 1 = Cardinality(SavedFrames)
    BY <1>2, SavedFramesFinite DEF Inv, FrameChain
  <2>2. D \in 0 .. depth - 1 /\ FrameOf(depth) = frame
    BY Chain
  <2>3. begin = SavedAt(D) /\ FrameOf(D) = mem[begin].val
    BY <2>2, Chain
  <2>4. Cardinality(few) = D
    <3>1. Rank(SavedFrames, PlaceIn(SavedFrames, D)) = D
      BY <1>2, <2>1, <2>2, PlaceFacts
    <3> QED BY <2>3, <3>1, SavedAtPlace DEF Rank
  <2>5. few \in SUBSET SavedFrames
    OBVIOUS
  <2>6. \A p \in few, q \in SavedFrames : q < p => q \in few
    <3> SUFFICES ASSUME NEW p \in few, NEW q \in SavedFrames, q < p PROVE q < begin
      OBVIOUS
    <3>1. p \in Int /\ q \in Int /\ p < begin
      BY <2>1
    <3> HIDE DEF begin, few
    <3> QED BY <1>2, <3>1
  <2> HIDE DEF few
  <2>7. \A d \in 0 .. D - 1 : PlaceIn(SavedFrames, d) = PlaceIn(few, d)
    BY <1>2, <2>1, <2>4, <2>5, <2>6, PlacePrefix
  <2>8. \A d \in 0 .. D - 1 : d \in 0 .. depth - 1 /\ d < D
    BY <2>2
  <2>9. \A d \in 0 .. D - 1 : FrameOf(d) = mem[SavedAt(d)].val /\ SavedAt(d) \in SavedFrames /\ SavedAt(d) < begin
    BY <2>2, <2>3, <2>8, Chain
  <2> QED BY <2>1, <2>3, <2>4, <2>7, <2>9, SavedAtPlace DEF few
<1>5. SavedFrames' = few
  <2>1. SavedFrames' = {o \in 1 .. used' : mem'[o].shape = NoneType}
    BY DEF SavedFrames
  <2>2. \A o \in few : o \in 1 .. ArgumentsEnd /\ mem[o].shape = NoneType
    <3>1. \A o \in few : o # begin
      BY <1>2
    <3> QED BY <1>2, <3>1 DEF SavedFrames
  <2> HIDE DEF few
  <2>3. few \in SUBSET (SavedFrames')
    <3>1. \A o \in 1 .. ArgumentsEnd : o \in 1 .. used'
      BY <1>2, <1>3
    <3>2. \A o \in few : o \in 1 .. used' /\ mem'[o].shape = NoneType
      BY <1>3, <2>2, <3>1
    <3> QED BY <2>1, <3>2
  <2>4. IsFiniteSet(SavedFrames')
    <3>1. SavedFrames' \in SUBSET (1 .. used')
      BY <2>1
    <3> QED BY <1>3, <3>1, RankFacts
  <2>5. Cardinality(SavedFrames') = Cardinality(few)
    <3>1. depth' = Cardinality(SavedFrames')
      BY DEF Inv, FrameChain
    <3> QED BY <1>3, <1>4, <3>1
  <2> QED BY <2>3, <2>4, <2>5, FS_Subset
<1>6. ASSUME NEW d \in 0 .. D - 1 PROVE FrameOf(d)' = FrameOf(d)
  <2>1. FrameOf(d)' = mem'[SavedAt(d)'].val
    BY <1>3 DEF FrameOf
  <2>2. SavedAt(d)' = PlaceIn(few, d)
    BY <1>5, SavedAtNext
  <2>3. SavedAt(d) \in 1 .. ArgumentsEnd
    <3>1. SavedAt(d) \in few
      BY <1>4
    <3>2. \A j \in few : j \in SavedFrames /\ j # begin
      BY <1>2
    <3> QED BY <1>2, <3>1, <3>2
  <2> HIDE DEF few
  <2> QED BY <1>3, <1>4, <2>1, <2>2, <2>3
<1>7. FrameOf(D)' = frame'
  BY <1>3 DEF FrameOf
<1> QED BY <1>1, <1>4, <1>6, <1>7

\* An array among the arguments is among the objects that the activation begins with.
LEMMA ArrayPassed ==
  ASSUME Inv, Isolated, depth > 0, ArrayArguments # {}
  PROVE  \E i \in 1 .. Arity[frame.Function] : Activation(depth).objects[i][1].shape \in Arrays
<1> DEFINE n == Args(frame)
           base == frame.StackBegin - 1
           end == ArgumentsEnd
           lower == ObjectsIn(mem, end, base)
           own == ObjectsIn(mem, frame.StackBegin, used)
           T == {ObjectIn(mem, o) : o \in 1 .. used}
<1>1. /\ FrameOf(depth) = frame /\ depth \in 1 .. depth /\ depth # 0 /\ Begin(depth) = end
      /\ n = Arity[frame.Function] /\ n \in Nat
  BY Chain, NewestBegins, FrameFacts
<1>2. /\ frame.StackBegin \in Nat \ {0} /\ end \in 0 .. base /\ frame.StackBegin <= used /\ used \in Nat
  BY SavedBelow, InvStack DEF SavedFrames
<1>3. PICK walk \in Walks(ObjectSize, base, n) : \A j \in 1 .. n : locals[frame.VariableBegin + j] = walk[j - 1]
  <2>1. \E walk \in Walks(ObjectSize, FrameOf(depth).StackBegin - 1, Args(FrameOf(depth))) :
          \A j \in 1 .. Args(FrameOf(depth)) : locals[FrameOf(depth).VariableBegin + j] = walk[j - 1]
    BY <1>1, Begins
  <2> QED BY <1>1, <2>1
<1>4. end = walk[n]
  BY <1>2, <1>3, EndOfWalk
<1>5. PICK j \in 1 .. n : mem[walk[j - 1]].shape \in Arrays
  BY <1>1, <1>3 DEF ArrayArguments
<1>6. base \in Nat /\ base \in 0 .. used
  BY <1>2
<1>7. Len(lower) = n /\ \A i \in 1 .. n : lower[i] = ObjectIn(mem, walk[n - i])
  <2>1. n \in Nat /\ base \in Nat /\ walk \in Walks(ObjectSize, base, n)
    BY <1>1, <1>3, <1>6
  <2> HIDE DEF base, n, end
  <2>2. /\ Len(ObjectsIn(mem, walk[n], base)) = n
        /\ \A i \in 1 .. n : ObjectsIn(mem, walk[n], base)[i] = ObjectIn(mem, walk[n - i])
    BY <2>1, ObjectsWalked
  <2> QED BY <1>4, <2>2
<1>8. lower \in Seq(T) /\ own \in Seq(T)
  <2>1. \A b \in Nat, t \in 0 .. used : \A o \in b + 1 .. t : ObjectIn(mem, o) \in T
    BY <1>2
  <2> HIDE DEF T
  <2>2. \A b \in Nat, t \in 0 .. used : b <= t => ObjectsIn(mem, b, t) \in Seq(T)
    <3> TAKE b \in Nat, t \in 0 .. used
    <3>1. t \in Nat /\ \A o \in b + 1 .. t : ObjectIn(mem, o) \in T
      BY <2>1
    <3> QED BY <3>1, ObjectsTyped
  <2>3. end \in Nat /\ end <= base /\ used \in 0 .. used /\ frame.StackBegin \in Nat
    BY <1>2, <1>6
  <2> HIDE DEF base, end
  <2> QED BY <1>2, <1>6, <2>2, <2>3
<1>9. Activation(depth).objects = lower \o own
  <2>1. End(depth) = used
    BY DEF End
  <2>2. Activation(depth) = Part(mem, locals, depth, frame, end, used, Last(depth))
    BY <1>1, <2>1, ActivationPart
  <2> QED BY <1>1, <2>2 DEF Part
<1> DEFINE i == n - j + 1
<1>10. i \in 1 .. n /\ n - i = j - 1
  BY <1>1
<1>11. (lower \o own)[i] = lower[i]
  <2> HIDE DEF lower, own, T, i
  <2>1. i \in 1 .. Len(lower) + Len(own) /\ i <= Len(lower)
    <3>1. Len(own) \in Nat
      BY <1>8
    <3> QED BY <1>1, <1>7, <1>10, <3>1
  <2> QED BY <1>8, <2>1, ConcatProperties
<1>12. lower[i][1] = mem[walk[j - 1]]
  <2>1. lower[i] = ObjectIn(mem, walk[j - 1])
    BY <1>7, <1>10
  <2>2. SizeOf(mem[walk[j - 1]]) \in Nat \ {0}
    BY SizeFacts
  <2>3. \A o \in Int : SizeOf(mem[o]) \in Nat \ {0} => ObjectIn(mem, o)[1] = mem[o]
    BY DEF ObjectIn
  <2>4. walk[j - 1] \in Int
    <3>1. walk \in [0 .. n -> 0 .. base]
      <4> HIDE DEF base, n
      <4> QED BY <1>1, <1>3, <1>6, WalkDown
    <3> QED BY <1>1, <3>1
  <2> QED BY <2>1, <2>2, <2>3, <2>4
<1> HIDE DEF i, n
<1> QED BY <1>1, <1>5, <1>9, <1>10, <1>11, <1>12

\* A return takes the newest activation away and gives its result to the caller, whose
\* place in the code moves on.  What is left of arguments lies below the result.
LEMMA ReturnActivations ==
  ASSUME Inv, Inv', Isolated, InterpretRet, ~Crash, ~ \E code : OccurException(code), depth # 0,
         NEW D \in Nat, depth = D + 1
  PROVE  LET function == Activation(D + 1).function
             objects == Activation(D + 1).objects
             result == IF HasResult[function] THEN <<objects[Len(objects)]>> ELSE <<>>
         IN  /\ depth' = D
             /\ \A d \in 0 .. D - 1 : Activation(d)' = Activation(d)
             /\ \E X : \E left \in Seq(X) :
                  /\ Activation(D).objects \in Seq(X) /\ result \in Seq(X)
                  /\ left # <<>> => \E i \in 1 .. Arity[function] : objects[i][1].shape \in Arrays
                  /\ Activation(D)' = [Activation(D) EXCEPT !.next = @ + 1, !.objects = @ \o left \o result]
<1> DEFINE function == frame.Function
           begin == frame.StackBegin
           end == ArgumentsEnd
           returned == IF HasResult[function] THEN ObjectAt(used) ELSE <<>>
           f == FrameOf(D)
           low == f.StackBegin
           first == Begin(D)
           last == frame.VariableBegin
<1>1. /\ depth' = D
      /\ locals' = SubSeq(locals, 1, last) /\ last \in 0 .. Len(locals)
      /\ returned \in Seq(Cells) /\ Len(returned) \in 0 .. used - begin
      /\ HasResult[function] => /\ used > 0 /\ IsObject(mem[used]) /\ Len(returned) = SizeOf(mem[used])
                                /\ Len(returned) > 0 /\ returned[1] = mem[used]
  BY Returns
<1>2. PICK stop \in end .. begin - 1 :
        /\ used' = stop + Len(returned) /\ mem' = Placed(mem, returned, used')
        /\ ArrayArguments = {} => stop = end
  BY ReturnEnds
<1>a. (\A i \in 1 .. last : locals[i] <= end) /\ NoneReachesBelow(mem, end, begin - 1)
  BY ReturnEnds
<1>3. /\ \A d \in 0 .. D - 1 : FrameOf(d)' = FrameOf(d)
      /\ FrameOf(D)' = [f EXCEPT !.Caller = @ + 1]
  BY ReturnFrames
<1>4. depth > 0 /\ D \in 0 .. depth /\ D + 1 \in 0 .. depth /\ D + 1 \in 1 .. depth /\ D < D + 1 /\ D + 1 # 0
  OBVIOUS
<1>5. FrameOf(D + 1) = frame /\ Begin(D + 1) = end /\ begin \in Nat \ {0} /\ end \in 0 .. begin - 1 /\ begin <= used
      /\ used \in Nat /\ last \in Nat
      /\ stop \in Nat /\ end <= stop /\ stop <= used /\ stop <= begin - 1
  BY <1>4, Chain, NewestBegins, SavedBelow, FrameFacts, InvStack DEF SavedFrames
<1>6. /\ low \in Nat /\ f.VariableBegin \in Nat /\ first \in 0 .. low /\ (D # 0 => first <= low - 1)
      /\ low <= end /\ First(f) <= last /\ Args(f) \in Nat /\ f.VariableBegin <= last
  <2>1. low \in 0 .. used /\ f.VariableBegin \in Nat /\ first \in 0 .. low /\ (D # 0 => first <= low - 1) /\ Args(f) \in Nat
    BY <1>4, Layers
  <2>2. low <= end /\ First(f) <= last
    BY <1>4, <1>5, Layers
  <2>3. First(f) = f.VariableBegin + Args(f)
    BY DEF First
  <2> HIDE DEF f, low, first, end, last
  <2> QED BY <1>5, <2>1, <2>2, <2>3
<1>7. /\ f \in StackFrame
      /\ FrameOf(D)'.StackBegin = low /\ FrameOf(D)'.VariableBegin = f.VariableBegin
      /\ FrameOf(D)'.Function = f.Function /\ FrameOf(D)'.Caller = f.Caller + 1
  <2>1. f \in StackFrame
    BY <1>4, Chain, FrameFacts
  <2> HIDE DEF f
  <2> QED BY <1>3, <2>1 DEF StackFrame, f
<1>8. Len(locals') = last /\ \A i \in 1 .. last : locals'[i] = locals[i] /\ locals[i] \in 1 .. end
  <2>1. locals \in Seq(1 .. StackSize) /\ last <= Len(locals) /\ Len(locals) \in Nat
    BY <1>1, InvStack
  <2>2. Len(locals') = last /\ \A i \in 1 .. last : locals'[i] = locals[i]
    BY <1>1, <1>5, <2>1, FrontFacts
  <2>3. \A i \in 1 .. last : locals[i] \in 1 .. end
    <3>1. \A i \in 1 .. Len(locals) : locals[i] \in Nat \ {0}
      BY LocalsTyped
    <3> HIDE DEF end, last
    <3> QED BY <1>a, <1>5, <2>1, <3>1
  <2> QED BY <2>2, <2>3
<1>9. /\ used' \in Nat /\ end <= used'
      /\ \A o \in 1 .. stop : mem'[o] = mem[o]
      /\ \A i \in 1 .. Len(returned) : mem'[used' - i + 1] = returned[i]
  <2>1. used <= StackSize /\ StackSize \in Nat
    BY ProgramAssumption DEF Inv, TypeOK
  <2> HIDE DEF begin, end, returned
  <2>2. used' \in 0 .. StackSize /\ end <= used' /\ Len(returned) \in Nat
    BY <1>1, <1>2, <1>5, <2>1
  <2>3. \A o \in 1 .. stop : o \in 1 .. StackSize /\ ~(o > used') /\ ~(o > used' - Len(returned))
    BY <1>2, <1>5, <2>1, <2>2
  <2>4. \A i \in 1 .. Len(returned) :
          /\ used' - i + 1 \in 1 .. StackSize /\ ~(used' - i + 1 > used') /\ used' - i + 1 > used' - Len(returned)
          /\ used' - (used' - i + 1) + 1 = i
    BY <1>2, <1>5, <2>1, <2>2
  <2>5. \A o \in 1 .. StackSize : mem'[o] = IF o > used' THEN Raw
                                            ELSE IF o > used' - Len(returned) THEN returned[used' - o + 1]
                                            ELSE mem[o]
    BY <1>2 DEF Placed
  <2>6. \A o \in 1 .. stop : mem'[o] = mem[o]
    BY <2>3, <2>5
  <2>7. \A i \in 1 .. Len(returned) : mem'[used' - i + 1] = returned[i]
    BY <2>4, <2>5
  <2> QED BY <2>1, <2>2, <2>6, <2>7
<1> HIDE DEF end, returned, begin
<1>10. Begin(D)' = first
  <2>1. Args(f) > 0 => First(f) \in 1 .. last
    <3>1. First(f) = f.VariableBegin + Args(f)
      BY DEF First
    <3> HIDE DEF f, last
    <3> QED BY <1>5, <1>6, <3>1
  <2>2. \A i \in 1 .. last : locals[i] \in 1 .. stop
    <3> HIDE DEF last
    <3> QED BY <1>5, <1>8
  <2>3. Args(f) > 0 => locals'[First(f)] = locals[First(f)] /\ mem'[locals[First(f)]] = mem[locals[First(f)]]
    BY <1>8, <1>9, <2>1, <2>2
  <2> QED BY <1>4, <1>7, <2>3, BeginKept
<1>11. \A d \in 0 .. D - 1 : Activation(d)' = Activation(d)
  <2>1. CASE D = 0
    BY <2>1
  <2>2. CASE D # 0
    <3>1. D \in 1 .. depth /\ depth' \in Nat /\ D <= depth'
      BY <1>1, <1>4, <2>2
    <3>2. \A o \in 1 .. Begin(D) : mem'[o] = mem[o]
      <4> HIDE DEF first, low
      <4>1. first <= end /\ first \in Nat
        BY <1>5, <1>6
      <4>2. \A o \in 1 .. first : mem'[o] = mem[o]
        BY <1>5, <1>9, <4>1
      <4> QED BY <4>2 DEF first
    <3>3. \A i \in 1 .. FrameOf(D).VariableBegin : locals'[i] = locals[i]
      <4> HIDE DEF last
      <4> QED BY <1>5, <1>6, <1>8
    <3> QED BY <1>3, <1>7, <1>10, <3>1, <3>2, <3>3, LowerKept
  <2> QED BY <2>1, <2>2
<1> DEFINE S == {ObjectIn(mem, o) : o \in 1 .. used}
           pre == ObjectsIn(mem, first, low - 1)
           own == ObjectsIn(mem, low, end)
           kept == IF D = 0 THEN own ELSE pre \o own
           here == [i \in 1 .. last - f.VariableBegin |-> locals[f.VariableBegin + i] - first]
           result == IF HasResult[function] THEN <<ObjectIn(mem, used)>> ELSE <<>>
           left == ObjectsIn(mem, end, stop)
           more == left \o result
<1>12. own \in Seq(S) /\ (D # 0 => pre \in Seq(S)) /\ result \in Seq(S) /\ left \in Seq(S)
  <2> HIDE DEF f, low, first
  <2>1. \A b \in Nat, t \in 0 .. used : \A o \in b + 1 .. t : ObjectIn(mem, o) \in S
    BY <1>5
  <2>2. HasResult[function] => ObjectIn(mem, used) \in S
    <3>1. used \in Nat /\ (HasResult[function] => used > 0)
      BY <1>1, <1>5
    <3> QED BY <3>1
  <2>a. used \in Nat
    BY <1>5
  <2> HIDE DEF S
  <2>3. \A b \in Nat, t \in 0 .. used : b <= t => ObjectsIn(mem, b, t) \in Seq(S)
    <3> TAKE b \in Nat, t \in 0 .. used
    <3>a. t \in Nat
      BY <2>a
    <3>b. \A o \in b + 1 .. t : ObjectIn(mem, o) \in S
      BY <2>1, Zenon
    <3>1. t \in Nat /\ \A o \in b + 1 .. t : ObjectIn(mem, o) \in S
      BY <3>a, <3>b
    <3> QED BY <3>1, ObjectsTyped
  <2>4. end \in 0 .. used /\ stop \in 0 .. used /\ end \in Nat /\ end <= stop
    BY <1>5
  <2>5. D # 0 => first \in Nat /\ low - 1 \in 0 .. used /\ first <= low - 1
    BY <1>5, <1>6, <2>4
  <2>6. result \in Seq(S)
    BY <2>2
  <2> QED BY <1>6, <2>3, <2>4, <2>5, <2>6
<1> HIDE DEF S
<1>13. Activation(D) = [function |-> f.Function, next |-> f.Caller, objects |-> kept, locals |-> here]
  <2>1. D # depth
    BY <1>4
  <2>2. End(D) = end
    BY <1>5, <2>1 DEF End
  <2>3. Last(D) = last
    BY <1>5, <2>1 DEF Last
  <2>4. Activation(D) = Part(mem, locals, D, f, first, end, last)
    BY <2>2, <2>3, ActivationPart
  <2> QED BY <2>4, Zenon DEF Part
<1>14. ObjectsIn(mem', low, used') = own \o more
  <2> DEFINE body == own \o left
  <2>1. ObjectsIn(mem', low, stop) = body
    <3> HIDE DEF low
    <3>1. low \in Nat /\ end \in Nat /\ low <= end /\ low <= stop
      BY <1>5, <1>6
    <3>2. \A o \in low + 1 .. stop : mem'[o] = mem[o]
      BY <1>5, <1>9, <3>1
    <3>3. ObjectsIn(mem', low, stop) = ObjectsIn(mem, low, stop)
      BY <1>5, <3>1, <3>2, ObjectsSame
    <3>4. NoneReachesBelow(mem, end, stop)
      BY <1>a, <1>5 DEF NoneReachesBelow, begin
    <3>5. SplitAt(mem, low, end, stop)
      BY <1>5, <3>1, <3>4, ObjectsSplit
    <3> QED BY <3>3, <3>5 DEF SplitAt, low
  <2>2. body \in Seq(S) /\ body \o result = own \o more
    <3> HIDE DEF own, left, result
    <3> QED BY <1>12, ConcatProperties, ConcatAssociative
  <2> HIDE DEF body
  <2>3. CASE ~HasResult[function]
    <3>1. used' = stop
      <4>1. Len(returned) = 0
        BY <2>3 DEF returned
      <4> QED BY <1>2, <1>5, <4>1
    <3>2. body \o <<>> = body
      BY <2>2, ConcatEmptySeq
    <3> QED BY <2>1, <2>2, <2>3, <3>1, <3>2
  <2>4. CASE HasResult[function]
    <3>1. /\ used' \in Nat /\ SizeOf(mem[used]) \in Nat /\ SizeOf(mem[used]) > 0
          /\ used' - SizeOf(mem[used]) = stop /\ low <= stop /\ low \in Nat /\ stop \in Nat
      <4>1. used' = stop + Len(returned) /\ Len(returned) = SizeOf(mem[used])
        BY <1>1, <1>2, <2>4
      <4> HIDE DEF low
      <4> QED BY <1>5, <1>6, <1>9, <4>1, SizeFacts
    <3>2. mem'[used'] = mem[used]
      <4>1. Len(returned) = SizeOf(mem[used])
        BY <1>1, <2>4
      <4>a. Len(returned) \in Nat /\ Len(returned) > 0
        BY <3>1, <4>1
      <4>b. used' \in Nat
        BY <3>1
      <4>c. 1 \in 1 .. Len(returned)
        BY <4>a
      <4>d. \A u \in Nat : u - 1 + 1 = u
        OBVIOUS
      <4>2. 1 \in 1 .. Len(returned) /\ used' - 1 + 1 = used'
        BY <4>b, <4>c, <4>d
      <4> QED BY <1>1, <1>9, <2>4, <4>2
    <3>3. ObjectIn(mem', used') = ObjectIn(mem, used)
      <4> DEFINE n == SizeOf(mem[used])
      <4>1. \A i \in 1 .. n : mem'[used' - i + 1] = mem[used - i + 1]
        <5>1. n = Len(returned) /\ \A i \in 1 .. n : returned[i] = mem[used - i + 1]
          BY <1>1, <2>4 DEF returned, ObjectAt
        <5> QED BY <1>9, <5>1
      <4> HIDE DEF n
      <4>2. [i \in 1 .. n |-> mem'[used' - i + 1]] = [i \in 1 .. n |-> mem[used - i + 1]]
        BY <4>1
      <4> QED BY <3>2, <4>2, Zenon DEF ObjectIn, n
    <3> HIDE DEF low
    <3>4. low < used' /\ ~(used' - SizeOf(mem'[used']) < low)
      BY <3>1, <3>2
    <3>5. ObjectsIn(mem', low, used') =
            IF used' - SizeOf(mem'[used']) < low THEN <<>>
            ELSE Append(ObjectsIn(mem', low, used' - SizeOf(mem'[used'])), ObjectIn(mem', used'))
      BY <3>1, <3>4, ObjectsStep
    <3>6. ObjectsIn(mem', low, used') = Append(body, ObjectIn(mem, used))
      BY <2>1, <3>1, <3>2, <3>3, <3>4, <3>5 DEF low
    <3>7. Append(body, ObjectIn(mem, used)) = body \o <<ObjectIn(mem, used)>>
      <4>1. ObjectIn(mem, used) \in S
        <5>1. used \in Nat /\ used > 0
          BY <1>1, <1>5, <2>4
        <5> QED BY <5>1 DEF S
      <4> QED BY <2>2, <4>1, AppendIsConcat
    <3> QED BY <2>2, <2>4, <3>6, <3>7 DEF low
  <2> QED BY <2>3, <2>4
<1>15. Activation(D)' = [function |-> f.Function, next |-> f.Caller + 1, objects |-> kept \o more, locals |-> here]
  <2> DEFINE g == FrameOf(D)'
  <2>1. End(D)' = used' /\ Last(D)' = last
    BY <1>1, <1>8 DEF End, Last
  <2>2. Activation(D)' = Part(mem', locals', D, g, first, used', last)
    <3>1. Activation(D)' = Part(mem', locals', D, FrameOf(D)', Begin(D)', End(D)', Last(D)')
      BY ActivationNext
    <3> QED BY <1>10, <2>1, <3>1
  <2> HIDE DEF g
  <2>3. /\ g.StackBegin = low /\ g.VariableBegin = f.VariableBegin
        /\ g.Function = f.Function /\ g.Caller = f.Caller + 1
    BY <1>7 DEF g
  <2>4. D # 0 => ObjectsIn(mem', first, low - 1) = pre
    <3> SUFFICES ASSUME D # 0 PROVE ObjectsIn(mem', first, low - 1) = pre
      OBVIOUS
    <3> DEFINE high == low - 1
    <3>1. first \in Nat /\ high \in Nat /\ first <= high /\ high <= end
      BY <1>5, <1>6
    <3> HIDE DEF first, high
    <3>2. \A o \in first + 1 .. high : mem'[o] = mem[o]
      BY <1>5, <1>9, <3>1
    <3>3. ObjectsIn(mem', first, high) = ObjectsIn(mem, first, high)
      BY <3>1, <3>2, ObjectsSame
    <3> QED BY <3>3 DEF high
  <2>5. [i \in 1 .. last - f.VariableBegin |-> locals'[f.VariableBegin + i] - first] = here
    <3>1. \A i \in 1 .. last - f.VariableBegin : locals'[f.VariableBegin + i] = locals[f.VariableBegin + i]
      <4> HIDE DEF f, last
      <4> QED BY <1>5, <1>6, <1>8
    <3> QED BY <3>1
  <2> DEFINE objects == IF D = 0 THEN own \o more ELSE pre \o (own \o more)
  <2>6. Activation(D)' = [function |-> f.Function, next |-> f.Caller + 1, objects |-> objects, locals |-> here]
    <3>1. Activation(D)' =
            [function |-> g.Function, next |-> g.Caller,
             objects |-> IF D = 0 THEN ObjectsIn(mem', g.StackBegin, used')
                         ELSE ObjectsIn(mem', first, g.StackBegin - 1) \o ObjectsIn(mem', g.StackBegin, used'),
             locals |-> [i \in 1 .. last - g.VariableBegin |-> locals'[g.VariableBegin + i] - first]]
      BY <2>2, Zenon DEF Part
    <3> HIDE DEF first, last, f, own, pre, more, here, low
    <3>2. objects = IF D = 0 THEN ObjectsIn(mem', g.StackBegin, used')
                    ELSE ObjectsIn(mem', first, g.StackBegin - 1) \o ObjectsIn(mem', g.StackBegin, used')
      BY <1>14, <2>3, <2>4
    <3> HIDE DEF objects
    <3> QED BY <2>3, <2>5, <3>1, <3>2
  <2>7. objects = kept \o more
    <3>0. more \in Seq(S)
      <4> HIDE DEF left, result
      <4> QED BY <1>12, ConcatProperties
    <3> HIDE DEF own, pre, more
    <3>1. \A x, y, z \in Seq(S) : (x \o y) \o z = x \o (y \o z)
      <4> TAKE x \in Seq(S), y \in Seq(S), z \in Seq(S)
      <4> QED BY ConcatAssociative
    <3>2. D # 0 => pre \o (own \o more) = (pre \o own) \o more
      BY <1>12, <3>0, <3>1
    <3> QED BY <3>1
  <2> QED BY <2>6, <2>7
<1>b. kept \in Seq(S) /\ kept \o more = kept \o left \o result
  <2>1. kept \in Seq(S)
    <3> HIDE DEF own, pre
    <3> QED BY <1>12, ConcatProperties
  <2> HIDE DEF kept, left, result
  <2>2. \A x, y, z \in Seq(S) : (x \o y) \o z = x \o (y \o z)
    <3> TAKE x \in Seq(S), y \in Seq(S), z \in Seq(S)
    <3> QED BY ConcatAssociative
  <2> QED BY <1>12, <2>1, <2>2
<1> HIDE DEF kept, here, result, more, left
<1>16. Activation(D)' = [Activation(D) EXCEPT !.next = @ + 1, !.objects = @ \o left \o result]
  <2> DEFINE F == f.Function
             C == f.Caller
             a == Activation(D)
             b == Activation(D)'
  <2>1. a = [function |-> F, next |-> C, objects |-> kept, locals |-> here]
    BY <1>13
  <2>2. b = [function |-> F, next |-> C + 1, objects |-> kept \o left \o result, locals |-> here]
    BY <1>15, <1>b
  <2> HIDE DEF F, C, a, b, f, low, first, last, pre, own, function
  <2>3. b = [a EXCEPT !.next = @ + 1, !.objects = @ \o left \o result]
    <3> DEFINE n == C + 1
               o == kept \o left \o result
               c == [function |-> F, next |-> n, objects |-> kept, locals |-> here]
    <3>1. a.next = C /\ a.objects = kept
      BY <2>1
    <3>2. [a EXCEPT !.next = @ + 1, !.objects = @ \o left \o result] = [a EXCEPT !.next = n, !.objects = o]
      BY <3>1
    <3>3. b = [function |-> F, next |-> n, objects |-> o, locals |-> here]
      BY <2>2
    <3> HIDE DEF n, o
    <3>4. [a EXCEPT !.next = n, !.objects = o] = [[a EXCEPT !.next = n] EXCEPT !.objects = o]
      OBVIOUS
    <3>5. [a EXCEPT !.next = n] = c
      BY <2>1
    <3>6. [c EXCEPT !.objects = o] = [function |-> F, next |-> n, objects |-> o, locals |-> here]
      OBVIOUS
    <3> QED BY <3>2, <3>3, <3>4, <3>5, <3>6
  <2> QED BY <2>3 DEF a, b
<1>17. Activation(D + 1).function = function
  <2>1. Activation(D + 1) = Part(mem, locals, D + 1, frame, end, End(D + 1), Last(D + 1))
    BY <1>5, ActivationPart
  <2> QED BY <2>1 DEF Part
<1>18. HasResult[function] => Activation(D + 1).objects[Len(Activation(D + 1).objects)] = ObjectIn(mem, used)
  <2> SUFFICES ASSUME HasResult[function]
               PROVE  Activation(D + 1).objects[Len(Activation(D + 1).objects)] = ObjectIn(mem, used)
    OBVIOUS
  <2> DEFINE T == {ObjectIn(mem, o) : o \in 1 .. used}
             lower == ObjectsIn(mem, end, begin - 1)
             top == used - SizeOf(mem[used])
             upper == ObjectsIn(mem, begin, top)
             object == ObjectIn(mem, used)
  <2>1. Activation(D + 1).objects = lower \o ObjectsIn(mem, begin, used)
    <3>1. End(D + 1) = used
      BY DEF End
    <3>2. Activation(D + 1) = Part(mem, locals, D + 1, frame, end, used, Last(D + 1))
      BY <1>5, <3>1, ActivationPart
    <3> QED BY <1>4, <3>2 DEF Part, begin
  <2>2. top \in Nat /\ begin <= top /\ begin < used /\ begin \in Nat /\ top <= used
    <3>1. Len(returned) = SizeOf(mem[used]) /\ SizeOf(mem[used]) \in Nat \ {0} /\ Len(returned) \in 0 .. used - begin
      BY <1>1, SizeFacts DEF begin
    <3> HIDE DEF last
    <3> QED BY <1>5, <3>1
  <2>3. ObjectsIn(mem, begin, used) = Append(upper, object)
    <3>1. \A t \in Nat : begin < t => ObjectsIn(mem, begin, t) =
            IF t - SizeOf(mem[t]) < begin THEN <<>> ELSE Append(ObjectsIn(mem, begin, t - SizeOf(mem[t])), ObjectIn(mem, t))
      BY <2>2, ObjectsStep
    <3>2. ~(top < begin)
      BY <2>2
    <3> HIDE DEF last
    <3> QED BY <1>5, <2>2, <3>1, <3>2
  <2>4. lower \in Seq(T) /\ upper \in Seq(T) /\ object \in T
    <3>1. \A b \in Nat, t \in 0 .. used : \A o \in b + 1 .. t : ObjectIn(mem, o) \in T
      BY <1>5
    <3>2. object \in T
      <4>1. used \in Nat /\ used > 0
        BY <1>1, <1>5
      <4> QED BY <4>1
    <3> HIDE DEF T
    <3>3. \A b \in Nat, t \in 0 .. used : b <= t => ObjectsIn(mem, b, t) \in Seq(T)
      <4> TAKE b \in Nat, t \in 0 .. used
      <4>1. t \in Nat /\ \A o \in b + 1 .. t : ObjectIn(mem, o) \in T
        BY <3>1
      <4> QED BY <4>1, ObjectsTyped
    <3>4. end \in Nat /\ begin - 1 \in 0 .. used /\ end <= begin - 1 /\ top \in 0 .. used
      <4> HIDE DEF last, top
      <4> QED BY <1>5, <2>2
    <3> QED BY <2>2, <3>2, <3>3, <3>4
  <2> HIDE DEF lower, upper, object, T
  <2>5. /\ Append(upper, object) \in Seq(T) /\ Len(Append(upper, object)) = Len(upper) + 1
        /\ Append(upper, object)[Len(upper) + 1] = object /\ Len(upper) \in Nat /\ Len(lower) \in Nat
    BY <2>4, AppendProperties
  <2> DEFINE tail == Append(upper, object)
             whole == lower \o tail
  <2> HIDE DEF tail
  <2>6. /\ Len(whole) = Len(lower) + Len(tail)
        /\ \A i \in 1 .. Len(lower) + Len(tail) : whole[i] = IF i <= Len(lower) THEN lower[i] ELSE tail[i - Len(lower)]
    BY <2>4, <2>5, ConcatProperties DEF tail
  <2>7. whole[Len(whole)] = tail[Len(tail)]
    <3>1. Len(tail) \in Nat \ {0}
      BY <2>5 DEF tail
    <3> HIDE DEF whole
    <3> DEFINE i == Len(whole)
    <3>2. i \in 1 .. Len(lower) + Len(tail) /\ ~(i <= Len(lower)) /\ i - Len(lower) = Len(tail)
      BY <2>5, <2>6, <3>1
    <3> QED BY <2>6, <3>2
  <2>8. Activation(D + 1).objects = whole
    BY <2>1, <2>3 DEF tail
  <2> HIDE DEF whole
  <2> QED BY <2>5, <2>7, <2>8 DEF tail, object
<1>19. (IF HasResult[Activation(D + 1).function] THEN <<Activation(D + 1).objects[Len(Activation(D + 1).objects)]>> ELSE <<>>)
         = result
  BY <1>17, <1>18, Zenon DEF result
<1>20. left # <<>> => \E i \in 1 .. Arity[function] : Activation(D + 1).objects[i][1].shape \in Arrays
  <2>1. left # <<>> => ArrayArguments # {}
    <3>1. stop = end => left = <<>>
      BY <1>5, ObjectsStep DEF left
    <3> QED BY <1>2, <3>1 DEF end, returned
  <2> QED BY <1>4, <2>1, ArrayPassed DEF function
<1>21. Activation(D).objects \in Seq(S) /\ left \in Seq(S) /\ result \in Seq(S)
  BY <1>12, <1>13, <1>b DEF result, left
<1> QED BY <1>1, <1>11, <1>16, <1>17, <1>19, <1>20, <1>21, Zenon

-----------------------------------------------------------------------------
(* The steps of Activations *)

\* The activations while the program runs, the newest last.
AllActivations == [d \in 1 .. depth + 1 |-> Activation(d - 1)]

\* They are a sequence with one activation for every depth, before a step and after it.
LEMMA ActivationsByDepth ==
  ASSUME depth \in Nat
  PROVE  /\ AllActivations \in Seq({Activation(d) : d \in 0 .. depth}) /\ Len(AllActivations) = depth + 1
         /\ \A d \in 0 .. depth : AllActivations[d + 1] = Activation(d)
<1> DEFINE S == {Activation(d) : d \in 0 .. depth}
<1>1. \A d \in 1 .. depth + 1 : d - 1 \in 0 .. depth /\ Activation(d - 1) \in S
  OBVIOUS
<1>2. \A d \in 0 .. depth : d + 1 \in 1 .. depth + 1 /\ (d + 1) - 1 = d
  OBVIOUS
<1> HIDE DEF S
<1>3. AllActivations \in [1 .. depth + 1 -> S]
  BY <1>1 DEF AllActivations
<1>4. \A d \in 0 .. depth : AllActivations[d + 1] = Activation((d + 1) - 1)
  BY <1>2 DEF AllActivations
<1>5. depth + 1 \in Nat
  OBVIOUS
<1>6. AllActivations \in Seq(S) /\ Len(AllActivations) = depth + 1
  <2> DEFINE n == depth + 1
             s == AllActivations
  <2>1. n \in Nat /\ s \in [1 .. n -> S]
    BY <1>3, <1>5
  <2> HIDE DEF n, s
  <2>2. s \in Seq(S) /\ Len(s) = n
    BY <2>1
  <2> QED BY <2>2 DEF n, s
<1> QED BY <1>2, <1>4, <1>6 DEF S

\* The same after a step.
LEMMA NextActivationsByDepth ==
  ASSUME depth' \in Nat
  PROVE  /\ AllActivations' \in Seq({Activation(d)' : d \in 0 .. depth'}) /\ Len(AllActivations') = depth' + 1
         /\ \A d \in 0 .. depth' : AllActivations'[d + 1] = Activation(d)'
<1> DEFINE S == {Activation(d)' : d \in 0 .. depth'}
<1>1. \A d \in 1 .. depth' + 1 : d - 1 \in 0 .. depth' /\ Activation(d - 1)' \in S
  OBVIOUS
<1>2. \A d \in 0 .. depth' : d + 1 \in 1 .. depth' + 1 /\ (d + 1) - 1 = d
  <2>1. \A n \in Nat : \A d \in 0 .. n : d + 1 \in 1 .. n + 1 /\ (d + 1) - 1 = d
    OBVIOUS
  <2> QED BY <2>1
<1> HIDE DEF S
<1>3. AllActivations' \in [1 .. depth' + 1 -> S]
  BY <1>1 DEF AllActivations
<1>4. \A d \in 0 .. depth' : AllActivations'[d + 1] = Activation((d + 1) - 1)'
  BY <1>2 DEF AllActivations
<1>5. depth' + 1 \in Nat
  <2>1. \A n \in Nat : n + 1 \in Nat
    OBVIOUS
  <2> QED BY <2>1
<1>6. AllActivations' \in Seq(S) /\ Len(AllActivations') = depth' + 1
  <2> DEFINE n == depth' + 1
             s == AllActivations'
  <2>1. n \in Nat /\ s \in [1 .. n -> S]
    BY <1>3, <1>5
  <2> HIDE DEF n, s
  <2>2. s \in Seq(S) /\ Len(s) = n
    BY <2>1
  <2> QED BY <2>2 DEF n, s
<1> QED BY <1>2, <1>4, <1>6 DEF S

\* Sequences that agree on their first k elements have the same prefix.
LEMMA SamePrefix ==
  ASSUME NEW S, NEW T, NEW old \in Seq(S), NEW new \in Seq(T), NEW k \in Nat, k <= Len(old), k <= Len(new),
         \A i \in 1 .. k : new[i] = old[i]
  PROVE  SubSeq(new, 1, k) = SubSeq(old, 1, k)
<1>1. SubSeq(old, 1, k) = [i \in 1 .. k |-> old[i]] /\ SubSeq(new, 1, k) = [i \in 1 .. k |-> new[i]]
  OBVIOUS
<1> QED BY <1>1

\* The activations but for the newest n stay when each of them does.
LEMMA KeptByDepth ==
  ASSUME depth \in Nat, depth' \in Nat, NEW n \in Nat, NEW k \in Nat, depth + 1 = k + n, k <= depth' + 1,
         \A d \in 0 .. k - 1 : Activation(d)' = Activation(d)
  PROVE  Abstract!Kept(AllActivations, AllActivations', n)
<1> DEFINE old == AllActivations
           new == AllActivations'
           S == {Activation(d) : d \in 0 .. depth}
           T == {Activation(d)' : d \in 0 .. depth'}
<1>1. old \in Seq(S) /\ Len(old) = depth + 1 /\ \A d \in 0 .. depth : old[d + 1] = Activation(d)
  BY ActivationsByDepth
<1>2. new \in Seq(T) /\ Len(new) = depth' + 1 /\ \A d \in 0 .. depth' : new[d + 1] = Activation(d)'
  BY NextActivationsByDepth
<1> HIDE DEF old, new, S, T
<1> DEFINE m == depth
           next == depth'
<1>3. m \in Nat /\ next \in Nat /\ m + 1 = k + n /\ k <= next + 1
  OBVIOUS
<1> HIDE DEF m, next
<1>4. \A i \in 1 .. k : i - 1 \in 0 .. k - 1 /\ i - 1 \in 0 .. m /\ i - 1 \in 0 .. next /\ (i - 1) + 1 = i
  BY <1>3
<1>5. \A i \in 1 .. k : new[i] = old[i]
  <2> SUFFICES ASSUME NEW i \in 1 .. k PROVE new[i] = old[i]
    OBVIOUS
  <2> DEFINE d == i - 1
  <2>1. d \in 0 .. k - 1 /\ d \in 0 .. depth /\ d \in 0 .. depth' /\ d + 1 = i
    BY <1>4 DEF m, next
  <2> HIDE DEF d
  <2>2. Activation(d)' = Activation(d) /\ old[d + 1] = Activation(d) /\ new[d + 1] = Activation(d)'
    BY <1>1, <1>2, <2>1
  <2> QED BY <2>1, <2>2
<1>6. Len(old) - n = k /\ k <= Len(old) /\ k <= Len(new)
  <2>1. Len(old) = m + 1 /\ Len(new) = next + 1
    BY <1>1, <1>2 DEF m, next
  <2> QED BY <1>3, <2>1
<1>7. SubSeq(new, 1, k) = SubSeq(old, 1, k)
  <2>1. old \in Seq(S) /\ new \in Seq(T) /\ k \in Nat /\ k <= Len(old) /\ k <= Len(new)
    BY <1>1, <1>2, <1>6
  <2> QED BY <1>5, <2>1, SamePrefix
<1> QED BY <1>6, <1>7 DEF Abstract!Kept, old, new

\* The newest activation is the last of the sequence.
LEMMA NewestByDepth ==
  ASSUME depth \in Nat
  PROVE  Len(AllActivations) = depth + 1 /\ Abstract!Newest(AllActivations) = Activation(depth)
<1>1. depth \in 0 .. depth
  OBVIOUS
<1>2. Len(AllActivations) = depth + 1 /\ AllActivations[depth + 1] = Activation(depth)
  BY <1>1, ActivationsByDepth
<1> QED BY <1>2 DEF Abstract!Newest

\* The same after a step.
LEMMA NextNewestByDepth ==
  ASSUME NEW D \in Nat, depth' = D
  PROVE  Len(AllActivations') = D + 1 /\ Abstract!Newest(AllActivations') = Activation(D)'
<1>1. depth' \in Nat /\ D \in 0 .. depth'
  OBVIOUS
<1>2. Len(AllActivations') = depth' + 1 /\ AllActivations'[D + 1] = Activation(D)'
  BY <1>1, NextActivationsByDepth
<1> QED BY <1>2 DEF Abstract!Newest

\* The activation of m_StackFrame is of its function.
LEMMA NewestFunction ==
  /\ Activation(depth).function = frame.Function
  /\ \A D : D = depth' => Activation(D)'.function = frame'.Function
<1>1. Activation(depth).function = frame.Function
  BY DEF Activation, FrameOf
<1>2. ASSUME NEW D, D = depth' PROVE Activation(D)'.function = frame'.Function
  <2>1. FrameOf(D)' = frame'
    BY <1>2 DEF FrameOf
  <2> QED BY <2>1, ActivationNext DEF Part
<1> QED BY <1>1, <1>2

\* A step that neither calls nor returns is work of the newest activation.
LEMMA WorkRefines ==
  ASSUME Inv, Inv', Isolated, Isolated', [Next]_vars, status' = "running", depth' = depth, SameFrame,
         depth > 0 => CallerKept
  PROVE  Abstract!Work(AllActivations, AllActivations')
<1>1. depth \in Nat
  BY Chain
<1>2. PICK D \in Nat : D = depth
  BY <1>1
<1>3. \A d \in 0 .. D - 1 : Activation(d)' = Activation(d)
  <2>1. CASE D > 0
    <3>1. \A i \in 1 .. First(frame) : locals'[i] = locals[i]
      BY ArgumentsStayLocals
    <3> QED BY <1>2, <2>1, <3>1, WorkKept
  <2>2. CASE ~(D > 0)
    BY <2>2
  <2> QED BY <2>1, <2>2
<1>4. Abstract!Kept(AllActivations, AllActivations', 1)
  <2>1. depth' \in Nat /\ depth + 1 = D + 1 /\ D <= depth' + 1 /\ 1 \in Nat
    BY <1>2
  <2> QED BY <1>1, <1>3, <2>1, KeptByDepth
<1>5. Len(AllActivations) = D + 1 /\ Abstract!Newest(AllActivations) = Activation(D)
  BY <1>2, NewestByDepth
<1>6. Len(AllActivations') = D + 1 /\ Abstract!Newest(AllActivations') = Activation(D)'
  BY <1>2, NextNewestByDepth
<1>7. Activation(D)'.function = Activation(D).function
  BY <1>2, NewestFunction DEF SameFrame
<1> QED BY <1>4, <1>5, <1>6, <1>7 DEF Abstract!Work

\* call of a function is a Call.
LEMMA CallRefines ==
  ASSUME Inv, Isolated, NEW function \in Functions, CallFunction(function)
  PROVE  Abstract!Call(AllActivations, AllActivations', function)
<1>1. depth \in Nat
  BY Chain
<1>2. PICK D \in Nat : D = depth
  BY <1>1
<1> DEFINE objects == Activation(D).objects
           n == Arity[function]
           next == D + 1
<1>3. /\ depth' = next
      /\ \A d \in 0 .. D - 1 : Activation(d)' = Activation(d)
      /\ n \in Nat /\ Len(objects) \in Nat /\ n <= Len(objects)
      /\ Activation(D)' = [Activation(D) EXCEPT !.objects = SubSeq(objects, 1, Len(objects) - n)]
      /\ Activation(next)'.function = function /\ Activation(next)'.next = 0
      /\ Activation(next)'.objects = SubSeq(objects, Len(objects) - n + 1, Len(objects))
      /\ Len(Activation(next)'.locals) = n
  BY <1>2, CallActivations
<1>4. next \in Nat /\ depth + 1 = D + 1 /\ D <= next + 1 /\ D \in 0 .. next /\ 1 \in Nat
  BY <1>2
<1> HIDE DEF next
<1>5. Abstract!Kept(AllActivations, AllActivations', 1)
  <2>1. depth' \in Nat /\ depth + 1 = D + 1 /\ D <= depth' + 1 /\ 1 \in Nat
    BY <1>3, <1>4
  <2> QED BY <1>1, <1>3, <2>1, KeptByDepth
<1>6. Len(AllActivations) = D + 1 /\ Abstract!Newest(AllActivations) = Activation(D)
  BY <1>2, NewestByDepth
<1>7. Len(AllActivations') = next + 1 /\ Abstract!Newest(AllActivations') = Activation(next)'
  BY <1>3, <1>4, NextNewestByDepth
<1>8. AllActivations'[D + 1] = Activation(D)'
  <2>1. depth' \in Nat /\ D \in 0 .. depth'
    BY <1>3, <1>4
  <2> QED BY <2>1, NextActivationsByDepth
<1>9. next = D + 1
  BY DEF next
<1> DEFINE old == AllActivations
           new == AllActivations'
<1>10. /\ new[Len(old)] = [Abstract!Newest(old) EXCEPT !.objects = Abstract!Remaining(objects, function)]
       /\ Abstract!Newest(old).objects = objects
  BY <1>3, <1>6, <1>8 DEF Abstract!Remaining
<1>11. Abstract!Newest(new).objects = Abstract!Arguments(objects, function)
  BY <1>3, <1>7 DEF Abstract!Arguments
<1>12. Len(new) = Len(old) + 1
  BY <1>6, <1>7, <1>9
<1>13. Len(objects) >= n
  BY <1>3
<1>14. /\ Abstract!Newest(new).function = function /\ Abstract!Newest(new).next = 0
       /\ Len(Abstract!Newest(new).locals) = n
  BY <1>3, <1>7
<1> HIDE DEF old, new, objects
<1>15. Abstract!Call(old, new, function)
  BY <1>5, <1>10, <1>11, <1>12, <1>13, <1>14, Zenon DEF Abstract!Call, old, new
<1> QED BY <1>15 DEF old, new

\* What lies between the first and the last part of a sequence.
LEMMA MiddleOf ==
  ASSUME NEW X, NEW a \in Seq(X), NEW b \in Seq(X), NEW c \in Seq(X), NEW abc, abc = a \o b \o c
  PROVE  b = SubSeq(abc, Len(a) + 1, Len(abc) - Len(c))
<1> DEFINE ab == a \o b
           n == Len(abc) - Len(c)
           d == SubSeq(abc, Len(a) + 1, n)
<1>1. Len(a) \in Nat /\ Len(b) \in Nat /\ Len(c) \in Nat
  OBVIOUS
<1>2. /\ ab \in Seq(X) /\ Len(ab) = Len(a) + Len(b)
      /\ \A i \in 1 .. Len(a) + Len(b) : ab[i] = IF i <= Len(a) THEN a[i] ELSE b[i - Len(a)]
  BY ConcatProperties
<1> HIDE DEF ab
<1>3. /\ abc \in Seq(X) /\ Len(abc) = Len(ab) + Len(c)
      /\ \A i \in 1 .. Len(ab) + Len(c) : abc[i] = IF i <= Len(ab) THEN ab[i] ELSE c[i - Len(ab)]
  <2>1. ab \in Seq(X) /\ abc = ab \o c
    BY <1>2 DEF ab
  <2> QED BY <2>1, ConcatProperties
<1>4. n = Len(a) + Len(b)
  BY <1>1, <1>2, <1>3
<1> HIDE DEF n
<1>5. d \in Seq(X) /\ Len(d) = Len(b) /\ \A i \in 1 .. Len(b) : d[i] = abc[Len(a) + i]
  <2>1. Len(a) + 1 \in 1 .. Len(abc) + 1 /\ n \in Len(a) .. Len(abc)
    BY <1>1, <1>2, <1>3, <1>4
  <2>2. abc \in Seq(X)
    BY <1>3
  <2>3. /\ d \in Seq(X) /\ Len(d) = n - (Len(a) + 1) + 1
        /\ \A i \in 1 .. n - (Len(a) + 1) + 1 : d[i] = abc[(Len(a) + 1) + i - 1]
    BY <2>1, <2>2, SubSeqProperties
  <2>4. n - (Len(a) + 1) + 1 = Len(b) /\ \A i \in 1 .. Len(b) : (Len(a) + 1) + i - 1 = Len(a) + i
    BY <1>1, <1>4
  <2> QED BY <2>3, <2>4
<1>6. \A i \in 1 .. Len(b) : abc[Len(a) + i] = b[i]
  <2> TAKE i \in 1 .. Len(b)
  <2>1. /\ Len(a) + i \in 1 .. Len(ab) + Len(c) /\ Len(a) + i <= Len(ab) /\ Len(a) + i \in 1 .. Len(a) + Len(b)
        /\ ~(Len(a) + i <= Len(a)) /\ (Len(a) + i) - Len(a) = i
    BY <1>1, <1>2
  <2> QED BY <1>2, <1>3, <2>1
<1> HIDE DEF d
<1>7. d = b
  BY <1>5, <1>6, SeqEqual
<1> QED BY <1>7 DEF d, n

\* An activation is a record with these fields.
LEMMA ActivationTyped ==
  ASSUME NEW d
  PROVE  \E f, n, o, l : Activation(d) = [function |-> f, next |-> n, objects |-> o, locals |-> l]
BY Zenon DEF Activation

\* ret in a function is a Return.
LEMMA ReturnRefines ==
  ASSUME Inv, Inv', Isolated, InterpretRet, ~Crash, ~ \E code : OccurException(code), depth # 0
  PROVE  Abstract!Return(AllActivations, AllActivations')
<1>1. depth \in Nat
  BY Chain
<1>2. PICK D \in Nat : depth = D + 1
  <2>1. depth - 1 \in Nat /\ depth = (depth - 1) + 1
    BY <1>1
  <2> QED BY <2>1
<1> DEFINE old == AllActivations
           new == AllActivations'
           last == D + 1
           function == Activation(last).function
           objects == Activation(last).objects
           result == IF HasResult[function] THEN <<objects[Len(objects)]>> ELSE <<>>
<1>3. /\ depth' = D
      /\ \A d \in 0 .. D - 1 : Activation(d)' = Activation(d)
      /\ \E X : \E left \in Seq(X) :
           /\ Activation(D).objects \in Seq(X) /\ result \in Seq(X)
           /\ left # <<>> => \E i \in 1 .. Arity[function] : objects[i][1].shape \in Arrays
           /\ Activation(D)' = [Activation(D) EXCEPT !.next = @ + 1, !.objects = @ \o left \o result]
  BY <1>2, ReturnActivations
<1>4. last \in Nat /\ depth = last /\ depth + 1 = D + 2 /\ D <= D + 1 /\ D \in 0 .. last
      /\ (D + 2) - 1 = D + 1 /\ D + 1 = (D + 2) - 1 /\ last + 1 = D + 2 /\ D + 2 > 1
  BY <1>2
<1>5. Abstract!Kept(old, new, 2)
  <2>1. depth' \in Nat /\ depth + 1 = D + 2 /\ D <= depth' + 1 /\ 2 \in Nat
    BY <1>3, <1>4
  <2> QED BY <1>1, <1>3, <2>1, KeptByDepth
<1> HIDE DEF last
<1>6. Len(old) = last + 1 /\ Abstract!Newest(old) = Activation(last)
  BY <1>1, <1>4, NewestByDepth
<1>7. Len(new) = D + 1 /\ Abstract!Newest(new) = Activation(D)'
  BY <1>3, NextNewestByDepth
<1>8. old[D + 1] = Activation(D)
  BY <1>1, <1>4, ActivationsByDepth
<1> HIDE DEF old, new
<1>9. Len(old) > 1 /\ Len(new) = Len(old) - 1 /\ old[Len(old) - 1] = Activation(D)
  BY <1>4, <1>6, <1>7, <1>8
<1>10. Abstract!Newest(old).function = function /\ Abstract!Newest(old).objects = objects
  BY <1>6
<1> HIDE DEF function, objects, result
<1>a. PICK X : \E left \in Seq(X) :
         /\ Activation(D).objects \in Seq(X) /\ result \in Seq(X)
         /\ left # <<>> => \E i \in 1 .. Arity[function] : objects[i][1].shape \in Arrays
         /\ Activation(D)' = [Activation(D) EXCEPT !.next = @ + 1, !.objects = @ \o left \o result]
  BY <1>3
<1>11. PICK left \in Seq(X) :
         /\ Activation(D).objects \in Seq(X) /\ result \in Seq(X)
         /\ left # <<>> => \E i \in 1 .. Arity[function] : objects[i][1].shape \in Arrays
         /\ Activation(D)' = [Activation(D) EXCEPT !.next = @ + 1, !.objects = @ \o left \o result]
  BY <1>a
<1> DEFINE caller == Activation(D)
           now == Activation(D)'
<1>12. now.objects = caller.objects \o left \o result
  <2>1. \E f, n, o, l : caller = [function |-> f, next |-> n, objects |-> o, locals |-> l]
    BY ActivationTyped
  <2>2. now = [caller EXCEPT !.next = @ + 1, !.objects = @ \o left \o result]
    BY <1>11
  <2> HIDE DEF caller, now
  <2> QED BY <2>1, <2>2
<1>13. left = SubSeq(now.objects, Len(caller.objects) + 1, Len(now.objects) - Len(result))
  <2>1. caller.objects \in Seq(X) /\ left \in Seq(X) /\ result \in Seq(X)
    BY <1>11
  <2> DEFINE a == caller.objects
             abc == now.objects
  <2>2. a \in Seq(X) /\ abc = a \o left \o result
    BY <1>12, <2>1
  <2> HIDE DEF a, abc
  <2>3. left = SubSeq(abc, Len(a) + 1, Len(abc) - Len(result))
    BY <2>1, <2>2, MiddleOf
  <2> QED BY <2>3 DEF a, abc
<1> HIDE DEF caller, now
<1>14. Abstract!Newest(new) = now /\ old[Len(old) - 1] = caller
  BY <1>7, <1>9 DEF caller, now
<1>15. /\ left # <<>> => \E i \in 1 .. Arity[function] : objects[i][1].shape \in Arrays
       /\ now = [caller EXCEPT !.next = @ + 1, !.objects = @ \o left \o result]
  BY <1>11 DEF caller, now
<1>16. Abstract!Return(old, new)
  BY <1>5, <1>9, <1>10, <1>13, <1>14, <1>15, Zenon DEF Abstract!Return, result
<1> QED BY <1>16 DEF old, new

\* Only Stopped leaves the program stopped, and it changes nothing.
LEMMA StoppedStays ==
  ASSUME [Next]_vars, status # "running"
  PROVE  UNCHANGED vars
<1>1. ~Fetch /\ ~FallOff
  BY DEF Fetch, FallOff
<1>2. ~InterpretPush /\ ~InterpretAPush /\ ~InterpretPop /\ ~InterpretCopy /\ ~InterpretSwap
      /\ ~ \E operand \in Operands : InterpretLoad(operand) \/ InterpretStore(operand)
  BY <1>1 DEF InterpretPush, InterpretAPush, InterpretPop, InterpretCopy, InterpretSwap, InterpretLoad,
     InterpretStore, StoreNew, StoreOver
<1>3. ~InterpretOperation /\ ~InterpretDiv /\ ~InterpretCmp /\ ~InterpretNeg /\ ~TypeCast /\ ~Unhandled
  BY <1>1 DEF InterpretOperation, InterpretDiv, InterpretCmp, InterpretNeg, TypeCast, Unhandled
<1>4. ~InterpretJmp /\ ~JumpCondition /\ ~InterpretCall /\ ~InterpretRet /\ ~UnknownOperand
  BY <1>1 DEF InterpretJmp, JumpCondition, InterpretCall, InterpretRet, UnknownOperand
<1>5. ~MemoryInstruction
  BY <1>1 DEF MemoryInstruction, InterpretNew, InterpretANew, InterpretDelete, InterpretIncDec, InterpretLea,
     InterpretFLea, InterpretCount, InterpretALea, InterpretTLoad, InterpretTStore
<1> QED BY <1>1, <1>2, <1>3, <1>4, <1>5 DEF Next, MemoryInstruction, Stopped

\* The program begins with the activation of its entrypoint.
LEMMA InitRefines == Init => Abstract!Init
<1> SUFFICES ASSUME Init PROVE Abstract!Init
  OBVIOUS
<1> DEFINE entry == [function |-> Entrypoint, next |-> 0, objects |-> <<>>, locals |-> <<>>]
<1>1. depth = 0 /\ used = 0 /\ locals = <<>> /\ status = "running"
      /\ frame = [StackBegin |-> 0, VariableBegin |-> 0, Caller |-> 0, Function |-> Entrypoint]
  BY DEF Init
<1>2. FrameOf(0) = frame /\ End(0) = 0 /\ Begin(0) = 0 /\ Last(0) = 0
  BY <1>1 DEF FrameOf, End, Begin, Last
<1>3. ObjectsIn(mem, 0, 0) = <<>>
  BY ObjectsStep
<1>4. Activation(0) = entry
  <2>1. Activation(0) = Part(mem, locals, 0, frame, 0, 0, 0)
    BY <1>2, ActivationPart
  <2>2. frame.StackBegin = 0 /\ frame.VariableBegin = 0 /\ frame.Caller = 0 /\ frame.Function = Entrypoint
    BY <1>1
  <2>3. Part(mem, locals, 0, frame, 0, 0, 0) =
          [function |-> frame.Function, next |-> frame.Caller, objects |-> ObjectsIn(mem, frame.StackBegin, 0),
           locals |-> [i \in 1 .. 0 - frame.VariableBegin |-> locals[frame.VariableBegin + i] - 0]]
    BY DEF Part
  <2>4. [i \in 1 .. 0 - frame.VariableBegin |-> locals[frame.VariableBegin + i] - 0] = <<>>
    BY <2>2
  <2> QED BY <1>3, <2>1, <2>2, <2>3, <2>4
<1>5. AllActivations = <<entry>>
  <2>1. \A d \in 1 .. depth + 1 : Activation(d - 1) = entry
    BY <1>1, <1>4
  <2> HIDE DEF entry
  <2>2. AllActivations = [d \in 1 .. 1 |-> entry]
    BY <1>1, <2>1 DEF AllActivations
  <2> QED BY <2>2
<1> QED BY <1>1, <1>5 DEF Abstract!Init, AllActivations

\* Every step is one of the activations, or leaves them.
LEMMA StepRefines ==
  ASSUME ~MixedSizes, ~LocalArguments,
         \A operand \in Operands : operand + StackSize < WordSize,
         Inv, Inv', Isolated, Isolated', LocalsDiffer, [Next]_vars
  PROVE  [Abstract!Next]_(Abstract!vars)
<1>1. CASE status # "running"
  <2>1. UNCHANGED vars
    BY <1>1, StoppedStays
  <2>2. UNCHANGED status /\ status' # "running"
    BY <1>1, <2>1 DEF vars
  <2> QED BY <1>1, <2>2 DEF Abstract!vars
<1>2. CASE status = "running" /\ status' # "running"
  BY <1>2 DEF Abstract!Next
<1>3. CASE status = "running" /\ status' = "running"
  <2> DEFINE old == AllActivations
             new == AllActivations'
  <2>1. depth' = depth /\ SameFrame => Abstract!Work(old, new)
    <3>1. depth > 0 => CallerKept
      BY NextKept
    <3> QED BY <1>3, <3>1, WorkRefines
  <2>2. ASSUME depth' < depth PROVE Abstract!Return(old, new)
    BY <2>2, OnlyRetReturns, ReturnRefines
  <2>3. ASSUME NEW function \in Functions, CallFunction(function) PROVE Abstract!Call(old, new, function)
    BY <2>3, CallRefines
  <2>4. Abstract!Work(old, new) \/ Abstract!Return(old, new) \/ \E function \in Functions : Abstract!Call(old, new, function)
    BY <1>3, <2>1, <2>2, <2>3, KindsOfStep
  <2> QED BY <1>3, <2>4 DEF Abstract!Next, AllActivations
<1> QED BY <1>1, <1>2, <1>3

-----------------------------------------------------------------------------
(* The theorem *)

\* The stack implements Activations, as ImplementsActivations states, for every program that
\* passes no local variable, exchanges objects of one size, writes through no pointer into
\* the stack, and whose operands do not wrap: whatever instructions run, and whatever is
\* left of arguments that are arrays, every call, return and step between them is one of
\* Activations.
THEOREM ActivationsImplemented ==
  ASSUME ~MixedSizes, ~LocalArguments,
         \A operand \in Operands : operand + StackSize < WordSize
  PROVE  Spec => ImplementsActivations
<1>1. Init => LocalsDiffer
  BY DEF Init, LocalsDiffer
<1>2. Inv /\ Isolated /\ LocalsDiffer /\ [Next]_vars => LocalsDiffer'
  BY NextDiffer
<1>3. Inv /\ Inv' /\ Isolated /\ Isolated' /\ LocalsDiffer /\ [Next]_vars => [Abstract!Next]_(Abstract!vars)
  BY StepRefines
<1> QED BY <1>1, <1>2, <1>3, InitRefines, Invariance, Isolation, PTL DEF Spec, ImplementsActivations, Abstract!Spec

=============================================================================
