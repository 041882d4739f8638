----------------------------- MODULE Activations -----------------------------
(***************************************************************************)
(* What call and ret promise a compiler: every activation of a function    *)
(* has objects and local variables of its own, which only the activation   *)
(* itself changes, and only while it is the newest.  A call moves the      *)
(* arguments from the caller to the callee, and ret moves the result back  *)
(* and resumes the caller after the call.                                  *)
(***************************************************************************)
EXTENDS Integers, Sequences

CONSTANTS Functions, Arity, HasResult, Entrypoint, Arrays

VARIABLES
  activations,  \* the active functions, the newest last; none after the end
  status

vars == <<activations, status>>

Newest(a) == a[Len(a)]

Init ==
  /\ activations = <<[function |-> Entrypoint, next |-> 0, objects |-> <<>>, locals |-> <<>>]>>
  /\ status = "running"

\* The steps take the activations before and after as old and new.  All but the
\* newest n of the old ones stay as they are.
Kept(old, new, n) == SubSeq(new, 1, Len(old) - n) = SubSeq(old, 1, Len(old) - n)

\* The newest activation works on its own objects and locals; the call of a
\* virtual function, with its return, is such work.
Work(old, new) ==
  /\ Len(new) = Len(old)
  /\ Kept(old, new, 1)
  /\ Newest(new).function = Newest(old).function

\* The objects that the newest activation keeps when it calls the function, and
\* those that it passes.
Remaining(objects, function) == SubSeq(objects, 1, Len(objects) - Arity[function])
Arguments(objects, function) == SubSeq(objects, Len(objects) - Arity[function] + 1, Len(objects))

Call(old, new, function) ==
  LET objects == Newest(old).objects
  IN  /\ Len(objects) >= Arity[function]
      /\ Len(new) = Len(old) + 1
      /\ Kept(old, new, 1)
      /\ new[Len(old)] = [Newest(old) EXCEPT !.objects = Remaining(objects, function)]
      /\ Newest(new).function = function /\ Newest(new).next = 0
      /\ Newest(new).objects = Arguments(objects, function)
      /\ Len(Newest(new).locals) = Arity[function]

\* Of an array that was passed, ret takes the header and may leave elements on top of
\* the caller's objects, below the result.
Return(old, new) ==
  LET function == Newest(old).function
      objects  == Newest(old).objects
      caller   == old[Len(old) - 1]
      result   == IF HasResult[function] THEN <<objects[Len(objects)]>> ELSE <<>>
      left     == SubSeq(Newest(new).objects, Len(caller.objects) + 1, Len(Newest(new).objects) - Len(result))
  IN  /\ Len(old) > 1 /\ Len(new) = Len(old) - 1
      /\ Kept(old, new, 2)
      /\ left # <<>> => \E i \in 1 .. Arity[function] : objects[i][1].shape \in Arrays
      /\ Newest(new) = [caller EXCEPT !.next = @ + 1, !.objects = @ \o left \o result]

Next ==
  /\ status = "running"
  /\ IF status' # "running"
       THEN activations' = <<>>
       ELSE LET old == activations
                new == activations'
            IN  \/ Work(old, new) \/ Return(old, new)
                \/ \E function \in Functions : Call(old, new, function)

Spec == Init /\ [][Next]_vars

=============================================================================
