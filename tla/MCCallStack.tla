----------------------------- MODULE MCCallStack -----------------------------
(***************************************************************************)
(* Instances of CallStack for TLC: a number and a pointer, structures of   *)
(* one and of two fields, arrays of two integers and of one structure; a   *)
(* function that takes and returns a value, one that takes two values and  *)
(* one that takes none, which return nothing, and a virtual function.      *)
(***************************************************************************)
EXTENDS CallStackRefinement, TLC

CONSTANTS int, pointer, point, wide, ints, points, v0, v1, f, g, h, native

AllLayouts == (int :> <<int>>) @@ (pointer :> <<pointer>>) @@ (point :> <<point, int>>)
                @@ (wide :> <<wide, int, int>>) @@ (ints :> <<ints, int, int>>)
                @@ (points :> <<points, point, int>>)
MCLayout == [s \in Shapes |-> AllLayouts[s]]
MCTypeSize == [s \in Shapes |-> IF s \in Arrays THEN 1 ELSE Len(MCLayout[s])]
MCTargets == UNION {ObjectOf(s) : s \in Shapes}
AllCounts == (ints :> 2) @@ (points :> 1)
MCCount == [s \in Arrays |-> AllCounts[s]]
AllArities == (f :> 1) @@ (g :> 2) @@ (h :> 0) @@ (native :> 1)
MCArity == [function \in Callables |-> AllArities[function]]
MCHasResult == [function \in Callables |-> function \in {f, native}]
MCInstructionCount == [function \in Functions \cup {Entrypoint} |-> 2]
=============================================================================
