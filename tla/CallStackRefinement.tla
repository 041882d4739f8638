------------------------- MODULE CallStackRefinement -------------------------
(***************************************************************************)
(* CallStack implements Activations: the one stack of objects, saved       *)
(* frames and the one list of locals are cut into the parts that belong to *)
(* each activation.                                                        *)
(***************************************************************************)
EXTENDS CallStack

\* The place of the frame under which d frames are saved.
SavedAt(d) == CHOOSE o \in SavedFrames : Cardinality({p \in SavedFrames : p < o}) = d

\* The frames of the active functions by their depth: m_StackFrame is the newest, and
\* each call saved the one below it higher on the stack than those before.
FrameOf(d) == IF d = depth THEN frame ELSE mem[SavedAt(d)].val

\* The objects that lie above begin and up to top, in the order of their offsets.  None
\* reaches below begin where parts of activations are cut.
ObjectsBetween(begin, top) ==
  LET objects[o \in begin .. top] ==
        IF o = begin \/ o - SizeOf(mem[o]) < begin THEN <<>>
        ELSE Append(objects[o - SizeOf(mem[o])], ObjectAt(o))
  IN  objects[top]

\* Where the part of the activation begins, with its arguments.
Begin(d) ==
  LET this == FrameOf(d)
      last == locals[this.VariableBegin + Arity[this.Function]]
  IN  IF d = 0 THEN 0
      ELSE IF Arity[this.Function] = 0 THEN this.StackBegin - 1
      ELSE last - SizeOf(mem[last])

End(d) == IF d = depth THEN used ELSE Begin(d + 1)

Activation(d) ==
  LET this == FrameOf(d)
      own  == ObjectsBetween(this.StackBegin, End(d))
      last == IF d = depth THEN Len(locals) ELSE FrameOf(d + 1).VariableBegin
  IN  [function |-> this.Function,
       next     |-> this.Caller,
       objects  |-> IF d = 0 THEN own ELSE ObjectsBetween(Begin(d), this.StackBegin - 1) \o own,
       locals   |-> [i \in 1 .. last - this.VariableBegin |-> locals[this.VariableBegin + i] - Begin(d)]]

Abstract == INSTANCE Activations WITH
  activations <- IF status = "running" THEN [d \in 1 .. depth + 1 |-> Activation(d - 1)] ELSE <<>>

\* As long as no call passes a local variable, each activation has
\* objects and locals of its own: calls move the arguments, ret moves the result and may
\* leave elements of an array that was passed,
\* and nothing reaches the objects, the locals or the place in the code of an
\* activation that waits for its callee.
ImplementsActivations == Abstract!Spec

=============================================================================
