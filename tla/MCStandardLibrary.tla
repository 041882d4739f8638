------------------------- MODULE MCStandardLibrary -------------------------
(***************************************************************************)
(* Instance of StandardLibrary for TLC: strings, boxes of one int, and     *)
(* arrays of ints and of boxes.                                            *)
(***************************************************************************)
EXTENDS StandardLibrary, TLC, FiniteSetsExt

CONSTANTS
  Box,       \* a structure of an int
  MaxTotal   \* cells that are allocated at a time

MCStructures == {String32, Box}
MCFields == (String32 :> <<PointerType, LongType, LongType>>) @@ (Box :> <<IntType>>)

Symmetry == Permutations(Addresses)

Bounded ==
  /\ MapThenSumSet(LAMBDA a : Len(heap[a]), Addresses) <= MaxTotal
  /\ Cardinality(StringsIn(heap)) <= 2
=============================================================================
