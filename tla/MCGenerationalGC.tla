-------------------------- MODULE MCGenerationalGC --------------------------
(* Instances of GenerationalGC for TLC. *)
EXTENDS GenerationalGC, TLC

Symmetry == Permutations(Objects) \cup Permutations(Locals)
=============================================================================
