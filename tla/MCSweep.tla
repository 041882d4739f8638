------------------------------- MODULE MCSweep -------------------------------
(* Instances of Sweep for TLC. *)
EXTENDS Sweep

CONSTANTS BlockSize,  \* m_DefaultBlockSize
          Oversized   \* the capacity of block 2

MCCapacity == [b \in Blocks |-> IF b = 2 THEN Oversized ELSE BlockSize]
=============================================================================
