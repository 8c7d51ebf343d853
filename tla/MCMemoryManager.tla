-------------------------- MODULE MCMemoryManager --------------------------
(* Instances of MemoryManager for TLC.                                     *)
EXTENDS MemoryManager

(* RAM that was zero, and RAM in which two bits of a byte were left set.   *)
MCResidue == {{}, {1, 6}}

=============================================================================
