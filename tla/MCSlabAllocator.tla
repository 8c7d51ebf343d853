-------------------------- MODULE MCSlabAllocator --------------------------
(* Instances of SlabAllocator for TLC.                                     *)
EXTENDS SlabAllocator

(* Cells of 4 and of 8 bytes, a big bin of one page and one of two.        *)
MCRequests == {4, 7, 9, 40}

=============================================================================
