------------------------- MODULE MCLockedAllocator -------------------------
(* Instances of LockedAllocator for TLC.                                   *)
EXTENDS LockedAllocator

(* Cells of 4 bytes, and a big bin of one page.                            *)
MCLockedRequests == {4, 9}

=============================================================================
