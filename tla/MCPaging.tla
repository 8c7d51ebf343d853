------------------------------ MODULE MCPaging ------------------------------
(* Instances of Paging for TLC: six-entry tables, so 36 pages.  The window *)
(* is pages 6 to 11, the heap starts at 12, and the code segment follows   *)
(* the data segment.                                                       *)
EXTENDS Paging

MCIncrements == {1, 2}

(* A page of the heap, one of the module's data and one of the code.        *)
MCFaultPages == {13, 16, 28}

=============================================================================
