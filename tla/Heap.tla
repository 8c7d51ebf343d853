-------------------------------- MODULE Heap --------------------------------
(***************************************************************************)
(* What malloc, calloc, valloc, realloc and free promise: the blocks that  *)
(* callers hold lie in the heap and do not overlap, until freed.           *)
(***************************************************************************)
EXTENDS Integers

CONSTANTS Addresses     \* the bytes that blocks can be made of

VARIABLES blocks        \* [address of a block -> bytes asked for]

Bytes(b, n) == b .. b + n - 1

Empty == [b \in {} |-> 0]

Init == blocks = Empty

(* The blocks with those in Out taken away and a new one, apart from the   *)
(* rest, in their place.                                                   *)
Replace(Out) ==
  \E b \in DOMAIN blocks' :
    /\ DOMAIN blocks' = (DOMAIN blocks \ Out) \cup {b}
    /\ b \notin DOMAIN blocks \ Out
    /\ blocks'[b] > 0 /\ Bytes(b, blocks'[b]) \subseteq Addresses
    /\ \A c \in DOMAIN blocks \ Out :
         /\ blocks'[c] = blocks[c]
         /\ Bytes(b, blocks'[b]) \cap Bytes(c, blocks[c]) = {}

Alloc == Replace({})

Realloc == \E b \in DOMAIN blocks : Replace({b})

Free == \E b \in DOMAIN blocks : blocks' = [c \in DOMAIN blocks \ {b} |-> blocks[c]]

Next == Alloc \/ Realloc \/ Free

Spec == Init /\ [][Next]_blocks

=============================================================================
