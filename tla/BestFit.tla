------------------------------ MODULE BestFit ------------------------------
(***************************************************************************)
(* What the list of free big bins promises klmalloc and klfree: a set of   *)
(* bins, from which a request takes a smallest one that is large enough.   *)
(***************************************************************************)
EXTENDS Naturals

CONSTANTS Bin, Size

VARIABLES size,         \* the bins made so far and what each can hold
          free,         \* those in the list
          got           \* the bins that the last request took: one or none

vars == <<size, free, got>>

Init ==
  /\ size = [b \in {} |-> 0]
  /\ free = {}
  /\ got = {}

Fits(s) == {b \in free : size[b] >= s}

Take(s) ==
  \E b \in Fits(s) :
    /\ \A c \in Fits(s) : size[b] <= size[c]
    /\ free' = free \ {b}
    /\ got' = {b}
    /\ UNCHANGED size

Grow(s) ==
  /\ Fits(s) = {}
  /\ \E b \in Bin \ DOMAIN size, n \in Size :
       /\ n >= s
       /\ size' = [c \in DOMAIN size \cup {b} |-> IF c = b THEN n ELSE size[c]]
  /\ got' = {}
  /\ UNCHANGED free

Release ==
  /\ \E b \in DOMAIN size \ free : free' = free \cup {b}
  /\ got' = {}
  /\ UNCHANGED size

Next == Release \/ \E s \in Size : Take(s) \/ Grow(s)

Spec == Init /\ [][Next]_vars

=============================================================================
