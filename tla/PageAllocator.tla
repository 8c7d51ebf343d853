--------------------------- MODULE PageAllocator ---------------------------
(***************************************************************************)
(* What the physical page allocator promises its callers, with no bitmap   *)
(* in sight.  Each pool has a set of available page addresses, fixed when  *)
(* the allocator boots; a caller is given an available address or, when    *)
(* there is none, NULL; an address it gives back is available again.  An   *)
(* exhausted pool may also halt the machine, because the implementation    *)
(* may fail an assertion there (see MemoryManager).                        *)
(***************************************************************************)
CONSTANTS Pool,         \* the names of the pools
          Frames,       \* [Pool -> set of page addresses]
          NULL          \* the address a failed allocation returns

VARIABLES live,         \* TRUE once the allocator has booted
          avail,        \* [Pool -> addresses that can be handed out]
          owned,        \* [Pool -> addresses callers hold]
          ret,          \* what the last allocation returned
          halted        \* TRUE when the machine has stopped

vars == <<live, avail, owned, ret, halted>>

Nothing == [p \in Pool |-> {}]

Init ==
  /\ live = FALSE
  /\ avail = Nothing
  /\ owned = Nothing
  /\ ret = NULL
  /\ halted = FALSE

(* The pages the machine keeps for itself are never made available, and    *)
(* neither is the page whose address cannot be told from NULL.             *)
Boot ==
  /\ ~halted
  /\ ~live
  /\ live' = TRUE
  /\ \A p \in Pool : avail'[p] \subseteq Frames[p] \ {NULL}
  /\ DOMAIN avail' = Pool
  /\ UNCHANGED <<owned, ret, halted>>

Alloc(p) ==
  /\ ~halted
  /\ \E a \in avail[p] :
       /\ avail' = [avail EXCEPT ![p] = @ \ {a}]
       /\ owned' = [owned EXCEPT ![p] = @ \cup {a}]
       /\ ret' = a
  /\ UNCHANGED <<live, halted>>

AllocFails(p) ==
  /\ ~halted
  /\ avail[p] = {}
  /\ ret' = NULL
  /\ UNCHANGED <<live, avail, owned, halted>>

Halt(p) ==
  /\ ~halted
  /\ live
  /\ avail[p] = {}
  /\ halted' = TRUE
  /\ UNCHANGED <<live, avail, owned, ret>>

Free(p) ==
  /\ ~halted
  /\ \E a \in owned[p] :
       /\ owned' = [owned EXCEPT ![p] = @ \ {a}]
       /\ avail' = [avail EXCEPT ![p] = @ \cup {a}]
  /\ UNCHANGED <<live, ret, halted>>

Next == Boot \/ \E p \in Pool : Alloc(p) \/ AllocFails(p) \/ Halt(p) \/ Free(p)

Spec == Init /\ [][Next]_vars

=============================================================================
