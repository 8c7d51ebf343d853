---------------------------- MODULE AddressSpace ----------------------------
(***************************************************************************)
(* What paging promises the rest of the kernel: a map from pages to what   *)
(* they translate to.  Mapping or unmapping a page changes the translation *)
(* of that page and of no other, whatever page tables that takes, and a    *)
(* page newly mapped shares its frame with no other page.  The promise     *)
(* ends when memory for a page table has run out.                          *)
(***************************************************************************)
CONSTANTS Pages,        \* the virtual pages that can be mapped
          Absent        \* the translation of a page that is not mapped

VARIABLES map,          \* [Pages -> translations]
          broken        \* TRUE once a page table could not be had

vars == <<map, broken>>

Init ==
  /\ map = [v \in Pages |-> Absent]
  /\ broken = FALSE

Mapped(m) == {v \in Pages : m[v] # Absent}

Map(v) ==
  /\ map'[v] # Absent
  /\ map' = [map EXCEPT ![v] = map'[v]]
  /\ \A w \in Mapped(map) \ {v} : map[w].frame # map'[v].frame

Unmap(v) == map' = [map EXCEPT ![v] = Absent]

Next ==
  \/ broken'
  \/ ~broken' /\ \E v \in Pages : Map(v) \/ Unmap(v)

Spec == Init /\ [][Next]_vars

=============================================================================
