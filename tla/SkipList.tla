------------------------------ MODULE SkipList ------------------------------
(***************************************************************************)
(* src/alloc.c: the skip list of free big bins.  A bin keeps its forward   *)
(* pointers in its header, so they outlive its time in the list: a bin is  *)
(* taken out and later put back, at another level, with the pointers above *)
(* that level left as they were.                                           *)
(***************************************************************************)
EXTENDS Integers

CONSTANTS
  Bin,                  \* addresses of big bin headers, in the order of sbrk
  Size,                 \* what a bin can hold: pages * PAGE_SIZE - header
  SKIP_MAX_LEVEL

HEAD == -1              \* klmalloc_big_bins.head
NULL == 0

ASSUME SkipListAssumption ==
  /\ Bin \subseteq Nat \ {NULL}
  /\ Size \subseteq Nat \ {0}
  /\ SKIP_MAX_LEVEL \in Nat

Level == 0 .. SKIP_MAX_LEVEL

VARIABLES
  size,                 \* the bins that sbrk has made: header->size
  level,                \* klmalloc_big_bins.level
  forward,              \* [HEAD and bins -> [Level -> pointer]]
  in_use,               \* the bins that callers hold (header->head = NULL)
  taken                 \* the bins that the last klmalloc took from the list

vars == <<size, level, forward, in_use, taken>>

Init ==
  /\ size = [b \in {} |-> 0]
  /\ level = 0
  /\ forward = [n \in {HEAD} |-> [l \in Level |-> NULL]]
  /\ in_use = {}
  /\ taken = {}

(* The last node, from n on along level l, whose successor is not smaller  *)
(* than s.                                                                 *)
walk(l, n, s) ==
  LET w[m \in DOMAIN forward] ==
        LET next == forward[m][l]
        IN  IF next # NULL /\ size[next] < s THEN w[next] ELSE m
  IN  w[n]

(* The array that the three loops fill from the top level down.            *)
update(s) ==
  LET u[l \in 0 .. level] ==
        walk(l, IF l = level THEN HEAD ELSE u[l + 1], s)
  IN  u

(* Mutant of klmalloc_skip_list_findbest: the search stops at the top.     *)
findbest_on_top(s) == forward[update(s)[level]][level]

klmalloc_skip_list_findbest(s) == forward[update(s)[0]][0]

(* Mutant of klmalloc_skip_list_insert: the bin always goes to the front.  *)
insert_at_front(value, random_level) ==
  /\ level' = IF random_level > level THEN random_level ELSE level
  /\ forward' = [n \in DOMAIN forward |-> [l \in Level |->
       CASE l <= random_level /\ n = value -> forward[HEAD][l]
         [] l <= random_level /\ n = HEAD  -> value
         [] OTHER                          -> forward[n][l]]]

(* The level is random: any of Level.  A bin already first among those of  *)
(* its size would be left alone.                                           *)
klmalloc_skip_list_insert(value, random_level) ==
  LET u    == update(size[value])
      U(l) == IF l <= level THEN u[l] ELSE HEAD
      linked(n, l) ==
        CASE l <= random_level /\ n = value -> forward[U(l)][l]
          [] l <= random_level /\ n = U(l)  -> value
          [] OTHER                          -> forward[n][l]
  IN  IF forward[u[0]][0] = value
      THEN UNCHANGED <<level, forward>>
      ELSE /\ level' = IF random_level > level THEN random_level ELSE level
           /\ forward' = [n \in DOMAIN forward |-> [l \in Level |-> linked(n, l)]]

(* Mutants of klmalloc_skip_list_delete: a loop from level 1; a loop that  *)
(* ends at level 0.                                                        *)
delete_from_level_1(value) ==
  LET u == update(size[value])
  IN  /\ forward' = [n \in DOMAIN forward |-> [l \in Level |->
           IF l \in 1 .. level /\ n = u[l] /\ forward[n][l] = value
           THEN forward[value][l] ELSE forward[n][l]]]
      /\ UNCHANGED level

delete_level_0_only(value) ==
  LET u == update(size[value])
  IN  /\ forward' = [n \in DOMAIN forward |-> [l \in Level |->
           IF l = 0 /\ n = u[l] THEN forward[value][l] ELSE forward[n][l]]]
      /\ UNCHANGED level

(* The loop over the levels stops at the first where the bin is not next.  *)
klmalloc_skip_list_delete(value) ==
  LET u        == update(size[value])
      unlinked == {l \in 0 .. level : \A k \in 0 .. l : forward[u[k]][k] = value}
      after    == [n \in DOMAIN forward |-> [l \in Level |->
                     IF l \in unlinked /\ n = u[l] THEN forward[value][l] ELSE forward[n][l]]]
      occupied == {l \in 1 .. level : after[HEAD][l] # NULL}
  IN  /\ forward' = after
      /\ level' = IF occupied = {} THEN 0
                  ELSE CHOOSE l \in occupied : \A k \in occupied : k <= l

-----------------------------------------------------------------------------
(* klmalloc of a big size when the list has a bin for it.                  *)
TakeBin(s) ==
  LET bin == klmalloc_skip_list_findbest(s)
  IN  /\ bin # NULL
      /\ klmalloc_skip_list_delete(bin)
      /\ in_use' = in_use \cup {bin}
      /\ taken' = {bin}
      /\ UNCHANGED size

(* And when it has none: sbrk extends the heap, cleared, by a new bin.     *)
GrowHeap(s) ==
  /\ klmalloc_skip_list_findbest(s) = NULL
  /\ \E bin \in Bin \ DOMAIN size :
       /\ \A b \in Bin \ DOMAIN size : bin <= b
       /\ size' = [b \in DOMAIN size \cup {bin} |-> IF b = bin THEN s ELSE size[b]]
       /\ forward' = [n \in DOMAIN forward \cup {bin} |->
                        IF n = bin THEN [l \in Level |-> NULL] ELSE forward[n]]
       /\ in_use' = in_use \cup {bin}
  /\ taken' = {}
  /\ UNCHANGED level

(* klfree of a big bin.                                                    *)
FreeBin(bin) ==
  /\ \E random_level \in Level : klmalloc_skip_list_insert(bin, random_level)
  /\ in_use' = in_use \ {bin}
  /\ taken' = {}
  /\ UNCHANGED size

Next ==
  \/ \E s \in Size : TakeBin(s) \/ GrowHeap(s)
  \/ \E bin \in in_use : FreeBin(bin)

Spec == Init /\ [][Next]_vars

-----------------------------------------------------------------------------
(* The bins on level l, those that its pointers lead to from the head: the *)
(* bins in every set that the head and its pointers do not lead out of.    *)
Closed(S, l) == \A n \in S \cup {HEAD} : forward[n][l] \in S \cup {NULL}
Chain(l) == {b \in DOMAIN size : \A S \in SUBSET DOMAIN size : Closed(S, l) => b \in S}

(* Type correctness of the list's pointers.                                *)
TypeOK ==
  /\ DOMAIN size \subseteq Bin /\ \A b \in DOMAIN size : size[b] \in Size
  /\ level \in Level
  /\ forward \in [DOMAIN size \cup {HEAD} -> [Level -> DOMAIN size \cup {NULL}]]
  /\ in_use \subseteq DOMAIN size /\ taken \subseteq in_use

(* A bin is in the list exactly while nobody holds it, however often it    *)
(* has been put there, at whatever levels: none is lost, none held twice.  *)
ListHoldsFreeBins == Chain(0) = DOMAIN size \ in_use

(* On every level the bins come in order of size, each once; a level holds *)
(* some of the bins of the level below, in the order of that level; and    *)
(* the levels above the list's are empty.  A stale pointer of a bin that   *)
(* is in the list at a lower level is on no chain.  Pointers keep their    *)
(* types: no bin that was never made is pointed at.                        *)
LevelsAreSublists ==
  /\ TypeOK
  /\ \A l \in Level, n \in DOMAIN forward :
       n \in {HEAD} \cup Chain(l) =>
         LET next == forward[n][l]
         IN  next # NULL =>
               /\ n # HEAD => size[n] <= size[next]
               /\ \A m \in {HEAD} \cup Chain(l) : forward[m][l] = next => m = n
  /\ \A l \in Level \ {0} : Chain(l) \subseteq Chain(l - 1)
  /\ \A l \in Level : l > level => Chain(l) = {}

(* The bin that findbest returns is the one that delete's search for its   *)
(* size comes to first.  If another one of that size came first, delete    *)
(* would go on to the bin along level 0, but find that it does not follow  *)
(* update[0], and leave it in the list although klmalloc hands it out.     *)
FoundBinCanBeUnlinked ==
  \A s \in Size :
    LET bin == klmalloc_skip_list_findbest(s)
    IN  bin # NULL => forward[update(size[bin])[0]][0] = bin

BF == INSTANCE BestFit WITH
  free <- Chain(0),
  got  <- taken

(* The skip list gives klmalloc a smallest free bin that is large enough,  *)
(* and NULL, so that the heap grows, only when there is none.              *)
ImplementsBestFit == BF!Spec

=============================================================================
