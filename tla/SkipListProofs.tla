--------------------------- MODULE SkipListProofs ---------------------------
(***************************************************************************)
(* The skip list holds the free bins, in the order of their sizes, on      *)
(* every level, and gives a best fit: for every set of bins and sizes,     *)
(* every number of levels and every order of requests.                     *)
(***************************************************************************)
EXTENDS SkipList, WellFoundedInduction, TLAPS

Below == {pair \in Nat \X Nat : pair[1] < pair[2]}

LEMMA LeastIn ==
  ASSUME NEW S, S \subseteq Nat, S # {}
  PROVE  \E m \in S : \A k \in S : m <= k
<1>1. IsWellFoundedOn(Below, Nat)
  BY NatLessThanWellFounded DEF OpToRel, Below
<1>2. PICK m \in S : \A k \in S : ~ (<<k, m>> \in Below)
  BY <1>1, WFMin
<1>3. ASSUME NEW k \in S
      PROVE  m <= k
  <2>1. k \in Nat /\ m \in Nat
    OBVIOUS
  <2>2. k < m => <<k, m>> \in Below
    BY <2>1 DEF Below
  <2>. QED  BY <1>2, <2>1, <2>2
<1>. QED  BY <1>3

(* Of the elements of S one has the highest value, if values are bounded.  *)
LEMMA Highest ==
  ASSUME NEW S, S # {}, NEW top \in Nat, NEW value,
         \A n \in S : value[n] \in 0 .. top
  PROVE  \E m \in S : \A k \in S : value[k] <= value[m]
<1> DEFINE depths == {top - value[n] : n \in S}
<1>1. depths \subseteq Nat /\ depths # {}
  OBVIOUS
<1>. HIDE DEF depths
<1>2. PICK d \in depths : \A k \in depths : d <= k
  BY <1>1, LeastIn
<1>3. PICK m \in S : d = top - value[m]
  BY <1>2 DEF depths
<1>4. ASSUME NEW k \in S
      PROVE  value[k] <= value[m]
  <2>1. top - value[k] \in depths
    BY DEF depths
  <2>2. value[k] \in 0 .. top /\ value[m] \in 0 .. top
    OBVIOUS
  <2>. QED  BY <1>2, <1>3, <2>1, <2>2
<1>. QED  BY <1>4

LEMMA Lowest ==
  ASSUME NEW S, S # {}, NEW value, \A n \in S : value[n] \in Nat
  PROVE  \E m \in S : \A k \in S : value[m] <= value[k]
<1> DEFINE values == {value[n] : n \in S}
<1>1. values \subseteq Nat /\ values # {}
  OBVIOUS
<1>2. PICK v \in values : \A k \in values : v <= k
  BY <1>1, LeastIn
<1>. QED  BY <1>2

-----------------------------------------------------------------------------
(* A pointer to follow until a node where to stop: the function that a     *)
(* recursive definition of the last node describes exists, even where the  *)
(* pointers of nodes that are in no list go round in a circle.             *)
Follows(w, S, next, stop) == w = [m \in S |-> IF m \notin stop THEN w[next[m]] ELSE m]

LEMMA LastNodeExists ==
  ASSUME NEW S, NEW next, NEW stop,
         \A m \in S : m \notin stop => next[m] \in S
  PROVE  \E w : Follows(w, S, next, stop)
<1> DEFINE Goes(T) == \A m \in T : m \notin stop => next[m] \in T
           Reach(m) == {n \in S : \A T \in SUBSET S : m \in T /\ Goes(T) => n \in T}
           Ends(m) == Reach(m) \cap stop
           w == [m \in S |-> CHOOSE n : n \in Ends(m)]
<1>0. \E any : TRUE
  OBVIOUS
<1>1. ASSUME NEW m \in S, m \notin stop
      PROVE  Ends(m) = Ends(next[m])
  <2>1. next[m] \in S
    BY <1>1
  <2>2. ASSUME NEW n \in Ends(m)
        PROVE  n \in Ends(next[m])
    <3> SUFFICES ASSUME NEW T \in SUBSET S, next[m] \in T, Goes(T)
                 PROVE  n \in T
      BY <2>2
    <3>1. m \in T \cup {m} /\ T \cup {m} \in SUBSET S /\ Goes(T \cup {m})
      OBVIOUS
    <3>2. n \in T \cup {m}
      BY <2>2, <3>1
    <3>. QED  BY <1>1, <2>2, <3>2
  <2>3. ASSUME NEW n \in Ends(next[m])
        PROVE  n \in Ends(m)
    <3> SUFFICES ASSUME NEW T \in SUBSET S, m \in T, Goes(T)
                 PROVE  n \in T
      BY <2>3
    <3>1. next[m] \in T
      BY <1>1
    <3>. QED  BY <2>3, <3>1
  <2>. QED  BY <2>2, <2>3
<1>2. ASSUME NEW m \in S, m \in stop
      PROVE  Ends(m) = {m}
  <2>1. {m} \in SUBSET S /\ Goes({m})
    BY <1>2
  <2>2. Reach(m) = {m}
    BY <2>1
  <2>. QED  BY <1>2, <2>2
<1>3. ASSUME NEW m \in S
      PROVE  w[m] = IF m \notin stop THEN w[next[m]] ELSE m
  <2>1. CASE m \notin stop
    <3>1. w[m] = (CHOOSE n : n \in Ends(m)) /\ w[next[m]] = (CHOOSE n : n \in Ends(next[m]))
      BY <2>1
    <3>2. Ends(m) = Ends(next[m])
      BY <1>1, <2>1
    <3>. HIDE DEF w, Ends
    <3>. QED  BY <2>1, <3>1, <3>2
  <2>2. CASE m \in stop
    <3>1. w[m] = (CHOOSE n : n \in Ends(m))
      OBVIOUS
    <3>2. Ends(m) = {m}
      BY <1>2, <2>2
    <3>. HIDE DEF w, Ends
    <3>. QED  BY <2>2, <3>1, <3>2
  <2>. QED  BY <2>1, <2>2
<1>4. w = [m \in S |-> IF m \notin stop THEN w[next[m]] ELSE m]
  <2>1. w = [m \in S |-> w[m]]
    OBVIOUS
  <2>. HIDE DEF w
  <2>. QED  BY <1>3, <2>1
<1>5. Follows(w, S, next, stop)
  BY <1>4 DEF Follows
<1>. HIDE DEF w
<1>. QED  BY <1>5

-----------------------------------------------------------------------------
(* The list as what its pointers stand for: the bins that are on each      *)
(* level, and their rank, which is their place on every level they are on. *)
Nodes(bins) == bins \cup {HEAD}

(* The pointer leads from n to the node of bins that comes next.           *)
LeadsOn(pointer, n, bins, rank) ==
  IF pointer = NULL
  THEN \A m \in bins : rank[m] <= rank[n]
  ELSE /\ pointer \in bins /\ rank[n] < rank[pointer]
       /\ \A m \in bins : rank[n] < rank[m] => rank[pointer] <= rank[m]

Ranked(rank, top) ==
  /\ rank \in [DOMAIN size \cup {HEAD} -> 0 .. top]
  /\ rank[HEAD] = 0
  /\ \A b \in DOMAIN size : rank[b] > 0

Sorted(bins, rank) ==
  \A m, n \in bins : /\ rank[m] = rank[n] => m = n
                     /\ size[m] < size[n] => rank[m] < rank[n]

Linked(on, rank) ==
  /\ on \in [Level -> SUBSET DOMAIN size]
  /\ on[0] = DOMAIN size \ in_use
  /\ \A l \in Level \ {0} : on[l] \subseteq on[l - 1]
  /\ \A l \in Level : l > level => on[l] = {}
  /\ Sorted(on[0], rank)
  /\ \A l \in Level : \A n \in Nodes(on[l]) : LeadsOn(forward[n][l], n, on[l], rank)

SInv ==
  /\ TypeOK
  /\ \E top \in Nat : \E on, rank : Ranked(rank, top) /\ Linked(on, rank)

-----------------------------------------------------------------------------
LEMMA Types ==
  /\ HEAD = -1 /\ NULL = 0 /\ 0 \in Level /\ Level \subseteq Nat
  /\ Bin \subseteq Nat \ {0} /\ Size \subseteq Nat \ {0} /\ HEAD \notin Bin
  /\ SKIP_MAX_LEVEL \in Nat
  /\ \A l \in Level \ {0} : l - 1 \in Level
  BY SkipListAssumption DEF HEAD, NULL, Level

(* A level has no bins that the levels below it have not.                  *)
LEMMA HigherIsFewer ==
  ASSUME NEW on, NEW rank, Linked(on, rank)
  PROVE  \A k, l \in Level : k <= l => on[l] \subseteq on[k]
<1> SUFFICES ASSUME NEW k \in Level, NEW m \in Level, k <= m, ~(on[m] \subseteq on[k])
             PROVE  FALSE
  OBVIOUS
<1> DEFINE bad == {l \in Level : k <= l /\ ~(on[l] \subseteq on[k])}
<1>1. PICK l \in bad : \A j \in bad : l <= j
  <2>1. bad \subseteq Nat /\ bad # {}
    BY Types
  <2>. HIDE DEF bad
  <2>. QED  BY <2>1, LeastIn
<1>2. l # k
  BY <1>1
<1>3. l \in Level \ {0} /\ l - 1 \in Level /\ k <= l - 1 /\ l \in Nat /\ k \in Nat
  BY <1>1, <1>2, Types
<1>4. on[l - 1] \subseteq on[k]
  BY <1>1, <1>3
<1>5. on[l] \subseteq on[l - 1]
  BY <1>3 DEF Linked
<1>. QED  BY <1>1, <1>4, <1>5

(* The pointers of a level lead through its bins and no others.            *)
LEMMA ChainIs ==
  ASSUME TypeOK, NEW top \in Nat, NEW on, NEW rank, Ranked(rank, top), Linked(on, rank),
         NEW l \in Level
  PROVE  Chain(l) = on[l]
<1>1. on[l] \subseteq DOMAIN size /\ DOMAIN forward = DOMAIN size \cup {HEAD} /\ DOMAIN size \subseteq Bin
  BY DEF Linked, TypeOK
<1>2. on[l] \subseteq on[0]
  BY HigherIsFewer, Types
<1>3. \A n \in Nodes(on[l]) : rank[n] \in 0 .. top /\ n \in DOMAIN forward
  BY <1>1 DEF Ranked, Nodes
<1>4. Chain(l) \subseteq on[l]
  <2>1. Closed(on[l], l)
    BY DEF Closed, Nodes, Linked, LeadsOn
  <2>. QED  BY <1>1, <2>1 DEF Chain
<1>5. ASSUME NEW S \in SUBSET DOMAIN size, Closed(S, l), ~(on[l] \subseteq S)
      PROVE  FALSE
  <2>1. PICK n \in on[l] \ S : \A m \in on[l] \ S : rank[n] <= rank[m]
    <3>1. \A m \in on[l] \ S : rank[m] \in Nat
      BY <1>3 DEF Nodes
    <3>. QED  BY <1>5, <3>1, Lowest
  <2> DEFINE before == {m \in Nodes(on[l]) : rank[m] < rank[n]}
  <2>2. HEAD \in before /\ before \subseteq S \cup {HEAD}
    <3>1. rank[HEAD] < rank[n]
      BY <1>1, <2>1 DEF Ranked
    <3>. QED  BY <1>3, <1>5, <2>1, <3>1 DEF Nodes
  <2>3. PICK p \in before : \A m \in before : rank[m] <= rank[p]
    <3>1. \A m \in before : rank[m] \in 0 .. top
      BY <1>3
    <3>2. before # {}
      BY <2>2
    <3>. HIDE DEF before
    <3>. QED  BY <3>1, <3>2, Highest
  <2> DEFINE next == forward[p][l]
  <2>4. LeadsOn(next, p, on[l], rank) /\ rank[p] < rank[n] /\ p \in S \cup {HEAD}
    BY <2>2, <2>3 DEF Linked
  <2>5. next # NULL /\ next \in on[l] /\ rank[p] < rank[next] /\ rank[next] <= rank[n]
    BY <1>3, <2>1, <2>3, <2>4 DEF LeadsOn, Nodes
  <2>6. ~(rank[next] < rank[n])
    BY <1>3, <2>3, <2>5 DEF Nodes
  <2>7. next = n
    BY <1>2, <1>3, <2>1, <2>5, <2>6 DEF Linked, Sorted, Nodes
  <2>8. next \in S
    BY <1>5, <2>4, <2>5 DEF Closed
  <2>. QED  BY <2>1, <2>7, <2>8
<1>6. on[l] \subseteq Chain(l)
  BY <1>1, <1>5 DEF Chain
<1>. QED  BY <1>4, <1>6

(* What holds of each level by itself.                                     *)
LEMMA LevelHolds ==
  ASSUME TypeOK, NEW top \in Nat, NEW on, NEW rank, Ranked(rank, top), Linked(on, rank),
         NEW l \in Level
  PROVE  /\ on[l] \subseteq DOMAIN size /\ on[l] \subseteq on[0]
         /\ \A b \in on[l] : /\ b # HEAD /\ b # NULL /\ size[b] \in Nat
                             /\ rank[b] \in 0 .. top /\ rank[b] > 0
         /\ rank[HEAD] = 0
         /\ Sorted(on[l], rank)
         /\ \A n \in Nodes(on[l]) : LeadsOn(forward[n][l], n, on[l], rank)
<1>1. on[l] \subseteq on[0]
  BY HigherIsFewer, Types
<1>2. on[l] \subseteq DOMAIN size
  BY DEF Linked
<1>3. \A b \in DOMAIN size : b # HEAD /\ b # NULL /\ size[b] \in Nat
  BY Types DEF TypeOK
<1>4. \A b \in DOMAIN size : rank[b] \in 0 .. top /\ rank[b] > 0
  BY DEF Ranked
<1>5. rank[HEAD] = 0
  BY DEF Ranked
<1>6. Sorted(on[l], rank)
  BY <1>1 DEF Linked, Sorted
<1>7. \A n \in Nodes(on[l]) : LeadsOn(forward[n][l], n, on[l], rank)
  BY DEF Linked
<1>. QED  BY <1>1, <1>2, <1>3, <1>4, <1>5, <1>6, <1>7

(* The last of the bins that are smaller than s, or the head.              *)
LastBelow(n, bins, rank, s) ==
  /\ n \in Nodes(bins)
  /\ n = HEAD \/ size[n] < s
  /\ \A m \in bins : size[m] < s => rank[m] <= rank[n]

LEMMA LastBelowExists ==
  ASSUME TypeOK, NEW top \in Nat, NEW on, NEW rank, Ranked(rank, top), Linked(on, rank),
         NEW l \in Level, NEW s \in Nat
  PROVE  \E n : LastBelow(n, on[l], rank, s)
<1> DEFINE small == {n \in Nodes(on[l]) : n = HEAD \/ size[n] < s}
<1>1. on[l] \subseteq DOMAIN size /\ HEAD \in small
  BY DEF Linked, Nodes
<1>2. \A n \in small : rank[n] \in 0 .. top
  BY <1>1 DEF Ranked, Nodes
<1>3. PICK n \in small : \A m \in small : rank[m] <= rank[n]
  <2>1. small # {}
    BY <1>1
  <2>. HIDE DEF small
  <2>. QED  BY <1>2, <2>1, Highest
<1>. QED  BY <1>3 DEF LastBelow, Nodes

LEMMA LastBelowIsOne ==
  ASSUME TypeOK, NEW top \in Nat, NEW on, NEW rank, Ranked(rank, top), Linked(on, rank),
         NEW l \in Level, NEW s \in Nat,
         NEW m, NEW n, LastBelow(m, on[l], rank, s), LastBelow(n, on[l], rank, s)
  PROVE  m = n
<1>1. Sorted(on[l], rank)
  BY LevelHolds
<1>2. /\ \A b \in on[l] : rank[b] \in Nat /\ rank[b] > 0
      /\ rank[HEAD] = 0
  BY LevelHolds
<1>3. CASE m = HEAD \/ n = HEAD
  BY <1>2, <1>3 DEF LastBelow, Nodes
<1>4. CASE m # HEAD /\ n # HEAD
  <2>1. rank[m] = rank[n] /\ m \in on[l] /\ n \in on[l]
    BY <1>2, <1>4 DEF LastBelow, Nodes
  <2>. QED  BY <1>1, <2>1 DEF Sorted
<1>. QED  BY <1>3, <1>4

(* The bin after the last that is smaller than s: the first that is not.   *)
LEMMA FirstNotBelow ==
  ASSUME TypeOK, NEW top \in Nat, NEW on, NEW rank, Ranked(rank, top), Linked(on, rank),
         NEW l \in Level, NEW s \in Nat, NEW u, LastBelow(u, on[l], rank, s)
  PROVE  LET first == forward[u][l]
         IN  /\ LeadsOn(first, u, on[l], rank)
             /\ first = NULL => \A m \in on[l] : size[m] < s
             /\ first # NULL => /\ first \in on[l] /\ size[first] >= s
                                /\ \A m \in on[l] : size[m] >= s => rank[first] <= rank[m]
<1> DEFINE first == forward[u][l]
<1>1. LeadsOn(first, u, on[l], rank) /\ u \in Nodes(on[l])
  BY LevelHolds DEF LastBelow
<1>2. /\ \A b \in on[l] : size[b] \in Nat /\ rank[b] \in Nat /\ rank[b] > 0
      /\ rank[HEAD] = 0 /\ Sorted(on[l], rank)
  BY LevelHolds
<1>3. \A m \in on[l] : size[m] >= s => rank[u] < rank[m]
  <2> SUFFICES ASSUME NEW m \in on[l], size[m] >= s
               PROVE  rank[u] < rank[m]
    OBVIOUS
  <2>1. CASE u = HEAD
    BY <1>2, <2>1
  <2>2. CASE u # HEAD
    <3>1. u \in on[l] /\ size[u] < size[m]
      BY <1>2, <2>2 DEF LastBelow, Nodes
    <3>. QED  BY <1>2, <3>1 DEF Sorted
  <2>. QED  BY <2>1, <2>2
<1>4. \A m \in on[l] : rank[u] < rank[m] => size[m] >= s
  BY <1>1, <1>2 DEF LastBelow, Nodes
<1>5. rank[u] \in Nat
  BY <1>1, <1>2 DEF Nodes
<1>6. ASSUME first = NULL
      PROVE  \A m \in on[l] : size[m] < s
  <2> SUFFICES ASSUME NEW m \in on[l], ~(size[m] < s)
               PROVE  FALSE
    OBVIOUS
  <2>1. rank[u] < rank[m]
    BY <1>2, <1>3
  <2>2. rank[m] <= rank[u]
    BY <1>1, <1>6 DEF LeadsOn
  <2>. QED  BY <1>2, <1>5, <2>1, <2>2
<1>7. ASSUME first # NULL
      PROVE  /\ first \in on[l] /\ size[first] >= s
             /\ \A m \in on[l] : size[m] >= s => rank[first] <= rank[m]
  BY <1>1, <1>3, <1>4, <1>7 DEF LeadsOn
<1>. QED  BY <1>1, <1>6, <1>7

(* Walking from a node that is not too far ends there.                     *)
LEMMA WalkFinds ==
  ASSUME TypeOK, NEW top \in Nat, NEW on, NEW rank, Ranked(rank, top), Linked(on, rank),
         NEW l \in Level, NEW s \in Nat,
         NEW n \in Nodes(on[l]), n = HEAD \/ size[n] < s,
         NEW u, LastBelow(u, on[l], rank, s)
  PROVE  walk(l, n, s) = u
<1> DEFINE S == DOMAIN forward
           stop == {m \in S : ~(forward[m][l] # NULL /\ size[forward[m][l]] < s)}
           next == [m \in S |-> forward[m][l]]
           IsWalk(w) == w = [m \in S |-> IF forward[m][l] # NULL /\ size[forward[m][l]] < s
                                         THEN w[forward[m][l]] ELSE m]
           walked == CHOOSE w : IsWalk(w)
<1>1. IsWalk(walked)
  <2>1. \A m \in S : m \notin stop => next[m] \in S
    BY DEF TypeOK
  <2>2. PICK w : Follows(w, S, next, stop)
    <3>. HIDE DEF S, stop, next
    <3>. QED  BY <2>1, LastNodeExists
  <2>3. IsWalk(w)
    BY <2>2 DEF Follows
  <2>. HIDE DEF IsWalk
  <2>. QED  BY <2>3
<1>2. walk(l, n, s) = walked[n]
  BY Zenon DEF walk
<1>3. \A m \in S : walked[m] = IF forward[m][l] # NULL /\ size[forward[m][l]] < s
                               THEN walked[forward[m][l]] ELSE m
  <2>. HIDE DEF walked
  <2>. QED  BY <1>1
<1>. HIDE DEF walked, IsWalk, stop, next
<1>4. on[l] \subseteq DOMAIN size /\ Nodes(on[l]) \subseteq S
  BY LevelHolds DEF TypeOK, Nodes
<1>5. /\ \A m \in Nodes(on[l]) : rank[m] \in 0 .. top
      /\ \A b \in on[l] : b # HEAD /\ rank[b] > 0 /\ size[b] \in Nat
      /\ rank[HEAD] = 0 /\ Sorted(on[l], rank)
  BY LevelHolds DEF Nodes
<1> DEFINE first == forward[u][l]
<1>6. walked[u] = u
  <2>1. first # NULL => size[first] >= s /\ size[first] \in Nat
    BY <1>4, FirstNotBelow, Types DEF TypeOK
  <2>2. u \in S
    BY <1>4 DEF LastBelow
  <2>. QED  BY <1>3, <2>1, <2>2
<1> DEFINE wrong == {m \in Nodes(on[l]) : (m = HEAD \/ size[m] < s) /\ walked[m] # u}
<1>7. wrong = {}
  <2> SUFFICES ASSUME wrong # {}
               PROVE  FALSE
    OBVIOUS
  <2>1. PICK m \in wrong : \A k \in wrong : rank[k] <= rank[m]
    <3>1. \A k \in wrong : rank[k] \in 0 .. top
      BY <1>5
    <3>. HIDE DEF wrong
    <3>. QED  BY <3>1, Highest
  <2>2. m # u /\ m \in Nodes(on[l])
    BY <1>6, <2>1
  <2>3. rank[m] <= rank[u]
    BY <1>5, <2>1 DEF LastBelow, Nodes
  <2>4. rank[m] < rank[u] /\ u \in on[l]
    <3>1. rank[m] # rank[u]
      BY <1>5, <2>2 DEF Sorted, LastBelow, Nodes
    <3>. QED  BY <1>5, <2>2, <2>3, <3>1 DEF LastBelow, Nodes
  <2> DEFINE after == forward[m][l]
  <2>5. LeadsOn(after, m, on[l], rank)
    BY <2>2, LevelHolds
  <2>6. after # NULL /\ after \in on[l] /\ rank[m] < rank[after] /\ rank[after] <= rank[u]
    BY <1>5, <2>2, <2>4, <2>5 DEF LeadsOn, Nodes
  <2>7. size[after] < s
    <3>1. ~(rank[u] < rank[after])
      BY <1>5, <2>4, <2>6 DEF Nodes
    <3>2. ~(size[u] < size[after])
      BY <1>5, <2>4, <2>6, <3>1 DEF Sorted
    <3>. QED  BY <1>5, <2>4, <2>6, <3>2 DEF LastBelow
  <2>8. walked[m] = walked[after]
    BY <1>3, <1>4, <2>2, <2>6, <2>7
  <2>9. after \in wrong
    BY <2>1, <2>6, <2>7, <2>8 DEF Nodes
  <2>. QED  BY <1>5, <2>1, <2>2, <2>6, <2>9 DEF Nodes
<1>. QED  BY <1>2, <1>7

(* Each level's search starts where the one above it ended, and finds the  *)
(* last bin that is smaller.                                               *)
LEMMA UpdateFinds ==
  ASSUME TypeOK, NEW top \in Nat, NEW on, NEW rank, Ranked(rank, top), Linked(on, rank),
         NEW s \in Nat
  PROVE  \A l \in 0 .. level : LastBelow(update(s)[l], on[l], rank, s)
<1> DEFINE found == [l \in 0 .. level |-> CHOOSE n : LastBelow(n, on[l], rank, s)]
           IsUpdate(u) == u = [l \in 0 .. level |->
                                 walk(l, IF l = level THEN HEAD ELSE u[l + 1], s)]
           chosen == CHOOSE u : IsUpdate(u)
<1>1. level \in Nat /\ 0 .. level \subseteq Level
  BY Types DEF TypeOK, Level
<1>2. ASSUME NEW l \in 0 .. level
      PROVE  LastBelow(found[l], on[l], rank, s)
  <2>1. \E n : LastBelow(n, on[l], rank, s)
    BY <1>1, LastBelowExists
  <2>. QED  BY <2>1
<1>. HIDE DEF found
<1>3. ASSUME NEW l \in 0 .. level, NEW n \in Nodes(on[l]), n = HEAD \/ size[n] < s
      PROVE  walk(l, n, s) = found[l]
  BY <1>1, <1>2, <1>3, WalkFinds
<1>4. ASSUME NEW l \in 0 .. level, l # level
      PROVE  walk(l, found[l + 1], s) = found[l]
  <2>1. l + 1 \in 0 .. level /\ l + 1 \in Level \ {0} /\ (l + 1) - 1 = l
    BY <1>1, <1>4
  <2>2. found[l + 1] \in Nodes(on[l])
    BY <1>2, <2>1 DEF Linked, LastBelow, Nodes
  <2>3. found[l + 1] = HEAD \/ size[found[l + 1]] < s
    BY <1>2, <2>1 DEF LastBelow
  <2>. QED  BY <1>3, <2>2, <2>3
<1>5. \A l \in 0 .. level : walk(l, HEAD, s) = found[l]
  BY <1>3 DEF Nodes
<1>6. IsUpdate(found)
  <2>1. found = [l \in 0 .. level |-> found[l]]
    BY DEF found
  <2>. QED  BY <1>4, <1>5, <2>1
<1>7. IsUpdate(chosen)
  <2>. HIDE DEF IsUpdate
  <2>. QED  BY <1>6
<1>8. update(s) = chosen
  BY Zenon DEF update
<1>9. \A l \in 0 .. level :
        chosen[l] = walk(l, IF l = level THEN HEAD ELSE chosen[l + 1], s)
  <2>. HIDE DEF chosen
  <2>. QED  BY <1>7
<1>. HIDE DEF chosen, IsUpdate
<1> DEFINE wrong == {l \in 0 .. level : chosen[l] # found[l]}
<1>10. wrong = {}
  <2> SUFFICES ASSUME wrong # {}
               PROVE  FALSE
    OBVIOUS
  <2> DEFINE same == [n \in wrong |-> n]
  <2>1. PICK l \in wrong : \A k \in wrong : k <= l
    <3>1. \A n \in wrong : same[n] \in 0 .. level
      OBVIOUS
    <3>2. \E m \in wrong : \A k \in wrong : same[k] <= same[m]
      <4>. HIDE DEF wrong, same
      <4>. QED  BY <1>1, <3>1, Highest
    <3>. QED  BY <3>2
  <2>2. l # level /\ l \in 0 .. level
    BY <1>5, <1>9, <2>1
  <2>3. l + 1 \in 0 .. level /\ l + 1 \notin wrong
    BY <1>1, <2>1, <2>2
  <2>4. chosen[l + 1] = found[l + 1]
    BY <2>3
  <2>. QED  BY <1>4, <1>9, <2>1, <2>2, <2>4
<1>. QED  BY <1>2, <1>8, <1>10

(* The bins after the last that is smaller are the others.                 *)
LEMMA LaterIsLarger ==
  ASSUME TypeOK, NEW top \in Nat, NEW on, NEW rank, Ranked(rank, top), Linked(on, rank),
         NEW l \in Level, NEW s \in Nat, NEW u, LastBelow(u, on[l], rank, s)
  PROVE  \A m \in on[l] : size[m] >= s <=> rank[u] < rank[m]
<1>1. /\ \A b \in on[l] : size[b] \in Nat /\ rank[b] \in Nat /\ rank[b] > 0
      /\ rank[HEAD] = 0 /\ Sorted(on[l], rank)
  BY LevelHolds
<1>2. u \in Nodes(on[l]) /\ rank[u] \in Nat
  BY <1>1 DEF LastBelow, Nodes
<1> SUFFICES ASSUME NEW m \in on[l]
             PROVE  size[m] >= s <=> rank[u] < rank[m]
  OBVIOUS
<1>3. ASSUME size[m] >= s
      PROVE  rank[u] < rank[m]
  <2>1. CASE u = HEAD
    BY <1>1, <2>1
  <2>2. CASE u # HEAD
    <3>1. u \in on[l] /\ size[u] < size[m]
      BY <1>1, <1>3, <2>2 DEF LastBelow, Nodes
    <3>. QED  BY <1>1, <3>1 DEF Sorted
  <2>. QED  BY <2>1, <2>2
<1>4. ASSUME ~(size[m] >= s)
      PROVE  ~(rank[u] < rank[m])
  BY <1>1, <1>2, <1>4 DEF LastBelow
<1>. QED  BY <1>3, <1>4

(* Where two nodes of a level lead on to the same bin they are one.        *)
LEMMA OneBefore ==
  ASSUME TypeOK, NEW top \in Nat, NEW on, NEW rank, Ranked(rank, top), Linked(on, rank),
         NEW l \in Level, NEW m \in Nodes(on[l]), NEW n \in Nodes(on[l]),
         forward[m][l] = forward[n][l], forward[n][l] # NULL
  PROVE  m = n
<1> DEFINE next == forward[n][l]
<1>1. /\ \A b \in on[l] : b # HEAD /\ rank[b] \in Nat /\ rank[b] > 0
      /\ rank[HEAD] = 0 /\ Sorted(on[l], rank)
  BY LevelHolds
<1>2. LeadsOn(next, m, on[l], rank) /\ LeadsOn(next, n, on[l], rank)
  BY LevelHolds
<1>3. /\ rank[m] < rank[next] /\ rank[n] < rank[next]
      /\ \A b \in on[l] : /\ rank[m] < rank[b] => rank[next] <= rank[b]
                          /\ rank[n] < rank[b] => rank[next] <= rank[b]
      /\ rank[next] \in Nat
  BY <1>1, <1>2 DEF LeadsOn
<1>4. rank[m] = rank[n]
  BY <1>1, <1>3 DEF Nodes
<1>. QED  BY <1>1, <1>4 DEF Nodes, Sorted

-----------------------------------------------------------------------------
(* klfree puts a bin before all that are not smaller, on the levels up to  *)
(* the random one.                                                         *)
LEMMA InsertLinks ==
  ASSUME TypeOK, NEW top \in Nat, NEW on, NEW rank, Ranked(rank, top), Linked(on, rank),
         NEW bin \in in_use, NEW random_level \in Level,
         klmalloc_skip_list_insert(bin, random_level),
         in_use' = in_use \ {bin}, UNCHANGED size, taken' = {}
  PROVE  /\ TypeOK'
         /\ \E on2, rank2 : /\ Ranked(rank2, top + 1)' /\ Linked(on2, rank2)'
                            /\ on2[0] = on[0] \cup {bin}
<1> DEFINE need == size[bin]
           found == update(need)
           prior(l) == IF l <= level THEN found[l] ELSE HEAD
<1>1. /\ bin \in DOMAIN size /\ bin \notin on[0] /\ bin # HEAD /\ bin # NULL /\ need \in Nat
      /\ level \in Level /\ 0 \in Level /\ Level \subseteq Nat
      /\ 0 .. level \subseteq Level /\ 0 \in 0 .. level
      /\ DOMAIN forward = DOMAIN size \cup {HEAD}
      /\ on \in [Level -> SUBSET DOMAIN size]
      /\ \A l \in Level : l > level => on[l] = {}
  <2>1. bin \in DOMAIN size /\ bin \notin on[0]
    BY DEF TypeOK, Linked
  <2>2. bin # HEAD /\ bin # NULL /\ need \in Nat
    BY <2>1, Types DEF TypeOK
  <2>3. level \in Level /\ DOMAIN forward = DOMAIN size \cup {HEAD}
    BY DEF TypeOK
  <2>4. 0 .. level \subseteq Level /\ 0 \in 0 .. level
    BY <2>3, Types DEF Level
  <2>5. on \in [Level -> SUBSET DOMAIN size] /\ \A l \in Level : l > level => on[l] = {}
    BY DEF Linked
  <2>. QED  BY <2>1, <2>2, <2>3, <2>4, <2>5, Types
<1>2. \A l \in Level : LastBelow(prior(l), on[l], rank, need)
  <2>. HIDE DEF need
  <2>1. \A l \in 0 .. level : LastBelow(found[l], on[l], rank, need)
    BY <1>1, UpdateFinds
  <2>2. \A l \in Level : l > level => LastBelow(HEAD, on[l], rank, need)
    BY <1>1 DEF LastBelow, Nodes
  <2>. HIDE DEF found
  <2>. QED  BY <1>1, <2>1, <2>2
<1>3. /\ level' = IF random_level > level THEN random_level ELSE level
      /\ DOMAIN forward' = DOMAIN forward /\ \A n \in DOMAIN forward : DOMAIN forward'[n] = Level
      /\ forward' = [n \in DOMAIN forward |-> [l \in Level |-> forward'[n][l]]]
      /\ \A n \in DOMAIN forward, l \in Level :
           forward'[n][l] = IF l <= random_level /\ n = bin THEN forward[prior(l)][l]
                            ELSE IF l <= random_level /\ n = prior(l) THEN bin ELSE forward[n][l]
  <2>1. forward[found[0]][0] # bin
    <3>1. LastBelow(found[0], on[0], rank, need)
      BY <1>1, <1>2
    <3>. HIDE DEF need, found
    <3>2. forward[found[0]][0] # NULL => forward[found[0]][0] \in on[0]
      BY <1>1, <3>1, FirstNotBelow
    <3>. QED  BY <1>1, <3>2
  <2> DEFINE pointer(n, l) ==
               CASE l <= random_level /\ n = bin      -> forward[prior(l)][l]
                 [] l <= random_level /\ n = prior(l) -> bin
                 [] OTHER                             -> forward[n][l]
  <2>2. ~(forward[found[0]][0] = bin) =>
          /\ level' = IF random_level > level THEN random_level ELSE level
          /\ forward' = [n \in DOMAIN forward |-> [l \in Level |-> pointer(n, l)]]
    BY Zenon DEF klmalloc_skip_list_insert
  <2>3. \A l \in Level : prior(l) # bin
    BY <1>1, <1>2, LevelHolds DEF LastBelow, Nodes
  <2>4. \A n, l : l \in Level =>
          pointer(n, l) = IF l <= random_level /\ n = bin THEN forward[prior(l)][l]
                          ELSE IF l <= random_level /\ n = prior(l) THEN bin ELSE forward[n][l]
    <3>. HIDE DEF prior
    <3>. QED  BY <2>3
  <2>. HIDE DEF pointer, prior, found
  <2>. QED  BY <2>1, <2>2, <2>4
<1>. HIDE DEF need, prior, found
<1>4. \A l \in Level :
        /\ on[l] \subseteq on[0] /\ bin \notin on[l] /\ on[l] \subseteq DOMAIN size
        /\ prior(l) \in Nodes(on[l]) /\ prior(l) # bin
        /\ \A m \in on[l] : size[m] >= need <=> rank[prior(l)] < rank[m]
        /\ LeadsOn(forward[prior(l)][l], prior(l), on[l], rank)
        /\ \A n \in Nodes(on[l]) : LeadsOn(forward[n][l], n, on[l], rank)
  <2> SUFFICES ASSUME NEW l \in Level
               PROVE  /\ on[l] \subseteq on[0] /\ bin \notin on[l] /\ on[l] \subseteq DOMAIN size
                      /\ prior(l) \in Nodes(on[l]) /\ prior(l) # bin
                      /\ \A m \in on[l] : size[m] >= need <=> rank[prior(l)] < rank[m]
                      /\ LeadsOn(forward[prior(l)][l], prior(l), on[l], rank)
                      /\ \A n \in Nodes(on[l]) : LeadsOn(forward[n][l], n, on[l], rank)
    OBVIOUS
  <2>1. on[l] \subseteq on[0] /\ on[l] \subseteq DOMAIN size
    BY LevelHolds
  <2>2. prior(l) \in Nodes(on[l])
    BY <1>2 DEF LastBelow
  <2>3. \A m \in on[l] : size[m] >= need <=> rank[prior(l)] < rank[m]
    BY <1>1, <1>2, LaterIsLarger
  <2>4. \A n \in Nodes(on[l]) : LeadsOn(forward[n][l], n, on[l], rank)
    BY LevelHolds
  <2>5. bin \notin on[l] /\ prior(l) # bin
    BY <1>1, <2>1, <2>2 DEF Nodes
  <2>. QED  BY <2>1, <2>2, <2>3, <2>4, <2>5
<1>5. /\ \A b \in on[0] : b # HEAD /\ b # bin /\ size[b] \in Nat /\ rank[b] \in 0 .. top /\ rank[b] > 0
      /\ rank[HEAD] = 0 /\ Sorted(on[0], rank)
      /\ rank[prior(0)] \in 0 .. top
  <2>1. /\ \A b \in on[0] : b # HEAD /\ size[b] \in Nat /\ rank[b] \in 0 .. top /\ rank[b] > 0
        /\ rank[HEAD] = 0 /\ Sorted(on[0], rank)
    BY <1>1, LevelHolds
  <2>. QED  BY <1>1, <1>4, <2>1 DEF Nodes
<1>a. PICK place : place = rank[prior(0)] + 1
  OBVIOUS
<1>b. PICK rank2 : rank2 = [n \in DOMAIN size \cup {HEAD} |->
                              IF n = bin THEN place
                              ELSE IF n \in on[0] /\ size[n] >= need THEN rank[n] + 1 ELSE rank[n]]
  OBVIOUS
<1>c. PICK on2 : on2 = [l \in Level |-> IF l <= random_level THEN on[l] \cup {bin} ELSE on[l]]
  OBVIOUS
<1>d. /\ \A n \in DOMAIN size \cup {HEAD} :
           rank2[n] = IF n = bin THEN place
                      ELSE IF n \in on[0] /\ size[n] >= need THEN rank[n] + 1 ELSE rank[n]
      /\ DOMAIN rank2 = DOMAIN size \cup {HEAD} /\ rank2 = [n \in DOMAIN size \cup {HEAD} |-> rank2[n]]
  BY <1>b
<1>e. \A l \in Level : on2[l] = IF l <= random_level THEN on[l] \cup {bin} ELSE on[l]
  BY <1>c
<1>6. Ranked(rank2, top + 1)'
  <2>1. rank \in [DOMAIN size \cup {HEAD} -> 0 .. top] /\ \A n \in DOMAIN size : rank[n] > 0
    BY DEF Ranked
  <2>2. \A n \in DOMAIN size \cup {HEAD} : rank2[n] \in 0 .. top + 1
    <3>1. place \in 1 .. top + 1
      BY <1>5, <1>a
    <3>2. \A n \in DOMAIN size \cup {HEAD} : rank[n] \in 0 .. top
      BY <2>1
    <3>3. \A n \in DOMAIN size \cup {HEAD} : rank[n] \in 0 .. top + 1 /\ rank[n] + 1 \in 0 .. top + 1
      BY <3>2
    <3>. QED  BY <1>d, <3>1, <3>3
  <2>3. \A n \in DOMAIN size : rank2[n] > 0
    <3>1. place > 0
      BY <1>5, <1>a
    <3>2. \A n \in DOMAIN size : rank[n] > 0 /\ rank[n] + 1 > 0
      <4>1. \A n \in DOMAIN size : rank[n] \in Nat /\ rank[n] > 0
        BY <2>1
      <4>. QED  BY <4>1
    <3>. QED  BY <1>d, <3>1, <3>2
  <2>4. rank2[HEAD] = 0
    BY <1>1, <1>5, <1>d
  <2>5. rank2 \in [DOMAIN size \cup {HEAD} -> 0 .. top + 1]
    BY <1>d, <2>2
  <2>. QED  BY <2>3, <2>4, <2>5 DEF Ranked
<1>7. /\ rank2[bin] = place /\ place \in Nat
      /\ \A n \in Nodes(on[0]) : /\ rank2[n] \in Nat /\ rank2[n] # place
                                 /\ rank2[n] < place <=> (n = HEAD \/ size[n] < need)
  <2>1. rank2[HEAD] = 0 /\ rank2[bin] = place /\ place \in Nat \ {0}
    BY <1>1, <1>5, <1>a, <1>d
  <2>2. ASSUME NEW n \in on[0]
        PROVE  /\ rank2[n] \in Nat /\ rank2[n] # place /\ n # HEAD
               /\ rank2[n] < place <=> size[n] < need
    <3>1. rank2[n] = IF size[n] >= need THEN rank[n] + 1 ELSE rank[n]
      BY <1>1, <1>4, <1>5, <1>d
    <3>2. size[n] >= need <=> rank[prior(0)] < rank[n]
      BY <1>1, <1>4
    <3>. QED  BY <1>1, <1>5, <1>a, <3>1, <3>2
  <2>. QED  BY <2>1, <2>2 DEF Nodes
<1>8. \A m, n \in Nodes(on[0]) : rank2[m] < rank2[n] <=> rank[m] < rank[n]
  <2>1. \A n \in Nodes(on[0]) :
          /\ rank2[n] = IF n # HEAD /\ size[n] >= need THEN rank[n] + 1 ELSE rank[n]
          /\ rank[n] \in Nat
          /\ n # HEAD => (size[n] >= need <=> rank[prior(0)] < rank[n])
    <3>1. rank2[HEAD] = rank[HEAD]
      BY <1>1, <1>5, <1>d
    <3>2. \A n \in on[0] : /\ rank2[n] = IF size[n] >= need THEN rank[n] + 1 ELSE rank[n]
                           /\ size[n] >= need <=> rank[prior(0)] < rank[n]
      BY <1>1, <1>4, <1>5, <1>d
    <3>. QED  BY <1>5, <3>1, <3>2 DEF Nodes
  <2>2. rank[HEAD] = 0 /\ rank[prior(0)] \in Nat
    BY <1>5
  <2>. QED  BY <2>1, <2>2
<1>9. Sorted(on[0] \cup {bin}, rank2)
  <2> SUFFICES ASSUME NEW m \in on[0] \cup {bin}, NEW n \in on[0] \cup {bin}
               PROVE  /\ rank2[m] = rank2[n] => m = n
                      /\ size[m] < size[n] => rank2[m] < rank2[n]
    BY DEF Sorted
  <2>1. CASE m \in on[0] /\ n \in on[0]
    <3>1. rank2[m] < rank2[n] <=> rank[m] < rank[n]
      BY <1>8, <2>1 DEF Nodes
    <3>2. rank2[n] < rank2[m] <=> rank[n] < rank[m]
      BY <1>8, <2>1 DEF Nodes
    <3>3. rank2[n] \in Nat /\ rank2[m] \in Nat
      BY <1>7, <2>1 DEF Nodes
    <3>. QED  BY <1>5, <2>1, <3>1, <3>2, <3>3 DEF Sorted
  <2>2. CASE m = bin /\ n \in on[0]
    BY <1>1, <1>5, <1>7, <2>2 DEF Nodes, need
  <2>3. CASE m \in on[0] /\ n = bin
    BY <1>1, <1>5, <1>7, <2>3 DEF Nodes, need
  <2>4. CASE m = bin /\ n = bin
    BY <1>1, <2>4 DEF need
  <2>. QED  BY <2>1, <2>2, <2>3, <2>4
<1>10. ASSUME NEW l \in Level, NEW n \in Nodes(on2[l])
       PROVE  LeadsOn(forward'[n][l], n, on2[l], rank2)
  <2>1. /\ on[l] \subseteq on[0] /\ prior(l) \in Nodes(on[l]) /\ Nodes(on[l]) \subseteq Nodes(on[0])
        /\ bin \notin on[l] /\ bin \notin Nodes(on[0])
    BY <1>1, <1>4 DEF Nodes
  <2>2. \A m \in Nodes(on[0]) : rank[m] \in Nat
    BY <1>5 DEF Nodes
  <2>3. \A m \in on[l] : size[m] >= need <=> rank2[m] > place
    BY <1>1, <1>5, <1>7, <2>1 DEF Nodes
  <2>4. CASE l <= random_level /\ n = bin
    <3> DEFINE next == forward[prior(l)][l]
    <3>1. forward'[n][l] = next
      BY <1>1, <1>3, <2>4
    <3>2. LastBelow(prior(l), on[l], rank, need)
      BY <1>2
    <3>3. /\ next = NULL => \A m \in on[l] : size[m] < need
          /\ next # NULL => /\ next \in on[l] /\ size[next] >= need
                            /\ \A m \in on[l] : size[m] >= need => rank[next] <= rank[m]
      BY <1>1, <3>2, FirstNotBelow
    <3>4. on2[l] = on[l] \cup {bin}
      BY <1>e, <2>4
    <3>5. ASSUME next = NULL, NEW m \in on2[l]
          PROVE  rank2[m] <= place
      BY <1>7, <2>1, <3>3, <3>4, <3>5 DEF Nodes
    <3>6. ASSUME next # NULL, NEW m \in on2[l], place < rank2[m]
          PROVE  rank2[next] <= rank2[m]
      <4>1. m \in on[l]
        BY <1>7, <3>4, <3>6
      <4>2. rank[next] <= rank[m]
        BY <2>3, <3>3, <3>6, <4>1
      <4>. QED  BY <1>7, <1>8, <2>1, <2>2, <3>3, <3>6, <4>1, <4>2 DEF Nodes
    <3>7. next # NULL => next \in on2[l] /\ place < rank2[next]
      BY <2>3, <3>3, <3>4
    <3>. QED  BY <1>7, <2>4, <3>1, <3>5, <3>6, <3>7 DEF LeadsOn
  <2>5. CASE l <= random_level /\ n = prior(l)
    <3>1. forward'[n][l] = bin
      BY <1>1, <1>3, <1>4, <2>5 DEF Nodes
    <3>2. on2[l] = on[l] \cup {bin}
      BY <1>e, <2>5
    <3>3. n = HEAD \/ size[n] < need
      BY <1>2, <2>5 DEF LastBelow
    <3>4. rank2[n] < place
      BY <1>7, <2>1, <2>5, <3>3
    <3>5. ASSUME NEW m \in on2[l], rank2[n] < rank2[m]
          PROVE  place <= rank2[m]
      <4>1. CASE m = bin
        BY <1>7, <4>1
      <4>2. CASE m \in on[l]
        <5>1. rank[prior(l)] < rank[m]
          BY <1>8, <2>1, <2>5, <3>5, <4>2 DEF Nodes
        <5>. QED  BY <1>4, <1>7, <2>1, <2>3, <4>2, <5>1 DEF Nodes
      <4>. QED  BY <3>2, <4>1, <4>2
    <3>. QED  BY <1>1, <1>7, <3>1, <3>2, <3>4, <3>5 DEF LeadsOn
  <2>6. CASE l <= random_level /\ n # bin /\ n # prior(l)
    <3> DEFINE next == forward[n][l]
    <3>1. on2[l] = on[l] \cup {bin} /\ n \in Nodes(on[l])
      BY <1>e, <2>6 DEF Nodes
    <3>2. forward'[n][l] = next
      BY <1>1, <1>3, <1>4, <2>6, <3>1 DEF Nodes
    <3>3. LeadsOn(next, n, on[l], rank)
      BY <1>4, <3>1
    <3>4. rank2[n] < place => prior(l) \in on[l] /\ rank[n] < rank[prior(l)]
      <4>1. rank2[n] < place => n = HEAD \/ size[n] < need
        BY <1>7, <2>1, <3>1
      <4>2. Sorted(on[l], rank)
        BY LevelHolds
      <4>3. rank2[n] < place => rank[n] <= rank[prior(l)]
        BY <1>2, <1>5, <2>1, <2>2, <3>1, <4>1 DEF LastBelow, Nodes
      <4>. QED  BY <1>5, <2>1, <2>2, <2>6, <3>1, <4>2, <4>3 DEF Nodes, Sorted
    <3>5. CASE next = NULL
      <4>1. ~(rank2[n] < place)
        BY <2>1, <2>2, <3>1, <3>3, <3>4, <3>5 DEF LeadsOn, Nodes
      <4>2. ASSUME NEW m \in on2[l]
            PROVE  rank2[m] <= rank2[n]
        <5>1. CASE m = bin
          BY <1>7, <2>1, <3>1, <4>1, <5>1
        <5>2. CASE m \in on[l]
          <6>1. ~(rank[n] < rank[m])
            BY <2>1, <2>2, <3>1, <3>3, <3>5, <5>2 DEF LeadsOn, Nodes
          <6>2. ~(rank2[n] < rank2[m])
            BY <1>8, <2>1, <3>1, <5>2, <6>1 DEF Nodes
          <6>. QED  BY <1>7, <2>1, <3>1, <5>2, <6>2 DEF Nodes
        <5>. QED  BY <3>1, <5>1, <5>2
      <4>. QED  BY <3>2, <3>5, <4>2 DEF LeadsOn
    <3>6. CASE next # NULL
      <4>1. next \in on[l] /\ rank[n] < rank[next]
        BY <3>3, <3>6 DEF LeadsOn
      <4>2. rank2[n] < rank2[next]
        BY <1>8, <2>1, <3>1, <4>1 DEF Nodes
      <4>3. ASSUME NEW m \in on2[l], rank2[n] < rank2[m]
            PROVE  rank2[next] <= rank2[m]
        <5>1. CASE m = bin
          <6>1. prior(l) \in on[l] /\ rank[n] < rank[prior(l)]
            BY <1>7, <3>4, <4>3, <5>1
          <6>2. rank[next] <= rank[prior(l)]
            BY <3>3, <3>6, <6>1 DEF LeadsOn
          <6>3. ~(rank2[next] > place)
            BY <1>4, <2>1, <2>2, <2>3, <4>1, <6>1, <6>2 DEF Nodes
          <6>. QED  BY <1>7, <2>1, <4>1, <5>1, <6>3 DEF Nodes
        <5>2. CASE m \in on[l]
          <6>1. rank[n] < rank[m]
            BY <1>8, <2>1, <3>1, <4>3, <5>2 DEF Nodes
          <6>2. rank[next] <= rank[m]
            BY <3>3, <3>6, <5>2, <6>1 DEF LeadsOn
          <6>3. ~(rank[m] < rank[next])
            BY <2>1, <2>2, <4>1, <5>2, <6>2 DEF Nodes
          <6>4. ~(rank2[m] < rank2[next])
            BY <1>8, <2>1, <4>1, <5>2, <6>3 DEF Nodes
          <6>. QED  BY <1>7, <2>1, <4>1, <5>2, <6>4 DEF Nodes
        <5>. QED  BY <3>1, <5>1, <5>2
      <4>. QED  BY <3>1, <3>2, <3>6, <4>1, <4>2, <4>3 DEF LeadsOn
    <3>. QED  BY <3>5, <3>6
  <2>7. CASE ~(l <= random_level)
    <3> DEFINE next == forward[n][l]
    <3>1. on2[l] = on[l] /\ n \in Nodes(on[l])
      BY <1>e, <2>7
    <3>2. forward'[n][l] = next
      BY <1>1, <1>3, <1>4, <2>7, <3>1 DEF Nodes
    <3>3. LeadsOn(next, n, on[l], rank)
      BY <1>4, <3>1
    <3>4. CASE next = NULL
      <4>1. ASSUME NEW m \in on[l]
            PROVE  rank2[m] <= rank2[n]
        <5>1. ~(rank[n] < rank[m])
          BY <2>1, <2>2, <3>1, <3>3, <3>4 DEF LeadsOn, Nodes
        <5>2. ~(rank2[n] < rank2[m])
          BY <1>8, <2>1, <3>1, <5>1 DEF Nodes
        <5>. QED  BY <1>7, <2>1, <3>1, <5>2 DEF Nodes
      <4>. QED  BY <3>1, <3>2, <3>4, <4>1 DEF LeadsOn
    <3>5. CASE next # NULL
      <4>1. next \in on[l] /\ rank2[n] < rank2[next]
        BY <1>8, <2>1, <3>1, <3>3, <3>5 DEF LeadsOn, Nodes
      <4>2. ASSUME NEW m \in on[l], rank2[n] < rank2[m]
            PROVE  rank2[next] <= rank2[m]
        <5>1. rank[n] < rank[m]
          BY <1>8, <2>1, <3>1, <4>2 DEF Nodes
        <5>2. ~(rank[m] < rank[next])
          BY <2>1, <2>2, <3>3, <3>5, <4>1, <5>1 DEF LeadsOn, Nodes
        <5>3. ~(rank2[m] < rank2[next])
          BY <1>8, <2>1, <4>1, <5>2 DEF Nodes
        <5>. QED  BY <1>7, <2>1, <4>1, <5>3 DEF Nodes
      <4>. QED  BY <3>1, <3>2, <3>5, <4>1, <4>2 DEF LeadsOn
    <3>. QED  BY <3>4, <3>5
  <2>. QED  BY <2>4, <2>5, <2>6, <2>7
<1>11. Linked(on2, rank2)'
  <2>1. on2 \in [Level -> SUBSET DOMAIN size]
    BY <1>1, <1>c
  <2>2. on2[0] = on[0] \cup {bin} /\ on2[0] = DOMAIN size \ (in_use \ {bin})
    <3>1. 0 <= random_level
      BY Types
    <3>2. on[0] = DOMAIN size \ in_use /\ in_use \subseteq DOMAIN size
      BY DEF Linked, TypeOK
    <3>. QED  BY <1>1, <1>e, <3>1, <3>2
  <2>3. \A l \in Level \ {0} : on2[l] \subseteq on2[l - 1]
    <3> SUFFICES ASSUME NEW l \in Level \ {0}
                 PROVE  on2[l] \subseteq on2[l - 1]
      OBVIOUS
    <3>1. on[l] \subseteq on[l - 1] /\ l - 1 \in Level /\ l \in Nat /\ random_level \in Nat
      BY Types DEF Linked
    <3>2. l <= random_level => l - 1 <= random_level
      BY <3>1
    <3>. QED  BY <1>e, <3>1, <3>2
  <2>4. \A l \in Level : l > level' => on2[l] = {}
    <3> SUFFICES ASSUME NEW l \in Level, l > level'
                 PROVE  on2[l] = {}
      OBVIOUS
    <3>1. l > level /\ ~(l <= random_level)
      BY <1>1, <1>3
    <3>. QED  BY <1>1, <1>e, <3>1
  <2>5. Sorted(on2[0], rank2)
    BY <1>9, <2>2
  <2>6. Sorted(on2[0], rank2)'
    BY <2>5 DEF Sorted
  <2>. QED  BY <1>10, <2>1, <2>2, <2>3, <2>4, <2>6 DEF Linked
<1>12. TypeOK'
  <2>1. level' \in Level
    BY <1>1, <1>3
  <2>2. forward' \in [DOMAIN size \cup {HEAD} -> [Level -> DOMAIN size \cup {NULL}]]
    <3>1. \A n \in DOMAIN forward : \A l \in Level : forward[n][l] \in DOMAIN size \cup {NULL}
      BY DEF TypeOK
    <3>2. \A l \in Level : prior(l) \in DOMAIN forward
      BY <1>1, <1>4 DEF Nodes
    <3>. QED  BY <1>1, <1>3, <3>1, <3>2
  <2>. QED  BY <2>1, <2>2 DEF TypeOK
<1>13. on2[0] = on[0] \cup {bin}
  <2>1. 0 <= random_level
    BY Types
  <2>. QED  BY <1>1, <1>e, <2>1
<1>. QED  BY <1>6, <1>11, <1>12, <1>13

-----------------------------------------------------------------------------
(* The bin that findbest returns is a smallest of those that are large     *)
(* enough, and the search for its own size comes to it on every level that *)
(* it is on.                                                               *)
BestOf(bin, bins, s) ==
  /\ bin \in bins /\ size[bin] >= s
  /\ \A m \in bins : size[m] >= s => size[bin] <= size[m]

LEMMA FindsBest ==
  ASSUME TypeOK, NEW top \in Nat, NEW on, NEW rank, Ranked(rank, top), Linked(on, rank),
         NEW s \in Size
  PROVE  LET bin == klmalloc_skip_list_findbest(s)
         IN  /\ bin = NULL => \A m \in on[0] : size[m] < s
             /\ bin # NULL =>
                  /\ BestOf(bin, on[0], s)
                  /\ \A l \in 0 .. level :
                       forward[update(size[bin])[l]][l] = bin <=> bin \in on[l]
<1> DEFINE first == update(s)[0]
           best == forward[first][0]
<1>1. /\ s \in Nat /\ 0 \in Level /\ 0 \in 0 .. level /\ 0 .. level \subseteq Level
      /\ level \in Nat
  <2>1. level \in Level
    BY DEF TypeOK
  <2>. QED  BY <2>1, Types DEF Level
<1>2. klmalloc_skip_list_findbest(s) = best
  BY DEF klmalloc_skip_list_findbest
<1>3. LastBelow(first, on[0], rank, s)
  BY <1>1, UpdateFinds
<1>. HIDE DEF first
<1>4. /\ best = NULL => \A m \in on[0] : size[m] < s
      /\ best # NULL => /\ best \in on[0] /\ size[best] >= s
                        /\ \A m \in on[0] : size[m] >= s => rank[best] <= rank[m]
  BY <1>1, <1>3, FirstNotBelow
<1>5. /\ \A b \in on[0] : b # HEAD /\ b # NULL /\ size[b] \in Nat /\ rank[b] \in Nat
      /\ Sorted(on[0], rank)
  BY <1>1, LevelHolds
<1>. HIDE DEF best
<1>6. best # NULL => BestOf(best, on[0], s)
  <2> SUFFICES ASSUME best # NULL, NEW m \in on[0], size[m] >= s
               PROVE  size[best] <= size[m]
    BY <1>4 DEF BestOf
  <2>1. best \in on[0] /\ rank[best] <= rank[m]
    BY <1>4
  <2>2. ~(size[m] < size[best])
    BY <1>5, <2>1 DEF Sorted
  <2>. QED  BY <1>5, <2>1, <2>2
<1>7. ASSUME best # NULL, NEW l \in 0 .. level
      PROVE  forward[update(size[best])[l]][l] = best <=> best \in on[l]
  <2> DEFINE need == size[best]
             prior == update(need)[l]
             next == forward[prior][l]
  <2>1. best \in on[0] /\ need \in Nat /\ need >= s /\ l \in Level /\ on[l] \subseteq on[0]
    <3>1. best \in on[0] /\ l \in Level /\ size[best] >= s
      BY <1>1, <1>4, <1>7
    <3>. QED  BY <1>5, <3>1, LevelHolds
  <2>2. \A m \in on[0] : size[m] >= need => rank[best] <= rank[m]
    BY <1>1, <1>4, <1>5, <1>7, <2>1
  <2>. HIDE DEF need
  <2>3. LastBelow(prior, on[l], rank, need)
    BY <2>1, UpdateFinds
  <2>. HIDE DEF prior
  <2>4. /\ next = NULL => \A m \in on[l] : size[m] < need
        /\ next # NULL => /\ next \in on[l] /\ size[next] >= need
                          /\ \A m \in on[l] : size[m] >= need => rank[next] <= rank[m]
    BY <2>1, <2>3, FirstNotBelow
  <2>. HIDE DEF next
  <2>5. ASSUME best \in on[l]
        PROVE  next = best
    <3>1. size[best] >= need /\ ~(size[best] < need)
      BY <2>1 DEF need
    <3>2. next # NULL /\ next \in on[0] /\ rank[next] <= rank[best] /\ rank[best] <= rank[next]
      BY <2>1, <2>2, <2>4, <2>5, <3>1
    <3>. QED  BY <1>5, <2>1, <3>2 DEF Sorted
  <2>6. next = best => best \in on[l]
    BY <1>7, <2>4
  <2>7. next = forward[update(size[best])[l]][l]
    BY DEF next, prior, need
  <2>. QED  BY <2>5, <2>6, <2>7
<1>. QED  BY <1>2, <1>4, <1>6, <1>7

(* klmalloc takes the bin that it found out of every level it is on.       *)
LEMMA DeleteLinks ==
  ASSUME TypeOK, NEW top \in Nat, NEW on, NEW rank, Ranked(rank, top), Linked(on, rank),
         NEW s \in Size, NEW bin, bin = klmalloc_skip_list_findbest(s), bin # NULL,
         klmalloc_skip_list_delete(bin),
         in_use' = in_use \cup {bin}, UNCHANGED size, taken' = {bin}
  PROVE  /\ TypeOK'
         /\ \E on2 : Linked(on2, rank)' /\ on2[0] = on[0] \ {bin}
<1> DEFINE found == update(size[bin])
<1>1. /\ level \in Level /\ level \in Nat /\ 0 \in Level /\ Level \subseteq Nat
      /\ 0 .. level \subseteq Level
      /\ DOMAIN forward = DOMAIN size \cup {HEAD}
      /\ on \in [Level -> SUBSET DOMAIN size]
      /\ \A l \in Level : l > level => on[l] = {}
  <2>1. level \in Level /\ DOMAIN forward = DOMAIN size \cup {HEAD}
    BY DEF TypeOK
  <2>2. level \in Nat /\ 0 .. level \subseteq Level
    BY <2>1, Types DEF Level
  <2>3. on \in [Level -> SUBSET DOMAIN size] /\ \A l \in Level : l > level => on[l] = {}
    BY DEF Linked
  <2>. QED  BY <2>1, <2>2, <2>3, Types
<1>2. /\ BestOf(bin, on[0], s)
      /\ \A l \in 0 .. level : forward[found[l]][l] = bin <=> bin \in on[l]
  BY FindsBest
<1>3. bin \in on[0] /\ bin \in DOMAIN size /\ size[bin] \in Nat /\ bin # HEAD
  <2>1. bin \in on[0]
    BY <1>2 DEF BestOf
  <2>. QED  BY <1>1, <2>1, LevelHolds
<1>4. \A l \in 0 .. level : found[l] \in Nodes(on[l])
  <2>1. \A l \in 0 .. level : LastBelow(found[l], on[l], rank, size[bin])
    BY <1>3, UpdateFinds
  <2>. QED  BY <2>1 DEF LastBelow
<1> DEFINE gone == {l \in 0 .. level : \A k \in 0 .. l : forward[found[k]][k] = bin}
           after == [n \in DOMAIN forward |-> [l \in Level |->
                       IF l \in gone /\ n = found[l] THEN forward[bin][l] ELSE forward[n][l]]]
           filled == {l \in 1 .. level : after[HEAD][l] # NULL}
<1>5. /\ forward' = after
      /\ level' = IF filled = {} THEN 0
                  ELSE CHOOSE l \in filled : \A k \in filled : k <= l
  BY Zenon DEF klmalloc_skip_list_delete
<1>. HIDE DEF found
<1>6. gone = {l \in 0 .. level : bin \in on[l]}
  <2>1. ASSUME NEW l \in 0 .. level, bin \in on[l], NEW k \in 0 .. l
        PROVE  forward[found[k]][k] = bin
    <3>1. k \in 0 .. level /\ k \in Level /\ l \in Level /\ k <= l
      BY <1>1, <2>1
    <3>2. bin \in on[k]
      BY <2>1, <3>1, HigherIsFewer
    <3>. QED  BY <1>2, <3>1, <3>2
  <2>2. ASSUME NEW l \in 0 .. level, forward[found[l]][l] = bin
        PROVE  bin \in on[l]
    BY <1>2, <2>2
  <2>3. \A l \in 0 .. level : l \in 0 .. l
    BY <1>1
  <2>. QED  BY <2>1, <2>2, <2>3
<1>. HIDE DEF gone
<1>7. /\ DOMAIN forward' = DOMAIN forward
      /\ \A n \in DOMAIN forward, l \in Level :
           forward'[n][l] = IF l \in gone /\ n = found[l] THEN forward[bin][l] ELSE forward[n][l]
  BY <1>5
<1>. PICK on2 : on2 = [l \in Level |-> on[l] \ {bin}]
  OBVIOUS
<1>8. \A l \in Level : on2[l] = on[l] \ {bin}
  OBVIOUS
<1>9. ASSUME NEW l \in Level, NEW n \in Nodes(on2[l])
      PROVE  LeadsOn(forward'[n][l], n, on2[l], rank)
  <2>1. /\ on[l] \subseteq DOMAIN size
        /\ \A b \in on[l] : b # HEAD /\ b # NULL /\ rank[b] \in Nat /\ rank[b] > 0
        /\ rank[HEAD] = 0 /\ Sorted(on[l], rank)
        /\ \A m \in Nodes(on[l]) : LeadsOn(forward[m][l], m, on[l], rank)
    BY LevelHolds
  <2>2. n \in Nodes(on[l]) /\ n # bin /\ n \in DOMAIN forward /\ rank[n] \in Nat
    BY <1>1, <1>3, <1>8, <2>1 DEF Nodes
  <2>3. CASE l \in gone /\ n = found[l]
    <3> DEFINE next == forward[bin][l]
    <3>1. bin \in on[l] /\ forward[n][l] = bin
      BY <1>2, <1>6, <2>3
    <3>2. forward'[n][l] = next
      BY <1>7, <2>2, <2>3
    <3>3. LeadsOn(bin, n, on[l], rank) /\ LeadsOn(next, bin, on[l], rank)
      BY <2>1, <2>2, <3>1 DEF Nodes
    <3>4. rank[n] < rank[bin] /\ \A m \in on[l] : rank[n] < rank[m] => rank[bin] <= rank[m]
      BY <2>1, <3>1, <3>3 DEF LeadsOn
    <3>5. \A m \in on2[l] : rank[n] < rank[m] => rank[bin] < rank[m]
      BY <1>8, <2>1, <3>1, <3>4 DEF Sorted
    <3>. HIDE DEF next
    <3>6. CASE next = NULL
      <4>1. \A m \in on[l] : rank[m] <= rank[bin]
        BY <3>3, <3>6 DEF LeadsOn
      <4>2. \A m \in on2[l] : rank[m] <= rank[n]
        BY <1>8, <2>1, <2>2, <3>1, <3>5, <4>1
      <4>. QED  BY <3>2, <3>6, <4>2 DEF LeadsOn
    <3>7. CASE next # NULL
      <4>1. /\ next \in on[l] /\ rank[bin] < rank[next]
            /\ \A m \in on[l] : rank[bin] < rank[m] => rank[next] <= rank[m]
        BY <3>3, <3>7 DEF LeadsOn
      <4>2. next \in on2[l] /\ rank[n] < rank[next]
        BY <1>8, <2>1, <2>2, <3>1, <3>4, <4>1
      <4>3. \A m \in on2[l] : rank[n] < rank[m] => rank[next] <= rank[m]
        BY <1>8, <3>5, <4>1
      <4>. QED  BY <3>2, <3>7, <4>2, <4>3 DEF LeadsOn
    <3>. QED  BY <3>6, <3>7
  <2>4. CASE ~(l \in gone /\ n = found[l])
    <3> DEFINE next == forward[n][l]
    <3>1. forward'[n][l] = next
      BY <1>7, <2>2, <2>4
    <3>2. LeadsOn(next, n, on[l], rank)
      BY <2>1, <2>2
    <3>3. next # bin
      <4>1. SUFFICES ASSUME next = bin
                     PROVE  FALSE
        OBVIOUS
      <4>2. bin \in on[l] /\ bin # NULL
        BY <3>2, <4>1 DEF LeadsOn
      <4>3. l \in 0 .. level
        BY <1>1, <4>2
      <4>4. l \in gone /\ forward[found[l]][l] = bin /\ found[l] \in Nodes(on[l])
        BY <1>2, <1>4, <1>6, <4>2, <4>3
      <4>5. n = found[l]
        BY <2>2, <4>1, <4>2, <4>4, OneBefore
      <4>. QED  BY <2>4, <4>4, <4>5
    <3>. HIDE DEF next
    <3>4. on2[l] \subseteq on[l] /\ \A m \in on[l] : m # bin => m \in on2[l]
      BY <1>8
    <3>. QED  BY <3>1, <3>2, <3>3, <3>4 DEF LeadsOn
  <2>. QED  BY <2>3, <2>4
<1>10. level' \in Level /\ \A l \in Level : l > level' => on2[l] = {}
  <2>1. ASSUME NEW l \in Level, forward'[HEAD][l] = NULL
        PROVE  on2[l] = {}
    <3>1. LeadsOn(NULL, HEAD, on2[l], rank)
      BY <1>9, <2>1 DEF Nodes
    <3>2. rank[HEAD] = 0 /\ \A b \in on2[l] : rank[b] \in Nat /\ rank[b] > 0
      BY <1>8, LevelHolds
    <3>. QED  BY <3>1, <3>2 DEF LeadsOn
  <2>2. \A l \in Level : l > level => on2[l] = {}
    BY <1>1, <1>8
  <2>3. filled = {l \in 1 .. level : forward'[HEAD][l] # NULL}
    BY <1>5
  <2>. HIDE DEF filled
  <2>4. CASE filled = {}
    <3>1. level' = 0
      BY <1>5, <2>4
    <3>2. \A l \in 1 .. level : forward'[HEAD][l] = NULL
      BY <2>3, <2>4
    <3>3. ASSUME NEW l \in Level, l > 0
          PROVE  on2[l] = {}
      <4>1. CASE l \in 1 .. level
        BY <2>1, <3>2, <4>1
      <4>2. CASE l \notin 1 .. level
        <5>1. l > level
          BY <1>1, <3>3, <4>2
        <5>. QED  BY <2>2, <5>1
      <4>. QED  BY <4>1, <4>2
    <3>. QED  BY <1>1, <3>1, <3>3
  <2>5. CASE filled # {}
    <3> DEFINE same == [n \in filled |-> n]
    <3>1. \A n \in filled : same[n] \in 0 .. level
      BY <1>1, <2>3
    <3>2. \E m \in filled : \A k \in filled : same[k] <= same[m]
      <4>. HIDE DEF same
      <4>. QED  BY <1>1, <2>5, <3>1, Highest
    <3>3. \E m \in filled : \A k \in filled : k <= m
      BY <3>2
    <3>4. level' \in filled /\ \A k \in filled : k <= level'
      <4>1. level' = CHOOSE l \in filled : \A k \in filled : k <= l
        BY <1>5, <2>5
      <4>. QED  BY <3>3, <4>1
    <3>5. level' \in Level
      BY <1>1, <2>3, <3>4
    <3>6. ASSUME NEW l \in Level, l > level'
          PROVE  on2[l] = {}
      <4>1. l \notin filled /\ l \in Nat /\ level' \in Nat
        BY <1>1, <3>4, <3>5, <3>6
      <4>2. CASE l > level
        BY <2>2, <4>2
      <4>3. CASE ~(l > level)
        <5>1. l \in 1 .. level
          BY <1>1, <3>6, <4>1, <4>3
        <5>2. forward'[HEAD][l] = NULL
          BY <2>3, <4>1, <5>1
        <5>. QED  BY <2>1, <5>2
      <4>. QED  BY <4>2, <4>3
    <3>. QED  BY <3>5, <3>6
  <2>. QED  BY <2>4, <2>5
<1>11. TypeOK'
  <2>1. \A n \in DOMAIN forward : \A l \in Level : forward[n][l] \in DOMAIN size \cup {NULL}
    BY DEF TypeOK
  <2>2. forward' \in [DOMAIN size \cup {HEAD} -> [Level -> DOMAIN size \cup {NULL}]]
    BY <1>1, <1>3, <1>5, <2>1
  <2>3. in_use' \subseteq DOMAIN size /\ taken' \subseteq in_use'
    BY <1>3 DEF TypeOK
  <2>. QED  BY <1>10, <2>2, <2>3 DEF TypeOK
<1>12. on2[0] = on[0] \ {bin} /\ on2[0] = DOMAIN size \ (in_use \cup {bin})
  BY <1>1, <1>8 DEF Linked
<1>13. Linked(on2, rank)'
  <2>1. on2 \in [Level -> SUBSET DOMAIN size]
    BY <1>1
  <2>2. \A l \in Level \ {0} : on2[l] \subseteq on2[l - 1]
    BY <1>8, Types DEF Linked
  <2>3. Sorted(on2[0], rank)
    BY <1>12 DEF Linked, Sorted
  <2>4. Sorted(on2[0], rank)'
    BY <2>3 DEF Sorted
  <2>. QED  BY <1>9, <1>10, <1>12, <2>1, <2>2, <2>4 DEF Linked
<1>. QED  BY <1>11, <1>12, <1>13

(* When no bin is large enough the heap grows by one, which its caller     *)
(* holds: the pointers that were there are left alone.                     *)
LEMMA GrowLinks ==
  ASSUME TypeOK, NEW top \in Nat, NEW on, NEW rank, Ranked(rank, top), Linked(on, rank),
         NEW s \in Size, GrowHeap(s)
  PROVE  /\ TypeOK'
         /\ \E rank2 : Ranked(rank2, top + 1)' /\ Linked(on, rank2)'
<1>1. PICK bin \in Bin \ DOMAIN size :
        /\ size' = [b \in DOMAIN size \cup {bin} |-> IF b = bin THEN s ELSE size[b]]
        /\ forward' = [n \in DOMAIN forward \cup {bin} |->
                         IF n = bin THEN [l \in Level |-> NULL] ELSE forward[n]]
        /\ in_use' = in_use \cup {bin}
  BY DEF GrowHeap
<1>2. taken' = {} /\ level' = level
  BY DEF GrowHeap
<1>3. /\ bin # HEAD /\ bin # NULL
      /\ DOMAIN size' = DOMAIN size \cup {bin}
      /\ \A b \in DOMAIN size : size'[b] = size[b]
      /\ DOMAIN forward = DOMAIN size \cup {HEAD}
      /\ \A n \in DOMAIN forward : forward'[n] = forward[n]
  <2>1. DOMAIN forward = DOMAIN size \cup {HEAD}
    BY DEF TypeOK
  <2>2. bin # HEAD /\ bin # NULL
    BY Types
  <2>. QED  BY <1>1, <2>1, <2>2
<1>4. TypeOK'
  <2>1. DOMAIN size' \subseteq Bin /\ \A b \in DOMAIN size' : size'[b] \in Size
    BY <1>1, <1>3 DEF TypeOK
  <2>2. forward' \in [DOMAIN size' \cup {HEAD} -> [Level -> DOMAIN size' \cup {NULL}]]
    <3>1. \A n \in DOMAIN size \cup {HEAD} : forward[n] \in [Level -> DOMAIN size \cup {NULL}]
      BY DEF TypeOK
    <3>2. [l \in Level |-> NULL] \in [Level -> DOMAIN size' \cup {NULL}]
      OBVIOUS
    <3>3. \A n \in DOMAIN size \cup {HEAD} : forward[n] \in [Level -> DOMAIN size' \cup {NULL}]
      BY <1>3, <3>1
    <3>. QED  BY <1>1, <1>3, <3>2, <3>3
  <2>3. level' \in Level /\ in_use' \subseteq DOMAIN size' /\ taken' \subseteq in_use'
    BY <1>1, <1>2, <1>3 DEF TypeOK
  <2>. QED  BY <2>1, <2>2, <2>3 DEF TypeOK
<1>5. PICK rank2 : rank2 = [n \in DOMAIN size \cup {HEAD, bin} |-> IF n = bin THEN top + 1 ELSE rank[n]]
  OBVIOUS
<1>6. /\ \A n \in DOMAIN size \cup {HEAD} : rank2[n] = rank[n]
      /\ rank2[bin] = top + 1
  BY <1>1, <1>3, <1>5
<1>7. Ranked(rank2, top + 1)'
  <2>1. \A n \in DOMAIN size \cup {HEAD} : rank[n] \in 0 .. top + 1
    BY DEF Ranked
  <2>2. rank2 \in [DOMAIN size' \cup {HEAD} -> 0 .. top + 1]
    BY <1>3, <1>5, <2>1
  <2>3. rank2[HEAD] = 0 /\ \A b \in DOMAIN size' : rank2[b] > 0
    BY <1>3, <1>6 DEF Ranked
  <2>. QED  BY <2>2, <2>3 DEF Ranked
<1>8. \A l \in Level : on[l] \subseteq DOMAIN size
  BY DEF Linked
<1>9. Linked(on, rank2)'
  <2>1. on \in [Level -> SUBSET DOMAIN size']
    <3>1. on \in [Level -> SUBSET DOMAIN size]
      BY DEF Linked
    <3>. QED  BY <1>3, <3>1
  <2>2. on[0] = DOMAIN size' \ in_use'
    <3>1. on[0] = DOMAIN size \ in_use
      BY DEF Linked
    <3>. QED  BY <1>1, <1>3, <3>1
  <2>3. \A l \in Level \ {0} : on[l] \subseteq on[l - 1]
    BY DEF Linked
  <2>4. \A l \in Level : l > level' => on[l] = {}
    BY <1>2 DEF Linked
  <2>5. Sorted(on[0], rank2)'
    <3>1. Sorted(on[0], rank) /\ on[0] \subseteq DOMAIN size
      BY <1>8, Types DEF Linked
    <3>. QED  BY <1>3, <1>6, <3>1 DEF Sorted
  <2>6. ASSUME NEW l \in Level, NEW n \in Nodes(on[l])
        PROVE  LeadsOn(forward'[n][l], n, on[l], rank2)
    <3>1. LeadsOn(forward[n][l], n, on[l], rank)
      BY LevelHolds
    <3>2. on[l] \subseteq DOMAIN size /\ n \in DOMAIN size \cup {HEAD}
      BY <1>8 DEF Nodes
    <3>3. forward'[n][l] = forward[n][l]
      BY <1>3, <3>2
    <3>4. rank2[n] = rank[n] /\ \A m \in on[l] : rank2[m] = rank[m]
      BY <1>6, <3>2
    <3>. QED  BY <3>1, <3>3, <3>4 DEF LeadsOn
  <2>. QED  BY <2>1, <2>2, <2>3, <2>4, <2>5, <2>6 DEF Linked
<1>. QED  BY <1>4, <1>7, <1>9

-----------------------------------------------------------------------------
LEMMA InitSInv == Init => SInv
<1> SUFFICES ASSUME Init
             PROVE  SInv
  OBVIOUS
<1>1. DOMAIN size = {} /\ DOMAIN forward = {HEAD} /\ \A l \in Level : forward[HEAD][l] = NULL
  BY DEF Init
<1>2. TypeOK
  BY <1>1, Types DEF Init, TypeOK
<1> DEFINE on == [l \in Level |-> {}]
           rank == [n \in {HEAD} |-> 0]
<1>3. Ranked(rank, 0)
  BY <1>1 DEF Ranked
<1>4. Linked(on, rank)
  <2>1. \A l \in Level : on[l] = {}
    OBVIOUS
  <2>2. on \in [Level -> SUBSET DOMAIN size] /\ on[0] = DOMAIN size \ in_use
    BY <1>1, Types
  <2>. HIDE DEF on, rank
  <2>3. \A l \in Level \ {0} : on[l] \subseteq on[l - 1]
    BY <2>1
  <2>4. \A l \in Level : \A n \in Nodes(on[l]) : LeadsOn(forward[n][l], n, on[l], rank)
    BY <1>1, <2>1 DEF Nodes, LeadsOn
  <2>. QED  BY <2>1, <2>2, <2>3, <2>4, Types DEF Linked, Sorted
<1>. HIDE DEF on, rank
<1>. QED  BY <1>2, <1>3, <1>4 DEF SInv

(* A step of the list is a step of a set from which the best fit is taken. *)
BestFitStep ==
  \/ \E s \in Size : BF!Take(s) \/ BF!Grow(s)
  \/ BF!Release
  \/ UNCHANGED BF!vars

ChainFollows ==
  \A top \in Nat : \A on, rank :
    TypeOK /\ Ranked(rank, top) /\ Linked(on, rank) => Chain(0) = on[0]

LEMMA ListIs == ChainFollows
  BY ChainIs, Types DEF ChainFollows

LEMMA NextSInv ==
  ASSUME SInv, [Next]_vars
  PROVE  SInv' /\ BestFitStep
<1>1. PICK top \in Nat : \E on, rank : Ranked(rank, top) /\ Linked(on, rank)
  BY DEF SInv
<1>2. PICK on, rank : Ranked(rank, top) /\ Linked(on, rank)
  BY <1>1
<1>3. TypeOK /\ 0 \in Level
  BY Types DEF SInv
<1>4. Chain(0) = on[0] /\ on[0] = DOMAIN size \ in_use
  <2>1. Chain(0) = on[0]
    BY <1>2, <1>3, ChainIs
  <2>. QED  BY <1>2, <2>1 DEF Linked
<1>5. ASSUME TypeOK', NEW top2 \in Nat, NEW on2, NEW rank2, Ranked(rank2, top2)', Linked(on2, rank2)'
      PROVE  SInv' /\ Chain(0)' = on2[0]
  <2>1. SInv'
    BY <1>5 DEF SInv
  <2>2. ChainFollows'
    BY ListIs, PTL
  <2>3. Chain(0)' = on2[0]
    BY <1>5, <2>2 DEF ChainFollows
  <2>. QED  BY <2>1, <2>3
<1>6. ASSUME NEW s \in Size, TakeBin(s)
      PROVE  SInv' /\ BestFitStep
  <2> DEFINE bin == klmalloc_skip_list_findbest(s)
  <2>1. /\ bin # NULL /\ klmalloc_skip_list_delete(bin)
        /\ in_use' = in_use \cup {bin} /\ UNCHANGED size /\ taken' = {bin}
    BY <1>6 DEF TakeBin
  <2>2. BestOf(bin, on[0], s)
    BY <1>2, <1>3, <2>1, FindsBest
  <2>. HIDE DEF bin
  <2>3. bin = klmalloc_skip_list_findbest(s)
    BY DEF bin
  <2>4. PICK found : found = bin
    OBVIOUS
  <2>5. /\ TypeOK'
        /\ \E on2 : Linked(on2, rank)' /\ on2[0] = on[0] \ {found}
    BY <1>2, <1>3, <2>1, <2>3, <2>4, DeleteLinks
  <2>6. PICK on2 : Linked(on2, rank)' /\ on2[0] = on[0] \ {found}
    BY <2>5
  <2>7. Ranked(rank, top)'
    BY <1>2, <2>1 DEF Ranked
  <2>8. SInv' /\ Chain(0)' = on2[0]
    BY <1>5, <2>5, <2>6, <2>7
  <2>9. BF!Take(s)
    <3>1. found \in BF!Fits(s) /\ \A c \in BF!Fits(s) : size[found] <= size[c]
      BY <1>4, <2>2, <2>4 DEF BestOf, BF!Fits
    <3>2. Chain(0)' = Chain(0) \ {found}
      BY <1>4, <2>6, <2>8
    <3>. QED  BY <2>1, <2>4, <3>1, <3>2 DEF BF!Take
  <2>. QED  BY <2>8, <2>9 DEF BestFitStep
<1>7. ASSUME NEW s \in Size, GrowHeap(s)
      PROVE  SInv' /\ BestFitStep
  <2>1. TypeOK' /\ \E rank2 : Ranked(rank2, top + 1)' /\ Linked(on, rank2)'
    BY <1>2, <1>3, <1>7, GrowLinks
  <2>2. PICK rank2 : Ranked(rank2, top + 1)' /\ Linked(on, rank2)'
    BY <2>1
  <2>3. SInv' /\ Chain(0)' = on[0]
    BY <1>5, <2>1, <2>2
  <2>4. \A m \in on[0] : size[m] < s
    <3>1. klmalloc_skip_list_findbest(s) = NULL
      BY <1>7 DEF GrowHeap
    <3>. QED  BY <1>2, <1>3, <3>1, FindsBest
  <2>5. BF!Fits(s) = {}
    <3>1. s \in Nat /\ \A m \in on[0] : size[m] \in Nat
      BY <1>2, <1>3, LevelHolds, Types
    <3>. QED  BY <1>4, <2>4, <3>1 DEF BF!Fits
  <2>6. \E b \in Bin \ DOMAIN size, n \in Size :
          n >= s /\ size' = [c \in DOMAIN size \cup {b} |-> IF c = b THEN n ELSE size[c]]
    <3>1. s >= s
      BY Types
    <3>. QED  BY <1>7, <3>1 DEF GrowHeap
  <2>7. taken' = {} /\ Chain(0)' = Chain(0)
    BY <1>4, <1>7, <2>3 DEF GrowHeap
  <2>8. BF!Grow(s)
    BY <2>5, <2>6, <2>7 DEF BF!Grow
  <2>. QED  BY <2>3, <2>8 DEF BestFitStep
<1>8. ASSUME NEW bin \in in_use, FreeBin(bin)
      PROVE  SInv' /\ BestFitStep
  <2>1. PICK random_level \in Level : klmalloc_skip_list_insert(bin, random_level)
    BY <1>8 DEF FreeBin
  <2>2. in_use' = in_use \ {bin} /\ UNCHANGED size /\ taken' = {}
    BY <1>8 DEF FreeBin
  <2>3. /\ TypeOK'
        /\ \E on2, rank2 : /\ Ranked(rank2, top + 1)' /\ Linked(on2, rank2)'
                           /\ on2[0] = on[0] \cup {bin}
    BY <1>2, <1>3, <2>1, <2>2, InsertLinks
  <2>4. PICK on2, rank2 : /\ Ranked(rank2, top + 1)' /\ Linked(on2, rank2)'
                          /\ on2[0] = on[0] \cup {bin}
    BY <2>3
  <2>5. SInv' /\ Chain(0)' = on2[0]
    BY <1>5, <2>3, <2>4
  <2>6. bin \in DOMAIN size \ Chain(0) /\ Chain(0)' = Chain(0) \cup {bin}
    BY <1>3, <1>4, <2>4, <2>5 DEF TypeOK
  <2>7. BF!Release
    BY <2>2, <2>6 DEF BF!Release
  <2>. QED  BY <2>5, <2>7 DEF BestFitStep
<1>9. CASE UNCHANGED vars
  <2>1. TypeOK' /\ Ranked(rank, top)' /\ Linked(on, rank)'
    <3>1. TypeOK'
      BY <1>3, <1>9 DEF TypeOK, vars
    <3>2. Ranked(rank, top)'
      BY <1>2, <1>9 DEF Ranked, vars
    <3>3. Linked(on, rank)'
      BY <1>2, <1>9 DEF Linked, Sorted, vars
    <3>. QED  BY <3>1, <3>2, <3>3
  <2>2. SInv' /\ Chain(0)' = Chain(0)
    BY <1>4, <1>5, <2>1
  <2>3. UNCHANGED BF!vars
    BY <1>9, <2>2 DEF BF!vars, vars
  <2>. QED  BY <2>2, <2>3 DEF BestFitStep
<1>. QED  BY <1>6, <1>7, <1>8, <1>9 DEF Next

LEMMA Invariant == Spec => []SInv
<1>1. SInv /\ [Next]_vars => SInv'
  BY NextSInv
<1>. QED  BY <1>1, InitSInv, PTL DEF Spec

(* A bin is in the list exactly while nobody holds it, for any number of   *)
(* bins, sizes and levels: none is lost and none is held twice.            *)
THEOREM HoldsFreeBins == Spec => []ListHoldsFreeBins
<1>1. ASSUME SInv
      PROVE  ListHoldsFreeBins
  <2>1. PICK top \in Nat : \E on, rank : Ranked(rank, top) /\ Linked(on, rank)
    BY <1>1 DEF SInv
  <2>2. PICK on, rank : Ranked(rank, top) /\ Linked(on, rank)
    BY <2>1
  <2>3. Chain(0) = on[0]
    BY <1>1, <2>2, ChainIs, Types DEF SInv
  <2>. QED  BY <2>2, <2>3 DEF ListHoldsFreeBins, Linked
<1>2. SInv => ListHoldsFreeBins
  BY <1>1
<1>. QED  BY <1>2, Invariant, PTL

(* Every level is sorted, without repetition, a sublist of the one below,  *)
(* and empty above the list's level; pointers keep their types.            *)
THEOREM Sublists == Spec => []LevelsAreSublists
<1>1. ASSUME SInv
      PROVE  LevelsAreSublists
  <2>1. PICK top \in Nat : \E on, rank : Ranked(rank, top) /\ Linked(on, rank)
    BY <1>1 DEF SInv
  <2>2. PICK on, rank : Ranked(rank, top) /\ Linked(on, rank)
    BY <2>1
  <2>3. TypeOK
    BY <1>1 DEF SInv
  <2>4. \A l \in Level : Chain(l) = on[l]
    BY <2>2, <2>3, ChainIs
  <2>5. ASSUME NEW l \in Level, NEW n \in DOMAIN forward, n \in Nodes(on[l]), forward[n][l] # NULL
        PROVE  /\ n # HEAD => size[n] <= size[forward[n][l]]
               /\ \A m \in Nodes(on[l]) : forward[m][l] = forward[n][l] => m = n
    <3>1. /\ \A b \in on[l] : b # HEAD /\ size[b] \in Nat /\ rank[b] \in Nat
          /\ Sorted(on[l], rank) /\ LeadsOn(forward[n][l], n, on[l], rank)
      BY <2>2, <2>3, <2>5, LevelHolds
    <3>2. n # HEAD => size[n] <= size[forward[n][l]]
      <4> DEFINE next == forward[n][l]
      <4>1. SUFFICES ASSUME n # HEAD
                     PROVE  size[n] <= size[next]
        OBVIOUS
      <4>2. n \in on[l] /\ next \in on[l] /\ rank[n] < rank[next]
        BY <2>5, <3>1, <4>1 DEF LeadsOn, Nodes
      <4>3. ~(size[next] < size[n])
        BY <3>1, <4>2 DEF Sorted
      <4>. QED  BY <3>1, <4>2, <4>3
    <3>3. \A m \in Nodes(on[l]) : forward[m][l] = forward[n][l] => m = n
      BY <2>2, <2>3, <2>5, OneBefore
    <3>. QED  BY <3>2, <3>3
  <2>6. \A l \in Level, n \in DOMAIN forward :
          n \in {HEAD} \cup Chain(l) =>
            LET next == forward[n][l]
            IN  next # NULL =>
                  /\ n # HEAD => size[n] <= size[next]
                  /\ \A m \in {HEAD} \cup Chain(l) : forward[m][l] = next => m = n
    BY <2>4, <2>5 DEF Nodes
  <2>7. \A l \in Level \ {0} : Chain(l) \subseteq Chain(l - 1)
    BY <2>2, <2>4, Types DEF Linked
  <2>8. \A l \in Level : l > level => Chain(l) = {}
    BY <2>2, <2>4 DEF Linked
  <2>. QED  BY <2>3, <2>6, <2>7, <2>8 DEF LevelsAreSublists
<1>2. SInv => LevelsAreSublists
  BY <1>1
<1>. QED  BY <1>2, Invariant, PTL

(* The search of delete comes to the very bin that findbest returned, so   *)
(* delete never leaves it in the list because another one of the same size *)
(* comes first.                                                            *)
THEOREM CanBeUnlinked == Spec => []FoundBinCanBeUnlinked
<1>1. ASSUME SInv
      PROVE  FoundBinCanBeUnlinked
  <2>1. PICK top \in Nat : \E on, rank : Ranked(rank, top) /\ Linked(on, rank)
    BY <1>1 DEF SInv
  <2>2. PICK on, rank : Ranked(rank, top) /\ Linked(on, rank)
    BY <2>1
  <2>3. TypeOK /\ 0 \in 0 .. level
    BY <1>1 DEF SInv, TypeOK, Level
  <2>4. ASSUME NEW s \in Size, klmalloc_skip_list_findbest(s) # NULL
        PROVE  LET bin == klmalloc_skip_list_findbest(s)
               IN  forward[update(size[bin])[0]][0] = bin
    <3> DEFINE best == klmalloc_skip_list_findbest(s)
    <3>1. /\ BestOf(best, on[0], s)
          /\ \A l \in 0 .. level : forward[update(size[best])[l]][l] = best <=> best \in on[l]
      BY <2>2, <2>3, <2>4, FindsBest
    <3>. HIDE DEF best
    <3>2. forward[update(size[best])[0]][0] = best
      BY <2>3, <3>1 DEF BestOf
    <3>. QED  BY <3>2 DEF best
  <2>. QED  BY <2>4 DEF FoundBinCanBeUnlinked
<1>2. SInv => FoundBinCanBeUnlinked
  BY <1>1
<1>. QED  BY <1>2, Invariant, PTL

(* Pointers on many levels implement a set of bins from which a request    *)
(* takes a smallest one that is large enough.                              *)
THEOREM BestFitRefined == Spec => ImplementsBestFit
<1>1. Init => BF!Init
  <2> SUFFICES ASSUME Init
               PROVE  BF!Init
    OBVIOUS
  <2>1. DOMAIN size = {}
    BY DEF Init
  <2>2. Chain(0) = {}
    BY <2>1 DEF Chain
  <2>. QED  BY <2>2 DEF Init, BF!Init
<1>2. SInv /\ [Next]_vars => [BF!Next]_BF!vars
  BY NextSInv DEF BestFitStep, BF!Next
<1>. QED  BY <1>1, <1>2, Invariant, PTL DEF Spec, ImplementsBestFit, BF!Spec

=============================================================================
