------------------------ MODULE SlabAllocatorProofs ------------------------
(***************************************************************************)
(* Proofs about SlabAllocator, for every page size, number of bins, header *)
(* sizes, heap and set of requests that SlabAssumption allows: cells are   *)
(* accounted for, lists hold the bins with room, blocks spare headers, no  *)
(* assertion fails, freed memory is reused, and Heap is implemented; and   *)
(* about LockedAllocator, that its calls under the lock are SlabAllocator's*)
(* and find the lock free.                                                 *)
(* The lemmas speak of a heap record h, the cells held in it and the       *)
(* blocks bl, of which pa are page-aligned, rather than of the variables:  *)
(* klrealloc runs klmalloc and klfree on heaps that no state has.          *)
(***************************************************************************)
EXTENDS LockedAllocator, TLAPS, WellFoundedInduction, SequenceTheorems, FiniteSetTheorems

-----------------------------------------------------------------------------
LEMMA Least ==
  ASSUME NEW U, U \subseteq Nat, U # {}
  PROVE  \E x \in U : \A y \in U : x <= y
<1>1. PICK x \in U : \A y \in U : ~(<<y, x>> \in OpToRel(<, Nat))
  BY NatLessThanWellFounded, WFMin
<1>2. ASSUME NEW y \in U PROVE ~(y < x)
  BY <1>1 DEF OpToRel
<1>. QED  BY <1>2

(* Induction, for sets of numbers.                                         *)
LEMMA Induction ==
  ASSUME NEW U, 0 \in U, \A n \in Nat : n \in U => n + 1 \in U
  PROVE  Nat \subseteq U
<1> SUFFICES ASSUME Nat \ U # {} PROVE FALSE
  OBVIOUS
<1>1. PICK x \in Nat \ U : \A y \in Nat \ U : x <= y
  BY Least
<1>2. x # 0 /\ x - 1 \in Nat
  BY <1>1
<1>3. x - 1 \in U
  BY <1>1, <1>2
<1>. QED  BY <1>1, <1>2, <1>3

(* The first n powers of two.                                              *)
Doubles(g, n) ==
  g \in [0 .. n -> Nat \ {0}] /\ g[0] = 1 /\ \A k \in 0 .. n - 1 : g[k + 1] = 2 * g[k]

LEMMA DoublesExist == \A n \in Nat : \E g : Doubles(g, n)
<1> DEFINE U == {n \in Nat : \E g : Doubles(g, n)}
<1>1. 0 \in U
  <2>1. Doubles([k \in 0 .. 0 |-> 1], 0)
    BY DEF Doubles
  <2>. QED  BY <2>1
<1>2. ASSUME NEW n \in Nat, n \in U PROVE n + 1 \in U
  <2>1. PICK g : Doubles(g, n)
    BY <1>2
  <2> DEFINE h == [k \in 0 .. n + 1 |-> IF k <= n THEN g[k] ELSE 2 * g[n]]
  <2>2. h \in [0 .. n + 1 -> Nat \ {0}] /\ h[0] = 1
    BY <2>1 DEF Doubles
  <2>3. \A k \in 0 .. n : h[k + 1] = 2 * h[k]
    BY <2>1 DEF Doubles
  <2>4. n + 1 - 1 = n
    OBVIOUS
  <2> HIDE DEF h
  <2>5. Doubles(h, n + 1)
    BY <2>2, <2>3, <2>4 DEF Doubles
  <2>. QED  BY <2>5
<1>3. Nat \subseteq U
  <2> HIDE DEF U
  <2>. QED  BY <1>1, <1>2, Induction
<1>. QED  BY <1>3

LEMMA DoublesAgree ==
  ASSUME NEW m \in Nat, NEW n \in Nat, m <= n, NEW g, Doubles(g, m), NEW h, Doubles(h, n)
  PROVE  \A k \in 0 .. m : g[k] = h[k]
<1> DEFINE U == {k \in Nat : k <= m => g[k] = h[k]}
<1>1. 0 \in U
  BY DEF Doubles
<1>2. ASSUME NEW k \in Nat, k \in U PROVE k + 1 \in U
  <2>1. ASSUME k + 1 <= m PROVE g[k + 1] = h[k + 1]
    <3>1. g[k] = h[k] /\ k \in 0 .. m - 1 /\ k \in 0 .. n - 1
      BY <1>2, <2>1
    <3>. QED  BY <3>1 DEF Doubles
  <2>2. k + 1 \in Nat
    OBVIOUS
  <2>. QED  BY <2>1, <2>2
<1>3. Nat \subseteq U
  <2> HIDE DEF U
  <2>. QED  BY <1>1, <1>2, Induction
<1>. QED  BY <1>3

LEMMA PowerIs == Power = [k \in Nat |-> IF k = 0 THEN 1 ELSE 2 * Power[k - 1]]
<1> DEFINE G(n) == CHOOSE g : Doubles(g, n)
           f == [k \in Nat |-> G(k)[k]]
<1>1. \A n \in Nat : Doubles(G(n), n)
  BY DoublesExist
<1> HIDE DEF G
<1>2. ASSUME NEW k \in Nat \ {0} PROVE f[k] = 2 * f[k - 1]
  <2>1. k - 1 \in Nat /\ k - 1 <= k /\ (k - 1) + 1 = k
    OBVIOUS
  <2>2. G(k - 1)[k - 1] = G(k)[k - 1]
    BY <1>1, <2>1, DoublesAgree
  <2>3. G(k)[(k - 1) + 1] = 2 * G(k)[k - 1]
    BY <1>1, <2>1 DEF Doubles
  <2>. QED  BY <2>1, <2>2, <2>3
<1>3. f[0] = 1
  BY <1>1 DEF Doubles
<1>4. f = [k \in Nat |-> IF k = 0 THEN 1 ELSE 2 * f[k - 1]]
  <2>1. \A k \in Nat : f[k] = IF k = 0 THEN 1 ELSE 2 * f[k - 1]
    BY <1>2, <1>3
  <2>2. f = [k \in Nat |-> f[k]]
    OBVIOUS
  <2> HIDE DEF f
  <2>. QED  BY <2>1, <2>2
<1> HIDE DEF f
<1>5. \E p : p = [k \in Nat |-> IF k = 0 THEN 1 ELSE 2 * p[k - 1]]
  BY <1>4
<1>. QED  BY <1>5 DEF Power

LEMMA Powers ==
  /\ Power[0] = 1
  /\ \A k \in Nat : Power[k] \in Nat \ {0} /\ Power[k + 1] = 2 * Power[k] /\ k < Power[k]
<1> DEFINE U == {k \in Nat : Power[k] \in Nat \ {0} /\ k < Power[k]}
<1>1. Power[0] = 1
  BY PowerIs
<1>2. \A k \in Nat : Power[k + 1] = 2 * Power[k]
  <2> SUFFICES ASSUME NEW k \in Nat PROVE Power[k + 1] = 2 * Power[k]
    OBVIOUS
  <2>1. k + 1 \in Nat /\ k + 1 # 0 /\ (k + 1) - 1 = k
    OBVIOUS
  <2>2. \A j \in Nat : Power[j] = IF j = 0 THEN 1 ELSE 2 * Power[j - 1]
    BY PowerIs
  <2>3. Power[k + 1] = 2 * Power[(k + 1) - 1]
    BY <2>1, <2>2
  <2>. QED  BY <2>1, <2>3
<1>3. 0 \in U
  BY <1>1
<1>4. ASSUME NEW n \in Nat, n \in U PROVE n + 1 \in U
  BY <1>2, <1>4
<1>5. Nat \subseteq U
  <2> HIDE DEF U
  <2>. QED  BY <1>3, <1>4, Induction
<1>. QED  BY <1>1, <1>2, <1>5

LEMMA PowersGrow ==
  ASSUME NEW m \in Nat, NEW n \in Nat, m <= n
  PROVE  Power[m] <= Power[n]
<1> DEFINE U == {k \in Nat : Power[m] <= Power[m + k]}
<1>1. 0 \in U
  BY Powers
<1>2. ASSUME NEW k \in Nat, k \in U PROVE k + 1 \in U
  <2>1. m + k \in Nat /\ m + (k + 1) = (m + k) + 1
    OBVIOUS
  <2>2. Power[m + (k + 1)] = 2 * Power[m + k] /\ Power[m + k] \in Nat /\ Power[m] \in Nat
    BY <2>1, Powers
  <2>3. Power[m] <= Power[m + k]
    BY <1>2
  <2>. QED  BY <2>2, <2>3
<1>3. Nat \subseteq U
  <2> HIDE DEF U
  <2>. QED  BY <1>1, <1>2, Induction
<1>4. n - m \in U /\ m + (n - m) = n
  BY <1>3
<1>. QED  BY <1>4

-----------------------------------------------------------------------------
(* Sequences without repetition.                                           *)
LEMMA SeqElements ==
  ASSUME NEW S, NEW s \in Seq(S)
  PROVE  ToSet(s) \subseteq S /\ DOMAIN s = 1 .. Len(s) /\ (s = <<>> <=> ToSet(s) = {})
<1>1. DOMAIN s = 1 .. Len(s) /\ Len(s) \in Nat /\ \A i \in 1 .. Len(s) : s[i] \in S
  OBVIOUS
<1>2. s # <<>> => Len(s) > 0
  OBVIOUS
<1>3. s # <<>> => s[1] \in ToSet(s)
  BY <1>1, <1>2 DEF ToSet
<1>4. s = <<>> => DOMAIN s = {}
  OBVIOUS
<1>5. s = <<>> => ToSet(s) = {}
  BY <1>4 DEF ToSet
<1>. QED  BY <1>1, <1>3, <1>5 DEF ToSet

LEMMA PopSeq ==
  ASSUME NEW S, NEW s \in Seq(S), s # <<>>, IsInjective(s)
  PROVE  /\ Head(s) \in ToSet(s)
         /\ Tail(s) \in Seq(S) /\ IsInjective(Tail(s))
         /\ ToSet(Tail(s)) = ToSet(s) \ {Head(s)}
<1>1. /\ Tail(s) \in Seq(S) /\ Len(Tail(s)) = Len(s) - 1
      /\ \A i \in 1 .. Len(Tail(s)) : Tail(s)[i] = s[i + 1]
  BY HeadTailProperties
<1>2. Len(s) \in Nat /\ Len(s) > 0 /\ DOMAIN s = 1 .. Len(s) /\ Head(s) = s[1]
  OBVIOUS
<1>3. DOMAIN Tail(s) = 1 .. Len(s) - 1
  BY <1>1
<1>4. IsInjective(Tail(s))
  BY <1>1, <1>2, <1>3 DEF IsInjective
<1>5. ASSUME NEW x \in ToSet(Tail(s)) PROVE x \in ToSet(s) \ {Head(s)}
  BY <1>1, <1>2, <1>3 DEF ToSet, IsInjective
<1>6. ASSUME NEW x \in ToSet(s), x # Head(s) PROVE x \in ToSet(Tail(s))
  <2>1. PICK i \in 1 .. Len(s) : x = s[i]
    BY <1>2 DEF ToSet
  <2>2. i # 1 /\ i - 1 \in 1 .. Len(s) - 1 /\ (i - 1) + 1 = i
    BY <1>2, <1>6, <2>1
  <2>3. Tail(s)[i - 1] = x
    BY <1>1, <2>1, <2>2
  <2>. QED  BY <1>3, <2>2, <2>3 DEF ToSet
<1>7. Head(s) \in ToSet(s)
  BY <1>2 DEF ToSet
<1>. QED  BY <1>1, <1>4, <1>5, <1>6, <1>7

LEMMA PushSeq ==
  ASSUME NEW S, NEW s \in Seq(S), IsInjective(s), NEW e \in S \ ToSet(s)
  PROVE  /\ <<e>> \o s \in Seq(S) /\ <<e>> \o s # <<>> /\ IsInjective(<<e>> \o s)
         /\ ToSet(<<e>> \o s) = ToSet(s) \cup {e}
<1> DEFINE t == <<e>> \o s
<1>1. /\ t \in Seq(S) /\ Len(t) = Len(s) + 1 /\ Len(s) \in Nat
      /\ \A i \in 1 .. Len(s) + 1 : t[i] = IF i = 1 THEN e ELSE s[i - 1]
  OBVIOUS
<1>2. DOMAIN t = 1 .. Len(s) + 1 /\ DOMAIN s = 1 .. Len(s)
  BY <1>1
<1> HIDE DEF t
<1>3. \A i \in DOMAIN s : s[i] \in ToSet(s) /\ s[i] # e
  BY DEF ToSet
<1>4. IsInjective(t)
  <2> SUFFICES ASSUME NEW i \in DOMAIN t, NEW j \in DOMAIN t, t[i] = t[j] PROVE i = j
    BY DEF IsInjective
  <2>1. i # 1 => i - 1 \in DOMAIN s /\ t[i] = s[i - 1]
    BY <1>1, <1>2
  <2>2. j # 1 => j - 1 \in DOMAIN s /\ t[j] = s[j - 1]
    BY <1>1, <1>2
  <2>3. (i = 1 => t[i] = e) /\ (j = 1 => t[j] = e)
    BY <1>1, <1>2
  <2>4. i # 1 /\ j # 1 => i - 1 = j - 1
    BY <2>1, <2>2 DEF IsInjective
  <2>5. i \in Int /\ j \in Int
    BY <1>2
  <2>. QED  BY <1>3, <2>1, <2>2, <2>3, <2>4, <2>5
<1>5. ASSUME NEW x \in ToSet(t) PROVE x \in ToSet(s) \cup {e}
  <2>1. PICK i \in 1 .. Len(s) + 1 : x = t[i]
    BY <1>2, <1>5 DEF ToSet
  <2>2. i # 1 => i - 1 \in DOMAIN s
    BY <1>1, <1>2
  <2>. QED  BY <1>1, <2>1, <2>2 DEF ToSet
<1>6. ASSUME NEW x \in ToSet(s) \cup {e} PROVE x \in ToSet(t)
  <2>1. CASE x = e
    <3>1. t[1] = e /\ 1 \in DOMAIN t
      BY <1>1, <1>2
    <3>. QED  BY <2>1, <3>1 DEF ToSet
  <2>2. CASE x \in ToSet(s)
    <3>1. PICK i \in 1 .. Len(s) : x = s[i]
      BY <1>2, <2>2 DEF ToSet
    <3>2. i + 1 \in 1 .. Len(s) + 1 /\ i + 1 # 1 /\ (i + 1) - 1 = i
      BY <1>1
    <3>3. t[i + 1] = s[(i + 1) - 1]
      BY <1>1, <3>2
    <3>. QED  BY <1>2, <3>1, <3>2, <3>3 DEF ToSet
  <2>. QED  BY <1>6, <2>1, <2>2
<1>7. t # <<>>
  BY <1>1
<1>. QED  BY <1>1, <1>4, <1>5, <1>6, <1>7 DEF t

(* The k-th element goes.                                                  *)
LEMMA RemoveSeq ==
  ASSUME NEW S, NEW s \in Seq(S), IsInjective(s), NEW k \in 1 .. Len(s)
  PROVE  LET t == RemoveAt(s, k) IN
         /\ t \in Seq(S) /\ IsInjective(t) /\ ToSet(t) = ToSet(s) \ {s[k]}
         /\ Len(t) = Len(s) - 1
         /\ \A i \in 1 .. Len(t) : t[i] = IF i < k THEN s[i] ELSE s[i + 1]
<1> DEFINE t == RemoveAt(s, k)
           low == SubSeq(s, 1, k - 1)
           high == SubSeq(s, k + 1, Len(s))
<1>0. Len(s) \in Nat /\ DOMAIN s = 1 .. Len(s) /\ k \in Nat \ {0} /\ \A i \in 1 .. Len(s) : s[i] \in S
  OBVIOUS
<1>0a. k <= Len(s)
  BY <1>0
<1>1. low \in Seq(S) /\ Len(low) = k - 1 /\ \A i \in 1 .. k - 1 : low[i] = s[i]
  <2>1. 1 \in Int /\ k - 1 \in Int /\ \A i \in 1 .. k - 1 : s[i] \in S
    BY <1>0
  <2>. QED  BY <1>0, <2>1, SubSeqProperties
<1>2. high \in Seq(S) /\ Len(high) = Len(s) - k /\ \A i \in 1 .. Len(s) - k : high[i] = s[k + i]
  <2>1. k + 1 \in Int /\ Len(s) \in Int /\ \A i \in k + 1 .. Len(s) : s[i] \in S
    BY <1>0
  <2>2. /\ high \in Seq(S)
        /\ Len(high) = IF k + 1 <= Len(s) THEN Len(s) - (k + 1) + 1 ELSE 0
        /\ \A i \in 1 .. Len(s) - (k + 1) + 1 : high[i] = s[(k + 1) + i - 1]
    BY <2>1, SubSeqProperties
  <2>3. Len(s) - (k + 1) + 1 = Len(s) - k /\ (k + 1 <= Len(s) \/ Len(s) - k = 0)
    <3>1. \A m, n \in Nat : m <= n => n - (m + 1) + 1 = n - m /\ (m + 1 <= n \/ n - m = 0)
      OBVIOUS
    <3>2. k \in Nat /\ Len(s) \in Nat
      BY <1>0
    <3>. QED  BY <1>0a, <3>1, <3>2
  <2>4. \A i \in 1 .. Len(s) - k : (k + 1) + i - 1 = k + i
    BY <1>0
  <2> HIDE DEF high
  <2>. QED  BY <2>2, <2>3, <2>4
<1>3. t = low \o high
  BY DEF RemoveAt
<1> HIDE DEF low, high
<1>4. /\ t \in Seq(S) /\ Len(t) = Len(s) - 1
      /\ \A i \in 1 .. Len(s) - 1 : t[i] = IF i <= k - 1 THEN low[i] ELSE high[i - (k - 1)]
  <2>1. /\ low \o high \in Seq(S) /\ Len(low \o high) = Len(low) + Len(high)
        /\ \A i \in 1 .. Len(low) + Len(high) :
             (low \o high)[i] = IF i <= Len(low) THEN low[i] ELSE high[i - Len(low)]
    BY <1>1, <1>2, ConcatProperties
  <2>2. Len(low) = k - 1 /\ Len(low) + Len(high) = Len(s) - 1
    BY <1>0, <1>0a, <1>1, <1>2
  <2>. QED  BY <1>3, <2>1, <2>2
<1>5. \A i \in 1 .. Len(s) - 1 : t[i] = IF i < k THEN s[i] ELSE s[i + 1]
  <2> SUFFICES ASSUME NEW i \in 1 .. Len(s) - 1
               PROVE  t[i] = IF i < k THEN s[i] ELSE s[i + 1]
    OBVIOUS
  <2>1. CASE i < k
    BY <1>0, <1>1, <1>4, <2>1
  <2>2. CASE ~(i < k)
    <3>1. i - (k - 1) \in 1 .. Len(s) - k /\ k + (i - (k - 1)) = i + 1 /\ ~(i <= k - 1)
      BY <1>0, <2>2
    <3>2. high[i - (k - 1)] = s[k + (i - (k - 1))]
      BY <1>2, <3>1
    <3>. QED  BY <1>4, <2>2, <3>1, <3>2
  <2>. QED  BY <2>1, <2>2
<1>6. DOMAIN t = 1 .. Len(s) - 1
  BY <1>4
<1> HIDE DEF t
<1>7. IsInjective(t)
  <2> SUFFICES ASSUME NEW i \in DOMAIN t, NEW j \in DOMAIN t, t[i] = t[j] PROVE i = j
    BY DEF IsInjective
  <2> DEFINE i2 == IF i < k THEN i ELSE i + 1
             j2 == IF j < k THEN j ELSE j + 1
  <2>1. i2 \in DOMAIN s /\ j2 \in DOMAIN s /\ s[i2] = t[i] /\ s[j2] = t[j]
    BY <1>0, <1>5, <1>6
  <2>2. i2 = j2
    BY <2>1 DEF IsInjective
  <2>. QED  BY <1>0, <1>6, <2>2
<1>8. ASSUME NEW x \in ToSet(t) PROVE x \in ToSet(s) \ {s[k]}
  <2>1. PICK i \in 1 .. Len(s) - 1 : x = t[i]
    BY <1>6, <1>8 DEF ToSet
  <2> DEFINE i2 == IF i < k THEN i ELSE i + 1
  <2>2. i2 \in DOMAIN s /\ s[i2] = x /\ i2 # k
    BY <1>0, <1>5, <2>1
  <2>3. s[i2] # s[k]
    BY <1>0, <2>2 DEF IsInjective
  <2>. QED  BY <2>2, <2>3 DEF ToSet
<1>9. ASSUME NEW x \in ToSet(s) \ {s[k]} PROVE x \in ToSet(t)
  <2>1. PICK i \in 1 .. Len(s) : x = s[i]
    BY <1>0, <1>9 DEF ToSet
  <2>2. i # k
    BY <1>9, <2>1
  <2> DEFINE i2 == IF i < k THEN i ELSE i - 1
  <2>3. i2 \in 1 .. Len(s) - 1 /\ i = IF i2 < k THEN i2 ELSE i2 + 1
    BY <1>0, <2>2
  <2>4. t[i2] = x
    BY <1>5, <2>1, <2>3
  <2>. QED  BY <1>6, <2>3, <2>4 DEF ToSet
<1>. QED  BY <1>4, <1>5, <1>7, <1>8, <1>9 DEF t

(* A new element in place k.                                               *)
LEMMA InsertSeq ==
  ASSUME NEW S, NEW s \in Seq(S), IsInjective(s), NEW k \in 1 .. Len(s) + 1,
         NEW e \in S \ ToSet(s)
  PROVE  LET t == InsertAt(s, k, e) IN
         /\ t \in Seq(S) /\ IsInjective(t) /\ ToSet(t) = ToSet(s) \cup {e}
         /\ Len(t) = Len(s) + 1
         /\ \A i \in 1 .. Len(t) : t[i] = IF i < k THEN s[i] ELSE IF i = k THEN e ELSE s[i - 1]
<1> DEFINE t == InsertAt(s, k, e)
           low == SubSeq(s, 1, k - 1)
           high == SubSeq(s, k, Len(s))
<1>0. Len(s) \in Nat /\ DOMAIN s = 1 .. Len(s) /\ k \in Nat \ {0} /\ \A i \in 1 .. Len(s) : s[i] \in S
  OBVIOUS
<1>1. low \in Seq(S) /\ Len(low) = k - 1 /\ \A i \in 1 .. k - 1 : low[i] = s[i]
  <2>1. 1 \in Int /\ k - 1 \in Int /\ \A i \in 1 .. k - 1 : s[i] \in S
    BY <1>0
  <2>. QED  BY <1>0, <2>1, SubSeqProperties
<1>2. high \in Seq(S) /\ Len(high) = Len(s) + 1 - k
      /\ \A i \in 1 .. Len(s) + 1 - k : high[i] = s[k + i - 1]
  <2>1. k \in Int /\ Len(s) \in Int /\ \A i \in k .. Len(s) : s[i] \in S
    BY <1>0
  <2>2. /\ high \in Seq(S)
        /\ Len(high) = IF k <= Len(s) THEN Len(s) - k + 1 ELSE 0
        /\ \A i \in 1 .. Len(s) - k + 1 : high[i] = s[k + i - 1]
    BY <2>1, SubSeqProperties
  <2>3. Len(s) + 1 - k = Len(s) - k + 1 /\ (k <= Len(s) \/ Len(s) - k + 1 = 0)
    BY <1>0
  <2> HIDE DEF high
  <2>. QED  BY <2>2, <2>3
<1>3. t = (low \o <<e>>) \o high
  BY DEF InsertAt
<1> HIDE DEF low, high
<1>4. low \o <<e>> \in Seq(S) /\ Len(low \o <<e>>) = k
      /\ \A i \in 1 .. k : (low \o <<e>>)[i] = IF i < k THEN s[i] ELSE e
  <2>1. <<e>> \in Seq(S) /\ Len(<<e>>) = 1 /\ <<e>>[1] = e
    OBVIOUS
  <2>2. /\ low \o <<e>> \in Seq(S) /\ Len(low \o <<e>>) = Len(low) + 1
        /\ \A i \in 1 .. Len(low) + 1 :
             (low \o <<e>>)[i] = IF i <= Len(low) THEN low[i] ELSE <<e>>[i - Len(low)]
    BY <1>1, <2>1, ConcatProperties
  <2>. QED  BY <1>0, <1>1, <2>1, <2>2
<1>5. /\ t \in Seq(S) /\ Len(t) = Len(s) + 1
      /\ \A i \in 1 .. Len(s) + 1 : t[i] = IF i <= k THEN (low \o <<e>>)[i] ELSE high[i - k]
  <2> DEFINE front == low \o <<e>>
  <2> HIDE DEF front
  <2>1. front \in Seq(S) /\ Len(front) = k
    BY <1>4 DEF front
  <2>2. /\ front \o high \in Seq(S) /\ Len(front \o high) = Len(front) + Len(high)
        /\ \A i \in 1 .. Len(front) + Len(high) :
             (front \o high)[i] = IF i <= Len(front) THEN front[i] ELSE high[i - Len(front)]
    BY <1>2, <2>1, ConcatProperties
  <2>3. Len(front) + Len(high) = Len(s) + 1
    BY <1>0, <1>2, <2>1
  <2>4. t = front \o high
    BY <1>3 DEF front
  <2>. QED  BY <2>1, <2>2, <2>3, <2>4 DEF front
<1>6. \A i \in 1 .. Len(s) + 1 : t[i] = IF i < k THEN s[i] ELSE IF i = k THEN e ELSE s[i - 1]
  <2> SUFFICES ASSUME NEW i \in 1 .. Len(s) + 1
               PROVE  t[i] = IF i < k THEN s[i] ELSE IF i = k THEN e ELSE s[i - 1]
    OBVIOUS
  <2>1. CASE i <= k
    BY <1>0, <1>4, <1>5, <2>1
  <2>2. CASE i > k
    <3>1. i - k \in 1 .. Len(s) + 1 - k /\ k + (i - k) - 1 = i - 1
      BY <1>0, <2>2
    <3>2. high[i - k] = s[k + (i - k) - 1]
      BY <1>2, <3>1
    <3>. QED  BY <1>0, <1>5, <2>2, <3>1, <3>2
  <2>. QED  BY <1>0, <2>1, <2>2
<1>7. DOMAIN t = 1 .. Len(s) + 1
  BY <1>5
<1> HIDE DEF t
<1>8. \A i \in DOMAIN s : s[i] # e
  BY DEF ToSet
<1>9. IsInjective(t)
  <2> SUFFICES ASSUME NEW i \in DOMAIN t, NEW j \in DOMAIN t, t[i] = t[j] PROVE i = j
    BY DEF IsInjective
  <2> DEFINE i2 == IF i < k THEN i ELSE i - 1
             j2 == IF j < k THEN j ELSE j - 1
  <2>1. i # k => i2 \in DOMAIN s /\ s[i2] = t[i]
    BY <1>0, <1>6, <1>7
  <2>2. j # k => j2 \in DOMAIN s /\ s[j2] = t[j]
    BY <1>0, <1>6, <1>7
  <2>3. (i = k => t[i] = e) /\ (j = k => t[j] = e)
    BY <1>0, <1>6, <1>7
  <2>4. i # k /\ j # k => i2 = j2
    <3> HIDE DEF i2, j2
    <3>. QED  BY <2>1, <2>2 DEF IsInjective
  <2>5. i \in Int /\ j \in Int
    BY <1>7
  <2>6. i = k <=> j = k
    <3> HIDE DEF i2, j2
    <3>. QED  BY <1>8, <2>1, <2>2, <2>3
  <2>7. CASE i # k /\ j # k
    BY <1>0, <2>4, <2>5, <2>7
  <2>. QED  BY <2>6, <2>7
<1>10. ASSUME NEW x \in ToSet(t) PROVE x \in ToSet(s) \cup {e}
  <2>1. PICK i \in 1 .. Len(s) + 1 : x = t[i]
    BY <1>7, <1>10 DEF ToSet
  <2> DEFINE i2 == IF i < k THEN i ELSE i - 1
  <2>2. i # k => i2 \in DOMAIN s /\ s[i2] = x
    BY <1>0, <1>6, <2>1
  <2>3. i = k => x = e
    BY <1>0, <1>6, <2>1
  <2> HIDE DEF i2
  <2>. QED  BY <2>2, <2>3 DEF ToSet
<1>11. ASSUME NEW x \in ToSet(s) \cup {e} PROVE x \in ToSet(t)
  <2>1. CASE x = e
    <3>1. t[k] = e /\ k \in DOMAIN t
      BY <1>0, <1>6, <1>7
    <3>. QED  BY <2>1, <3>1 DEF ToSet
  <2>2. CASE x \in ToSet(s)
    <3>1. PICK i \in 1 .. Len(s) : x = s[i]
      BY <1>0, <2>2 DEF ToSet
    <3> DEFINE i2 == IF i < k THEN i ELSE i + 1
    <3>2. /\ i2 \in 1 .. Len(s) + 1
          /\ i2 # k /\ i = IF i2 < k THEN i2 ELSE i2 - 1
      BY <1>0
    <3>3. t[i2] = x
      <4> HIDE DEF i2
      <4>. QED  BY <1>6, <3>1, <3>2
    <3>. QED  BY <1>7, <3>2, <3>3 DEF ToSet
  <2>. QED  BY <1>11, <2>1, <2>2
<1>. QED  BY <1>5, <1>6, <1>9, <1>10, <1>11 DEF t

-----------------------------------------------------------------------------
(* The sizes of cells and headers.                                         *)
LEMMA Sizes ==
  /\ PAGE_SIZE \in Nat \ {0} /\ NUM_BINS \in Nat /\ BIG_BIN \in Nat \ {0} /\ BIG_BIN = NUM_BINS - 1
  /\ SMALLEST_BIN_LOG \in Nat /\ heap_start \in Nat \ {0} /\ heap_size \in Nat
  /\ heap_start % PAGE_SIZE = 0
  /\ bin_header \in Nat \ {0} /\ big_bin_header \in Nat \ {0}
  /\ big_bin_header + NUM_BINS < PAGE_SIZE /\ Requests \subseteq Nat \ {0}
  /\ \A id \in 0 .. BIG_BIN - 1 : /\ cell_size(id) \in Nat \ {0}
                                  /\ bin_header + cell_size(id) <= PAGE_SIZE
                                  /\ cell_size(id) < PAGE_SIZE - big_bin_header
<1>1. BIG_BIN \in Nat \ {0} /\ BIG_BIN = NUM_BINS - 1
  BY SlabAssumption DEF BIG_BIN
<1> DEFINE top == Power[SMALLEST_BIN_LOG + BIG_BIN - 1]
<1>2. SMALLEST_BIN_LOG + BIG_BIN - 1 \in Nat /\ SMALLEST_BIN_LOG \in Nat
  BY <1>1, SlabAssumption
<1>3. top \in Nat \ {0}
  BY <1>2, Powers
<1>4. bin_header \in 1 .. PAGE_SIZE - top /\ PAGE_SIZE - big_bin_header > top
      /\ PAGE_SIZE \in Nat \ {0} /\ big_bin_header \in Nat \ {0}
  BY SlabAssumption
<1>5. ASSUME NEW id \in 0 .. BIG_BIN - 1
      PROVE  cell_size(id) \in Nat \ {0} /\ cell_size(id) <= top
  <2>1. SMALLEST_BIN_LOG + id \in Nat /\ SMALLEST_BIN_LOG + id <= SMALLEST_BIN_LOG + BIG_BIN - 1
    BY <1>1, <1>2
  <2>. QED  BY <1>2, <2>1, Powers, PowersGrow DEF cell_size
<1> HIDE DEF top
<1>6. ASSUME NEW id \in 0 .. BIG_BIN - 1
      PROVE  /\ cell_size(id) \in Nat \ {0} /\ bin_header + cell_size(id) <= PAGE_SIZE
             /\ cell_size(id) < PAGE_SIZE - big_bin_header
  BY <1>3, <1>4, <1>5
<1>7. bin_header \in Nat \ {0}
  BY <1>3, <1>4
<1>. QED  BY <1>1, <1>6, <1>7, SlabAssumption

(* A request gets a bin of which the cells are large enough, the big bin   *)
(* when no cell is.                                                        *)
LEMMA BinSize ==
  ASSUME NEW size \in Nat \ {0}
  PROVE  /\ klmalloc_bin_size(size) \in 0 .. BIG_BIN
         /\ klmalloc_bin_size(size) < BIG_BIN => size <= cell_size(klmalloc_bin_size(size))
<1> DEFINE log == CHOOSE k \in 0 .. size : Power[k] <= size /\ size < Power[k + 1]
           bin == (log + 1) + (IF size = Power[log] THEN 0 ELSE 1)
           above == {k \in Nat : size < Power[k + 1]}
<1>1. \E k \in 0 .. size : Power[k] <= size /\ size < Power[k + 1]
  <2>1. size < Power[size] /\ Power[size] <= Power[size + 1]
    BY Powers, PowersGrow
  <2>2. Power[size] \in Nat /\ Power[size + 1] \in Nat
    BY Powers
  <2>3. size \in above
    BY <2>1, <2>2
  <2>4. PICK k \in above : \A j \in above : k <= j
    BY <2>3, Least
  <2>5. Power[k] <= size
    <3>1. CASE k = 0
      BY <3>1, Powers
    <3>2. CASE k # 0
      <4>1. k - 1 \in Nat /\ k - 1 \notin above /\ (k - 1) + 1 = k
        BY <2>4, <3>2
      <4>2. Power[(k - 1) + 1] \in Nat
        BY <4>1, Powers
      <4>. QED  BY <4>1, <4>2
    <3>. QED  BY <3>1, <3>2
  <2>. QED  BY <2>3, <2>4, <2>5
<1>2. log \in 0 .. size /\ Power[log] <= size /\ size < Power[log + 1]
  BY <1>1
<1> HIDE DEF log
<1>3. bin \in Nat \ {0} /\ size <= Power[bin - 1]
  <2>1. CASE size = Power[log]
    BY <1>2, <2>1
  <2>2. CASE size # Power[log]
    <3>1. bin = log + 2 /\ bin - 1 = log + 1
      BY <1>2, <2>2
    <3>2. Power[log + 1] \in Nat
      BY <1>2, Powers
    <3>. QED  BY <1>2, <3>1, <3>2
  <2>. QED  BY <2>1, <2>2
<1> HIDE DEF bin
<1>4. klmalloc_bin_size(size) =
        IF bin <= SMALLEST_BIN_LOG THEN 0
        ELSE IF bin - (SMALLEST_BIN_LOG + 1) > BIG_BIN THEN BIG_BIN
        ELSE bin - (SMALLEST_BIN_LOG + 1)
  BY DEF klmalloc_bin_size, bin, log
<1>5. CASE bin <= SMALLEST_BIN_LOG
  <2>1. bin - 1 \in Nat /\ SMALLEST_BIN_LOG \in Nat /\ bin - 1 <= SMALLEST_BIN_LOG
    BY <1>3, <1>5, Sizes
  <2>2. Power[bin - 1] <= Power[SMALLEST_BIN_LOG]
    BY <2>1, PowersGrow
  <2>3. cell_size(0) = Power[SMALLEST_BIN_LOG]
    BY <2>1 DEF cell_size
  <2>4. Power[bin - 1] \in Nat /\ Power[SMALLEST_BIN_LOG] \in Nat
    BY <2>1, Powers
  <2>. QED  BY <1>3, <1>4, <1>5, <2>2, <2>3, <2>4, Sizes
<1>6. CASE ~(bin <= SMALLEST_BIN_LOG)
  <2>1. bin - (SMALLEST_BIN_LOG + 1) \in Nat
    BY <1>3, <1>6, Sizes
  <2>2. SMALLEST_BIN_LOG + (bin - (SMALLEST_BIN_LOG + 1)) = bin - 1
    BY <1>3, Sizes
  <2>3. cell_size(bin - (SMALLEST_BIN_LOG + 1)) = Power[bin - 1]
    BY <2>2 DEF cell_size
  <2>. QED  BY <1>3, <1>4, <1>6, <2>1, <2>3, Sizes
<1>. QED  BY <1>5, <1>6

LEMMA BigSize ==
  ASSUME NEW size \in Nat, size + big_bin_header >= PAGE_SIZE
  PROVE  size > 0 /\ klmalloc_bin_size(size) = BIG_BIN
<1>1. size \in Nat \ {0}
  BY Sizes
<1>2. ASSUME klmalloc_bin_size(size) < BIG_BIN PROVE FALSE
  <2> DEFINE id == klmalloc_bin_size(size)
  <2>1. id \in 0 .. BIG_BIN - 1 /\ size <= cell_size(id)
    BY <1>1, <1>2, BinSize, Sizes
  <2> HIDE DEF id
  <2>. QED  BY <2>1, Sizes
<1>. QED  BY <1>1, <1>2, BinSize, Sizes

-----------------------------------------------------------------------------
(* Arithmetic of pages.                                                    *)
LEMMA Products ==
  ASSUME NEW k \in Nat \ {0}, NEW m \in Int, NEW n \in Int
  PROVE  /\ k * m \in Int
         /\ k * m < k * n => m < n
         /\ m <= n => k * m <= k * n
         /\ k * (m + 1) = k * m + k
<1>1. k * m \in Int /\ k * n \in Int
  OBVIOUS
<1>2. m <= n => k * m <= k * n
  OBVIOUS
<1>3. n <= m => k * n <= k * m
  OBVIOUS
<1>4. k * (m + 1) = k * m + k
  OBVIOUS
<1>. QED  BY <1>1, <1>2, <1>3, <1>4

LEMMA Division ==
  ASSUME NEW a \in Nat, NEW k \in Nat \ {0}
  PROVE  /\ a \div k \in Nat
         /\ a % k \in 0 .. k - 1
         /\ a = k * (a \div k) + (a % k)
<1>1. a \div k \in Int /\ a % k \in 0 .. k - 1 /\ a = k * (a \div k) + (a % k)
  OBVIOUS
<1>2. ASSUME a \div k < 0 PROVE FALSE
  <2>1. k * (a \div k) <= k * (-1)
    BY <1>1, <1>2, Products
  <2>2. k * (-1) = -k
    OBVIOUS
  <2>. QED  BY <1>1, <2>1, <2>2
<1>. QED  BY <1>1, <1>2

LEMMA UniqueRemainder ==
  ASSUME NEW a \in Nat, NEW k \in Nat \ {0}, NEW q \in Nat, NEW r \in 0 .. k - 1, a = k * q + r
  PROVE  a % k = r
<1> DEFINE d == a \div k
           m == a % k
<1>1. d \in Nat /\ m \in 0 .. k - 1 /\ a = k * d + m
  BY Division
<1> HIDE DEF d, m
<1>2. k * d \in Int /\ k * q \in Int
  BY <1>1
<1>3. ~(d < q)
  <2>1. d < q => k * (d + 1) <= k * q /\ k * (d + 1) = k * d + k
    BY <1>1, Products
  <2>. QED  BY <1>1, <1>2, <2>1
<1>4. ~(q < d)
  <2>1. q < d => k * (q + 1) <= k * d /\ k * (q + 1) = k * q + k
    BY <1>1, Products
  <2>. QED  BY <1>1, <1>2, <2>1
<1>5. d = q
  BY <1>1, <1>3, <1>4
<1>. QED  BY <1>1, <1>2, <1>5 DEF m

(* A page starts at b.                                                     *)
Page(b) == b \in Nat /\ b % PAGE_SIZE = 0

LEMMA PageIs ==
  ASSUME NEW b
  PROVE  Page(b) <=> \E q \in Nat : b = PAGE_SIZE * q
<1>1. ASSUME Page(b) PROVE b \div PAGE_SIZE \in Nat /\ b = PAGE_SIZE * (b \div PAGE_SIZE)
  <2> DEFINE q == b \div PAGE_SIZE
  <2>1. q \in Nat /\ b = PAGE_SIZE * q + (b % PAGE_SIZE) /\ b % PAGE_SIZE = 0
    BY <1>1, Division, Sizes DEF Page
  <2> HIDE DEF q
  <2>2. PAGE_SIZE * q \in Nat
    BY <2>1, Sizes
  <2>. QED  BY <2>1, <2>2 DEF q
<1>2. ASSUME NEW q \in Nat, b = PAGE_SIZE * q PROVE Page(b)
  <2>1. PAGE_SIZE * q \in Nat /\ 0 \in 0 .. PAGE_SIZE - 1 /\ PAGE_SIZE * q = PAGE_SIZE * q + 0
        /\ PAGE_SIZE \in Nat \ {0}
    BY Sizes
  <2>2. b % PAGE_SIZE = 0
    BY <1>2, <2>1, UniqueRemainder
  <2>. QED  BY <1>2, <2>1, <2>2 DEF Page
<1>. QED  BY <1>1, <1>2

LEMMA PagesOn ==
  ASSUME NEW b, Page(b), NEW n \in Nat
  PROVE  Page(b + n * PAGE_SIZE)
<1>1. PICK q \in Nat : b = PAGE_SIZE * q
  BY PageIs
<1>2. q + n \in Nat /\ b + n * PAGE_SIZE = PAGE_SIZE * (q + n)
  BY <1>1, Sizes
<1>. QED  BY <1>2, PageIs

(* The header of what lies in a page, or begins the page after the first   *)
(* one of a big bin.                                                       *)
LEMMA HeaderOf ==
  ASSUME NEW b, Page(b)
  PROVE  /\ \A k \in 1 .. PAGE_SIZE - 1 : /\ (b + k) % PAGE_SIZE = k
                                          /\ header_of(b + k) = b
         /\ (b + PAGE_SIZE) % PAGE_SIZE = 0 /\ header_of(b + PAGE_SIZE) = b
<1>0. PAGE_SIZE \in Nat \ {0, 1} /\ b \in Nat
  BY Sizes DEF Page
<1>1. ASSUME NEW k \in 0 .. PAGE_SIZE - 1 PROVE (b + k) % PAGE_SIZE = k
  <2>1. PICK q \in Nat : b = PAGE_SIZE * q
    BY PageIs
  <2>2. b + k \in Nat /\ b + k = PAGE_SIZE * q + k
    BY <1>0, <2>1
  <2>. QED  BY <1>0, <2>2, UniqueRemainder
<1>2. ASSUME NEW k \in 1 .. PAGE_SIZE - 1 PROVE header_of(b + k) = b
  <2>1. (b + k) % PAGE_SIZE = k /\ k # 0
    BY <1>1
  <2>2. (b + k) - k = b
    BY <1>0
  <2>. QED  BY <2>1, <2>2 DEF header_of
<1>3. (b + PAGE_SIZE) % PAGE_SIZE = 0
  <2>1. 1 * PAGE_SIZE = PAGE_SIZE
    BY <1>0
  <2>2. Page(b + 1 * PAGE_SIZE)
    BY PagesOn
  <2>. QED  BY <2>1, <2>2 DEF Page
<1>4. header_of(b + PAGE_SIZE) = b
  <2> DEFINE last == b + PAGE_SIZE - 1
  <2>1. last = b + (PAGE_SIZE - 1) /\ PAGE_SIZE - 1 \in 0 .. PAGE_SIZE - 1
        /\ last - (PAGE_SIZE - 1) = b
    BY <1>0
  <2>2. header_of(b + PAGE_SIZE) = last - (last % PAGE_SIZE)
    BY <1>0, <1>3 DEF header_of
  <2> HIDE DEF last
  <2>3. last % PAGE_SIZE = PAGE_SIZE - 1
    BY <1>1, <2>1
  <2>. QED  BY <2>1, <2>2, <2>3
<1>. QED  BY <1>1, <1>2, <1>3, <1>4

-----------------------------------------------------------------------------
(* The cells of a small bin lie in its page behind the header, one after   *)
(* the other.                                                              *)
LEMMA CellsIn ==
  ASSUME NEW id \in 0 .. BIG_BIN - 1, NEW b \in Nat
  PROVE  LET s == cells(b, id) IN
         /\ s \in Seq(Nat) /\ s # <<>> /\ IsInjective(s)
         /\ \A c \in ToSet(s) : c \in Nat /\ b + bin_header <= c /\ c + cell_size(id) <= b + PAGE_SIZE
         /\ \A c, d \in ToSet(s) : c < d => c + cell_size(id) <= d
<1> DEFINE cs == cell_size(id)
           room == PAGE_SIZE - bin_header
           n == room \div cs
           s == cells(b, id)
<1>1. /\ cs \in Nat \ {0} /\ room \in Nat \ {0} /\ cs <= room /\ bin_header \in Nat
      /\ PAGE_SIZE \in Nat /\ b \in Nat /\ room = PAGE_SIZE - bin_header
  BY Sizes
<1> HIDE DEF cs, room
<1>2. n \in Nat /\ room % cs \in 0 .. cs - 1 /\ room = cs * n + (room % cs)
  BY <1>1, Division
<1>3. s = [i \in 1 .. (n - 1) + 1 |-> b + bin_header + (i - 1) * cs]
  BY DEF cells, cs, room
<1> HIDE DEF n, s
<1>4. cs * n \in Nat /\ cs * n <= room
  BY <1>1, <1>2
<1>5. n # 0
  <2>1. n = 0 => cs * n = 0
    BY <1>1
  <2>. QED  BY <1>1, <1>2, <2>1
<1>6. (n - 1) + 1 = n
  BY <1>2
<1>7. ASSUME NEW i \in 1 .. n PROVE (i - 1) * cs \in Nat /\ (i - 1) * cs + cs <= cs * n
  <2>1. (i - 1) * cs = cs * (i - 1) /\ cs * ((i - 1) + 1) = cs * (i - 1) + cs /\ cs * (i - 1) \in Nat
    BY <1>1, <1>2
  <2>2. (i - 1) + 1 \in Int /\ n \in Int /\ (i - 1) + 1 <= n
    BY <1>2
  <2>3. cs * ((i - 1) + 1) <= cs * n
    BY <1>1, <2>2, Products
  <2>. QED  BY <2>1, <2>3
<1>8. /\ DOMAIN s = 1 .. n
      /\ \A i \in 1 .. n : s[i] = b + bin_header + (i - 1) * cs /\ s[i] \in Nat
  BY <1>1, <1>3, <1>6, <1>7
<1>9. s \in Seq(Nat) /\ s # <<>>
  <2>1. s = [i \in 1 .. n |-> s[i]]
    BY <1>3, <1>6
  <2>2. s \in Seq(Nat) /\ Len(s) = n
    BY <1>2, <1>8, <2>1
  <2>. QED  BY <1>5, <2>2
<1>10. ASSUME NEW i \in 1 .. n, NEW j \in 1 .. n, i < j
       PROVE  s[i] + cs <= s[j]
  <2>1. i - 1 \in Int /\ j - 1 \in Int /\ (i - 1) + 1 <= j - 1
    BY <1>2, <1>10
  <2>2. cs * ((i - 1) + 1) <= cs * (j - 1) /\ cs * ((i - 1) + 1) = cs * (i - 1) + cs
    BY <1>1, <2>1, Products
  <2>3. cs * (i - 1) = (i - 1) * cs /\ cs * (j - 1) = (j - 1) * cs
    BY <1>1, <1>2
  <2> DEFINE x == (i - 1) * cs
             y == (j - 1) * cs
  <2>4. x + cs <= y
    BY <2>2, <2>3
  <2>5. x \in Nat /\ y \in Nat /\ s[i] = b + bin_header + x /\ s[j] = b + bin_header + y
    BY <1>7, <1>8
  <2> HIDE DEF x, y
  <2>. QED  BY <1>1, <2>4, <2>5
<1>11. IsInjective(s)
  <2> SUFFICES ASSUME NEW i \in 1 .. n, NEW j \in 1 .. n, s[i] = s[j] PROVE i = j
    BY <1>8 DEF IsInjective
  <2>1. s[i] \in Nat /\ s[j] \in Nat /\ i \in Int /\ j \in Int
    BY <1>2, <1>8
  <2>. QED  BY <1>1, <1>10, <2>1
<1>12. ASSUME NEW c \in ToSet(s)
       PROVE  c \in Nat /\ b + bin_header <= c /\ c + cs <= b + PAGE_SIZE
  <2>1. PICK i \in 1 .. n : c = s[i]
    BY <1>8 DEF ToSet
  <2> DEFINE x == (i - 1) * cs
  <2>2. x \in Nat /\ x + cs <= cs * n /\ c = b + bin_header + x
    BY <1>7, <1>8, <2>1
  <2> HIDE DEF x
  <2>. QED  BY <1>1, <1>4, <2>2
<1>13. ASSUME NEW c \in ToSet(s), NEW d \in ToSet(s), c < d PROVE c + cs <= d
  <2>1. PICK i \in 1 .. n : c = s[i]
    BY <1>8 DEF ToSet
  <2>2. PICK j \in 1 .. n : d = s[j]
    BY <1>8 DEF ToSet
  <2>3. ~(j < i) /\ i # j
    <3>1. j < i => s[j] + cs <= s[i]
      BY <1>10
    <3>2. s[i] \in Nat /\ s[j] \in Nat
      BY <1>8
    <3>. QED  BY <1>1, <1>13, <2>1, <2>2, <3>1, <3>2
  <2>4. i < j
    BY <1>2, <2>3
  <2>. QED  BY <1>10, <2>1, <2>2, <2>4
<1>. QED  BY <1>9, <1>11, <1>12, <1>13 DEF s, cs

(* As many elements as places.                                             *)
LEMMA CountSeq ==
  ASSUME NEW S, NEW s \in Seq(S), IsInjective(s)
  PROVE  Cardinality(ToSet(s)) = Len(s)
<1>1. Len(s) \in Nat /\ DOMAIN s = 1 .. Len(s) /\ s = [i \in 1 .. Len(s) |-> s[i]]
  OBVIOUS
<1>2. s \in Bijection(1 .. Len(s), ToSet(s))
  <2>1. s \in [1 .. Len(s) -> ToSet(s)]
    BY <1>1 DEF ToSet
  <2>2. \A t \in ToSet(s) : \E i \in 1 .. Len(s) : s[i] = t
    BY <1>1 DEF ToSet
  <2>3. s \in Surjection(1 .. Len(s), ToSet(s))
    BY <2>1, <2>2 DEF Surjection
  <2>4. s \in Injection(1 .. Len(s), ToSet(s))
    BY <2>1 DEF Injection
  <2>. QED  BY <2>3, <2>4 DEF Bijection
<1>3. ExistsBijection(1 .. Len(s), ToSet(s))
  BY <1>2 DEF ExistsBijection
<1>. QED  BY <1>1, <1>3, FS_CountingElements

(* Where the list is searched.                                             *)
LEMMA FirstFitIs ==
  ASSUME NEW h, NEW n, DOMAIN h.big = 1 .. Len(h.big), Len(h.big) \in Nat
  PROVE  LET k == FirstFit(h, n) IN
         /\ k \in 0 .. Len(h.big)
         /\ k = 0 => \A i \in 1 .. Len(h.big) : ~(h.size[h.big[i]] >= n)
         /\ k # 0 => /\ h.size[h.big[k]] >= n
                     /\ \A i \in 1 .. k - 1 : ~(h.size[h.big[i]] >= n)
<1> DEFINE I == {i \in 1 .. Len(h.big) : h.size[h.big[i]] >= n}
           k == FirstFit(h, n)
<1>1. k = IF I # {} THEN Min(I) ELSE 0
  BY DEF FirstFit, SelectInSeq
<1>2. CASE I = {}
  BY <1>1, <1>2
<1>3. CASE I # {}
  <2>1. I \subseteq Nat
    BY <1>3
  <2>2. \E i \in I : \A j \in I : i <= j
    BY <1>3, <2>1, Least
  <2>3. Min(I) \in I /\ \A j \in I : Min(I) <= j
    BY <2>2 DEF Min
  <2>4. k \in 1 .. Len(h.big) /\ h.size[h.big[k]] >= n /\ \A j \in I : k <= j
    BY <1>1, <1>3, <2>3
  <2> HIDE DEF k
  <2>5. ASSUME NEW i \in 1 .. k - 1 PROVE i \notin I /\ i \in 1 .. Len(h.big)
    <3>1. i < k /\ i \in Nat /\ k \in Nat /\ k <= Len(h.big)
      BY <2>4
    <3>. QED  BY <2>4, <3>1
  <2>6. \A i \in 1 .. k - 1 : ~(h.size[h.big[i]] >= n)
    BY <2>5
  <2>. QED  BY <2>4, <2>6 DEF k
<1>. QED  BY <1>2, <1>3

-----------------------------------------------------------------------------
(* A heap of which the cells in held are not free.                         *)
EndOf(h, b) == IF IsBig(h, b) THEN b + big_bin_header + h.size[b] ELSE b + PAGE_SIZE
CellsAt(h, b) == IF IsBig(h, b) THEN {b + big_bin_header} ELSE ToSet(cells(b, h.size[b]))
Capacity(h, b) == IF IsBig(h, b) THEN h.size[b] ELSE cell_size(h.size[b])

Fields(h) ==
  h = [brk |-> h.brk, size |-> h.size, stack |-> h.stack, list |-> h.list, big |-> h.big,
       asserted |-> h.asserted, ret |-> h.ret]

(* Bins lie apart between the start of the heap and the break.             *)
BinHolds(h, b) ==
  /\ Page(b) /\ heap_start <= b /\ EndOf(h, b) <= h.brk
  /\ h.size[b] \in Nat /\ (h.size[b] \in 0 .. BIG_BIN - 1 \/ IsBig(h, b))

BinsHold(h) ==
  /\ Page(h.brk) /\ heap_start <= h.brk /\ h.brk <= heap_start + heap_size
  /\ DOMAIN h.stack = DOMAIN h.size
  /\ \A b \in DOMAIN h.size : BinHolds(h, b)
  /\ \A b, c \in DOMAIN h.size : b < c => EndOf(h, b) <= c

(* The stack of a bin has, once each, the cells that are not held.         *)
StacksHold(h, held) ==
  /\ \A b \in DOMAIN h.size : /\ h.stack[b] \in Seq(Nat) /\ IsInjective(h.stack[b])
                              /\ ToSet(h.stack[b]) = CellsAt(h, b) \ held
  /\ \A c \in held : \E b \in DOMAIN h.size : c \in CellsAt(h, b)

Sorted(h) == \A i, j \in DOMAIN h.big : i < j => h.size[h.big[i]] <= h.size[h.big[j]]

ListsHold(h) ==
  /\ DOMAIN h.list = 0 .. BIG_BIN - 1
  /\ \A id \in 0 .. BIG_BIN - 1 :
       /\ h.list[id] \in Seq(DOMAIN h.size) /\ IsInjective(h.list[id])
       /\ ToSet(h.list[id]) = {b \in DOMAIN h.size : h.size[b] = id /\ h.stack[b] # <<>>}
  /\ h.big \in Seq(DOMAIN h.size) /\ IsInjective(h.big)
  /\ ToSet(h.big) = {b \in DOMAIN h.size : IsBig(h, b) /\ h.stack[b] # <<>>}
  /\ Sorted(h)

HeapHolds(h, held) == Fields(h) /\ BinsHold(h) /\ StacksHold(h, held) /\ ListsHold(h)

-----------------------------------------------------------------------------
(* Where a cell lies.                                                      *)
LEMMA CellPlace ==
  ASSUME NEW h, NEW b, BinHolds(h, b), NEW c \in CellsAt(h, b)
  PROVE  /\ c \in Nat /\ b \in Nat /\ b < c /\ c + Capacity(h, b) <= EndOf(h, b)
         /\ EndOf(h, b) \in Nat /\ Capacity(h, b) \in Nat \ {0}
         /\ c % PAGE_SIZE # 0 /\ header_of(c) = b /\ c - (c % PAGE_SIZE) = b
         /\ b + (IF IsBig(h, b) THEN big_bin_header ELSE bin_header) <= c
<1>1. b \in Nat /\ Page(b) /\ h.size[b] \in Nat
  BY DEF BinHolds, Page
<1>2. CASE IsBig(h, b)
  <2>1. c = b + big_bin_header /\ Capacity(h, b) = h.size[b]
        /\ EndOf(h, b) = b + big_bin_header + h.size[b] /\ h.size[b] > NUM_BINS
    BY <1>2 DEF CellsAt, Capacity, EndOf, IsBig
  <2>2. big_bin_header \in 1 .. PAGE_SIZE - 1 /\ NUM_BINS \in Nat
    BY Sizes
  <2>3. c % PAGE_SIZE = big_bin_header /\ header_of(c) = b
    BY <1>1, <2>1, <2>2, HeaderOf
  <2>. QED  BY <1>1, <1>2, <2>1, <2>2, <2>3
<1>3. CASE ~IsBig(h, b)
  <2> DEFINE id == h.size[b]
  <2>1. id \in 0 .. BIG_BIN - 1
    BY <1>3 DEF BinHolds
  <2>2. c \in ToSet(cells(b, id)) /\ Capacity(h, b) = cell_size(id) /\ EndOf(h, b) = b + PAGE_SIZE
    BY <1>3 DEF CellsAt, Capacity, EndOf
  <2> HIDE DEF id
  <2>3. c \in Nat /\ b + bin_header <= c /\ c + cell_size(id) <= b + PAGE_SIZE
    BY <1>1, <2>1, <2>2, CellsIn
  <2>4. cell_size(id) \in Nat \ {0} /\ bin_header \in Nat \ {0} /\ PAGE_SIZE \in Nat
    BY <2>1, Sizes
  <2> DEFINE k == c - b
  <2>5. k \in 1 .. PAGE_SIZE - 1 /\ c = b + k
    BY <1>1, <2>3, <2>4
  <2> HIDE DEF k
  <2>6. c % PAGE_SIZE = k /\ header_of(c) = b
    BY <1>1, <2>5, HeaderOf
  <2>. QED  BY <1>1, <1>3, <2>2, <2>3, <2>4, <2>5, <2>6
<1>. QED  BY <1>2, <1>3

LEMMA OneBin ==
  ASSUME NEW h, BinsHold(h), NEW b \in DOMAIN h.size, NEW d \in DOMAIN h.size,
         NEW c \in CellsAt(h, b), c \in CellsAt(h, d)
  PROVE  b = d
<1>1. BinHolds(h, b) /\ BinHolds(h, d)
  BY DEF BinsHold
<1>2. header_of(c) = b /\ header_of(c) = d
  BY <1>1, CellPlace
<1>. QED  BY <1>2

(* Cells of a bin are apart.                                               *)
LEMMA CellsApart ==
  ASSUME NEW h, NEW b, BinHolds(h, b), NEW c \in CellsAt(h, b), NEW d \in CellsAt(h, b), c < d
  PROVE  c + Capacity(h, b) <= d
<1>1. ~IsBig(h, b)
  <2>1. ASSUME IsBig(h, b) PROVE c = d
    BY <2>1 DEF CellsAt
  <2>2. c \in Nat
    BY CellPlace
  <2>. QED  BY <2>1, <2>2
<1>2. h.size[b] \in 0 .. BIG_BIN - 1 /\ b \in Nat
  BY <1>1 DEF BinHolds, Page
<1>. QED  BY <1>1, <1>2, CellsIn DEF CellsAt, Capacity

(* Bins of which the headers are the same.                                 *)
LEMMA SameBins ==
  ASSUME NEW h, NEW g, BinsHold(h), g.brk = h.brk, g.size = h.size, DOMAIN g.stack = DOMAIN h.stack
  PROVE  /\ BinsHold(g)
         /\ \A b : /\ CellsAt(g, b) = CellsAt(h, b) /\ Capacity(g, b) = Capacity(h, b)
                   /\ (IsBig(g, b) <=> IsBig(h, b)) /\ EndOf(g, b) = EndOf(h, b)
  BY DEF BinsHold, BinHolds, CellsAt, Capacity, EndOf, IsBig

(* The heap has room for so many pages.                                    *)
LEMMA RoomForPages ==
  ASSUME NEW h, BinsHold(h), NEW pages \in Nat \ {0}, ~HeapIsFull(h, pages)
  PROVE  /\ pages * PAGE_SIZE \in Nat /\ PAGE_SIZE <= pages * PAGE_SIZE
         /\ Page(h.brk + pages * PAGE_SIZE)
         /\ h.brk + pages * PAGE_SIZE < heap_start + heap_size
<1>1. PAGE_SIZE \in Nat \ {0}
  BY Sizes
<1>2. PAGE_SIZE * 1 <= PAGE_SIZE * pages
  BY <1>1, Products
<1>3. PAGE_SIZE * 1 = PAGE_SIZE /\ PAGE_SIZE * pages = pages * PAGE_SIZE /\ pages * PAGE_SIZE \in Nat
  BY <1>1
<1>4. Page(h.brk + pages * PAGE_SIZE)
  BY PagesOn DEF BinsHold
<1>5. h.brk + pages * PAGE_SIZE < heap_start + heap_size
  BY DEF HeapIsFull
<1>. QED  BY <1>2, <1>3, <1>4, <1>5

(* A new bin at the break, all else as it was.                             *)
NewBinAt(h, g, held, size, stack) ==
  /\ BinsHold(g) /\ h.brk \notin DOMAIN h.size /\ h.brk < g.brk
  /\ DOMAIN g.size = DOMAIN h.size \cup {h.brk}
  /\ g.size[h.brk] = size /\ g.stack[h.brk] = stack
  /\ IsBig(g, h.brk) <=> size \notin 0 .. BIG_BIN - 1
  /\ held \cap CellsAt(g, h.brk) = {}
  /\ \A b \in DOMAIN h.size :
       /\ g.size[b] = h.size[b] /\ g.stack[b] = h.stack[b] /\ (IsBig(g, b) <=> IsBig(h, b))
       /\ CellsAt(g, b) = CellsAt(h, b) /\ Capacity(g, b) = Capacity(h, b)

LEMMA NewBin ==
  ASSUME NEW h, NEW held, HeapHolds(h, held), NEW span \in Nat, PAGE_SIZE <= span,
         Page(h.brk + span), h.brk + span < heap_start + heap_size,
         NEW size \in Nat, NEW stack,
         \/ size \in 0 .. BIG_BIN - 1 /\ span = PAGE_SIZE
         \/ size = span - big_bin_header,
         NEW g, g.brk = h.brk + span, g.size = Put(h.size, h.brk, size),
         g.stack = Put(h.stack, h.brk, stack)
  PROVE  NewBinAt(h, g, held, size, stack)
<1> DEFINE new == h.brk
<1>1. /\ PAGE_SIZE \in Nat \ {0} /\ big_bin_header \in Nat \ {0} /\ NUM_BINS \in Nat
      /\ big_bin_header + NUM_BINS < PAGE_SIZE /\ BIG_BIN = NUM_BINS - 1 /\ BIG_BIN \in Nat \ {0}
      /\ heap_start \in Nat /\ heap_size \in Nat
  BY Sizes
<1>2. span \in Nat /\ PAGE_SIZE <= span
  OBVIOUS
<1>3. new \in Nat /\ Page(new) /\ heap_start <= new /\ Page(new + span)
      /\ new + span < heap_start + heap_size
  BY DEF HeapHolds, BinsHold, Page
<1>4. \/ size \in 0 .. BIG_BIN - 1 /\ ~(size > NUM_BINS) /\ span = PAGE_SIZE
      \/ size \notin 0 .. BIG_BIN - 1 /\ size > NUM_BINS /\ size = span - big_bin_header
  BY <1>1, <1>2
<1> HIDE DEF new
<1>5. ASSUME NEW b \in DOMAIN h.size PROVE b \in Nat /\ b < EndOf(h, b) /\ EndOf(h, b) <= new
  <2>1. BinHolds(h, b) /\ EndOf(h, b) <= new /\ b \in Nat
    BY DEF HeapHolds, BinsHold, BinHolds, Page, new
  <2>2. b < EndOf(h, b)
    BY <1>1, <2>1 DEF EndOf, BinHolds
  <2>. QED  BY <2>1, <2>2
<1>6. new \notin DOMAIN h.size /\ DOMAIN h.stack = DOMAIN h.size
  <2>1. ASSUME new \in DOMAIN h.size PROVE FALSE
    <3>1. EndOf(h, new) <= new /\ new < EndOf(h, new)
      BY <1>5, <2>1
    <3>2. EndOf(h, new) \in Nat
      BY <1>1, <1>3, <2>1 DEF EndOf, HeapHolds, BinsHold, BinHolds
    <3>. QED  BY <1>3, <3>1, <3>2
  <2>. QED  BY <2>1 DEF HeapHolds, BinsHold
<1>7. /\ DOMAIN g.size = DOMAIN h.size \cup {new} /\ DOMAIN g.stack = DOMAIN h.size \cup {new}
      /\ g.size[new] = size /\ g.stack[new] = stack
      /\ \A b \in DOMAIN h.size : g.size[b] = h.size[b] /\ g.stack[b] = h.stack[b]
  BY <1>6 DEF Put, new
<1>8. \A b \in DOMAIN h.size :
        /\ (IsBig(g, b) <=> IsBig(h, b)) /\ CellsAt(g, b) = CellsAt(h, b)
        /\ Capacity(g, b) = Capacity(h, b) /\ EndOf(g, b) = EndOf(h, b)
  BY <1>7 DEF IsBig, CellsAt, Capacity, EndOf
<1>9. IsBig(g, new) <=> size \notin 0 .. BIG_BIN - 1
  BY <1>4, <1>7 DEF IsBig
<1>10. EndOf(g, new) = new + span
  <2>1. CASE size \in 0 .. BIG_BIN - 1
    BY <1>4, <1>9, <2>1 DEF EndOf
  <2>2. CASE size \notin 0 .. BIG_BIN - 1
    <3>1. EndOf(g, new) = new + big_bin_header + size /\ size = span - big_bin_header
      BY <1>4, <1>7, <1>9, <2>2 DEF EndOf
    <3>. QED  BY <1>1, <1>2, <1>3, <3>1
  <2>. QED  BY <2>1, <2>2
<1>11. g.brk = new + span
  BY DEF new
<1>12. \A b \in DOMAIN g.size : BinHolds(g, b)
  <2>1. BinHolds(g, new)
    BY <1>2, <1>3, <1>7, <1>9, <1>10, <1>11 DEF BinHolds
  <2>2. ASSUME NEW b \in DOMAIN h.size PROVE BinHolds(g, b)
    <3>1. BinHolds(h, b) /\ EndOf(g, b) <= new
      BY <1>5, <1>8 DEF HeapHolds, BinsHold
    <3>2. EndOf(g, b) \in Int
      BY <1>1, <1>8, <3>1 DEF BinHolds, EndOf, Page
    <3>. QED  BY <1>2, <1>3, <1>7, <1>8, <1>11, <3>1, <3>2 DEF BinHolds
  <2>. QED  BY <1>7, <2>1, <2>2
<1>13. ASSUME NEW b \in DOMAIN g.size, NEW c \in DOMAIN g.size, b < c PROVE EndOf(g, b) <= c
  <2>1. CASE b = new
    <3>1. c \in DOMAIN h.size
      BY <1>3, <1>7, <1>13, <2>1
    <3>2. BinHolds(h, c) /\ c \in Nat /\ c < EndOf(h, c) /\ EndOf(h, c) <= new
      BY <1>5, <3>1 DEF HeapHolds, BinsHold
    <3>3. EndOf(h, c) \in Int
      BY <1>1, <3>2 DEF BinHolds, EndOf
    <3>. QED  BY <1>3, <1>13, <2>1, <3>2, <3>3
  <2>2. CASE c = new /\ b # new
    BY <1>5, <1>7, <1>8, <2>2
  <2>3. CASE c # new /\ b # new
    BY <1>7, <1>8, <1>13, <2>3 DEF HeapHolds, BinsHold
  <2>. QED  BY <2>1, <2>2, <2>3
<1>14. BinsHold(g)
  <2>1. Page(g.brk) /\ heap_start <= g.brk /\ g.brk <= heap_start + heap_size
    BY <1>1, <1>2, <1>3, <1>11
  <2>. QED  BY <1>7, <1>12, <1>13, <2>1 DEF BinsHold
<1>15. held \cap CellsAt(g, new) = {}
  <2> SUFFICES ASSUME NEW c \in held, c \in CellsAt(g, new) PROVE FALSE
    OBVIOUS
  <2>1. PICK b \in DOMAIN h.size : c \in CellsAt(h, b)
    BY DEF HeapHolds, StacksHold
  <2>2. c \in CellsAt(g, b) /\ b \in DOMAIN g.size /\ new \in DOMAIN g.size
    BY <1>7, <1>8, <2>1
  <2>3. b = new
    BY <1>14, <2>2, OneBin
  <2>. QED  BY <1>6, <2>3
<1>16. new < new + span
  BY <1>1, <1>2, <1>3
<1>. QED  BY <1>6, <1>7, <1>8, <1>9, <1>11, <1>14, <1>15, <1>16 DEF new, NewBinAt

-----------------------------------------------------------------------------
LEMMA SmallIsNotBig ==
  ASSUME NEW h, NEW b, h.size[b] \in 0 .. BIG_BIN - 1
  PROVE  ~IsBig(h, b)
  BY Sizes DEF IsBig

(* A cell taken from the first bin of a list.                              *)
LEMMA PopCellHolds ==
  ASSUME NEW h, NEW held, HeapHolds(h, held), NEW id \in 0 .. BIG_BIN - 1, h.list[id] # <<>>
  PROVE  LET g == PopCell(h, id) IN
         /\ HeapHolds(g, held \cup {g.ret}) /\ g.ret \notin held
         /\ g.asserted = h.asserted /\ g.brk = h.brk /\ g.size = h.size
         /\ \E b \in DOMAIN h.size : h.size[b] = id /\ g.ret \in CellsAt(g, b)
<1> DEFINE bin == Head(h.list[id])
           rest == Tail(h.stack[bin])
           c == Head(h.stack[bin])
           list2 == IF rest = <<>> THEN Tail(h.list[id]) ELSE h.list[id]
           g == PopCell(h, id)
<1>1. /\ h.list[id] \in Seq(DOMAIN h.size) /\ IsInjective(h.list[id])
      /\ ToSet(h.list[id]) = {b \in DOMAIN h.size : h.size[b] = id /\ h.stack[b] # <<>>}
      /\ DOMAIN h.list = 0 .. BIG_BIN - 1 /\ DOMAIN h.stack = DOMAIN h.size
  BY DEF HeapHolds, ListsHold, BinsHold
<1>2. /\ bin \in DOMAIN h.size /\ h.size[bin] = id /\ h.stack[bin] # <<>>
      /\ Tail(h.list[id]) \in Seq(DOMAIN h.size) /\ IsInjective(Tail(h.list[id]))
      /\ ToSet(Tail(h.list[id])) = ToSet(h.list[id]) \ {bin}
  <2>1. bin \in ToSet(h.list[id])
    BY <1>1, PopSeq
  <2>2. /\ Tail(h.list[id]) \in Seq(DOMAIN h.size) /\ IsInjective(Tail(h.list[id]))
        /\ ToSet(Tail(h.list[id])) = ToSet(h.list[id]) \ {bin}
    BY <1>1, PopSeq
  <2> HIDE DEF bin
  <2>. QED  BY <1>1, <2>1, <2>2
<1> HIDE DEF bin
<1>3. /\ h.stack[bin] \in Seq(Nat) /\ IsInjective(h.stack[bin])
      /\ ToSet(h.stack[bin]) = CellsAt(h, bin) \ held
  BY <1>2 DEF HeapHolds, StacksHold
<1>4. /\ c \in ToSet(h.stack[bin]) /\ rest \in Seq(Nat) /\ IsInjective(rest)
      /\ ToSet(rest) = ToSet(h.stack[bin]) \ {c}
  BY <1>2, <1>3, PopSeq
<1>5. g = [h EXCEPT !.stack[bin] = rest, !.list[id] = list2, !.ret = c]
  BY <1>2 DEF PopCell, bin
<1> HIDE DEF rest, c, list2, g
<1>6. /\ g.brk = h.brk /\ g.size = h.size /\ g.big = h.big /\ g.asserted = h.asserted /\ g.ret = c
      /\ g.stack = [h.stack EXCEPT ![bin] = rest] /\ g.list = [h.list EXCEPT ![id] = list2]
      /\ Fields(g)
  BY <1>5 DEF Fields, HeapHolds
<1>7. /\ DOMAIN g.stack = DOMAIN h.size /\ g.stack[bin] = rest
      /\ \A b \in DOMAIN h.size \ {bin} : g.stack[b] = h.stack[b]
  BY <1>1, <1>2, <1>6
<1>8. /\ DOMAIN g.list = 0 .. BIG_BIN - 1 /\ g.list[id] = list2
      /\ \A n \in 0 .. BIG_BIN - 1 : n # id => g.list[n] = h.list[n]
  BY <1>1, <1>6
<1>9. /\ BinsHold(g)
      /\ \A b : CellsAt(g, b) = CellsAt(h, b) /\ (IsBig(g, b) <=> IsBig(h, b))
  BY <1>1, <1>6, <1>7, SameBins DEF HeapHolds
<1>10. c \in CellsAt(h, bin) /\ c \notin held
  BY <1>3, <1>4
<1>11. StacksHold(g, held \cup {c})
  <2>1. ASSUME NEW b \in DOMAIN h.size
        PROVE  /\ g.stack[b] \in Seq(Nat) /\ IsInjective(g.stack[b])
               /\ ToSet(g.stack[b]) = CellsAt(g, b) \ (held \cup {c})
    <3>1. CASE b = bin
      BY <1>3, <1>4, <1>7, <1>9, <3>1
    <3>2. CASE b # bin
      <4>1. c \notin CellsAt(h, b)
        BY <1>2, <1>10, <3>2, OneBin DEF HeapHolds
      <4>. QED  BY <1>7, <1>9, <3>2, <4>1 DEF HeapHolds, StacksHold
    <3>. QED  BY <3>1, <3>2
  <2>2. ASSUME NEW d \in held \cup {c} PROVE \E b \in DOMAIN h.size : d \in CellsAt(g, b)
    BY <1>2, <1>9, <1>10 DEF HeapHolds, StacksHold
  <2>. QED  BY <1>6, <2>1, <2>2 DEF StacksHold
<1>12. ListsHold(g)
  <2>1. ~IsBig(h, bin)
    BY <1>2, SmallIsNotBig
  <2>2. ASSUME NEW n \in 0 .. BIG_BIN - 1
        PROVE  /\ g.list[n] \in Seq(DOMAIN g.size) /\ IsInjective(g.list[n])
               /\ ToSet(g.list[n]) = {b \in DOMAIN g.size : g.size[b] = n /\ g.stack[b] # <<>>}
    <3>1. CASE n # id
      <4>1. /\ h.list[n] \in Seq(DOMAIN h.size) /\ IsInjective(h.list[n])
            /\ ToSet(h.list[n]) = {b \in DOMAIN h.size : h.size[b] = n /\ h.stack[b] # <<>>}
        BY DEF HeapHolds, ListsHold
      <4>2. {b \in DOMAIN h.size : h.size[b] = n /\ h.stack[b] # <<>>}
              = {b \in DOMAIN g.size : g.size[b] = n /\ g.stack[b] # <<>>}
        BY <1>2, <1>6, <1>7, <3>1
      <4>. QED  BY <1>6, <1>8, <3>1, <4>1, <4>2
    <3>2. CASE n = id /\ rest = <<>>
      <4>1. list2 = Tail(h.list[id])
        BY <3>2 DEF list2
      <4>2. ToSet(h.list[id]) \ {bin} = {b \in DOMAIN g.size : g.size[b] = n /\ g.stack[b] # <<>>}
        BY <1>1, <1>6, <1>7, <3>2
      <4>. QED  BY <1>2, <1>6, <1>8, <3>2, <4>1, <4>2
    <3>3. CASE n = id /\ rest # <<>>
      <4>1. list2 = h.list[id]
        BY <3>3 DEF list2
      <4>2. ToSet(h.list[id]) = {b \in DOMAIN g.size : g.size[b] = n /\ g.stack[b] # <<>>}
        BY <1>1, <1>2, <1>6, <1>7, <3>3
      <4>. QED  BY <1>1, <1>6, <1>8, <3>3, <4>1, <4>2
    <3>. QED  BY <3>1, <3>2, <3>3
  <2>3. {b \in DOMAIN h.size : IsBig(h, b) /\ h.stack[b] # <<>>}
          = {b \in DOMAIN g.size : IsBig(g, b) /\ g.stack[b] # <<>>}
    BY <1>6, <1>7, <1>9, <2>1
  <2>4. /\ g.big \in Seq(DOMAIN g.size) /\ IsInjective(g.big) /\ Sorted(g)
        /\ ToSet(g.big) = {b \in DOMAIN h.size : IsBig(h, b) /\ h.stack[b] # <<>>}
    BY <1>6 DEF HeapHolds, ListsHold, Sorted
  <2>. QED  BY <1>8, <2>2, <2>3, <2>4 DEF ListsHold
<1>13. HeapHolds(g, held \cup {g.ret})
  BY <1>6, <1>9, <1>11, <1>12 DEF HeapHolds
<1>14. \E b \in DOMAIN h.size : h.size[b] = id /\ g.ret \in CellsAt(g, b)
  BY <1>2, <1>6, <1>9, <1>10
<1>. QED  BY <1>6, <1>10, <1>13, <1>14 DEF g

LEMMA OneSeq ==
  ASSUME NEW S, NEW e \in S
  PROVE  <<e>> \in Seq(S) /\ IsInjective(<<e>>) /\ ToSet(<<e>>) = {e}
<1>1. <<e>> \in Seq(S) /\ DOMAIN <<e>> = {1} /\ <<e>>[1] = e
  OBVIOUS
<1>. QED  BY <1>1 DEF IsInjective, ToSet

LEMMA NewBinIs ==
  ASSUME NEW h, Fields(h), NEW pages, NEW size, NEW stack
  PROVE  LET g == new_bin(h, pages, size, stack) IN
         /\ g.brk = h.brk + pages * PAGE_SIZE /\ g.size = Put(h.size, h.brk, size)
         /\ g.stack = Put(h.stack, h.brk, stack) /\ g.list = h.list /\ g.big = h.big
         /\ g.asserted = h.asserted /\ g.ret = h.ret /\ Fields(g)
<1> DEFINE size2 == Put(h.size, h.brk, size)
           stack2 == Put(h.stack, h.brk, stack)
           brk2 == h.brk + pages * PAGE_SIZE
           g == new_bin(h, pages, size, stack)
<1>1. g = [h EXCEPT !.brk = brk2, !.size = size2, !.stack = stack2]
  BY DEF new_bin
<1> HIDE DEF size2, stack2, brk2, g
<1>2. /\ g.brk = brk2 /\ g.size = size2 /\ g.stack = stack2 /\ g.list = h.list /\ g.big = h.big
      /\ g.asserted = h.asserted /\ g.ret = h.ret /\ Fields(g)
  BY <1>1 DEF Fields
<1>. QED  BY <1>2 DEF size2, stack2, brk2, g

(* A call that had a cell for its caller, for which the heap grew only if  *)
(* no free cell would have done.                                           *)
Reused(h, g) ==
  g.brk > h.brk =>
    \A bin \in DOMAIN h.size : h.stack[bin] # <<>> =>
      LET new == g.size[h.brk]
      IN  IF new < BIG_BIN THEN h.size[bin] # new
          ELSE IsBig(h, bin) => h.size[bin] < new

Goes(h, g) ==
  /\ DOMAIN h.size \subseteq DOMAIN g.size /\ \A b \in DOMAIN h.size : g.size[b] = h.size[b]
  /\ g.asserted = h.asserted /\ Reused(h, g)

Served(h, g, held, size) ==
  /\ HeapHolds(g, held \cup {g.ret}) /\ g.ret \notin held
  /\ \E b \in DOMAIN g.size : g.ret \in CellsAt(g, b) /\ size <= Capacity(g, b)
  /\ Goes(h, g)

Full(h, g) == g = Fail(h, "heap full")

LEMMA MallocSmall ==
  ASSUME NEW h, NEW held, HeapHolds(h, held), NEW id \in 0 .. BIG_BIN - 1,
         NEW size \in Nat, size <= cell_size(id)
  PROVE  Served(h, malloc_small(h, id), held, size) \/ Full(h, malloc_small(h, id))
<1> DEFINE g == malloc_small(h, id)
<1>0. h.brk \in Nat /\ DOMAIN h.list = 0 .. BIG_BIN - 1
  BY DEF HeapHolds, BinsHold, Page, ListsHold
<1>1. CASE h.list[id] # <<>>
  <2>1. g = PopCell(h, id)
    BY <1>1 DEF malloc_small
  <2> HIDE DEF g
  <2>2. /\ HeapHolds(g, held \cup {g.ret}) /\ g.ret \notin held
        /\ g.asserted = h.asserted /\ g.brk = h.brk /\ g.size = h.size
        /\ \E b \in DOMAIN h.size : h.size[b] = id /\ g.ret \in CellsAt(g, b)
    BY <1>1, <2>1, PopCellHolds, ZenonT(40)
  <2>3. PICK b \in DOMAIN h.size : h.size[b] = id /\ g.ret \in CellsAt(g, b)
    BY <2>2
  <2>4. Capacity(g, b) = cell_size(id)
    BY <2>2, <2>3, SmallIsNotBig DEF Capacity
  <2>5. Reused(h, g)
    BY <1>0, <2>2 DEF Reused
  <2>. QED  BY <2>2, <2>3, <2>4, <2>5 DEF Served, Goes, g
<1>2. CASE h.list[id] = <<>> /\ HeapIsFull(h, 1)
  BY <1>2 DEF malloc_small, Full
<1>3. CASE h.list[id] = <<>> /\ ~HeapIsFull(h, 1)
  <2> DEFINE new == h.brk
             h1 == [new_bin(h, 1, id, cells(new, id)) EXCEPT !.list[id] = <<new>>]
  <2>1. g = PopCell(h1, id)
    BY <1>3 DEF malloc_small
  <2>2. /\ h1.brk = h.brk + 1 * PAGE_SIZE /\ h1.size = Put(h.size, new, id)
        /\ h1.stack = Put(h.stack, new, cells(new, id)) /\ h1.list = [h.list EXCEPT ![id] = <<new>>]
        /\ h1.big = h.big /\ h1.asserted = h.asserted /\ Fields(h1)
    <3> DEFINE h0 == new_bin(h, 1, id, cells(new, id))
    <3>1. /\ h0.brk = h.brk + 1 * PAGE_SIZE /\ h0.size = Put(h.size, new, id)
          /\ h0.stack = Put(h.stack, new, cells(new, id)) /\ h0.list = h.list
          /\ h0.big = h.big /\ h0.asserted = h.asserted /\ Fields(h0)
      BY NewBinIs DEF HeapHolds
    <3>2. h1 = [h0 EXCEPT !.list[id] = <<new>>]
      OBVIOUS
    <3> HIDE DEF h0, h1
    <3>. QED  BY <3>1, <3>2 DEF Fields
  <2> HIDE DEF g, h1, new
  <2>3. id \in Nat /\ 1 \in Nat \ {0}
    BY Sizes
  <2>3a. /\ BinsHold(h1) /\ h.brk \notin DOMAIN h.size /\ h.brk < h1.brk
         /\ DOMAIN h1.size = DOMAIN h.size \cup {h.brk}
         /\ h1.size[h.brk] = id /\ h1.stack[h.brk] = cells(new, id)
         /\ IsBig(h1, h.brk) <=> id \notin 0 .. BIG_BIN - 1
         /\ held \cap CellsAt(h1, h.brk) = {}
         /\ \A b \in DOMAIN h.size :
              /\ h1.size[b] = h.size[b] /\ h1.stack[b] = h.stack[b] /\ (IsBig(h1, b) <=> IsBig(h, b))
              /\ CellsAt(h1, b) = CellsAt(h, b) /\ Capacity(h1, b) = Capacity(h, b)
    <3>1. h1.size = Put(h.size, h.brk, id) /\ h1.stack = Put(h.stack, h.brk, cells(new, id))
      BY <2>2 DEF new
    <3> DEFINE stack == cells(new, id)
    <3> HIDE DEF stack
    <3>2. 1 * PAGE_SIZE = PAGE_SIZE /\ PAGE_SIZE \in Nat
      BY Sizes
    <3>2a. /\ h1.brk = h.brk + PAGE_SIZE /\ Page(h.brk + PAGE_SIZE)
           /\ h.brk + PAGE_SIZE < heap_start + heap_size /\ PAGE_SIZE <= PAGE_SIZE
      BY <1>3, <2>2, <3>2, RoomForPages DEF HeapHolds
    <3>3. h1.size = Put(h.size, h.brk, id) /\ h1.stack = Put(h.stack, h.brk, stack)
      BY <3>1 DEF stack
    <3>4. NewBinAt(h, h1, held, id, stack)
      BY <2>3, <3>2, <3>2a, <3>3, NewBin
    <3>. QED  BY <3>4 DEF stack, NewBinAt
  <2>4. /\ BinsHold(h1) /\ new \notin DOMAIN h.size /\ new < h1.brk
        /\ DOMAIN h1.size = DOMAIN h.size \cup {new}
        /\ h1.size[new] = id /\ h1.stack[new] = cells(new, id)
        /\ ~IsBig(h1, new) /\ held \cap CellsAt(h1, new) = {}
        /\ \A b \in DOMAIN h.size :
             /\ h1.size[b] = h.size[b] /\ h1.stack[b] = h.stack[b] /\ (IsBig(h1, b) <=> IsBig(h, b))
             /\ CellsAt(h1, b) = CellsAt(h, b) /\ Capacity(h1, b) = Capacity(h, b)
    BY <2>3a DEF new
  <2>5. new \in Nat /\ new = h.brk
    BY <1>0 DEF new
  <2>6. /\ cells(new, id) \in Seq(Nat) /\ cells(new, id) # <<>> /\ IsInjective(cells(new, id))
        /\ CellsAt(h1, new) = ToSet(cells(new, id))
    BY <2>4, <2>5, CellsIn DEF CellsAt
  <2>7. StacksHold(h1, held)
    <3>1. ASSUME NEW b \in DOMAIN h1.size
          PROVE  /\ h1.stack[b] \in Seq(Nat) /\ IsInjective(h1.stack[b])
                 /\ ToSet(h1.stack[b]) = CellsAt(h1, b) \ held
      <4>1. CASE b = new
        BY <2>4, <2>6, <4>1
      <4>2. CASE b # new
        BY <2>4, <4>2 DEF HeapHolds, StacksHold
      <4>. QED  BY <4>1, <4>2
    <3>2. ASSUME NEW c \in held PROVE \E b \in DOMAIN h1.size : c \in CellsAt(h1, b)
      BY <2>4 DEF HeapHolds, StacksHold
    <3>. QED  BY <3>1, <3>2 DEF StacksHold
  <2>8. {b \in DOMAIN h.size : h.size[b] = id /\ h.stack[b] # <<>>} = {}
    <3>1. ToSet(h.list[id]) = {}
      BY <1>3 DEF ToSet
    <3>. QED  BY <3>1 DEF HeapHolds, ListsHold
  <2>9. ListsHold(h1)
    <3>1. ASSUME NEW n \in 0 .. BIG_BIN - 1
          PROVE  /\ h1.list[n] \in Seq(DOMAIN h1.size) /\ IsInjective(h1.list[n])
                 /\ ToSet(h1.list[n]) = {b \in DOMAIN h1.size : h1.size[b] = n /\ h1.stack[b] # <<>>}
      <4>1. CASE n = id
        <5>1. h1.list[n] = <<new>>
          BY <1>0, <2>2, <4>1
        <5>2. {b \in DOMAIN h1.size : h1.size[b] = n /\ h1.stack[b] # <<>>} = {new}
          BY <2>4, <2>6, <2>8, <4>1
        <5>3. new \in DOMAIN h1.size
          BY <2>4
        <5>4. <<new>> \in Seq(DOMAIN h1.size) /\ IsInjective(<<new>>) /\ ToSet(<<new>>) = {new}
          BY <5>3, OneSeq
        <5>. QED  BY <5>1, <5>2, <5>4
      <4>2. CASE n # id
        <5>1. h1.list[n] = h.list[n]
          BY <1>0, <2>2, <4>2
        <5>2. {b \in DOMAIN h1.size : h1.size[b] = n /\ h1.stack[b] # <<>>}
                = {b \in DOMAIN h.size : h.size[b] = n /\ h.stack[b] # <<>>}
          BY <2>4, <4>2
        <5>3. /\ h.list[n] \in Seq(DOMAIN h.size) /\ IsInjective(h.list[n])
              /\ ToSet(h.list[n]) = {b \in DOMAIN h.size : h.size[b] = n /\ h.stack[b] # <<>>}
          BY DEF HeapHolds, ListsHold
        <5>4. h.list[n] \in Seq(DOMAIN h1.size)
          BY <2>4, <5>3
        <5>. QED  BY <5>1, <5>2, <5>3, <5>4
      <4>. QED  BY <4>1, <4>2
    <3>2. {b \in DOMAIN h1.size : IsBig(h1, b) /\ h1.stack[b] # <<>>}
            = {b \in DOMAIN h.size : IsBig(h, b) /\ h.stack[b] # <<>>}
      BY <2>4
    <3>3. /\ h.big \in Seq(DOMAIN h.size) /\ IsInjective(h.big) /\ Sorted(h)
          /\ ToSet(h.big) = {b \in DOMAIN h.size : IsBig(h, b) /\ h.stack[b] # <<>>}
      BY DEF HeapHolds, ListsHold
    <3>4. h.big \in Seq(DOMAIN h1.size)
      BY <2>4, <3>3
    <3>5. \A i \in DOMAIN h.big : h.big[i] \in DOMAIN h.size
      BY <3>3
    <3>6. Sorted(h1)
      BY <2>2, <2>4, <3>3, <3>5 DEF Sorted
    <3>. QED  BY <1>0, <2>2, <3>1, <3>2, <3>3, <3>4, <3>6 DEF ListsHold
  <2>10. HeapHolds(h1, held) /\ h1.list[id] # <<>>
    <3>1. h1.list[id] = <<new>>
      BY <1>0, <2>2
    <3>2. <<new>> # <<>>
      OBVIOUS
    <3>3. Fields(h1) /\ BinsHold(h1)
      BY <2>2, <2>4
    <3>. QED  BY <2>7, <2>9, <3>1, <3>2, <3>3 DEF HeapHolds
  <2>11. /\ HeapHolds(g, held \cup {g.ret}) /\ g.ret \notin held
         /\ g.asserted = h1.asserted /\ g.brk = h1.brk /\ g.size = h1.size
         /\ \E b \in DOMAIN h1.size : h1.size[b] = id /\ g.ret \in CellsAt(g, b)
    BY <2>1, <2>10, PopCellHolds, ZenonT(40)
  <2>12. PICK b \in DOMAIN h1.size : h1.size[b] = id /\ g.ret \in CellsAt(g, b)
    BY <2>11
  <2>13. Capacity(g, b) = cell_size(id)
    BY <2>11, <2>12, SmallIsNotBig DEF Capacity
  <2>14. Reused(h, g)
    <3>1. g.size[h.brk] = id /\ id < BIG_BIN
      BY <2>4, <2>5, <2>11, Sizes
    <3>2. \A bin \in DOMAIN h.size : h.stack[bin] # <<>> => h.size[bin] # id
      BY <2>8
    <3>. QED  BY <3>1, <3>2 DEF Reused
  <2>15. Goes(h, g)
    BY <2>2, <2>4, <2>11, <2>14 DEF Goes
  <2>. QED  BY <2>11, <2>12, <2>13, <2>15 DEF Served, g
<1>. QED  BY <1>1, <1>2, <1>3

-----------------------------------------------------------------------------
(* The bin that the search finds leaves the list with its cell.            *)
LEMMA TakeBigHolds ==
  ASSUME NEW h, NEW held, HeapHolds(h, held), NEW size \in Nat, FirstFit(h, size) # 0,
         NEW g, g = malloc_big(h, size)
  PROVE  /\ HeapHolds(g, held \cup {g.ret}) /\ g.ret \notin held
         /\ g.asserted = h.asserted /\ g.brk = h.brk /\ g.size = h.size
         /\ \E b \in DOMAIN h.size : IsBig(g, b) /\ g.ret = b + big_bin_header /\ size <= g.size[b]
<1> DEFINE k == FirstFit(h, size)
           bin == h.big[k]
           c == bin + big_bin_header
           big2 == RemoveAt(h.big, k)
<1>1. /\ h.big \in Seq(DOMAIN h.size) /\ IsInjective(h.big) /\ Sorted(h)
      /\ ToSet(h.big) = {b \in DOMAIN h.size : IsBig(h, b) /\ h.stack[b] # <<>>}
      /\ DOMAIN h.stack = DOMAIN h.size /\ Fields(h)
  BY DEF HeapHolds, ListsHold, BinsHold
<1>2. DOMAIN h.big = 1 .. Len(h.big) /\ Len(h.big) \in Nat
  BY <1>1
<1>3. k \in 1 .. Len(h.big) /\ h.size[bin] >= size
  BY <1>2, FirstFitIs
<1>4. g = [h EXCEPT !.big = big2, !.stack[bin] = <<>>, !.ret = c]
  BY DEF malloc_big
<1> HIDE DEF k
<1>5. /\ big2 \in Seq(DOMAIN h.size) /\ IsInjective(big2) /\ ToSet(big2) = ToSet(h.big) \ {bin}
      /\ Len(big2) = Len(h.big) - 1
      /\ \A i \in 1 .. Len(big2) : big2[i] = IF i < k THEN h.big[i] ELSE h.big[i + 1]
  BY <1>1, <1>3, RemoveSeq, SMTT(30)
<1>6. bin \in DOMAIN h.size /\ IsBig(h, bin) /\ h.stack[bin] # <<>>
  <2>1. bin \in ToSet(h.big)
    BY <1>2, <1>3 DEF ToSet
  <2>. QED  BY <1>1, <2>1
<1> HIDE DEF c, bin, big2
<1>7. /\ g.brk = h.brk /\ g.size = h.size /\ g.list = h.list /\ g.big = big2
      /\ g.asserted = h.asserted /\ g.ret = c /\ g.stack = [h.stack EXCEPT ![bin] = <<>>]
      /\ Fields(g)
  BY <1>1, <1>4 DEF Fields
<1>8. /\ DOMAIN g.stack = DOMAIN h.size /\ g.stack[bin] = <<>>
      /\ \A b \in DOMAIN h.size \ {bin} : g.stack[b] = h.stack[b]
  BY <1>1, <1>6, <1>7
<1>9. /\ BinsHold(g)
      /\ \A b : CellsAt(g, b) = CellsAt(h, b) /\ (IsBig(g, b) <=> IsBig(h, b))
  BY <1>1, <1>7, <1>8, SameBins DEF HeapHolds
<1>10. CellsAt(h, bin) = {c} /\ c \notin held
  <2>1. CellsAt(h, bin) = {c}
    BY <1>6 DEF CellsAt, c
  <2>2. h.stack[bin] \in Seq(Nat) /\ ToSet(h.stack[bin]) = CellsAt(h, bin) \ held
    BY <1>6 DEF HeapHolds, StacksHold
  <2>3. ToSet(h.stack[bin]) # {}
    BY <1>6, <2>2, SeqElements
  <2>. QED  BY <2>1, <2>2, <2>3
<1>11. StacksHold(g, held \cup {c})
  <2>1. ASSUME NEW b \in DOMAIN h.size
        PROVE  /\ g.stack[b] \in Seq(Nat) /\ IsInjective(g.stack[b])
               /\ ToSet(g.stack[b]) = CellsAt(g, b) \ (held \cup {c})
    <3>1. CASE b = bin
      <4>1. <<>> \in Seq(Nat) /\ IsInjective(<<>>) /\ ToSet(<<>>) = {}
        BY DEF IsInjective, ToSet
      <4>. QED  BY <1>8, <1>9, <1>10, <3>1, <4>1
    <3>2. CASE b # bin
      <4>1. c \notin CellsAt(h, b)
        BY <1>6, <1>10, <3>2, OneBin DEF HeapHolds
      <4>. QED  BY <1>8, <1>9, <3>2, <4>1 DEF HeapHolds, StacksHold
    <3>. QED  BY <3>1, <3>2
  <2>2. ASSUME NEW d \in held \cup {c} PROVE \E b \in DOMAIN h.size : d \in CellsAt(g, b)
    BY <1>6, <1>9, <1>10 DEF HeapHolds, StacksHold
  <2>. QED  BY <1>7, <2>1, <2>2 DEF StacksHold
<1>12. Sorted(g)
  <2> SUFFICES ASSUME NEW i \in 1 .. Len(big2), NEW j \in 1 .. Len(big2), i < j
               PROVE  h.size[big2[i]] <= h.size[big2[j]]
    <3>1. DOMAIN big2 = 1 .. Len(big2)
      BY <1>5
    <3>. QED  BY <1>7, <3>1 DEF Sorted
  <2> DEFINE i2 == IF i < k THEN i ELSE i + 1
             j2 == IF j < k THEN j ELSE j + 1
  <2>1. i2 \in 1 .. Len(h.big) /\ j2 \in 1 .. Len(h.big) /\ i2 < j2
    BY <1>2, <1>3, <1>5
  <2>2. big2[i] = h.big[i2] /\ big2[j] = h.big[j2]
    BY <1>5
  <2> HIDE DEF i2, j2
  <2>. QED  BY <1>1, <1>2, <2>1, <2>2 DEF Sorted
<1>13. ListsHold(g)
  <2>1. ASSUME NEW n \in 0 .. BIG_BIN - 1
        PROVE  /\ g.list[n] \in Seq(DOMAIN g.size) /\ IsInjective(g.list[n])
               /\ ToSet(g.list[n]) = {b \in DOMAIN g.size : g.size[b] = n /\ g.stack[b] # <<>>}
    <3>1. /\ h.list[n] \in Seq(DOMAIN h.size) /\ IsInjective(h.list[n])
          /\ ToSet(h.list[n]) = {b \in DOMAIN h.size : h.size[b] = n /\ h.stack[b] # <<>>}
      BY DEF HeapHolds, ListsHold
    <3>2. h.size[bin] # n
      BY <1>6, SmallIsNotBig
    <3>3. {b \in DOMAIN h.size : h.size[b] = n /\ h.stack[b] # <<>>}
            = {b \in DOMAIN g.size : g.size[b] = n /\ g.stack[b] # <<>>}
      BY <1>7, <1>8, <3>2
    <3>. QED  BY <1>7, <3>1, <3>3
  <2>2. DOMAIN g.list = 0 .. BIG_BIN - 1
    BY <1>7 DEF HeapHolds, ListsHold
  <2>3. ToSet(big2) = {b \in DOMAIN g.size : IsBig(g, b) /\ g.stack[b] # <<>>}
    BY <1>1, <1>5, <1>6, <1>7, <1>8, <1>9
  <2>. QED  BY <1>5, <1>7, <1>12, <2>1, <2>2, <2>3 DEF ListsHold
<1>14. size <= h.size[bin]
  <2>1. h.size[bin] \in Nat
    BY <1>6 DEF HeapHolds, BinsHold, BinHolds
  <2>. QED  BY <1>3, <2>1
<1>15. \E b \in DOMAIN h.size : IsBig(g, b) /\ g.ret = b + big_bin_header /\ size <= g.size[b]
  BY <1>6, <1>7, <1>9, <1>14 DEF c
<1>. QED  BY <1>7, <1>9, <1>10, <1>11, <1>13, <1>15 DEF HeapHolds

(* As many pages as the bytes and the header need.                         *)
LEMMA PagesFor ==
  ASSUME NEW size \in Nat
  PROVE  LET pages == (size + big_bin_header) \div PAGE_SIZE + 1 IN
         /\ pages \in Nat \ {0} /\ pages * PAGE_SIZE \in Nat
         /\ size + big_bin_header < pages * PAGE_SIZE
<1> DEFINE n == size + big_bin_header
           q == n \div PAGE_SIZE
           r == n % PAGE_SIZE
           pages == q + 1
           span == pages * PAGE_SIZE
<1>1. PAGE_SIZE \in Nat \ {0} /\ big_bin_header \in Nat \ {0} /\ n \in Nat
  BY Sizes
<1> HIDE DEF n
<1>2. q \in Nat /\ r \in 0 .. PAGE_SIZE - 1 /\ n = PAGE_SIZE * q + r
  BY <1>1, Division
<1> HIDE DEF q, r
<1>3. PAGE_SIZE * (q + 1) = PAGE_SIZE * q + PAGE_SIZE /\ PAGE_SIZE * q \in Int
  BY <1>1, <1>2, Products
<1>4. span = PAGE_SIZE * (q + 1) /\ pages \in Nat \ {0}
  BY <1>1, <1>2, <1>3
<1>5. n < span /\ span \in Nat
  BY <1>1, <1>2, <1>3, <1>4
<1>. QED  BY <1>4, <1>5 DEF n, q

(* A bin of its own for the block.                                         *)
NoneFits(h, size) ==
  \A b \in DOMAIN h.size : IsBig(h, b) /\ h.stack[b] # <<>> => h.size[b] < size

GrowsBy(h, g, pages, room) ==
  /\ pages \in Nat \ {0} /\ ~HeapIsFull(h, pages)
  /\ room \in Nat /\ room = pages * PAGE_SIZE - big_bin_header
  /\ g = [new_bin(h, pages, room, <<>>) EXCEPT !.ret = h.brk + big_bin_header]

LEMMA NewBigHolds ==
  ASSUME NEW h, NEW held, HeapHolds(h, held), NEW size \in Nat, NoneFits(h, size),
         NEW pages, NEW room, NEW g, GrowsBy(h, g, pages, room), size < room
  PROVE  /\ HeapHolds(g, held \cup {g.ret}) /\ g.ret \notin held
         /\ \E b \in DOMAIN g.size : IsBig(g, b) /\ g.ret = b + big_bin_header /\ size <= g.size[b]
         /\ Goes(h, g)
<1> DEFINE new == h.brk
           span == pages * PAGE_SIZE
           c == new + big_bin_header
           g1 == new_bin(h, pages, room, <<>>)
<1>1. /\ PAGE_SIZE \in Nat \ {0} /\ big_bin_header \in Nat \ {0} /\ NUM_BINS \in Nat
      /\ BIG_BIN = NUM_BINS - 1 /\ big_bin_header + NUM_BINS < PAGE_SIZE
  BY Sizes
<1>2. /\ span \in Nat /\ PAGE_SIZE <= span /\ Page(h.brk + span)
      /\ h.brk + span < heap_start + heap_size /\ room = span - big_bin_header
  BY RoomForPages DEF HeapHolds, GrowsBy
<1> HIDE DEF span
<1>3. room \in Nat
  BY DEF GrowsBy
<1>4. room > NUM_BINS /\ room \notin 0 .. BIG_BIN - 1
  BY <1>1, <1>2, <1>3
<1>5. g = [g1 EXCEPT !.ret = c]
  BY DEF GrowsBy
<1>6. /\ g1.brk = new + span /\ g1.size = Put(h.size, new, room) /\ g1.stack = Put(h.stack, new, <<>>)
      /\ g1.list = h.list /\ g1.big = h.big /\ g1.asserted = h.asserted /\ Fields(g1)
  BY NewBinIs DEF HeapHolds, span
<1> HIDE DEF g1
<1>7. /\ g.brk = new + span /\ g.size = Put(h.size, new, room) /\ g.stack = Put(h.stack, new, <<>>)
      /\ g.list = h.list /\ g.big = h.big /\ g.asserted = h.asserted /\ g.ret = c /\ Fields(g)
  BY <1>5, <1>6 DEF Fields
<1>9. /\ BinsHold(g) /\ h.brk \notin DOMAIN h.size /\ h.brk < g.brk
      /\ DOMAIN g.size = DOMAIN h.size \cup {h.brk}
      /\ g.size[h.brk] = room /\ g.stack[h.brk] = <<>>
      /\ IsBig(g, h.brk) <=> room \notin 0 .. BIG_BIN - 1
      /\ held \cap CellsAt(g, h.brk) = {}
      /\ \A b \in DOMAIN h.size :
           /\ g.size[b] = h.size[b] /\ g.stack[b] = h.stack[b] /\ (IsBig(g, b) <=> IsBig(h, b))
           /\ CellsAt(g, b) = CellsAt(h, b) /\ Capacity(g, b) = Capacity(h, b)
  <2> DEFINE none == <<>>
  <2>1. /\ span \in Nat /\ PAGE_SIZE <= span /\ Page(h.brk + span)
        /\ h.brk + span < heap_start + heap_size /\ room \in Nat /\ room = span - big_bin_header
    BY <1>2, <1>3
  <2>3. /\ g.brk = h.brk + span /\ g.size = Put(h.size, h.brk, room)
        /\ g.stack = Put(h.stack, h.brk, none)
    BY <1>7
  <2> HIDE DEF none
  <2>4. NewBinAt(h, g, held, room, none)
    BY <2>1, <2>3, NewBin
  <2>. QED  BY <2>4 DEF none, NewBinAt
<1>10. /\ new \notin DOMAIN h.size /\ DOMAIN g.size = DOMAIN h.size \cup {new}
       /\ g.size[new] = room /\ g.stack[new] = <<>> /\ IsBig(g, new)
  BY <1>4, <1>9 DEF new
<1>11. CellsAt(g, new) = {c} /\ c \notin held
  BY <1>9, <1>10 DEF CellsAt, new
<1> HIDE DEF c, new
<1>12. StacksHold(g, held \cup {c})
  <2>1. ASSUME NEW b \in DOMAIN g.size
        PROVE  /\ g.stack[b] \in Seq(Nat) /\ IsInjective(g.stack[b])
               /\ ToSet(g.stack[b]) = CellsAt(g, b) \ (held \cup {c})
    <3>1. CASE b = new
      <4>1. <<>> \in Seq(Nat) /\ IsInjective(<<>>) /\ ToSet(<<>>) = {}
        BY DEF IsInjective, ToSet
      <4>. QED  BY <1>10, <1>11, <3>1, <4>1
    <3>2. CASE b # new
      <4>1. c \notin CellsAt(g, b)
        BY <1>9, <1>10, <1>11, <3>2, OneBin
      <4>. QED  BY <1>9, <1>10, <3>2, <4>1 DEF HeapHolds, StacksHold
    <3>. QED  BY <3>1, <3>2
  <2>2. ASSUME NEW d \in held \cup {c} PROVE \E b \in DOMAIN g.size : d \in CellsAt(g, b)
    BY <1>9, <1>10, <1>11 DEF HeapHolds, StacksHold
  <2>. QED  BY <2>1, <2>2 DEF StacksHold
<1>13. ListsHold(g)
  <2>1. ASSUME NEW n \in 0 .. BIG_BIN - 1
        PROVE  /\ g.list[n] \in Seq(DOMAIN g.size) /\ IsInjective(g.list[n])
               /\ ToSet(g.list[n]) = {b \in DOMAIN g.size : g.size[b] = n /\ g.stack[b] # <<>>}
    <3>1. /\ h.list[n] \in Seq(DOMAIN h.size) /\ IsInjective(h.list[n])
          /\ ToSet(h.list[n]) = {b \in DOMAIN h.size : h.size[b] = n /\ h.stack[b] # <<>>}
      BY DEF HeapHolds, ListsHold
    <3>2. {b \in DOMAIN h.size : h.size[b] = n /\ h.stack[b] # <<>>}
            = {b \in DOMAIN g.size : g.size[b] = n /\ g.stack[b] # <<>>}
      BY <1>9, <1>10
    <3>3. h.list[n] \in Seq(DOMAIN g.size)
      BY <1>10, <3>1
    <3>. QED  BY <1>7, <3>1, <3>2, <3>3
  <2>2. DOMAIN g.list = 0 .. BIG_BIN - 1
    BY <1>7 DEF HeapHolds, ListsHold
  <2>3. /\ h.big \in Seq(DOMAIN h.size) /\ IsInjective(h.big) /\ Sorted(h)
        /\ ToSet(h.big) = {b \in DOMAIN h.size : IsBig(h, b) /\ h.stack[b] # <<>>}
    BY DEF HeapHolds, ListsHold
  <2>4. {b \in DOMAIN h.size : IsBig(h, b) /\ h.stack[b] # <<>>}
          = {b \in DOMAIN g.size : IsBig(g, b) /\ g.stack[b] # <<>>}
    BY <1>9, <1>10
  <2>5. h.big \in Seq(DOMAIN g.size)
    BY <1>10, <2>3
  <2>6. \A i \in DOMAIN h.big : h.big[i] \in DOMAIN h.size
    BY <2>3
  <2>7. Sorted(g)
    BY <1>7, <1>9, <2>3, <2>6 DEF Sorted
  <2>. QED  BY <1>7, <2>1, <2>2, <2>3, <2>4, <2>5, <2>7 DEF ListsHold
<1>14. Reused(h, g)
  <2>1. ~(g.size[h.brk] < BIG_BIN) /\ g.size[h.brk] = room
    BY <1>1, <1>3, <1>4, <1>9
  <2>2. ASSUME NEW b \in DOMAIN h.size, h.stack[b] # <<>>, IsBig(h, b) PROVE h.size[b] < room
    <3>1. h.size[b] < size
      BY <2>2 DEF NoneFits
    <3>2. h.size[b] \in Nat
      BY DEF HeapHolds, BinsHold, BinHolds
    <3> DEFINE old == h.size[b]
    <3> HIDE DEF old
    <3>3. old < size /\ old \in Nat
      BY <3>1, <3>2 DEF old
    <3>4. old < room
      BY <1>3, <3>3
    <3>. QED  BY <3>4 DEF old
  <2>. QED  BY <2>1, <2>2 DEF Reused
<1>15. Goes(h, g)
  BY <1>7, <1>9, <1>14 DEF Goes
<1>16. \E b \in DOMAIN g.size : IsBig(g, b) /\ g.ret = b + big_bin_header /\ size <= g.size[b]
  <2>1. size <= room
    BY <1>3
  <2>. QED  BY <1>7, <1>10, <2>1 DEF c
<1>17. HeapHolds(g, held \cup {c})
  BY <1>7, <1>9, <1>12, <1>13 DEF HeapHolds
<1>. QED  BY <1>7, <1>11, <1>15, <1>16, <1>17

(* As Served, by a big bin.                                                *)
ServedBig(h, g, held, size) ==
  /\ HeapHolds(g, held \cup {g.ret}) /\ g.ret \notin held
  /\ \E b \in DOMAIN g.size : IsBig(g, b) /\ g.ret = b + big_bin_header /\ size <= g.size[b]
  /\ Goes(h, g)

LEMMA BigIsServed ==
  ASSUME NEW h, NEW g, NEW held, NEW size, ServedBig(h, g, held, size)
  PROVE  Served(h, g, held, size)
<1>1. PICK b \in DOMAIN g.size : IsBig(g, b) /\ g.ret = b + big_bin_header /\ size <= g.size[b]
  BY DEF ServedBig
<1>2. g.ret \in CellsAt(g, b) /\ size <= Capacity(g, b)
  BY <1>1 DEF CellsAt, Capacity
<1>. QED  BY <1>2 DEF Served, ServedBig

LEMMA MallocBig ==
  ASSUME NEW h, NEW held, HeapHolds(h, held), NEW size \in Nat
  PROVE  ServedBig(h, malloc_big(h, size), held, size) \/ Full(h, malloc_big(h, size))
<1> DEFINE g == malloc_big(h, size)
           pages == (size + big_bin_header) \div PAGE_SIZE + 1
<1>1. CASE FirstFit(h, size) # 0
  <2>1. /\ HeapHolds(g, held \cup {g.ret}) /\ g.ret \notin held
        /\ g.asserted = h.asserted /\ g.brk = h.brk /\ g.size = h.size
        /\ \E b \in DOMAIN h.size : IsBig(g, b) /\ g.ret = b + big_bin_header /\ size <= g.size[b]
    BY <1>1, TakeBigHolds
  <2> HIDE DEF g
  <2>2. h.brk \in Nat
    BY DEF HeapHolds, BinsHold, Page
  <2>3. Goes(h, g)
    BY <2>1, <2>2 DEF Goes, Reused
  <2>. QED  BY <2>1, <2>3 DEF ServedBig, g
<1>2. CASE FirstFit(h, size) = 0 /\ HeapIsFull(h, pages)
  BY <1>2 DEF malloc_big, Full
<1>3. CASE FirstFit(h, size) = 0 /\ ~HeapIsFull(h, pages)
  <2>1. pages \in Nat \ {0} /\ pages * PAGE_SIZE \in Nat /\ size + big_bin_header < pages * PAGE_SIZE
    BY PagesFor
  <2> DEFINE room == pages * PAGE_SIZE - big_bin_header
  <2>2. room \in Nat /\ size < room /\ room = pages * PAGE_SIZE - big_bin_header
    BY <2>1, Sizes
  <2>3. g = [new_bin(h, pages, room, <<>>) EXCEPT !.ret = h.brk + big_bin_header]
    BY <1>3 DEF malloc_big
  <2>4. ASSUME NEW b \in DOMAIN h.size, IsBig(h, b), h.stack[b] # <<>> PROVE h.size[b] < size
    <3>1. /\ h.big \in Seq(DOMAIN h.size)
          /\ ToSet(h.big) = {d \in DOMAIN h.size : IsBig(h, d) /\ h.stack[d] # <<>>}
      BY DEF HeapHolds, ListsHold
    <3>2. DOMAIN h.big = 1 .. Len(h.big) /\ Len(h.big) \in Nat
      BY <3>1
    <3>3. PICK i \in 1 .. Len(h.big) : b = h.big[i]
      BY <2>4, <3>1, <3>2 DEF ToSet
    <3>4. ~(h.size[b] >= size)
      BY <1>3, <3>2, <3>3, FirstFitIs
    <3>5. h.size[b] \in Nat
      BY DEF HeapHolds, BinsHold, BinHolds
    <3>. QED  BY <3>4, <3>5
  <2> HIDE DEF g, pages, room
  <2>5. /\ HeapHolds(g, held \cup {g.ret}) /\ g.ret \notin held
        /\ \E b \in DOMAIN g.size : IsBig(g, b) /\ g.ret = b + big_bin_header /\ size <= g.size[b]
        /\ Goes(h, g)
    <3>1. NoneFits(h, size)
      BY <2>4 DEF NoneFits
    <3>2. GrowsBy(h, g, pages, room)
      BY <1>3, <2>1, <2>2, <2>3 DEF GrowsBy
    <3>. QED  BY <2>2, <3>1, <3>2, NewBigHolds
  <2>. QED  BY <2>5 DEF ServedBig, g
<1>. QED  BY <1>1, <1>2, <1>3

LEMMA MallocHolds ==
  ASSUME NEW h, NEW held, HeapHolds(h, held), NEW size \in Nat \ {0}
  PROVE  LET g == klmalloc(h, size) IN
         /\ Served(h, g, held, size) \/ Full(h, g)
         /\ klmalloc_bin_size(size) = BIG_BIN => ServedBig(h, g, held, size) \/ Full(h, g)
<1> DEFINE id == klmalloc_bin_size(size)
<1>1. id \in 0 .. BIG_BIN /\ (id < BIG_BIN => size <= cell_size(id)) /\ BIG_BIN \in Nat
  BY BinSize, Sizes
<1>2. klmalloc(h, size) = IF id < BIG_BIN THEN malloc_small(h, id) ELSE malloc_big(h, size)
  BY DEF klmalloc
<1> HIDE DEF id
<1>3. CASE id < BIG_BIN
  <2>1. id \in 0 .. BIG_BIN - 1 /\ size <= cell_size(id) /\ id # BIG_BIN
    BY <1>1, <1>3
  <2>2. Served(h, malloc_small(h, id), held, size) \/ Full(h, malloc_small(h, id))
    BY <2>1, MallocSmall
  <2>. QED  BY <1>2, <1>3, <2>1, <2>2 DEF id
<1>4. CASE ~(id < BIG_BIN)
  <2>1. ServedBig(h, malloc_big(h, size), held, size) \/ Full(h, malloc_big(h, size))
    BY MallocBig
  <2>. QED  BY <1>2, <1>4, <2>1, BigIsServed
<1>. QED  BY <1>3, <1>4

-----------------------------------------------------------------------------
Appended(S, s, e, t) ==
  /\ t \in Seq(S) /\ IsInjective(t) /\ ToSet(t) = ToSet(s) \cup {e}
  /\ Len(t) = Len(s) + 1
  /\ \A i \in 1 .. Len(t) : t[i] = IF i <= Len(s) THEN s[i] ELSE e

LEMMA AppendSeq ==
  ASSUME NEW S, NEW s \in Seq(S), IsInjective(s), NEW e \in S \ ToSet(s),
         NEW t, t = Append(s, e)
  PROVE  Appended(S, s, e, t)
<1> DEFINE n == Len(s)
<1>1. n \in Nat /\ DOMAIN s = 1 .. n
  OBVIOUS
<1>2. /\ t \in Seq(S) /\ Len(t) = n + 1 /\ DOMAIN t = 1 .. n + 1
      /\ \A i \in 1 .. n : t[i] = s[i]
      /\ t[n + 1] = e
  OBVIOUS
<1> HIDE DEF n
<1>3. \A i \in 1 .. n : s[i] # e
  BY <1>1 DEF ToSet
<1>4. IsInjective(t)
  <2> SUFFICES ASSUME NEW i \in 1 .. n + 1, NEW j \in 1 .. n + 1, t[i] = t[j] PROVE i = j
    BY <1>2 DEF IsInjective
  <2>1. CASE i \in 1 .. n /\ j \in 1 .. n
    BY <1>1, <1>2, <2>1 DEF IsInjective
  <2>2. CASE i = n + 1 \/ j = n + 1
    <3>1. (i = n + 1 \/ i \in 1 .. n) /\ (j = n + 1 \/ j \in 1 .. n)
      BY <1>1
    <3>. QED  BY <1>2, <1>3, <2>2, <3>1
  <2>. QED  BY <1>1, <2>1, <2>2
<1>5. ToSet(t) = ToSet(s) \cup {e}
  <2>1. 1 .. n + 1 = 1 .. n \cup {n + 1}
    BY <1>1
  <2>. QED  BY <1>1, <1>2, <2>1 DEF ToSet
<1>6. \A i \in 1 .. n + 1 : t[i] = IF i <= n THEN s[i] ELSE e
  <2> TAKE i \in 1 .. n + 1
  <2>1. (i <= n /\ i \in 1 .. n) \/ (~(i <= n) /\ i = n + 1)
    BY <1>1
  <2>. QED  BY <1>2, <2>1
<1>. QED  BY <1>2, <1>4, <1>5, <1>6 DEF n, Appended

-----------------------------------------------------------------------------
(* The place of a bin in the list keeps the order of sizes.                *)
LEMMA InsertHolds ==
  ASSUME NEW h, NEW held, HeapHolds(h, held), NEW bin \in DOMAIN h.size,
         bin \notin ToSet(h.big), NEW k, k = FirstFit(h, h.size[bin]),
         NEW t, t = IF k = 0 THEN Append(h.big, bin) ELSE InsertAt(h.big, k, bin)
  PROVE  /\ t \in Seq(DOMAIN h.size) /\ IsInjective(t) /\ ToSet(t) = ToSet(h.big) \cup {bin}
         /\ \A i, j \in DOMAIN t : i < j => h.size[t[i]] <= h.size[t[j]]
<1> DEFINE n == Len(h.big)
<1>1. /\ h.big \in Seq(DOMAIN h.size) /\ IsInjective(h.big) /\ Sorted(h)
      /\ DOMAIN h.big = 1 .. n /\ n \in Nat
  BY DEF HeapHolds, ListsHold
<1>2. \A b \in DOMAIN h.size : h.size[b] \in Nat
  BY DEF HeapHolds, BinsHold, BinHolds
<1>3. /\ k \in 0 .. n
      /\ k = 0 => \A i \in 1 .. n : ~(h.size[h.big[i]] >= h.size[bin])
      /\ k # 0 => /\ h.size[h.big[k]] >= h.size[bin]
                  /\ \A i \in 1 .. k - 1 : ~(h.size[h.big[i]] >= h.size[bin])
  BY <1>1, FirstFitIs
<1>4. \A i \in 1 .. n : h.big[i] \in DOMAIN h.size /\ h.size[h.big[i]] \in Nat
  BY <1>1, <1>2
<1>5. \A i, j \in 1 .. n : i <= j => h.size[h.big[i]] <= h.size[h.big[j]]
  <2> TAKE i, j \in 1 .. n
  <2>1. i = j => h.size[h.big[i]] <= h.size[h.big[j]]
    BY <1>4
  <2>2. i < j => h.size[h.big[i]] <= h.size[h.big[j]]
    BY <1>1 DEF Sorted
  <2>3. i <= j => i = j \/ i < j
    BY <1>1
  <2>. QED  BY <2>1, <2>2, <2>3
<1> HIDE DEF n
<1>5a. bin \in DOMAIN h.size \ ToSet(h.big)
  OBVIOUS
<1>6. CASE k = 0
  <2>1. t = Append(h.big, bin)
    BY <1>6
  <2>2. /\ t \in Seq(DOMAIN h.size) /\ IsInjective(t) /\ ToSet(t) = ToSet(h.big) \cup {bin}
        /\ Len(t) = n + 1
        /\ \A i \in 1 .. Len(t) : t[i] = IF i <= n THEN h.big[i] ELSE bin
    <3>1. Appended(DOMAIN h.size, h.big, bin, t)
      BY <1>1, <1>5a, <2>1, AppendSeq
    <3>. QED  BY <3>1 DEF n, Appended
  <2>3. DOMAIN t = 1 .. n + 1
    BY <2>2
  <2>4. ASSUME NEW i \in 1 .. n + 1, NEW j \in 1 .. n + 1, i < j
        PROVE  h.size[t[i]] <= h.size[t[j]]
    <3>1. i \in 1 .. n /\ t[i] = h.big[i]
      BY <1>1, <2>2, <2>4
    <3>2. CASE j \in 1 .. n
      <4>1. t[j] = h.big[j] /\ i <= j
        BY <1>1, <2>2, <2>4, <3>2
      <4>. QED  BY <1>5, <3>1, <3>2, <4>1
    <3>3. CASE j = n + 1
      <4>1. t[j] = bin
        BY <1>1, <2>2, <3>3
      <4>2. ~(h.size[t[i]] >= h.size[bin])
        BY <1>3, <1>6, <3>1
      <4>3. h.size[t[i]] \in Nat /\ h.size[bin] \in Nat
        BY <1>2, <1>4, <3>1
      <4> DEFINE x == h.size[t[i]]
                 y == h.size[bin]
      <4>4. ~(x >= y) /\ x \in Nat /\ y \in Nat
        BY <4>2, <4>3
      <4> HIDE DEF x, y
      <4>5. x <= y
        BY <4>4
      <4>. QED  BY <4>1, <4>5 DEF x, y
    <3>. QED  BY <1>1, <3>2, <3>3
  <2>. QED  BY <2>2, <2>3, <2>4
<1>7. CASE k # 0
  <2>1. t = InsertAt(h.big, k, bin) /\ k \in 1 .. n /\ k \in 1 .. n + 1
    BY <1>1, <1>3, <1>7
  <2>2. /\ t \in Seq(DOMAIN h.size) /\ IsInjective(t) /\ ToSet(t) = ToSet(h.big) \cup {bin}
        /\ Len(t) = n + 1
        /\ \A i \in 1 .. Len(t) : t[i] = IF i < k THEN h.big[i] ELSE IF i = k THEN bin ELSE h.big[i - 1]
    <3> DEFINE u == InsertAt(h.big, k, bin)
    <3>0. k \in 1 .. Len(h.big) + 1
      BY <2>1 DEF n
    <3>1. /\ u \in Seq(DOMAIN h.size) /\ IsInjective(u) /\ ToSet(u) = ToSet(h.big) \cup {bin}
          /\ Len(u) = Len(h.big) + 1
          /\ \A i \in 1 .. Len(u) : u[i] = IF i < k THEN h.big[i] ELSE IF i = k THEN bin ELSE h.big[i - 1]
      BY <1>1, <1>5a, <3>0, InsertSeq
    <3> HIDE DEF u
    <3>2. t = u
      BY <2>1 DEF u
    <3>. QED  BY <3>1, <3>2 DEF n
  <2>3. DOMAIN t = 1 .. n + 1
    BY <2>2
  <2> DEFINE size(i) == h.size[h.big[i]]
             x == h.size[bin]
  <2>4. x \in Nat /\ size(k) >= x /\ \A i \in 1 .. k - 1 : ~(size(i) >= x)
    BY <1>2, <1>3, <1>7
  <2>5. \A i \in 1 .. n : size(i) \in Nat
    BY <1>4
  <2>6. \A i, j \in 1 .. n : i <= j => size(i) <= size(j)
    BY <1>5
  <2>7. \A i \in 1 .. n + 1 : h.size[t[i]] = IF i < k THEN size(i) ELSE IF i = k THEN x ELSE size(i - 1)
    BY <2>2
  <2> HIDE DEF size, x
  <2>8. \A i \in 1 .. n : (i < k => size(i) <= x) /\ (k <= i => x <= size(i))
    <3> TAKE i \in 1 .. n
    <3>1. CASE i < k
      <4>1. i \in 1 .. k - 1 /\ ~(k <= i)
        BY <1>1, <2>1, <3>1
      <4>2. ~(size(i) >= x) /\ size(i) \in Nat
        BY <2>4, <2>5, <4>1
      <4>. QED  BY <2>4, <4>1, <4>2
    <3>2. CASE ~(i < k)
      <4>1. k <= i /\ size(k) <= size(i)
        BY <1>1, <2>1, <2>6, <3>2
      <4>2. size(k) \in Nat /\ size(i) \in Nat
        BY <2>1, <2>5
      <4>. QED  BY <2>4, <3>2, <4>1, <4>2
    <3>. QED  BY <3>1, <3>2
  <2>9. ASSUME NEW i \in 1 .. n + 1, NEW j \in 1 .. n + 1, i < j
        PROVE  h.size[t[i]] <= h.size[t[j]]
    <3>1. CASE j < k
      <4>1. i < k /\ i \in 1 .. n /\ j \in 1 .. n /\ i <= j
        BY <1>1, <2>1, <2>9, <3>1
      <4>. QED  BY <2>6, <2>7, <3>1, <4>1
    <3>2. CASE j = k
      <4>1. i < k /\ i \in 1 .. n /\ ~(j < k)
        BY <1>1, <2>1, <2>9, <3>2
      <4>. QED  BY <2>7, <2>8, <3>2, <4>1
    <3>3. CASE j > k /\ i < k
      <4>1. i \in 1 .. n /\ j - 1 \in 1 .. n /\ i <= j - 1 /\ ~(j < k) /\ j # k
        BY <1>1, <2>1, <2>9, <3>3
      <4>. QED  BY <2>6, <2>7, <3>3, <4>1
    <3>4. CASE j > k /\ i = k
      <4>1. j - 1 \in 1 .. n /\ k <= j - 1 /\ ~(j < k) /\ j # k /\ ~(i < k)
        BY <1>1, <2>1, <2>9, <3>4
      <4>. QED  BY <2>7, <2>8, <3>4, <4>1
    <3>5. CASE i > k
      <4>1. i - 1 \in 1 .. n /\ j - 1 \in 1 .. n /\ i - 1 <= j - 1
            /\ ~(j < k) /\ j # k /\ ~(i < k) /\ i # k
        BY <1>1, <2>1, <2>9, <3>5
      <4>. QED  BY <2>6, <2>7, <4>1
    <3>. QED  BY <1>1, <2>1, <2>9, <3>1, <3>2, <3>3, <3>4, <3>5
  <2>. QED  BY <2>2, <2>3, <2>9
<1>. QED  BY <1>6, <1>7

-----------------------------------------------------------------------------
(* A cell of bin b that a caller held is free again.                       *)
Freed(h, g, held, c) ==
  /\ HeapHolds(g, held \ {c}) /\ g.asserted = h.asserted /\ g.brk = h.brk /\ g.size = h.size

LEMMA FreeBigHolds ==
  ASSUME NEW h, NEW held, HeapHolds(h, held), NEW b \in DOMAIN h.size, IsBig(h, b),
         NEW c \in held, c \in CellsAt(h, b)
  PROVE  Freed(h, free_big(h, b), held, c)
<1> DEFINE g == free_big(h, b)
           k == FirstFit(h, h.size[b])
           big2 == IF k = 0 THEN Append(h.big, b) ELSE InsertAt(h.big, k, b)
<1>1. /\ Fields(h) /\ DOMAIN h.stack = DOMAIN h.size
      /\ h.stack[b] \in Seq(Nat) /\ ToSet(h.stack[b]) = CellsAt(h, b) \ held
      /\ ToSet(h.big) = {d \in DOMAIN h.size : IsBig(h, d) /\ h.stack[d] # <<>>}
      /\ BinHolds(h, b)
  BY DEF HeapHolds, BinsHold, StacksHold, ListsHold
<1>2. CellsAt(h, b) = {c} /\ c = b + big_bin_header /\ c \in Nat
  <2>1. CellsAt(h, b) = {b + big_bin_header}
    BY DEF CellsAt
  <2>. QED  BY <1>1, <2>1, CellPlace
<1>3. h.stack[b] = <<>>
  <2>1. ToSet(h.stack[b]) = {}
    BY <1>1, <1>2
  <2>. QED  BY <1>1, <2>1, SeqElements
<1>4. b \notin ToSet(h.big)
  BY <1>1, <1>3
<1>5. g = [h EXCEPT !.stack[b] = <<c>>, !.big = big2, !.ret = NULL]
  BY <1>2, <1>3 DEF free_big
<1>5a. k = FirstFit(h, h.size[b]) /\ big2 = IF k = 0 THEN Append(h.big, b) ELSE InsertAt(h.big, k, b)
  OBVIOUS
<1> HIDE DEF k, big2
<1>6. /\ big2 \in Seq(DOMAIN h.size) /\ IsInjective(big2) /\ ToSet(big2) = ToSet(h.big) \cup {b}
      /\ \A i, j \in DOMAIN big2 : i < j => h.size[big2[i]] <= h.size[big2[j]]
  BY <1>4, <1>5a, InsertHolds
<1> HIDE DEF g, big2, k
<1>7. /\ g.brk = h.brk /\ g.size = h.size /\ g.list = h.list /\ g.big = big2
      /\ g.asserted = h.asserted /\ g.stack = [h.stack EXCEPT ![b] = <<c>>] /\ Fields(g)
  BY <1>1, <1>5 DEF Fields
<1>8. /\ DOMAIN g.stack = DOMAIN h.size /\ g.stack[b] = <<c>>
      /\ \A d \in DOMAIN h.size \ {b} : g.stack[d] = h.stack[d]
  BY <1>1, <1>7
<1>9. /\ BinsHold(g)
      /\ \A d : CellsAt(g, d) = CellsAt(h, d) /\ (IsBig(g, d) <=> IsBig(h, d))
  BY <1>1, <1>7, <1>8, SameBins DEF HeapHolds
<1>10. <<c>> \in Seq(Nat) /\ IsInjective(<<c>>) /\ ToSet(<<c>>) = {c} /\ <<c>> # <<>>
  BY <1>2, OneSeq
<1>11. StacksHold(g, held \ {c})
  <2>1. ASSUME NEW d \in DOMAIN h.size
        PROVE  /\ g.stack[d] \in Seq(Nat) /\ IsInjective(g.stack[d])
               /\ ToSet(g.stack[d]) = CellsAt(g, d) \ (held \ {c})
    <3>1. CASE d = b
      BY <1>2, <1>8, <1>9, <1>10, <3>1
    <3>2. CASE d # b
      <4>1. c \notin CellsAt(h, d)
        BY <3>2, OneBin DEF HeapHolds
      <4>. QED  BY <1>8, <1>9, <3>2, <4>1 DEF HeapHolds, StacksHold
    <3>. QED  BY <3>1, <3>2
  <2>2. ASSUME NEW e \in held \ {c} PROVE \E d \in DOMAIN h.size : e \in CellsAt(g, d)
    BY <1>9 DEF HeapHolds, StacksHold
  <2>. QED  BY <1>7, <2>1, <2>2 DEF StacksHold
<1>12. ListsHold(g)
  <2>1. ASSUME NEW n \in 0 .. BIG_BIN - 1
        PROVE  /\ g.list[n] \in Seq(DOMAIN g.size) /\ IsInjective(g.list[n])
               /\ ToSet(g.list[n]) = {d \in DOMAIN g.size : g.size[d] = n /\ g.stack[d] # <<>>}
    <3>1. /\ h.list[n] \in Seq(DOMAIN h.size) /\ IsInjective(h.list[n])
          /\ ToSet(h.list[n]) = {d \in DOMAIN h.size : h.size[d] = n /\ h.stack[d] # <<>>}
      BY DEF HeapHolds, ListsHold
    <3>2. h.size[b] # n
      BY SmallIsNotBig
    <3>3. {d \in DOMAIN h.size : h.size[d] = n /\ h.stack[d] # <<>>}
            = {d \in DOMAIN g.size : g.size[d] = n /\ g.stack[d] # <<>>}
      BY <1>7, <1>8, <3>2
    <3>. QED  BY <1>7, <3>1, <3>3
  <2>2. DOMAIN g.list = 0 .. BIG_BIN - 1
    BY <1>7 DEF HeapHolds, ListsHold
  <2>3. ToSet(big2) = {d \in DOMAIN g.size : IsBig(g, d) /\ g.stack[d] # <<>>}
    BY <1>1, <1>6, <1>7, <1>8, <1>9, <1>10
  <2>4. Sorted(g)
    BY <1>6, <1>7 DEF Sorted
  <2>. QED  BY <1>6, <1>7, <2>1, <2>2, <2>3, <2>4 DEF ListsHold
<1>. QED  BY <1>7, <1>9, <1>11, <1>12 DEF HeapHolds, Freed, g

LEMMA FreeSmallHolds ==
  ASSUME NEW h, NEW held, HeapHolds(h, held), NEW b \in DOMAIN h.size, ~IsBig(h, b),
         NEW c \in held, c \in CellsAt(h, b)
  PROVE  Freed(h, free_small(h, b, c), held, c)
<1> DEFINE g == free_small(h, b, c)
           id == h.size[b]
           stack2 == <<c>> \o h.stack[b]
           list2 == IF h.stack[b] = <<>> THEN <<b>> \o h.list[id] ELSE h.list[id]
<1>1. /\ Fields(h) /\ DOMAIN h.stack = DOMAIN h.size /\ DOMAIN h.list = 0 .. BIG_BIN - 1
      /\ h.stack[b] \in Seq(Nat) /\ IsInjective(h.stack[b])
      /\ ToSet(h.stack[b]) = CellsAt(h, b) \ held
      /\ BinHolds(h, b)
  BY DEF HeapHolds, BinsHold, StacksHold, ListsHold
<1>2. id \in 0 .. BIG_BIN - 1
  BY <1>1 DEF BinHolds
<1>3. /\ h.list[id] \in Seq(DOMAIN h.size) /\ IsInjective(h.list[id])
      /\ ToSet(h.list[id]) = {d \in DOMAIN h.size : h.size[d] = id /\ h.stack[d] # <<>>}
  BY <1>2 DEF HeapHolds, ListsHold
<1>4. c \in Nat \ ToSet(h.stack[b])
  BY <1>1, CellPlace
<1>5. /\ stack2 \in Seq(Nat) /\ stack2 # <<>> /\ IsInjective(stack2)
      /\ ToSet(stack2) = ToSet(h.stack[b]) \cup {c}
  BY <1>1, <1>4, PushSeq
<1>6. /\ list2 \in Seq(DOMAIN h.size) /\ IsInjective(list2)
      /\ ToSet(list2) = ToSet(h.list[id]) \cup {b}
  <2>1. CASE h.stack[b] = <<>>
    <3>1. b \in DOMAIN h.size \ ToSet(h.list[id]) /\ list2 = <<b>> \o h.list[id]
      BY <1>3, <2>1
    <3> DEFINE s == h.list[id]
               S == DOMAIN h.size
    <3>2. s \in Seq(S) /\ IsInjective(s) /\ b \in S \ ToSet(s)
      BY <1>3, <3>1
    <3> HIDE DEF list2, s, S
    <3>3. /\ <<b>> \o s \in Seq(S) /\ IsInjective(<<b>> \o s)
          /\ ToSet(<<b>> \o s) = ToSet(s) \cup {b}
      BY <3>2, PushSeq
    <3>4. list2 = <<b>> \o s
      BY <3>1 DEF s
    <3>. QED  BY <3>3, <3>4 DEF s, S
  <2>2. CASE h.stack[b] # <<>>
    <3>1. b \in ToSet(h.list[id])
      BY <1>3, <2>2
    <3>. QED  BY <1>3, <2>2, <3>1
  <2>. QED  BY <2>1, <2>2
<1>7. g = [h EXCEPT !.list[id] = list2, !.stack[b] = stack2, !.ret = NULL]
  BY DEF free_small
<1>7a. h.size[b] = id
  OBVIOUS
<1> HIDE DEF g, list2, stack2, id
<1>8. /\ g.brk = h.brk /\ g.size = h.size /\ g.list = [h.list EXCEPT ![id] = list2] /\ g.big = h.big
      /\ g.asserted = h.asserted /\ g.stack = [h.stack EXCEPT ![b] = stack2] /\ Fields(g)
  BY <1>1, <1>7 DEF Fields
<1>9. /\ DOMAIN g.stack = DOMAIN h.size /\ g.stack[b] = stack2
      /\ \A d \in DOMAIN h.size \ {b} : g.stack[d] = h.stack[d]
  BY <1>1, <1>8
<1>9a. /\ DOMAIN g.list = 0 .. BIG_BIN - 1 /\ g.list[id] = list2
       /\ \A n \in 0 .. BIG_BIN - 1 : n # id => g.list[n] = h.list[n]
  BY <1>1, <1>2, <1>8
<1>10. /\ BinsHold(g)
       /\ \A d : CellsAt(g, d) = CellsAt(h, d) /\ (IsBig(g, d) <=> IsBig(h, d))
  BY <1>1, <1>8, <1>9, SameBins DEF HeapHolds
<1>11. StacksHold(g, held \ {c})
  <2>1. ASSUME NEW d \in DOMAIN h.size
        PROVE  /\ g.stack[d] \in Seq(Nat) /\ IsInjective(g.stack[d])
               /\ ToSet(g.stack[d]) = CellsAt(g, d) \ (held \ {c})
    <3>1. CASE d = b
      BY <1>1, <1>5, <1>9, <1>10, <3>1
    <3>2. CASE d # b
      <4>1. c \notin CellsAt(h, d)
        BY <3>2, OneBin DEF HeapHolds
      <4>. QED  BY <1>9, <1>10, <3>2, <4>1 DEF HeapHolds, StacksHold
    <3>. QED  BY <3>1, <3>2
  <2>2. ASSUME NEW e \in held \ {c} PROVE \E d \in DOMAIN h.size : e \in CellsAt(g, d)
    BY <1>10 DEF HeapHolds, StacksHold
  <2>. QED  BY <1>8, <2>1, <2>2 DEF StacksHold
<1>12. ListsHold(g)
  <2>1. ASSUME NEW n \in 0 .. BIG_BIN - 1
        PROVE  /\ g.list[n] \in Seq(DOMAIN g.size) /\ IsInjective(g.list[n])
               /\ ToSet(g.list[n]) = {d \in DOMAIN g.size : g.size[d] = n /\ g.stack[d] # <<>>}
    <3>1. CASE n = id
      <4>1. ToSet(list2) = {d \in DOMAIN g.size : g.size[d] = n /\ g.stack[d] # <<>>}
        BY <1>3, <1>5, <1>6, <1>7a, <1>8, <1>9, <3>1
      <4>. QED  BY <1>6, <1>8, <1>9a, <3>1, <4>1
    <3>2. CASE n # id
      <4>1. /\ h.list[n] \in Seq(DOMAIN h.size) /\ IsInjective(h.list[n])
            /\ ToSet(h.list[n]) = {d \in DOMAIN h.size : h.size[d] = n /\ h.stack[d] # <<>>}
        BY DEF HeapHolds, ListsHold
      <4>2. {d \in DOMAIN h.size : h.size[d] = n /\ h.stack[d] # <<>>}
              = {d \in DOMAIN g.size : g.size[d] = n /\ g.stack[d] # <<>>}
        BY <1>7a, <1>8, <1>9, <3>2
      <4>. QED  BY <1>8, <1>9a, <3>2, <4>1, <4>2
    <3>. QED  BY <3>1, <3>2
  <2>2. {d \in DOMAIN h.size : IsBig(h, d) /\ h.stack[d] # <<>>}
          = {d \in DOMAIN g.size : IsBig(g, d) /\ g.stack[d] # <<>>}
    BY <1>8, <1>9, <1>10
  <2>3. /\ g.big \in Seq(DOMAIN g.size) /\ IsInjective(g.big) /\ Sorted(g)
        /\ ToSet(g.big) = {d \in DOMAIN h.size : IsBig(h, d) /\ h.stack[d] # <<>>}
    BY <1>8 DEF HeapHolds, ListsHold, Sorted
  <2>. QED  BY <1>9a, <2>1, <2>2, <2>3 DEF ListsHold
<1>. QED  BY <1>8, <1>10, <1>11, <1>12 DEF HeapHolds, Freed, g

(* klfree finds the bin of the cell from a pointer into it.                *)
LEMMA FreeHolds ==
  ASSUME NEW h, NEW held, HeapHolds(h, held), NEW b \in DOMAIN h.size,
         NEW c \in held, c \in CellsAt(h, b),
         NEW p, p # NULL, header_of(p) = b, IsBig(h, b) \/ p = c
  PROVE  Freed(h, klfree(h, p), held, c)
<1>1. CASE IsBig(h, b)
  <2>1. klfree(h, p) = free_big(h, b)
    BY <1>1 DEF klfree
  <2>. QED  BY <1>1, <2>1, FreeBigHolds
<1>2. CASE ~IsBig(h, b)
  <2>1. klfree(h, p) = free_small(h, b, c)
    BY <1>2 DEF klfree
  <2>. QED  BY <1>2, <2>1, FreeSmallHolds
<1>. QED  BY <1>1, <1>2

-----------------------------------------------------------------------------
(* The blocks bl that callers hold, those in pa given by valloc.           *)
Cell(pa, p) == IF p \in pa THEN header_of(p) + big_bin_header ELSE p

Held(bl, pa) == {Cell(pa, p) : p \in DOMAIN bl}

(* Block p lies in a cell of bin b.                                        *)
BlockIn(h, bl, pa, p, b) ==
  /\ b \in DOMAIN h.size
  /\ p \in pa => IsBig(h, b) /\ p = b + PAGE_SIZE /\ bl[p] + PAGE_SIZE - big_bin_header <= h.size[b]
  /\ p \notin pa => p \in CellsAt(h, b) /\ bl[p] <= Capacity(h, b)

BlocksHold(h, bl, pa) ==
  /\ bl = [p \in DOMAIN bl |-> bl[p]] /\ pa \subseteq DOMAIN bl
  /\ \A p \in DOMAIN bl : bl[p] \in Nat \ {0} /\ \E b : BlockIn(h, bl, pa, p, b)
  /\ \A p, q \in DOMAIN bl : Cell(pa, p) = Cell(pa, q) => p = q

AllHolds(h, bl, pa) == HeapHolds(h, Held(bl, pa)) /\ BlocksHold(h, bl, pa)

LEMMA BlockPlace ==
  ASSUME NEW h, NEW bl, NEW pa, NEW p, NEW b, BlockIn(h, bl, pa, p, b), BinHolds(h, b),
         bl[p] \in Nat \ {0}
  PROVE  /\ p \in Nat /\ b < p /\ header_of(p) = b /\ p # NULL
         /\ p + bl[p] <= EndOf(h, b)
         /\ Cell(pa, p) \in CellsAt(h, b) /\ (IsBig(h, b) \/ p = Cell(pa, p))
         /\ b + (IF IsBig(h, b) THEN big_bin_header ELSE bin_header) <= p
<1>1. /\ PAGE_SIZE \in Nat \ {0} /\ big_bin_header \in Nat \ {0} /\ NUM_BINS \in Nat
      /\ big_bin_header + NUM_BINS < PAGE_SIZE /\ bin_header \in Nat
  BY Sizes
<1>2. Page(b) /\ b \in Nat /\ h.size[b] \in Nat
  BY DEF BinHolds, Page
<1>3. CASE p \in pa
  <2>1. IsBig(h, b) /\ p = b + PAGE_SIZE /\ bl[p] + PAGE_SIZE - big_bin_header <= h.size[b]
    BY <1>3 DEF BlockIn
  <2>2. header_of(p) = b
    BY <1>2, <2>1, HeaderOf
  <2>3. Cell(pa, p) \in CellsAt(h, b)
    BY <1>3, <2>1, <2>2 DEF Cell, CellsAt
  <2>4. EndOf(h, b) = b + big_bin_header + h.size[b]
    BY <2>1 DEF EndOf
  <2> DEFINE n == bl[p]
             m == h.size[b]
  <2>5. n \in Nat \ {0} /\ m \in Nat /\ n + PAGE_SIZE - big_bin_header <= m
        /\ EndOf(h, b) = b + big_bin_header + m
    BY <1>2, <2>1, <2>4
  <2> HIDE DEF n, m
  <2>6. p + n <= EndOf(h, b) /\ p \in Nat /\ b < p /\ b + big_bin_header <= p /\ p # 0
    BY <1>1, <1>2, <2>1, <2>5
  <2>. QED  BY <2>1, <2>2, <2>3, <2>6 DEF n, NULL
<1>4. CASE p \notin pa
  <2>1. p \in CellsAt(h, b) /\ bl[p] <= Capacity(h, b) /\ Cell(pa, p) = p
    BY <1>4 DEF BlockIn, Cell
  <2>2. /\ p \in Nat /\ b < p /\ p + Capacity(h, b) <= EndOf(h, b)
        /\ EndOf(h, b) \in Nat /\ Capacity(h, b) \in Nat \ {0} /\ header_of(p) = b
        /\ b + (IF IsBig(h, b) THEN big_bin_header ELSE bin_header) <= p
    BY <2>1, CellPlace
  <2> DEFINE n == bl[p]
             e == EndOf(h, b)
             m == Capacity(h, b)
  <2>3. n \in Nat /\ e \in Nat /\ m \in Nat /\ n <= m /\ p + m <= e
    BY <2>1, <2>2
  <2> HIDE DEF n, e, m
  <2>4. p + n <= e /\ p # 0
    BY <1>2, <2>2, <2>3
  <2>. QED  BY <2>1, <2>2, <2>4 DEF n, e, NULL
<1>. QED  BY <1>3, <1>4

(* What is not the cells matters not to the bins.                          *)
LEMMA SameHeap ==
  ASSUME NEW h, NEW held, HeapHolds(h, held), NEW g, Fields(g),
         g.brk = h.brk, g.size = h.size, g.stack = h.stack, g.list = h.list, g.big = h.big
  PROVE  HeapHolds(g, held)
<1>1. /\ BinsHold(g)
      /\ \A b : CellsAt(g, b) = CellsAt(h, b) /\ (IsBig(g, b) <=> IsBig(h, b))
  BY SameBins DEF HeapHolds
<1>2. StacksHold(g, held)
  BY <1>1 DEF HeapHolds, StacksHold
<1>3. ListsHold(g)
  BY <1>1 DEF HeapHolds, ListsHold, Sorted
<1>. QED  BY <1>1, <1>2, <1>3 DEF HeapHolds

(* Blocks stay where they are while bins keep their sizes.                 *)
LEMMA SameBlocks ==
  ASSUME NEW h, NEW g, NEW bl, NEW pa, NEW p, NEW b, BlockIn(h, bl, pa, p, b),
         b \in DOMAIN g.size, g.size[b] = h.size[b],
         NEW bl2, NEW pa2, bl2[p] = bl[p], p \in pa <=> p \in pa2
  PROVE  BlockIn(g, bl2, pa2, p, b)
<1>1. /\ (IsBig(g, b) <=> IsBig(h, b)) /\ CellsAt(g, b) = CellsAt(h, b)
      /\ Capacity(g, b) = Capacity(h, b)
  BY DEF IsBig, CellsAt, Capacity
<1>. QED  BY <1>1 DEF BlockIn

-----------------------------------------------------------------------------
LEMMA FailHolds ==
  ASSUME NEW h, NEW bl, NEW pa, AllHolds(h, bl, pa), NEW g, Full(h, g)
  PROVE  /\ AllHolds(g, bl, pa) /\ g.asserted = "heap full" /\ g.ret = NULL
         /\ g.brk = h.brk /\ g.size = h.size
<1>1. g = [h EXCEPT !.asserted = "heap full", !.ret = NULL]
  BY DEF Full, Fail
<1>2. Fields(h)
  BY DEF AllHolds, HeapHolds
<1>3. /\ Fields(g) /\ g.brk = h.brk /\ g.size = h.size /\ g.stack = h.stack /\ g.list = h.list
      /\ g.big = h.big /\ g.asserted = "heap full" /\ g.ret = NULL
  BY <1>1, <1>2 DEF Fields
<1>4. HeapHolds(g, Held(bl, pa))
  BY <1>3, SameHeap DEF AllHolds
<1>5. BlocksHold(g, bl, pa)
  <2>1. ASSUME NEW p \in DOMAIN bl PROVE bl[p] \in Nat \ {0} /\ \E b : BlockIn(g, bl, pa, p, b)
    <3>1. PICK b : BlockIn(h, bl, pa, p, b)
      BY DEF AllHolds, BlocksHold
    <3>2. BlockIn(g, bl, pa, p, b)
      <4>1. b \in DOMAIN g.size /\ g.size[b] = h.size[b]
        BY <1>3, <3>1 DEF BlockIn
      <4>2. bl[p] = bl[p] /\ (p \in pa <=> p \in pa)
        OBVIOUS
      <4>. QED  BY <3>1, <4>1, <4>2, SameBlocks
    <3>. QED  BY <3>2 DEF AllHolds, BlocksHold
  <2>. QED  BY <2>1 DEF AllHolds, BlocksHold
<1>. QED  BY <1>3, <1>4, <1>5 DEF AllHolds

(* malloc: a new block in the cell.                                        *)
LEMMA GiveBlock ==
  ASSUME NEW h, NEW bl, NEW pa, AllHolds(h, bl, pa), NEW size \in Nat \ {0},
         NEW g, Served(h, g, Held(bl, pa), size)
  PROVE  AllHolds(g, Put(bl, g.ret, size), pa) /\ g.ret \notin DOMAIN bl /\ g.ret # NULL
<1> DEFINE c == g.ret
           bl2 == Put(bl, c, size)
<1>1. /\ HeapHolds(g, Held(bl, pa) \cup {c}) /\ c \notin Held(bl, pa)
      /\ DOMAIN h.size \subseteq DOMAIN g.size /\ \A b \in DOMAIN h.size : g.size[b] = h.size[b]
  BY DEF Served, Goes
<1>2. PICK b \in DOMAIN g.size : c \in CellsAt(g, b) /\ size <= Capacity(g, b)
  BY DEF Served
<1>3. c \in Nat /\ c # NULL /\ c % PAGE_SIZE # 0
  <2>1. BinHolds(g, b)
    BY <1>1 DEF HeapHolds, BinsHold
  <2>2. c \in Nat /\ b \in Nat /\ b < c /\ c % PAGE_SIZE # 0
    BY <1>2, <2>1, CellPlace
  <2>. QED  BY <2>2 DEF NULL
<1> HIDE DEF c
<1>4. ASSUME NEW p \in pa PROVE p % PAGE_SIZE = 0
  <2>1. PICK d : BlockIn(h, bl, pa, p, d)
    BY DEF AllHolds, BlocksHold
  <2>2. p = d + PAGE_SIZE /\ Page(d)
    BY <2>1 DEF BlockIn, AllHolds, HeapHolds, BinsHold, BinHolds
  <2>. QED  BY <2>2, HeaderOf
<1>5. c \notin pa /\ Cell(pa, c) = c
  BY <1>3, <1>4 DEF Cell
<1>6. c \notin DOMAIN bl
  BY <1>1, <1>5 DEF Held
<1>7. /\ DOMAIN bl2 = DOMAIN bl \cup {c} /\ bl2[c] = size
      /\ \A p \in DOMAIN bl : bl2[p] = bl[p]
      /\ bl2 = [p \in DOMAIN bl2 |-> bl2[p]]
  BY <1>6 DEF Put
<1> HIDE DEF bl2
<1>8. Held(bl2, pa) = Held(bl, pa) \cup {c}
  BY <1>5, <1>7 DEF Held
<1>9. ASSUME NEW p \in DOMAIN bl2
      PROVE  bl2[p] \in Nat \ {0} /\ \E d : BlockIn(g, bl2, pa, p, d)
  <2>1. CASE p = c
    BY <1>2, <1>5, <1>7, <2>1 DEF BlockIn
  <2>2. CASE p # c
    <3>1. p \in DOMAIN bl /\ bl2[p] = bl[p]
      BY <1>7, <2>2
    <3>2. PICK d : BlockIn(h, bl, pa, p, d)
      BY <3>1 DEF AllHolds, BlocksHold
    <3>3. d \in DOMAIN g.size /\ g.size[d] = h.size[d]
      BY <1>1, <3>2 DEF BlockIn
    <3>4. BlockIn(g, bl2, pa, p, d)
      BY <3>1, <3>2, <3>3, SameBlocks
    <3>. QED  BY <3>1, <3>4 DEF AllHolds, BlocksHold
  <2>. QED  BY <2>1, <2>2
<1>10. ASSUME NEW p \in DOMAIN bl2, NEW q \in DOMAIN bl2, Cell(pa, p) = Cell(pa, q)
       PROVE  p = q
  <2>1. CASE p = c
    BY <1>1, <1>5, <1>7, <1>10, <2>1 DEF Held
  <2>2. CASE q = c
    BY <1>1, <1>5, <1>7, <1>10, <2>2 DEF Held
  <2>3. CASE p # c /\ q # c
    BY <1>7, <1>10, <2>3 DEF AllHolds, BlocksHold
  <2>. QED  BY <2>1, <2>2, <2>3
<1>11. pa \subseteq DOMAIN bl2
  BY <1>7 DEF AllHolds, BlocksHold
<1>12. AllHolds(g, bl2, pa)
  BY <1>1, <1>7, <1>8, <1>9, <1>10, <1>11 DEF AllHolds, BlocksHold
<1>. QED  BY <1>3, <1>6, <1>12 DEF c, bl2

(* valloc: a new block in the second page of a big bin.                    *)
LEMMA GiveAligned ==
  ASSUME NEW h, NEW bl, NEW pa, AllHolds(h, bl, pa), NEW size \in Nat \ {0},
         NEW g, ServedBig(h, g, Held(bl, pa), size + PAGE_SIZE - big_bin_header),
         NEW out, out = g.ret + PAGE_SIZE - big_bin_header
  PROVE  /\ AllHolds(g, Put(bl, out, size), pa \cup {out}) /\ out \notin DOMAIN bl
         /\ g.ret # NULL
<1> DEFINE c == g.ret
           bl2 == Put(bl, out, size)
           pa2 == pa \cup {out}
<1>0. PAGE_SIZE \in Nat \ {0} /\ big_bin_header \in Nat \ {0}
  BY Sizes
<1>1. /\ HeapHolds(g, Held(bl, pa) \cup {c}) /\ c \notin Held(bl, pa)
      /\ DOMAIN h.size \subseteq DOMAIN g.size /\ \A b \in DOMAIN h.size : g.size[b] = h.size[b]
  BY DEF ServedBig, Goes
<1>2. PICK b \in DOMAIN g.size : /\ IsBig(g, b) /\ c = b + big_bin_header
                                 /\ size + PAGE_SIZE - big_bin_header <= g.size[b]
  BY DEF ServedBig
<1>3. Page(b) /\ b \in Nat
  BY <1>1 DEF HeapHolds, BinsHold, BinHolds, Page
<1>4. c # NULL /\ out = b + PAGE_SIZE
  BY <1>0, <1>2, <1>3 DEF NULL
<1> HIDE DEF c
<1>5. out % PAGE_SIZE = 0 /\ header_of(out) = b
  BY <1>3, <1>4, HeaderOf
<1>6. out \notin DOMAIN bl
  <2>1. ASSUME out \in DOMAIN bl PROVE FALSE
    <3>1. PICK d : BlockIn(h, bl, pa, out, d)
      BY <2>1 DEF AllHolds, BlocksHold
    <3>2. BinHolds(h, d)
      BY <3>1 DEF BlockIn, AllHolds, HeapHolds, BinsHold
    <3>3. out \in pa
      BY <1>5, <3>1, <3>2, CellPlace DEF BlockIn
    <3>4. Cell(pa, out) = c
      BY <1>2, <1>5, <3>3 DEF Cell
    <3>. QED  BY <1>1, <2>1, <3>4 DEF Held
  <2>. QED  BY <2>1
<1>7. /\ DOMAIN bl2 = DOMAIN bl \cup {out} /\ bl2[out] = size
      /\ \A p \in DOMAIN bl : bl2[p] = bl[p]
      /\ bl2 = [p \in DOMAIN bl2 |-> bl2[p]]
  BY <1>6 DEF Put
<1> HIDE DEF bl2
<1>7a. Cell(pa2, out) = c /\ \A p \in DOMAIN bl : Cell(pa2, p) = Cell(pa, p)
  BY <1>2, <1>5, <1>6 DEF Cell
<1>7b. out \in pa2 /\ \A p \in DOMAIN bl : (p \in pa <=> p \in pa2)
  BY <1>6
<1>7c. pa2 \subseteq DOMAIN bl2
  BY <1>7 DEF AllHolds, BlocksHold
<1> HIDE DEF pa2
<1>8. Held(bl2, pa2) = Held(bl, pa) \cup {c}
  BY <1>7, <1>7a DEF Held
<1>9. ASSUME NEW p \in DOMAIN bl2
      PROVE  bl2[p] \in Nat \ {0} /\ \E d : BlockIn(g, bl2, pa2, p, d)
  <2>1. CASE p = out
    BY <1>2, <1>4, <1>7, <1>7b, <2>1 DEF BlockIn
  <2>2. CASE p # out
    <3>1. p \in DOMAIN bl /\ bl2[p] = bl[p] /\ (p \in pa <=> p \in pa2)
      BY <1>7, <1>7b, <2>2
    <3>2. PICK d : BlockIn(h, bl, pa, p, d)
      BY <3>1 DEF AllHolds, BlocksHold
    <3>3. d \in DOMAIN g.size /\ g.size[d] = h.size[d]
      BY <1>1, <3>2 DEF BlockIn
    <3>4. BlockIn(g, bl2, pa2, p, d)
      BY <3>1, <3>2, <3>3, SameBlocks
    <3>. QED  BY <3>1, <3>4 DEF AllHolds, BlocksHold
  <2>. QED  BY <2>1, <2>2
<1>10. ASSUME NEW p \in DOMAIN bl2, NEW q \in DOMAIN bl2, Cell(pa2, p) = Cell(pa2, q)
       PROVE  p = q
  <2>1. CASE p = out
    BY <1>1, <1>7, <1>7a, <1>10, <2>1 DEF Held
  <2>2. CASE q = out
    BY <1>1, <1>7, <1>7a, <1>10, <2>2 DEF Held
  <2>3. CASE p # out /\ q # out
    BY <1>7, <1>7a, <1>10, <2>3 DEF AllHolds, BlocksHold
  <2>. QED  BY <2>1, <2>2, <2>3
<1>12. AllHolds(g, bl2, pa2)
  BY <1>1, <1>7, <1>7c, <1>8, <1>9, <1>10 DEF AllHolds, BlocksHold
<1>. QED  BY <1>4, <1>6, <1>12 DEF c, bl2, pa2

(* free: a block is gone.                                                  *)
LEMMA TakeBlock ==
  ASSUME NEW h, NEW bl, NEW pa, AllHolds(h, bl, pa), NEW p \in DOMAIN bl,
         NEW g, g = klfree(h, p)
  PROVE  /\ AllHolds(g, [q \in DOMAIN bl \ {p} |-> bl[q]], pa \ {p})
         /\ g.asserted = h.asserted /\ g.brk = h.brk /\ g.size = h.size /\ p # NULL
<1> DEFINE c == Cell(pa, p)
           bl2 == [q \in DOMAIN bl \ {p} |-> bl[q]]
           pa2 == pa \ {p}
<1>1. PICK b : BlockIn(h, bl, pa, p, b)
  BY DEF AllHolds, BlocksHold
<1>2. b \in DOMAIN h.size /\ BinHolds(h, b) /\ bl[p] \in Nat \ {0}
  BY <1>1 DEF BlockIn, AllHolds, BlocksHold, HeapHolds, BinsHold
<1>3. p # NULL /\ header_of(p) = b /\ c \in CellsAt(h, b) /\ (IsBig(h, b) \/ p = c)
  BY <1>1, <1>2, BlockPlace
<1>4. c \in Held(bl, pa)
  BY DEF Held
<1>5. Freed(h, g, Held(bl, pa), c)
  BY <1>2, <1>3, <1>4, FreeHolds DEF AllHolds
<1>6. \A q \in DOMAIN bl2 : /\ q \in DOMAIN bl /\ q # p /\ bl2[q] = bl[q] /\ (q \in pa <=> q \in pa2)
                            /\ Cell(pa2, q) = Cell(pa, q)
  BY DEF Cell
<1>7. DOMAIN bl2 = DOMAIN bl \ {p} /\ bl2 = [q \in DOMAIN bl2 |-> bl2[q]] /\ pa2 \subseteq DOMAIN bl2
  BY DEF AllHolds, BlocksHold
<1> HIDE DEF bl2, pa2, c
<1>8. Held(bl2, pa2) = Held(bl, pa) \ {c}
  <2>1. \A q \in DOMAIN bl \ {p} : Cell(pa, q) # c
    BY DEF AllHolds, BlocksHold, c
  <2>. QED  BY <1>6, <1>7, <2>1 DEF Held, c
<1>9. BlocksHold(g, bl2, pa2)
  <2>1. ASSUME NEW q \in DOMAIN bl2
        PROVE  bl2[q] \in Nat \ {0} /\ \E d : BlockIn(g, bl2, pa2, q, d)
    <3>1. PICK d : BlockIn(h, bl, pa, q, d)
      BY <1>6 DEF AllHolds, BlocksHold
    <3>2. d \in DOMAIN g.size /\ g.size[d] = h.size[d]
      BY <1>5, <3>1 DEF BlockIn, Freed
    <3>3. BlockIn(g, bl2, pa2, q, d)
      BY <1>6, <3>1, <3>2, SameBlocks
    <3>. QED  BY <1>6, <3>3 DEF AllHolds, BlocksHold
  <2>2. \A q, r \in DOMAIN bl2 : Cell(pa2, q) = Cell(pa2, r) => q = r
    BY <1>6 DEF AllHolds, BlocksHold
  <2>. QED  BY <1>7, <2>1, <2>2 DEF BlocksHold
<1>. QED  BY <1>3, <1>5, <1>8, <1>9 DEF AllHolds, Freed, bl2, pa2

-----------------------------------------------------------------------------
(* realloc: the block stays, or moves to a new cell, or the heap is full.  *)
Moved(h, bl, pa, p, size, g) ==
  LET rest == [q \in DOMAIN bl \ {p} |-> bl[q]]
  IN  /\ g.ret # NULL /\ g.ret \notin DOMAIN rest
      /\ AllHolds(g, Put(rest, g.ret, size), pa)
      /\ g.asserted = h.asserted /\ Reused(h, g)

LEMMA ReallocHolds ==
  ASSUME NEW h, NEW bl, NEW pa, AllHolds(h, bl, pa), NEW p \in DOMAIN bl \ pa,
         NEW size \in Nat \ {0}
  PROVE  Moved(h, bl, pa, p, size, klrealloc(h, p, size)) \/ Full(h, klrealloc(h, p, size))
<1> DEFINE rest == [q \in DOMAIN bl \ {p} |-> bl[q]]
           g == klrealloc(h, p, size)
           grown == klmalloc(h, size)
<1>1. PICK b : BlockIn(h, bl, pa, p, b)
  BY DEF AllHolds, BlocksHold
<1>2. /\ b \in DOMAIN h.size /\ BinHolds(h, b) /\ p \in CellsAt(h, b) /\ bl[p] <= Capacity(h, b)
      /\ Fields(h) /\ h.brk \in Nat
  BY <1>1 DEF BlockIn, AllHolds, HeapHolds, BinsHold, Page
<1>3. p - (p % PAGE_SIZE) = b /\ p \in Nat /\ b \in Nat /\ b < p /\ Capacity(h, b) \in Nat
  BY <1>2, CellPlace
<1>4. (IF h.size[b] < BIG_BIN THEN cell_size(h.size[b]) ELSE h.size[b]) = Capacity(h, b)
  <2>1. BIG_BIN = NUM_BINS - 1 /\ NUM_BINS \in Nat /\ h.size[b] \in Nat
    BY <1>2, Sizes DEF BinHolds
  <2>2. h.size[b] < BIG_BIN <=> ~IsBig(h, b)
    BY <1>2, <2>1 DEF BinHolds, IsBig
  <2>. QED  BY <2>2 DEF Capacity
<1>5. g = IF Capacity(h, b) >= size THEN [h EXCEPT !.ret = p]
          ELSE IF grown.ret = NULL THEN grown
          ELSE [klfree(grown, p) EXCEPT !.ret = grown.ret]
  BY <1>2, <1>3, <1>4 DEF klrealloc
<1>6. Served(h, grown, Held(bl, pa), size) \/ Full(h, grown)
  BY MallocHolds DEF AllHolds
<1> HIDE DEF g, grown
<1>7. CASE Capacity(h, b) >= size
  <2> DEFINE bl2 == Put(rest, p, size)
  <2>1. g = [h EXCEPT !.ret = p]
    BY <1>5, <1>7
  <2>2. /\ Fields(g) /\ g.brk = h.brk /\ g.size = h.size /\ g.stack = h.stack /\ g.list = h.list
        /\ g.big = h.big /\ g.asserted = h.asserted /\ g.ret = p
    BY <1>2, <2>1 DEF Fields
  <2>3. /\ DOMAIN bl2 = DOMAIN bl /\ bl2[p] = size /\ bl2 = [q \in DOMAIN bl2 |-> bl2[q]]
        /\ \A q \in DOMAIN bl \ {p} : bl2[q] = bl[q]
    BY DEF Put
  <2>4. p \notin DOMAIN rest /\ p # NULL
    BY <1>3 DEF NULL
  <2> HIDE DEF rest, bl2
  <2>5. Held(bl2, pa) = Held(bl, pa)
    BY <2>3 DEF Held
  <2>6. HeapHolds(g, Held(bl2, pa))
    BY <2>2, <2>5, SameHeap DEF AllHolds
  <2>7. ASSUME NEW q \in DOMAIN bl2
        PROVE  bl2[q] \in Nat \ {0} /\ \E d : BlockIn(g, bl2, pa, q, d)
    <3>1. CASE q = p
      <4>1. CellsAt(g, b) = CellsAt(h, b) /\ Capacity(g, b) = Capacity(h, b) /\ b \in DOMAIN g.size
        BY <1>2, <2>2 DEF CellsAt, Capacity, IsBig
      <4>2. size <= Capacity(g, b)
        BY <1>3, <1>7, <4>1
      <4>. QED  BY <1>2, <2>3, <3>1, <4>1, <4>2 DEF BlockIn
    <3>2. CASE q # p
      <4>1. q \in DOMAIN bl /\ bl2[q] = bl[q] /\ (q \in pa <=> q \in pa)
        BY <2>3, <3>2
      <4>2. PICK d : BlockIn(h, bl, pa, q, d)
        BY <4>1 DEF AllHolds, BlocksHold
      <4>3. d \in DOMAIN g.size /\ g.size[d] = h.size[d]
        BY <2>2, <4>2 DEF BlockIn
      <4>4. BlockIn(g, bl2, pa, q, d)
        BY <4>1, <4>2, <4>3, SameBlocks
      <4>. QED  BY <4>1, <4>4 DEF AllHolds, BlocksHold
    <3>. QED  BY <3>1, <3>2
  <2>8. BlocksHold(g, bl2, pa)
    BY <2>3, <2>7 DEF AllHolds, BlocksHold
  <2>9. Reused(h, g)
    BY <1>2, <2>2 DEF Reused
  <2>10. AllHolds(g, Put(rest, g.ret, size), pa)
    BY <2>2, <2>6, <2>8 DEF AllHolds, bl2
  <2>. QED  BY <2>2, <2>4, <2>9, <2>10 DEF Moved, g, rest
<1>8. CASE ~(Capacity(h, b) >= size) /\ Full(h, grown)
  <2>1. grown.ret = NULL
    BY <1>8, FailHolds
  <2>. QED  BY <1>5, <1>8, <2>1 DEF g
<1>9. CASE ~(Capacity(h, b) >= size) /\ Served(h, grown, Held(bl, pa), size)
  <2> DEFINE c == grown.ret
             bl1 == Put(bl, c, size)
             freed == klfree(grown, p)
             bl2 == [q \in DOMAIN bl1 \ {p} |-> bl1[q]]
  <2>1. AllHolds(grown, bl1, pa) /\ c \notin DOMAIN bl /\ c # NULL
    BY <1>9, GiveBlock
  <2>2. g = [freed EXCEPT !.ret = c]
    BY <1>5, <1>9, <2>1
  <2>3. p \in DOMAIN bl1 /\ pa \ {p} = pa /\ c # p
    BY <2>1 DEF Put
  <2> HIDE DEF c, freed
  <2>4. /\ AllHolds(freed, bl2, pa \ {p}) /\ freed.asserted = grown.asserted
        /\ freed.brk = grown.brk /\ freed.size = grown.size
    <3> HIDE DEF bl1
    <3>. QED  BY <2>1, <2>3, TakeBlock DEF freed
  <2>5. bl2 = Put(rest, c, size)
    <3>1. DOMAIN bl1 \ {p} = DOMAIN rest \cup {c}
      BY <2>3 DEF Put
    <3>2. \A q \in DOMAIN bl1 \ {p} : bl1[q] = IF q = c THEN size ELSE rest[q]
      BY <2>1 DEF Put
    <3>. QED  BY <3>1, <3>2 DEF Put
  <2> HIDE DEF bl1, bl2
  <2>6. Fields(freed) /\ AllHolds(freed, bl2, pa)
    BY <2>3, <2>4 DEF AllHolds, HeapHolds
  <2>7. /\ Fields(g) /\ g.brk = freed.brk /\ g.size = freed.size /\ g.stack = freed.stack
        /\ g.list = freed.list /\ g.big = freed.big /\ g.asserted = freed.asserted /\ g.ret = c
    BY <2>2, <2>6 DEF Fields
  <2>8. HeapHolds(g, Held(bl2, pa))
    BY <2>6, <2>7, SameHeap DEF AllHolds
  <2>9. ASSUME NEW q \in DOMAIN bl2
        PROVE  bl2[q] \in Nat \ {0} /\ \E d : BlockIn(g, bl2, pa, q, d)
    <3>1. PICK d : BlockIn(freed, bl2, pa, q, d)
      BY <2>6 DEF AllHolds, BlocksHold
    <3>2. d \in DOMAIN g.size /\ g.size[d] = freed.size[d]
      BY <2>7, <3>1 DEF BlockIn
    <3>3. bl2[q] = bl2[q] /\ (q \in pa <=> q \in pa)
      OBVIOUS
    <3>4. BlockIn(g, bl2, pa, q, d)
      BY <3>1, <3>2, <3>3, SameBlocks
    <3>. QED  BY <2>6, <3>4 DEF AllHolds, BlocksHold
  <2>10. BlocksHold(g, bl2, pa)
    BY <2>6, <2>9 DEF AllHolds, BlocksHold
  <2>11. grown.asserted = h.asserted /\ Reused(h, grown)
    BY <1>9 DEF Served, Goes
  <2>12. Reused(h, g)
    BY <2>4, <2>7, <2>11 DEF Reused
  <2>13. c \notin DOMAIN rest
    BY <2>1
  <2>. QED  BY <2>1, <2>4, <2>5, <2>7, <2>8, <2>10, <2>11, <2>12, <2>13 DEF Moved, AllHolds, g, rest
<1>. QED  BY <1>6, <1>7, <1>8, <1>9

-----------------------------------------------------------------------------
(* Blocks lie in the heap, apart from each other and from the headers.     *)
LEMMA BlockBytes ==
  ASSUME NEW h, NEW bl, NEW pa, AllHolds(h, bl, pa), NEW p \in DOMAIN bl
  PROVE  /\ p \in Nat /\ bl[p] \in Nat \ {0}
         /\ heap_start <= p /\ p + bl[p] <= h.brk /\ h.brk <= heap_start + heap_size
         /\ h.brk \in Nat /\ p # NULL
         /\ \A q \in DOMAIN bl : p # q => p + bl[p] <= q \/ q + bl[q] <= p
         /\ \A bin \in DOMAIN h.size :
              \/ p + bl[p] <= bin
              \/ bin + (IF IsBig(h, bin) THEN big_bin_header ELSE bin_header) <= p
<1>0. /\ heap_start \in Nat /\ heap_size \in Nat /\ h.brk \in Nat /\ h.brk <= heap_start + heap_size
      /\ PAGE_SIZE \in Nat \ {0} /\ big_bin_header \in Nat /\ bin_header \in Nat
      /\ bin_header <= PAGE_SIZE
  <2>1. BIG_BIN \in Nat \ {0}
    BY Sizes
  <2>2. 0 \in 0 .. BIG_BIN - 1
    BY <2>1
  <2>3. bin_header + cell_size(0) <= PAGE_SIZE /\ cell_size(0) \in Nat
    BY <2>2, Sizes
  <2>4. bin_header \in Nat /\ PAGE_SIZE \in Nat
    BY Sizes
  <2>5. bin_header <= PAGE_SIZE
    BY <2>3, <2>4
  <2>. QED  BY <2>5, Sizes DEF AllHolds, HeapHolds, BinsHold, Page
<1>1. ASSUME NEW q \in DOMAIN bl, NEW d, BlockIn(h, bl, pa, q, d)
      PROVE  /\ d \in DOMAIN h.size /\ BinHolds(h, d) /\ bl[q] \in Nat \ {0}
             /\ q \in Nat /\ d \in Nat /\ d < q /\ q # NULL /\ q + bl[q] <= EndOf(h, d)
             /\ Cell(pa, q) \in CellsAt(h, d) /\ (IsBig(h, d) \/ q = Cell(pa, q))
             /\ d + (IF IsBig(h, d) THEN big_bin_header ELSE bin_header) <= q
  <2>1. d \in DOMAIN h.size /\ BinHolds(h, d) /\ bl[q] \in Nat \ {0} /\ d \in Nat
    BY <1>1 DEF BlockIn, AllHolds, BlocksHold, HeapHolds, BinsHold, BinHolds, Page
  <2>. QED  BY <1>1, <2>1, BlockPlace
<1>2. PICK b : BlockIn(h, bl, pa, p, b)
  BY DEF AllHolds, BlocksHold
<1>3. ASSUME NEW d \in DOMAIN h.size
      PROVE  /\ EndOf(h, d) \in Nat /\ d \in Nat /\ EndOf(h, d) <= h.brk /\ heap_start <= d
             /\ d + (IF IsBig(h, d) THEN big_bin_header ELSE bin_header) <= EndOf(h, d)
             /\ \A e \in DOMAIN h.size : d < e => EndOf(h, d) <= e
  <2>1. BinHolds(h, d) /\ d \in Nat /\ h.size[d] \in Nat
    BY DEF AllHolds, HeapHolds, BinsHold, BinHolds, Page
  <2>2. /\ EndOf(h, d) \in Nat
        /\ d + (IF IsBig(h, d) THEN big_bin_header ELSE bin_header) <= EndOf(h, d)
    BY <1>0, <2>1 DEF EndOf
  <2>. QED  BY <2>1, <2>2 DEF AllHolds, HeapHolds, BinsHold, BinHolds
<1>4. /\ b \in DOMAIN h.size /\ b \in Nat /\ EndOf(h, b) \in Nat /\ EndOf(h, b) <= h.brk
      /\ heap_start <= b /\ p \in Nat /\ bl[p] \in Nat \ {0} /\ b < p /\ p # NULL
      /\ p + bl[p] <= EndOf(h, b)
  BY <1>1, <1>2, <1>3
<1> DEFINE n == bl[p]
<1>5. n \in Nat \ {0} /\ p + n <= EndOf(h, b)
  BY <1>4
<1> HIDE DEF n
<1>6. heap_start <= p /\ p + n <= h.brk
  BY <1>0, <1>4, <1>5
<1>7. ASSUME NEW q \in DOMAIN bl, p # q PROVE p + n <= q \/ q + bl[q] <= p
  <2>1. PICK d : BlockIn(h, bl, pa, q, d)
    BY DEF AllHolds, BlocksHold
  <2> DEFINE m == bl[q]
  <2>2. /\ d \in DOMAIN h.size /\ d \in Nat /\ q \in Nat /\ m \in Nat /\ d < q
        /\ q + m <= EndOf(h, d) /\ EndOf(h, d) \in Nat
    BY <1>1, <1>3, <2>1
  <2> HIDE DEF m
  <2>3. CASE b < d
    <3>1. EndOf(h, b) <= d
      BY <1>3, <1>4, <2>2, <2>3
    <3>. QED  BY <1>4, <1>5, <2>2, <3>1
  <2>4. CASE d < b
    <3>1. EndOf(h, d) <= b
      BY <1>3, <1>4, <2>2, <2>4
    <3>. QED  BY <1>4, <1>5, <2>2, <3>1 DEF m
  <2>5. CASE b = d
    <3>1. Cell(pa, p) \in CellsAt(h, b) /\ Cell(pa, q) \in CellsAt(h, b) /\ Cell(pa, p) # Cell(pa, q)
      BY <1>1, <1>2, <1>7, <2>1, <2>5 DEF AllHolds, BlocksHold
    <3>2. ~IsBig(h, b)
      BY <3>1 DEF CellsAt
    <3>3. p \notin pa /\ q \notin pa
      BY <1>2, <2>1, <2>5, <3>2 DEF BlockIn
    <3>4. p \in CellsAt(h, b) /\ q \in CellsAt(h, b) /\ n <= Capacity(h, b) /\ m <= Capacity(h, b)
      BY <1>2, <2>1, <2>5, <3>3 DEF BlockIn, n, m
    <3>5. BinHolds(h, b) /\ Capacity(h, b) \in Nat
      BY <1>1, <1>2, <3>4, CellPlace
    <3>6. p < q => p + Capacity(h, b) <= q
      BY <3>4, <3>5, CellsApart
    <3>7. q < p => q + Capacity(h, b) <= p
      BY <3>4, <3>5, CellsApart
    <3>8. p < q \/ q < p
      BY <1>4, <1>7, <2>2
    <3> DEFINE r == Capacity(h, b)
    <3>9. r \in Nat /\ n <= r /\ m <= r /\ (p < q => p + r <= q) /\ (q < p => q + r <= p)
      BY <3>4, <3>5, <3>6, <3>7
    <3> HIDE DEF r
    <3>10. p + n <= q \/ q + m <= p
      BY <1>4, <1>5, <2>2, <3>8, <3>9
    <3>. QED  BY <3>10 DEF m
  <2>. QED  BY <1>4, <2>2, <2>3, <2>4, <2>5
<1>8. ASSUME NEW bin \in DOMAIN h.size
      PROVE  \/ p + n <= bin
             \/ bin + (IF IsBig(h, bin) THEN big_bin_header ELSE bin_header) <= p
  <2> DEFINE head == bin + (IF IsBig(h, bin) THEN big_bin_header ELSE bin_header)
  <2>1. /\ bin \in Nat /\ head \in Nat /\ head <= EndOf(h, bin) /\ EndOf(h, bin) \in Nat
        /\ (bin = b => head <= p)
    <3>1. b + (IF IsBig(h, b) THEN big_bin_header ELSE bin_header) <= p
      BY <1>1, <1>2
    <3>. QED  BY <1>0, <1>3, <3>1
  <2> HIDE DEF head
  <2>2. CASE b < bin
    <3>1. EndOf(h, b) <= bin
      BY <1>3, <1>4, <2>2
    <3>. QED  BY <1>4, <1>5, <2>1, <3>1
  <2>3. CASE bin < b
    <3>1. EndOf(h, bin) <= b
      BY <1>3, <1>4, <2>3
    <3>2. head <= p
      BY <1>4, <2>1, <3>1
    <3>. QED  BY <3>2 DEF head
  <2>4. CASE bin = b
    BY <2>1, <2>4 DEF head
  <2>. QED  BY <1>4, <2>1, <2>2, <2>3, <2>4
<1>. QED  BY <1>0, <1>4, <1>6, <1>7, <1>8 DEF n

-----------------------------------------------------------------------------
(* The inductive invariant.                                                *)
IInv == AllHolds(heap, blocks, page_aligned) /\ heap.asserted \in {"no", "heap full"}

LEMMA InitHolds == Init => IInv
<1> SUFFICES ASSUME Init PROVE IInv
  OBVIOUS
<1> DEFINE none == [b \in {} |-> 0]
           h == heap
<1>1. /\ h.brk = heap_start /\ h.size = none /\ h.stack = [b \in {} |-> <<>>]
      /\ h.list = [id \in 0 .. BIG_BIN - 1 |-> <<>>] /\ h.big = <<>> /\ h.asserted = "no"
      /\ Fields(h)
  BY DEF Init, Fields
<1>2. DOMAIN h.size = {} /\ DOMAIN h.stack = {} /\ blocks = none /\ page_aligned = {}
  BY <1>1 DEF Init
<1> HIDE DEF none, h
<1>3. DOMAIN blocks = {} /\ blocks = [p \in DOMAIN blocks |-> blocks[p]]
  BY <1>2 DEF none
<1>4. Held(blocks, page_aligned) = {}
  BY <1>3 DEF Held
<1>5. BinsHold(h)
  BY <1>1, <1>2, Sizes DEF BinsHold, Page
<1>6. StacksHold(h, {})
  BY <1>2 DEF StacksHold
<1>7. ListsHold(h)
  <2>1. \A S : <<>> \in Seq(S) /\ IsInjective(<<>>) /\ ToSet(<<>>) = {} /\ DOMAIN <<>> = {}
    BY DEF IsInjective, ToSet
  <2>. QED  BY <1>1, <1>2, <2>1 DEF ListsHold, Sorted
<1>8. BlocksHold(h, blocks, page_aligned)
  BY <1>2, <1>3 DEF BlocksHold
<1>. QED  BY <1>1, <1>4, <1>5, <1>6, <1>7, <1>8 DEF IInv, AllHolds, HeapHolds, h

(* What each operation does to the heap and to the blocks.                 *)
Gives(p, size) ==
  /\ p \notin DOMAIN blocks /\ blocks' = Put(blocks, p, size)
  /\ page_aligned' \in {page_aligned, page_aligned \cup {p}}
  /\ AllHolds(heap', blocks', page_aligned') /\ heap'.asserted = heap.asserted
  /\ Reused(heap, heap')

Stays ==
  /\ blocks' = blocks /\ page_aligned' = page_aligned
  /\ AllHolds(heap', blocks', page_aligned')
  /\ heap'.asserted \in {heap.asserted, "heap full"} /\ heap'.brk = heap.brk

LEMMA MallocStep ==
  ASSUME IInv, NEW size \in Requests, malloc(size)
  PROVE  (\E p : Gives(p, size)) \/ Stays
<1>1. AllHolds(heap, blocks, page_aligned) /\ size \in Nat \ {0}
  BY Sizes DEF IInv
<1> DEFINE g == klmalloc(heap, size)
<1>2. Served(heap, g, Held(blocks, page_aligned), size) \/ Full(heap, g)
  BY <1>1, MallocHolds DEF AllHolds
<1>3. /\ heap' = g /\ page_aligned' = page_aligned
      /\ blocks' = IF g.ret = NULL THEN blocks ELSE Put(blocks, g.ret, size)
  BY DEF malloc
<1> HIDE DEF g
<1>4. CASE Served(heap, g, Held(blocks, page_aligned), size)
  <2>1. /\ AllHolds(g, Put(blocks, g.ret, size), page_aligned) /\ g.ret \notin DOMAIN blocks
        /\ g.ret # NULL
    BY <1>1, <1>4, GiveBlock
  <2>2. g.asserted = heap.asserted /\ Reused(heap, g)
    BY <1>4 DEF Served, Goes
  <2>3. blocks' = Put(blocks, g.ret, size)
    BY <1>3, <2>1
  <2>4. Gives(g.ret, size)
    BY <1>3, <2>1, <2>2, <2>3 DEF Gives
  <2>. QED  BY <2>4
<1>5. CASE Full(heap, g)
  <2>1. AllHolds(g, blocks, page_aligned) /\ g.asserted = "heap full" /\ g.ret = NULL /\ g.brk = heap.brk
    BY <1>1, <1>5, FailHolds
  <2>. QED  BY <1>3, <2>1 DEF Stays
<1>. QED  BY <1>2, <1>4, <1>5

LEMMA VallocStep ==
  ASSUME IInv, NEW size \in Requests, valloc(size)
  PROVE  (\E p : Gives(p, size)) \/ Stays
<1> DEFINE n == size + PAGE_SIZE - big_bin_header
           g == klmalloc(heap, n)
           out == g.ret + PAGE_SIZE - big_bin_header
<1>1. AllHolds(heap, blocks, page_aligned) /\ size \in Nat \ {0}
  BY Sizes DEF IInv
<1>2. n \in Nat \ {0} /\ klmalloc_bin_size(n) = BIG_BIN
  <2>1. n \in Nat /\ n + big_bin_header >= PAGE_SIZE
    BY <1>1, Sizes
  <2> HIDE DEF n
  <2>2. n > 0 /\ klmalloc_bin_size(n) = BIG_BIN
    BY <2>1, BigSize
  <2>. QED  BY <2>1, <2>2
<1>3. /\ heap' = g
      /\ IF g.ret = NULL THEN UNCHANGED <<blocks, page_aligned>>
         ELSE blocks' = Put(blocks, out, size) /\ page_aligned' = page_aligned \cup {out}
  BY DEF valloc
<1>4. ServedBig(heap, g, Held(blocks, page_aligned), n) \/ Full(heap, g)
  <2> HIDE DEF n
  <2>. QED  BY <1>1, <1>2, MallocHolds DEF AllHolds
<1> HIDE DEF g
<1>5. CASE ServedBig(heap, g, Held(blocks, page_aligned), n)
  <2>1. /\ AllHolds(g, Put(blocks, out, size), page_aligned \cup {out}) /\ out \notin DOMAIN blocks
        /\ g.ret # NULL
    BY <1>1, <1>5, GiveAligned
  <2>2. g.asserted = heap.asserted /\ Reused(heap, g)
    BY <1>5 DEF ServedBig, Goes
  <2> HIDE DEF out
  <2>3. Gives(out, size)
    BY <1>3, <2>1, <2>2 DEF Gives
  <2>. QED  BY <2>3
<1>6. CASE Full(heap, g)
  <2>1. AllHolds(g, blocks, page_aligned) /\ g.asserted = "heap full" /\ g.ret = NULL /\ g.brk = heap.brk
    BY <1>1, <1>6, FailHolds
  <2>. QED  BY <1>3, <2>1 DEF Stays
<1>. QED  BY <1>4, <1>5, <1>6

(* A request for no bytes.                                                 *)
LEMMA ZeroStep ==
  ASSUME IInv, malloc(0)
  PROVE  Stays
<1>1. heap' = [heap EXCEPT !.ret = NULL]
  BY DEF malloc, klmalloc
<1>2. AllHolds(heap, blocks, page_aligned) /\ Fields(heap)
  BY DEF IInv, AllHolds, HeapHolds
<1> DEFINE g == heap'
<1>3. /\ Fields(g) /\ g.brk = heap.brk /\ g.size = heap.size /\ g.stack = heap.stack
      /\ g.list = heap.list /\ g.big = heap.big /\ g.asserted = heap.asserted /\ g.ret = NULL
  BY <1>1, <1>2 DEF Fields
<1>4. blocks' = blocks /\ page_aligned' = page_aligned
  BY <1>3 DEF malloc
<1> HIDE DEF g
<1>5. HeapHolds(g, Held(blocks, page_aligned))
  BY <1>2, <1>3, SameHeap DEF AllHolds
<1>6. BlocksHold(g, blocks, page_aligned)
  <2>1. ASSUME NEW p \in DOMAIN blocks
        PROVE  blocks[p] \in Nat \ {0} /\ \E b : BlockIn(g, blocks, page_aligned, p, b)
    <3>1. PICK b : BlockIn(heap, blocks, page_aligned, p, b)
      BY <1>2 DEF AllHolds, BlocksHold
    <3>2. b \in DOMAIN g.size /\ g.size[b] = heap.size[b]
      BY <1>3, <3>1 DEF BlockIn
    <3>3. blocks[p] = blocks[p] /\ (p \in page_aligned <=> p \in page_aligned)
      OBVIOUS
    <3>4. BlockIn(g, blocks, page_aligned, p, b)
      BY <3>1, <3>2, <3>3, SameBlocks
    <3>. QED  BY <1>2, <3>4 DEF AllHolds, BlocksHold
  <2>. QED  BY <1>2, <2>1 DEF AllHolds, BlocksHold
<1>. QED  BY <1>3, <1>4, <1>5, <1>6 DEF Stays, AllHolds, g

(* A block is given back.                                                  *)
Takes(p) ==
  /\ p \in DOMAIN blocks /\ blocks' = [q \in DOMAIN blocks \ {p} |-> blocks[q]]
  /\ AllHolds(heap', blocks', page_aligned')
  /\ heap'.asserted = heap.asserted /\ heap'.brk = heap.brk

LEMMA FreeStep ==
  ASSUME IInv, NEW ptr \in DOMAIN blocks \cup {NULL}, free(ptr)
  PROVE  Takes(ptr) \/ Stays
<1>1. AllHolds(heap, blocks, page_aligned)
  BY DEF IInv
<1>2. NULL \notin DOMAIN blocks
  BY <1>1, BlockBytes
<1>3. CASE ptr \in DOMAIN blocks
  <2> DEFINE g == klfree(heap, ptr)
  <2>1. /\ AllHolds(g, [q \in DOMAIN blocks \ {ptr} |-> blocks[q]], page_aligned \ {ptr})
        /\ g.asserted = heap.asserted /\ g.brk = heap.brk
    BY <1>1, <1>3, TakeBlock
  <2>. QED  BY <1>3, <2>1 DEF Takes, free, Without
<1>4. CASE ptr = NULL
  <2>1. heap' = heap
    BY <1>4 DEF free, klfree
  <2>2. DOMAIN blocks \ {NULL} = DOMAIN blocks /\ page_aligned \ {NULL} = page_aligned
        /\ blocks = [q \in DOMAIN blocks |-> blocks[q]]
    BY <1>1, <1>2 DEF AllHolds, BlocksHold
  <2>3. blocks' = blocks /\ page_aligned' = page_aligned
    BY <1>4, <2>2 DEF free, Without
  <2>. QED  BY <1>1, <2>1, <2>3 DEF Stays
<1>. QED  BY <1>3, <1>4

(* A block is given back for another.                                      *)
Swaps(ptr, p, size) ==
  LET rest == [q \in DOMAIN blocks \ {ptr} |-> blocks[q]]
  IN  /\ ptr \in DOMAIN blocks /\ p \notin DOMAIN rest /\ blocks' = Put(rest, p, size)
      /\ AllHolds(heap', blocks', page_aligned') /\ heap'.asserted = heap.asserted
      /\ Reused(heap, heap')

LEMMA ReallocStep ==
  ASSUME IInv, NEW size \in Requests, NEW ptr \in DOMAIN blocks \ page_aligned,
         realloc(ptr, size)
  PROVE  (\E p : Swaps(ptr, p, size)) \/ Stays
<1>1. AllHolds(heap, blocks, page_aligned) /\ size \in Nat \ {0}
  BY Sizes DEF IInv
<1> DEFINE g == klrealloc(heap, ptr, size)
           rest == [q \in DOMAIN blocks \ {ptr} |-> blocks[q]]
<1>2. Moved(heap, blocks, page_aligned, ptr, size, g) \/ Full(heap, g)
  BY <1>1, ReallocHolds
<1>3. /\ heap' = g /\ page_aligned' = page_aligned
      /\ blocks' = IF g.ret = NULL THEN blocks ELSE Put(rest, g.ret, size)
  BY DEF realloc, Without
<1> HIDE DEF g
<1>4. CASE Moved(heap, blocks, page_aligned, ptr, size, g)
  <2>1. /\ g.ret # NULL /\ g.ret \notin DOMAIN rest
        /\ AllHolds(g, Put(rest, g.ret, size), page_aligned)
        /\ g.asserted = heap.asserted /\ Reused(heap, g)
    BY <1>4 DEF Moved
  <2> HIDE DEF rest
  <2>2. blocks' = Put(rest, g.ret, size)
    BY <1>3, <2>1
  <2>3. Swaps(ptr, g.ret, size)
    BY <1>3, <2>1, <2>2 DEF Swaps, rest
  <2>. QED  BY <2>3
<1>5. CASE Full(heap, g)
  <2>1. AllHolds(g, blocks, page_aligned) /\ g.asserted = "heap full" /\ g.ret = NULL /\ g.brk = heap.brk
    BY <1>1, <1>5, FailHolds
  <2>. QED  BY <1>3, <2>1 DEF Stays
<1>. QED  BY <1>2, <1>4, <1>5

LEMMA StepIs ==
  ASSUME IInv, Next
  PROVE  \/ \E size \in Requests : \/ \E p : Gives(p, size)
                                   \/ \E ptr \in DOMAIN blocks : \E p : Swaps(ptr, p, size)
         \/ \E ptr \in DOMAIN blocks : Takes(ptr)
         \/ Stays
<1>1. CASE \E size \in Requests : malloc(size)
  BY <1>1, MallocStep
<1>2. CASE \E size \in Requests : valloc(size)
  BY <1>2, VallocStep
<1>3. CASE \E size \in Requests : \E ptr \in DOMAIN blocks \ page_aligned : realloc(ptr, size)
  <2>1. PICK size \in Requests, ptr \in DOMAIN blocks \ page_aligned : realloc(ptr, size)
    BY <1>3
  <2>2. (\E p : Swaps(ptr, p, size)) \/ Stays
    BY <2>1, ReallocStep
  <2>. QED  BY <2>2
<1>4. CASE malloc(0)
  BY <1>4, ZeroStep
<1>5. CASE \E ptr \in DOMAIN blocks \cup {NULL} : free(ptr)
  <2>1. PICK ptr \in DOMAIN blocks \cup {NULL} : free(ptr)
    BY <1>5
  <2>2. Takes(ptr) \/ Stays
    BY <2>1, FreeStep
  <2>. QED  BY <2>2 DEF Takes
<1>. QED  BY <1>1, <1>2, <1>3, <1>4, <1>5 DEF Next

LEMMA NextHolds == IInv /\ [Next]_vars => IInv'
<1> SUFFICES ASSUME IInv, [Next]_vars PROVE IInv'
  OBVIOUS
<1>1. CASE Next
  <2>1. heap.asserted \in {"no", "heap full"}
    BY DEF IInv
  <2>2. AllHolds(heap', blocks', page_aligned') /\ heap'.asserted \in {"no", "heap full"}
    BY <1>1, <2>1, StepIs DEF Gives, Swaps, Takes, Stays
  <2>. QED  BY <2>2 DEF IInv
<1>2. CASE UNCHANGED vars
  BY <1>2 DEF vars, IInv
<1>. QED  BY <1>1, <1>2

(* The invariant of all operations: bins, stacks and lists agree with the   *)
(* blocks that callers hold, after any sequence of calls.                  *)
THEOREM Invariant == Spec => []IInv
  BY InitHolds, NextHolds, PTL DEF Spec

-----------------------------------------------------------------------------
(* The cells that callers hold in a bin.                                   *)
LEMMA HeldInBin ==
  ASSUME IInv, NEW bin \in Bins
  PROVE  {CellAt(p) : p \in {q \in DOMAIN blocks : header_of(q) = bin}}
           = CellsAt(heap, bin) \cap Held(blocks, page_aligned)
<1>1. \A p : CellAt(p) = Cell(page_aligned, p)
  BY DEF CellAt, Cell
<1>2. ASSUME NEW p \in DOMAIN blocks
      PROVE  header_of(p) = bin <=> Cell(page_aligned, p) \in CellsAt(heap, bin)
  <2>1. PICK b : BlockIn(heap, blocks, page_aligned, p, b)
    BY DEF IInv, AllHolds, BlocksHold
  <2>2. b \in DOMAIN heap.size /\ BinHolds(heap, b) /\ BinsHold(heap) /\ blocks[p] \in Nat \ {0}
    BY <2>1 DEF IInv, AllHolds, BlocksHold, HeapHolds, BinsHold, BlockIn
  <2>3. header_of(p) = b /\ Cell(page_aligned, p) \in CellsAt(heap, b)
    BY <2>1, <2>2, BlockPlace
  <2>. QED  BY <2>2, <2>3, OneBin DEF Bins
<1>. QED  BY <1>1, <1>2 DEF Held

LEMMA TypesHold == IInv => TypeOK
<1> SUFFICES ASSUME IInv PROVE TypeOK
  OBVIOUS
<1>1. AllHolds(heap, blocks, page_aligned) /\ BinsHold(heap) /\ ListsHold(heap)
  BY DEF IInv, AllHolds, HeapHolds
<1>2. /\ heap_start \in Nat /\ heap_size \in Nat /\ NUM_BINS \in Nat /\ big_bin_header \in Nat
      /\ PAGE_SIZE \in Nat \ {0}
  BY Sizes
<1>3. heap.brk \in heap_start .. heap_start + heap_size
  BY <1>1, <1>2 DEF BinsHold, Page
<1>4. ASSUME NEW b \in Bins PROVE b \in heap_start .. heap.brk - 1 /\ b % PAGE_SIZE = 0
  <2>1. Page(b) /\ heap_start <= b /\ EndOf(heap, b) <= heap.brk /\ heap.size[b] \in Nat
    BY <1>1 DEF BinsHold, BinHolds, Bins
  <2>2. b \in Nat /\ b < EndOf(heap, b) /\ EndOf(heap, b) \in Nat /\ heap.brk \in Nat
    BY <1>1, <1>2, <2>1 DEF EndOf, IsBig, Page, BinsHold
  <2>. QED  BY <1>2, <2>1, <2>2 DEF Page
<1>5. DOMAIN heap.stack = Bins
  BY <1>1 DEF BinsHold, Bins
<1>6. \A id \in DOMAIN heap.list : ToSet(heap.list[id]) \subseteq Bins
  BY <1>1 DEF ListsHold, Bins
<1>7. ToSet(heap.big) \subseteq Bins
  BY <1>1 DEF ListsHold, Bins
<1>8. ASSUME NEW p \in DOMAIN blocks PROVE p \in heap_start .. heap.brk - 1
  <2>1. /\ p \in Nat /\ blocks[p] \in Nat \ {0} /\ heap_start <= p /\ p + blocks[p] <= heap.brk
        /\ heap.brk \in Nat
    BY <1>1, BlockBytes
  <2> DEFINE n == blocks[p]
  <2>2. n \in Nat \ {0} /\ p + n <= heap.brk
    BY <2>1
  <2> HIDE DEF n
  <2>. QED  BY <1>2, <2>1, <2>2
<1>9. heap.asserted \in {"no", "assert", "heap full"} /\ page_aligned \subseteq DOMAIN blocks
  BY DEF IInv, AllHolds, BlocksHold
<1>. QED  BY <1>3, <1>4, <1>5, <1>6, <1>7, <1>8, <1>9 DEF TypeOK

(* A cell is free once or held by one caller, after any calls: klmalloc,   *)
(* klfree, valloc and klrealloc lose none and give none twice.             *)
THEOREM CellsAccounted == Spec => []CellsAreAccounted
<1>1. IInv => CellsAreAccounted
  <2> SUFFICES ASSUME IInv PROVE CellsAreAccounted
    OBVIOUS
  <2>1. ASSUME NEW bin \in Bins
        PROVE  LET free_cells == ToSet(heap.stack[bin])
                   held == {CellAt(p) : p \in {q \in DOMAIN blocks : header_of(q) = bin}}
               IN  /\ Cardinality(free_cells) = Len(heap.stack[bin])
                   /\ free_cells \cap held = {}
                   /\ free_cells \cup held = CellsOf(bin)
    <3>1. /\ heap.stack[bin] \in Seq(Nat) /\ IsInjective(heap.stack[bin])
          /\ ToSet(heap.stack[bin]) = CellsAt(heap, bin) \ Held(blocks, page_aligned)
      BY DEF IInv, AllHolds, HeapHolds, StacksHold, Bins
    <3>2. Cardinality(ToSet(heap.stack[bin])) = Len(heap.stack[bin])
      BY <3>1, CountSeq
    <3>3. CellsOf(bin) = CellsAt(heap, bin)
      BY DEF CellsOf, CellsAt
    <3>. QED  BY <3>1, <3>2, <3>3, HeldInBin
  <2>. QED  BY <2>1, TypesHold DEF CellsAreAccounted
<1>. QED  BY <1>1, Invariant, PTL

(* A bin is in the list of its size exactly while it has a free cell, the  *)
(* free big bins are in order of size.                                     *)
THEOREM ListsHoldRoom == Spec => []ListsHoldBinsWithRoom
<1>1. IInv => ListsHoldBinsWithRoom
  BY DEF IInv, AllHolds, HeapHolds, ListsHold, Sorted, ListsHoldBinsWithRoom, Bins
<1>. QED  BY <1>1, Invariant, PTL

(* No block reaches into the header of a bin.                              *)
THEOREM HeadersSpared == Spec => []BlocksSpareHeaders
<1>1. IInv => BlocksSpareHeaders
  <2> SUFFICES ASSUME IInv, NEW p \in DOMAIN blocks, NEW bin \in Bins
               PROVE  Bytes(p) \cap Header(bin) = {}
    BY DEF BlocksSpareHeaders
  <2> DEFINE n == blocks[p]
             head == IF IsBig(heap, bin) THEN big_bin_header ELSE bin_header
  <2>1. p \in Nat /\ n \in Nat /\ (p + n <= bin \/ bin + head <= p)
    BY BlockBytes DEF IInv, Bins
  <2>2. bin \in Nat /\ head \in Nat
    BY Sizes DEF IInv, AllHolds, HeapHolds, BinsHold, BinHolds, Page, Bins
  <2>3. Bytes(p) = p .. p + n - 1 /\ Header(bin) = bin .. bin + head - 1
    BY DEF Bytes, Header
  <2> HIDE DEF n, head
  <2>. QED  BY <2>1, <2>2, <2>3
<1>. QED  BY <1>1, Invariant, PTL

(* The assertions of alloc.c hold.                                         *)
THEOREM NoAssertFails == Spec => []AssertsHold
<1>1. IInv => AssertsHold
  BY DEF IInv, AssertsHold
<1>. QED  BY <1>1, Invariant, PTL

(* The heap grows only when no free cell would have done.                  *)
THEOREM MemoryIsReused == Spec => FreedMemoryIsReused
<1> DEFINE A == heap'.brk > heap.brk =>
                  \A bin \in Bins : heap.stack[bin] # <<>> =>
                    LET new == heap'.size[heap.brk]
                    IN  IF new < BIG_BIN THEN heap.size[bin] # new
                        ELSE IsBig(heap, bin) => heap.size[bin] < new
<1>1. IInv /\ [Next]_vars => [A]_vars
  <2> SUFFICES ASSUME IInv, Next PROVE A
    OBVIOUS
  <2>1. Reused(heap, heap') => A
    BY DEF Reused, Bins
  <2>2. heap'.brk = heap.brk => A
    <3>1. heap.brk \in Nat
      BY DEF IInv, AllHolds, HeapHolds, BinsHold, Page
    <3>2. heap'.brk = heap.brk => ~(heap'.brk > heap.brk)
      BY <3>1
    <3>. QED  BY <3>2
  <2> HIDE DEF A
  <2>3. Reused(heap, heap') \/ heap'.brk = heap.brk
    BY StepIs DEF Gives, Swaps, Takes, Stays
  <2>. QED  BY <2>1, <2>2, <2>3
<1>. QED  BY <1>1, Invariant, PTL DEF Spec, FreedMemoryIsReused

-----------------------------------------------------------------------------
(* A block of the state lies in the heap and apart from every other.       *)
LEMMA BlockIsApart ==
  ASSUME NEW h, NEW bl, NEW pa, AllHolds(h, bl, pa), NEW p \in DOMAIN bl
  PROVE  /\ bl[p] > 0
         /\ Abstract!Bytes(p, bl[p]) \subseteq heap_start .. heap_start + heap_size - 1
         /\ \A q \in DOMAIN bl : p # q => Abstract!Bytes(p, bl[p]) \cap Abstract!Bytes(q, bl[q]) = {}
<1> DEFINE n == bl[p]
<1>1. /\ p \in Nat /\ n \in Nat \ {0} /\ heap_start <= p /\ p + n <= h.brk
      /\ h.brk <= heap_start + heap_size /\ h.brk \in Nat
      /\ \A q \in DOMAIN bl : p # q => p + n <= q \/ q + bl[q] <= p
  BY BlockBytes
<1>2. heap_start \in Nat /\ heap_size \in Nat
  BY Sizes
<1>3. Abstract!Bytes(p, bl[p]) = p .. p + n - 1
  BY DEF Abstract!Bytes
<1> HIDE DEF n
<1>4. n > 0 /\ p .. p + n - 1 \subseteq heap_start .. heap_start + heap_size - 1
  BY <1>1, <1>2
<1>5. ASSUME NEW q \in DOMAIN bl, p # q
      PROVE  Abstract!Bytes(p, bl[p]) \cap Abstract!Bytes(q, bl[q]) = {}
  <2> DEFINE m == bl[q]
  <2>1. q \in Nat /\ m \in Nat /\ (p + n <= q \/ q + m <= p)
    BY <1>1, <1>5, BlockBytes
  <2>2. Abstract!Bytes(q, bl[q]) = q .. q + m - 1
    BY DEF Abstract!Bytes
  <2> HIDE DEF m
  <2>. QED  BY <1>1, <1>3, <2>1, <2>2
<1>. QED  BY <1>3, <1>4, <1>5 DEF n

LEMMA StepReplaces ==
  ASSUME NEW Out, NEW rest, rest = [q \in DOMAIN blocks \ Out |-> blocks[q]],
         NEW p, p \notin DOMAIN rest, NEW size, blocks' = Put(rest, p, size),
         AllHolds(heap', blocks', page_aligned')
  PROVE  Abstract!Replace(Out)
<1>1. /\ DOMAIN blocks' = (DOMAIN blocks \ Out) \cup {p} /\ p \notin DOMAIN blocks \ Out
      /\ \A c \in DOMAIN blocks \ Out : blocks'[c] = blocks[c]
  BY DEF Put
<1>2. p \in DOMAIN blocks'
  BY <1>1
<1> DEFINE bl == blocks'
<1>3. /\ bl[p] > 0
      /\ Abstract!Bytes(p, bl[p]) \subseteq heap_start .. heap_start + heap_size - 1
      /\ \A q \in DOMAIN bl : p # q => Abstract!Bytes(p, bl[p]) \cap Abstract!Bytes(q, bl[q]) = {}
  <2> HIDE DEF bl
  <2>1. p \in DOMAIN bl /\ AllHolds(heap', bl, page_aligned')
    BY <1>2 DEF bl
  <2>. QED  BY <2>1, BlockIsApart
<1>4. \A c \in DOMAIN blocks \ Out :
        Abstract!Bytes(p, blocks'[p]) \cap Abstract!Bytes(c, blocks[c]) = {}
  BY <1>1, <1>3
<1>. QED  BY <1>1, <1>2, <1>3, <1>4 DEF Abstract!Replace

(* malloc, calloc, valloc, realloc and free keep what Heap promises.       *)
THEOREM HeapRefined == Spec => ImplementsHeap
<1>1. Init => Abstract!Init
  BY DEF Init, Abstract!Init, Abstract!Empty
<1>2. IInv /\ IInv' /\ [Next]_vars => [Abstract!Next]_blocks
  <2> SUFFICES ASSUME IInv, Next PROVE [Abstract!Next]_blocks
    BY DEF vars
  <2>1. ASSUME NEW size \in Requests, NEW p, Gives(p, size) PROVE Abstract!Next
    <3>1. blocks = [q \in DOMAIN blocks \ {} |-> blocks[q]]
      BY DEF IInv, AllHolds, BlocksHold
    <3>2. Abstract!Replace({})
      BY <2>1, <3>1, StepReplaces DEF Gives
    <3>. QED  BY <3>2 DEF Abstract!Next, Abstract!Alloc
  <2>2. ASSUME NEW size \in Requests, NEW ptr \in DOMAIN blocks, NEW p, Swaps(ptr, p, size)
        PROVE  Abstract!Next
    <3>1. Abstract!Replace({ptr})
      BY <2>2, StepReplaces DEF Swaps
    <3>. QED  BY <3>1 DEF Abstract!Next, Abstract!Realloc
  <2>3. ASSUME NEW ptr \in DOMAIN blocks, Takes(ptr) PROVE Abstract!Next
    BY <2>3 DEF Takes, Abstract!Next, Abstract!Free
  <2>4. ASSUME Stays PROVE UNCHANGED blocks
    BY <2>4 DEF Stays
  <2>. QED  BY <2>1, <2>2, <2>3, <2>4, StepIs
<1>. QED  BY <1>1, <1>2, Invariant, PTL DEF Spec, ImplementsHeap, Abstract!Spec

-----------------------------------------------------------------------------
(* The exported functions, under mem_lock.                                 *)
ArgumentsHold(call) ==
  /\ call.fn \in {"malloc", "calloc", "valloc"} => call.size \in Requests
  /\ call.fn = "free" => call.ptr \in DOMAIN blocks \cup {NULL}
  /\ call.fn = "realloc" => \/ call.ptr = NULL
                            \/ call.ptr \in Reallocable /\ call.size \in Requests \cup {0}

Entry(fn, ptr, size, pc) == [fn |-> fn, ptr |-> ptr, size |-> size, pc |-> pc]

Outside == frames = <<>> /\ mem_lock = 0

(* One call: it holds the lock from the exchange on, and what it was given *)
(* is still its caller's when its body runs.                               *)
Single ==
  \E fn, ptr, size, pc :
    /\ frames = <<Entry(fn, ptr, size, pc)>>
    /\ \/ pc = "lock" /\ mem_lock = 0
       \/ pc \in {"body", "unlock"} /\ mem_lock = 1
    /\ pc # "unlock" => ArgumentsHold(Entry(fn, ptr, size, pc))

(* A call inside klrealloc: it waits for the lock of the outer one.        *)
Stuck ==
  \E fn, ptr, size, outer : frames = <<Entry(fn, ptr, size, "lock"), outer>> /\ mem_lock = 1

LInv == Outside \/ Single \/ Stuck

LNext == OrdinaryCall \/ SpecialCall \/ Step

LEMMA CallTop ==
  ASSUME NEW fn, NEW ptr, NEW size, NEW pc, frames = <<Entry(fn, ptr, size, pc)>>, NEW new
  PROVE  /\ frames # <<>> /\ Head(frames) = Entry(fn, ptr, size, pc) /\ Len(frames) = 1
         /\ Goto(new) = <<Entry(fn, ptr, size, new)>> /\ Tail(frames) = <<>>
         /\ At(new) <=> pc = new
BY DEF Goto, At, Entry

LEMMA CallStarts ==
  ASSUME LInv, NEW fn \in {"malloc", "calloc", "valloc", "free", "realloc"}, NEW ptr, NEW size,
         Call(fn, ptr, size), ArgumentsHold(Entry(fn, ptr, size, "lock"))
  PROVE  LInv' /\ UNCHANGED vars
<1>1. frames = <<>> /\ frames' = <<Entry(fn, ptr, size, "lock")>> /\ mem_lock' = mem_lock
      /\ UNCHANGED vars
  BY DEF Call, Frame, Entry
<1>2. mem_lock = 0
  BY <1>1 DEF LInv, Outside, Single, Stuck
<1>3. ArgumentsHold(Entry(fn, ptr, size, "lock"))'
  BY <1>1 DEF ArgumentsHold, Reallocable, vars, Entry
<1>4. Single'
  BY <1>1, <1>2, <1>3 DEF Single
<1>. QED  BY <1>1, <1>4 DEF LInv

LEMMA AnyCall ==
  ASSUME LInv, OrdinaryCall \/ SpecialCall
  PROVE  LInv' /\ UNCHANGED vars
<1>1. ASSUME NEW size \in Requests, NEW fn \in {"malloc", "calloc", "valloc"}, Call(fn, NULL, size)
      PROVE  LInv' /\ UNCHANGED vars
  <2>1. ArgumentsHold(Entry(fn, NULL, size, "lock"))
    BY DEF ArgumentsHold, Entry
  <2>. QED  BY <1>1, <2>1, CallStarts
<1>2. ASSUME NEW ptr \in DOMAIN blocks \cup {NULL}, Call("free", ptr, 0)
      PROVE  LInv' /\ UNCHANGED vars
  <2>1. ArgumentsHold(Entry("free", ptr, 0, "lock"))
    BY DEF ArgumentsHold, Entry
  <2>. QED  BY <1>2, <2>1, CallStarts
<1>3. ASSUME NEW ptr \in Reallocable \cup {NULL}, NEW size \in Requests \cup {0},
             Call("realloc", ptr, size)
      PROVE  LInv' /\ UNCHANGED vars
  <2>1. ArgumentsHold(Entry("realloc", ptr, size, "lock"))
    BY DEF ArgumentsHold, Entry
  <2>. QED  BY <1>3, <2>1, CallStarts
<1>. QED  BY <1>1, <1>2, <1>3 DEF OrdinaryCall, SpecialCall

(* A call that waits inside another one has no step.                       *)
LEMMA StuckStays ==
  ASSUME Stuck, Step
  PROVE  LInv' /\ UNCHANGED vars
<1>1. PICK fn, ptr, size, outer : frames = <<Entry(fn, ptr, size, "lock"), outer>> /\ mem_lock = 1
  BY DEF Stuck
<1>2. Head(frames).pc = "lock"
  BY <1>1 DEF Entry
<1>3. mutex_lock
  BY <1>2 DEF Step, Body, NestedCall, mutex_unlock, At
<1>4. frames' = frames /\ mem_lock' = mem_lock /\ UNCHANGED vars
  BY <1>1, <1>3 DEF mutex_lock
<1>. QED  BY <1>1, <1>4 DEF LInv, Stuck

LEMMA Pair == \A x, y : <<x>> \o <<y>> = <<x, y>>
<1> SUFFICES ASSUME NEW x, NEW y PROVE <<x>> \o <<y>> = <<x, y>>
  OBVIOUS
<1> DEFINE S == {x, y}
           s == <<x>>
           t == <<y>>
           u == <<x, y>>
<1>1. s \in Seq(S) /\ Len(s) = 1 /\ s[1] = x /\ t \in Seq(S) /\ Len(t) = 1 /\ t[1] = y
      /\ u \in Seq(S) /\ Len(u) = 2 /\ u[1] = x /\ u[2] = y
  OBVIOUS
<1> HIDE DEF s, t, u, S
<1>2. s \o t \in Seq(S) /\ Len(s \o t) = 2 /\ (s \o t)[1] = x /\ (s \o t)[2] = y
  <2>1. /\ s \o t \in Seq(S) /\ Len(s \o t) = Len(s) + Len(t)
        /\ \A i \in 1 .. Len(s) + Len(t) :
             (s \o t)[i] = IF i <= Len(s) THEN s[i] ELSE t[i - Len(s)]
    <3>1. s \in Seq(S) /\ t \in Seq(S)
      BY <1>1
    <3>. QED  BY <3>1, ConcatProperties
  <2> DEFINE c == s \o t
  <2> HIDE DEF c
  <2>2. \A i \in 1 .. 2 : c[i] = IF i <= 1 THEN s[i] ELSE t[i - 1]
    BY <1>1, <2>1 DEF c
  <2>3. c[1] = s[1] /\ c[2] = t[1]
    BY <2>2
  <2>. QED  BY <1>1, <2>1, <2>3 DEF c
<1>3. \A i \in 1 .. Len(s \o t) : (s \o t)[i] = u[i]
  BY <1>1, <1>2
<1>4. s \o t = u
  BY <1>1, <1>2, <1>3, SeqEqual
<1>. QED  BY <1>4 DEF s, t, u

(* A step of a call: through the lock, the allocator's work, out again.    *)
LEMMA SingleSteps ==
  ASSUME Single, Step
  PROVE  LInv' /\ (Next \/ UNCHANGED vars)
<1>1. PICK fn, ptr, size, pc :
        /\ frames = <<Entry(fn, ptr, size, pc)>>
        /\ \/ pc = "lock" /\ mem_lock = 0
           \/ pc \in {"body", "unlock"} /\ mem_lock = 1
        /\ pc # "unlock" => ArgumentsHold(Entry(fn, ptr, size, pc))
  BY DEF Single
<1> DEFINE call == Entry(fn, ptr, size, pc)
<1>2. /\ frames # <<>> /\ Head(frames) = call
      /\ Goto("body") = <<Entry(fn, ptr, size, "body")>>
      /\ Goto("unlock") = <<Entry(fn, ptr, size, "unlock")>> /\ Tail(frames) = <<>>
      /\ At("lock") <=> pc = "lock"
      /\ At("body") <=> pc = "body"
      /\ At("unlock") <=> pc = "unlock"
  BY <1>1, CallTop
<1>3. call.fn = fn /\ call.ptr = ptr /\ call.size = size
  BY DEF Entry
<1>4. CASE mutex_lock
  <2>1. pc = "lock" /\ mem_lock = 0
    BY <1>1, <1>2, <1>4 DEF mutex_lock
  <2>2. frames' = <<Entry(fn, ptr, size, "body")>> /\ mem_lock' = 1 /\ UNCHANGED vars
    BY <1>2, <1>4, <2>1 DEF mutex_lock
  <2>3. ArgumentsHold(Entry(fn, ptr, size, "body"))'
    BY <1>1, <2>1, <2>2 DEF ArgumentsHold, Reallocable, vars, Entry
  <2>4. Single'
    BY <2>2, <2>3 DEF Single
  <2>. QED  BY <2>2, <2>4 DEF LInv
<1>5. CASE Body
  <2>1. pc = "body" /\ ~Special(call) /\ mem_lock = 1 /\ ArgumentsHold(call)
    BY <1>1, <1>2, <1>5 DEF Body
  <2>2. /\ \/ fn = "malloc"  /\ malloc(size)
           \/ fn = "calloc"  /\ calloc(1, size)
           \/ fn = "valloc"  /\ valloc(size)
           \/ fn = "free"    /\ free(ptr)
           \/ fn = "realloc" /\ realloc(ptr, size)
        /\ frames' = <<Entry(fn, ptr, size, "unlock")>> /\ mem_lock' = 1
    BY <1>2, <1>3, <1>5, <2>1 DEF Body
  <2>3. Single'
    BY <2>2 DEF Single
  <2>4. ASSUME fn = "malloc" \/ fn = "calloc" \/ fn = "valloc" PROVE Next
    <3>1. size \in Requests
      BY <1>3, <2>1, <2>4 DEF ArgumentsHold
    <3>2. 1 * size = size
      BY <3>1, SlabAssumption
    <3>3. malloc(size) \/ valloc(size)
      BY <2>2, <2>4, <3>2 DEF calloc
    <3>. QED  BY <3>1, <3>3 DEF Next
  <2>5. ASSUME fn = "free" PROVE Next
    <3>1. ptr \in DOMAIN blocks \cup {NULL} /\ free(ptr)
      BY <1>3, <2>1, <2>2, <2>5 DEF ArgumentsHold
    <3>. QED  BY <3>1 DEF Next
  <2>6. ASSUME fn = "realloc" PROVE Next
    <3>1. ptr # NULL /\ size # 0 /\ realloc(ptr, size)
      BY <1>3, <2>1, <2>2, <2>6 DEF Special
    <3>2. ptr \in DOMAIN blocks \ page_aligned /\ size \in Requests
      BY <1>3, <2>1, <2>6, <3>1 DEF ArgumentsHold, Reallocable
    <3>. QED  BY <3>1, <3>2 DEF Next
  <2>. QED  BY <2>2, <2>3, <2>4, <2>5, <2>6 DEF LInv
<1>6. CASE NestedCall
  <2>1. pc = "body" /\ mem_lock = 1 /\ mem_lock' = mem_lock /\ UNCHANGED vars
    BY <1>1, <1>2, <1>6 DEF NestedCall
  <2>2. frames' = <<IF call.ptr = NULL THEN Frame("malloc", NULL, call.size)
                    ELSE Frame("free", call.ptr, 0)>> \o Goto("unlock")
    BY <1>2, <1>6 DEF NestedCall
  <2>3. \E f, q, n : frames' = <<Entry(f, q, n, "lock"), Entry(fn, ptr, size, "unlock")>>
    <3>1. CASE call.ptr = NULL
      <4>1. frames' = <<Entry("malloc", NULL, call.size, "lock")>> \o <<Entry(fn, ptr, size, "unlock")>>
        BY <1>2, <2>2, <3>1 DEF Frame, Entry
      <4>2. frames' = <<Entry("malloc", NULL, call.size, "lock"), Entry(fn, ptr, size, "unlock")>>
        BY <4>1, Pair
      <4>. QED  BY <4>2
    <3>2. CASE call.ptr # NULL
      <4>1. frames' = <<Entry("free", call.ptr, 0, "lock")>> \o <<Entry(fn, ptr, size, "unlock")>>
        BY <1>2, <2>2, <3>2 DEF Frame, Entry
      <4>2. frames' = <<Entry("free", call.ptr, 0, "lock"), Entry(fn, ptr, size, "unlock")>>
        BY <4>1, Pair
      <4>. QED  BY <4>2
    <3>. QED  BY <3>1, <3>2
  <2>4. Stuck'
    BY <2>1, <2>3 DEF Stuck
  <2>. QED  BY <2>1, <2>4 DEF LInv
<1>7. CASE mutex_unlock
  <2>1. frames' = <<>> /\ mem_lock' = 0 /\ UNCHANGED vars
    BY <1>2, <1>7 DEF mutex_unlock
  <2>. QED  BY <2>1 DEF LInv, Outside
<1>. QED  BY <1>4, <1>5, <1>6, <1>7 DEF Step

LEMMA LockedStep ==
  ASSUME LInv, [LNext]_locked_vars
  PROVE  LInv' /\ [Next]_vars
<1>1. CASE OrdinaryCall \/ SpecialCall
  BY <1>1, AnyCall
<1>2. CASE Step /\ Outside
  BY <1>2 DEF Step, mutex_lock, Body, NestedCall, mutex_unlock, At, Outside
<1>3. CASE Step /\ Single
  BY <1>3, SingleSteps
<1>4. CASE Step /\ Stuck
  BY <1>4, StuckStays
<1>5. CASE UNCHANGED locked_vars
  <2>1. mem_lock' = mem_lock /\ frames' = frames /\ UNCHANGED vars
    BY <1>5 DEF locked_vars
  <2>2. \A call : ArgumentsHold(call) <=> ArgumentsHold(call)'
    BY <2>1 DEF ArgumentsHold, Reallocable, vars
  <2>. QED  BY <2>1, <2>2 DEF LInv, Outside, Single, Stuck
<1>. QED  BY <1>1, <1>2, <1>3, <1>4, <1>5 DEF LNext, LInv

LEMMA LockedInit == LInit => LInv /\ Init
BY DEF LInit, LInv, Outside

LEMMA LockedSpecs == LSpec \/ LSpecSpecial => LInit /\ [][LNext]_locked_vars
<1>1. [OrdinaryCall \/ mutex_lock \/ Body \/ mutex_unlock]_locked_vars => [LNext]_locked_vars
  BY DEF LNext, Step
<1>2. [OrdinaryCall \/ SpecialCall \/ Step]_locked_vars => [LNext]_locked_vars
  BY DEF LNext
<1>. QED  BY <1>1, <1>2, PTL DEF LSpec, LSpecSpecial

(* A call from outside finds mem_lock free, whatever became of the calls   *)
(* before it, with and without the special cases of realloc.               *)
THEOREM LockFree == LSpec \/ LSpecSpecial => []LockIsFreeOutside
<1>1. LInv => LockIsFreeOutside
  <2>1. ASSUME Outside PROVE LockIsFreeOutside
    BY <2>1 DEF Outside, LockIsFreeOutside, At
  <2>2. ASSUME Single PROVE LockIsFreeOutside
    <3>1. PICK fn, ptr, size, pc :
            /\ frames = <<Entry(fn, ptr, size, pc)>>
            /\ \/ pc = "lock" /\ mem_lock = 0
               \/ pc \in {"body", "unlock"} /\ mem_lock = 1
      BY <2>2 DEF Single
    <3>2. frames # <<>> /\ Len(frames) = 1 /\ (At("lock") <=> pc = "lock")
      BY <3>1, CallTop
    <3>. QED  BY <3>1, <3>2 DEF LockIsFreeOutside
  <2>3. ASSUME Stuck PROVE LockIsFreeOutside
    <3>1. mem_lock = 1 /\ Len(frames) = 2 /\ frames # <<>>
      BY <2>3 DEF Stuck
    <3>. QED  BY <3>1 DEF LockIsFreeOutside
  <2>. QED  BY <2>1, <2>2, <2>3 DEF LInv
<1>2. LInit /\ [][LNext]_locked_vars => []LInv
  BY LockedInit, LockedStep, PTL
<1>. QED  BY <1>1, <1>2, LockedSpecs, PTL

(* The exported functions do to the heap what SlabAllocator describes, so  *)
(* its theorems hold of them.                                              *)
THEOREM AllocatorImplemented == LSpec \/ LSpecSpecial => ImplementsAllocator
<1>1. LInit /\ [][LNext]_locked_vars => Init /\ [][Next]_vars
  BY LockedInit, LockedStep, PTL
<1>. QED  BY <1>1, LockedSpecs, PTL DEF ImplementsAllocator, Spec

=============================================================================
