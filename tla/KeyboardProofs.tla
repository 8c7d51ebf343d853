--------------------------- MODULE KeyboardProofs ---------------------------
(***************************************************************************)
(* The key cache is a bounded queue and the keys reach the terminal in the *)
(* order they were taken, for every size of the cache, every set of scan   *)
(* codes and every interleaving of the interrupt with the reader.          *)
(***************************************************************************)
EXTENDS Keyboard, SequenceTheorems, TLAPS

(* The lock is held by the reader alone, which never asks with a key left  *)
(* in ch, and enters the critical section with a key to take.              *)
LockHolds ==
  /\ locked = IF pc \in {"take", "shift", "unlock"} THEN 1 ELSE 0
  /\ pc \in {"check", "lock"} => ch = Nul
  /\ pc \in {"lock", "take", "shift"} => key_loc # 0
  /\ pc = "shift" => i <= key_loc

(* The controller's byte: it is there as long as its interrupt is, and     *)
(* stays once an interrupt has left it.                                    *)
ByteHolds ==
  /\ irq => outbuf # NoByte
  /\ missed => outbuf # NoByte /\ ~irq

(* The key being taken is in ch, unless an interrupt wiped it.             *)
HeadHolds ==
  pc = "shift" => ch \in {head, Nul} /\ (~ch_in_lock_word => ch = head)

(* A key on its way to the terminal is the one taken last.                 *)
OnItsWay == pc \in {"unlock", "return"} /\ ch # Nul

Kept(kept) ==
  /\ kept \subseteq DOMAIN taken
  /\ IsSelection(delivered, kept)
  /\ OnItsWay => /\ taken # <<>> /\ ch = taken[Len(taken)]
                 /\ Len(taken) \notin kept
  /\ ~ch_in_lock_word =>
       {n \in DOMAIN taken : taken[n] # Nul} = kept \cup (IF OnItsWay THEN {Len(taken)} ELSE {})

KInv == TypeOK /\ LockHolds /\ ByteHolds /\ HeadHolds /\ \E kept : Kept(kept)

-----------------------------------------------------------------------------
LEMMA Sizes ==
  /\ KEY_CACHE_SIZE \in Nat \ {0, 1}
  /\ NoByte \notin Codes /\ NoByte = 0
  /\ MaxTyped \in Nat
  /\ Nul \in Char
  /\ \A code \in Codes : keyboard_to_ascii(code) \in Char
  BY KeyboardAssumption DEF NoByte, Char

LEMMA InitKInv == Init => KInv
<1> SUFFICES ASSUME Init
             PROVE  KInv
  OBVIOUS
<1>1. TypeOK
  <2>1. taken \in Seq(Char) /\ delivered \in Seq(Char)
    <3>1. <<>> \in Seq(Char)
      BY EmptySeq
    <3>. QED  BY <3>1, Zenon DEF Init
  <2>2. /\ keycache \in [0 .. KEY_CACHE_SIZE - 1 -> Char]
        /\ key_loc \in 0 .. KEY_CACHE_SIZE - 1 /\ i \in 0 .. KEY_CACHE_SIZE - 1
        /\ locked \in {0, 1} /\ typed \in 0 .. MaxTyped
        /\ ch \in Char /\ head \in Char /\ newest \in Char
    BY Sizes DEF Init
  <2>3. /\ ch_in_lock_word \in BOOLEAN /\ irq \in BOOLEAN /\ missed \in BOOLEAN
        /\ outbuf \in Codes \cup {NoByte}
        /\ pc \in {"clear", "check", "lock", "take", "shift", "unlock", "return"}
    BY DEF Init
  <2>. QED  BY <2>1, <2>2, <2>3 DEF TypeOK
<1>2. LockHolds /\ ByteHolds /\ HeadHolds
  BY DEF Init, LockHolds, ByteHolds, HeadHolds
<1>3. Kept({})
  <2>1. DOMAIN taken = {} /\ DOMAIN delivered = {}
    BY DEF Init
  <2>2. IsSelection(delivered, {})
    <3>1. [n \in DOMAIN delivered |-> 0] \in [DOMAIN delivered -> DOMAIN taken]
      BY <2>1
    <3>. QED  BY <2>1, <3>1 DEF IsSelection
  <2>3. ~OnItsWay
    BY DEF OnItsWay, Init
  <2>4. {n \in DOMAIN taken : taken[n] # Nul} = {}
    BY <2>1
  <2>. QED  BY <2>1, <2>2, <2>3, <2>4 DEF Kept
<1>. QED  BY <1>1, <1>2, <1>3 DEF KInv

-----------------------------------------------------------------------------
(* Types, the lock and the controller, action by action.                   *)
Simple == TypeOK /\ LockHolds /\ ByteHolds /\ HeadHolds

LEMMA TypeSimple ==
  ASSUME Simple, UNCHANGED ch_in_lock_word, NEW code \in Codes, Type(code)
  PROVE  Simple'
<1> USE Sizes
<1>1. TypeOK'
  BY DEF Simple, TypeOK, Type, reader
<1>2. LockHolds' /\ ByteHolds' /\ HeadHolds'
  BY DEF Simple, TypeOK, LockHolds, ByteHolds, HeadHolds, Type, reader
<1>. QED  BY <1>1, <1>2 DEF Simple

LEMMA CallbackSimple ==
  ASSUME Simple, UNCHANGED ch_in_lock_word, keyboard_callback
  PROVE  Simple'
<1> USE Sizes
<1>1. CASE StoreKey
  <2>1. PICK c \in Char : c = keyboard_to_ascii(outbuf)
    BY DEF Simple, TypeOK, ByteHolds, keyboard_callback
  <2>2. TypeOK'
    <3>1. keycache' = [keycache EXCEPT ![key_loc] = c] /\ newest' = c
      BY <1>1, <2>1 DEF StoreKey
    <3>2. keycache' \in [0 .. KEY_CACHE_SIZE - 1 -> Char] /\ newest' \in Char
      BY <3>1 DEF Simple, TypeOK
    <3>. QED  BY <1>1, <3>2 DEF Simple, TypeOK, keyboard_callback, StoreKey, reader
  <2>3. LockHolds' /\ ByteHolds' /\ HeadHolds'
    BY <1>1 DEF Simple, TypeOK, LockHolds, ByteHolds, HeadHolds, keyboard_callback, StoreKey, reader
  <2>. QED  BY <2>2, <2>3 DEF Simple
<1>2. CASE CacheFull \/ LockHeld
  <2>1. TypeOK'
    BY <1>2 DEF Simple, TypeOK, keyboard_callback, CacheFull, LockHeld, reader
  <2>2. LockHolds' /\ ByteHolds' /\ HeadHolds'
    BY <1>2 DEF Simple, TypeOK, LockHolds, ByteHolds, HeadHolds, keyboard_callback,
                CacheFull, LockHeld, reader
  <2>. QED  BY <2>1, <2>2 DEF Simple
<1>. QED  BY <1>1, <1>2 DEF keyboard_callback

LEMMA ReaderSimple ==
  ASSUME Simple, UNCHANGED ch_in_lock_word, get_keyboard_key
  PROVE  Simple'
<1> USE Sizes DEF Simple, TypeOK, LockHolds, ByteHolds, HeadHolds, device
<1>1. CASE ClearCh
  BY <1>1 DEF ClearCh
<1>2. CASE CheckKeyLoc
  BY <1>2 DEF CheckKeyLoc
<1>3. CASE mutex_lock
  BY <1>3 DEF mutex_lock, xchg
<1>4. CASE TakeKey
  BY <1>4 DEF TakeKey
<1>5. CASE ShiftKey
  BY <1>5 DEF ShiftKey
<1>6. CASE DropKey
  <2>1. Append(taken, head) \in Seq(Char)
    BY AppendProperties
  <2>. QED  BY <1>6, <2>1 DEF DropKey
<1>7. CASE mutex_unlock
  BY <1>7 DEF mutex_unlock
<1>8. CASE ReturnCh
  BY <1>8 DEF ReturnCh
<1>. QED  BY <1>1, <1>2, <1>3, <1>4, <1>5, <1>6, <1>7, <1>8 DEF get_keyboard_key

-----------------------------------------------------------------------------
(* What has been delivered is still a selection when one more is taken,    *)
(* and when the key taken last is delivered.                               *)
LEMMA SelectionStays ==
  ASSUME TypeOK, NEW kept \in SUBSET DOMAIN taken, IsSelection(delivered, kept),
         taken' = Append(taken, head), delivered' = delivered
  PROVE  IsSelection(delivered, kept)'
<1>1. taken \in Seq(Char) /\ head \in Char
  BY DEF TypeOK
<1>2. /\ Len(taken) \in Nat /\ DOMAIN taken = 1 .. Len(taken)
      /\ \A n \in DOMAIN taken : taken'[n] = taken[n]
  BY <1>1, LenProperties, AppendProperties
<1>3. PICK at \in [DOMAIN delivered -> kept] :
        /\ \A m, n \in DOMAIN delivered : m < n => at[m] < at[n]
        /\ \A p \in kept : \E n \in DOMAIN delivered : at[n] = p
        /\ \A n \in DOMAIN delivered : delivered[n] = taken[at[n]]
  BY DEF IsSelection
<1>4. \A n \in DOMAIN delivered : delivered[n] = taken'[at[n]]
  BY <1>2, <1>3
<1>. QED  BY <1>3, <1>4 DEF IsSelection

LEMMA SelectionGrows ==
  ASSUME TypeOK, taken # <<>>,
         NEW kept \in SUBSET DOMAIN taken, IsSelection(delivered, kept), Len(taken) \notin kept
  PROVE  IsSelection(Append(delivered, taken[Len(taken)]), kept \cup {Len(taken)})
<1> DEFINE p == Len(taken)
           more == Append(delivered, taken[p])
<1>1. taken \in Seq(Char) /\ delivered \in Seq(Char)
  BY DEF TypeOK
<1>2. p \in Nat \ {0} /\ DOMAIN taken = 1 .. p /\ taken[p] \in Char
  BY <1>1, LenProperties, EmptySeq, ElementOfSeq
<1>3. /\ Len(delivered) \in Nat /\ DOMAIN delivered = 1 .. Len(delivered)
      /\ DOMAIN more = 1 .. Len(delivered) + 1
      /\ \A n \in DOMAIN delivered : more[n] = delivered[n]
      /\ more[Len(delivered) + 1] = taken[p]
  BY <1>1, <1>2, LenProperties, AppendProperties
<1>4. PICK at \in [DOMAIN delivered -> kept] :
        /\ \A m, n \in DOMAIN delivered : m < n => at[m] < at[n]
        /\ \A q \in kept : \E n \in DOMAIN delivered : at[n] = q
        /\ \A n \in DOMAIN delivered : delivered[n] = taken[at[n]]
  BY DEF IsSelection
<1>5. kept \subseteq 1 .. p - 1
  BY <1>2
<1> DEFINE to == [n \in DOMAIN more |-> IF n \in DOMAIN delivered THEN at[n] ELSE p]
<1> HIDE DEF more, p
<1>6. to \in [DOMAIN more -> kept \cup {p}]
  BY <1>4
<1>7. ASSUME NEW m \in DOMAIN more, NEW n \in DOMAIN more, m < n
      PROVE  to[m] < to[n]
  <2>1. m \in DOMAIN delivered /\ to[m] = at[m] /\ at[m] \in kept
    BY <1>3, <1>4, <1>7
  <2>2. CASE n \in DOMAIN delivered
    BY <1>4, <1>7, <2>1, <2>2
  <2>3. CASE n \notin DOMAIN delivered
    BY <1>2, <1>5, <2>1, <2>3
  <2>. QED  BY <2>2, <2>3
<1>8. ASSUME NEW q \in kept \cup {p}
      PROVE  \E n \in DOMAIN more : to[n] = q
  <2>1. CASE q \in kept
    <3>1. PICK n \in DOMAIN delivered : at[n] = q
      BY <1>4, <2>1
    <3>. QED  BY <1>3, <3>1
  <2>2. CASE q = p
    <3>1. Len(delivered) + 1 \in DOMAIN more /\ Len(delivered) + 1 \notin DOMAIN delivered
      BY <1>3
    <3>. QED  BY <2>2, <3>1
  <2>. QED  BY <2>1, <2>2
<1>9. ASSUME NEW n \in DOMAIN more
      PROVE  more[n] = taken[to[n]]
  BY <1>3, <1>4
<1>. QED  BY <1>6, <1>7, <1>8, <1>9 DEF IsSelection, more, p

-----------------------------------------------------------------------------
(* Delivery, action by action.                                             *)
LEMMA UnmovedKept ==
  ASSUME NEW kept, Kept(kept), UNCHANGED <<ch_in_lock_word, taken, delivered>>,
         OnItsWay' => OnItsWay /\ ch' = ch,
         ~ch_in_lock_word => (OnItsWay <=> OnItsWay')
  PROVE  Kept(kept)'
<1>1. IsSelection(delivered, kept)'
  BY DEF Kept, IsSelection
<1>. QED  BY <1>1 DEF Kept

LEMMA DropKept ==
  ASSUME Simple, DropKey, UNCHANGED ch_in_lock_word, NEW kept, Kept(kept)
  PROVE  Kept(kept)'
<1>1. taken \in Seq(Char) /\ head \in Char /\ taken' = Append(taken, head)
  BY DEF Simple, TypeOK, DropKey
<1>2. /\ Len(taken) \in Nat /\ DOMAIN taken = 1 .. Len(taken)
      /\ Len(taken') = Len(taken) + 1 /\ DOMAIN taken' = 1 .. Len(taken) + 1 /\ taken' # <<>>
      /\ \A n \in DOMAIN taken : taken'[n] = taken[n]
      /\ taken'[Len(taken) + 1] = head
  BY <1>1, LenProperties, AppendProperties
<1>3. IsSelection(delivered, kept)'
  BY SelectionStays DEF Simple, Kept, DropKey
<1>4. /\ ~OnItsWay /\ (OnItsWay' <=> ch # Nul) /\ ch' = ch
      /\ ch \in {head, Nul} /\ (~ch_in_lock_word => ch = head)
  BY DEF OnItsWay, DropKey, Simple, HeadHolds
<1>5. kept \subseteq DOMAIN taken /\ Len(taken') \notin kept
  BY <1>2 DEF Kept
<1>6. ASSUME ~ch_in_lock_word
      PROVE  {n \in DOMAIN taken' : taken'[n] # Nul}
               = kept \cup (IF ch # Nul THEN {Len(taken')} ELSE {})
  <2>1. {n \in DOMAIN taken : taken[n] # Nul} = kept
    BY <1>4, <1>6 DEF Kept
  <2>. QED  BY <1>2, <1>4, <1>6, <2>1
<1>. QED  BY <1>2, <1>3, <1>4, <1>5, <1>6 DEF Kept, DropKey

LEMMA ReturnKept ==
  ASSUME Simple, ReturnCh, UNCHANGED ch_in_lock_word, NEW kept, Kept(kept)
  PROVE  \E more : Kept(more)'
<1>1. CASE ch = Nul
  BY <1>1, UnmovedKept DEF ReturnCh, OnItsWay
<1>2. CASE ch # Nul
  <2> DEFINE more == kept \cup {Len(taken)}
  <2>1. /\ OnItsWay /\ ~OnItsWay' /\ taken' = taken
        /\ delivered' = Append(delivered, taken[Len(taken)])
    BY <1>2 DEF OnItsWay, ReturnCh, Kept
  <2>2. IsSelection(Append(delivered, taken[Len(taken)]), more)
    BY <2>1, SelectionGrows DEF Kept, Simple
  <2>3. IsSelection(delivered, more)'
    BY <2>1, <2>2 DEF IsSelection
  <2>4. Len(taken) \in DOMAIN taken
    <3>1. taken \in Seq(Char) /\ taken # <<>>
      BY <2>1 DEF Kept, Simple, TypeOK
    <3>. QED  BY <3>1, LenProperties, EmptySeq
  <2>5. ~ch_in_lock_word => {n \in DOMAIN taken : taken[n] # Nul} = more
    BY <2>1 DEF Kept
  <2>6. Kept(more)'
    BY <2>1, <2>3, <2>4, <2>5 DEF Kept, ReturnCh
  <2>. QED  BY <2>6
<1>. QED  BY <1>1, <1>2

LEMMA ReaderKept ==
  ASSUME Simple, get_keyboard_key, UNCHANGED ch_in_lock_word, NEW kept, Kept(kept)
  PROVE  \E more : Kept(more)'
<1>1. CASE ClearCh
  BY <1>1, UnmovedKept DEF ClearCh, OnItsWay
<1>2. CASE CheckKeyLoc
  BY <1>2, UnmovedKept DEF CheckKeyLoc, OnItsWay, Simple, LockHolds
<1>3. CASE mutex_lock
  BY <1>3, UnmovedKept DEF mutex_lock, OnItsWay
<1>4. CASE TakeKey
  BY <1>4, UnmovedKept DEF TakeKey, OnItsWay
<1>5. CASE ShiftKey
  BY <1>5, UnmovedKept DEF ShiftKey, OnItsWay
<1>6. CASE DropKey
  BY <1>6, DropKept
<1>7. CASE mutex_unlock
  BY <1>7, UnmovedKept DEF mutex_unlock, OnItsWay
<1>8. CASE ReturnCh
  BY <1>8, ReturnKept
<1>. QED  BY <1>1, <1>2, <1>3, <1>4, <1>5, <1>6, <1>7, <1>8 DEF get_keyboard_key

LEMMA NextKInv == KInv /\ [Next]_vars => KInv'
<1> SUFFICES ASSUME KInv, [Next]_vars
             PROVE  KInv'
  OBVIOUS
<1>1. PICK kept : Simple /\ Kept(kept)
  BY DEF KInv, Simple
<1>2. ASSUME NEW code \in Codes, Type(code), UNCHANGED ch_in_lock_word
      PROVE  KInv'
  <2>1. Kept(kept)'
    BY <1>1, <1>2, UnmovedKept DEF Type, OnItsWay, reader
  <2>. QED  BY <1>1, <1>2, <2>1, TypeSimple DEF KInv, Simple
<1>3. ASSUME keyboard_callback, UNCHANGED ch_in_lock_word
      PROVE  KInv'
  <2>1. Kept(kept)'
    BY <1>1, <1>3, UnmovedKept DEF keyboard_callback, OnItsWay, reader
  <2>. QED  BY <1>1, <1>3, <2>1, CallbackSimple DEF KInv, Simple
<1>4. ASSUME get_keyboard_key, UNCHANGED ch_in_lock_word
      PROVE  KInv'
  <2>1. \E more : Kept(more)'
    BY <1>1, <1>4, ReaderKept
  <2>. QED  BY <1>1, <1>4, <2>1, ReaderSimple DEF KInv, Simple
<1>5. CASE UNCHANGED vars
  <2>1. Kept(kept)'
    BY <1>1, <1>5, UnmovedKept DEF vars, OnItsWay, reader
  <2>2. Simple'
    BY <1>1, <1>5 DEF vars, reader, device, Simple, TypeOK, LockHolds, ByteHolds, HeadHolds
  <2>. QED  BY <2>1, <2>2 DEF KInv, Simple
<1>. QED  BY <1>2, <1>3, <1>4, <1>5 DEF Next

LEMMA Invariance == Spec => []KInv
  BY InitKInv, NextKInv, PTL DEF Spec

(* No key that was taken is lost on its way to the terminal, and none comes*)
(* twice, if ch lies away from the lock (get_keyboard_key).                *)
THEOREM TakenReachTerminal == Spec => []TakenKeysReachTerminal
<1>1. KInv => TakenKeysReachTerminal
  <2> SUFFICES ASSUME KInv, ~ch_in_lock_word
               PROVE  IsSelection(Returned, {n \in DOMAIN taken : taken[n] # Nul})
    BY DEF TakenKeysReachTerminal
  <2>1. PICK kept : TypeOK /\ Kept(kept)
    BY DEF KInv
  <2>2. CASE OnItsWay
    BY <2>1, <2>2, SelectionGrows DEF Kept, OnItsWay, Returned
  <2>3. CASE ~OnItsWay
    BY <2>1, <2>3 DEF Kept, OnItsWay, Returned
  <2>. QED  BY <2>2, <2>3
<1>. QED  BY <1>1, Invariance, PTL

(* Wherever ch lies, and whatever interrupts wipe, keys reach the terminal *)
(* in the order they were taken, and the driver's indices stay in the cache*)
(* (get_keyboard_key, keyboard_callback).                                  *)
THEOREM Ordered == Spec => []DeliveredInOrder
<1>1. KInv => DeliveredInOrder
  BY DEF KInv, Kept, DeliveredInOrder
<1>. QED  BY <1>1, Invariance, PTL

(* An interrupt that leaves its byte in the controller, because the lock is*)
(* held or the cache full, is the last one (keyboard_callback).            *)
THEOREM MissedIsTheLast == Spec => MissedInterruptIsTheLast
<1>1. KInv /\ [Next]_vars => [missed => outbuf' = outbuf /\ ~irq']_vars
  <2> SUFFICES ASSUME KInv, Next, missed
               PROVE  outbuf' = outbuf /\ ~irq'
    OBVIOUS
  <2>1. outbuf # NoByte /\ ~irq
    BY DEF KInv, ByteHolds
  <2>2. ~keyboard_callback /\ \A code \in Codes : ~Type(code)
    BY <2>1 DEF keyboard_callback, Type
  <2>3. get_keyboard_key
    BY <2>2 DEF Next
  <2>4. UNCHANGED device
    BY <2>3 DEF get_keyboard_key, ClearCh, CheckKeyLoc, mutex_lock, TakeKey, ShiftKey, DropKey,
                mutex_unlock, ReturnCh
  <2>. QED  BY <2>1, <2>4 DEF device
<1>. QED  BY <1>1, Invariance, PTL DEF Spec, MissedInterruptIsTheLast

-----------------------------------------------------------------------------
(* The cache is a bounded queue.                                           *)
LEMMA QueueType ==
  ASSUME TypeOK
  PROVE  /\ key_loc \in Nat /\ Queue \in Seq(Char) /\ Len(Queue) = key_loc
         /\ DOMAIN Queue = 1 .. key_loc
<1>1. key_loc \in Nat /\ key_loc <= KEY_CACHE_SIZE - 1 /\ i \in Nat /\ head \in Char
      /\ keycache \in [0 .. KEY_CACHE_SIZE - 1 -> Char]
  BY Sizes DEF TypeOK
<1>2. Queue \in [1 .. key_loc -> Char]
  <2> SUFFICES ASSUME NEW n \in 1 .. key_loc
               PROVE  Queue[n] \in Char
    BY DEF Queue
  <2>1. CASE pc # "shift" \/ n > i + 1
    <3>1. n - 1 \in 0 .. KEY_CACHE_SIZE - 1
      BY <1>1, Sizes
    <3>. QED  BY <1>1, <2>1, <3>1 DEF Queue
  <2>2. CASE ~(pc # "shift" \/ n > i + 1)
    <3>1. n # 1 => n - 2 \in 0 .. KEY_CACHE_SIZE - 1
      BY <1>1, Sizes
    <3>. QED  BY <1>1, <2>2, <3>1 DEF Queue
  <2>. QED  BY <2>1, <2>2
<1>. QED  BY <1>1, <1>2, SeqDef, LenProperties

(* The queue holds the same keys if all that changes is which of them is   *)
(* in head and how far the cache has moved.                                *)
LEMMA SameQueue ==
  ASSUME key_loc' = key_loc, \A n \in 1 .. key_loc : Queue'[n] = Queue[n]
  PROVE  Queue' = Queue
  BY DEF Queue

LEMMA StoreIsPut ==
  ASSUME KInv, keyboard_callback, StoreKey
  PROVE  KQ!Put
<1>1. TypeOK /\ pc # "shift" /\ pc' = pc /\ taken' = taken /\ i' = i /\ head' = head
  BY DEF KInv, LockHolds, StoreKey, keyboard_callback, reader
<1>2. /\ key_loc \in Nat /\ Queue \in Seq(Char) /\ Len(Queue) = key_loc
      /\ DOMAIN Queue = 1 .. key_loc
  BY <1>1, QueueType
<1>3. newest' \in Char
  <2>1. outbuf \in Codes
    BY DEF KInv, TypeOK, ByteHolds, keyboard_callback
  <2>. QED  BY <2>1, Sizes DEF StoreKey
<1> DEFINE q == Append(Queue, newest')
<1>4. /\ q \in Seq(Char) /\ Len(q) = key_loc + 1 /\ DOMAIN q = 1 .. key_loc + 1
      /\ \A n \in 1 .. key_loc : q[n] = Queue[n]
      /\ q[key_loc + 1] = newest'
  BY <1>2, <1>3, AppendProperties, LenProperties
<1>5. Queue' = [n \in 1 .. key_loc + 1 |-> keycache'[n - 1]]
  BY <1>1 DEF Queue, StoreKey
<1>6. ASSUME NEW n \in 1 .. key_loc + 1
      PROVE  keycache'[n - 1] = q[n]
  <2>1. keycache \in [0 .. KEY_CACHE_SIZE - 1 -> Char] /\ key_loc \in 0 .. KEY_CACHE_SIZE - 1
    BY <1>1 DEF TypeOK
  <2>2. keycache'[key_loc] = newest'
    BY <2>1 DEF StoreKey
  <2>3. CASE n = key_loc + 1
    BY <1>2, <1>4, <2>2, <2>3
  <2>4. CASE n # key_loc + 1
    <3>1. n \in 1 .. key_loc /\ n - 1 \in 0 .. KEY_CACHE_SIZE - 1 /\ n - 1 # key_loc
      BY <1>2, <2>1, <2>4, Sizes
    <3>2. keycache'[n - 1] = keycache[n - 1]
      BY <2>1, <3>1 DEF StoreKey
    <3>3. Queue[n] = keycache[n - 1]
      BY <1>1, <3>1 DEF Queue
    <3>. QED  BY <1>4, <3>1, <3>2, <3>3
  <2>. QED  BY <2>3, <2>4
<1> HIDE DEF q
<1>7. Queue' = q
  <2>1. q = [n \in 1 .. key_loc + 1 |-> q[n]]
    BY <1>4, LenProperties
  <2>. QED  BY <1>5, <1>6, <2>1
<1>8. Len(Queue) < KEY_CACHE_SIZE - 1
  BY <1>2 DEF StoreKey
<1>. QED  BY <1>1, <1>3, <1>7, <1>8 DEF KQ!Put, q

LEMMA DropIsTake ==
  ASSUME KInv, DropKey
  PROVE  KQ!Take
<1>1. /\ TypeOK /\ pc = "shift" /\ pc' = "unlock" /\ key_loc # 0 /\ i = key_loc
      /\ key_loc' = key_loc - 1 /\ taken' = Append(taken, head) /\ UNCHANGED <<keycache, newest>>
  BY Sizes DEF KInv, LockHolds, DropKey, device, TypeOK
<1>2. /\ key_loc \in Nat /\ Queue \in Seq(Char) /\ Len(Queue) = key_loc
      /\ DOMAIN Queue = 1 .. key_loc
  BY <1>1, QueueType
<1>3. Queue # <<>> /\ Head(Queue) = head
  <2>1. Queue # <<>>
    BY <1>1, <1>2, EmptySeq
  <2>2. Queue[1] = head
    BY <1>1, <1>2 DEF Queue
  <2>. QED  BY <1>2, <2>1, <2>2
<1>4. taken' # <<>> /\ taken'[Len(taken')] = head
  <2>1. taken \in Seq(Char) /\ head \in Char
    BY <1>1 DEF TypeOK
  <2>. QED  BY <1>1, <2>1, AppendProperties, LenProperties
<1>5. Queue' = Tail(Queue)
  <2> DEFINE q == Tail(Queue)
  <2>1. /\ q \in Seq(Char) /\ Len(q) = key_loc - 1 /\ DOMAIN q = 1 .. key_loc - 1
        /\ \A n \in 1 .. key_loc - 1 : q[n] = Queue[n + 1]
    BY <1>2, <1>3, HeadTailProperties, LenProperties
  <2>2. Queue' = [n \in 1 .. key_loc - 1 |-> keycache[n - 1]]
    BY <1>1 DEF Queue
  <2>3. \A n \in 1 .. key_loc - 1 : Queue[n + 1] = keycache[n - 1]
    BY <1>1, <1>2 DEF Queue
  <2> HIDE DEF q
  <2>4. q = [n \in 1 .. key_loc - 1 |-> q[n]]
    BY <2>1, LenProperties
  <2>5. Queue' = q
    BY <2>1, <2>2, <2>3, <2>4
  <2>. QED  BY <2>5 DEF q
<1>. QED  BY <1>1, <1>3, <1>4, <1>5 DEF KQ!Take

(* Every other statement of the reader leaves the queue as it is.          *)
LEMMA ShiftStutters ==
  ASSUME KInv, ShiftKey
  PROVE  Queue' = Queue
<1>1. /\ TypeOK /\ pc = "shift" /\ pc' = pc /\ i < key_loc /\ i' = i + 1
      /\ key_loc' = key_loc /\ head' = head
      /\ keycache' = [keycache EXCEPT ![i] = keycache[i + 1]]
  BY DEF KInv, ShiftKey
<1>2. /\ i \in Nat /\ key_loc \in Nat /\ key_loc <= KEY_CACHE_SIZE - 1
      /\ keycache \in [0 .. KEY_CACHE_SIZE - 1 -> Char]
  BY <1>1, Sizes DEF TypeOK
<1>3. /\ keycache'[i] = keycache[i + 1]
      /\ \A n \in 0 .. KEY_CACHE_SIZE - 1 : n # i => keycache'[n] = keycache[n]
  BY <1>1, <1>2, Sizes
<1>4. ASSUME NEW n \in 1 .. key_loc
      PROVE  Queue'[n] = Queue[n]
  <2>1. Queue[n] = IF n > i + 1 THEN keycache[n - 1] ELSE IF n = 1 THEN head ELSE keycache[n - 2]
    BY <1>1 DEF Queue
  <2>2. Queue'[n] = IF n > i + 2 THEN keycache'[n - 1] ELSE IF n = 1 THEN head ELSE keycache'[n - 2]
    BY <1>1, <1>2 DEF Queue
  <2>3. CASE n > i + 2
    <3>1. n - 1 \in 0 .. KEY_CACHE_SIZE - 1 /\ n - 1 # i /\ n > i + 1
      BY <1>2, <2>3, Sizes
    <3>. QED  BY <1>3, <2>1, <2>2, <2>3, <3>1
  <2>4. CASE n = i + 2
    BY <1>2, <1>3, <2>1, <2>2, <2>4
  <2>5. CASE n < i + 2
    BY <1>2, <1>3, <2>1, <2>2, <2>5, Sizes
  <2>. QED  BY <1>2, <2>3, <2>4, <2>5
<1>. QED  BY <1>1, <1>4, SameQueue

LEMMA ReaderStutters ==
  ASSUME KInv, get_keyboard_key, ~DropKey
  PROVE  UNCHANGED <<Queue, newest, taken>>
<1>1. ASSUME UNCHANGED <<keycache, key_loc, pc, i, head>>
      PROVE  Queue' = Queue
  BY <1>1 DEF Queue
<1>2. ASSUME UNCHANGED <<keycache, key_loc>>, pc # "shift", pc' # "shift"
      PROVE  Queue' = Queue
  BY <1>2 DEF Queue
<1>3. CASE TakeKey
  <2>1. key_loc \in Nat /\ key_loc' = key_loc /\ pc # "shift" /\ pc' = "shift" /\ i' = 0
        /\ keycache' = keycache /\ head' = keycache[0]
    BY <1>3, QueueType DEF TakeKey, KInv
  <2>2. ASSUME NEW n \in 1 .. key_loc
        PROVE  Queue'[n] = Queue[n]
    <3>1. Queue[n] = keycache[n - 1]
      BY <2>1 DEF Queue
    <3>2. Queue'[n] = IF n > 1 THEN keycache[n - 1] ELSE keycache[0]
      BY <2>1 DEF Queue
    <3>. QED  BY <3>1, <3>2
  <2>. QED  BY <1>3, <2>1, <2>2, SameQueue DEF TakeKey, device
<1>4. CASE ShiftKey
  BY <1>4, ShiftStutters DEF ShiftKey, device
<1>5. CASE ClearCh
  BY <1>2, <1>5 DEF ClearCh, device
<1>6. CASE CheckKeyLoc
  BY <1>2, <1>6 DEF CheckKeyLoc, device
<1>7. CASE mutex_lock
  BY <1>2, <1>7 DEF mutex_lock, device
<1>8. CASE mutex_unlock
  BY <1>2, <1>8 DEF mutex_unlock, device
<1>9. CASE ReturnCh
  BY <1>2, <1>9 DEF ReturnCh, device
<1>. QED  BY <1>3, <1>4, <1>5, <1>6, <1>7, <1>8, <1>9 DEF get_keyboard_key

LEMMA NextIsQueue == KInv /\ [Next]_vars => [KQ!Next]_(KQ!vars)
<1> SUFFICES ASSUME KInv, [Next]_vars
             PROVE  [KQ!Next]_(KQ!vars)
  OBVIOUS
<1>1. ASSUME UNCHANGED <<keycache, key_loc, pc, i, head, newest, taken>>
      PROVE  UNCHANGED KQ!vars
  BY <1>1 DEF KQ!vars, Queue
<1>2. ASSUME NEW code \in Codes, Type(code)
      PROVE  UNCHANGED KQ!vars
  BY <1>1, <1>2 DEF Type, reader
<1>3. ASSUME keyboard_callback
      PROVE  [KQ!Next]_(KQ!vars)
  <2>1. CASE StoreKey
    BY <1>3, <2>1, StoreIsPut DEF KQ!Next
  <2>2. CASE CacheFull \/ LockHeld
    BY <1>1, <1>3, <2>2 DEF CacheFull, LockHeld, keyboard_callback, reader
  <2>. QED  BY <1>3, <2>1, <2>2 DEF keyboard_callback
<1>4. ASSUME get_keyboard_key
      PROVE  [KQ!Next]_(KQ!vars)
  <2>1. CASE DropKey
    BY <2>1, DropIsTake DEF KQ!Next
  <2>2. CASE ~DropKey
    BY <1>4, <2>2, ReaderStutters DEF KQ!vars
  <2>. QED  BY <2>1, <2>2
<1>5. CASE UNCHANGED vars
  BY <1>1, <1>5 DEF vars, reader, device
<1>. QED  BY <1>2, <1>3, <1>4, <1>5 DEF Next

(* The cache, its lock and the loop that shifts it implement a bounded     *)
(* queue, whatever interrupts fall between the statements (keyboard.c).    *)
THEOREM QueueRefined == Spec => ImplementsKeyQueue
<1>1. Init => KQ!Init
  <2> SUFFICES ASSUME Init
               PROVE  KQ!Init
    OBVIOUS
  <2>1. key_loc = 0 /\ taken = <<>> /\ newest = Nul
    BY DEF Init
  <2>2. TypeOK
    BY InitKInv DEF KInv
  <2>3. Queue = <<>>
    BY <2>1, <2>2, QueueType, EmptySeq
  <2>. QED  BY <2>1, <2>3, Sizes DEF KQ!Init
<1>. QED  BY <1>1, NextIsQueue, Invariance, PTL DEF Spec, ImplementsKeyQueue, KQ!Spec

=============================================================================
