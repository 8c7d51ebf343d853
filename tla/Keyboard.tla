------------------------------ MODULE Keyboard ------------------------------
(***************************************************************************)
(* src/keyboard.c and src/mutex.c: the keyboard interrupt, which stores a  *)
(* key, against get_keyboard_key, which the terminal polls, which takes    *)
(* one.  The processor is one: the interrupt runs to its end, with         *)
(* interrupts off, between two instructions of the reader.  A step of the  *)
(* reader is a statement that touches what the interrupt touches too.      *)
(***************************************************************************)
EXTENDS Integers, Sequences

CONSTANTS
  KEY_CACHE_SIZE,
  Codes,                \* the scan codes that are typed
  MaxTyped              \* bound: how many are typed

ASSUME KeyboardAssumption ==
  /\ KEY_CACHE_SIZE \in Nat \ {0, 1}
  /\ Codes \subseteq 1 .. 255
  /\ MaxTyped \in Nat

Nul == "nul"

qwertyuiop == <<"q", "w", "e", "r", "t", "y", "u", "i", "o", "p", Nul>>
asdfghjkl  == <<"a", "s", "d", "f", "g", "h", "j", "k", "l">>
zxcvbnm    == <<"z", "x", "c", "v", "b", "n", "m">>
num        == <<"1", "2", "3", "4", "5", "6", "7", "8", "9">>

(* Every other code, the release of a key among them, translates to 0.     *)
keyboard_to_ascii(key) ==
  CASE key = 28 -> "newline"      [] key = 57 -> "space"
    [] key = 14 -> "return"       [] key = 52 -> "."
    [] key = 53 -> "/"            [] key = 11 -> "0"
    [] key \in 2 .. 10  -> num[key - 1]
    [] key \in 16 .. 26 -> qwertyuiop[key - 15]
    [] key \in 30 .. 38 -> asdfghjkl[key - 29]
    [] key \in 44 .. 50 -> zxcvbnm[key - 43]
    [] OTHER -> Nul

Char == {keyboard_to_ascii(key) : key \in Codes} \cup {Nul}

VARIABLES
  ch_in_lock_word,      \* the linker put ch in the word that starts at the lock
  locked,               \* key_loc_mtx
  keycache, key_loc,    \* the keys stored and their number
  ch,                   \* static: what get_keyboard_key returns
  pc, i,                \* get_keyboard_key's next statement and loop index
  head,                 \* the key being taken (history)
  outbuf, irq,          \* the keyboard controller: its byte, its interrupt
  typed,                \* how many codes it was given
  missed,               \* an interrupt left the byte in the controller (history)
  newest,               \* the key stored last (history)
  taken, delivered      \* keys taken, keys the terminal got (history)

reader  == <<pc, i, head, taken, delivered>>
device  == <<outbuf, irq, typed, missed, newest>>
vars    == <<ch_in_lock_word, locked, keycache, key_loc, ch, reader, device>>

NoByte == 0

(* Where ch lies is the linker's choice, made once.                        *)
Init ==
  /\ ch_in_lock_word \in BOOLEAN
  /\ locked = 0
  /\ keycache = [n \in 0 .. KEY_CACHE_SIZE - 1 |-> Nul]
  /\ key_loc = 0
  /\ ch = Nul
  /\ pc = "clear" /\ i = 0 /\ head = Nul
  /\ outbuf = NoByte /\ irq = FALSE
  /\ typed = 0 /\ missed = FALSE /\ newest = Nul
  /\ taken = <<>> /\ delivered = <<>>

-----------------------------------------------------------------------------
(* The controller offers the next byte, and raises the interrupt, once the *)
(* byte before has been read from port 0x60.                               *)
Type(code) ==
  /\ outbuf = NoByte
  /\ typed < MaxTyped
  /\ outbuf' = code
  /\ irq' = TRUE
  /\ typed' = typed + 1
  /\ UNCHANGED <<locked, keycache, key_loc, ch, reader, missed, newest>>

(* mutex_lock and mutex_trylock exchange the lock's byte and its three     *)
(* neighbours with 1: the neighbours become 0.                             *)
xchg ==
  /\ locked' = 1
  /\ ch' = IF ch_in_lock_word THEN Nul ELSE ch

(* mutex_trylock looks at the byte that was the lock.                      *)
StoreKey ==
  /\ locked = 0
  /\ key_loc < KEY_CACHE_SIZE - 1
  /\ keycache' = [keycache EXCEPT ![key_loc] = keyboard_to_ascii(outbuf)]
  /\ key_loc' = key_loc + 1
  /\ newest' = keyboard_to_ascii(outbuf)
  /\ outbuf' = NoByte
  /\ UNCHANGED <<locked, missed>>

CacheFull ==
  /\ locked = 0
  /\ key_loc >= KEY_CACHE_SIZE - 1
  /\ missed' = TRUE
  /\ UNCHANGED <<locked, keycache, key_loc, outbuf, newest>>

(* Mutant of LockHeld: the result of mutex_trylock is ignored.             *)
LockHeldStores ==
  /\ locked = 1
  /\ key_loc < KEY_CACHE_SIZE - 1
  /\ keycache' = [keycache EXCEPT ![key_loc] = keyboard_to_ascii(outbuf)]
  /\ key_loc' = key_loc + 1
  /\ newest' = keyboard_to_ascii(outbuf)
  /\ outbuf' = NoByte
  /\ locked' = 0
  /\ UNCHANGED missed

LockHeld ==
  /\ locked = 1
  /\ missed' = TRUE
  /\ UNCHANGED <<locked, keycache, key_loc, outbuf, newest>>

(* Mutants of keyboard_callback: ch is wiped wherever it lies; the         *)
(* interrupt stays pending.                                                *)
keyboard_callback_wipes ==
  /\ irq
  /\ irq' = FALSE
  /\ ch' = Nul
  /\ StoreKey \/ CacheFull \/ LockHeld
  /\ UNCHANGED <<reader, typed>>

keyboard_callback_pending ==
  /\ irq
  /\ ch' = IF ch_in_lock_word THEN Nul ELSE ch
  /\ StoreKey \/ CacheFull \/ LockHeld
  /\ irq' = (outbuf' # NoByte)
  /\ UNCHANGED <<reader, typed>>

(* irq_handler acknowledges the interrupt before it calls the handler.     *)
keyboard_callback ==
  /\ irq
  /\ irq' = FALSE
  /\ ch' = IF ch_in_lock_word THEN Nul ELSE ch
  /\ StoreKey \/ CacheFull \/ LockHeld
  /\ UNCHANGED <<reader, typed>>

-----------------------------------------------------------------------------
(* Mutant of ClearCh: the key returned before is left in ch.               *)
ClearChForgotten ==
  /\ pc = "clear"
  /\ pc' = "check"
  /\ UNCHANGED <<locked, keycache, key_loc, ch, i, head, taken, delivered, device>>

(* get_keyboard_key, one statement at a time.                              *)
ClearCh ==
  /\ pc = "clear"
  /\ ch' = Nul
  /\ pc' = "check"
  /\ UNCHANGED <<locked, keycache, key_loc, i, head, taken, delivered, device>>

CheckKeyLoc ==
  /\ pc = "check"
  /\ pc' = IF key_loc # 0 THEN "lock" ELSE "return"
  /\ UNCHANGED <<locked, keycache, key_loc, ch, i, head, taken, delivered, device>>

(* mutex_lock tests all 32 bits that the exchange returned: it goes round  *)
(* again when a neighbour of the lock was not 0.                           *)
mutex_lock ==
  /\ pc = "lock"
  /\ xchg
  /\ pc' = IF locked = 0 /\ (ch_in_lock_word => ch = Nul) THEN "take" ELSE "lock"
  /\ UNCHANGED <<keycache, key_loc, i, head, taken, delivered, device>>

TakeKey ==
  /\ pc = "take"
  /\ ch' = keycache[0]
  /\ head' = keycache[0]
  /\ i' = 0
  /\ pc' = "shift"
  /\ UNCHANGED <<locked, keycache, key_loc, taken, delivered, device>>

ShiftKey ==
  /\ pc = "shift"
  /\ i < key_loc
  /\ keycache' = [keycache EXCEPT ![i] = keycache[i + 1]]
  /\ i' = i + 1
  /\ UNCHANGED <<locked, key_loc, ch, pc, head, taken, delivered, device>>

DropKey ==
  /\ pc = "shift"
  /\ i >= key_loc
  /\ key_loc' = key_loc - 1
  /\ taken' = Append(taken, head)
  /\ pc' = "unlock"
  /\ UNCHANGED <<locked, keycache, ch, i, head, delivered, device>>

(* Mutant of mutex_unlock: the lock is kept.                               *)
mutex_unlock_forgotten ==
  /\ pc = "unlock"
  /\ pc' = "return"
  /\ UNCHANGED <<locked, keycache, key_loc, ch, i, head, taken, delivered, device>>

mutex_unlock ==
  /\ pc = "unlock"
  /\ locked' = 0
  /\ pc' = "return"
  /\ UNCHANGED <<keycache, key_loc, ch, i, head, taken, delivered, device>>

(* The terminal ignores a 0 and calls again.                               *)
ReturnCh ==
  /\ pc = "return"
  /\ delivered' = IF ch = Nul THEN delivered ELSE Append(delivered, ch)
  /\ pc' = "clear"
  /\ UNCHANGED <<locked, keycache, key_loc, ch, i, head, taken, device>>

get_keyboard_key ==
  \/ ClearCh \/ CheckKeyLoc \/ mutex_lock \/ TakeKey
  \/ ShiftKey \/ DropKey \/ mutex_unlock \/ ReturnCh

Next ==
  /\ UNCHANGED ch_in_lock_word
  /\ \/ \E code \in Codes : Type(code)
     \/ keyboard_callback
     \/ get_keyboard_key

(* The terminal's loop never ends, and the processor takes an interrupt    *)
(* that is pending while interrupts are on.  Nobody has to type.           *)
Fairness ==
  /\ WF_vars(keyboard_callback /\ UNCHANGED ch_in_lock_word)
  /\ WF_vars(get_keyboard_key /\ UNCHANGED ch_in_lock_word)

Spec == Init /\ [][Next]_vars /\ Fairness

-----------------------------------------------------------------------------
(* Type correctness of the driver's state.                                 *)
TypeOK ==
  /\ ch_in_lock_word \in BOOLEAN
  /\ locked \in {0, 1}
  /\ keycache \in [0 .. KEY_CACHE_SIZE - 1 -> Char]
  /\ key_loc \in 0 .. KEY_CACHE_SIZE - 1
  /\ ch \in Char /\ head \in Char /\ newest \in Char
  /\ pc \in {"clear", "check", "lock", "take", "shift", "unlock", "return"}
  /\ i \in 0 .. KEY_CACHE_SIZE - 1
  /\ outbuf \in Codes \cup {NoByte} /\ irq \in BOOLEAN /\ missed \in BOOLEAN
  /\ typed \in 0 .. MaxTyped
  /\ taken \in Seq(Char) /\ delivered \in Seq(Char)

(* The keys that the terminal has been given, or is about to be.           *)
Returned == IF pc \in {"unlock", "return"} /\ ch # Nul THEN Append(delivered, ch) ELSE delivered

(* keys are what was taken at these places, in the order it was taken.     *)
IsSelection(keys, places) ==
  \E at \in [DOMAIN keys -> places] :
    /\ \A m, n \in DOMAIN keys : m < n => at[m] < at[n]
    /\ \A p \in places : \E n \in DOMAIN keys : at[n] = p
    /\ \A n \in DOMAIN keys : keys[n] = taken[at[n]]

(* A key taken from the cache reaches the terminal if ch lies away from    *)
(* the lock: nothing else comes between the read of the key and the return *)
(* that could change ch.                                                   *)
TakenKeysReachTerminal ==
  ~ch_in_lock_word => IsSelection(Returned, {n \in DOMAIN taken : taken[n] # Nul})

(* The keys the terminal gets are among the keys taken, in the order they  *)
(* were taken, even when an interrupt wipes ch on its way; the driver keeps*)
(* its indices inside the cache.                                           *)
DeliveredInOrder == TypeOK /\ \E kept \in SUBSET DOMAIN taken : IsSelection(delivered, kept)

(* An interrupt that finds the lock held, or the cache full, leaves the    *)
(* byte in the controller.  As nothing else reads the port the keyboard is *)
(* dead from then on: no later key is ever stored.                         *)
MissedInterruptIsTheLast ==
  [][missed => outbuf' = outbuf /\ ~irq']_vars

(* mutex_lock always gets the lock: the byte is free, because the          *)
(* interrupt never keeps it, and its neighbours are 0 when it asks.        *)
LockIsAcquired == pc = "lock" ~> pc = "take"

(* Every key that is stored is taken, and in the end the cache is empty or *)
(* new keys have come.                                                     *)
StoredKeysAreTaken == \A n \in 1 .. MaxTyped :
  Len(taken) + key_loc >= n ~> Len(taken) >= n

(* While a key is being taken it is still the first of the queue; the      *)
(* cache below i has moved down already.                                   *)
Queue ==
  [n \in 1 .. key_loc |->
     IF pc # "shift" \/ n > i + 1 THEN keycache[n - 1]
     ELSE IF n = 1 THEN head ELSE keycache[n - 2]]

KQ == INSTANCE KeyQueue WITH
  Capacity <- KEY_CACHE_SIZE - 1,
  queue    <- Queue,
  last     <- IF taken = <<>> THEN Nul ELSE taken[Len(taken)]

(* The cache, its lock and the shifting loop are a bounded queue, however  *)
(* interrupts fall between the statements of get_keyboard_key.             *)
ImplementsKeyQueue == KQ!Spec

=============================================================================
