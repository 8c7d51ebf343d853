-------------------------- MODULE LockedAllocator --------------------------
(***************************************************************************)
(* The exported functions of src/alloc.c: each takes mem_lock, calls the   *)
(* allocator of SlabAllocator and gives the lock back.  klrealloc calls    *)
(* the exported malloc and free, lock and all, for its two special cases,  *)
(* so the calls in progress are a stack.                                   *)
(***************************************************************************)
EXTENDS SlabAllocator

VARIABLES
  mem_lock,
  frames                \* the calls in progress, the innermost first

locked_vars == <<mem_lock, frames, vars>>

LInit == Init /\ mem_lock = 0 /\ frames = <<>>

Frame(fn, ptr, size) == [fn |-> fn, ptr |-> ptr, size |-> size, pc |-> "lock"]

At(pc) == frames # <<>> /\ Head(frames).pc = pc

Goto(pc) == [frames EXCEPT ![1].pc = pc]

(* The kernel calls from one place at a time: no interrupt handler uses    *)
(* the heap.                                                               *)
Call(fn, ptr, size) ==
  /\ Running
  /\ frames = <<>>
  /\ frames' = <<Frame(fn, ptr, size)>>
  /\ UNCHANGED <<mem_lock, vars>>

(* An exchange; the caller goes round until it gets a 0.                   *)
mutex_lock ==
  /\ At("lock")
  /\ mem_lock' = 1
  /\ frames' = IF mem_lock = 0 THEN Goto("body") ELSE frames
  /\ UNCHANGED vars

Special(frame) == frame.fn = "realloc" /\ (frame.ptr = NULL \/ frame.size = 0)

(* Mutant of Body: a call that got no block tries once more.               *)
Body_tries_again ==
  /\ At("body")
  /\ ~Special(Head(frames))
  /\ LET call == Head(frames)
     IN  \/ call.fn = "malloc"  /\ malloc(call.size)
         \/ call.fn = "calloc"  /\ calloc(1, call.size)
         \/ call.fn = "valloc"  /\ valloc(call.size)
         \/ call.fn = "free"    /\ free(call.ptr)
         \/ call.fn = "realloc" /\ realloc(call.ptr, call.size)
  /\ frames' = IF heap'.ret = NULL THEN frames ELSE Goto("unlock")
  /\ UNCHANGED mem_lock

Body ==
  /\ At("body")
  /\ ~Special(Head(frames))
  /\ LET call == Head(frames)
     IN  \/ call.fn = "malloc"  /\ malloc(call.size)
         \/ call.fn = "calloc"  /\ calloc(1, call.size)
         \/ call.fn = "valloc"  /\ valloc(call.size)
         \/ call.fn = "free"    /\ free(call.ptr)
         \/ call.fn = "realloc" /\ realloc(call.ptr, call.size)
  /\ frames' = Goto("unlock")
  /\ UNCHANGED mem_lock

(* realloc of NULL is malloc, realloc to 0 bytes is free.                  *)
NestedCall ==
  /\ At("body")
  /\ Special(Head(frames))
  /\ LET call == Head(frames)
     IN  frames' = <<IF call.ptr = NULL THEN Frame("malloc", NULL, call.size)
                     ELSE Frame("free", call.ptr, 0)>> \o Goto("unlock")
  /\ UNCHANGED <<mem_lock, vars>>

(* Mutant of mutex_unlock: the lock is given back only if the call got a   *)
(* block.                                                                  *)
mutex_unlock_on_success ==
  /\ At("unlock") /\ Running
  /\ mem_lock' = IF heap.ret = NULL THEN mem_lock ELSE 0
  /\ frames' = Tail(frames)
  /\ UNCHANGED vars

mutex_unlock ==
  /\ At("unlock") /\ Running
  /\ mem_lock' = 0
  /\ frames' = Tail(frames)
  /\ UNCHANGED vars

Step == mutex_lock \/ Body \/ NestedCall \/ mutex_unlock

Reallocable == DOMAIN blocks \ page_aligned

OrdinaryCall ==
  \/ \E size \in Requests, fn \in {"malloc", "calloc", "valloc"} : Call(fn, NULL, size)
  \/ \E ptr \in DOMAIN blocks \cup {NULL} : Call("free", ptr, 0)
  \/ \E ptr \in Reallocable, size \in Requests : Call("realloc", ptr, size)

SpecialCall ==
  \/ \E size \in Requests : Call("realloc", NULL, size)
  \/ \E ptr \in Reallocable : Call("realloc", ptr, 0)

(* A call in progress is the kernel's running code, and goes on.           *)
LSpec ==
  LInit /\ [][OrdinaryCall \/ mutex_lock \/ Body \/ mutex_unlock]_locked_vars
        /\ WF_locked_vars(Step)

(* With callers that use the two special cases that the C standard gives   *)
(* realloc.                                                                *)
LSpecSpecial ==
  LInit /\ [][OrdinaryCall \/ SpecialCall \/ Step]_locked_vars
        /\ WF_locked_vars(Step)

-----------------------------------------------------------------------------
(* A call that comes to the lock from outside finds it free: no path       *)
(* through an earlier call, failed or not, has kept it.  The only call that*)
(* waits is the one klrealloc makes inside itself.                         *)
LockIsFreeOutside ==
  /\ At("lock") => (mem_lock = 0 <=> Len(frames) = 1)
  /\ frames = <<>> => mem_lock = 0

(* What happens to the heap under the lock is what SlabAllocator allows of *)
(* its callers: a block is still the caller's when free or realloc, waiting*)
(* for the lock, get to it.                                                *)
ImplementsAllocator == Spec

(* Every call of the allocator returns, unless the machine has stopped: no *)
(* path through malloc, calloc, valloc, free or realloc keeps the lock.    *)
CallsReturn == frames # <<>> ~> (frames = <<>> \/ ~Running)

(* "When NULL is passed to realloc, simply malloc the requested size and   *)
(* return a pointer to that" (the comment of klrealloc, alloc.c line 870). *)
ReallocOfNullReturns ==
  (frames # <<>> /\ Last(frames).fn = "realloc" /\ Last(frames).ptr = NULL)
    ~> (frames = <<>> \/ ~Running)

=============================================================================
