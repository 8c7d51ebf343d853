--------------------------- MODULE MemoryManager ---------------------------
(***************************************************************************)
(* src/memory_manager.c: the physical page allocator.  One bitmap per      *)
(* segment (code, data) lies in the data segment just above the kernel's   *)
(* data; init_memory_bitmap sets it up once at boot and alloc_page and     *)
(* free_page serve every later request.  The two bitmaps never move, so    *)
(* the pools are named "code" and "data" where the code compares pointers. *)
(***************************************************************************)
EXTENDS KBitmap

CONSTANTS
  PAGE_SIZE,            \* bytes of a page; a bitmap page is as many bytes
  kernel_code_size,     \* linker-script.ld: bytes of kernel code, page aligned
  kernel_data_size,     \* linker-script.ld: bytes of kernel data, page aligned
  code_segment_len,     \* bytes, from the loader
  data_segment_len,     \* bytes, from the loader
  Residue               \* bytes that RAM may hold before the kernel clears it

Pool == {"code", "data"}

(* memory_bitmap.code_size and memory_bitmap.data_size, in pages.          *)
bitmap_size(pool) ==
  (IF pool = "code" THEN code_segment_len ELSE data_segment_len) \div PAGE_SIZE

(* Pages that the bitmap of a pool takes in the data segment.              *)
bitmap_pages(pool) ==
  LET bytes == bitmap_in_bytes(bitmap_size(pool))
  IN  IF bytes % PAGE_SIZE # 0 THEN (bytes \div PAGE_SIZE) + 1
                               ELSE bytes \div PAGE_SIZE

data_top_address ==
  kernel_data_size + PAGE_SIZE * bitmap_pages("code")
                   + PAGE_SIZE * bitmap_pages("data")

used_pages(pool) ==
  (IF pool = "code" THEN kernel_code_size ELSE data_top_address) \div PAGE_SIZE

(* The pages the kernel itself lives in: its image, with the bitmaps, and, *)
(* at the top of the data segment, its stack.                              *)
KernelPages(pool) ==
  (0 .. used_pages(pool) - 1)
     \cup (IF pool = "data" THEN {bitmap_size("data") - 1} ELSE {})

(* The linker aligns both kernel sections to a page and neither is empty,  *)
(* and the loader has copied the kernel into the two segments, with room   *)
(* for a stack page, before the kernel runs.                               *)
ASSUME SegmentsAssumption ==
  /\ PAGE_SIZE \in Nat \ {0}
  /\ kernel_code_size \in Nat \ {0} /\ kernel_code_size % PAGE_SIZE = 0
  /\ kernel_data_size \in Nat \ {0} /\ kernel_data_size % PAGE_SIZE = 0
  /\ code_segment_len \in Nat /\ data_segment_len \in Nat
  /\ used_pages("code") \in 1 .. bitmap_size("code")
  /\ used_pages("data") \in 1 .. bitmap_size("data") - 1
  /\ Residue \subseteq Byte

VARIABLES
  memory_bitmap_initialized,
  bitmap,     \* [Pool -> the bytes of code_bitmap and data_bitmap]
  panicked,   \* TRUE once an ASSERT has failed: panic_assert never returns
  ret,        \* the address the last alloc_page returned
  owned       \* the page numbers that callers hold (history)

vars == <<memory_bitmap_initialized, bitmap, panicked, ret, owned>>

NULL == 0

(* A bitmap's memory before the kernel has written to it.                  *)
RawBitmap(pool) == [0 .. bitmap_in_bytes(bitmap_size(pool)) - 1 -> Residue]

Init ==
  /\ memory_bitmap_initialized = FALSE
  /\ \E code \in RawBitmap("code"), data \in RawBitmap("data") :
       bitmap = [p \in Pool |-> IF p = "code" THEN code ELSE data]
  /\ panicked = FALSE
  /\ ret = NULL
  /\ owned = [p \in Pool |-> {}]

(* memset(bitmap, 0x0, PAGE_SIZE): the first page of it, however many      *)
(* pages the bitmap takes.                                                 *)
cleared(bytes) ==
  [offset \in DOMAIN bytes |-> IF offset < PAGE_SIZE THEN {} ELSE bytes[offset]]

init_memory_bitmap ==
  /\ ~panicked
  /\ ~memory_bitmap_initialized
  /\ bitmap' = [p \in Pool |-> set_bits(cleared(bitmap[p]), KernelPages(p))]
  /\ memory_bitmap_initialized' = TRUE
  /\ UNCHANGED <<panicked, ret, owned>>

(* alloc_page, the body of alloc_code_page and alloc_data_page.            *)
AllocTooEarly(pool) ==
  /\ ~memory_bitmap_initialized
  /\ ret' = NULL
  /\ UNCHANGED <<memory_bitmap_initialized, bitmap, panicked, owned>>

AllocFull(pool) ==
  /\ memory_bitmap_initialized
  /\ first_clear_bit(bitmap[pool], bitmap_size(pool)) = NoBit
  /\ ret' = NULL
  /\ UNCHANGED <<memory_bitmap_initialized, bitmap, panicked, owned>>

AllocAssertFails(pool) ==
  /\ memory_bitmap_initialized
  /\ first_clear_bit(bitmap[pool], bitmap_size(pool)) # NoBit
  /\ first_clear_bit(bitmap[pool], bitmap_size(pool)) >= bitmap_size(pool)
  /\ panicked' = TRUE
  /\ UNCHANGED <<memory_bitmap_initialized, bitmap, ret, owned>>

(* Mutant of AllocPage: the assertion is left out.                         *)
AllocPage_without_assert(pool) ==
  LET bitmap_index == first_clear_bit(bitmap[pool], bitmap_size(pool))
  IN  /\ memory_bitmap_initialized
      /\ bitmap_index # NoBit
      /\ bitmap' = [bitmap EXCEPT ![pool] = set_bit(@, bitmap_index)]
      /\ ret' = bitmap_index * PAGE_SIZE
      /\ owned' = [owned EXCEPT ![pool] = @ \cup {bitmap_index}]
      /\ UNCHANGED <<memory_bitmap_initialized, panicked>>

AllocPage(pool) ==
  LET bitmap_index == first_clear_bit(bitmap[pool], bitmap_size(pool))
  IN  /\ memory_bitmap_initialized
      /\ bitmap_index # NoBit
      /\ bitmap_index < bitmap_size(pool)
      /\ bitmap' = [bitmap EXCEPT ![pool] = set_bit(@, bitmap_index)]
      /\ ret' = bitmap_index * PAGE_SIZE
      \* a caller takes a NULL return for a failure
      /\ owned' = IF ret' = NULL THEN owned
                  ELSE [owned EXCEPT ![pool] = @ \cup {bitmap_index}]
      /\ UNCHANGED <<memory_bitmap_initialized, panicked>>

alloc_page(pool) ==
  /\ ~panicked
  /\ \/ AllocTooEarly(pool)
     \/ AllocFull(pool)
     \/ AllocAssertFails(pool)
     \/ AllocPage(pool)

(* Mutant of free_page: the bit stays set.                                 *)
free_page_leaks(pool) ==
  /\ ~panicked
  /\ memory_bitmap_initialized
  /\ \E bitmap_index \in owned[pool] :
       owned' = [owned EXCEPT ![pool] = @ \ {bitmap_index}]
  /\ UNCHANGED <<memory_bitmap_initialized, bitmap, panicked, ret>>

(* free_page, the body of free_code_page and free_data_page: a caller      *)
(* returns a page it holds.                                                *)
free_page(pool) ==
  /\ ~panicked
  /\ memory_bitmap_initialized
  /\ \E bitmap_index \in owned[pool] :
       /\ bitmap' = IF bitmap_index < bitmap_size(pool)
                    THEN [bitmap EXCEPT ![pool] = clear_bit(@, bitmap_index)]
                    ELSE bitmap
       /\ owned' = [owned EXCEPT ![pool] = @ \ {bitmap_index}]
  /\ UNCHANGED <<memory_bitmap_initialized, panicked, ret>>

Next ==
  \/ init_memory_bitmap
  \/ \E pool \in Pool : alloc_page(pool) \/ free_page(pool)

Spec == Init /\ [][Next]_vars

-----------------------------------------------------------------------------
Free(pool) ==
  {n \in 0 .. bitmap_size(pool) - 1 : ~test_bit(bitmap[pool], n)}

(* Type correctness of the allocator's state.                              *)
TypeOK ==
  /\ memory_bitmap_initialized \in BOOLEAN
  /\ DOMAIN bitmap = Pool
  /\ \A p \in Pool : bitmap[p] \in Bitmap(bitmap_size(p))
  /\ panicked \in BOOLEAN
  /\ ret \in Nat
  /\ DOMAIN owned = Pool
  /\ \A p \in Pool : owned[p] \subseteq 0 .. bitmap_size(p) - 1

(* Every page has one use: what a caller holds is marked in the bitmap and *)
(* is none of the pages of the kernel's image, of the bitmaps or of the    *)
(* kernel's stack, and those stay marked, so that after any sequence of    *)
(* allocations and frees nobody else can be given them.                    *)
PagesHaveOneUse ==
  /\ TypeOK
  /\ \A p \in Pool : owned[p] \cap (Free(p) \cup KernelPages(p)) = {}
  /\ memory_bitmap_initialized => \A p \in Pool : KernelPages(p) \cap Free(p) = {}

(* A page that was allocated is never address 0, which alloc_page's        *)
(* callers read as a failure: they would leak it.                          *)
AllocationIsNotNull ==
  memory_bitmap_initialized => \A p \in Pool : 0 \notin Free(p) \cup owned[p]

(* After boot pages only move between the bitmap and the callers: no call  *)
(* leaks one, and none invents one.                                        *)
PagesAreConserved ==
  [][memory_bitmap_initialized =>
       \A p \in Pool : Free(p)' \cup owned'[p] = Free(p) \cup owned[p]]_vars

(* The assertion of alloc_page, memory_manager.c line 36: the index the    *)
(* bitmap returns lies inside the segment.                                 *)
AssertIndexInSegment == ~panicked

(* What does hold of that assertion: it stops the machine only when a pool *)
(* is exhausted whose pages do not fill the last byte of its bitmap; any   *)
(* other exhausted pool makes alloc_page return NULL.                      *)
AssertFailsOnExhaustion ==
  panicked => \E p \in Pool : Free(p) = {} /\ bitmap_size(p) % 8 # 0

(* The pages marked at boot are the used pages and the stack's top page    *)
(* (the comments of init_memory_bitmap): every other page is available or  *)
(* held by a caller.                                                       *)
OnlyUsedPagesMarked ==
  memory_bitmap_initialized =>
    \A p \in Pool : 0 .. bitmap_size(p) - 1 = KernelPages(p) \cup Free(p) \cup owned[p]

(* The bitmaps implement the page allocator of PageAllocator.              *)
Address(pages) == {n * PAGE_SIZE : n \in pages}

Abstract == INSTANCE PageAllocator WITH
  Frames <- [p \in Pool |-> Address(0 .. bitmap_size(p) - 1)],
  live   <- memory_bitmap_initialized,
  avail  <- [p \in Pool |-> IF memory_bitmap_initialized
                            THEN Address(Free(p)) ELSE {}],
  owned  <- [p \in Pool |-> Address(owned[p])],
  halted <- panicked

(* Every step of the bitmaps is a step that the allocator's callers were   *)
(* promised: a fresh page, NULL from an exhausted pool, a page returned.   *)
ImplementsPageAllocator == Abstract!Spec

=============================================================================
