--------------------------- MODULE SlabAllocator ---------------------------
(***************************************************************************)
(* src/alloc.c: the slab allocator over sbrk of src/kheap.c.  Addresses    *)
(* are byte numbers, so the places of cells and headers are the code's     *)
(* own arithmetic.  A bin's stack of free cells, chained through the cells *)
(* in memory, is a sequence; the list of free big bins is the lowest level *)
(* of SkipList, a sequence by size, the newest first among equals.  A call *)
(* runs under mem_lock from beginning to end (LockedAllocator): one step.  *)
(***************************************************************************)
EXTENDS Integers, Sequences, SequencesExt

CONSTANTS
  PAGE_SIZE,
  NUM_BINS, SMALLEST_BIN_LOG,
  bin_header,           \* sizeof(klmalloc_bin_header)
  big_bin_header,       \* sizeof(klmalloc_big_bin_header)
  heap_start, heap_size,        \* of kheap.c, multiples of PAGE_SIZE
  Requests              \* the sizes that callers ask for

BIG_BIN == NUM_BINS - 1

(* 1 << k.                                                                 *)
Power[k \in Nat] == IF k = 0 THEN 1 ELSE 2 * Power[k - 1]

(* The cells of the largest small bin fit a page beside either header, and *)
(* the size of a big bin is no index of a small one.                       *)
ASSUME SlabAssumption ==
  /\ PAGE_SIZE \in Nat \ {0} /\ NUM_BINS \in Nat \ {0, 1} /\ SMALLEST_BIN_LOG \in Nat
  /\ heap_start \in Nat \ {0} /\ heap_size \in Nat
  /\ heap_start % PAGE_SIZE = 0 /\ heap_size % PAGE_SIZE = 0
  /\ bin_header \in 1 .. PAGE_SIZE - Power[SMALLEST_BIN_LOG + BIG_BIN - 1]
  /\ big_bin_header \in Nat \ {0} /\ big_bin_header + NUM_BINS < PAGE_SIZE
  /\ PAGE_SIZE - big_bin_header > Power[SMALLEST_BIN_LOG + BIG_BIN - 1]
  /\ Requests \subseteq Nat \ {0}

NULL == 0

(* The heap as one record, so that klrealloc can call klmalloc and klfree: *)
(* the headers of the bins made so far (a small bin's size is its index),  *)
(* their stacks, the lists of small bins, the list of free big bins.       *)
VARIABLES
  heap,                 \* [brk, size, stack, list, big, asserted]
  blocks,               \* [pointers that callers hold -> bytes asked for]
  page_aligned          \* those of them that valloc returned (history)

vars == <<heap, blocks, page_aligned>>

Init ==
  /\ heap = [brk |-> heap_start,
             size |-> [b \in {} |-> 0], stack |-> [b \in {} |-> <<>>],
             list |-> [id \in 0 .. BIG_BIN - 1 |-> <<>>], big |-> <<>>,
             asserted |-> "no", ret |-> NULL]
  /\ blocks = [p \in {} |-> 0]
  /\ page_aligned = {}

(* 32 - clz(size), and one more unless size is a power of two.             *)
klmalloc_bin_size(size) ==
  LET log == CHOOSE k \in 0 .. size : Power[k] <= size /\ size < Power[k + 1]
      bin == (log + 1) + (IF size = Power[log] THEN 0 ELSE 1)
  IN  IF bin <= SMALLEST_BIN_LOG THEN 0
      ELSE IF bin - (SMALLEST_BIN_LOG + 1) > BIG_BIN THEN BIG_BIN
      ELSE bin - (SMALLEST_BIN_LOG + 1)

cell_size(id) == Power[SMALLEST_BIN_LOG + id]

(* Mutant of cells: the chain ends one cell later, past the page.          *)
cells_past_page(bin, id) ==
  LET available == (PAGE_SIZE - bin_header) \div cell_size(id)
  IN  [i \in 1 .. available + 1 |-> bin + bin_header + (i - 1) * cell_size(id)]

(* The chain of cells that klmalloc writes into a new small bin.           *)
cells(bin, id) ==
  LET available == ((PAGE_SIZE - bin_header) \div cell_size(id)) - 1
  IN  [i \in 1 .. available + 1 |-> bin + bin_header + (i - 1) * cell_size(id)]

IsBig(h, bin) == h.size[bin] > NUM_BINS

Fail(h, why) == [h EXCEPT !.asserted = why, !.ret = NULL]

Put(f, x, v) == [y \in DOMAIN f \cup {x} |-> IF y = x THEN v ELSE f[y]]

(* sbrk's assertion on the end of the heap.                                *)
HeapIsFull(h, pages) == ~(h.brk + pages * PAGE_SIZE < heap_start + heap_size)

new_bin(h, pages, size, stack) ==
  [h EXCEPT !.brk = h.brk + pages * PAGE_SIZE,
            !.size = Put(h.size, h.brk, size),
            !.stack = Put(h.stack, h.brk, stack)]

(* Mutant of PopCell: a bin without free cells stays in its list.          *)
PopCell_keeps_bin(h, id) ==
  LET bin == Head(h.list[id])
  IN  IF h.stack[bin] = <<>> THEN Fail(h, "assert")
      ELSE [h EXCEPT !.stack[bin] = Tail(h.stack[bin]), !.ret = Head(h.stack[bin])]

(* Mutant of PopCell: the bin leaves its list while it has free cells.     *)
PopCell_drops_bin(h, id) ==
  LET bin == Head(h.list[id])
  IN  [h EXCEPT !.stack[bin] = Tail(h.stack[bin]), !.list[id] = Tail(h.list[id]),
                !.ret = Head(h.stack[bin])]

(* klmalloc_stack_pop, with its assertions, and klmalloc_list_decouple     *)
(* once the bin, the first of its list, has no free cell left.             *)
PopCell(h, id) ==
  LET bin == Head(h.list[id])
      rest == Tail(h.stack[bin])
  IN  IF h.stack[bin] = <<>> THEN Fail(h, "assert")
      ELSE [h EXCEPT !.stack[bin] = rest,
                     !.list[id] = IF rest = <<>> THEN Tail(h.list[id]) ELSE h.list[id],
                     !.ret = Head(h.stack[bin])]

malloc_small(h, id) ==
  IF h.list[id] # <<>> THEN PopCell(h, id)
  ELSE IF HeapIsFull(h, 1) THEN Fail(h, "heap full")
  ELSE PopCell([new_bin(h, 1, id, cells(h.brk, id)) EXCEPT !.list[id] = <<h.brk>>], id)

(* Where the search on the lowest level stops: the first bin in order of   *)
(* size that is not smaller, 0 if there is none.                           *)
FirstFit(h, size) == SelectInSeq(h.big, LAMBDA b : h.size[b] >= size)

(* Mutant of malloc_big: the header is left out of the size of the bin.    *)
malloc_big_forgets_header(h, size) ==
  LET pages == size \div PAGE_SIZE + 1
  IN  IF HeapIsFull(h, pages) THEN Fail(h, "heap full")
      ELSE [new_bin(h, pages, pages * PAGE_SIZE - big_bin_header, <<>>)
              EXCEPT !.ret = h.brk + big_bin_header]

(* klmalloc_skip_list_findbest, then the bin's only cell.                  *)
malloc_big(h, size) ==
  LET k     == FirstFit(h, size)
      pages == (size + big_bin_header) \div PAGE_SIZE + 1
  IN  IF k # 0
      THEN [h EXCEPT !.big = RemoveAt(h.big, k), !.stack[h.big[k]] = <<>>,
                     !.ret = h.big[k] + big_bin_header]
      ELSE IF HeapIsFull(h, pages) THEN Fail(h, "heap full")
      ELSE [new_bin(h, pages, pages * PAGE_SIZE - big_bin_header, <<>>)
              EXCEPT !.ret = h.brk + big_bin_header]

klmalloc(h, size) ==
  LET id == klmalloc_bin_size(size)
  IN  IF size = 0 THEN [h EXCEPT !.ret = NULL]
      ELSE IF id < BIG_BIN THEN malloc_small(h, id) ELSE malloc_big(h, size)

(* A page-aligned pointer is one that valloc moved to the second page.     *)
header_of(ptr) ==
  LET p == IF ptr % PAGE_SIZE = 0 THEN ptr - 1 ELSE ptr
  IN  p - (p % PAGE_SIZE)

free_big(h, bin) ==
  LET k == FirstFit(h, h.size[bin])
  IN  IF h.stack[bin] # <<>> THEN Fail(h, "assert")
      ELSE [h EXCEPT !.stack[bin] = <<bin + big_bin_header>>,
                     !.big = IF k = 0 THEN Append(h.big, bin) ELSE InsertAt(h.big, k, bin),
                     !.ret = NULL]

(* Mutant of free_small: a bin goes back to its list, the cell does not.   *)
free_small_loses_cell(h, bin, ptr) ==
  LET id == h.size[bin]
  IN  [h EXCEPT !.list[id] = IF h.stack[bin] = <<>> THEN <<bin>> \o h.list[id] ELSE h.list[id],
                !.ret = NULL]

free_small(h, bin, ptr) ==
  LET id == h.size[bin]
  IN  [h EXCEPT !.list[id] = IF h.stack[bin] = <<>> THEN <<bin>> \o h.list[id] ELSE h.list[id],
                !.stack[bin] = <<ptr>> \o h.stack[bin],
                !.ret = NULL]

(* A page without the magic number is none of the allocator's.             *)
klfree(h, ptr) ==
  LET bin == header_of(ptr)
  IN  IF ptr = NULL \/ bin \notin DOMAIN h.size THEN h
      ELSE IF IsBig(h, bin) THEN free_big(h, bin)
      ELSE free_small(h, bin, ptr)

(* klrealloc of a block to a size that is not 0 (LockedAllocator has the   *)
(* other two cases).  It does not look for valloc's pointers: it takes the *)
(* page of the pointer itself for the header.                              *)
klrealloc(h, ptr, size) ==
  LET bin      == ptr - (ptr % PAGE_SIZE)
      old_size == IF h.size[bin] < BIG_BIN THEN cell_size(h.size[bin]) ELSE h.size[bin]
      grown    == klmalloc(h, size)
  IN  IF bin \notin DOMAIN h.size THEN Fail(h, "assert")
      ELSE IF old_size >= size THEN [h EXCEPT !.ret = ptr]
      ELSE IF grown.ret = NULL THEN grown
      ELSE [klfree(grown, ptr) EXCEPT !.ret = grown.ret]

-----------------------------------------------------------------------------
Running == heap.asserted = "no"

Without(p) == [q \in DOMAIN blocks \ {p} |-> blocks[q]]

malloc(size) ==
  /\ Running
  /\ heap' = klmalloc(heap, size)
  /\ blocks' = IF heap'.ret = NULL THEN blocks ELSE Put(blocks, heap'.ret, size)
  /\ UNCHANGED page_aligned

(* calloc is malloc of the product, and a memset.                          *)
calloc(nmemb, size) == malloc(nmemb * size)

valloc(size) ==
  /\ Running
  /\ heap' = klmalloc(heap, size + PAGE_SIZE - big_bin_header)
  /\ LET out == heap'.ret + PAGE_SIZE - big_bin_header
     IN  IF heap'.ret = NULL THEN UNCHANGED <<blocks, page_aligned>>
         ELSE /\ blocks' = Put(blocks, out, size)
              /\ page_aligned' = page_aligned \cup {out}

free(ptr) ==
  /\ Running
  /\ heap' = klfree(heap, ptr)
  /\ blocks' = Without(ptr)
  /\ page_aligned' = page_aligned \ {ptr}

realloc(ptr, size) ==
  /\ Running
  /\ heap' = klrealloc(heap, ptr, size)
  /\ blocks' = IF heap'.ret = NULL THEN blocks ELSE Put(Without(ptr), heap'.ret, size)
  /\ UNCHANGED page_aligned

Next ==
  \/ \E size \in Requests :
       \/ malloc(size) \/ valloc(size)
       \/ \E ptr \in DOMAIN blocks \ page_aligned : realloc(ptr, size)
  \/ malloc(0)
  \/ \E ptr \in DOMAIN blocks \cup {NULL} : free(ptr)

Spec == Init /\ [][Next]_vars

(* With callers that give realloc a block of valloc's.                     *)
NextReallocAny ==
  Next \/ \E size \in Requests, ptr \in page_aligned : realloc(ptr, size)

SpecReallocAny == Init /\ [][NextReallocAny]_vars

-----------------------------------------------------------------------------
Bins == DOMAIN heap.size

Header(bin) ==
  bin .. bin + (IF IsBig(heap, bin) THEN big_bin_header ELSE bin_header) - 1

(* The cells a bin is made of: a big bin is one.                           *)
CellsOf(bin) ==
  IF IsBig(heap, bin) THEN {bin + big_bin_header}
  ELSE ToSet(cells(bin, heap.size[bin]))

(* The cell in which the block that a caller holds at ptr lies.            *)
CellAt(ptr) ==
  IF ptr \in page_aligned THEN header_of(ptr) + big_bin_header ELSE ptr

Bytes(ptr) == ptr .. ptr + blocks[ptr] - 1

(* Type correctness: bins are pages below the break, block pointers too.   *)
TypeOK ==
  /\ heap.brk \in heap_start .. heap_start + heap_size
  /\ Bins \subseteq {b \in heap_start .. heap.brk - 1 : b % PAGE_SIZE = 0}
  /\ DOMAIN heap.stack = Bins
  /\ \A id \in DOMAIN heap.list : ToSet(heap.list[id]) \subseteq Bins
  /\ ToSet(heap.big) \subseteq Bins
  /\ heap.asserted \in {"no", "assert", "heap full"}
  /\ DOMAIN blocks \subseteq heap_start .. heap.brk - 1
  /\ page_aligned \subseteq DOMAIN blocks

(* A cell is free, once, or held by one caller, after any sequence of      *)
(* malloc, valloc, realloc and free: none is lost and none is given twice. *)
(* The state keeps its types: bins and blocks lie below the break.         *)
CellsAreAccounted ==
  /\ TypeOK
  /\ \A bin \in Bins :
       LET free_cells == ToSet(heap.stack[bin])
           held == {CellAt(p) : p \in {q \in DOMAIN blocks : header_of(q) = bin}}
       IN  /\ Cardinality(free_cells) = Len(heap.stack[bin])
           /\ free_cells \cap held = {}
           /\ free_cells \cup held = CellsOf(bin)

(* klmalloc and klfree keep a bin in the list of its size exactly as long  *)
(* as it has a free cell, and the free big bins in order of size: a bin    *)
(* that is missing is memory lost, one too many fails an assertion.        *)
ListsHoldBinsWithRoom ==
  /\ \A id \in DOMAIN heap.list :
       /\ IsInjective(heap.list[id])
       /\ ToSet(heap.list[id]) = {b \in Bins : heap.size[b] = id /\ heap.stack[b] # <<>>}
  /\ IsInjective(heap.big)
  /\ ToSet(heap.big) = {b \in Bins : IsBig(heap, b) /\ heap.stack[b] # <<>>}
  /\ \A i, j \in DOMAIN heap.big :
       i < j => heap.size[heap.big[i]] <= heap.size[heap.big[j]]

(* No block reaches into the header of a bin: what a caller writes in the  *)
(* bytes it asked for cannot break the allocator's own records.            *)
BlocksSpareHeaders ==
  \A p \in DOMAIN blocks, bin \in Bins : Bytes(p) \cap Header(bin) = {}

(* The assertions of alloc.c, line 892 "Bad magic on realloc." among them, *)
(* hold: only the end of the heap stops the machine.                       *)
AssertsHold == heap.asserted # "assert"

(* The heap grows only when no free cell would have done: freed memory is  *)
(* used again before sbrk is called.                                       *)
FreedMemoryIsReused ==
  [][heap'.brk > heap.brk =>
       \A bin \in Bins : heap.stack[bin] # <<>> =>
         LET new == heap'.size[heap.brk]
         IN  IF new < BIG_BIN THEN heap.size[bin] # new
             ELSE IsBig(heap, bin) => heap.size[bin] < new]_vars

Abstract == INSTANCE Heap WITH
  Addresses <- heap_start .. heap_start + heap_size - 1

(* The blocks that callers hold lie in the heap and never overlap.         *)
ImplementsHeap == Abstract!Spec

=============================================================================
