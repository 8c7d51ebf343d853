------------------------------- MODULE KHeap -------------------------------
(***************************************************************************)
(* src/kheap.c in 32-bit arithmetic, the way klmalloc and klcalloc of      *)
(* src/alloc.c ask it for memory, and the rest of start_kernel, which      *)
(* makes the first requests.  Nothing is freed here: SlabAllocator has the *)
(* bins, this module what becomes of sizes that wrap.                      *)
(***************************************************************************)
EXTENDS KernelStart

CONSTANTS
  HEADER,               \* sizeof(klmalloc_big_bin_header)
  Requests,             \* what callers ask calloc for: <<nmemb, size>>
  Lengths               \* what callers ask malloc for

(* Requests that klmalloc serves from a small bin are left to              *)
(* SlabAllocator.                                                          *)
ASSUME HeapAssumption ==
  /\ HEADER \in 1 .. PAGE_SIZE \div 2
  /\ \A r \in Requests : /\ r[1] \in Word /\ r[2] \in Word
                         /\ Mul(r[1], r[2]) > PAGE_SIZE \div 2
  /\ \A size \in Lengths : size \in Word /\ size > PAGE_SIZE \div 2

VARIABLES
  heap_start,           \* heap_start_rel_virt_addr
  heap_size,
  heap_brk,
  bins                  \* the blocks that callers got: where, how long, the size
                        \* that was asked for, how much of it calloc cleared

heapVars == <<heap_start, heap_size, heap_brk, bins>>

Init_heap == heap_start = 0 /\ heap_size = 0 /\ heap_brk = 0 /\ bins = <<>>

-----------------------------------------------------------------------------
(* The heap takes half of what is left above the window, 4 MB at most.  If *)
(* the data segment ends below, the difference wraps.                      *)
init_heap ==
  LET start == Add(Sub(table_index * TableSpan, info.data.base), TableSpan)
      half  == PageDown(Sub(info.data.len, start) \div 2)
  IN  /\ stage = "init_heap"
      /\ heap_start' = start /\ heap_brk' = start
      /\ heap_size' = IF half > TableSpan THEN TableSpan ELSE half
      /\ stage' = "init_keyboard"
      /\ UNCHANGED <<layoutVars, damaged, processorVars, args, startVars, bins>>

(* The assertion of sbrk.                                                  *)
BreakAllowed(end) == end < Add(heap_start, heap_size)

(* sbrk and the header that its caller writes: a page that sbrk did not    *)
(* map is mapped by the page fault.  An increment that wraps passes the    *)
(* assertion, but the memset that follows runs over the kernel's stack,    *)
(* and so does the one of klcalloc, which clears behind the header what it *)
(* believes to have: page faults map what it meets on the way.             *)
Sbrk(increment, asked, cleared, next) ==
  LET end     == Add(heap_brk, increment)
      grown   == IF end > heap_brk THEN Linear(info.data, heap_brk, Pages(increment)) ELSE {}
      faulted == Linear(info.data, heap_brk, 1) \ (grown \cup mapped)
      pages   == grown \cup faulted
      needed  == Cardinality(pages) + Cardinality(NewTables(pages))
      last    == heap_brk + (IF increment = 0 THEN PAGE_SIZE ELSE increment)
      returns == /\ BreakAllowed(end) /\ last + PAGE_SIZE <= info.data.len
                 /\ heap_brk + HEADER + cleared + PAGE_SIZE <= info.data.len
                 /\ needed <= Cardinality(FreeData)
  IN  \/ /\ returns
         /\ data_marks' = data_marks \cup FirstFree(FreeData, needed)
         /\ tables' = tables \cup NewTables(pages)
         /\ mapped' = mapped \cup pages
         /\ heap_brk' = end
         /\ bins' = Append(bins, [addr |-> heap_brk, len |-> increment,
                                   asked |-> asked, cleared |-> cleared])
         /\ stage' = next
         /\ UNCHANGED code_marks
      \/ /\ ~returns
         /\ stage' \in IF BreakAllowed(end) THEN {"halted", "wrecked"} ELSE {"halted"}
         /\ UNCHANGED <<memoryVars, heap_brk, bins>>

(* Mutant of Increment: the pages are counted without the one for the      *)
(* remainder.                                                              *)
Increment_rounded_down(size) == Mul(PAGE_SIZE, Add(size, HEADER) \div PAGE_SIZE)

(* What klmalloc asks for a block that is big.                             *)
Increment(size) == Mul(PAGE_SIZE, Add(size, HEADER) \div PAGE_SIZE + 1)

klmalloc(size, asked, cleared) ==
  /\ stage = "running"
  /\ Sbrk(Increment(size), asked, cleared, "running")
  /\ UNCHANGED <<layoutVars, damaged, processorVars, args, info, tableVars, gateVars,
                 interrupts, heap_start, heap_size>>

malloc(size) == klmalloc(size, size, 0)

calloc(nmemb, size) == klmalloc(Mul(nmemb, size), nmemb * size, Mul(nmemb, size))

-----------------------------------------------------------------------------
(* The rest of start_kernel.  The key cache and the command buffer are the *)
(* first block of a small bin each, of a page.                             *)
SmallBin(next) ==
  /\ Sbrk(PAGE_SIZE, PAGE_SIZE \div 2 - 1, 0, next)
  /\ UNCHANGED <<layoutVars, damaged, processorVars, args, info, tableVars, tss, idt,
                 interrupts, heap_start, heap_size>>

IRQ0 == 32
IRQ1 == 33
init_keyboard ==
  /\ stage = "init_keyboard"
  /\ SmallBin("initialize_syscalls")
  /\ handlers' = handlers \cup {IRQ1}

initialize_syscalls ==
  /\ stage = "initialize_syscalls"
  /\ handlers' = handlers \cup {SYSCALL}
  /\ stage' = "IRQ_RES"
  /\ UNCHANGED <<layoutVars, damaged, processorVars, args, info, memoryVars, tableVars, tss,
                 idt, interrupts, heapVars>>

(* Mutant of IRQ_RES: interrupts stay off.                                 *)
IRQ_RES_forgotten ==
  /\ stage = "IRQ_RES"
  /\ stage' = "init_buf"
  /\ UNCHANGED <<layoutVars, damaged, processorVars, args, info, memoryVars, tableVars,
                 gateVars, interrupts, heapVars>>

IRQ_RES ==
  /\ stage = "IRQ_RES"
  /\ interrupts' = TRUE
  /\ stage' = "init_buf"
  /\ UNCHANGED <<layoutVars, damaged, processorVars, args, info, memoryVars, tableVars,
                 gateVars, heapVars>>

(* start_terminal's buffer; from then on the terminal waits for keys.      *)
init_buf ==
  /\ stage = "init_buf"
  /\ SmallBin("running")
  /\ UNCHANGED handlers

Next_boot_heap ==
  \/ init_heap
  \/ init_keyboard
  \/ initialize_syscalls
  \/ IRQ_RES
  \/ init_buf

Next_requests ==
  \/ \E r \in Requests : calloc(r[1], r[2])
  \/ \E size \in Lengths : malloc(size)

=============================================================================
