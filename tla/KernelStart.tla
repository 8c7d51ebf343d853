---------------------------- MODULE KernelStart ----------------------------
(***************************************************************************)
(* start_kernel of src/start_kernel.c up to init_paging, with what it calls*)
(* in src/memory_manager.c, src/descriptor_tables.c and src/paging.c.  The *)
(* bitmaps are sets of marked pages, a page table is the number of its     *)
(* directory entry; MemoryManager and Paging hold their detail.            *)
(***************************************************************************)
EXTENDS Loader

CONSTANTS
  VIDEO_BASE_ADDR, VIDEO_SIZE

(* The screen's memory is below the kernel's image; a limit holds its size.*)
ASSUME VideoAssumption ==
  /\ VIDEO_BASE_ADDR \in Nat /\ VIDEO_BASE_ADDR < lma
  /\ VIDEO_SIZE \in 0 .. LOW * NIBBLE - 1

DIR_PAGES == 2        \* sizeof(page_directory_t)

VARIABLES
  info,                 \* segments_info
  data_marks,           \* the marked pages of memory_bitmap.data_bitmap
  code_marks,           \* and of code_bitmap
  data_top,             \* data_top_address
  table_index,          \* the directory entry of the window on the tables
  tables,               \* the entries that have a page table
  mapped,               \* the linear pages that mmap has mapped
  tss,                  \* its ss0 and esp0
  idt,                  \* vector -> selector and privilege of its gate
  handlers,             \* the vectors that interrupt_handlers has a handler for
  interrupts            \* the processor's interrupt flag

memoryVars == <<data_marks, code_marks, tables, mapped>>
tableVars == <<data_top, table_index>>
gateVars == <<tss, idt, handlers>>
startVars == <<info, memoryVars, tableVars, gateVars, interrupts>>

Init_start ==
  /\ info = [code |-> Nowhere, data |-> Nowhere, module |-> Nowhere]
  /\ data_marks = {} /\ code_marks = {} /\ data_top = 0
  /\ table_index = 0 /\ tables = {} /\ mapped = {}
  /\ tss = [ss0 |-> 0, esp0 |-> 0]
  /\ idt = <<>> /\ handlers = {} /\ interrupts = FALSE

Pages(len) == len \div PAGE_SIZE

-----------------------------------------------------------------------------
(* Parameter k of start_kernel, k words above the return address.          *)
Param(k) == args[ARGS - k]

BitmapPages(pages) ==
  LET bytes == (pages + 7) \div 8
  IN  (bytes + PAGE_SIZE - 1) \div PAGE_SIZE

(* The kernel's data, with both bitmaps at their largest, its tables and   *)
(* its directory, need no more than a page table maps.                     *)
ASSUME KernelDataAssumption ==
  kernel_data_size + PAGE_SIZE * (2 * BitmapPages(ENTRIES * ENTRIES) + 2 + DIR_PAGES) <= TableSpan

init_segments_info ==
  [code |-> Area(Param(1), Param(2)),
   data |-> Area(Param(3), Param(4)),
   module |-> Area(Param(5), Param(6))]

(* init_memory_manager.  The first bitmap begins where the loader put the  *)
(* descriptor table that the processor still uses, and clears that page.   *)
init_memory_manager ==
  LET code == init_segments_info.code
      data == init_segments_info.data
      top  == kernel_data_size +
                PAGE_SIZE * (BitmapPages(Pages(code.len)) + BitmapPages(Pages(data.len)))
  IN  /\ stage = "init_memory_manager"
      /\ info' = init_segments_info
      /\ data_top' = top
      /\ data_marks' = (0 .. Pages(top) - 1) \cup {Pages(data.len) - 1}
      /\ code_marks' = 0 .. Pages(kernel_code_size) - 1
      /\ gdt' = [i \in DOMAIN gdt |-> Null]
      /\ stage' = IF top + PAGE_SIZE <= data.len THEN "init_gdt_kernel" ELSE "wrecked"
      /\ UNCHANGED <<layoutVars, damaged, gdtr, cpu, args, table_index, tables, mapped,
                     gateVars, interrupts>>

-----------------------------------------------------------------------------
FreeData == (0 .. Pages(info.data.len) - 1) \ data_marks
FreeCode == (0 .. Pages(info.code.len) - 1) \ code_marks

(* The pages that n calls of alloc_page return.                            *)
FirstFree(free, n) == {p \in free : Cardinality({q \in free : q < p}) < n}

(* The next one that alloc_data_page returns: any page, if there is none.  *)
NextFree ==
  CHOOSE p \in 0 .. Pages(info.data.len) - 1 : FreeData # {} => p \in FirstFree(FreeData, 1)

(* A page that cannot be had: the scan runs into the spare bits of the     *)
(* bitmap and fails an assertion, or the NULL is not noticed.              *)
NoPage == IF Pages(info.data.len) % 8 # 0 THEN "halted" ELSE "wrecked"

(* n pages for the kernel's tables, and the stage that follows.            *)
AllocData(n, next) ==
  LET enough == Cardinality(FreeData) >= n
  IN  /\ data_marks' = IF enough THEN data_marks \cup FirstFree(FreeData, n) ELSE data_marks
      /\ stage' = IF enough THEN next ELSE NoPage

GLOBAL_DESCRIPTOR_COUNT == 20

set_task_descriptor == set_global_descriptor(info.data.base, 1, TaskState, "bytes")

(* The entry of each selector of the kernel's table, by selector / 8.      *)
KernelTable ==
  LET code(access) == set_global_descriptor(info.code.base, Pages(info.code.len), access, "pages")
      data(access) == set_global_descriptor(info.data.base, Pages(info.data.len), access, "pages")
  IN  [i \in 0 .. GLOBAL_DESCRIPTOR_COUNT - 1 |->
         CASE i = 1 -> code(KernelCode) [] i = 2 -> data(KernelData)
           [] i = 3 -> code(UserCode)   [] i = 4 -> data(UserData)
           [] i = 5 -> set_global_descriptor(VIDEO_BASE_ADDR, VIDEO_SIZE, KernelData, "bytes")
           [] i = 6 -> set_global_descriptor(info.module.base, Pages(info.module.len),
                                             KernelData, "pages")
           [] i = 7 -> code(KernelData)
           [] i = 8 -> set_task_descriptor
           [] OTHER -> Null]

(* The segment registers of the kernel, from the table in memory.          *)
KernelSelectors == [cs |-> 8, ds |-> 16, ss |-> 16, gs |-> 16, fs |-> 48, es |-> 40]
KernelRegisters(table) == [r \in Registers |-> Load(table, KernelSelectors[r])]

init_gdt_kernel ==
  /\ stage = "init_gdt_kernel"
  /\ AllocData(1, "init_idt")
  /\ gdt' = KernelTable /\ gdtr' = "kernel" /\ tss' = [ss0 |-> 16, esp0 |-> 0]
  /\ cpu' = KernelRegisters(gdt')
  /\ UNCHANGED <<layoutVars, damaged, args, info, code_marks, tables, mapped, tableVars,
                 idt, handlers, interrupts>>

(* Gates for the exceptions and the remapped IRQs, and one that a module   *)
(* may call.                                                               *)
SYSCALL == 128
init_idt ==
  /\ stage = "init_idt"
  /\ AllocData(1, "init_paging")
  /\ idt' = [v \in (0 .. 47) \cup {SYSCALL} |->
               [sel |-> 8, dpl |-> IF v = SYSCALL THEN 3 ELSE 0]]
  /\ UNCHANGED <<layoutVars, damaged, processorVars, args, info, code_marks, tables, mapped,
                 tableVars, tss, handlers, interrupts>>

-----------------------------------------------------------------------------
(* The linear pages of n pages of a segment, from one of its addresses on. *)
Linear(segment, rel, n) == {Pages(Add(segment.base, Add(rel, i * PAGE_SIZE))) : i \in 0 .. n - 1}

TableOf(page) == page \div ENTRIES
Slot(t) == table_index * ENTRIES + t

(* The page tables that mmap has yet to make for some pages.               *)
NewTables(pages) == {TableOf(p) : p \in pages} \ tables

(* Mutant of window_index: the window begins below the kernel's data.      *)
window_index_down(top) == top \div TableSpan

(* The first 4 MB above the kernel's data, for the window on the tables.   *)
window_index(top) == IF top % TableSpan # 0 THEN top \div TableSpan + 1 ELSE top \div TableSpan

(* init_paging: a directory and the first table, then the pages the kernel *)
(* uses so far.  The directory's own address loses its lower bits in cr3,  *)
(* and the directory has no entry past its last; page tables and other     *)
(* pages in one place of the window undo each other.                       *)
PAGE_FAULT == 14
init_paging ==
  LET dir    == PAGE_SIZE * NextFree
      top    == dir + DIR_PAGES * PAGE_SIZE
      index  == window_index(info.data.base + top)
      pages  == Linear(info.data, 0, Pages(top))
                  \cup Linear(info.data, Sub(info.data.len, PAGE_SIZE), 1)
                  \cup Linear(info.code, 0, Pages(kernel_code_size))
                  \cup Linear([base |-> VIDEO_BASE_ADDR], 0, 1)
                  \cup Linear(info.module, 0, Pages(info.module.len))
      new    == {TableOf(p) : p \in pages} \ {index}
      usable == /\ info.data.base % PAGE_SIZE = 0 /\ index < ENTRIES
                /\ \A t \in new \cup {index} : index * ENTRIES + t \notin pages
  IN  /\ stage = "init_paging"
      /\ AllocData(DIR_PAGES + 1 + Cardinality(new), IF usable THEN "init_heap" ELSE "wrecked")
      /\ table_index' = index
      /\ tables' = new \cup {index}
      /\ mapped' = pages
      /\ handlers' = handlers \cup {PAGE_FAULT}
      /\ UNCHANGED <<layoutVars, damaged, processorVars, args, info, code_marks, data_top,
                     tss, idt, interrupts>>

Next_start ==
  \/ init_memory_manager
  \/ init_gdt_kernel
  \/ init_idt
  \/ init_paging

=============================================================================
