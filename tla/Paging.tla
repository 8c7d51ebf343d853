------------------------------- MODULE Paging -------------------------------
(***************************************************************************)
(* src/paging.c with the callers that map pages: src/kheap.c (sbrk) and    *)
(* load_module_code_and_data of src/module_loader.c.  Addresses are page   *)
(* numbers: linear ones, so a page of a segment is the segment's base plus *)
(* its number in the segment.  Two-level page tables live in frames of the *)
(* data segment; once paging is on the kernel reaches them only through    *)
(* the virtual window that starts at page_tables_rel_virt_addr, that is,   *)
(* through the very tables it edits.                                       *)
(***************************************************************************)
EXTENDS Integers, Sequences, FiniteSets

CONSTANTS
  ENTRIES,              \* entries of a directory or table (1024)
  data_base, data_len,  \* the data segment, in pages
  code_base, code_len,  \* the code segment, in pages
  module_base, module_len,      \* the module image, in pages; 0 if none
  video_page,           \* the page of the screen's memory
  data_top,             \* pages of kernel data and bitmaps (data_top_address)
  kernel_code,          \* pages of kernel code
  MODULE_CODE, MODULE_DATA,     \* load addresses, as pages of a segment
  module_code_pages,    \* of the module; 0 if init_module refuses it
  module_data_pages,
  Increments,           \* what callers ask sbrk for, in pages
  FaultPages            \* pages the kernel may touch without mapping them

Index == 0 .. ENTRIES - 1
Page  == 0 .. ENTRIES * ENTRIES - 1

DataFrames == data_base .. data_base + data_len - 1
CodeFrames == code_base .. code_base + code_len - 1

(* alloc_page's NULL is page 0 of the segment.                             *)
NULL == data_base

DIR_PAGES == 2          \* sizeof(page_directory_t): entries, then pointers
kernel_page_directory == data_base + data_top
top_data == kernel_page_directory + DIR_PAGES

(* The directory entry of the window onto the page tables.                 *)
table_index ==
  IF top_data % ENTRIES # 0 THEN top_data \div ENTRIES + 1 ELSE top_data \div ENTRIES

TablePage(t) == table_index * ENTRIES + t
Window == {TablePage(t) : t \in Index}

heap_start == (table_index + 1) * ENTRIES
heap_size ==
  LET half == (data_base + data_len - heap_start) \div 2
  IN  IF half > ENTRIES THEN ENTRIES ELSE half

stack_page == data_base + data_len - 1
module_stack_page == data_base + data_len - 2

(* The pages that map_kernel_pages maps to themselves, what the heap may   *)
(* come to, and what load_module_code_and_data maps.                       *)
FixedPages ==
  (data_base .. top_data - 1) \cup {stack_page}
    \cup (code_base .. code_base + kernel_code - 1) \cup {video_page}
    \cup (module_base .. module_base + module_len - 1)
HeapPages == heap_start .. heap_start + heap_size - 2
ModuleCode == code_base + MODULE_CODE .. code_base + MODULE_CODE + module_code_pages - 1
ModuleData == IF module_code_pages = 0 THEN {}
              ELSE data_base + MODULE_DATA .. data_base + MODULE_DATA + module_data_pages - 1
ModuleStack == IF module_code_pages = 0 THEN {} ELSE {module_stack_page}
ModulePages == ModuleCode \cup ModuleData \cup ModuleStack

(* The pages that two loops map: nothing keeps a module's data off its own *)
(* stack, or off the heap.                                                 *)
SharedPages == ModuleData \cap (HeapPages \cup ModuleStack)

(* The kernel has data and code; the video memory is no place for a module.*)
ASSUME SizesAssumption ==
  /\ {data_base, data_len, code_base, code_len, module_base, module_len, MODULE_CODE,
      MODULE_DATA, module_code_pages, module_data_pages} \subseteq Nat
  /\ {data_top, kernel_code} \subseteq Nat \ {0}
  /\ Increments \subseteq Nat
  /\ video_page \in Page \ (module_base .. module_base + module_len - 1)

(* What init_paging_tables and init_heap take for granted and init_module  *)
(* checks: three free pages at boot; no segment but the data segment in the*)
(* 4 MB window; a heap below the stacks; a module whose data begin above   *)
(* the window and end below the kernel's stack, and whose code ends in the *)
(* page where the code segment ends.  A fault is for a page that the kernel*)
(* has not mapped at boot, and in the window for none (get_pt_entry).      *)
ASSUME LayoutAssumption ==
  /\ ENTRIES \in Nat \ {0, 1}
  /\ data_top + DIR_PAGES + 1 < data_len
  /\ code_base = data_base + data_len
  /\ code_base + code_len <= ENTRIES * ENTRIES
  /\ module_base + module_len <= data_base
  /\ kernel_code <= code_len /\ kernel_code < MODULE_CODE
  /\ heap_start <= data_base + MODULE_DATA
  /\ heap_start + heap_size <= module_stack_page
  /\ module_code_pages > 0 =>
       /\ data_base + MODULE_DATA + module_data_pages <= stack_page
       /\ MODULE_CODE + module_code_pages <= code_len + 1
       /\ code_base + MODULE_CODE + module_code_pages <= ENTRIES * ENTRIES
  /\ video_page \notin DataFrames \cup CodeFrames \cup ModulePages
  /\ FaultPages \subseteq (DataFrames \cup CodeFrames) \ (Window \cup FixedPages)

VARIABLES
  data_free,            \* free frames of the data segment
  code_free,            \* free frames of the code segment
  page_tables,          \* the directory's entries
  page_table_ptrs,      \* the entries whose pointer is not NULL
  mem,                  \* [DataFrames -> what they hold as page tables]
  paging_enabled,
  todo,                 \* the mappings that a loop has yet to make
  heap_brk,             \* linear page; 0 before init_heap
  module_loaded,
  panicked,
  faulted,              \* the pages that a fault has mapped (history)
  lost                  \* the frames that were behind a page (history)

vars == <<data_free, code_free, page_tables, page_table_ptrs, mem,
          paging_enabled, todo, heap_brk, module_loaded, panicked, faulted, lost>>

Entry(frame, rw, user) == [present |-> TRUE, rw |-> rw, user |-> user, frame |-> frame]
Absent == [present |-> FALSE, rw |-> FALSE, user |-> FALSE, frame |-> 0]
ZeroTable == [i \in Index |-> Absent]

(* What a frame may hold before anybody clears it.                         *)
JunkTable == [i \in Index |-> Entry(stack_page, TRUE, TRUE)]

Least(S) == CHOOSE n \in S : \A m \in S : n <= m

(* alloc_page takes the first free page, or returns NULL.                  *)
alloc_page(free, null) == IF free = {} THEN null ELSE Least(free)

(* The processor's walk of a directory and the tables in memory.           *)
Walk(dir, m, v) ==
  LET d == dir[v \div ENTRIES]
      e == m[d.frame][v % ENTRIES]
  IN  IF d.present /\ e.present
      THEN [e EXCEPT !.rw = d.rw /\ e.rw, !.user = d.user /\ e.user] ELSE Absent

(* The frame that a store to page table t changes: through the window once *)
(* paging is on, at the address in the directory before.                   *)
TableFrame(dir, m, t) ==
  IF paging_enabled THEN Walk(dir, m, TablePage(t)).frame ELSE dir[t].frame

(* Mutants of MakeTable: the window's entry is forgotten; the new table is *)
(* not cleared.                                                            *)
MakeTableOutsideWindow(s, t) ==
  LET pt     == alloc_page(s.free, NULL)
      dir    == [s.dir EXCEPT ![t] = Entry(pt, TRUE, TRUE)]
  IN  [free |-> s.free \ {pt}, dir |-> dir, ptrs |-> s.ptrs \cup {t},
       mem  |-> [s.mem EXCEPT ![TableFrame(dir, s.mem, t)] = ZeroTable]]

MakeTableUncleared(s, t) ==
  LET pt == alloc_page(s.free, NULL)
  IN  [free |-> s.free \ {pt},
       dir  |-> [s.dir EXCEPT ![t] = Entry(pt, TRUE, TRUE)],
       ptrs |-> s.ptrs \cup {t},
       mem  |-> [s.mem EXCEPT ![TableFrame(s.dir, s.mem, table_index)][t] =
                                Entry(pt, TRUE, FALSE)]]

(* The else branch of get_pt_entry: s is what it changes.  The page that   *)
(* alloc_data_page returns is not compared with NULL.                      *)
MakeTable(s, t) ==
  LET pt     == alloc_page(s.free, NULL)
      linked == [s.mem EXCEPT ![TableFrame(s.dir, s.mem, table_index)][t] =
                                Entry(pt, TRUE, FALSE)]
      dir    == [s.dir EXCEPT ![t] = Entry(pt, TRUE, TRUE)]
  IN  [free |-> s.free \ {pt},
       dir  |-> dir,
       ptrs |-> s.ptrs \cup {t},
       mem  |-> [linked EXCEPT ![TableFrame(dir, linked, t)] = ZeroTable]]

(* Mutants of get_pt_entry: the table is made again; the table is cleared  *)
(* each time.                                                              *)
get_pt_entry_remakes(s, t) == MakeTable(s, t)

get_pt_entry_clears(s, t) ==
  IF t \in s.ptrs
  THEN [s EXCEPT !.mem = [s.mem EXCEPT ![TableFrame(s.dir, s.mem, t)] = ZeroTable]]
  ELSE MakeTable(s, t)

get_pt_entry(s, t) == IF t \in s.ptrs THEN s ELSE MakeTable(s, t)

(* The frame that page v loses when it gets another entry: nobody frees it.*)
Behind(v) == {e.frame : e \in {Walk(page_tables, mem, v)} \ {Absent}}

(* mmap: the entry of page v, in a table made for it if there is none.     *)
mmap(v, entry, free) ==
  LET t == v \div ENTRIES
      s == get_pt_entry([free |-> free, dir |-> page_tables,
                         ptrs |-> page_table_ptrs, mem |-> mem], t)
  IN  /\ data_free' = s.free
      /\ page_tables' = s.dir
      /\ page_table_ptrs' = s.ptrs
      /\ mem' = [s.mem EXCEPT ![TableFrame(s.dir, s.mem, t)][v % ENTRIES] = entry]
      /\ lost' = lost \cup Behind(v)

-----------------------------------------------------------------------------
(* A mapping that a loop makes: of a given frame, or of one it allocates   *)
(* from a pool and asserts not to be NULL.                                 *)
Fixed(page, rw) ==
  [page |-> page, pool |-> "none", rw |-> rw, user |-> FALSE]
Fresh(page, pool, rw, user) ==
  [page |-> page, pool |-> pool, rw |-> rw, user |-> user]

Run(first, count, Make(_)) == [i \in 1 .. count |-> Make(first + i - 1)]

(* map_kernel_pages: each page at its own frame.                           *)
kernel_pages ==
  LET rw(page) == Fixed(page, TRUE)
      ro(page) == Fixed(page, FALSE)
  IN  Run(data_base, data_top + DIR_PAGES, rw)
        \o <<rw(stack_page)>>
        \o Run(code_base, kernel_code, ro)
        \o <<rw(video_page)>>
        \o Run(module_base, module_len, rw)

(* load_module_code_and_data: code, then data and stack.                   *)
module_code ==
  LET code(page) == Fresh(page, "code", FALSE, TRUE)
  IN  Run(code_base + MODULE_CODE, module_code_pages, code)
module_data ==
  LET data(page) == Fresh(page, "data", TRUE, TRUE)
  IN  Run(data_base + MODULE_DATA, module_data_pages, data) \o <<data(module_stack_page)>>

Init ==
  /\ data_free = DataFrames \ ((data_base .. data_base + data_top - 1) \cup {stack_page})
  /\ code_free = CodeFrames \ (code_base .. code_base + kernel_code - 1)
  /\ page_tables = JunkTable
  /\ page_table_ptrs = {}
  /\ mem = [f \in DataFrames |-> JunkTable]
  /\ paging_enabled = FALSE
  /\ todo = <<>>
  /\ heap_brk = 0
  /\ module_loaded = FALSE
  /\ panicked = FALSE
  /\ faulted = {} /\ lost = {}

(* The directory takes two pages that must be neighbours, the table of     *)
(* page tables a third, which it also maps at its own place in the window. *)
init_paging_tables ==
  LET ptt == Least(data_free \ {kernel_page_directory, kernel_page_directory + 1})
  IN  /\ ~paging_enabled /\ page_table_ptrs = {}
      /\ data_free' = data_free \ {kernel_page_directory, kernel_page_directory + 1, ptt}
      /\ page_tables' = [ZeroTable EXCEPT ![table_index] = Entry(ptt, TRUE, FALSE)]
      /\ page_table_ptrs' = {table_index}
      /\ mem' = [mem EXCEPT ![ptt] = [ZeroTable EXCEPT ![table_index] = Entry(ptt, TRUE, FALSE)]]
      /\ todo' = kernel_pages
      /\ UNCHANGED <<faulted, lost, code_free, paging_enabled, heap_brk, module_loaded, panicked>>

(* An iteration of the mapping loops of map_kernel_pages, sbrk and         *)
(* load_module_code_and_data.                                              *)
MapFixed ==
  /\ todo # <<>> /\ Head(todo).pool = "none"
  /\ mmap(Head(todo).page, Entry(Head(todo).page, Head(todo).rw, FALSE), data_free)
  /\ todo' = Tail(todo)
  /\ UNCHANGED <<faulted, code_free, paging_enabled, heap_brk, module_loaded, panicked>>

MapDataPage ==
  LET frame == alloc_page(data_free, NULL)
  IN  /\ todo # <<>> /\ Head(todo).pool = "data"
      /\ frame # NULL
      /\ mmap(Head(todo).page, Entry(frame, Head(todo).rw, Head(todo).user),
              data_free \ {frame})
      /\ todo' = Tail(todo)
      /\ faulted' = faulted \ {Head(todo).page}
      /\ UNCHANGED <<code_free, paging_enabled, heap_brk, module_loaded, panicked>>

MapCodePage ==
  LET frame == alloc_page(code_free, code_base)
  IN  /\ todo # <<>> /\ Head(todo).pool = "code"
      /\ frame # code_base
      /\ mmap(Head(todo).page, Entry(frame, Head(todo).rw, Head(todo).user), data_free)
      /\ code_free' = code_free \ {frame}
      /\ todo' = Tail(todo)
      /\ UNCHANGED <<faulted, paging_enabled, heap_brk, module_loaded, panicked>>

(* ASSERT(ptr != NULL) in sbrk and load_module_code_and_data.              *)
MapAssertFails ==
  /\ todo # <<>>
  /\ alloc_page([data |-> data_free, code |-> code_free, none |-> {1}][Head(todo).pool], 0) = 0
  /\ panicked' = TRUE
  /\ UNCHANGED <<faulted, lost, data_free, code_free, page_tables, page_table_ptrs, mem,
                 paging_enabled, todo, heap_brk, module_loaded>>

(* The end of init_paging, and init_heap.                                  *)
switch_page_directory ==
  /\ ~paging_enabled /\ page_table_ptrs # {} /\ todo = <<>>
  /\ paging_enabled' = TRUE
  /\ heap_brk' = heap_start
  /\ UNCHANGED <<faulted, lost, data_free, code_free, page_tables, page_table_ptrs, mem,
                 todo, module_loaded, panicked>>

Idle == paging_enabled /\ todo = <<>>

(* Mutants of sbrk: the break does not move; the flags are swapped.        *)
sbrk_keeps_break(increment) ==
  LET page(v) == Fresh(v, "data", TRUE, FALSE)
  IN  /\ Idle
      /\ heap_brk + increment < heap_start + heap_size
      /\ todo' = Run(heap_brk, increment, page)
      /\ UNCHANGED <<faulted, lost, data_free, code_free, page_tables, page_table_ptrs, mem,
                     paging_enabled, heap_brk, module_loaded, panicked>>

sbrk_for_user(increment) ==
  LET page(v) == Fresh(v, "data", FALSE, TRUE)
  IN  /\ Idle
      /\ heap_brk + increment < heap_start + heap_size
      /\ todo' = Run(heap_brk, increment, page)
      /\ heap_brk' = heap_brk + increment
      /\ UNCHANGED <<faulted, lost, data_free, code_free, page_tables, page_table_ptrs, mem,
                     paging_enabled, module_loaded, panicked>>

(* The code moves heap_brk after its loop; nothing reads it before that.   *)
sbrk(increment) ==
  LET page(v) == Fresh(v, "data", TRUE, FALSE)
  IN  /\ Idle
      /\ IF heap_brk + increment < heap_start + heap_size
         THEN /\ todo' = Run(heap_brk, increment, page)
              /\ heap_brk' = heap_brk + increment
              /\ UNCHANGED panicked
         ELSE /\ panicked' = TRUE
              /\ UNCHANGED <<todo, heap_brk>>
      /\ UNCHANGED <<faulted, lost, data_free, code_free, page_tables, page_table_ptrs, mem,
                     paging_enabled, module_loaded>>

(* start_module loads the module's pages the first time only.              *)
load_module_code_and_data ==
  /\ Idle /\ module_code_pages > 0 /\ ~module_loaded
  /\ module_loaded' = TRUE
  /\ todo' = module_code \o module_data
  /\ UNCHANGED <<faulted, lost, data_free, code_free, page_tables, page_table_ptrs, mem,
                 paging_enabled, heap_brk, panicked>>

(* A fault of the kernel on a page that is not mapped, when no loop maps:  *)
(* between the loader's, while it clears and copies the code, too.         *)
Between == paging_enabled /\ todo \in {<<>>, module_data}

page_fault_handler(v) ==
  LET frame == alloc_page(data_free, NULL)
  IN  /\ Between
      /\ ~Walk(page_tables, mem, v).present
      /\ IF v >= code_base \/ frame = NULL
         THEN /\ panicked' = TRUE
              /\ UNCHANGED <<faulted, lost, data_free, page_tables, page_table_ptrs, mem>>
         ELSE /\ mmap(v, Entry(frame, TRUE, FALSE), data_free \ {frame})
              /\ faulted' = faulted \cup {v}
              /\ UNCHANGED panicked
      /\ UNCHANGED <<code_free, paging_enabled, todo, heap_brk, module_loaded>>

(* munmap makes no table, and does not free the frame.  Nothing calls it   *)
(* in this version; the model unmaps the pages that faults have mapped.    *)
munmap(v) ==
  LET t == v \div ENTRIES
  IN  /\ Idle
      /\ t \in page_table_ptrs
      /\ mem' = [mem EXCEPT ![TableFrame(page_tables, mem, t)][v % ENTRIES] = Absent]
      /\ lost' = lost \cup Behind(v)
      /\ faulted' = faulted \ {v}
      /\ UNCHANGED <<data_free, code_free, page_tables, page_table_ptrs,
                     paging_enabled, todo, heap_brk, module_loaded, panicked>>

Next ==
  /\ ~panicked
  /\ \/ init_paging_tables
     \/ MapFixed \/ MapDataPage \/ MapCodePage \/ MapAssertFails
     \/ switch_page_directory
     \/ load_module_code_and_data
     \/ \E increment \in Increments : sbrk(increment)
     \/ \E v \in FaultPages : page_fault_handler(v)
     \/ \E v \in faulted : munmap(v)

Spec == Init /\ [][Next]_vars

-----------------------------------------------------------------------------
EntryType == [present : BOOLEAN, rw : BOOLEAN, user : BOOLEAN, frame : Page]

(* Type correctness of the directory, the tables and the free frames.      *)
TypeOK ==
  /\ data_free \subseteq DataFrames /\ code_free \subseteq CodeFrames
  /\ page_tables \in [Index -> EntryType]
  /\ page_table_ptrs \subseteq Index
  /\ mem \in [DataFrames -> [Index -> EntryType]]
  /\ paging_enabled \in BOOLEAN /\ module_loaded \in BOOLEAN /\ panicked \in BOOLEAN
  /\ heap_brk \in Page
  /\ faulted \subseteq FaultPages /\ lost \subseteq Page

Translation(v) == Walk(page_tables, mem, v)
Mapped == {v \in Page \ Window : Translation(v).present}
Tables == {page_tables[t].frame : t \in page_table_ptrs}
Booted == page_table_ptrs # {}

(* A page table that get_pt_entry put at NULL, over the kernel's data.     *)
TableAtNull == Booted /\ NULL \in Tables

(* Through the window the kernel sees exactly the tables that the          *)
(* processor walks: the window page of a table maps to the frame in the    *)
(* directory, and a table the directory lacks has no window page.  Else    *)
(* an mmap would edit a stranger's page, or fault in the fault handler.    *)
WindowShowsDirectory ==
  Booted /\ ~TableAtNull =>
    \A t \in Index :
      /\ t \in page_table_ptrs <=> page_tables[t].present
      /\ t \in page_table_ptrs <=> Translation(TablePage(t)).present
      /\ t \in page_table_ptrs => Translation(TablePage(t)).frame = page_tables[t].frame

(* A frame has one use: it is free, or a page table, or behind one page,   *)
(* or was behind one.  The directory and the tables keep their types.      *)
FramesHaveOneUse ==
  /\ TypeOK
  /\ Booted /\ ~TableAtNull =>
       /\ \A v, w \in Mapped : Translation(v).frame = Translation(w).frame => v = w
       /\ \A v \in Mapped : Translation(v).frame \notin Tables \cup data_free \cup code_free \cup lost
       /\ Tables \cap (data_free \cup lost) = {}
       /\ lost \cap data_free = {}
       /\ Cardinality(Tables) = Cardinality(page_table_ptrs)

(* A module, which runs in ring 3, reaches the pages loaded for it and no  *)
(* page of the kernel, of its stack or of the window; of its heap none but *)
(* those that the module's data lie across.                                *)
UserReachesModuleOnly ==
  Booted /\ ~TableAtNull =>
    {v \in Page : Translation(v).user} \subseteq ModulePages

(* A page that is mapped keeps its frame, unless a fault had mapped it, or *)
(* it is one of the few that two loops map; then its frame is lost.  These *)
(* are the pages whose cached translations the processor would have to be  *)
(* told to forget: mmap never does.                                        *)
OnlySharedPagesMove ==
  [][~TableAtNull' /\ Booted =>
       \A v \in Page : Translation(v).present /\ Translation(v)' # Translation(v) =>
         v \in faulted \cup SharedPages /\ Translation(v).frame \in lost']_vars

(* The pages of the data segment that have no frame yet: in the window one *)
(* for each table that is yet to be made.                                  *)
Spare == {v \in DataFrames \ FixedPages :
            IF v \in Window THEN v % ENTRIES \notin page_table_ptrs ELSE v \notin Mapped}

(* The data segment has a frame, free or lost, for each of its pages that  *)
(* has none and for every table that this takes, because its pages in the  *)
(* window need no frame and are as many as there can be tables.  So memory *)
(* runs short only by what was lost: until then get_pt_entry, which does   *)
(* not look, never gets NULL for a table, and no ASSERT or PANIC for want  *)
(* of memory is reached but for a page that has a frame already.           *)
MemoryNeverRunsOut ==
  Booted =>
    /\ lost = {} => ~TableAtNull
    /\ ~TableAtNull =>
         /\ Cardinality(Spare) = Cardinality(data_free) + Cardinality(lost)
         /\ todo # <<>> /\ Head(todo).pool = "code" => code_free # {}

AS == INSTANCE AddressSpace WITH
  Pages  <- Page \ Window,
  map    <- [v \in Page \ Window |-> IF Booted THEN Translation(v) ELSE Absent],
  broken <- TableAtNull

(* The page tables implement a map from pages to translations in which     *)
(* every mmap changes the page it was asked to map and no other.           *)
ImplementsAddressSpace == AS!Spec

=============================================================================
