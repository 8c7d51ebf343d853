---------------------------- MODULE PagingProofs ----------------------------
(***************************************************************************)
(* Tables edited through themselves stay what they should be, frames have  *)
(* one use, and memory suffices, for every size of the tables, every layout*)
(* that the boot code accepts and every sequence of mappings.              *)
(***************************************************************************)
EXTENDS Paging, FiniteSetTheorems, SequenceTheorems, WellFoundedInduction, TLAPS

(* What an mmap may map.                                                   *)
SomePages == FixedPages \cup HeapPages \cup ModulePages \cup FaultPages

TablesTyped ==
  /\ page_tables \in [Index -> EntryType] /\ page_table_ptrs \subseteq Index
  /\ mem \in [DataFrames -> [Index -> EntryType]]

(* The table of page tables has an entry for each table, which only the    *)
(* kernel may use; tables have frames of their own.                        *)
TablesHold ==
  LET window == mem[page_tables[table_index].frame]
  IN  /\ table_index \in page_table_ptrs
      /\ \A t \in page_table_ptrs :
           /\ page_tables[t].frame \in DataFrames
           /\ page_tables[t] = Entry(page_tables[t].frame, TRUE, t # table_index)
           /\ window[t] = Entry(page_tables[t].frame, TRUE, FALSE)
      /\ \A t \in Index \ page_table_ptrs : ~page_tables[t].present /\ window[t] = Absent
      /\ \A t, u \in page_table_ptrs : page_tables[t].frame = page_tables[u].frame => t = u

(* What a loop has yet to map.                                             *)
Item == [page : Page \ Window, pool : {"none", "data", "code"}, rw : BOOLEAN, user : BOOLEAN]
ItemHolds(item) ==
  LET v == item.page
  IN  /\ item.pool = "none" => v \in FixedPages /\ ~paging_enabled
      /\ item.pool = "data" => \/ v \in HeapPages /\ v < heap_brk /\ ~item.user
                               \/ v \in ModuleData \cup ModuleStack /\ module_loaded
      /\ item.pool = "code" => v \in ModuleCode /\ module_loaded
      /\ item.pool # "none" => paging_enabled
      /\ item.user => v \in ModulePages

TodoHolds ==
  /\ todo \in Seq(Item)
  /\ ~Booted => todo = <<>> /\ ~paging_enabled
  /\ \A n \in 1 .. Len(todo) : ItemHolds(todo[n])
  /\ \A m, n \in 1 .. Len(todo) :
       todo[m].page = todo[n].page => m = n \/ todo[m].page \in SharedPages
  /\ paging_enabled => heap_brk \in heap_start .. heap_start + heap_size - 1
  /\ ~paging_enabled => heap_brk = 0

(* A page that its loop has mapped, and no loop will map again.            *)
Settled(v) ==
  /\ v \in HeapPages => v < heap_brk
  /\ v \in ModulePages => module_loaded
  /\ \A n \in 1 .. Len(todo) : todo[n].page # v

(* Which pages are mapped, and to what.                                    *)
PageHolds(v) ==
  LET f == Translation(v).frame
  IN  /\ v \in FixedPages \cup HeapPages \cup ModulePages \cup faulted
      /\ v \in FixedPages => f = v
      /\ v \notin FixedPages => f \notin FixedPages
      /\ f \notin Tables \cup data_free \cup code_free \cup lost
      /\ Translation(v).user => v \in ModulePages
      /\ v \in faulted \cup SharedPages \/ Settled(v)

PagesHold ==
  /\ \A v \in Mapped : PageHolds(v)
  /\ \A v, w \in Mapped : Translation(v).frame = Translation(w).frame => v = w

(* Nothing that is used is free.                                           *)
FramesHold ==
  /\ FixedPages \cap (data_free \cup code_free \cup lost \cup Tables) = {}
  /\ Tables \cap (data_free \cup lost) = {}
  /\ lost \cap (data_free \cup code_free) = {}

(* There are frames for the pages and tables that may yet need one; those  *)
(* of the data segment are all accounted for.                              *)
SpareCode == ModuleCode \ Mapped

CountsHold ==
  /\ Cardinality(Spare) = Cardinality(data_free) + Cardinality(lost)
  /\ Cardinality(SpareCode) <= Cardinality(code_free)

TablesInData ==
  \A t \in Index : t \in page_table_ptrs \/ page_tables[t].present =>
                     page_tables[t].frame \in DataFrames

PInv ==
  /\ TypeOK
  /\ TablesInData
  /\ TodoHolds
  /\ faulted \subseteq DataFrames
  /\ Booted /\ ~TableAtNull => TablesHold /\ PagesHold /\ FramesHold /\ CountsHold
  /\ Booted /\ lost = {} => ~TableAtNull
  /\ ~Booted => /\ data_free = DataFrames \ ((data_base .. data_base + data_top - 1) \cup {stack_page})
                /\ code_free = CodeFrames \ (code_base .. code_base + kernel_code - 1)
                /\ lost = {} /\ ~module_loaded

-----------------------------------------------------------------------------
(* Arithmetic of pages and tables.                                         *)
LEMMA Types ==
  /\ ENTRIES \in Nat \ {0, 1}
  /\ data_base \in Nat /\ data_len \in Nat /\ code_base \in Nat /\ code_len \in Nat
  /\ module_base \in Nat /\ module_len \in Nat /\ MODULE_CODE \in Nat /\ MODULE_DATA \in Nat
  /\ module_code_pages \in Nat /\ module_data_pages \in Nat
  /\ data_top \in Nat \ {0} /\ kernel_code \in Nat \ {0}
  /\ ENTRIES * ENTRIES \in Nat
  /\ video_page \in 0 .. ENTRIES * ENTRIES - 1
  /\ video_page \notin module_base .. module_base + module_len - 1
<1>1. ENTRIES \in Nat \ {0, 1}
  BY LayoutAssumption
<1>2. ENTRIES * ENTRIES \in Nat
  BY <1>1
<1>. QED  BY <1>1, <1>2, SizesAssumption DEF Page

LEMMA Products ==
  ASSUME NEW m \in Int, NEW n \in Int
  PROVE  /\ ENTRIES * m \in Int /\ m * ENTRIES = ENTRIES * m
         /\ ENTRIES * m < ENTRIES * n => m < n
         /\ m <= n => ENTRIES * m <= ENTRIES * n
         /\ ENTRIES * (m + 1) = ENTRIES * m + ENTRIES
<1>1. ENTRIES \in Nat \ {0}
  BY Types
<1>2. ENTRIES * m \in Int /\ ENTRIES * n \in Int /\ m * ENTRIES = ENTRIES * m
  BY <1>1
<1>3. m <= n => ENTRIES * m <= ENTRIES * n
  BY <1>1
<1>4. n <= m => ENTRIES * n <= ENTRIES * m
  BY <1>1
<1>5. ENTRIES * (m + 1) = ENTRIES * m + ENTRIES
  BY <1>1
<1>. QED  BY <1>2, <1>3, <1>4, <1>5

LEMMA Quotient ==
  ASSUME NEW v \in Nat
  PROVE  /\ v \div ENTRIES \in Nat
         /\ v % ENTRIES \in 0 .. ENTRIES - 1
         /\ v = ENTRIES * (v \div ENTRIES) + (v % ENTRIES)
<1>1. /\ ENTRIES \in Nat \ {0}
      /\ v \div ENTRIES \in Int /\ v % ENTRIES \in 0 .. ENTRIES - 1
      /\ v = ENTRIES * (v \div ENTRIES) + (v % ENTRIES)
  BY Types
<1>2. ASSUME v \div ENTRIES < 0 PROVE FALSE
  <2>1. ENTRIES * (v \div ENTRIES) <= ENTRIES * (-1) /\ ENTRIES * (-1) = -ENTRIES
    BY <1>1, <1>2, Products
  <2>. QED  BY <1>1, <2>1
<1>. QED  BY <1>1, <1>2

LEMMA UniqueQuotient ==
  ASSUME NEW t \in Nat, NEW k \in 0 .. ENTRIES - 1
  PROVE  (ENTRIES * t + k) \div ENTRIES = t /\ (ENTRIES * t + k) % ENTRIES = k
<1> DEFINE v == ENTRIES * t + k
<1>1. ENTRIES \in Nat \ {0} /\ ENTRIES * t \in Nat /\ v \in Nat
  BY Types
<1> DEFINE q == v \div ENTRIES
           r == v % ENTRIES
<1>2. q \in Nat /\ r \in 0 .. ENTRIES - 1 /\ v = ENTRIES * q + r
  BY <1>1, Quotient
<1> HIDE DEF q, r
<1>3. ENTRIES * q \in Int /\ ENTRIES * (q + 1) = ENTRIES * q + ENTRIES
      /\ ENTRIES * (t + 1) = ENTRIES * t + ENTRIES
  BY <1>1, <1>2, Products
<1>4. ~(t < q)
  <2>1. t + 1 <= q => ENTRIES * (t + 1) <= ENTRIES * q
    BY <1>2, Products
  <2>. QED  BY <1>1, <1>2, <1>3, <2>1
<1>5. ~(q < t)
  <2>1. q + 1 <= t => ENTRIES * (q + 1) <= ENTRIES * t
    BY <1>2, Products
  <2>. QED  BY <1>1, <1>2, <1>3, <2>1
<1>6. q = t
  BY <1>2, <1>4, <1>5
<1>7. r = k
  BY <1>1, <1>2, <1>6
<1>. QED  BY <1>6, <1>7 DEF q, r

LEMMA PageParts ==
  ASSUME NEW v \in Page
  PROVE  /\ v \div ENTRIES \in Index /\ v % ENTRIES \in Index
         /\ v = ENTRIES * (v \div ENTRIES) + (v % ENTRIES)
<1>1. v \in Nat /\ v < ENTRIES * ENTRIES /\ ENTRIES \in Nat \ {0, 1}
  BY Types DEF Page
<1> DEFINE q == v \div ENTRIES
<1>2. q \in Nat /\ v % ENTRIES \in 0 .. ENTRIES - 1 /\ v = ENTRIES * q + (v % ENTRIES)
  BY <1>1, Quotient
<1> HIDE DEF q
<1>3. ENTRIES * q < ENTRIES * ENTRIES
  BY <1>1, <1>2, Products
<1>4. q < ENTRIES
  BY <1>1, <1>2, <1>3, Products
<1>. QED  BY <1>1, <1>2, <1>4 DEF q, Index

(* The window lies above the kernel's data and below the heap.             *)
LEMMA WindowPlace ==
  /\ table_index \in Nat /\ ENTRIES * table_index \in Nat
  /\ top_data <= ENTRIES * table_index /\ heap_start = ENTRIES * table_index + ENTRIES
  /\ top_data = data_base + data_top + 2 /\ kernel_page_directory = data_base + data_top
<1> DEFINE q == top_data \div ENTRIES
           r == top_data % ENTRIES
<1>1. top_data \in Nat /\ top_data = data_base + data_top + 2
      /\ kernel_page_directory = data_base + data_top
  BY Types DEF top_data, kernel_page_directory, DIR_PAGES
<1>2. q \in Nat /\ r \in 0 .. ENTRIES - 1 /\ top_data = ENTRIES * q + r
  BY <1>1, Quotient
<1>3. table_index = IF r # 0 THEN q + 1 ELSE q
  BY DEF table_index
<1> HIDE DEF q, r
<1>4. table_index \in Nat /\ ENTRIES * table_index \in Int /\ ENTRIES * q \in Int
      /\ ENTRIES * (q + 1) = ENTRIES * q + ENTRIES
  BY <1>2, <1>3, Products
<1>5. top_data <= ENTRIES * table_index
  BY <1>1, <1>2, <1>3, <1>4, Types
<1>6. heap_start = ENTRIES * table_index + ENTRIES
  <2>1. heap_start = ENTRIES * (table_index + 1)
    BY <1>4, Products DEF heap_start
  <2>. QED  BY <1>4, <2>1, Products
<1>. QED  BY <1>1, <1>4, <1>5, <1>6

(* The heap lies between the window and the stacks.                        *)
LEMMA HeapPlace ==
  /\ heap_size \in Nat \ {0} /\ heap_start \in Nat
  /\ heap_start + heap_size <= module_stack_page
  /\ module_stack_page = data_base + data_len - 2 /\ stack_page = data_base + data_len - 1
<1> DEFINE D == data_base + data_len
           room == (data_base + data_len - heap_start) \div 2
<1>1. heap_start \in Nat /\ D \in Nat /\ ENTRIES \in Nat \ {0, 1}
  BY WindowPlace, Types
<1>2. room \in Int /\ 2 * room <= D - heap_start /\ D - heap_start <= 2 * room + 1
  BY <1>1, Types
<1>3. heap_size = IF room > ENTRIES THEN ENTRIES ELSE room
  BY DEF heap_size
<1>4. module_stack_page = D - 2 /\ stack_page = D - 1
  BY Types DEF module_stack_page, stack_page
<1>5. heap_start + heap_size <= D - 2
  BY <1>4, LayoutAssumption
<1> HIDE DEF room
<1>6. heap_size \in Int
  BY <1>1, <1>2, <1>3
<1>7. heap_size > 0
  <2>1. CASE room > ENTRIES
    BY <2>1, <1>1, <1>3
  <2>2. CASE ~(room > ENTRIES)
    BY <2>2, <1>1, <1>2, <1>3, <1>5
  <2>. QED  BY <2>1, <2>2
<1>. QED  BY <1>1, <1>4, <1>5, <1>6, <1>7, Types

(* The window's pages are those whose table is the table of page tables.   *)
LEMMA WindowPages ==
  /\ table_index \in Index
  /\ Window = ENTRIES * table_index .. ENTRIES * table_index + ENTRIES - 1
  /\ \A t \in Index : /\ TablePage(t) \in Page \cap Window
                      /\ TablePage(t) \div ENTRIES = table_index /\ TablePage(t) % ENTRIES = t
  /\ \A v \in Page : v \in Window <=> v \div ENTRIES = table_index
<1> DEFINE w == ENTRIES * table_index
<1>1. ENTRIES \in Nat \ {0, 1} /\ ENTRIES * ENTRIES \in Nat /\ table_index \in Nat /\ w \in Nat
  BY Types, WindowPlace
<1>2. w + ENTRIES <= ENTRIES * ENTRIES
  <2>1. heap_start < data_base + data_len
    BY HeapPlace, Types
  <2>2. data_base + data_len <= ENTRIES * ENTRIES
    BY LayoutAssumption, Types
  <2>. QED  BY <1>1, <2>1, <2>2, WindowPlace, Types
<1>3. table_index < ENTRIES
  <2>1. w < ENTRIES * ENTRIES
    BY <1>1, <1>2
  <2>. QED  BY <1>1, <2>1, Products
<1>4. table_index \in Index
  BY <1>1, <1>3 DEF Index
<1>5. ASSUME NEW t \in Index
      PROVE  /\ TablePage(t) = w + t /\ TablePage(t) \in Page \cap Window
             /\ TablePage(t) \div ENTRIES = table_index /\ TablePage(t) % ENTRIES = t
  <2>1. TablePage(t) = w + t
    BY <1>1, Products DEF TablePage
  <2>2. t \in 0 .. ENTRIES - 1
    BY DEF Index
  <2>3. (w + t) \div ENTRIES = table_index /\ (w + t) % ENTRIES = t
    BY <1>1, <2>2, UniqueQuotient
  <2>4. w + t \in Page
    BY <1>1, <1>2, <2>2 DEF Page
  <2>. QED  BY <2>1, <2>3, <2>4 DEF Window
<1>6. Window = w .. w + ENTRIES - 1
  <2>1. ASSUME NEW v \in Window PROVE v \in w .. w + ENTRIES - 1
    <3>1. PICK t \in Index : v = TablePage(t)
      BY DEF Window
    <3>. QED  BY <1>1, <1>5, <3>1 DEF Index
  <2>2. ASSUME NEW v \in w .. w + ENTRIES - 1 PROVE v \in Window
    <3>1. v - w \in Index /\ v = w + (v - w)
      BY <1>1 DEF Index
    <3>. QED  BY <1>5, <3>1 DEF Window
  <2>. QED  BY <2>1, <2>2
<1>7. ASSUME NEW v \in Page PROVE v \in Window <=> v \div ENTRIES = table_index
  <2>1. v \in Window => v \div ENTRIES = table_index
    BY <1>5 DEF Window
  <2>2. ASSUME v \div ENTRIES = table_index PROVE v \in Window
    <3>1. v % ENTRIES \in Index /\ v = w + (v % ENTRIES)
      BY <2>2, PageParts
    <3>2. v = TablePage(v % ENTRIES)
      BY <1>5, <3>1
    <3>. QED  BY <1>5, <3>1, <3>2
  <2>. QED  BY <2>1, <2>2
<1>. QED  BY <1>4, <1>5, <1>6, <1>7

(* The window and the pages mapped to themselves keep apart, and from all  *)
(* others; the heap is not where the module's stack is.                    *)
LEMMA Areas ==
  /\ Page \subseteq Nat /\ DataFrames \subseteq Page /\ CodeFrames \subseteq Page
  /\ DataFrames \cap CodeFrames = {}
  /\ Window \subseteq DataFrames /\ HeapPages \subseteq DataFrames
  /\ FaultPages \subseteq DataFrames \cup CodeFrames
  /\ ModuleData \cup ModuleStack \subseteq DataFrames /\ ModuleCode \subseteq Page \ DataFrames
  /\ SharedPages \subseteq DataFrames \cap ModulePages
  /\ FixedPages \subseteq Page
  /\ SomePages \subseteq Page \ Window
  /\ FixedPages \cap (HeapPages \cup ModulePages \cup FaultPages) = {}
  /\ HeapPages \cap ModuleStack = {}
  /\ NULL \in FixedPages /\ code_base \in FixedPages
<1> DEFINE w == ENTRIES * table_index
           C == code_base .. code_base + kernel_code - 1
           M == module_base .. module_base + module_len - 1
           B == data_base .. top_data - 1
<1>1. /\ ENTRIES \in Nat /\ w \in Nat /\ heap_start \in Nat /\ heap_size \in Nat \ {0}
      /\ top_data \in Nat /\ stack_page \in Int /\ module_stack_page \in Int
      /\ top_data = data_base + data_top + 2 /\ top_data <= w /\ heap_start = w + ENTRIES
      /\ heap_start + heap_size <= module_stack_page
      /\ module_stack_page = data_base + data_len - 2 /\ stack_page = data_base + data_len - 1
      /\ Window = w .. w + ENTRIES - 1
  BY WindowPlace, HeapPlace, WindowPages, Types
<1>2. /\ code_base = data_base + data_len /\ code_base + code_len <= ENTRIES * ENTRIES
      /\ module_base + module_len <= data_base
      /\ kernel_code <= code_len /\ kernel_code < MODULE_CODE
      /\ heap_start <= data_base + MODULE_DATA
      /\ module_code_pages > 0 =>
           /\ data_base + MODULE_DATA + module_data_pages <= stack_page
           /\ code_base + MODULE_CODE + module_code_pages <= ENTRIES * ENTRIES
      /\ video_page \notin DataFrames \cup CodeFrames \cup ModulePages
      /\ FaultPages \subseteq (DataFrames \cup CodeFrames) \ (Window \cup FixedPages)
  BY LayoutAssumption
<1> HIDE DEF w
<1>3. /\ Page \subseteq Nat /\ DataFrames \subseteq Page /\ CodeFrames \subseteq Page
      /\ DataFrames \cap CodeFrames = {}
  BY <1>2, Types DEF Page, DataFrames, CodeFrames
<1>4. Window \subseteq DataFrames
  BY <1>1, Types DEF DataFrames
<1>5. HeapPages \subseteq DataFrames
  BY <1>1, Types DEF DataFrames, HeapPages
<1>6. B \subseteq DataFrames /\ stack_page \in DataFrames
  BY <1>1, Types DEF DataFrames
<1>7. C \subseteq CodeFrames
  BY <1>2, Types DEF CodeFrames
<1>8. M \cap (DataFrames \cup CodeFrames) = {}
  BY <1>2, Types DEF DataFrames, CodeFrames
<1>9. M \subseteq Page /\ video_page \in Page
  BY <1>2, Types DEF Page
<1>10. Window \cap HeapPages = {}
  BY <1>1, Types DEF HeapPages
<1>11. B \cap (Window \cup HeapPages) = {}
  BY <1>1, Types DEF HeapPages
<1>12. stack_page \notin Window \cup HeapPages
  BY <1>1, Types DEF HeapPages
<1>13. ModuleCode \subseteq Page /\ ModuleCode \cap (DataFrames \cup C \cup M) = {}
  <2>1. CASE module_code_pages = 0
    <3>1. ModuleCode = {}
      BY <2>1, <1>2, Types DEF ModuleCode
    <3>. QED  BY <3>1
  <2>2. CASE module_code_pages > 0
    <3>1. code_base + MODULE_CODE + module_code_pages <= ENTRIES * ENTRIES
      BY <2>2, <1>2
    <3>2. ModuleCode \subseteq Page
      BY <3>1, <1>2, Types DEF ModuleCode, Page
    <3>3. ModuleCode \cap (DataFrames \cup C \cup M) = {}
      BY <1>2, Types DEF ModuleCode, DataFrames
    <3>. QED  BY <3>2, <3>3
  <2>. QED  BY <2>1, <2>2, Types
<1>14. ModuleData \subseteq DataFrames
  BY <1>1, <1>2, Types DEF DataFrames, ModuleData
<1>15. ModuleData \cap (B \cup Window \cup {stack_page}) = {}
  BY <1>1, <1>2, Types DEF ModuleData
<1>16. ModuleStack \subseteq DataFrames
  BY <1>1, Types DEF DataFrames, ModuleStack
<1>17. ModuleStack \cap (B \cup Window \cup HeapPages \cup {stack_page}) = {}
  BY <1>1, Types DEF HeapPages, ModuleStack
<1>18. NULL \in B /\ code_base \in C
  BY <1>1, Types DEF NULL
<1>19. FixedPages = B \cup {stack_page} \cup C \cup {video_page} \cup M
  BY DEF FixedPages
<1> HIDE DEF B, C, M
<1>. QED
  <2>1. ModulePages \cap Window = {}
    BY <1>4, <1>13, <1>15, <1>17 DEF ModulePages
  <2>2. FixedPages \subseteq Page /\ FixedPages \cap (Window \cup HeapPages) = {}
    BY <1>2, <1>3, <1>4, <1>5, <1>6, <1>7, <1>8, <1>9, <1>11, <1>12, <1>19
  <2>3. FixedPages \cap ModulePages = {}
    <3>1. (B \cup {stack_page}) \cap ModulePages = {}
      BY <1>6, <1>13, <1>15, <1>17 DEF ModulePages
    <3>2. (C \cup M) \cap ModulePages = {}
      BY <1>3, <1>7, <1>8, <1>13, <1>14, <1>16 DEF ModulePages
    <3>. QED  BY <1>2, <1>19, <3>1, <3>2
  <2>4. SharedPages \subseteq DataFrames \cap ModulePages
    BY <1>14 DEF SharedPages, ModulePages
  <2>5. SomePages \subseteq Page \ Window
    <3>1. Window \cap SomePages = {}
      BY <1>2, <1>10, <2>1, <2>2 DEF SomePages
    <3>2. ModulePages \subseteq Page /\ HeapPages \subseteq Page /\ FaultPages \subseteq Page
      BY <1>2, <1>3, <1>5, <1>13, <1>14, <1>16 DEF ModulePages
    <3>. QED  BY <2>2, <3>1, <3>2 DEF SomePages
  <2>. QED
    BY <1>2, <1>3, <1>4, <1>5, <1>13, <1>14, <1>16, <1>17, <1>18, <1>19, <2>2, <2>3, <2>4, <2>5

(* alloc_page takes a page that is free.                                   *)
Less == {pair \in Nat \X Nat : pair[1] < pair[2]}

LEMMA LessIsWellFounded == IsWellFoundedOn(Less, Nat)
  BY NatLessThanWellFounded DEF OpToRel, Less

LEMMA LeastIn ==
  ASSUME NEW S, S \subseteq Nat, S # {}
  PROVE  Least(S) \in S
<1>1. PICK n \in S : \A m \in S : ~(<<m, n>> \in Less)
  BY LessIsWellFounded, WFMin
<1>2. ASSUME NEW m \in S PROVE n <= m
  <2>1. m \in Nat /\ n \in Nat
    OBVIOUS
  <2>2. m < n => <<m, n>> \in Less
    BY <2>1 DEF Less
  <2>. QED  BY <1>1, <2>1, <2>2
<1>. QED  BY <1>2 DEF Least

-----------------------------------------------------------------------------
(* What the processor's walk finds.                                        *)
LEMMA EntryTypes ==
  /\ \A f \in Page, rw \in BOOLEAN, user \in BOOLEAN : Entry(f, rw, user) \in EntryType
  /\ Absent \in EntryType /\ ~Absent.present /\ ~Absent.user
  /\ ZeroTable \in [Index -> EntryType] /\ \A i \in Index : ZeroTable[i] = Absent
<1>1. 0 \in Page
  BY Types DEF Page
<1>2. Absent \in EntryType /\ ~Absent.present /\ ~Absent.user
  BY <1>1 DEF Absent, EntryType
<1>. QED  BY <1>2 DEF Entry, EntryType, ZeroTable

(* An entry of a table that everybody may write is what the walk finds.    *)
LEMMA WalkEntry ==
  ASSUME NEW e \in EntryType
  PROVE  [e EXCEPT !.rw = TRUE /\ e.rw, !.user = TRUE /\ e.user] = e
<1>1. e.rw \in BOOLEAN /\ e.user \in BOOLEAN
  BY DEF EntryType
<1>2. (TRUE /\ e.rw) = e.rw /\ (TRUE /\ e.user) = e.user
  BY <1>1
<1>. QED  BY <1>2 DEF EntryType

WindowTranslates ==
  \A t \in Index :
    /\ Translation(TablePage(t)) =
         IF t \in page_table_ptrs THEN Entry(page_tables[t].frame, TRUE, FALSE) ELSE Absent
    /\ t \in page_table_ptrs => TableFrame(page_tables, mem, t) = page_tables[t].frame

LEMMA WindowTables == TablesHold => WindowTranslates
<1> SUFFICES ASSUME TablesHold, NEW t \in Index
             PROVE  /\ Translation(TablePage(t)) =
                         IF t \in page_table_ptrs
                         THEN Entry(page_tables[t].frame, TRUE, FALSE) ELSE Absent
                    /\ t \in page_table_ptrs =>
                         TableFrame(page_tables, mem, t) = page_tables[t].frame
  BY DEF WindowTranslates
<1> DEFINE W == page_tables[table_index].frame
           f == page_tables[t].frame
           e == mem[W][t]
<1>1. table_index \in page_table_ptrs /\ page_tables[table_index] = Entry(W, TRUE, FALSE)
  BY DEF TablesHold
<1>2. TablePage(t) \div ENTRIES = table_index /\ TablePage(t) % ENTRIES = t
  BY WindowPages
<1>3. page_tables[table_index].present /\ page_tables[table_index].rw /\ ~page_tables[table_index].user
  BY <1>1 DEF Entry
<1>4. Translation(TablePage(t)) =
        IF e.present THEN [e EXCEPT !.rw = page_tables[table_index].rw /\ e.rw,
                                    !.user = page_tables[table_index].user /\ e.user] ELSE Absent
  BY <1>2, <1>3 DEF Translation, Walk
<1>5. ASSUME t \in page_table_ptrs
      PROVE  Translation(TablePage(t)) = Entry(f, TRUE, FALSE)
  <2>1. e = Entry(f, TRUE, FALSE)
    BY <1>5 DEF TablesHold
  <2> HIDE DEF e
  <2>2. Translation(TablePage(t)) = [e EXCEPT !.rw = TRUE, !.user = FALSE]
    BY <1>3, <1>4, <2>1 DEF Entry
  <2>. QED  BY <2>1, <2>2 DEF Entry
<1>6. ASSUME t \notin page_table_ptrs
      PROVE  Translation(TablePage(t)) = Absent
  <2>1. e = Absent
    BY <1>6 DEF TablesHold
  <2>. QED  BY <1>4, <2>1, EntryTypes
<1>7. ASSUME t \in page_table_ptrs
      PROVE  TableFrame(page_tables, mem, t) = f
  <2>1. Translation(TablePage(t)).frame = f
    BY <1>5, <1>7 DEF Entry
  <2>. QED  BY <2>1 DEF TableFrame, Translation
<1>. QED  BY <1>5, <1>6, <1>7

(* The entry of a page, if its table is there.                             *)
Cell(v) == mem[page_tables[v \div ENTRIES].frame][v % ENTRIES]

PagesTranslate ==
  \A v \in Page \ Window :
    /\ Translation(v) =
         IF v \div ENTRIES \in page_table_ptrs /\ Cell(v).present THEN Cell(v) ELSE Absent
    /\ v \div ENTRIES \in page_table_ptrs => Cell(v) \in EntryType

LEMMA PageTranslation == TablesTyped /\ TablesHold => PagesTranslate
<1> SUFFICES ASSUME TablesTyped, TablesHold, NEW v \in Page \ Window
             PROVE  /\ Translation(v) =
                         IF v \div ENTRIES \in page_table_ptrs /\ Cell(v).present
                         THEN Cell(v) ELSE Absent
                    /\ v \div ENTRIES \in page_table_ptrs => Cell(v) \in EntryType
  BY DEF PagesTranslate
<1> DEFINE t == v \div ENTRIES
<1>1. t \in Index /\ v % ENTRIES \in Index /\ t # table_index
  BY PageParts, WindowPages
<1>2. CASE t \in page_table_ptrs
  <2>1. /\ page_tables[t].frame \in DataFrames
        /\ page_tables[t] = Entry(page_tables[t].frame, TRUE, TRUE)
    BY <1>1, <1>2 DEF TablesHold
  <2>2. page_tables[t].present /\ page_tables[t].rw = TRUE /\ page_tables[t].user = TRUE
    BY <2>1 DEF Entry
  <2>3. Cell(v) \in EntryType
    BY <1>1, <2>1 DEF TablesTyped, Cell
  <2>4. Translation(v) =
          IF Cell(v).present
          THEN [Cell(v) EXCEPT !.rw = TRUE /\ Cell(v).rw, !.user = TRUE /\ Cell(v).user]
          ELSE Absent
    BY <2>2 DEF Translation, Walk, Cell
  <2>. QED  BY <1>2, <2>3, <2>4, WalkEntry
<1>3. CASE t \notin page_table_ptrs
  <2>1. ~page_tables[t].present
    BY <1>1, <1>3 DEF TablesHold
  <2>. QED  BY <1>3, <2>1 DEF Translation, Walk
<1>. QED  BY <1>2, <1>3

(* The first theorem's fact: the window follows from the tables' entries.  *)
LEMMA WindowFollows ==
  ASSUME TablesHold
  PROVE  \A t \in Index :
           /\ t \in page_table_ptrs <=> page_tables[t].present
           /\ t \in page_table_ptrs <=> Translation(TablePage(t)).present
           /\ t \in page_table_ptrs => Translation(TablePage(t)).frame = page_tables[t].frame
<1> SUFFICES ASSUME NEW t \in Index
             PROVE  /\ t \in page_table_ptrs <=> page_tables[t].present
                    /\ t \in page_table_ptrs <=> Translation(TablePage(t)).present
                    /\ t \in page_table_ptrs => Translation(TablePage(t)).frame = page_tables[t].frame
  OBVIOUS
<1>1. CASE t \in page_table_ptrs
  <2>1. page_tables[t] = Entry(page_tables[t].frame, TRUE, t # table_index)
    BY <1>1 DEF TablesHold
  <2>2. Translation(TablePage(t)) = Entry(page_tables[t].frame, TRUE, FALSE)
    BY <1>1, WindowTables DEF WindowTranslates
  <2>. QED  BY <1>1, <2>1, <2>2 DEF Entry
<1>2. CASE t \notin page_table_ptrs
  <2>1. ~page_tables[t].present
    BY <1>2 DEF TablesHold
  <2>. QED  BY <1>2, <2>1, WindowTables, EntryTypes DEF WindowTranslates
<1>. QED  BY <1>1, <1>2

-----------------------------------------------------------------------------
(* mmap, step by step.                                                     *)
LEMMA MmapWithTable ==
  ASSUME NEW v, NEW entry, NEW free, mmap(v, entry, free), v \div ENTRIES \in page_table_ptrs
  PROVE  /\ data_free' = free /\ page_tables' = page_tables /\ page_table_ptrs' = page_table_ptrs
         /\ mem' = [mem EXCEPT ![TableFrame(page_tables, mem, v \div ENTRIES)][v % ENTRIES] = entry]
<1> DEFINE s0 == [free |-> free, dir |-> page_tables, ptrs |-> page_table_ptrs, mem |-> mem]
<1>1. get_pt_entry(s0, v \div ENTRIES) = s0
  BY DEF get_pt_entry
<1>2. /\ data_free' = s0.free /\ page_tables' = s0.dir /\ page_table_ptrs' = s0.ptrs
      /\ mem' = [s0.mem EXCEPT ![TableFrame(s0.dir, s0.mem, v \div ENTRIES)][v % ENTRIES] = entry]
  BY <1>1 DEF mmap
<1>. QED  BY <1>2

(* The directory and the tables that MakeTable leaves behind.              *)
MadeDir(t, pt) == [page_tables EXCEPT ![t] = Entry(pt, TRUE, TRUE)]
Linked(t, pt) ==
  [mem EXCEPT ![TableFrame(page_tables, mem, table_index)][t] = Entry(pt, TRUE, FALSE)]
Made(t, pt) == [Linked(t, pt) EXCEPT ![TableFrame(MadeDir(t, pt), Linked(t, pt), t)] = ZeroTable]

LEMMA MmapMakesTable ==
  ASSUME NEW v, NEW entry, NEW free, mmap(v, entry, free),
         NEW t, t = v \div ENTRIES, t \notin page_table_ptrs,
         NEW pt, pt = alloc_page(free, NULL)
  PROVE  /\ data_free' = free \ {pt} /\ page_tables' = MadeDir(t, pt)
         /\ page_table_ptrs' = page_table_ptrs \cup {t}
         /\ mem' = [Made(t, pt) EXCEPT
                      ![TableFrame(MadeDir(t, pt), Made(t, pt), t)][v % ENTRIES] = entry]
<1> DEFINE s0 == [free |-> free, dir |-> page_tables, ptrs |-> page_table_ptrs, mem |-> mem]
           s1 == MakeTable(s0, v \div ENTRIES)
<1>1. get_pt_entry(s0, v \div ENTRIES) = s1
  BY DEF get_pt_entry
<1>2. /\ data_free' = s1.free /\ page_tables' = s1.dir /\ page_table_ptrs' = s1.ptrs
      /\ mem' = [s1.mem EXCEPT ![TableFrame(s1.dir, s1.mem, t)][v % ENTRIES] = entry]
  BY <1>1 DEF mmap
<1> HIDE DEF s1
<1>3. /\ s1.free = free \ {pt} /\ s1.dir = MadeDir(t, pt)
      /\ s1.ptrs = page_table_ptrs \cup {t} /\ s1.mem = Made(t, pt)
  BY DEF s1, MakeTable, MadeDir, Linked, Made
<1>. QED  BY <1>2, <1>3

LEMMA AllocPage ==
  ASSUME NEW free, free \subseteq Page
  PROVE  free # {} => alloc_page(free, NULL) \in free
<1>1. free \subseteq Nat
  BY Areas
<1>. QED  BY <1>1, LeastIn DEF alloc_page

LEMMA CellUpdate ==
  ASSUME NEW m \in [DataFrames -> [Index -> EntryType]], NEW f, NEW i, NEW e \in EntryType
  PROVE  [m EXCEPT ![f][i] = e] \in [DataFrames -> [Index -> EntryType]]
<1>1. f \in DataFrames => [m[f] EXCEPT ![i] = e] \in [Index -> EntryType]
  OBVIOUS
<1>. QED  BY <1>1

(* Whatever happens the state keeps its type, and the tables that are there*)
(* stay where they are.                                                    *)
LEMMA MmapKeeps ==
  ASSUME TablesTyped, NEW v \in Page, NEW entry \in EntryType, NEW free, free \subseteq DataFrames,
         mmap(v, entry, free)
  PROVE  /\ data_free' \subseteq free
         /\ TablesTyped'
         /\ page_table_ptrs \subseteq page_table_ptrs'
         /\ \A t \in page_table_ptrs : page_tables'[t] = page_tables[t]
         /\ TablesInData => TablesInData'
         /\ lost' = lost \cup Behind(v)
<1> DEFINE t == v \div ENTRIES
           M == [DataFrames -> [Index -> EntryType]]
<1>1. /\ page_tables \in [Index -> EntryType] /\ page_table_ptrs \subseteq Index /\ mem \in M
      /\ t \in Index
  BY PageParts DEF TablesTyped
<1>2. lost' = lost \cup Behind(v)
  BY DEF mmap
<1>3. CASE t \in page_table_ptrs
  <2>1. PICK f : /\ data_free' = free /\ page_tables' = page_tables /\ page_table_ptrs' = page_table_ptrs
                 /\ mem' = [mem EXCEPT ![f][v % ENTRIES] = entry]
    BY <1>3, MmapWithTable
  <2>. QED  BY <1>1, <1>2, <2>1, CellUpdate DEF TablesTyped, TablesInData
<1>4. CASE t \notin page_table_ptrs
  <2>1. PICK pt : pt = alloc_page(free, NULL)
    OBVIOUS
  <2>2. pt \in DataFrames /\ pt \in Page
    <3>1. free \subseteq Page /\ NULL \in DataFrames /\ DataFrames \subseteq Page
      BY Areas, Types, LayoutAssumption DEF NULL, DataFrames, DIR_PAGES
    <3>. QED  BY <2>1, <3>1, AllocPage DEF alloc_page
  <2>3. Entry(pt, TRUE, FALSE) \in EntryType /\ Entry(pt, TRUE, TRUE) \in EntryType
    BY <2>2, EntryTypes
  <2>4. /\ MadeDir(t, pt) \in [Index -> EntryType]
        /\ \A u \in Index \ {t} : MadeDir(t, pt)[u] = page_tables[u]
        /\ \A u \in page_table_ptrs : MadeDir(t, pt)[u] = page_tables[u]
    BY <1>1, <1>4, <2>3 DEF MadeDir
  <2>5. Linked(t, pt) \in M
    BY <1>1, <2>3, CellUpdate DEF Linked
  <2>6. Made(t, pt) \in M
    BY <2>5, EntryTypes DEF Made
  <2>7. /\ data_free' = free \ {pt} /\ page_tables' = MadeDir(t, pt)
        /\ page_table_ptrs' = page_table_ptrs \cup {t}
        /\ mem' = [Made(t, pt) EXCEPT
                     ![TableFrame(MadeDir(t, pt), Made(t, pt), t)][v % ENTRIES] = entry]
    BY <1>4, <2>1, MmapMakesTable
  <2>8. mem' \in M
    BY <2>6, <2>7, CellUpdate
  <2>9. MadeDir(t, pt)[t].frame = pt
    BY <1>1 DEF MadeDir, Entry
  <2>10. ASSUME TablesInData, NEW u \in Index,
                u \in page_table_ptrs' \/ page_tables'[u].present
         PROVE  page_tables'[u].frame \in DataFrames
    <3>1. CASE u = t
      BY <2>2, <2>7, <2>9, <3>1
    <3>2. CASE u # t
      <4>1. page_tables'[u] = page_tables[u]
        BY <2>4, <2>7, <3>2
      <4>2. u \in page_table_ptrs \/ page_tables[u].present
        BY <2>7, <2>10, <3>2, <4>1
      <4>. QED  BY <2>10, <4>1, <4>2 DEF TablesInData
    <3>. QED  BY <3>1, <3>2
  <2>11. TablesInData => TablesInData'
    BY <2>10 DEF TablesInData
  <2>. QED  BY <1>1, <1>2, <2>4, <2>7, <2>8, <2>11 DEF TablesTyped
<1>. QED  BY <1>3, <1>4

(* A store to page table t goes to its frame.                              *)
LEMMA FrameThroughWindow ==
  ASSUME NEW dir, NEW m, NEW t \in Index,
         dir[t].frame = m[dir[table_index].frame][t].frame,
         dir[table_index].present, m[dir[table_index].frame][t].present
  PROVE  TableFrame(dir, m, t) = dir[t].frame
<1> DEFINE e == m[dir[table_index].frame][t]
<1>1. TablePage(t) \div ENTRIES = table_index /\ TablePage(t) % ENTRIES = t
  BY WindowPages
<1>2. Walk(dir, m, TablePage(t)) =
        [e EXCEPT !.rw = dir[table_index].rw /\ e.rw, !.user = dir[table_index].user /\ e.user]
  BY <1>1 DEF Walk
<1> HIDE DEF e
<1>3. Walk(dir, m, TablePage(t)).frame = e.frame
  BY <1>2
<1>. QED  BY <1>3 DEF TableFrame, e

(* The two ways in which mmap ends well: in a table that is there, or in a *)
(* table made from a free frame.                                           *)
MmapInTable(v, entry, free) ==
  LET t == v \div ENTRIES
  IN  /\ t \in page_table_ptrs
      /\ data_free' = free /\ page_tables' = page_tables /\ page_table_ptrs' = page_table_ptrs
      /\ mem' = [mem EXCEPT ![page_tables[t].frame][v % ENTRIES] = entry]

MmapInNewTable(v, entry, free, pt) ==
  LET t == v \div ENTRIES
      W == page_tables[table_index].frame
  IN  /\ t \notin page_table_ptrs
      /\ data_free' = free \ {pt}
      /\ page_tables' = [page_tables EXCEPT ![t] = Entry(pt, TRUE, TRUE)]
      /\ page_table_ptrs' = page_table_ptrs \cup {t}
      /\ mem'[W] = [mem[W] EXCEPT ![t] = Entry(pt, TRUE, FALSE)]
      /\ mem'[pt] = [ZeroTable EXCEPT ![v % ENTRIES] = entry]
      /\ \A f \in DataFrames \ {W, pt} : mem'[f] = mem[f]

(* With a frame for it, a new table is linked into the window, cleared, and*)
(* gets the entry.                                                         *)
LEMMA NewTable ==
  ASSUME TablesTyped, TablesHold, NEW v \in Page \ Window, NEW entry \in EntryType,
         NEW free, free \subseteq DataFrames, free \cap Tables = {}, free # {}, mmap(v, entry, free),
         NEW t, t = v \div ENTRIES, t \notin page_table_ptrs
  PROVE  \E pt \in free : MmapInNewTable(v, entry, free, pt)
<1> DEFINE W == page_tables[table_index].frame
<1>1. /\ page_tables \in [Index -> EntryType] /\ page_table_ptrs \subseteq Index
      /\ mem \in [DataFrames -> [Index -> EntryType]]
      /\ t \in Index /\ v % ENTRIES \in Index /\ t # table_index /\ table_index \in Index
  BY PageParts, WindowPages DEF TablesTyped
<1>2. /\ table_index \in page_table_ptrs /\ W \in DataFrames /\ W \in Tables
      /\ page_tables[table_index].present
  <2>1. table_index \in page_table_ptrs
    BY DEF TablesHold
  <2>2. page_tables[table_index] = Entry(page_tables[table_index].frame, TRUE, FALSE)
        /\ page_tables[table_index].frame \in DataFrames
    BY <2>1 DEF TablesHold
  <2>. QED  BY <2>1, <2>2 DEF Entry, Tables
<1> HIDE DEF W
<1>3. PICK pt \in free : pt = alloc_page(free, NULL)
  BY AllocPage, Areas
<1>4. pt \in DataFrames /\ pt # W
  BY <1>2, <1>3
<1>5. /\ data_free' = free \ {pt} /\ page_tables' = MadeDir(t, pt)
      /\ page_table_ptrs' = page_table_ptrs \cup {t}
      /\ mem' = [Made(t, pt) EXCEPT
                   ![TableFrame(MadeDir(t, pt), Made(t, pt), t)][v % ENTRIES] = entry]
  BY <1>3, MmapMakesTable
<1>6. /\ MadeDir(t, pt)[t].frame = pt /\ MadeDir(t, pt)[table_index].present
      /\ MadeDir(t, pt)[table_index].frame = W
  BY <1>1, <1>2 DEF MadeDir, Entry, W
<1>7. TableFrame(page_tables, mem, table_index) = W
  BY <1>1, <1>2, WindowTables DEF WindowTranslates, W
<1>8. Linked(t, pt) = [mem EXCEPT ![W] = [mem[W] EXCEPT ![t] = Entry(pt, TRUE, FALSE)]]
  BY <1>7 DEF Linked
<1>9. Linked(t, pt)[W][t].frame = pt /\ Linked(t, pt)[W][t].present
  <2>1. Linked(t, pt)[W] = [mem[W] EXCEPT ![t] = Entry(pt, TRUE, FALSE)]
    BY <1>1, <1>2, <1>8
  <2>2. mem[W] \in [Index -> EntryType]
    BY <1>1, <1>2
  <2>3. Linked(t, pt)[W][t] = Entry(pt, TRUE, FALSE)
    BY <1>1, <2>1, <2>2
  <2>. QED  BY <2>3 DEF Entry
<1>10. TableFrame(MadeDir(t, pt), Linked(t, pt), t) = pt
  BY <1>1, <1>6, <1>9, FrameThroughWindow
<1>11. Made(t, pt) = [Linked(t, pt) EXCEPT ![pt] = ZeroTable]
  BY <1>10 DEF Made
<1>12. Made(t, pt)[W] = Linked(t, pt)[W]
  <2>1. DOMAIN Linked(t, pt) = DataFrames
    BY <1>1, <1>8
  <2>. QED  BY <1>2, <1>4, <1>11, <2>1
<1>13. TableFrame(MadeDir(t, pt), Made(t, pt), t) = pt
  BY <1>1, <1>6, <1>9, <1>12, FrameThroughWindow
<1>14. mem' = [Made(t, pt) EXCEPT ![pt] = [Made(t, pt)[pt] EXCEPT ![v % ENTRIES] = entry]]
  BY <1>5, <1>13
<1>15. Made(t, pt)[pt] = ZeroTable
  BY <1>1, <1>4, <1>8, <1>11
<1>16. mem'[pt] = [ZeroTable EXCEPT ![v % ENTRIES] = entry]
  BY <1>1, <1>4, <1>8, <1>11, <1>14, <1>15
<1>17. mem'[W] = [mem[W] EXCEPT ![t] = Entry(pt, TRUE, FALSE)]
  BY <1>1, <1>2, <1>4, <1>8, <1>11, <1>12, <1>14
<1>18. \A f \in DataFrames \ {W, pt} : mem'[f] = mem[f]
  BY <1>1, <1>8, <1>11, <1>14
<1>19. MmapInNewTable(v, entry, free, pt)
  BY <1>5, <1>16, <1>17, <1>18 DEF MadeDir, MmapInNewTable, W
<1>. QED  BY <1>19

(* Without one it is put at NULL.                                          *)
LEMMA NoTable ==
  ASSUME TablesTyped, NEW v \in Page, NEW entry, NEW free, free = {}, mmap(v, entry, free),
         v \div ENTRIES \notin page_table_ptrs
  PROVE  TableAtNull' /\ Booted'
<1>1. PICK t : t = v \div ENTRIES /\ t \notin page_table_ptrs
  OBVIOUS
<1>2. t \in Index
  BY <1>1, PageParts
<1>3. page_tables' = [page_tables EXCEPT ![t] = Entry(NULL, TRUE, TRUE)]
      /\ page_table_ptrs' = page_table_ptrs \cup {t}
  <2>1. PICK pt : pt = NULL /\ pt = alloc_page(free, NULL)
    BY DEF alloc_page
  <2>2. page_tables' = MadeDir(t, pt) /\ page_table_ptrs' = page_table_ptrs \cup {t}
    BY <1>1, <2>1, MmapMakesTable
  <2>. QED  BY <2>1, <2>2 DEF MadeDir
<1>4. page_tables'[t].frame = NULL
  BY <1>2, <1>3 DEF TablesTyped, Entry
<1>5. NULL \in {page_tables'[u].frame : u \in page_table_ptrs'}
  BY <1>3, <1>4
<1>. QED  BY <1>3, <1>5 DEF TableAtNull, Tables, Booted

LEMMA MmapOutcomes ==
  ASSUME TablesTyped, TablesHold, NEW v \in Page \ Window, NEW entry \in EntryType,
         NEW free, free \subseteq DataFrames, free \cap Tables = {}, mmap(v, entry, free)
  PROVE  \/ MmapInTable(v, entry, free)
         \/ \E pt \in free : MmapInNewTable(v, entry, free, pt)
         \/ free = {} /\ v \div ENTRIES \notin page_table_ptrs /\ TableAtNull'
<1>1. v \div ENTRIES \in Index
  BY PageParts
<1>2. CASE v \div ENTRIES \in page_table_ptrs
  <2>1. TableFrame(page_tables, mem, v \div ENTRIES) = page_tables[v \div ENTRIES].frame
    BY <1>1, <1>2, WindowTables DEF WindowTranslates
  <2>2. MmapInTable(v, entry, free)
    BY <1>2, <2>1, MmapWithTable DEF MmapInTable
  <2>. QED  BY <2>2
<1>3. CASE v \div ENTRIES \notin page_table_ptrs /\ free # {}
  BY <1>3, NewTable
<1>4. CASE v \div ENTRIES \notin page_table_ptrs /\ free = {}
  BY <1>4, NoTable
<1>. QED  BY <1>2, <1>3, <1>4

(* The effect of an mmap on what pages translate to: one page changes.     *)
Effect(v, entry) ==
  \A w \in Page \ Window :
    Translation(w)' = IF w = v THEN IF entry.present THEN entry ELSE Absent ELSE Translation(w)

LEMMA TranslationAfter ==
  ASSUME TablesTyped', TablesHold', NEW w \in Page \ Window
  PROVE  Translation(w)' = IF w \div ENTRIES \in page_table_ptrs' /\ Cell(w)'.present
                           THEN Cell(w)' ELSE Absent
<1>1. PagesTranslate'
  BY PageTranslation, PTL
<1>. QED  BY <1>1 DEF PagesTranslate

LEMMA SamePage ==
  ASSUME NEW v \in Page, NEW w \in Page, v \div ENTRIES = w \div ENTRIES,
         v % ENTRIES = w % ENTRIES
  PROVE  v = w
  BY PageParts

LEMMA EffectInTable ==
  ASSUME TablesTyped, TablesTyped', TablesHold, NEW v \in Page \ Window, NEW entry \in EntryType,
         NEW free, MmapInTable(v, entry, free)
  PROVE  TablesHold' /\ Tables' = Tables /\ Effect(v, entry)
<1> DEFINE t == v \div ENTRIES
           F == page_tables[t].frame
           W == page_tables[table_index].frame
<1>1. /\ t \in page_table_ptrs /\ t # table_index /\ v % ENTRIES \in Index
      /\ page_tables' = page_tables /\ page_table_ptrs' = page_table_ptrs
      /\ mem' = [mem EXCEPT ![F][v % ENTRIES] = entry]
  BY PageParts, WindowPages DEF MmapInTable
<1>2. /\ table_index \in page_table_ptrs /\ F \in DataFrames /\ W \in DataFrames /\ F # W
      /\ \A u \in page_table_ptrs : page_tables[u].frame = F => u = t
      /\ \A u \in page_table_ptrs : page_tables[u].frame \in DataFrames
  BY <1>1 DEF TablesHold
<1>3. /\ mem \in [DataFrames -> [Index -> EntryType]] /\ page_table_ptrs \subseteq Index
  BY DEF TablesTyped
<1> HIDE DEF t, F
<1>4. mem'[W] = mem[W]
  BY <1>1, <1>2, <1>3
<1>5. TablesHold'
  <2>1. mem'[page_tables'[table_index].frame] = mem[page_tables[table_index].frame]
    BY <1>1, <1>4
  <2>. QED  BY <1>1, <2>1, Zenon DEF TablesHold
<1>6. Tables' = Tables
  BY <1>1 DEF Tables
<1>7. ASSUME NEW w \in Page \ Window
      PROVE  Translation(w)' = IF w = v THEN IF entry.present THEN entry ELSE Absent
                                        ELSE Translation(w)
  <2> DEFINE u == w \div ENTRIES
             G == page_tables[u].frame
  <2>1. Translation(w)' = IF u \in page_table_ptrs /\ Cell(w)'.present THEN Cell(w)' ELSE Absent
    BY <1>1, <1>5, TranslationAfter
  <2>2. Translation(w) = IF u \in page_table_ptrs /\ Cell(w).present THEN Cell(w) ELSE Absent
    BY PageTranslation DEF PagesTranslate
  <2>3. Cell(w)' = mem'[G][w % ENTRIES] /\ Cell(w) = mem[G][w % ENTRIES]
    BY <1>1 DEF Cell
  <2>4. u \in Index /\ w % ENTRIES \in Index
    BY PageParts
  <2>5. CASE u \notin page_table_ptrs
    <3>1. w # v
      BY <1>1, <2>5 DEF t
    <3>. QED  BY <2>1, <2>2, <2>5, <3>1
  <2>6. CASE u \in page_table_ptrs /\ u # t
    <3>1. w # v /\ G \in DataFrames /\ G # F
      BY <1>2, <2>6 DEF t
    <3>2. mem'[G] = mem[G]
      BY <1>1, <1>3, <3>1
    <3>. QED  BY <2>1, <2>2, <2>3, <3>1, <3>2
  <2>7. CASE u = t
    <3>1. G = F
      BY <2>7 DEF F
    <3>2. mem'[F] = [mem[F] EXCEPT ![v % ENTRIES] = entry] /\ mem[F] \in [Index -> EntryType]
      BY <1>1, <1>2, <1>3
    <3>3. CASE w = v
      <4>1. Cell(w)' = entry
        BY <1>1, <2>3, <3>1, <3>2, <3>3
      <4>. QED  BY <1>1, <2>1, <2>7, <3>3, <4>1
    <3>4. CASE w # v
      <4>1. w % ENTRIES # v % ENTRIES
        BY <2>7, <3>4, SamePage DEF t
      <4>2. Cell(w)' = Cell(w)
        BY <2>3, <2>4, <3>1, <3>2, <4>1
      <4>. QED  BY <2>1, <2>2, <3>4, <4>2
    <3>. QED  BY <3>3, <3>4
  <2>. QED  BY <2>5, <2>6, <2>7
<1>. QED  BY <1>5, <1>6, <1>7 DEF Effect

LEMMA EffectInNewTable ==
  ASSUME TablesTyped, TablesTyped', TablesHold, NEW v \in Page \ Window, NEW entry \in EntryType,
         NEW free, free \subseteq DataFrames, free \cap Tables = {}, NEW pt \in free,
         MmapInNewTable(v, entry, free, pt)
  PROVE  TablesHold' /\ Tables' = Tables \cup {pt} /\ Effect(v, entry)
<1> DEFINE t == v \div ENTRIES
           W == page_tables[table_index].frame
<1>1. /\ t \in Index \ page_table_ptrs /\ t # table_index /\ v % ENTRIES \in Index
      /\ page_tables' = [page_tables EXCEPT ![t] = Entry(pt, TRUE, TRUE)]
      /\ page_table_ptrs' = page_table_ptrs \cup {t}
      /\ mem'[W] = [mem[W] EXCEPT ![t] = Entry(pt, TRUE, FALSE)]
      /\ mem'[pt] = [ZeroTable EXCEPT ![v % ENTRIES] = entry]
      /\ \A f \in DataFrames \ {W, pt} : mem'[f] = mem[f]
  BY PageParts, WindowPages DEF MmapInNewTable
<1>2. /\ page_tables \in [Index -> EntryType] /\ page_table_ptrs \subseteq Index
      /\ mem \in [DataFrames -> [Index -> EntryType]]
  BY DEF TablesTyped
<1>3. /\ table_index \in page_table_ptrs /\ W \in DataFrames
      /\ \A u \in page_table_ptrs :
           /\ page_tables[u].frame \in DataFrames
           /\ page_tables[u] = Entry(page_tables[u].frame, TRUE, u # table_index)
           /\ mem[W][u] = Entry(page_tables[u].frame, TRUE, FALSE)
      /\ \A u \in Index \ page_table_ptrs : ~page_tables[u].present /\ mem[W][u] = Absent
      /\ \A x, y \in page_table_ptrs : page_tables[x].frame = page_tables[y].frame => x = y
  BY DEF TablesHold
<1>4. \A u \in page_table_ptrs : page_tables[u].frame # pt
  BY DEF Tables
<1> HIDE DEF t, W
<1>5. /\ page_tables'[t] = Entry(pt, TRUE, TRUE) /\ page_tables'[t].frame = pt
      /\ \A u \in Index \ {t} : page_tables'[u] = page_tables[u]
  BY <1>1, <1>2 DEF Entry
<1>6. mem[W] \in [Index -> EntryType]
  BY <1>2, <1>3
<1>7. /\ mem'[W][t] = Entry(pt, TRUE, FALSE)
      /\ \A u \in Index \ {t} : mem'[W][u] = mem[W][u]
  BY <1>1, <1>6
<1>8. page_tables'[table_index].frame = W
  BY <1>1, <1>2, <1>3, <1>5 DEF W
<1>9. TablesHold'
  <2>1. table_index \in page_table_ptrs'
    BY <1>1, <1>3
  <2>2. ASSUME NEW u \in page_table_ptrs'
        PROVE  /\ page_tables'[u].frame \in DataFrames
               /\ page_tables'[u] = Entry(page_tables'[u].frame, TRUE, u # table_index)
               /\ mem'[W][u] = Entry(page_tables'[u].frame, TRUE, FALSE)
    <3>1. CASE u = t
      BY <1>1, <1>5, <1>7, <3>1
    <3>2. CASE u \in page_table_ptrs /\ u # t
      <4>1. page_tables'[u] = page_tables[u] /\ mem'[W][u] = mem[W][u]
        BY <1>2, <1>5, <1>7, <3>2
      <4>2. /\ page_tables[u].frame \in DataFrames
            /\ page_tables[u] = Entry(page_tables[u].frame, TRUE, u # table_index)
            /\ mem[W][u] = Entry(page_tables[u].frame, TRUE, FALSE)
        BY <1>3, <3>2
      <4>. QED  BY <4>1, <4>2, Zenon
    <3>. QED  BY <1>1, <3>1, <3>2
  <2>3. ASSUME NEW u \in Index \ page_table_ptrs'
        PROVE  ~page_tables'[u].present /\ mem'[W][u] = Absent
    BY <1>1, <1>3, <1>5, <1>7, <2>3
  <2>4. ASSUME NEW x \in page_table_ptrs', NEW y \in page_table_ptrs',
               page_tables'[x].frame = page_tables'[y].frame
        PROVE  x = y
    BY <1>1, <1>2, <1>3, <1>4, <1>5, <2>4
  <2>. QED  BY <1>8, <2>1, <2>2, <2>3, <2>4 DEF TablesHold
<1>10. Tables' = Tables \cup {pt}
  <2>1. \A u \in page_table_ptrs : u \in Index \ {t}
    BY <1>1, <1>2
  <2>2. \A u \in page_table_ptrs : page_tables'[u].frame = page_tables[u].frame
    BY <1>5, <2>1
  <2>3. Tables' = {page_tables'[u].frame : u \in page_table_ptrs \cup {t}}
    BY <1>1 DEF Tables
  <2>. QED  BY <1>5, <2>2, <2>3 DEF Tables
<1>11. ASSUME NEW w \in Page \ Window
       PROVE  Translation(w)' = IF w = v THEN IF entry.present THEN entry ELSE Absent
                                         ELSE Translation(w)
  <2> DEFINE u == w \div ENTRIES
             G == page_tables[u].frame
  <2>1. Translation(w)' = IF u \in page_table_ptrs' /\ Cell(w)'.present THEN Cell(w)' ELSE Absent
    BY <1>9, TranslationAfter
  <2>2. Translation(w) = IF u \in page_table_ptrs /\ Cell(w).present THEN Cell(w) ELSE Absent
    BY PageTranslation DEF PagesTranslate
  <2>3. Cell(w)' = mem'[page_tables'[u].frame][w % ENTRIES] /\ Cell(w) = mem[G][w % ENTRIES]
    BY DEF Cell
  <2>4. u \in Index /\ w % ENTRIES \in Index /\ u # table_index
    BY PageParts, WindowPages
  <2>5. CASE u \notin page_table_ptrs'
    <3>1. w # v /\ u \notin page_table_ptrs
      BY <1>1, <2>5 DEF t
    <3>. QED  BY <2>1, <2>2, <2>5, <3>1
  <2>6. CASE u \in page_table_ptrs' /\ u # t
    <3>1. w # v /\ u \in page_table_ptrs /\ page_tables'[u] = page_tables[u]
      BY <1>1, <1>5, <2>4, <2>6 DEF t
    <3>2. G \in DataFrames /\ G # pt /\ G # W
      BY <1>3, <1>4, <2>4, <3>1 DEF W
    <3>3. mem'[G] = mem[G]
      BY <1>1, <3>2
    <3>. QED  BY <2>1, <2>2, <2>3, <2>6, <3>1, <3>3
  <2>7. CASE u = t
    <3>1. Cell(w)' = mem'[pt][w % ENTRIES] /\ u \in page_table_ptrs' /\ u \notin page_table_ptrs
      BY <1>1, <1>5, <2>3, <2>7
    <3>2. ZeroTable \in [Index -> EntryType] /\ \A i \in Index : ZeroTable[i] = Absent
      BY EntryTypes
    <3>3. CASE w = v
      <4>1. Cell(w)' = entry
        BY <1>1, <3>1, <3>2, <3>3
      <4>. QED  BY <2>1, <3>1, <3>3, <4>1
    <3>4. CASE w # v
      <4>1. w % ENTRIES # v % ENTRIES
        BY <2>7, <3>4, SamePage DEF t
      <4>2. Cell(w)' = Absent
        BY <1>1, <2>4, <3>1, <3>2, <4>1
      <4>. QED  BY <2>1, <2>2, <3>1, <3>4, <4>2
    <3>. QED  BY <3>3, <3>4
  <2>. QED  BY <2>5, <2>6, <2>7
<1>. QED  BY <1>9, <1>10, <1>11 DEF Effect

(* How an mmap that does not run out of frames leaves tables and frames.   *)
TablesStay(v, free) ==
  /\ v \div ENTRIES \in page_table_ptrs /\ data_free' = free
  /\ page_table_ptrs' = page_table_ptrs /\ Tables' = Tables
TablesGrow(v, free, pt) ==
  /\ v \div ENTRIES \notin page_table_ptrs /\ data_free' = free \ {pt}
  /\ page_table_ptrs' = page_table_ptrs \cup {v \div ENTRIES} /\ Tables' = Tables \cup {pt}

LEMMA MmapStep ==
  ASSUME TablesTyped, TablesHold, NEW v \in Page \ Window, NEW entry \in EntryType,
         NEW free, free \subseteq DataFrames, free \cap Tables = {}, mmap(v, entry, free),
         free # {} \/ v \div ENTRIES \in page_table_ptrs \/ ~TableAtNull'
  PROVE  /\ TablesTyped' /\ TablesHold' /\ Effect(v, entry)
         /\ TablesStay(v, free) \/ \E pt \in free : TablesGrow(v, free, pt)
<1>1. TablesTyped'
  BY MmapKeeps
<1>2. MmapInTable(v, entry, free) \/ \E pt \in free : MmapInNewTable(v, entry, free, pt)
  BY MmapOutcomes
<1>3. CASE MmapInTable(v, entry, free)
  <2>1. TablesHold' /\ Tables' = Tables /\ Effect(v, entry)
    BY <1>1, <1>3, EffectInTable
  <2>. QED  BY <1>1, <1>3, <2>1 DEF MmapInTable, TablesStay
<1>4. CASE \E pt \in free : MmapInNewTable(v, entry, free, pt)
  <2>1. PICK pt \in free : MmapInNewTable(v, entry, free, pt)
    BY <1>4
  <2>2. TablesHold' /\ Tables' = Tables \cup {pt} /\ Effect(v, entry)
    BY <1>1, <2>1, EffectInNewTable
  <2>3. TablesGrow(v, free, pt)
    BY <2>1, <2>2 DEF MmapInNewTable, TablesGrow
  <2>. QED  BY <1>1, <2>2, <2>3
<1>. QED  BY <1>2, <1>3, <1>4

(* Once a table is at NULL it stays there.                                 *)
LEMMA BrokenForGood ==
  ASSUME page_table_ptrs \subseteq page_table_ptrs',
         \A t \in page_table_ptrs : page_tables'[t] = page_tables[t]
  PROVE  TableAtNull => TableAtNull'
  BY DEF TableAtNull, Tables, Booted

LEMMA MappedAfter ==
  ASSUME NEW v \in Page \ Window, NEW entry, entry.present, Effect(v, entry)
  PROVE  /\ Mapped' = Mapped \cup {v} /\ Translation(v)' = entry
         /\ \A w \in Page \ Window : w # v => Translation(w)' = Translation(w)
<1>1. Translation(v)' = entry
  BY DEF Effect
<1>2. \A w \in Page \ Window : w # v => Translation(w)' = Translation(w)
  BY DEF Effect
<1>3. \A w \in Page \ Window : w \in Mapped' <=> Translation(w)'.present
  BY DEF Mapped
<1>4. Mapped' \subseteq Page \ Window /\ Mapped \subseteq Page \ Window
  BY DEF Mapped
<1>5. \A w \in Page \ Window : w \in Mapped <=> Translation(w).present
  BY DEF Mapped
<1>. QED  BY <1>1, <1>2, <1>3, <1>4, <1>5

(* The frame that an mmap leaves behind.                                   *)
LEMMA BehindTyped ==
  ASSUME TablesTyped, TablesInData, NEW v \in Page
  PROVE  Behind(v) \subseteq Page
<1> DEFINE t == v \div ENTRIES
<1>1. t \in Index /\ v % ENTRIES \in Index
  BY PageParts
<1>2. ASSUME Translation(v) # Absent PROVE Translation(v).frame \in Page
  <2>1. page_tables[t].present
    BY <1>2 DEF Translation, Walk
  <2>2. page_tables[t].frame \in DataFrames
    BY <1>1, <2>1 DEF TablesInData
  <2>3. mem[page_tables[t].frame][v % ENTRIES] \in EntryType
    BY <1>1, <2>2 DEF TablesTyped
  <2>4. PICK e \in EntryType : e = mem[page_tables[t].frame][v % ENTRIES]
    BY <2>3
  <2>5. Translation(v) =
          [e EXCEPT !.rw = page_tables[t].rw /\ e.rw, !.user = page_tables[t].user /\ e.user]
    BY <1>2, <2>4 DEF Translation, Walk
  <2>6. /\ e.frame \in Page
        /\ [e EXCEPT !.rw = page_tables[t].rw /\ e.rw,
                     !.user = page_tables[t].user /\ e.user].frame = e.frame
    BY DEF EntryType
  <2>. QED  BY <2>5, <2>6
<1>. QED  BY <1>2 DEF Behind, Translation

LEMMA BehindMapped ==
  ASSUME TablesTyped, TablesHold, NEW v \in Page \ Window
  PROVE  Behind(v) = IF v \in Mapped THEN {Translation(v).frame} ELSE {}
<1>1. v \in Mapped <=> Translation(v).present
  BY DEF Mapped
<1>2. v \notin Mapped => Translation(v) = Absent
  BY <1>1, PageTranslation DEF PagesTranslate
<1>3. v \in Mapped => Translation(v) # Absent
  BY <1>1, EntryTypes
<1>4. Behind(v) = {e.frame : e \in {Translation(v)} \ {Absent}}
  BY DEF Behind, Translation
<1>. QED  BY <1>2, <1>3, <1>4

(* A frame that nothing else has.  What the page had before is lost.       *)
LEMMA MapPage ==
  ASSUME TypeOK, TablesHold, PagesHold, FramesHold, ~TableAtNull',
         NEW v \in SomePages, v \in FixedPages => v \notin Mapped,
         NEW f \in Page, NEW rw \in BOOLEAN, NEW user \in BOOLEAN,
         NEW free, free \subseteq data_free, mmap(v, Entry(f, rw, user), free),
         code_free' \subseteq code_free,
         f \notin free \cup code_free' \cup lost \cup Tables,
         \A w \in Mapped : Translation(w).frame # f,
         v \in FixedPages => f = v, v \notin FixedPages => f \notin FixedPages,
         user => v \in ModulePages,
         v \in FixedPages \cup HeapPages \cup ModulePages \cup faulted',
         v \in faulted' \cup SharedPages \/ Settled(v)',
         faulted \ {v} \subseteq faulted',
         \A w \in Mapped : Settled(w) => Settled(w)'
  PROVE  /\ TablesTyped' /\ TablesHold' /\ PagesHold' /\ FramesHold'
         /\ Effect(v, Entry(f, rw, user))
<1> DEFINE entry == Entry(f, rw, user)
<1>1. v \in Page \ Window /\ FixedPages \subseteq Page
  BY Areas DEF SomePages
<1>2. entry \in EntryType /\ entry.present /\ entry.frame = f /\ entry.user = user
  BY EntryTypes DEF Entry
<1>3. TablesTyped /\ free \subseteq DataFrames /\ free \cap Tables = {}
  BY DEF TypeOK, TablesTyped, FramesHold
<1> HIDE DEF entry
<1>4. mmap(v, entry, free)
  BY DEF entry
<1>5. /\ TablesTyped' /\ TablesHold' /\ Effect(v, entry)
      /\ TablesStay(v, free) \/ \E pt \in free : TablesGrow(v, free, pt)
  BY <1>1, <1>2, <1>3, <1>4, MmapStep
<1>6. /\ Mapped' = Mapped \cup {v} /\ Translation(v)' = entry
      /\ \A w \in Page \ Window : w # v => Translation(w)' = Translation(w)
  BY <1>1, <1>2, <1>5, MappedAfter
<1>7. PICK new : new \subseteq free /\ data_free' = free \ new /\ Tables' = Tables \cup new
  <2>1. CASE TablesStay(v, free)
    <3>1. {} \subseteq free /\ data_free' = free \ {} /\ Tables' = Tables \cup {}
      BY <2>1 DEF TablesStay
    <3>. QED  BY <3>1
  <2>2. CASE \E pt \in free : TablesGrow(v, free, pt)
    <3>1. PICK pt \in free : TablesGrow(v, free, pt)
      BY <2>2
    <3>2. {pt} \subseteq free /\ data_free' = free \ {pt} /\ Tables' = Tables \cup {pt}
      BY <3>1 DEF TablesGrow
    <3>. QED  BY <3>2
  <2>. QED  BY <1>5, <2>1, <2>2
<1>8. /\ FixedPages \cap (data_free \cup code_free \cup lost \cup Tables) = {}
      /\ Tables \cap (data_free \cup lost) = {} /\ lost \cap (data_free \cup code_free) = {}
  BY DEF FramesHold
<1>9. \A w \in Mapped : PageHolds(w)
  BY DEF PagesHold
<1>10. PICK old : /\ lost' = lost \cup old
                  /\ old = IF v \in Mapped THEN {Translation(v).frame} ELSE {}
  <2>1. lost' = lost \cup Behind(v)
    BY DEF mmap
  <2>. QED  BY <1>1, <1>3, <2>1, BehindMapped
<1>11. /\ f \notin old
       /\ old \cap (FixedPages \cup Tables \cup data_free \cup code_free) = {}
  <2>1. CASE v \in Mapped
    <3>1. PageHolds(v) /\ v \notin FixedPages
      BY <1>9, <2>1
    <3>. QED  BY <1>10, <2>1, <3>1 DEF PageHolds
  <2>2. CASE v \notin Mapped
    BY <1>10, <2>2
  <2>. QED  BY <2>1, <2>2
<1>12. FramesHold'
  <2>1. /\ FixedPages \cap (data_free' \cup code_free' \cup lost' \cup Tables') = {}
        /\ Tables' \cap (data_free' \cup lost') = {} /\ lost' \cap (data_free' \cup code_free') = {}
    BY <1>7, <1>8, <1>10, <1>11
  <2>. QED  BY <2>1 DEF FramesHold
<1>13. \A w \in Mapped : w \in Page \ Window /\ (w # v => Translation(w)' = Translation(w))
  BY <1>6 DEF Mapped
<1>14. ASSUME NEW w \in Mapped' PROVE PageHolds(w)'
  <2>1. CASE w = v
    <3>1. f \notin Tables' \cup data_free' \cup code_free' \cup lost'
      BY <1>7, <1>10, <1>11
    <3>2. Translation(w)'.frame = f /\ Translation(w)'.user = user
      BY <1>2, <1>6, <2>1
    <3>. QED  BY <2>1, <3>1, <3>2 DEF PageHolds
  <2>2. CASE w # v
    <3>1. w \in Mapped /\ Translation(w)' = Translation(w) /\ PageHolds(w)
      BY <1>6, <1>9, <1>13, <2>2
    <3>2. Translation(w).frame \notin Tables \cup data_free \cup code_free \cup lost
      BY <3>1 DEF PageHolds
    <3>3. Translation(w).frame \notin old
      BY <1>10, <2>2, <3>1 DEF PagesHold
    <3>4. Translation(w)'.frame \notin Tables' \cup data_free' \cup code_free' \cup lost'
      BY <1>7, <1>10, <3>1, <3>2, <3>3
    <3>5. w \in faulted' \cup SharedPages \/ Settled(w)'
      BY <2>2, <3>1 DEF PageHolds
    <3>6. w \in FixedPages \cup HeapPages \cup ModulePages \cup faulted'
      BY <2>2, <3>1 DEF PageHolds
    <3>. QED  BY <3>1, <3>4, <3>5, <3>6 DEF PageHolds
  <2>. QED  BY <2>1, <2>2
<1>15. ASSUME NEW w \in Mapped', NEW x \in Mapped', Translation(w)'.frame = Translation(x)'.frame
       PROVE  w = x
  <2>1. CASE w # v /\ x # v
    <3>1. w \in Mapped /\ x \in Mapped /\ Translation(w).frame = Translation(x).frame
      BY <1>6, <1>13, <1>15, <2>1
    <3>. QED  BY <3>1 DEF PagesHold
  <2>2. CASE w = v \/ x = v
    BY <1>2, <1>6, <1>13, <1>15, <2>2
  <2>. QED  BY <2>1, <2>2
<1>16. PagesHold'
  BY <1>14, <1>15 DEF PagesHold
<1>. QED  BY <1>5, <1>12, <1>16 DEF entry

(* Finite segments, and what a frame more or less does to their counts.    *)
LEMMA Finite ==
  /\ \A S : S \subseteq DataFrames => IsFiniteSet(S) /\ Cardinality(S) \in Nat
  /\ \A S : S \subseteq Page => IsFiniteSet(S) /\ Cardinality(S) \in Nat
<1>1. IsFiniteSet(Page) /\ DataFrames \subseteq Page
  <2>1. 0 \in Int /\ ENTRIES * ENTRIES - 1 \in Int
    BY Types
  <2>. QED  BY <2>1, FS_Interval, Areas DEF Page
<1>. QED  BY <1>1, FS_Subset, FS_CardinalityType

LEMMA TakeOne ==
  ASSUME NEW S, IsFiniteSet(S), NEW x \in S
  PROVE  Cardinality(S) = Cardinality(S \ {x}) + 1 /\ Cardinality(S \ {x}) \in Nat
<1>1. IsFiniteSet(S \ {x}) /\ Cardinality(S) \in Nat /\ Cardinality(S \ {x}) = Cardinality(S) - 1
  BY FS_RemoveElement, FS_CardinalityType
<1>. QED  BY <1>1, FS_CardinalityType

LEMMA SpareSubsets == Spare \subseteq DataFrames /\ SpareCode \subseteq Page
  BY Areas DEF Spare, SpareCode

(* The three ways to find a frame for page v: a free one of the data       *)
(* segment, the page itself, a free one of the code segment.               *)
FromData(v, f, free) ==
  /\ v \in DataFrames \ FixedPages /\ f \in data_free
  /\ free = data_free \ {f} /\ code_free' = code_free
Itself(v, f, free) ==
  v \in FixedPages /\ f = v /\ free = data_free /\ code_free' = code_free
FromCode(v, f, free) ==
  /\ v \in ModuleCode /\ f \in code_free
  /\ free = data_free /\ code_free' = code_free \ {f}

(* Each mapping takes a page and a frame off, or loses the frame that the  *)
(* page had; each table takes a frame and its page of the window off.      *)
LEMMA MapCounts ==
  ASSUME TypeOK, TablesHold, PagesHold, FramesHold, CountsHold,
         NEW v \in SomePages, v \in FixedPages \cup ModuleCode => v \notin Mapped,
         NEW entry \in EntryType, entry.present, NEW f, NEW free, mmap(v, entry, free),
         FromData(v, f, free) \/ Itself(v, f, free) \/ FromCode(v, f, free)
  PROVE  /\ lost' = {} => ~TableAtNull'
         /\ ~TableAtNull' => CountsHold'
<1> DEFINE t == v \div ENTRIES
           rest == Spare \ {v}
<1>1. v \in Page \ Window /\ Window \cap FixedPages = {}
      /\ Window \subseteq DataFrames /\ DataFrames \subseteq Page
      /\ ModuleCode \cap DataFrames = {} /\ ModuleCode \cap FixedPages = {}
      /\ ModuleCode \subseteq Page
  BY Areas DEF SomePages, ModulePages
<1>2. TablesTyped /\ free \subseteq data_free /\ data_free \subseteq DataFrames
      /\ code_free \subseteq Page /\ free \cap Tables = {} /\ lost \subseteq Page
  BY Areas DEF TypeOK, TablesTyped, FramesHold, FromData, Itself, FromCode
<1>3. /\ IsFiniteSet(data_free) /\ IsFiniteSet(Spare) /\ IsFiniteSet(code_free)
      /\ IsFiniteSet(SpareCode) /\ IsFiniteSet(free) /\ IsFiniteSet(rest) /\ IsFiniteSet(lost)
      /\ Cardinality(data_free) \in Nat /\ Cardinality(Spare) \in Nat
      /\ Cardinality(code_free) \in Nat /\ Cardinality(SpareCode) \in Nat
      /\ Cardinality(free) \in Nat /\ Cardinality(rest) \in Nat /\ Cardinality(lost) \in Nat
  BY <1>2, Finite, SpareSubsets
<1>4. Cardinality(Spare) = Cardinality(data_free) + Cardinality(lost)
      /\ Cardinality(SpareCode) <= Cardinality(code_free)
  BY DEF CountsHold
<1>5. lost' = lost \cup (IF v \in Mapped THEN {Translation(v).frame} ELSE {})
  <2>1. lost' = lost \cup Behind(v)
    BY DEF mmap
  <2>. QED  BY <1>1, <1>2, <2>1, BehindMapped
<1>6. Cardinality(lost') \in Nat /\ Cardinality(rest) = Cardinality(free) + Cardinality(lost')
  <2>1. CASE FromData(v, f, free)
    <3>1. Cardinality(data_free) = Cardinality(free) + 1
      BY <1>3, <2>1, TakeOne DEF FromData
    <3>2. CASE v \in Mapped
      <4>1. v \notin Spare /\ rest = Spare
        BY <1>1, <3>2 DEF Spare
      <4>2. Translation(v).frame \notin lost
        BY <3>2 DEF PagesHold, PageHolds
      <4>3. lost' = lost \cup {Translation(v).frame}
        BY <1>5, <3>2
      <4>4. Cardinality(lost') = Cardinality(lost) + 1
        BY <1>3, <4>2, <4>3, FS_AddElement
      <4>5. Cardinality(rest) = Cardinality(Spare)
        BY <4>1, Zenon
      <4> HIDE DEF rest
      <4>. QED  BY <1>3, <1>4, <3>1, <4>4, <4>5
    <3>3. CASE v \notin Mapped
      <4>1. v \in Spare /\ lost' = lost
        BY <1>1, <1>5, <2>1, <3>3 DEF Spare, FromData
      <4>2. Cardinality(Spare) = Cardinality(rest) + 1
        BY <1>3, <4>1, TakeOne
      <4>. QED  BY <1>3, <1>4, <3>1, <4>1, <4>2
    <3>. QED  BY <3>2, <3>3
  <2>2. CASE Itself(v, f, free) \/ FromCode(v, f, free)
    <3>1. v \notin Mapped /\ v \notin DataFrames \ FixedPages /\ free = data_free
      BY <1>1, <2>2 DEF Itself, FromCode
    <3>2. rest = Spare /\ lost' = lost
      BY <1>5, <3>1 DEF Spare
    <3>. QED  BY <1>3, <1>4, <3>1, <3>2
  <2>. QED  BY <2>1, <2>2
<1>7. t \in Index /\ TablePage(t) \in Page \cap Window /\ TablePage(t) % ENTRIES = t
  BY <1>1, PageParts, WindowPages
<1>8. ASSUME t \notin page_table_ptrs PROVE TablePage(t) \in rest
  BY <1>1, <1>7, <1>8 DEF Spare
<1>9. ASSUME t \notin page_table_ptrs, lost' = {} PROVE free # {}
  <2>1. Cardinality(rest) # 0 /\ Cardinality(lost') = 0
    BY <1>3, <1>8, <1>9, FS_EmptySet
  <2>. QED  BY <1>3, <1>6, <2>1, FS_EmptySet
<1>10. ASSUME lost' = {} \/ ~TableAtNull'
       PROVE  /\ Effect(v, entry)
              /\ TablesStay(v, free) \/ \E pt \in free : TablesGrow(v, free, pt)
  <2>1. free # {} \/ t \in page_table_ptrs \/ ~TableAtNull'
    BY <1>9, <1>10
  <2>2. free \subseteq DataFrames
    BY <1>2
  <2>. QED  BY <1>1, <1>2, <2>1, <2>2, MmapStep
<1>11. ASSUME lost' = {} PROVE ~TableAtNull'
  <2>1. NULL \in FixedPages
    BY Areas
  <2>2. NULL \notin Tables \cup data_free
    BY <2>1 DEF FramesHold
  <2>3. NULL \notin Tables'
    BY <1>2, <1>10, <1>11, <2>2 DEF TablesStay, TablesGrow
  <2>. QED  BY <2>3 DEF TableAtNull
<1>12. ASSUME ~TableAtNull' PROVE CountsHold'
  <2>1. Mapped' = Mapped \cup {v}
    BY <1>1, <1>10, <1>12, MappedAfter
  <2>2. Spare' = {x \in DataFrames \ FixedPages :
                    IF x \in Window THEN x % ENTRIES \notin page_table_ptrs'
                                    ELSE x \notin Mapped \cup {v}}
    BY <2>1 DEF Spare
  <2>3. Cardinality(Spare') = Cardinality(data_free') + Cardinality(lost')
    <3>1. CASE TablesStay(v, free)
      <4>1. Spare' = rest
        BY <1>1, <2>2, <3>1 DEF Spare, TablesStay
      <4>. QED  BY <1>6, <3>1, <4>1 DEF TablesStay
    <3>2. CASE \E pt \in free : TablesGrow(v, free, pt)
      <4>1. PICK pt \in free : TablesGrow(v, free, pt)
        BY <3>2
      <4>2. page_table_ptrs' = page_table_ptrs \cup {t} /\ t \notin page_table_ptrs
            /\ data_free' = free \ {pt}
        BY <4>1 DEF TablesGrow
      <4>3. \A x \in Window : x % ENTRIES = t => x = TablePage(t)
        BY WindowPages DEF Window
      <4>4. Spare' = rest \ {TablePage(t)}
        <5> HIDE DEF t
        <5>1. ASSUME NEW x \in DataFrames \ FixedPages
              PROVE  x \in Spare' <=> x \in rest \ {TablePage(t)}
          <6>1. CASE x \in Window
            <7>1. x # v /\ (x % ENTRIES = t <=> x = TablePage(t))
              BY <1>1, <1>7, <4>3, <6>1
            <7>2. x \in Spare' <=> x % ENTRIES \notin page_table_ptrs \cup {t}
              BY <2>2, <4>2, <6>1
            <7>3. x \in Spare <=> x % ENTRIES \notin page_table_ptrs
              BY <6>1 DEF Spare
            <7>. QED  BY <7>1, <7>2, <7>3
          <6>2. CASE x \notin Window
            <7>1. x \in Spare' <=> x \notin Mapped \cup {v}
              BY <2>2, <6>2
            <7>2. x \in Spare <=> x \notin Mapped
              BY <6>2 DEF Spare
            <7>. QED  BY <1>7, <6>2, <7>1, <7>2
          <6>. QED  BY <6>1, <6>2
        <5>2. Spare' \subseteq DataFrames \ FixedPages /\ rest \subseteq DataFrames \ FixedPages
          BY <2>2 DEF Spare
        <5>. QED  BY <5>1, <5>2
      <4>5. TablePage(t) \in rest
        BY <1>8, <4>2
      <4> HIDE DEF rest, t
      <4>6. /\ Cardinality(rest) = Cardinality(rest \ {TablePage(t)}) + 1
            /\ Cardinality(free) = Cardinality(free \ {pt}) + 1
            /\ Cardinality(rest \ {TablePage(t)}) \in Nat /\ Cardinality(free \ {pt}) \in Nat
        BY <1>3, <4>1, <4>5, TakeOne
      <4>. QED  BY <1>6, <4>2, <4>4, <4>6
    <3>. QED  BY <1>10, <1>12, <3>1, <3>2
  <2>4. SpareCode' = SpareCode \ {v}
    BY <2>1 DEF SpareCode
  <2>5. CASE FromCode(v, f, free)
    <3>1. v \in SpareCode
      BY <2>5 DEF SpareCode, FromCode
    <3>2. /\ Cardinality(SpareCode) = Cardinality(SpareCode') + 1
          /\ Cardinality(code_free) = Cardinality(code_free') + 1
          /\ Cardinality(SpareCode') \in Nat /\ Cardinality(code_free') \in Nat
      BY <1>3, <2>4, <2>5, <3>1, TakeOne DEF FromCode
    <3>. QED  BY <1>4, <2>3, <3>2 DEF CountsHold
  <2>6. CASE FromData(v, f, free) \/ Itself(v, f, free)
    <3>1. v \notin ModuleCode /\ code_free' = code_free
      BY <1>1, <2>6 DEF FromData, Itself
    <3>2. SpareCode' = SpareCode
      BY <2>4, <3>1 DEF SpareCode
    <3>. QED  BY <1>4, <2>3, <3>1, <3>2 DEF CountsHold
  <2>. QED  BY <2>5, <2>6
<1>. QED  BY <1>11, <1>12

-----------------------------------------------------------------------------
(* What the loops have to map.                                             *)
Listed(s, items) ==
  /\ s \in Seq(items)
  /\ \A m, n \in 1 .. Len(s) :
       s[m].page = s[n].page => m = n \/ s[m].page \in SharedPages

LEMMA RunListed ==
  ASSUME NEW first \in Int, NEW count \in Nat, NEW items, NEW s \in [1 .. count -> items],
         \A i \in 1 .. count : s[i].page = first + i - 1
  PROVE  Listed(s, items)
<1>1. s \in Seq(items) /\ Len(s) = count
  OBVIOUS
<1>2. ASSUME NEW m \in 1 .. Len(s), NEW n \in 1 .. Len(s), s[m].page = s[n].page
      PROVE  m = n
  <2>1. first + m - 1 = first + n - 1
    BY <1>1, <1>2
  <2>. QED  BY <1>1, <2>1
<1>. QED  BY <1>1, <1>2 DEF Listed

LEMMA OneListed ==
  ASSUME NEW items, NEW item \in items
  PROVE  Listed(<<item>>, items)
  BY DEF Listed

LEMMA ConcatListed ==
  ASSUME NEW I, NEW J, NEW s, NEW u, Listed(s, I), Listed(u, J),
         \A a \in I, b \in J : a.page = b.page => a.page \in SharedPages
  PROVE  Listed(s \o u, I \cup J)
<1>1. /\ s \in Seq(I) /\ u \in Seq(J) /\ s \in Seq(I \cup J) /\ u \in Seq(I \cup J)
      /\ Len(s) \in Nat /\ Len(u) \in Nat
  BY DEF Listed
<1>2. s \o u \in Seq(I \cup J) /\ Len(s \o u) = Len(s) + Len(u)
  BY <1>1
<1>3. \A n \in 1 .. Len(s) : (s \o u)[n] = s[n] /\ s[n] \in I
  BY <1>1
<1>4. \A n \in Len(s) + 1 .. Len(s) + Len(u) :
         (s \o u)[n] = u[n - Len(s)] /\ n - Len(s) \in 1 .. Len(u) /\ u[n - Len(s)] \in J
  BY <1>1
<1>5. ASSUME NEW m \in 1 .. Len(s \o u), NEW n \in 1 .. Len(s \o u),
             (s \o u)[m].page = (s \o u)[n].page
      PROVE  m = n \/ (s \o u)[m].page \in SharedPages
  <2>1. CASE m <= Len(s) /\ n <= Len(s)
    <3>1. /\ s[m].page = s[n].page /\ m \in 1 .. Len(s) /\ n \in 1 .. Len(s)
          /\ (s \o u)[m] = s[m]
      BY <1>1, <1>2, <1>3, <1>5, <2>1
    <3>. QED  BY <3>1 DEF Listed
  <2>2. CASE m > Len(s) /\ n > Len(s)
    <3>1. /\ m \in Len(s) + 1 .. Len(s) + Len(u) /\ n \in Len(s) + 1 .. Len(s) + Len(u)
      BY <1>1, <1>2, <2>2
    <3>2. /\ u[m - Len(s)].page = u[n - Len(s)].page /\ (s \o u)[m] = u[m - Len(s)]
          /\ m - Len(s) \in 1 .. Len(u) /\ n - Len(s) \in 1 .. Len(u)
      BY <1>4, <1>5, <3>1
    <3>3. m - Len(s) = n - Len(s) \/ u[m - Len(s)].page \in SharedPages
      BY <3>2 DEF Listed
    <3>. QED  BY <1>1, <1>2, <3>2, <3>3
  <2>3. CASE m <= Len(s) /\ n > Len(s)
    <3>1. m \in 1 .. Len(s) /\ n \in Len(s) + 1 .. Len(s) + Len(u)
      BY <1>1, <1>2, <2>3
    <3>. QED  BY <1>3, <1>4, <1>5, <3>1
  <2>4. CASE m > Len(s) /\ n <= Len(s)
    <3>1. n \in 1 .. Len(s) /\ m \in Len(s) + 1 .. Len(s) + Len(u)
      BY <1>1, <1>2, <2>4
    <3>. QED  BY <1>3, <1>4, <1>5, <3>1
  <2>. QED  BY <1>1, <1>2, <2>1, <2>2, <2>3, <2>4
<1>. QED  BY <1>2, <1>5 DEF Listed

FixedItems(pages) ==
  {item \in Item : item.page \in pages /\ item.pool = "none" /\ ~item.user}
FreshItems(pages, pool, user) ==
  {item \in Item : item.page \in pages /\ item.pool = pool /\ item.user = user}

LEMMA FixedItem ==
  ASSUME NEW page \in Page \ Window, NEW rw \in BOOLEAN, NEW pages, page \in pages
  PROVE  Fixed(page, rw) \in FixedItems(pages) /\ Fixed(page, rw).page = page
  BY DEF Fixed, FixedItems, Item

LEMMA FixedRun ==
  ASSUME NEW first \in Nat, NEW count \in Nat, NEW rw \in BOOLEAN,
         first .. first + count - 1 \subseteq Page \ Window
  PROVE  Listed([i \in 1 .. count |-> Fixed(first + i - 1, rw)],
                FixedItems(first .. first + count - 1))
<1> DEFINE pages == first .. first + count - 1
           run == [i \in 1 .. count |-> Fixed(first + i - 1, rw)]
<1>1. \A i \in 1 .. count : first + i - 1 \in pages
  OBVIOUS
<1> HIDE DEF pages
<1>2. \A i \in 1 .. count : run[i] \in FixedItems(pages) /\ run[i].page = first + i - 1
  <2>1. ASSUME NEW i \in 1 .. count
        PROVE  run[i] \in FixedItems(pages) /\ run[i].page = first + i - 1
    <3>1. run[i] = Fixed(first + i - 1, rw) /\ first + i - 1 \in pages
      BY <1>1
    <3>2. first + i - 1 \in Page \ Window
      BY <1>1 DEF pages
    <3>. QED  BY <3>1, <3>2, FixedItem
  <2>. QED  BY <2>1
<1>3. run \in [1 .. count -> FixedItems(pages)]
  BY <1>2
<1> HIDE DEF run
<1>4. Listed(run, FixedItems(pages))
  <2>1. first \in Int /\ \A i \in 1 .. count : run[i].page = first + i - 1
    BY <1>2
  <2>. QED  BY <1>3, <2>1, RunListed
<1>. QED  BY <1>4 DEF run, pages

LEMMA KernelPages == Listed(kernel_pages, FixedItems(FixedPages))
<1> DEFINE B == data_base .. data_base + (data_top + DIR_PAGES) - 1
           C == code_base .. code_base + kernel_code - 1
           M == module_base .. module_base + module_len - 1
           data == [i \in 1 .. data_top + DIR_PAGES |-> Fixed(data_base + i - 1, TRUE)]
           code == [i \in 1 .. kernel_code |-> Fixed(code_base + i - 1, FALSE)]
           image == [i \in 1 .. module_len |-> Fixed(module_base + i - 1, TRUE)]
<1>1. kernel_pages = data \o <<Fixed(stack_page, TRUE)>> \o code
                       \o <<Fixed(video_page, TRUE)>> \o image
  BY DEF kernel_pages, Run
<1>2. FixedPages = B \cup {stack_page} \cup C \cup {video_page} \cup M
      /\ FixedPages \subseteq Page \ Window
  <2>1. FixedPages = B \cup {stack_page} \cup C \cup {video_page} \cup M
    BY Types DEF FixedPages, top_data, kernel_page_directory, DIR_PAGES
  <2>2. FixedPages \subseteq Page \ Window
    BY Areas DEF SomePages
  <2>. QED  BY <2>1, <2>2
<1>3. /\ data_top + DIR_PAGES \in Nat
      /\ B \subseteq Page \ Window /\ C \subseteq Page \ Window /\ M \subseteq Page \ Window
  BY <1>2, Types DEF DIR_PAGES
<1>4. Listed(data, FixedItems(B))
  BY <1>3, FixedRun, Types
<1>5. Listed(code, FixedItems(C))
  BY <1>3, FixedRun, Types
<1>6. Listed(image, FixedItems(M))
  BY <1>3, FixedRun, Types
<1>7. \A page \in {stack_page, video_page} :
         Listed(<<Fixed(page, TRUE)>>, FixedItems({page}))
  BY <1>2, FixedItem, OneListed
<1>8. /\ B \cup {stack_page} \subseteq DataFrames /\ stack_page \notin B
      /\ C \subseteq CodeFrames /\ M \cap (DataFrames \cup CodeFrames) = {}
      /\ video_page \notin DataFrames \cup CodeFrames /\ video_page \notin M
      /\ DataFrames \cap CodeFrames = {}
  <2>1. /\ top_data = data_base + data_top + 2 /\ top_data \in Nat /\ top_data <= heap_start
        /\ heap_start + heap_size <= module_stack_page
        /\ module_stack_page = data_base + data_len - 2 /\ stack_page = data_base + data_len - 1
        /\ heap_start \in Nat /\ heap_size \in Nat
    BY WindowPlace, HeapPlace, Types
  <2>2. B \cup {stack_page} \subseteq DataFrames /\ stack_page \notin B
    BY <2>1, Types DEF DataFrames, DIR_PAGES
  <2>3. C \subseteq CodeFrames /\ M \cap (DataFrames \cup CodeFrames) = {}
    <3>1. /\ code_base = data_base + data_len /\ module_base + module_len <= data_base
          /\ kernel_code <= code_len
      BY LayoutAssumption
    <3>. QED  BY <3>1, Types DEF DataFrames, CodeFrames
  <2>. QED  BY <2>2, <2>3, Types, Areas, LayoutAssumption
<1> HIDE DEF data, code, image, B, C, M
<1>9. Listed(data \o <<Fixed(stack_page, TRUE)>>, FixedItems(B) \cup FixedItems({stack_page}))
  BY <1>4, <1>7, <1>8, ConcatListed DEF FixedItems
<1>10. FixedItems(B) \cup FixedItems({stack_page}) = FixedItems(B \cup {stack_page})
  BY DEF FixedItems
<1> DEFINE B2 == B \cup {stack_page}
           s2 == data \o <<Fixed(stack_page, TRUE)>>
<1>11. Listed(s2, FixedItems(B2))
  BY <1>9, <1>10
<1>12. B2 \subseteq DataFrames
  BY <1>8
<1> HIDE DEF B2, s2
<1>13. Listed(s2 \o code, FixedItems(B2) \cup FixedItems(C))
  BY <1>5, <1>8, <1>11, <1>12, ConcatListed DEF FixedItems
<1> DEFINE B3 == B2 \cup C
           s3 == s2 \o code
<1>14. FixedItems(B2) \cup FixedItems(C) = FixedItems(B3)
  BY DEF FixedItems
<1>15. Listed(s3, FixedItems(B3)) /\ B3 \subseteq DataFrames \cup CodeFrames
  BY <1>8, <1>12, <1>13, <1>14
<1> HIDE DEF B3, s3
<1>16. Listed(s3 \o <<Fixed(video_page, TRUE)>>, FixedItems(B3) \cup FixedItems({video_page}))
  BY <1>7, <1>8, <1>15, ConcatListed DEF FixedItems
<1> DEFINE B4 == B3 \cup {video_page}
           s4 == s3 \o <<Fixed(video_page, TRUE)>>
<1>17. FixedItems(B3) \cup FixedItems({video_page}) = FixedItems(B4)
  BY DEF FixedItems
<1>18. Listed(s4, FixedItems(B4)) /\ B4 \cap M = {}
  BY <1>8, <1>15, <1>16, <1>17
<1> HIDE DEF B4, s4
<1>19. Listed(s4 \o image, FixedItems(B4) \cup FixedItems(M))
  BY <1>6, <1>18, ConcatListed DEF FixedItems
<1>20. FixedItems(B4) \cup FixedItems(M) = FixedItems(FixedPages)
  BY <1>2 DEF FixedItems, B4, B3, B2
<1>. QED  BY <1>1, <1>19, <1>20 DEF s4, s3, s2

LEMMA FreshItem ==
  ASSUME NEW page \in Page \ Window, NEW pool \in {"data", "code"}, NEW rw \in BOOLEAN,
         NEW user \in BOOLEAN, NEW pages, page \in pages
  PROVE  /\ Fresh(page, pool, rw, user) \in FreshItems(pages, pool, user)
         /\ Fresh(page, pool, rw, user).page = page
  BY DEF Fresh, FreshItems, Item

LEMMA FreshRun ==
  ASSUME NEW first \in Nat, NEW count \in Nat, NEW pool \in {"data", "code"},
         NEW rw \in BOOLEAN, NEW user \in BOOLEAN,
         first .. first + count - 1 \subseteq Page \ Window
  PROVE  Listed([i \in 1 .. count |-> Fresh(first + i - 1, pool, rw, user)],
                FreshItems(first .. first + count - 1, pool, user))
<1> DEFINE pages == first .. first + count - 1
           run == [i \in 1 .. count |-> Fresh(first + i - 1, pool, rw, user)]
<1>1. \A i \in 1 .. count : first + i - 1 \in pages
  OBVIOUS
<1> HIDE DEF pages
<1>2. \A i \in 1 .. count :
        run[i] \in FreshItems(pages, pool, user) /\ run[i].page = first + i - 1
  <2>1. ASSUME NEW i \in 1 .. count
        PROVE  run[i] \in FreshItems(pages, pool, user) /\ run[i].page = first + i - 1
    <3>1. run[i] = Fresh(first + i - 1, pool, rw, user) /\ first + i - 1 \in pages
      BY <1>1
    <3>2. first + i - 1 \in Page \ Window
      BY <1>1 DEF pages
    <3>. QED  BY <3>1, <3>2, FreshItem
  <2>. QED  BY <2>1
<1>3. run \in [1 .. count -> FreshItems(pages, pool, user)]
  BY <1>2
<1> HIDE DEF run
<1>4. Listed(run, FreshItems(pages, pool, user))
  <2>1. first \in Int /\ \A i \in 1 .. count : run[i].page = first + i - 1
    BY <1>2
  <2>. QED  BY <1>3, <2>1, RunListed
<1>. QED  BY <1>4 DEF run, pages

LEMMA ModulePagesListed ==
  ASSUME module_code_pages > 0
  PROVE  Listed(module_code \o module_data,
                FreshItems(ModuleCode, "code", TRUE)
                  \cup FreshItems(ModuleData \cup ModuleStack, "data", TRUE))
<1> DEFINE D == (data_base + MODULE_DATA) .. (data_base + MODULE_DATA) + module_data_pages - 1
           data == [i \in 1 .. module_data_pages |->
                     Fresh((data_base + MODULE_DATA) + i - 1, "data", TRUE, TRUE)]
           stack == <<Fresh(module_stack_page, "data", TRUE, TRUE)>>
<1>1. /\ module_data = data \o stack
      /\ module_code = [i \in 1 .. module_code_pages |->
                          Fresh((code_base + MODULE_CODE) + i - 1, "code", FALSE, TRUE)]
  BY DEF module_data, module_code, Run
<1>2. /\ ModuleCode = (code_base + MODULE_CODE) .. (code_base + MODULE_CODE) + module_code_pages - 1
      /\ ModuleData = D /\ ModuleStack = {module_stack_page}
  BY Types DEF ModuleCode, ModuleData, ModuleStack
<1>3. ModulePages \subseteq Page \ Window
  BY Areas DEF SomePages
<1>4. Listed(module_code, FreshItems(ModuleCode, "code", TRUE))
  <2>1. code_base + MODULE_CODE \in Nat /\ ModuleCode \subseteq Page \ Window
    BY <1>3, Types DEF ModulePages
  <2>. QED  BY <1>1, <1>2, <2>1, FreshRun, Types
<1>5. Listed(data, FreshItems(ModuleData, "data", TRUE))
  <2>1. data_base + MODULE_DATA \in Nat /\ D \subseteq Page \ Window
    BY <1>2, <1>3, Types DEF ModulePages
  <2>. QED  BY <1>2, <2>1, FreshRun, Types
<1>6. Listed(stack, FreshItems(ModuleStack, "data", TRUE))
  BY <1>2, <1>3, FreshItem, OneListed DEF ModulePages
<1> HIDE DEF D, data, stack
<1>7. \A pages, pool : \A item \in FreshItems(pages, pool, TRUE) : item.page \in pages
  BY DEF FreshItems
<1>8. Listed(module_data, FreshItems(ModuleData, "data", TRUE)
                            \cup FreshItems(ModuleStack, "data", TRUE))
  <2>1. \A a \in FreshItems(ModuleData, "data", TRUE), b \in FreshItems(ModuleStack, "data", TRUE) :
          a.page = b.page => a.page \in SharedPages
    BY <1>7 DEF SharedPages
  <2>. QED  BY <1>1, <1>5, <1>6, <2>1, ConcatListed
<1>9. FreshItems(ModuleData, "data", TRUE) \cup FreshItems(ModuleStack, "data", TRUE)
        = FreshItems(ModuleData \cup ModuleStack, "data", TRUE)
  BY DEF FreshItems
<1>10. Listed(module_data, FreshItems(ModuleData \cup ModuleStack, "data", TRUE))
  BY <1>8, <1>9
<1>11. \A a \in FreshItems(ModuleCode, "code", TRUE),
          b \in FreshItems(ModuleData \cup ModuleStack, "data", TRUE) :
         a.page = b.page => a.page \in SharedPages
  <2>1. ModuleCode \cap (ModuleData \cup ModuleStack) = {}
    BY Areas
  <2>. QED  BY <1>7, <2>1
<1>. QED  BY <1>4, <1>10, <1>11, ConcatListed

(* A loop's next item, and what is left after it.                          *)
LEMMA NextItem ==
  ASSUME TodoHolds, todo # <<>>, todo' = Tail(todo), page_table_ptrs \subseteq page_table_ptrs',
         UNCHANGED <<paging_enabled, heap_brk, module_loaded>>
  PROVE  /\ TodoHolds' /\ Booted /\ Booted'
         /\ Head(todo) \in Item /\ ItemHolds(Head(todo))
         /\ ~Settled(Head(todo).page)
         /\ \/ Head(todo).page \in SharedPages
            \/ \A n \in 1 .. Len(todo') : todo'[n].page # Head(todo).page
         /\ \A v : Settled(v) => Settled(v)'
<1>1. todo \in Seq(Item) /\ Len(todo) \in Nat \ {0}
  BY DEF TodoHolds
<1>2. /\ todo' \in Seq(Item) /\ Len(todo') = Len(todo) - 1
      /\ \A n \in 1 .. Len(todo') : todo'[n] = todo[n + 1] /\ n + 1 \in 1 .. Len(todo)
  BY <1>1
<1>3. Head(todo) = todo[1] /\ 1 \in 1 .. Len(todo) /\ Head(todo) \in Item
  BY <1>1
<1>4. Booted /\ Booted'
  BY DEF TodoHolds, Booted
<1>5. ItemHolds(Head(todo))
  BY <1>3 DEF TodoHolds
<1>6. ASSUME NEW n \in 1 .. Len(todo'), todo'[n].page = Head(todo).page
      PROVE  Head(todo).page \in SharedPages
  <2>1. todo[n + 1].page = todo[1].page /\ n + 1 \in 1 .. Len(todo) /\ n + 1 # 1
    BY <1>2, <1>3, <1>6
  <2>. QED  BY <1>3, <2>1 DEF TodoHolds
<1>7. \A n \in 1 .. Len(todo') : ItemHolds(todo[n])'
  <2>1. ASSUME NEW n \in 1 .. Len(todo') PROVE ItemHolds(todo[n])'
    <3>1. ItemHolds(todo[n + 1]) /\ todo'[n] = todo[n + 1]
      BY <1>2 DEF TodoHolds
    <3>. QED  BY <3>1 DEF ItemHolds
  <2>. QED  BY <2>1
<1>8. ASSUME NEW m \in 1 .. Len(todo'), NEW n \in 1 .. Len(todo'), todo'[m].page = todo'[n].page
      PROVE  m = n \/ todo'[m].page \in SharedPages
  <2>1. /\ todo[m + 1].page = todo[n + 1].page /\ todo'[m] = todo[m + 1]
        /\ m + 1 \in 1 .. Len(todo) /\ n + 1 \in 1 .. Len(todo)
    BY <1>2, <1>8
  <2>2. m + 1 = n + 1 \/ todo[m + 1].page \in SharedPages
    BY <2>1 DEF TodoHolds
  <2>. QED  BY <1>2, <2>1, <2>2
<1>9. TodoHolds'
  <2>1. /\ paging_enabled' => heap_brk' \in heap_start .. heap_start + heap_size - 1
        /\ ~paging_enabled' => heap_brk' = 0
    BY DEF TodoHolds
  <2>. QED  BY <1>2, <1>4, <1>7, <1>8, <2>1 DEF TodoHolds
<1>10. ~Settled(Head(todo).page)
  BY <1>3 DEF Settled
<1>11. ASSUME NEW v, Settled(v) PROVE Settled(v)'
  <2>1. \A n \in 1 .. Len(todo') : todo'[n].page # v
    BY <1>2, <1>11 DEF Settled
  <2>. QED  BY <1>11, <2>1 DEF Settled
<1>. QED  BY <1>3, <1>4, <1>5, <1>6, <1>9, <1>10, <1>11

-----------------------------------------------------------------------------
(* What a step does to tables and translations.                            *)
Kept == \A w \in Page \ Window : Translation(w)' = Translation(w)
Moves(v) == v \in Mapped => v \in faulted \cup SharedPages /\ Translation(v).frame \in lost'
NewlyMapped(v, entry) ==
  /\ entry.present /\ Effect(v, entry)
  /\ \A w \in Mapped : Translation(w).frame # entry.frame
StepHolds ==
  /\ \A t \in page_table_ptrs : t \in page_table_ptrs' /\ page_tables'[t] = page_tables[t]
  /\ Booted /\ ~TableAtNull' =>
       Kept \/ \E v \in Page \ Window :
                 /\ Moves(v)
                 /\ Effect(v, Absent) \/ \E entry \in EntryType : NewlyMapped(v, entry)
  /\ ~Booted /\ Booted' => \A w \in Page \ Window : Translation(w)' = Absent

LEMMA FrameIsNew ==
  ASSUME TypeOK, TablesHold, PagesHold, FramesHold, NEW v \in SomePages,
         v \in FixedPages => v \notin Mapped, NEW f, NEW free,
         FromData(v, f, free) \/ Itself(v, f, free) \/ FromCode(v, f, free)
  PROVE  /\ f \in Page /\ free \subseteq data_free /\ code_free' \subseteq code_free
         /\ f \notin free \cup code_free' \cup lost \cup Tables
         /\ \A w \in Mapped : Translation(w).frame # f
         /\ v \in FixedPages => f = v
         /\ v \notin FixedPages => f \notin FixedPages
<1>1. /\ data_free \subseteq DataFrames /\ code_free \subseteq CodeFrames
      /\ DataFrames \cap CodeFrames = {} /\ DataFrames \subseteq Page /\ CodeFrames \subseteq Page
  BY Areas DEF TypeOK
<1>2. /\ FixedPages \cap (data_free \cup code_free \cup lost \cup Tables) = {}
      /\ Tables \cap (data_free \cup lost) = {} /\ lost \cap (data_free \cup code_free) = {}
  BY DEF FramesHold
<1>3. Tables \subseteq DataFrames /\ ModuleCode \cap FixedPages = {} /\ FixedPages \subseteq Page
  <2>1. Tables \subseteq DataFrames
    BY DEF TablesHold, Tables
  <2>. QED  BY <2>1, Areas DEF ModulePages
<1>4. \A w \in Mapped : /\ Translation(w).frame \notin data_free \cup code_free
                        /\ w \in FixedPages => Translation(w).frame = w
                        /\ w \notin FixedPages => Translation(w).frame \notin FixedPages
  BY DEF PagesHold, PageHolds
<1>5. CASE FromData(v, f, free)
  BY <1>1, <1>2, <1>4, <1>5 DEF FromData
<1>6. CASE Itself(v, f, free)
  BY <1>1, <1>2, <1>3, <1>4, <1>6 DEF Itself
<1>7. CASE FromCode(v, f, free)
  BY <1>1, <1>2, <1>3, <1>4, <1>7 DEF FromCode
<1>. QED  BY <1>5, <1>6, <1>7

LEMMA MapKeepsInv ==
  ASSUME PInv, TodoHolds', Booted, UNCHANGED <<paging_enabled, heap_brk, module_loaded, panicked>>,
         NEW v \in SomePages, TableAtNull \/ (v \in Mapped => v \in faulted \cup SharedPages),
         NEW f, NEW rw \in BOOLEAN, NEW user \in BOOLEAN, NEW free,
         FromData(v, f, free) \/ Itself(v, f, free) \/ FromCode(v, f, free),
         mmap(v, Entry(f, rw, user), free),
         user => v \in ModulePages,
         v \in FixedPages \cup HeapPages \cup ModulePages \cup faulted',
         v \in faulted' \cup SharedPages \/ Settled(v)',
         faulted \ {v} \subseteq faulted', faulted' \subseteq FaultPages \cap DataFrames,
         \A w \in Mapped : Settled(w) => Settled(w)'
  PROVE  PInv' /\ StepHolds
<1>1. /\ TypeOK /\ TablesTyped /\ data_free \subseteq DataFrames /\ code_free \subseteq CodeFrames
      /\ v \in Page \ Window /\ TablesInData /\ lost \subseteq Page
  BY Areas DEF PInv, TypeOK, TablesTyped, SomePages
<1>2. /\ f \in Page /\ free \subseteq DataFrames /\ code_free' \subseteq CodeFrames
  BY <1>1, Areas DEF FromData, Itself, FromCode
<1>3. Entry(f, rw, user) \in EntryType /\ Entry(f, rw, user).present
  BY <1>2, EntryTypes DEF Entry
<1>4. /\ data_free' \subseteq free /\ TablesTyped' /\ page_table_ptrs \subseteq page_table_ptrs'
      /\ \A t \in page_table_ptrs : page_tables'[t] = page_tables[t]
      /\ TablesInData'
      /\ lost' = lost \cup Behind(v)
  BY <1>1, <1>2, <1>3, MmapKeeps
<1>5. TypeOK'
  <2>1. lost' \subseteq Page
    BY <1>1, <1>4, BehindTyped
  <2>. QED  BY <1>1, <1>2, <1>4, <2>1 DEF TypeOK, TablesTyped
<1>6. Booted' /\ (TableAtNull => TableAtNull')
  BY <1>4, BrokenForGood DEF Booted
<1>7. v \in FixedPages \cup ModuleCode => v \notin faulted \cup SharedPages
  BY Areas DEF PInv, TypeOK, ModulePages
<1>8. ASSUME ~TableAtNull
      PROVE  /\ TablesHold /\ PagesHold /\ FramesHold /\ CountsHold
             /\ v \in FixedPages \cup ModuleCode => v \notin Mapped
             /\ Moves(v)
  <2>1. TablesHold /\ PagesHold /\ FramesHold /\ CountsHold
    BY <1>8 DEF PInv
  <2>2. Behind(v) = IF v \in Mapped THEN {Translation(v).frame} ELSE {}
    BY <1>1, <2>1, BehindMapped
  <2>. QED  BY <1>4, <1>7, <1>8, <2>1, <2>2 DEF Moves
<1>9. ASSUME ~TableAtNull'
      PROVE  /\ TablesHold' /\ PagesHold' /\ FramesHold'
             /\ NewlyMapped(v, Entry(f, rw, user)) /\ Moves(v)
  <2>1. /\ TablesHold /\ PagesHold /\ FramesHold /\ Moves(v)
        /\ v \in FixedPages => v \notin Mapped
    BY <1>6, <1>8, <1>9
  <2>2. /\ free \subseteq data_free /\ code_free' \subseteq code_free
        /\ f \notin free \cup code_free' \cup lost \cup Tables
        /\ \A w \in Mapped : Translation(w).frame # f
        /\ v \in FixedPages => f = v
        /\ v \notin FixedPages => f \notin FixedPages
    BY <1>1, <2>1, FrameIsNew
  <2>3. /\ TablesHold' /\ PagesHold' /\ FramesHold'
        /\ Effect(v, Entry(f, rw, user))
    BY <1>1, <1>2, <1>9, <2>1, <2>2, MapPage
  <2>4. Entry(f, rw, user).frame = f
    BY DEF Entry
  <2>. QED  BY <1>3, <2>1, <2>2, <2>3, <2>4 DEF NewlyMapped
<1>10. /\ lost' = {} => ~TableAtNull'
       /\ ~TableAtNull' => CountsHold'
  <2>1. lost' = {} => ~TableAtNull
    BY <1>4 DEF PInv
  <2>2. ~TableAtNull' => ~TableAtNull
    BY <1>6
  <2>3. ASSUME ~TableAtNull
        PROVE  /\ lost' = {} => ~TableAtNull'
               /\ ~TableAtNull' => CountsHold'
    BY <1>1, <1>3, <1>8, <2>3, MapCounts
  <2>. QED  BY <2>1, <2>2, <2>3
<1>11. PInv'
  BY <1>4, <1>5, <1>6, <1>9, <1>10 DEF PInv
<1>12. StepHolds
  BY <1>1, <1>3, <1>4, <1>9 DEF StepHolds
<1>. QED  BY <1>11, <1>12

LEMMA MapFixedKeeps ==
  ASSUME PInv, MapFixed
  PROVE  PInv' /\ StepHolds
<1> DEFINE item == Head(todo)
<1>0. PICK v : v = item.page
  OBVIOUS
<1>1. /\ todo # <<>> /\ item.pool = "none" /\ todo' = Tail(todo)
      /\ mmap(v, Entry(v, item.rw, FALSE), data_free) /\ code_free' = code_free
      /\ UNCHANGED <<faulted, paging_enabled, heap_brk, module_loaded, panicked>>
  BY <1>0 DEF MapFixed
<1>2. item \in Item
  BY <1>1 DEF PInv, TodoHolds
<1>3. page_table_ptrs \subseteq page_table_ptrs'
  <2>1. v \in Page /\ item.rw \in BOOLEAN
    BY <1>0, <1>2 DEF Item
  <2>2. Entry(v, item.rw, FALSE) \in EntryType
    BY <2>1, EntryTypes
  <2>3. TablesTyped /\ data_free \subseteq DataFrames
    BY DEF PInv, TypeOK, TablesTyped
  <2>. QED  BY <1>1, <2>1, <2>2, <2>3, MmapKeeps
<1>4. /\ TodoHolds' /\ Booted /\ ItemHolds(item) /\ ~Settled(v)
      /\ v \in SharedPages \/ \A n \in 1 .. Len(todo') : todo'[n].page # v
      /\ \A w : Settled(w) => Settled(w)'
  BY <1>0, <1>1, <1>3, NextItem DEF PInv
<1>5. TableAtNull \/ (v \in Mapped => v \in faulted \cup SharedPages)
  BY <1>4 DEF PInv, PagesHold, PageHolds
<1>6. /\ v \in FixedPages /\ Itself(v, v, data_free)
      /\ item.rw \in BOOLEAN
  BY <1>0, <1>1, <1>2, <1>4 DEF ItemHolds, Itself, Item
<1>7. v \notin HeapPages \cup ModulePages /\ v \notin SharedPages
  BY <1>6, Areas
<1>8. Settled(v)'
  BY <1>4, <1>7 DEF Settled
<1>9. v \in SomePages /\ faulted \subseteq FaultPages \cap DataFrames
  BY <1>6 DEF SomePages, PInv, TypeOK
<1> HIDE DEF item
<1>. QED  BY <1>1, <1>4, <1>5, <1>6, <1>8, <1>9, MapKeepsInv

(* Panics and ASSERTs change nothing else.                                 *)
LEMMA UnchangedKeeps ==
  ASSUME PInv, panicked' \in BOOLEAN,
         UNCHANGED <<faulted, lost, data_free, code_free, page_tables, page_table_ptrs, mem,
                     paging_enabled, todo, heap_brk, module_loaded>>
  PROVE  PInv' /\ StepHolds
<1>1. TypeOK' /\ TablesInData'
  BY DEF PInv, TypeOK, TablesInData
<1>2. TodoHolds' <=> TodoHolds
  BY DEF TodoHolds, ItemHolds, Booted
<1>3. /\ TablesHold' <=> TablesHold
      /\ Booted' <=> Booted
      /\ TableAtNull' <=> TableAtNull
      /\ FramesHold' <=> FramesHold
  BY DEF TablesHold, Booted, TableAtNull, FramesHold, Tables
<1>4. Mapped' = Mapped /\ \A v : Translation(v)' = Translation(v)
  BY DEF Mapped, Translation, Walk
<1>5. PagesHold' <=> PagesHold
  BY <1>4 DEF PagesHold, PageHolds, Tables, Settled
<1>6. CountsHold' <=> CountsHold
  BY <1>4 DEF CountsHold, Spare, SpareCode
<1>7. StepHolds
  BY <1>3, <1>4 DEF StepHolds, Kept
<1>. QED  BY <1>1, <1>2, <1>3, <1>5, <1>6, <1>7 DEF PInv

LEMMA MapDataPageKeeps ==
  ASSUME PInv, MapDataPage
  PROVE  PInv' /\ StepHolds
<1> DEFINE item == Head(todo)
           frame == alloc_page(data_free, NULL)
           free == data_free \ {frame}
<1>0. PICK v : v = item.page
  OBVIOUS
<1>1. /\ todo # <<>> /\ item.pool = "data" /\ frame # NULL /\ todo' = Tail(todo)
      /\ mmap(v, Entry(frame, item.rw, item.user), free) /\ code_free' = code_free
      /\ faulted' = faulted \ {v}
      /\ UNCHANGED <<paging_enabled, heap_brk, module_loaded, panicked>>
  BY <1>0 DEF MapDataPage
<1>2. item \in Item
  BY <1>1 DEF PInv, TodoHolds
<1>3. frame \in data_free /\ free \subseteq DataFrames /\ frame \in Page
  <2>1. data_free \subseteq DataFrames /\ data_free \subseteq Page
    BY Areas DEF PInv, TypeOK
  <2>2. data_free # {}
    BY <1>1 DEF alloc_page
  <2>. QED  BY <2>1, <2>2, AllocPage
<1> HIDE DEF frame, free
<1>4. page_table_ptrs \subseteq page_table_ptrs'
  <2>1. v \in Page /\ item.rw \in BOOLEAN /\ item.user \in BOOLEAN
    BY <1>0, <1>2 DEF Item
  <2>2. Entry(frame, item.rw, item.user) \in EntryType
    BY <1>3, <2>1, EntryTypes
  <2>3. TablesTyped
    BY DEF PInv, TypeOK, TablesTyped
  <2>. QED  BY <1>1, <1>3, <2>1, <2>2, <2>3, MmapKeeps
<1>5. /\ TodoHolds' /\ Booted /\ ItemHolds(item) /\ ~Settled(v)
      /\ v \in SharedPages \/ \A n \in 1 .. Len(todo') : todo'[n].page # v
      /\ \A w : Settled(w) => Settled(w)'
  BY <1>0, <1>1, <1>4, NextItem DEF PInv
<1>6. TableAtNull \/ (v \in Mapped => v \in faulted \cup SharedPages)
  BY <1>5 DEF PInv, PagesHold, PageHolds
<1>7. /\ \/ v \in HeapPages /\ v < heap_brk
         \/ v \in ModuleData \cup ModuleStack /\ module_loaded
      /\ item.rw \in BOOLEAN /\ item.user \in BOOLEAN
      /\ item.user => v \in ModulePages
  BY <1>0, <1>1, <1>2, <1>5 DEF ItemHolds, Item
<1>8. v \in HeapPages \cup ModulePages /\ v \in DataFrames \ FixedPages
  BY <1>7, Areas DEF ModulePages
<1>9. v \in SharedPages \/ Settled(v)'
  <2>1. ASSUME v \notin SharedPages
        PROVE  /\ v \in HeapPages => v < heap_brk
               /\ v \in ModulePages => module_loaded
    BY <1>7, <2>1, Areas DEF SharedPages, ModulePages
  <2>. QED  BY <1>1, <1>5, <2>1 DEF Settled
<1>10. FromData(v, frame, free)
  BY <1>1, <1>3, <1>8 DEF FromData, free
<1>11. /\ v \in SomePages /\ faulted' \subseteq FaultPages \cap DataFrames
       /\ faulted \ {v} \subseteq faulted'
  BY <1>1, <1>8 DEF SomePages, PInv, TypeOK
<1> HIDE DEF item
<1>. QED  BY <1>1, <1>5, <1>6, <1>7, <1>8, <1>9, <1>10, <1>11, MapKeepsInv

LEMMA MapCodePageKeeps ==
  ASSUME PInv, MapCodePage
  PROVE  PInv' /\ StepHolds
<1> DEFINE item == Head(todo)
           frame == alloc_page(code_free, code_base)
<1>0. PICK v : v = item.page
  OBVIOUS
<1>1. /\ todo # <<>> /\ item.pool = "code" /\ frame # code_base /\ todo' = Tail(todo)
      /\ mmap(v, Entry(frame, item.rw, item.user), data_free)
      /\ code_free' = code_free \ {frame}
      /\ UNCHANGED <<faulted, paging_enabled, heap_brk, module_loaded, panicked>>
  BY <1>0 DEF MapCodePage
<1>2. item \in Item
  BY <1>1 DEF PInv, TodoHolds
<1>3. frame \in code_free /\ frame \in Page
  <2>1. code_free \subseteq CodeFrames /\ code_free \subseteq Page /\ code_free \subseteq Nat
    BY Areas DEF PInv, TypeOK
  <2>2. code_free # {}
    BY <1>1 DEF alloc_page
  <2>3. frame \in code_free
    BY <2>1, <2>2, LeastIn DEF alloc_page
  <2>. QED  BY <2>1, <2>3
<1> HIDE DEF frame
<1>4. page_table_ptrs \subseteq page_table_ptrs'
  <2>1. v \in Page /\ item.rw \in BOOLEAN /\ item.user \in BOOLEAN
    BY <1>0, <1>2 DEF Item
  <2>2. Entry(frame, item.rw, item.user) \in EntryType
    BY <1>3, <2>1, EntryTypes
  <2>3. TablesTyped /\ data_free \subseteq DataFrames
    BY DEF PInv, TypeOK, TablesTyped
  <2>. QED  BY <1>1, <1>3, <2>1, <2>2, <2>3, MmapKeeps
<1>5. /\ TodoHolds' /\ Booted /\ ItemHolds(item) /\ ~Settled(v)
      /\ v \in SharedPages \/ \A n \in 1 .. Len(todo') : todo'[n].page # v
      /\ \A w : Settled(w) => Settled(w)'
  BY <1>0, <1>1, <1>4, NextItem DEF PInv
<1>6. TableAtNull \/ (v \in Mapped => v \in faulted \cup SharedPages)
  BY <1>5 DEF PInv, PagesHold, PageHolds
<1>7. /\ v \in ModuleCode /\ module_loaded
      /\ item.rw \in BOOLEAN /\ item.user \in BOOLEAN
  BY <1>0, <1>1, <1>2, <1>5 DEF ItemHolds, Item
<1>8. /\ v \in ModulePages /\ v \in SomePages
      /\ v \notin HeapPages /\ v \notin SharedPages
  BY <1>7, Areas DEF ModulePages, SomePages
<1>9. Settled(v)'
  BY <1>1, <1>5, <1>7, <1>8 DEF Settled
<1>10. FromCode(v, frame, data_free)
  BY <1>1, <1>3, <1>7 DEF FromCode
<1>11. faulted' \subseteq FaultPages \cap DataFrames /\ faulted' = faulted
  BY <1>1 DEF PInv, TypeOK
<1> HIDE DEF item
<1>. QED  BY <1>1, <1>5, <1>6, <1>7, <1>8, <1>9, <1>10, <1>11, MapKeepsInv

LEMMA PageFaultKeeps ==
  ASSUME PInv, NEW v \in FaultPages, page_fault_handler(v)
  PROVE  PInv' /\ StepHolds
<1> DEFINE frame == alloc_page(data_free, NULL)
           free == data_free \ {frame}
<1>1. /\ paging_enabled /\ ~Translation(v).present
      /\ UNCHANGED <<code_free, paging_enabled, todo, heap_brk, module_loaded>>
      /\ IF v >= code_base \/ frame = NULL
         THEN panicked' = TRUE
              /\ UNCHANGED <<faulted, lost, data_free, page_tables, page_table_ptrs, mem>>
         ELSE /\ mmap(v, Entry(frame, TRUE, FALSE), free) /\ faulted' = faulted \cup {v}
              /\ UNCHANGED panicked
  BY DEF page_fault_handler, Between, Translation
<1>2. Booted
  BY <1>1 DEF PInv, TodoHolds
<1>3. CASE v >= code_base \/ frame = NULL
  <2>1. UNCHANGED <<faulted, lost, code_free, paging_enabled, todo, heap_brk, module_loaded,
                    data_free, page_tables, page_table_ptrs, mem>> /\ panicked' \in BOOLEAN
    BY <1>1, <1>3
  <2>. QED  BY <2>1, UnchangedKeeps
<1>4. CASE ~(v >= code_base) /\ frame # NULL
  <2>1. frame \in data_free
    <3>1. data_free \subseteq DataFrames /\ data_free \subseteq Page
      BY Areas DEF PInv, TypeOK
    <3>2. data_free # {}
      BY <1>4 DEF alloc_page
    <3>. QED  BY <3>1, <3>2, AllocPage
  <2>2. v \in DataFrames \ FixedPages /\ v \in Page /\ v \in SomePages
    <3>1. v \notin CodeFrames
      BY <1>4, Types DEF CodeFrames
    <3>. QED  BY <3>1, Areas DEF SomePages
  <2>3. v \notin Mapped
    BY <1>1 DEF Mapped
  <2>4. FromData(v, frame, free)
    BY <1>1, <2>1, <2>2 DEF FromData
  <2> HIDE DEF frame, free
  <2>5. page_table_ptrs \subseteq page_table_ptrs'
    <3>1. frame \in Page /\ free \subseteq DataFrames
      BY <2>1, Areas DEF PInv, TypeOK, free
    <3>2. Entry(frame, TRUE, FALSE) \in EntryType /\ TablesTyped
      BY <3>1, EntryTypes DEF PInv, TypeOK, TablesTyped
    <3>. QED  BY <1>1, <1>4, <2>2, <3>1, <3>2, MmapKeeps
  <2>6. TodoHolds'
    <3>1. Booted'
      BY <1>2, <2>5 DEF Booted
    <3>. QED  BY <1>1, <1>2, <3>1 DEF PInv, TodoHolds, ItemHolds
  <2>7. \A w : Settled(w) => Settled(w)'
    BY <1>1 DEF Settled
  <2>8. /\ faulted' = faulted \cup {v} /\ faulted' \subseteq FaultPages \cap DataFrames
    BY <1>1, <1>4, <2>2 DEF PInv, TypeOK
  <2>. QED  BY <1>1, <1>2, <1>4, <2>2, <2>3, <2>4, <2>6, <2>7, <2>8, MapKeepsInv
<1>. QED  BY <1>3, <1>4

LEMMA MapAssertFailsKeeps ==
  ASSUME PInv, MapAssertFails
  PROVE  PInv' /\ StepHolds
<1>1. UNCHANGED <<faulted, lost, data_free, code_free, page_tables, page_table_ptrs, mem,
                  paging_enabled, todo, heap_brk, module_loaded>> /\ panicked' \in BOOLEAN
  BY DEF MapAssertFails
<1>. QED  BY <1>1, UnchangedKeeps

(* The start of a loop: what is settled stays so.                          *)
LEMMA NewTodoKeeps ==
  ASSUME PInv, Booted, TypeOK', TodoHolds',
         UNCHANGED <<faulted, lost, data_free, code_free, page_tables, page_table_ptrs, mem>>,
         \A v \in Mapped : Settled(v) => Settled(v)'
  PROVE  PInv' /\ StepHolds
<1>1. /\ TablesHold' <=> TablesHold
      /\ Booted' /\ TablesInData'
      /\ TableAtNull' <=> TableAtNull
      /\ FramesHold' <=> FramesHold
  BY DEF TablesHold, Booted, TableAtNull, FramesHold, Tables, PInv, TablesInData
<1>2. Mapped' = Mapped /\ \A v : Translation(v)' = Translation(v)
  BY DEF Mapped, Translation, Walk
<1>3. CountsHold' <=> CountsHold
  BY <1>2 DEF CountsHold, Spare, SpareCode
<1>4. ASSUME ~TableAtNull PROVE PagesHold'
  <2>1. PagesHold
    BY <1>4 DEF PInv
  <2>2. ASSUME NEW v \in Mapped PROVE PageHolds(v)'
    <3>1. PageHolds(v) /\ (Settled(v) => Settled(v)')
      BY <1>4, <2>1 DEF PagesHold
    <3>. QED  BY <1>2, <3>1 DEF PageHolds, Tables
  <2>. QED  BY <1>2, <2>1, <2>2 DEF PagesHold
<1>5. StepHolds
  BY <1>2 DEF StepHolds, Kept
<1>. QED  BY <1>1, <1>3, <1>4, <1>5 DEF PInv

LEMMA SwitchKeeps ==
  ASSUME PInv, switch_page_directory
  PROVE  PInv' /\ StepHolds
<1>1. /\ Booted /\ todo = <<>> /\ paging_enabled' = TRUE /\ heap_brk' = heap_start
      /\ ~paging_enabled
      /\ UNCHANGED <<faulted, lost, data_free, code_free, page_tables, page_table_ptrs, mem,
                     todo, module_loaded, panicked>>
  BY DEF switch_page_directory, Booted
<1>2. /\ heap_start \in Nat /\ heap_size \in Nat \ {0}
      /\ heap_start + heap_size - 1 \in Page
  BY HeapPlace, Types, LayoutAssumption DEF Page
<1>3. heap_start \in Page /\ heap_start \in heap_start .. heap_start + heap_size - 1
  BY <1>2, Types DEF Page
<1>4. TypeOK'
  BY <1>1, <1>3 DEF PInv, TypeOK
<1>5. \A n \in 1 .. Len(todo') : FALSE
  BY <1>1
<1>6. TodoHolds'
  <2>1. todo' \in Seq(Item) /\ Booted'
    BY <1>1 DEF PInv, TodoHolds, Booted
  <2>. QED  BY <1>1, <1>3, <1>5, <2>1 DEF TodoHolds
<1>7. \A v \in Mapped : Settled(v) => Settled(v)'
  <2>1. \A v \in HeapPages : ~(v < heap_brk)
    BY <1>1, <1>2 DEF HeapPages, PInv, TodoHolds
  <2>. QED  BY <1>1, <2>1 DEF Settled
<1>. QED  BY <1>1, <1>4, <1>5, <1>6, <1>7, NewTodoKeeps

LEMMA SbrkKeeps ==
  ASSUME PInv, NEW increment \in Nat, sbrk(increment)
  PROVE  PInv' /\ StepHolds
<1> DEFINE page(v) == Fresh(v, "data", TRUE, FALSE)
           pages == heap_brk .. heap_brk + increment - 1
           end == heap_start + heap_size
<1>1. /\ paging_enabled /\ todo = <<>>
      /\ UNCHANGED <<faulted, lost, data_free, code_free, page_tables, page_table_ptrs, mem,
                     paging_enabled, module_loaded>>
      /\ \/ /\ heap_brk + increment < end /\ heap_brk' = heap_brk + increment
            /\ todo' = Run(heap_brk, increment, page) /\ UNCHANGED panicked
         \/ panicked' = TRUE /\ UNCHANGED <<todo, heap_brk>>
  BY DEF sbrk, Idle
<1>2. CASE panicked' = TRUE /\ UNCHANGED <<todo, heap_brk>>
  <2>1. panicked' \in BOOLEAN
    BY <1>2
  <2>. QED  BY <1>1, <1>2, <2>1, UnchangedKeeps
<1>3. CASE /\ heap_brk + increment < end /\ heap_brk' = heap_brk + increment
           /\ todo' = Run(heap_brk, increment, page) /\ UNCHANGED panicked
  <2>1. /\ heap_brk \in heap_start .. end - 1 /\ Booted
        /\ heap_start \in Nat /\ heap_size \in Nat \ {0} /\ heap_brk \in Nat
    BY <1>1, HeapPlace DEF PInv, TodoHolds
  <2>2. end - 1 \in Page
    BY <2>1, HeapPlace, Types, LayoutAssumption DEF Page
  <2>3. heap_brk' \in heap_start .. end - 1 /\ heap_brk' \in Page
    BY <1>3, <2>1, <2>2, Types DEF Page
  <2>4. pages \subseteq HeapPages /\ \A v \in pages : heap_brk <= v /\ v < heap_brk'
    BY <1>3, <2>1 DEF HeapPages
  <2> HIDE DEF end
  <2>5. pages \subseteq Page \ Window
    BY <2>4, Areas DEF SomePages
  <2>6. todo' = [i \in 1 .. increment |-> Fresh(heap_brk + i - 1, "data", TRUE, FALSE)]
    BY <1>3 DEF Run
  <2>7. Listed(todo', FreshItems(pages, "data", FALSE))
    <3>1. PICK first \in Nat : first = heap_brk
      BY <2>1
    <3>2. Listed([i \in 1 .. increment |-> Fresh(first + i - 1, "data", TRUE, FALSE)],
                 FreshItems(first .. first + increment - 1, "data", FALSE))
      BY <2>5, <3>1, FreshRun
    <3>. QED  BY <2>6, <3>1, <3>2
  <2> HIDE DEF pages, page
  <2>8. \A n \in 1 .. Len(todo') :
          todo'[n] \in Item /\ todo'[n].page \in pages /\ todo'[n].pool = "data" /\ ~todo'[n].user
    BY <2>7 DEF Listed, FreshItems
  <2>9. TodoHolds'
    <3>1. todo' \in Seq(Item)
      BY <2>7 DEF Listed, FreshItems
    <3>2. ASSUME NEW n \in 1 .. Len(todo') PROVE ItemHolds(todo[n])'
      <4>1. todo'[n].page \in HeapPages /\ todo'[n].page < heap_brk'
        BY <2>4, <2>8
      <4>. QED  BY <1>1, <2>8, <4>1 DEF ItemHolds
    <3>3. Booted' /\ paging_enabled'
      BY <1>1, <2>1 DEF Booted
    <3>4. \A m, n \in 1 .. Len(todo') :
            todo'[m].page = todo'[n].page => m = n \/ todo'[m].page \in SharedPages
      BY <2>7 DEF Listed
    <3>5. heap_brk' \in heap_start .. heap_start + heap_size - 1
      BY <2>1, <2>3 DEF end
    <3>. QED  BY <3>1, <3>2, <3>3, <3>4, <3>5 DEF TodoHolds
  <2>10. ASSUME NEW v \in Mapped, Settled(v) PROVE Settled(v)'
    <3>1. v \in HeapPages => v < heap_brk /\ v < heap_brk'
      <4>1. HeapPages \subseteq Nat
        BY Areas
      <4>. QED  BY <1>3, <2>1, <2>10, <4>1 DEF Settled
    <3>2. ASSUME NEW n \in 1 .. Len(todo') PROVE todo'[n].page # v
      <4>1. todo'[n].page \in HeapPages /\ heap_brk <= todo'[n].page
        BY <2>4, <2>8
      <4>2. v \in HeapPages => v \in Nat
        BY Areas
      <4>. QED  BY <2>1, <3>1, <4>1, <4>2
    <3>. QED  BY <1>1, <2>10, <3>1, <3>2 DEF Settled
  <2>11. TypeOK'
    BY <1>1, <1>3, <2>3 DEF PInv, TypeOK
  <2>. QED  BY <1>1, <2>1, <2>9, <2>10, <2>11, NewTodoKeeps
<1>. QED  BY <1>1, <1>2, <1>3

LEMMA LoadKeeps ==
  ASSUME PInv, load_module_code_and_data
  PROVE  PInv' /\ StepHolds
<1>1. /\ paging_enabled /\ Booted /\ ~module_loaded /\ module_loaded' = TRUE
      /\ module_code_pages > 0 /\ todo' = module_code \o module_data
      /\ UNCHANGED <<faulted, lost, data_free, code_free, page_tables, page_table_ptrs, mem,
                     paging_enabled, heap_brk, panicked>>
  BY DEF load_module_code_and_data, Idle, PInv, TodoHolds
<1>2. TypeOK'
  BY <1>1 DEF PInv, TypeOK
<1>3. Listed(todo', FreshItems(ModuleCode, "code", TRUE)
                      \cup FreshItems(ModuleData \cup ModuleStack, "data", TRUE))
  BY <1>1, ModulePagesListed
<1>4. \A n \in 1 .. Len(todo') :
        /\ todo'[n].user /\ todo'[n].page \in ModulePages
        /\ \/ todo'[n].pool = "code" /\ todo'[n].page \in ModuleCode
           \/ todo'[n].pool = "data" /\ todo'[n].page \in ModuleData \cup ModuleStack
  BY <1>3 DEF Listed, FreshItems, ModulePages
<1>5. TodoHolds'
  <2>1. todo' \in Seq(Item)
    BY <1>3 DEF Listed, FreshItems
  <2>2. ASSUME NEW n \in 1 .. Len(todo') PROVE ItemHolds(todo[n])'
    BY <1>1, <1>4 DEF ItemHolds
  <2>3. \A m, n \in 1 .. Len(todo') :
          todo'[m].page = todo'[n].page => m = n \/ todo'[m].page \in SharedPages
    BY <1>3 DEF Listed
  <2>4. Booted' /\ paging_enabled' /\ heap_brk' \in heap_start .. heap_start + heap_size - 1
    BY <1>1 DEF PInv, TodoHolds, Booted
  <2>. QED  BY <2>1, <2>2, <2>3, <2>4 DEF TodoHolds
<1>6. ASSUME NEW v \in Mapped, Settled(v) PROVE Settled(v)'
  <2>1. v \notin ModulePages
    BY <1>1, <1>6 DEF Settled
  <2>. QED  BY <1>1, <1>4, <1>6, <2>1 DEF Settled
<1>. QED  BY <1>1, <1>2, <1>5, <1>6, NewTodoKeeps

LEMMA MunmapKeeps ==
  ASSUME PInv, NEW v \in faulted, munmap(v)
  PROVE  PInv' /\ StepHolds
<1> DEFINE t == v \div ENTRIES
<1>1. /\ paging_enabled /\ todo = <<>> /\ t \in page_table_ptrs /\ Booted
      /\ mem' = [mem EXCEPT ![TableFrame(page_tables, mem, t)][v % ENTRIES] = Absent]
      /\ lost' = lost \cup Behind(v) /\ faulted' = faulted \ {v}
      /\ UNCHANGED <<data_free, code_free, page_tables, page_table_ptrs,
                     paging_enabled, todo, heap_brk, module_loaded, panicked>>
  BY DEF munmap, Idle, Booted
<1>2. /\ TypeOK /\ TablesTyped /\ TodoHolds /\ TablesInData /\ faulted \subseteq DataFrames
  BY DEF PInv, TypeOK, TablesTyped
<1>3. /\ v \in Page \ Window /\ v \in DataFrames \ FixedPages
      /\ t \in Index /\ v % ENTRIES \in Index
  <2>1. v \in FaultPages /\ v \in DataFrames
    BY <1>2 DEF TypeOK
  <2>. QED  BY <2>1, Areas, PageParts DEF SomePages
<1>4. TablesTyped'
  BY <1>1, <1>2, CellUpdate, EntryTypes DEF TablesTyped
<1>5. Behind(v) \subseteq Page
  BY <1>2, <1>3, BehindTyped
<1>6. TypeOK' /\ TablesInData' /\ faulted' \subseteq DataFrames
  BY <1>1, <1>2, <1>4, <1>5 DEF TypeOK, TablesTyped, TablesInData
<1>7. TodoHolds' /\ Booted'
  BY <1>1, <1>2 DEF TodoHolds, ItemHolds, Booted
<1>8. TableAtNull' <=> TableAtNull
  BY <1>1 DEF TableAtNull, Tables, Booted
<1>9. ASSUME ~TableAtNull
      PROVE  /\ TablesHold' /\ Tables' = Tables /\ PagesHold /\ FramesHold /\ CountsHold
             /\ Mapped' = Mapped \ {v}
             /\ \A w \in Mapped' : Translation(w)' = Translation(w)
             /\ Effect(v, Absent)
             /\ Behind(v) = IF v \in Mapped THEN {Translation(v).frame} ELSE {}
  <2>1. TablesHold /\ PagesHold /\ FramesHold /\ CountsHold
    BY <1>1, <1>9 DEF PInv
  <2>2. TableFrame(page_tables, mem, t) = page_tables[t].frame
    BY <1>1, <1>3, <2>1, WindowTables DEF WindowTranslates
  <2>3. MmapInTable(v, Absent, data_free)
    BY <1>1, <2>2 DEF MmapInTable
  <2>4. TablesHold' /\ Tables' = Tables /\ Effect(v, Absent)
    BY <1>2, <1>3, <1>4, <2>1, <2>3, EffectInTable, EntryTypes
  <2>5. /\ Translation(v)' = Absent
        /\ \A w \in Page \ Window : w # v => Translation(w)' = Translation(w)
    BY <1>3, <2>4 DEF Effect
  <2>6. /\ \A w \in Page \ Window : w \in Mapped' <=> Translation(w)'.present
        /\ \A w \in Page \ Window : w \in Mapped <=> Translation(w).present
        /\ Mapped' \subseteq Page \ Window /\ Mapped \subseteq Page \ Window
    BY DEF Mapped
  <2>7. Mapped' = Mapped \ {v} /\ \A w \in Mapped' : Translation(w)' = Translation(w)
    BY <1>3, <2>5, <2>6, EntryTypes
  <2>8. Behind(v) = IF v \in Mapped THEN {Translation(v).frame} ELSE {}
    BY <1>2, <1>3, <2>1, BehindMapped
  <2>. QED  BY <2>1, <2>4, <2>7, <2>8
<1> DEFINE gone == Behind(v)
<1>10. lost' = lost \cup gone
  BY <1>1
<1> HIDE DEF gone, t
<1>11. ASSUME ~TableAtNull'
       PROVE  TablesHold' /\ PagesHold' /\ FramesHold'
  <2>1. /\ TablesHold' /\ Tables' = Tables /\ PagesHold /\ FramesHold /\ Mapped' = Mapped \ {v}
        /\ \A w \in Mapped' : Translation(w)' = Translation(w)
        /\ gone = IF v \in Mapped THEN {Translation(v).frame} ELSE {}
    BY <1>8, <1>9, <1>11 DEF gone
  <2>2. \A w \in Mapped' : w # v /\ w \in Mapped /\ PageHolds(w) /\ Translation(w).frame \notin gone
    BY <2>1 DEF PagesHold
  <2>3. ASSUME NEW w \in Mapped' PROVE PageHolds(w)'
    <3>1. /\ w # v /\ PageHolds(w) /\ Translation(w)' = Translation(w)
          /\ Translation(w).frame \notin gone
      BY <2>1, <2>2
    <3>2. Translation(w).frame \notin Tables' \cup data_free' \cup code_free' \cup lost'
      BY <1>1, <1>10, <2>1, <3>1 DEF PageHolds
    <3>3. w \in faulted => w \in faulted'
      BY <1>1, <3>1
    <3>4. Settled(w) => Settled(w)'
      BY <1>1 DEF Settled
    <3>. QED  BY <3>1, <3>2, <3>3, <3>4 DEF PageHolds
  <2>4. ASSUME NEW w \in Mapped', NEW x \in Mapped', Translation(w)'.frame = Translation(x)'.frame
        PROVE  w = x
    BY <2>1, <2>2, <2>4 DEF PagesHold
  <2>5. PagesHold'
    BY <2>3, <2>4 DEF PagesHold
  <2>6. v \in Mapped => Translation(v).frame \notin
                          FixedPages \cup Tables \cup data_free \cup code_free \cup lost
    BY <1>3, <2>1 DEF PagesHold, PageHolds
  <2>7. gone \cap (FixedPages \cup Tables \cup data_free \cup code_free) = {}
    BY <2>1, <2>6
  <2>8. FramesHold'
    BY <1>1, <1>10, <2>1, <2>7 DEF FramesHold
  <2>. QED  BY <2>1, <2>5, <2>8
<1>12. lost' = {} => ~TableAtNull'
  BY <1>1, <1>8, <1>10 DEF PInv
<1>13. ASSUME ~TableAtNull' PROVE CountsHold'
  <2>1. /\ CountsHold /\ PagesHold /\ Mapped' = Mapped \ {v}
        /\ gone = IF v \in Mapped THEN {Translation(v).frame} ELSE {}
    BY <1>8, <1>9, <1>13 DEF gone
  <2>2. CASE v \notin Mapped
    <3>1. Mapped' = Mapped /\ lost' = lost
      BY <1>10, <2>1, <2>2
    <3>. QED  BY <1>1, <2>1, <3>1 DEF CountsHold, Spare, SpareCode
  <2>3. CASE v \in Mapped
    <3>1. v \notin Spare /\ Spare' = Spare \cup {v}
      BY <1>1, <1>3, <2>1, <2>3 DEF Spare
    <3>2. SpareCode' = SpareCode
      <4>1. v \notin ModuleCode
        BY <1>3, Areas
      <4>. QED  BY <2>1, <4>1 DEF SpareCode
    <3>3. Translation(v).frame \notin lost /\ lost' = lost \cup {Translation(v).frame}
      BY <1>10, <2>1, <2>3 DEF PagesHold, PageHolds
    <3>4. /\ IsFiniteSet(Spare) /\ IsFiniteSet(lost) /\ IsFiniteSet(data_free)
          /\ Cardinality(Spare) \in Nat /\ Cardinality(lost) \in Nat /\ Cardinality(data_free) \in Nat
      BY <1>2, Finite, SpareSubsets DEF TypeOK
    <3>5. Cardinality(Spare') = Cardinality(Spare) + 1 /\ Cardinality(lost') = Cardinality(lost) + 1
      BY <3>1, <3>3, <3>4, FS_AddElement
    <3>. QED  BY <1>1, <2>1, <3>2, <3>4, <3>5 DEF CountsHold
  <2>. QED  BY <2>2, <2>3
<1>14. ASSUME ~TableAtNull' PROVE Moves(v)
  BY <1>8, <1>9, <1>10, <1>14 DEF Moves, gone
<1>15. StepHolds
  BY <1>1, <1>3, <1>8, <1>9, <1>14 DEF StepHolds
<1>. QED  BY <1>6, <1>7, <1>11, <1>12, <1>13, <1>15 DEF PInv

(* The first tables: nothing is mapped, and one frame and one page of the  *)
(* window are taken.                                                       *)
LEMMA BootFrames ==
  ASSUME ~Booted, PInv
  PROVE  /\ data_free \ {kernel_page_directory, kernel_page_directory + 1} = DataFrames \ FixedPages
         /\ code_free = CodeFrames \ FixedPages
         /\ DataFrames \ FixedPages # {}
         /\ Cardinality(ModuleCode) <= Cardinality(code_free)
<1>1. /\ data_free = DataFrames \ ((data_base .. data_base + data_top - 1) \cup {stack_page})
      /\ code_free = CodeFrames \ (code_base .. code_base + kernel_code - 1)
  BY DEF PInv
<1> DEFINE B == data_base .. top_data - 1
           C == code_base .. code_base + kernel_code - 1
           M == module_base .. module_base + module_len - 1
<1>2. /\ top_data = data_base + data_top + 2 /\ kernel_page_directory = data_base + data_top
      /\ stack_page = data_base + data_len - 1 /\ data_top + 3 < data_len
  BY WindowPlace, HeapPlace, LayoutAssumption, Types DEF DIR_PAGES
<1>3. FixedPages = B \cup {stack_page} \cup C \cup {video_page} \cup M
  BY DEF FixedPages
<1>4. /\ B \subseteq DataFrames /\ C \subseteq CodeFrames /\ stack_page \in DataFrames
      /\ (C \cup M) \cap DataFrames = {} /\ M \cap CodeFrames = {} /\ DataFrames \cap CodeFrames = {}
      /\ video_page \notin DataFrames \cup CodeFrames
  <2>1. B \subseteq DataFrames /\ stack_page \in DataFrames
    BY <1>2, Types DEF DataFrames
  <2>2. C \subseteq CodeFrames /\ M \cap (DataFrames \cup CodeFrames) = {}
    <3>1. /\ code_base = data_base + data_len /\ module_base + module_len <= data_base
          /\ kernel_code <= code_len
      BY LayoutAssumption
    <3>. QED  BY <3>1, Types DEF DataFrames, CodeFrames
  <2>. QED  BY <2>1, <2>2, Areas, LayoutAssumption
<1>5. B = (data_base .. data_base + data_top - 1)
            \cup {kernel_page_directory, kernel_page_directory + 1}
  BY <1>2, Types
<1>6. data_base + data_top + 2 \in DataFrames \ (B \cup {stack_page})
  BY <1>2, Types DEF DataFrames
<1>9. Cardinality(ModuleCode) <= Cardinality(code_free)
  <2>1. /\ kernel_code <= code_len /\ kernel_code < MODULE_CODE
        /\ module_code_pages > 0 => MODULE_CODE + module_code_pages <= code_len + 1
    BY LayoutAssumption
  <2>2. code_free = code_base + kernel_code .. code_base + code_len - 1
    BY <1>1, <2>1, Types DEF CodeFrames
  <2>3. /\ code_base + kernel_code \in Int /\ code_base + code_len - 1 \in Int
        /\ code_base + MODULE_CODE \in Int
        /\ code_base + MODULE_CODE + module_code_pages - 1 \in Int
    BY Types
  <2>4. Cardinality(code_free) = code_len - kernel_code
    BY <2>1, <2>2, <2>3, FS_Interval, Types
  <2>5. Cardinality(ModuleCode) = module_code_pages
    BY <2>3, FS_Interval, Types DEF ModuleCode
  <2>. QED  BY <2>1, <2>4, <2>5, Types
<1> HIDE DEF B, C, M
<1>7. FixedPages \cap DataFrames = B \cup {stack_page} /\ FixedPages \cap CodeFrames = C
  BY <1>3, <1>4
<1>8. stack_page \notin {kernel_page_directory, kernel_page_directory + 1}
  BY <1>2, Types
<1>. QED  BY <1>1, <1>5, <1>6, <1>7, <1>8, <1>9 DEF C

LEMMA BootKeeps ==
  ASSUME PInv, init_paging_tables
  PROVE  PInv' /\ StepHolds
<1> DEFINE free == DataFrames \ FixedPages
           ptt == Least(free)
           entry == Entry(ptt, TRUE, FALSE)
<1>1. /\ ~paging_enabled /\ ~Booted
  BY DEF init_paging_tables, Booted
<1>2. /\ free = data_free \ {kernel_page_directory, kernel_page_directory + 1} /\ free # {}
      /\ code_free = CodeFrames \ FixedPages
  BY <1>1, BootFrames
<1>3. /\ data_free' = free \ {ptt}
      /\ page_tables' = [ZeroTable EXCEPT ![table_index] = entry]
      /\ page_table_ptrs' = {table_index}
      /\ mem' = [mem EXCEPT ![ptt] = [ZeroTable EXCEPT ![table_index] = entry]]
      /\ todo' = kernel_pages
      /\ UNCHANGED <<faulted, lost, code_free, paging_enabled, heap_brk, module_loaded, panicked>>
  <2>1. Least(data_free \ {kernel_page_directory, kernel_page_directory + 1}) = ptt
    BY <1>2
  <2>2. data_free \ {kernel_page_directory, kernel_page_directory + 1, ptt} = free \ {ptt}
    BY <1>2
  <2>. QED  BY <2>1, <2>2 DEF init_paging_tables
<1>4. ptt \in DataFrames \ FixedPages /\ ptt \in Page
  <2>1. free \subseteq Nat /\ free \subseteq Page
    BY Areas
  <2>. QED  BY <1>2, <2>1, LeastIn
<1> HIDE DEF ptt, free
<1>5. entry \in EntryType /\ entry.frame = ptt /\ entry.present
  BY <1>4, EntryTypes DEF Entry
<1>6. /\ ZeroTable \in [Index -> EntryType] /\ table_index \in Index
      /\ \A i \in Index : ZeroTable[i] = Absent
  BY EntryTypes, WindowPages
<1>7. /\ page_tables' \in [Index -> EntryType] /\ page_tables'[table_index] = entry
      /\ \A t \in Index \ {table_index} : page_tables'[t] = Absent
  BY <1>3, <1>5, <1>6
<1>8. /\ mem' \in [DataFrames -> [Index -> EntryType]] /\ mem'[ptt][table_index] = entry
      /\ \A t \in Index \ {table_index} : mem'[ptt][t] = Absent
  <2>1. mem \in [DataFrames -> [Index -> EntryType]]
    BY DEF PInv, TypeOK
  <2>2. [ZeroTable EXCEPT ![table_index] = entry] \in [Index -> EntryType]
    BY <1>5, <1>6
  <2>3. mem'[ptt] = [ZeroTable EXCEPT ![table_index] = entry]
    BY <1>3, <1>4, <2>1
  <2>4. mem' \in [DataFrames -> [Index -> EntryType]]
    BY <1>3, <2>1, <2>2
  <2>. QED  BY <1>6, <2>3, <2>4
<1>9. TypeOK' /\ TablesTyped'
  <2>1. data_free' \subseteq DataFrames
    BY <1>3 DEF free
  <2>2. /\ code_free' \subseteq CodeFrames /\ paging_enabled' \in BOOLEAN /\ module_loaded' \in BOOLEAN
        /\ panicked' \in BOOLEAN /\ heap_brk' \in Page /\ lost' \subseteq Page
        /\ faulted' \subseteq FaultPages
    BY <1>3 DEF PInv, TypeOK
  <2>3. page_table_ptrs' \subseteq Index
    BY <1>3, <1>6
  <2>. QED  BY <1>7, <1>8, <2>1, <2>2, <2>3 DEF TypeOK, TablesTyped
<1>10. TablesInData' /\ Booted' /\ Tables' = {ptt}
  <2>1. page_tables'[table_index].frame = ptt
    BY <1>5, <1>7
  <2>2. \A t \in Index \ {table_index} : ~page_tables'[t].present
    BY <1>7, EntryTypes
  <2>. QED  BY <1>3, <1>4, <2>1, <2>2 DEF TablesInData, Booted, Tables
<1>11. TablesHold'
  <2>1. page_tables'[table_index].frame = ptt
    BY <1>5, <1>7
  <2>2. ~Absent.present
    BY EntryTypes
  <2> HIDE DEF entry
  <2>3. entry = Entry(ptt, TRUE, FALSE)
    BY DEF entry
  <2>. QED  BY <1>3, <1>4, <1>7, <1>8, <2>1, <2>2, <2>3 DEF TablesHold
<1>12. Mapped' = {}
  <2>1. ASSUME NEW w \in Page \ Window PROVE ~Translation(w)'.present
    <3>1. w \div ENTRIES \notin page_table_ptrs'
      BY <1>3, WindowPages
    <3>. QED  BY <1>9, <1>11, <3>1, TranslationAfter, EntryTypes
  <2>. QED  BY <2>1 DEF Mapped
<1>13. PagesHold'
  BY <1>12 DEF PagesHold
<1>14. lost' = {}
  BY <1>1, <1>3 DEF PInv
<1>15. FramesHold'
  BY <1>2, <1>3, <1>4, <1>10, <1>14 DEF FramesHold, free
<1>16. ~TableAtNull'
  BY <1>4, <1>10, Areas DEF TableAtNull
<1>17. CountsHold'
  <2>1. /\ TablePage(table_index) \in Window /\ TablePage(table_index) % ENTRIES = table_index
        /\ \A x \in Window : x % ENTRIES = table_index => x = TablePage(table_index)
    BY WindowPages DEF Window
  <2>2. TablePage(table_index) \in free
    <3>1. TablePage(table_index) \in DataFrames
      BY <2>1, Areas
    <3>2. FixedPages \cap Window = {}
      BY Areas DEF SomePages
    <3>. QED  BY <2>1, <3>1, <3>2 DEF free
  <2>3. Spare' = free \ {TablePage(table_index)}
    <3>1. Spare' = {x \in free : x \in Window => x % ENTRIES # table_index}
      BY <1>3, <1>12 DEF Spare, free
    <3>. QED  BY <2>1, <3>1
  <2>4. IsFiniteSet(free)
    BY Finite DEF free
  <2>5. ptt \in free
    BY <1>4 DEF free
  <2>6. /\ Cardinality(free) = Cardinality(Spare') + 1 /\ Cardinality(Spare') \in Nat
        /\ Cardinality(free) = Cardinality(data_free') + 1 /\ Cardinality(data_free') \in Nat
    BY <1>3, <2>2, <2>3, <2>4, <2>5, TakeOne
  <2>7. Cardinality(lost') = 0
    BY <1>14, FS_EmptySet
  <2>8. SpareCode' = ModuleCode /\ code_free' = code_free
    BY <1>3, <1>12 DEF SpareCode
  <2>9. Cardinality(ModuleCode) <= Cardinality(code_free)
    BY <1>1, BootFrames
  <2>. QED  BY <2>6, <2>7, <2>8, <2>9 DEF CountsHold
<1>18. TodoHolds'
  <2>1. \A n \in 1 .. Len(todo') : /\ todo'[n].page \in FixedPages
                                   /\ todo'[n].pool = "none" /\ ~todo'[n].user
    BY <1>3, KernelPages DEF Listed, FixedItems
  <2>2. todo' \in Seq(Item)
    BY <1>3, KernelPages DEF Listed, FixedItems
  <2>3. ASSUME NEW n \in 1 .. Len(todo') PROVE ItemHolds(todo[n])'
    BY <1>1, <1>3, <2>1 DEF ItemHolds
  <2>4. \A m, n \in 1 .. Len(todo') :
          todo'[m].page = todo'[n].page => m = n \/ todo'[m].page \in SharedPages
    BY <1>3, KernelPages DEF Listed
  <2>5. ~paging_enabled' /\ heap_brk' = 0
    BY <1>1, <1>3 DEF PInv, TodoHolds
  <2>. QED  BY <1>10, <2>2, <2>3, <2>4, <2>5 DEF TodoHolds
<1>19. StepHolds
  <2>1. page_table_ptrs = {}
    BY <1>1 DEF Booted
  <2>2. ASSUME NEW w \in Page \ Window PROVE Translation(w)' = Absent
    <3>1. w \div ENTRIES \notin page_table_ptrs'
      BY <1>3, WindowPages
    <3>. QED  BY <1>9, <1>11, <3>1, TranslationAfter
  <2>. QED  BY <1>1, <2>1, <2>2 DEF StepHolds
<1>20. faulted' \subseteq DataFrames
  BY <1>3 DEF PInv
<1>. QED  BY <1>9, <1>10, <1>11, <1>13, <1>15, <1>16, <1>17, <1>18, <1>19, <1>20 DEF PInv

LEMMA InitHolds == Init => PInv
<1> SUFFICES ASSUME Init PROVE PInv
  OBVIOUS
<1>1. stack_page \in Page /\ 0 \in Page
  <2>1. stack_page \in FixedPages
    BY DEF FixedPages
  <2>. QED  BY <2>1, Areas, Types DEF Page
<1>2. Entry(stack_page, TRUE, TRUE) \in EntryType
  BY <1>1, EntryTypes
<1>3. JunkTable \in [Index -> EntryType]
  BY <1>2 DEF JunkTable
<1>4. TypeOK
  BY <1>1, <1>3 DEF Init, TypeOK
<1>5. TablesInData /\ ~Booted
  <2>1. stack_page \in DataFrames
    BY HeapPlace, LayoutAssumption, Types DEF DataFrames, DIR_PAGES
  <2>. QED  BY <2>1 DEF Init, TablesInData, Booted, JunkTable, Entry
<1>6. TodoHolds
  <2>1. todo = <<>> /\ Len(todo) = 0 /\ ~paging_enabled /\ heap_brk = 0
    BY DEF Init
  <2>2. <<>> \in Seq(Item)
    BY EmptySeq
  <2>3. todo \in Seq(Item)
    BY <2>1, <2>2, Zenon
  <2>4. \A n \in 1 .. Len(todo) : FALSE
    BY <2>1
  <2>. QED  BY <2>1, <2>3, <2>4 DEF TodoHolds
<1>. QED  BY <1>4, <1>5, <1>6 DEF PInv, Init

-----------------------------------------------------------------------------
LEMMA NextHolds ==
  ASSUME PInv, [Next]_vars
  PROVE  PInv' /\ StepHolds
<1>1. CASE UNCHANGED vars
  <2>1. panicked' \in BOOLEAN
    BY <1>1 DEF PInv, TypeOK, vars
  <2>. QED  BY <1>1, <2>1, UnchangedKeeps DEF vars
<1>2. CASE init_paging_tables
  BY <1>2, BootKeeps
<1>3. CASE MapFixed
  BY <1>3, MapFixedKeeps
<1>4. CASE MapDataPage
  BY <1>4, MapDataPageKeeps
<1>5. CASE MapCodePage
  BY <1>5, MapCodePageKeeps
<1>6. CASE MapAssertFails
  BY <1>6, MapAssertFailsKeeps
<1>7. CASE switch_page_directory
  BY <1>7, SwitchKeeps
<1>8. CASE load_module_code_and_data
  BY <1>8, LoadKeeps
<1>9. CASE \E increment \in Increments : sbrk(increment)
  <2>1. Increments \subseteq Nat
    BY SizesAssumption
  <2>. QED  BY <1>9, <2>1, SbrkKeeps
<1>10. CASE \E v \in FaultPages : page_fault_handler(v)
  BY <1>10, PageFaultKeeps
<1>11. CASE \E v \in faulted : munmap(v)
  BY <1>11, MunmapKeeps
<1>. QED
  BY <1>1, <1>2, <1>3, <1>4, <1>5, <1>6, <1>7, <1>8, <1>9, <1>10, <1>11 DEF Next

LEMMA Invariant == Spec => []PInv
<1>1. PInv /\ [Next]_vars => PInv'
  BY NextHolds
<1>. QED  BY <1>1, InitHolds, PTL DEF Spec

(* The window through which the kernel edits page tables shows the tables  *)
(* that the processor walks, after any sequence of mmap and munmap.        *)
THEOREM WindowIsTrue == Spec => []WindowShowsDirectory
<1>1. PInv => WindowShowsDirectory
  BY WindowFollows DEF PInv, WindowShowsDirectory
<1>. QED  BY <1>1, Invariant, PTL

(* Free frames, page tables, the frames behind pages and those that were   *)
(* behind one are all different, and everything keeps its type.            *)
THEOREM OneUse == Spec => []FramesHaveOneUse
<1>1. ASSUME PInv, Booted, ~TableAtNull
      PROVE  Cardinality(Tables) = Cardinality(page_table_ptrs)
  <2> DEFINE f == [t \in page_table_ptrs |-> page_tables[t].frame]
  <2>1. f \in Bijection(page_table_ptrs, Tables)
    <3>1. f \in [page_table_ptrs -> Tables]
      BY DEF Tables
    <3>2. \A t, u \in page_table_ptrs : f[t] = f[u] => t = u
      BY <1>1 DEF PInv, TablesHold
    <3>3. \A x \in Tables : \E t \in page_table_ptrs : f[t] = x
      BY DEF Tables
    <3>. HIDE DEF f
    <3>4. f \in Injection(page_table_ptrs, Tables)
      BY <3>1, <3>2 DEF Injection, IsInjective
    <3>5. f \in Surjection(page_table_ptrs, Tables)
      BY <3>1, <3>3 DEF Surjection
    <3>. QED  BY <3>4, <3>5 DEF Bijection
  <2>2. IsFiniteSet(page_table_ptrs)
    <3>1. IsFiniteSet(Index)
      <4>1. 0 \in Int /\ ENTRIES - 1 \in Int
        BY Types
      <4>. QED  BY <4>1, FS_Interval DEF Index
    <3>2. page_table_ptrs \in SUBSET Index
      BY <1>1 DEF PInv, TypeOK
    <3>. QED  BY <3>1, <3>2, FS_Subset
  <2>3. ExistsBijection(page_table_ptrs, Tables)
    BY <2>1 DEF ExistsBijection
  <2>. QED  BY <2>2, <2>3, FS_Bijection
<1>2. ASSUME PInv, Booted, ~TableAtNull
      PROVE  /\ \A v, w \in Mapped : Translation(v).frame = Translation(w).frame => v = w
             /\ \A v \in Mapped :
                  Translation(v).frame \notin Tables \cup data_free \cup code_free \cup lost
             /\ Tables \cap (data_free \cup lost) = {}
             /\ lost \cap data_free = {}
  <2>1. PagesHold /\ FramesHold
    BY <1>2 DEF PInv
  <2>2. \A v \in Mapped : Translation(v).frame \notin Tables \cup data_free \cup code_free \cup lost
    BY <2>1 DEF PagesHold, PageHolds
  <2>. QED  BY <2>1, <2>2 DEF PagesHold, FramesHold
<1>3. PInv => FramesHaveOneUse
  BY <1>1, <1>2 DEF FramesHaveOneUse, PInv
<1>. QED  BY <1>3, Invariant, PTL

(* A module in ring 3 reaches only the pages that were loaded for it.      *)
THEOREM UserIsConfined == Spec => []UserReachesModuleOnly
<1>1. ASSUME PInv, Booted, ~TableAtNull, NEW v \in Page, Translation(v).user
      PROVE  v \in ModulePages
  <2>1. TablesHold /\ PagesHold /\ TablesTyped
    BY <1>1 DEF PInv, TypeOK, TablesTyped
  <2>2. CASE v \in Window
    <3>1. PICK t \in Index : v = TablePage(t)
      BY <2>2 DEF Window
    <3>2. ~Translation(v).user
      <4>1. CASE t \in page_table_ptrs
        <5>1. Translation(v) = Entry(page_tables[t].frame, TRUE, FALSE)
          BY <2>1, <3>1, <4>1, WindowTables DEF WindowTranslates
        <5>. QED  BY <5>1 DEF Entry
      <4>2. CASE t \notin page_table_ptrs
        BY <2>1, <3>1, <4>2, WindowTables, EntryTypes DEF WindowTranslates
      <4>. QED  BY <4>1, <4>2
    <3>. QED  BY <1>1, <3>2
  <2>3. CASE v \notin Window
    <3>1. v \in Mapped
      <4>1. Translation(v).present \/ Translation(v) = Absent
        BY <2>1, <2>3, PageTranslation DEF PagesTranslate
      <4>. QED  BY <1>1, <2>3, <4>1, EntryTypes DEF Mapped
    <3>. QED  BY <1>1, <2>1, <3>1 DEF PagesHold, PageHolds
  <2>. QED  BY <2>2, <2>3
<1>2. PInv => UserReachesModuleOnly
  BY <1>1 DEF UserReachesModuleOnly
<1>. QED  BY <1>2, Invariant, PTL

(* Every page of the data segment that has no frame yet has one waiting, be*)
(* it free or lost, and so has every table: no table is put at NULL, and no*)
(* page of the heap, of the module or of a fault goes without, but for what*)
(* was lost.  The module's code always finds its frames.                   *)
THEOREM MemorySuffices == Spec => []MemoryNeverRunsOut
<1>1. ASSUME PInv, Booted, ~TableAtNull, todo # <<>>, Head(todo).pool = "code"
      PROVE  code_free # {}
  <2>1. CountsHold /\ PagesHold /\ TodoHolds
    BY <1>1 DEF PInv
  <2>2. Head(todo) = todo[1] /\ 1 \in 1 .. Len(todo)
    BY <1>1, <2>1 DEF TodoHolds
  <2>3. Head(todo).page \in ModuleCode
    BY <1>1, <2>1, <2>2 DEF TodoHolds, ItemHolds
  <2>4. Head(todo).page \notin faulted \cup SharedPages
    BY <1>1, <2>3, Areas DEF PInv
  <2>5. Head(todo).page \notin Mapped
    BY <2>1, <2>2, <2>4 DEF PagesHold, PageHolds, Settled
  <2>6. SpareCode # {}
    BY <2>3, <2>5 DEF SpareCode
  <2>7. IsFiniteSet(SpareCode) /\ IsFiniteSet(code_free)
        /\ Cardinality(SpareCode) \in Nat /\ Cardinality(code_free) \in Nat
    BY <1>1, Finite, SpareSubsets, Areas DEF PInv, TypeOK
  <2>. QED  BY <2>1, <2>6, <2>7, FS_EmptySet DEF CountsHold
<1>2. PInv => MemoryNeverRunsOut
  BY <1>1 DEF MemoryNeverRunsOut, PInv, CountsHold
<1>. QED  BY <1>2, Invariant, PTL

(* A page keeps its frame and its rights until it is unmapped, unless a    *)
(* fault had mapped it or two loops map it; then its frame is lost.  The   *)
(* pages of the window never move.                                         *)
THEOREM SharedPagesMove == Spec => OnlySharedPagesMove
<1>1. ASSUME PInv, [Next]_vars, ~TableAtNull', Booted,
             NEW v \in Page, Translation(v).present, Translation(v)' # Translation(v)
      PROVE  v \in faulted \cup SharedPages /\ Translation(v).frame \in lost'
  <2>1. PInv' /\ StepHolds
    BY <1>1, NextHolds
  <2>2. Booted' /\ ~TableAtNull
    BY <1>1, <2>1, BrokenForGood DEF StepHolds, Booted
  <2>3. TablesHold /\ TablesHold'
    BY <1>1, <2>1, <2>2 DEF PInv
  <2>4. v \notin Window
    <3>1. SUFFICES ASSUME v \in Window PROVE FALSE
      OBVIOUS
    <3>2. PICK t \in Index : v = TablePage(t)
      BY <3>1 DEF Window
    <3>3. t \in page_table_ptrs /\ Translation(v) = Entry(page_tables[t].frame, TRUE, FALSE)
      BY <1>1, <2>3, <3>2, WindowTables, EntryTypes DEF WindowTranslates
    <3>4. t \in page_table_ptrs' /\ page_tables'[t] = page_tables[t]
      BY <2>1, <3>3 DEF StepHolds
    <3>5. WindowTranslates'
      BY <2>3, WindowTables, PTL
    <3>6. Translation(TablePage(t))' = Entry(page_tables'[t].frame, TRUE, FALSE)
      BY <3>4, <3>5 DEF WindowTranslates
    <3>. QED  BY <1>1, <3>2, <3>3, <3>4, <3>6
  <2>5. v \in Mapped /\ v \in Page \ Window
    BY <1>1, <2>4 DEF Mapped
  <2>6. ~Kept
    BY <1>1, <2>5 DEF Kept
  <2>7. PICK x \in Page \ Window :
          /\ Moves(x)
          /\ Effect(x, Absent) \/ \E entry \in EntryType : NewlyMapped(x, entry)
    BY <1>1, <2>1, <2>6 DEF StepHolds
  <2>8. x = v
    BY <1>1, <2>5, <2>7 DEF Effect, NewlyMapped
  <2>. QED  BY <2>5, <2>7, <2>8 DEF Moves
<1>2. PInv /\ [Next]_vars =>
        [~TableAtNull' /\ Booted =>
           \A v \in Page : Translation(v).present /\ Translation(v)' # Translation(v) =>
             v \in faulted \cup SharedPages /\ Translation(v).frame \in lost']_vars
  BY <1>1
<1>. QED  BY <1>2, Invariant, PTL DEF Spec, OnlySharedPagesMove

(* Two levels of tables, edited through themselves, are a map from pages to*)
(* translations that each step changes at one page at most.                *)
LEMMA NextIsAddressSpace ==
  ASSUME PInv, [Next]_vars
  PROVE  [AS!Next]_AS!vars
<1> DEFINE Rest == Page \ Window
           now == [v \in Rest |-> IF Booted THEN Translation(v) ELSE Absent]
<1>1. PInv' /\ StepHolds
  BY NextHolds
<1>2. CASE TableAtNull'
  BY <1>2 DEF AS!Next
<1>3. CASE ~TableAtNull' /\ ~Booted
  <2>1. ~TableAtNull
    BY <1>3 DEF TableAtNull
  <2>2. \A w \in Rest : Booted' => Translation(w)' = Absent
    BY <1>1, <1>3 DEF StepHolds
  <2>3. now' = now
    BY <1>3, <2>2
  <2>4. TableAtNull' = TableAtNull
    BY <1>3, <2>1 DEF TableAtNull
  <2>5. UNCHANGED AS!vars
    BY <2>3, <2>4 DEF AS!vars
  <2>. QED  BY <2>5
<1>4. CASE ~TableAtNull' /\ Booted
  <2>1. Booted' /\ ~TableAtNull
    BY <1>1, <1>4, BrokenForGood DEF StepHolds, Booted
  <2>2. now = [v \in Rest |-> Translation(v)] /\ now' = [v \in Rest |-> Translation(v)']
    BY <1>4, <2>1
  <2>3. TablesHold /\ TablesTyped
    BY <1>4, <2>1 DEF PInv, TypeOK, TablesTyped
  <2>4. CASE Kept
    <3>1. now' = now
      BY <2>2, <2>4 DEF Kept
    <3>2. TableAtNull' = TableAtNull
      BY <1>4, <2>1 DEF TableAtNull
    <3>3. UNCHANGED AS!vars
      BY <3>1, <3>2 DEF AS!vars
    <3>. QED  BY <3>3
  <2>5. CASE \E v \in Rest : Effect(v, Absent)
    <3>1. PICK v \in Rest : Effect(v, Absent)
      BY <2>5
    <3>2. now' = [now EXCEPT ![v] = Absent]
      BY <2>2, <3>1 DEF Effect
    <3>3. AS!Unmap(v)
      BY <3>2 DEF AS!Unmap
    <3>. QED  BY <1>4, <3>1, <3>3 DEF AS!Next
  <2>6. CASE \E v \in Rest : \E entry \in EntryType : NewlyMapped(v, entry)
    <3>1. PICK v \in Rest, entry \in EntryType : NewlyMapped(v, entry)
      BY <2>6
    <3>2. Effect(v, entry) /\ entry.present
      BY <3>1 DEF NewlyMapped
    <3>3. now' = [now EXCEPT ![v] = entry] /\ now'[v] = entry
      BY <2>2, <3>2 DEF Effect
    <3>4. entry # Absent
      BY <3>2, EntryTypes
    <3>5. \A w \in Rest : now[w] # Absent => w \in Mapped /\ now[w] = Translation(w)
      BY <2>2, <2>3, PageTranslation DEF PagesTranslate, Mapped
    <3>6. \A w \in {x \in Rest : now[x] # Absent} \ {v} : now[w].frame # now'[v].frame
      BY <3>1, <3>3, <3>5 DEF NewlyMapped
    <3>7. AS!Map(v)
      BY <3>3, <3>4, <3>6 DEF AS!Map, AS!Mapped
    <3>. QED  BY <1>4, <3>1, <3>7 DEF AS!Next
  <2>. QED  BY <1>1, <1>4, <2>4, <2>5, <2>6 DEF StepHolds
<1>. QED  BY <1>2, <1>3, <1>4

THEOREM AddressSpaceRefined == Spec => ImplementsAddressSpace
<1>1. Init => AS!Init
  BY DEF Init, AS!Init, Booted, TableAtNull
<1>. QED  BY <1>1, NextIsAddressSpace, Invariant, PTL DEF Spec, ImplementsAddressSpace, AS!Spec

=============================================================================
