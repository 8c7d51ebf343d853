------------------------------- MODULE Loader -------------------------------
(***************************************************************************)
(* src/loader.c and src/boot.s: the loader chooses a chunk of memory, lays *)
(* out the data and the code segment in it, builds the descriptor table    *)
(* the kernel starts with, copies the kernel and jumps to it.  Nothing     *)
(* protects memory here: what a copy does to its neighbours, and where no  *)
(* RAM is, is kept in "damaged".  Bytes are counted; a descriptor and an   *)
(* argument on the stack take one byte.                                    *)
(***************************************************************************)
EXTENDS Descriptors, Sequences, FiniteSets

CONSTANTS
  lma, loader_size, kernel_code_size, kernel_data_size, null_ptr_offset,
  Boots,        \* what the boot loader may pass: a multiboot_info_t each
  ivt           \* what lies at address 0, read as an entry of the map

kernel_size == loader_size + kernel_code_size + kernel_data_size
GDT_COUNT == 5
ARGS == 7             \* words from the stack pointer up: a return address
                      \* that nobody writes, and six parameters

ASSUME LoaderAssumption ==
  /\ lma \in Nat \ {0} /\ loader_size \in Nat /\ null_ptr_offset \in Nat
  /\ kernel_code_size \in Nat /\ kernel_data_size \in Nat
  /\ null_ptr_offset <= kernel_code_size /\ null_ptr_offset <= kernel_data_size
  /\ lma + kernel_size + PAGE_SIZE <= MODULUS

(* An area of memory: where it begins and how many bytes it has.           *)
Area(base, len) == [base |-> base, len |-> len]
Nowhere == Area(0, 0)

(* Two areas that share a byte; an area may run over the end of memory.    *)
Overlap(a, b) ==
  /\ a.len > 0 /\ b.len > 0
  /\ Sub(b.base, a.base) < a.len \/ Sub(a.base, b.base) < b.len

Within(a, b) == b.base <= a.base /\ a.base + a.len <= b.base + b.len
Apart(a, b) ==
  a.len = 0 \/ b.len = 0 \/ a.base + a.len <= b.base \/ b.base + b.len <= a.base

(* multiboot_info_t with the flags, the map and the module the code reads. *)
(* The addresses and lengths of the map have 64 bits.                      *)
ASSUME BootsAssumption ==
  /\ ivt.addr \in Nat /\ ivt.len \in Nat
  /\ \A b \in Boots :
       /\ b.magic \in BOOLEAN /\ b.has_mmap \in BOOLEAN /\ b.has_mods \in BOOLEAN
       /\ b.upper \in Word /\ b.mod_start \in Word /\ b.mod_end \in Word
       /\ b.mmap = [i \in 1 .. Len(b.mmap) |-> b.mmap[i]] /\ Len(b.mmap) \in Nat
       /\ \A i \in 1 .. Len(b.mmap) :
            b.mmap[i].addr \in Nat /\ b.mmap[i].len \in Nat /\ b.mmap[i].available \in BOOLEAN

VARIABLES
  stage,                \* how far the machine has come
  mbi,                  \* what the boot loader passed
  mmap,                 \* the entry that the scan of the map looks at
  max_mmap,             \* the entry chosen so far; 0 is NULL
  max_len, upper_mem_size,
  segments,             \* the six variables *_base_addr, *_segment_len
  damaged,              \* the parts of memory that do not hold what they should
  gdt,                  \* the descriptor table in memory
  gdtr,                 \* the table that the processor uses
  cpu,                  \* its segment registers
  args                  \* what start_kernel finds on its stack

layoutVars == <<mbi, mmap, max_mmap, max_len, upper_mem_size, segments>>
processorVars == <<gdt, gdtr, cpu>>
loaderVars == <<stage, layoutVars, damaged, processorVars, args>>

Registers == {"cs", "ds", "ss", "es", "fs", "gs"}
NoTable == [s \in {0} |-> Null]
Load(table, sel) == [sel |-> sel, d |-> IF sel \div 8 \in DOMAIN table
                                       THEN table[sel \div 8] ELSE Null]

Init_loader ==
  /\ stage = "loader_main"
  /\ mbi \in Boots
  /\ mmap = 1 /\ max_mmap = 0 /\ max_len = 0 /\ upper_mem_size = 0
  /\ segments = [code |-> Nowhere, data |-> Nowhere, module |-> Nowhere]
  /\ damaged = {}
  /\ gdt = NoTable /\ gdtr = "boot loader"
  /\ cpu = [r \in Registers |-> [sel |-> 0, d |-> Null]]
  /\ args = <<>>

-----------------------------------------------------------------------------
(* loader_main returns if it was not called as it should: jmp $.           *)
loader_main ==
  /\ stage = "loader_main"
  /\ stage' = IF mbi.has_mmap /\ mbi.magic THEN "get_biggest_memory_chunk" ELSE "hang"
  /\ UNCHANGED <<layoutVars, damaged, processorVars, args>>

(* One turn of the loop: the lengths are of 64 bits, max_len and           *)
(* upper_mem_size of 32.                                                   *)
ScanEntry ==
  LET entry == mbi.mmap[mmap]
      upper == Add(upper_mem_size, entry.len % MODULUS)
      takes == entry.available /\ entry.len > max_len /\ upper # mbi.upper
  IN  /\ stage = "get_biggest_memory_chunk" /\ mmap <= Len(mbi.mmap)
      /\ mmap' = mmap + 1
      /\ upper_mem_size' = IF entry.available THEN upper ELSE upper_mem_size
      /\ max_mmap' = IF takes THEN mmap ELSE max_mmap
      /\ max_len' = IF takes THEN entry.len % MODULUS ELSE max_len
      /\ UNCHANGED <<stage, mbi, segments, damaged, processorVars, args>>

Chunk == IF max_mmap = 0 THEN ivt ELSE mbi.mmap[max_mmap]

module_segment ==
  IF mbi.has_mods THEN Area(mbi.mod_start, PageUp(Sub(mbi.mod_end, mbi.mod_start)))
  ELSE Nowhere

min_load_addr ==
  PageUp(IF module_segment.len > 0 THEN Add(module_segment.base, module_segment.len)
         ELSE lma + kernel_size)

(* Mutant of DataStart: the data begin at the chunk even if the kernel's   *)
(* image lies there.                                                       *)
DataStart_at_chunk == Chunk.addr % MODULUS

DataStart == IF Chunk.addr < min_load_addr THEN min_load_addr ELSE Chunk.addr % MODULUS

(* What is left of the chunk: of 64 bits, then stored in 32.               *)
Room ==
  (IF Chunk.addr < min_load_addr THEN Chunk.len - (min_load_addr - Chunk.addr) ELSE Chunk.len)
    % MODULUS

DataLen == PageUp(Room \div 2)

Layout ==
  [module |-> module_segment,
   data |-> Area(DataStart, DataLen),
   code |-> Area(Add(DataStart, DataLen), Sub(Room, DataLen))]

init_segments_parameters ==
  /\ stage = "get_biggest_memory_chunk" /\ mmap > Len(mbi.mmap)
  /\ segments' = Layout
  /\ stage' = "init_gdt"
  /\ UNCHANGED <<mbi, mmap, max_mmap, max_len, upper_mem_size, damaged, processorVars, args>>

-----------------------------------------------------------------------------
(* What memory holds while the loader works.                               *)
Part ==
  [loader |-> Area(lma, loader_size),
   code_image |-> Area(lma + loader_size, kernel_code_size),
   data_image |-> Area(lma + loader_size + kernel_code_size, kernel_data_size),
   module |-> segments.module,
   gdt |-> Area(Add(segments.data.base, kernel_data_size), GDT_COUNT),
   data |-> Area(Add(segments.data.base, null_ptr_offset), kernel_data_size - null_ptr_offset),
   code |-> Area(Add(segments.code.base, null_ptr_offset), kernel_code_size - null_ptr_offset),
   args |-> Area(Sub(Add(segments.data.base, segments.data.len), ARGS - 1), ARGS - 1)]

InRam(a) ==
  /\ a.base + a.len <= MODULUS
  /\ \E i \in 1 .. Len(mbi.mmap) :
       mbi.mmap[i].available /\ Within(a, Area(mbi.mmap[i].addr, mbi.mmap[i].len))

(* A store to one part, while the parts of "held" are of use.              *)
Store(part, held) ==
  damaged' = damaged \cup {p \in held : Overlap(Part[p], Part[part])}
                     \cup {p \in {part} : ~InRam(Part[p])}

Image == {"loader", "code_image", "data_image", "module"}

(* The table lies just above the kernel's data, in the page that will be   *)
(* the first one of the kernel's bitmaps.                                  *)
init_gdt_loader ==
  /\ stage = "init_gdt"
  /\ Store("gdt", Image)
  /\ gdt' = [i \in 0 .. GDT_COUNT - 1 |->
               CASE i = 1 -> set_global_descriptor(segments.data.base,
                               segments.data.len \div PAGE_SIZE, KernelData, "pages")
                 [] i = 2 -> set_global_descriptor(segments.code.base,
                               segments.code.len \div PAGE_SIZE, KernelCode, "pages")
                 [] OTHER -> Null]
  /\ stage' = "copy_data"
  /\ UNCHANGED <<layoutVars, gdtr, cpu, args>>

copy_data ==
  /\ stage = "copy_data"
  /\ Store("data", Image \cup {"gdt"})
  /\ stage' = "copy_code"
  /\ UNCHANGED <<layoutVars, processorVars, args>>

copy_code ==
  /\ stage = "copy_code"
  /\ Store("code", {"loader", "code_image", "module", "gdt", "data"})
  /\ stage' = "goto_kernel"
  /\ UNCHANGED <<layoutVars, processorVars, args>>

(* What lies how many words below the base of the stack.                   *)
Arguments == <<segments.module.len, segments.module.base, segments.data.len,
               segments.data.base, segments.code.len, segments.code.base>>

(* The arguments of start_kernel, lgdt, the stack and the jump.  With part *)
(* of it damaged what runs is not this program.                            *)
goto_kernel ==
  /\ stage = "goto_kernel"
  /\ Store("args", {"loader", "module", "gdt", "data", "code"})
  /\ args' = Arguments
  /\ gdtr' = "loader"
  /\ cpu' = [cpu EXCEPT !.ds = Load(gdt, 8), !.ss = Load(gdt, 8), !.cs = Load(gdt, 16)]
  /\ stage' = IF damaged' = {} THEN "init_memory_manager" ELSE "wrecked"
  /\ UNCHANGED <<layoutVars, gdt>>

Next_loader ==
  \/ loader_main
  \/ ScanEntry
  \/ init_segments_parameters
  \/ init_gdt_loader
  \/ copy_data
  \/ copy_code
  \/ goto_kernel

-----------------------------------------------------------------------------
LaidOut == stage \notin {"loader_main", "hang", "get_biggest_memory_chunk"}
KernelImage == Area(lma, kernel_size)
HalfNeeded == kernel_code_size + kernel_data_size + GDT_COUNT + ARGS + PAGE_SIZE

(* A chunk below 4 GB with room for the kernel, and a module, if there is  *)
(* one, above the kernel's image and two pages below 4 GB.                 *)
Suitable ==
  /\ max_mmap # 0 /\ Chunk.addr + Chunk.len <= MODULUS
  /\ Chunk.addr + 2 * HalfNeeded <= Chunk.addr + Chunk.len
  /\ min_load_addr + 2 * HalfNeeded <= Chunk.addr + Chunk.len
  /\ mbi.has_mods => /\ mbi.mod_start <= mbi.mod_end /\ mbi.mod_end + 2 * PAGE_SIZE <= MODULUS
                     /\ lma + kernel_size <= mbi.mod_start

(* The loader (init_segments_parameters and the copies that follow) puts   *)
(* data and code next to each other inside the chunk it chose, clear of    *)
(* the kernel's image and of the module, and writes over nothing that is   *)
(* still needed, for every map of memory whose choice is suitable.         *)
SegmentsAreApart ==
  LaidOut /\ Suitable =>
    LET both == Area(segments.data.base, segments.data.len + segments.code.len)
    IN  /\ segments.code.base = segments.data.base + segments.data.len
        /\ Within(both, Area(Chunk.addr, Chunk.len))
        /\ Apart(both, KernelImage) /\ Apart(both, segments.module)
        /\ damaged = {}

=============================================================================
