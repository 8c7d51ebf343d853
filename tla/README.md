# Verification of Simple-operation-system

TLA+ models, TLC checks and TLAPS proofs for the kernel in `src/` (32-bit x86,
C and some assembly; about 3,500 lines). Paths such as `memory_manager.c` mean
`src/src/memory_manager.c` of the repository. `PROJECT.json` is the index: the
components, the runs, for every definition the lines it models, the findings,
the hazards and the theorems.

## 1. The system

GRUB loads one image. `boot.s` and `loader.c` choose a chunk of memory, split it
into a data and a code segment, copy the kernel into them and jump to
`start_kernel`, which sets up, in this order, the screen, the descriptor tables,
the page bitmaps, paging, the heap, the keyboard and a terminal that never
returns. There is one processor and one thread of control. The only concurrency
is that of interrupts: a handler runs to its end, interrupts off, between two
instructions of the kernel.

| component | state it keeps | operations | hard behaviour | what makes it correct |
|---|---|---|---|---|
| bitmap, `kbitmap.c` | bytes in memory | set, clear, test, first clear bit | spare bits of the last byte | each operation touches its bit only; the scan finds the lowest clear bit |
| page allocator, `memory_manager.c` | two bitmaps, the flag that they are set up | `init_memory_bitmap`, `alloc_page`, `free_page` | exhaustion, uninitialised memory, long mixes of calls | a page has one owner; none is lost; NULL when, and only when, there is none |
| paging, `paging.c` | directory, page tables, the window through which they are edited | `init_paging`, `mmap`, `munmap`, page fault | tables edited through themselves; a table made in the middle of a mapping; no flush | the window shows the tables the processor walks; a mapping changes one page; a frame has one use |
| heap break, `kheap.c` | `heap_brk`, the heap's bounds | `init_heap`, `sbrk` | failure half way, the end of the heap, 32-bit wrap | break and mappings agree; blocks lie below the break whatever sizes wrap |
| slab allocator, `alloc.c` | small bins and their stacks of cells, free big bins in a skip list, `mem_lock` | `malloc`, `calloc`, `valloc`, `realloc`, `free` | boundaries of cells and pages, stale pointers of the skip list, calls nested under the lock | blocks do not overlap; cells are neither lost nor given twice; assertions hold; calls return |
| mutex, `mutex.c` | a byte | lock, trylock, unlock | a 32-bit exchange on an 8-bit lock | the lock is got in the end |
| keyboard, `keyboard.c` | key cache, `key_loc`, `ch`, the lock; the controller | interrupt handler, `get_keyboard_key` | interrupts between any two statements | stored keys come out once and in order |
| terminal, `kterminal.c` | command buffer | loop, `run_cmd` | full buffer without a terminating 0 | the buffer is the line being typed |
| screen, `screen.c`, `putchar`, `printf` | cells, cursor | print, scroll, move | wrapping at both ends, bytes for coordinates | the screen is a window on what was printed |
| interrupts, `isr.c`, `interrupt.s` | table of handlers, frames on the stack | enter, dispatch, acknowledge, return | nesting, what the stubs restore, an exception without a handler | who was interrupted goes on with its registers; a module's exception ends the module, a kernel's the machine |
| module header, loader, system calls: `module.c`, `module_loader.c`, `syscall.c` | `module_info`, saved kernel state, loaded flag | check header, load, start, exit, five calls | 32-bit sums, interrupts in the byte loops, faults, exit from a nested handler | what is admitted fits; the code is whole; the kernel goes on where it was |
| boot loader, `boot.s`, `loader.c` | the layout, the first descriptor table | scan the map, lay out, copy, jump | mixed 32 and 64-bit arithmetic, copies over what is still needed, small memories | segments disjoint, inside the chunk, clear of image and module |
| kernel start, `start_kernel.c` | - | the calls in order | the table in use is wiped by the bitmap; the window of page tables among what is mapped | a machine that reaches the terminal has a layout that works |
| descriptor tables, `descriptor_tables.c` | GDT, IDT, TSS | fill, load, `set_kernel_stack_in_tss` | split bases and limits; cached descriptors | registers describe the segments that the running code takes them for |
| panic | - | stop | - | - |
| timer, rtc, string helpers | a counter | - | not called, or sequential | - |

Who calls whom: terminal -> keyboard (`get_keyboard_key`), screen and
`malloc`; `malloc` -> mutex and `sbrk`; `sbrk` -> page allocator and `mmap`;
`mmap` -> page allocator (for page tables); the module loader and the page fault
handler -> page allocator and `mmap`. State that is shared between an interrupt
and the rest is the key cache with its lock, the segment registers, and, while a
module runs, the kernel's stack; the heap is used by no interrupt handler.
`start_module` is called by nothing in this version: the terminal has no command
for it yet. The models call it where the terminal would take a command.

The hazards this gives rise to are listed in `PROJECT.json` with their lines and
the properties that would catch them, or why none does yet.

## 2. The modules

```
KBitmap <- MemoryManager --implements--> PageAllocator        <- MemoryManagerProofs
           Paging        --implements--> AddressSpace         <- PagingProofs
           Keyboard      --implements--> KeyQueue             <- KeyboardProofs
           SkipList      --implements--> BestFit              <- SkipListProofs
           SlabAllocator --implements--> Heap                 <- SlabAllocatorProofs
         LockedAllocator --implements--> SlabAllocator        <- SlabAllocatorProofs
Screen  <- Terminal      --compared with-- Paper                <- TerminalProofs

Words <- Descriptors <- Loader <- KernelStart <- KHeap <- ModuleLifecycle <- Machine
Words <- ModuleHeader <------------------------------------'

Machine <- MachineProofs <- LayoutProofs
```

Each `MC` module gives the configurations their sets. Operators whose comment
begins "Mutant of" stand for a plausible mistake in the definition after them;
no specification uses them. They show that a property can fail.

**KBitmap, MemoryManager** (`kbitmap.c`, `memory_manager.c`). A bitmap is a
function from byte offsets to sets of bits, so byte and bit numbers are those of
the code. The sizes are computed as `init_memory_bitmap` does, in pages of
`PAGE_SIZE` bytes; a bitmap longer than a page is cleared in its first page
only, as the code does, and `Residue` is what RAM held. `alloc_page` is the
disjunction of its four outcomes: called before boot, exhausted, the assertion
on the index fails, a page. `owned`, a history variable, is what callers hold;
they free only what they hold.

**Paging** (`paging.c`, `kheap.c`, the loop of `module_loader.c`). Addresses are
page numbers. `mem` is the contents of the data segment's frames seen as page
tables. A store to a page table goes where the code's pointer leads: before
paging is on to the frame itself, after it through the window, by the
processor's own walk (`Walk`) of the tables as they are at that moment.
`get_pt_entry` makes a table in the code's order: frame, entry in the window's
table, entry in the directory, clear through the window. `todo` is what a mapping
loop has yet to map, so each `mmap` is a step. Memory starts as junk.
`SizesAssumption` gives the types; `LayoutAssumption` is what `init_paging_tables`
and `init_heap` take for granted and the header check lets pass: the window lies in
the data segment below a module's data, the heap below the stacks, a module's data
below the kernel's stack. Nothing keeps a module's data off the end of the heap or off
the page of the module's own stack (`SharedPages`), nor a fault of the kernel off
either, so two loops may map one page. `faulted`, a history variable, is the pages that
a fault has mapped; `lost` is the frames that were behind a page which got another one
or was unmapped, and which nobody frees. Of the machines that reach the terminal
Machine proves the bounds of the heap and of a module for all maps and headers
(`LayoutHolds`, `AdmittedModuleFits`); that nothing mapped lies in the window it
proves if the map is suitable (`Suitable`: a chunk below 4 GB with room for the kernel,
a module between the image and the last two pages) and no byte of a module went astray.

**Keyboard** (`keyboard.c`, `mutex.c`). The reader has one step per statement
that touches shared state; the interrupt is one step, because handlers run with
interrupts off. `mutex_lock` and `mutex_trylock` exchange 32 bits although the
mutex has 8, so they overwrite the three bytes after it. In the kernel image of
the repository `ch` is the byte after `key_loc_mtx`; another link may place it
elsewhere. That is the linker's choice, so `ch_in_lock_word` is chosen once in
`Init`. `mutex_lock` goes round again when any of the 32 bits was set;
`mutex_trylock` looks at 8. The controller (`outbuf`, `irq`, `Type`) is external:
it offers a byte and raises its interrupt only after the byte before was read.

**SkipList** (`alloc.c`, lines 308-492, and their callers). The pointers
themselves: `forward` of the head and of every bin ever made, at every level,
kept while a bin is out of the list, as they are in the code. `update` is the
array filled by the three search loops: the node where the walk along a level
stops, computed by a recursive function. The bins that a level reaches (`Chain`)
are the intersection of all sets that are closed under its pointers.

**SlabAllocator** (`alloc.c`, `sbrk`). Addresses are bytes, so cells and headers
are where the code's arithmetic puts them. `klmalloc`, `klfree` and `klrealloc`
map a heap to a heap, which is how `klrealloc` calls the other two. The chain of
free cells of a bin is a sequence; the list of free big bins is the lowest level
of the skip list (module SkipList shows the levels agree). `SlabAssumption` is
what the sizes of the build must satisfy: beside either header a page has room for
the largest small cell, and the size of a big bin is no index of a small one.

**LockedAllocator** (`alloc.c`, lines 132-164). A stack of calls; each takes
`mem_lock`, runs its body, gives the lock back. `klrealloc` with NULL or with
size 0 calls the exported `malloc` or `free`. The bytes after `mem_lock` are
padding in the repository's image, so its exchange needs no neighbour.

**Screen, Terminal** (`screen.c`, `kterminal.c`, `putchar`, `printf`). Operators
from screens to screens, coordinates taken modulo 256 and then modulo the size,
as the code does; the terminal's loop is the state machine. Paper is an
independent description: an endless roll, a pen and a window.

**Machine and what it is made of** follow one machine from the jump of the boot
loader to the terminal and beyond, on one memory and one processor. They take
pages, tables and bytes at the level where layout, arithmetic and control flow
show; the bits of the bitmaps, the entries of the tables and the free lists are
those of the modules above.

- *Words*: `u32int` sums, differences and products that wrap at `MODULUS`,
  `PageUp` and `PageDown`. `Descriptors`: `set_global_descriptor` splits a base
  and a limit into the fields of the descriptor; `BaseOf` and `Reach` are how the
  processor joins them again.
- *Loader* (`boot.s`, `loader.c`): the scan takes one entry of the map per step,
  in the widths of the code (`len` of 64 bits, `max_len` and `upper_mem_size` of
  32). `Layout` is what `init_segments_parameters` computes. Each copy is a step;
  `damaged` collects the parts of memory that were overwritten while they were
  still needed, or that lie where there is no RAM. If no chunk was chosen the code
  reads address 0 as an entry (`ivt`).
- *KernelStart* (`start_kernel` up to `init_paging`): the parameters are read from
  where the loader wrote them. `init_memory_manager` clears the page in which the
  processor's descriptor table lies; the registers go on with what they hold.
  `stage` is `hang` when the loader returns, `halted` after an assertion or
  `PANIC`, `wrecked` when code or tables in use are overwritten: what a wrecked
  machine does is not this program, so a wrecked machine takes no step. Properties
  speak of machines that were not wrecked, and `SegmentsAreApart` and
  `LayoutHolds` say from the input which ones are not. `VideoAssumption` and
  `KernelDataAssumption` are about the build: the video memory lies below the image
  and below 1 MB, and the kernel's data with its bitmaps and its directory end less
  than 4 MB above their start.
- *KHeap* (`kheap.c`, big bins of `alloc.c`, the rest of `start_kernel`): sizes
  wrap. An increment that wraps passes the assertion of `sbrk`; an increment of 0
  maps no page, and the page fault that the header causes maps it. `malloc` then
  returns a block shorter than it was asked for; `calloc`, which clears what it
  believes to have, runs over the kernel's stack (halted or wrecked), unless it is the
  product that wrapped. `HeapAssumption` keeps to requests that get a big bin, whose
  header is at most half a page.
- *ModuleHeader* (`init_module`): the ten comparisons on words. *ModuleLifecycle*
  (`module_loader.c`, `isr.c`, `interrupt.s`, `syscall.c`): `pc` says what runs.
  The kernel's stack is a sequence of frames; an interrupt frame holds what the
  stub and the processor push. The loops that clear and copy the code take one
  byte per step, and interrupts come between any two. The stubs of `interrupt.s`
  restore `gs` from the saved `ds`, so an interrupt in one of these loops, which
  store through `gs`, turns the rest of the code to the data segment: `strays`
  are the bytes that go there, over a page table (wrecked) or into a page that the
  page fault maps; `CodeIsWhole` says exactly when the code is whole.
- *Machine* composes them and states what must hold of them together.

## 3. What is checked

Every run ends with all reachable states explored.

| run | instance | shows |
|---|---|---|
| `mm` | pages of 2 bytes; code pool of 5 pages (3 spare bits), data pool of 24 (none), of which the kernel has 3 and 18 | pages are handed out once, come back, are conserved; the kernel's stay marked; alloc_page is the abstract allocator's; its assertion fails only on exhaustion of a pool with spare bits |
| `mm_index_assert` | pools of 5 and 21 pages | finding 1 |
| `mm_uncleared_bitmap` | a bitmap of two pages | finding 2 |
| `paging` | 6-entry tables; 19 data frames, 9 code frames; `sbrk` of 1 or 2 pages; a module of 2 + 6 pages, over the end of the heap and its own stack; faults in heap, module and code | the window, the tables and the translations agree after every mapping; frames have one use; ring 3 reaches the module only; memory falls short by lost frames only; no page gets another frame but the named ones |
| `keyboard` | cache of 4 bytes, 5 codes typed, both places of `ch` | the cache is a bounded queue under every interleaving; keys that are taken reach the terminal, or may vanish but never change places where `ch` shares the lock's word; the lock is got; stored keys are taken |
| `skip_list` | 3 bins, 2 sizes, 3 levels | the levels never lose or repeat a bin; `delete` finds what `findbest` found; best fit |
| `slab` | 3 pages of 32 bytes; requests of 4, 7, 9, 40 bytes | blocks never overlap; cells are accounted for; lists and bins agree; freed memory is used before the heap grows; assertions hold |
| `slab_realloc_valloc` | the same, `realloc` of any block | finding 4 |
| `heap_lock` | 2 pages, requests of 4 and 9 bytes | every ordinary call finds the lock free and returns; under the lock the heap changes as SlabAllocator lets its callers change it |
| `heap_lock_null` | the same, `realloc(NULL, n)` and `realloc(p, 0)` | finding 3 |
| `machine` | 33 machines: 5 layouts that start (with a module, without, with little memory, with kernel data across a table's span), 16 maps or calls with which it does not start, and one map with 9 headers that are refused and 3 that are accepted; 2 interrupts and 4 requests or starts at any point | from the map of memory to the terminal: the segments lie apart, the registers describe them at every step, the window of page tables is clear of what is mapped; requests of `malloc` and `calloc` that wrap leave other blocks alone; what is admitted fits, is loaded whole, is left or killed with the kernel as it was; interrupts come on again |
| `terminal` | screen of 2 x 2, 8 keys | the screen shows what was printed; the buffer is the line |

**Why the bounds are enough.** `mm`: bitmaps of one, three and more bytes, with
and without spare bits, each pool driven to exhaustion and back. `paging`: the
window is at directory entry 1 and the mappings fall into four other tables, so
tables are made both before and after paging is on; each page of the data segment
above the window is the heap's, the module's, a stack's or the fault handler's, and
some are two of these, so everything that can be mapped is mapped, and mapped again,
in some behaviour. `munmap`, which nothing calls in this version, is in the model for
the pages that faults map, which is also how memory is driven to its end.
`keyboard`: three keys fill the cache and two more come late; the codes have two
letters and a release, which becomes a 0. `skip_list`: two equal bins and a
different one in every order and level, which is what the strict and non-strict
comparisons of the loops tell apart. `slab`: one size per small bin, one inside a
bin's rounding, one big bin of a page and one of two; the heap runs full.
`terminal`: more symbols than cells, so it scrolls, wraps and goes back over line
ends; the buffer, as large as the screen, runs full.
`machine`: 16 tables of 16 pages of 8 bytes, so a word has 2048 values and every
kind of wrap (a sum, a difference, a product, a length of 64 bits cut to 32)
happens; the kernel has a page of code and one of data. The maps of `MCMachine`
are one for each way the arithmetic of `loader.c` can go and for each step of the
start that can fail for want of memory; the headers lie on both sides of each
comparison of `init_module`. Two interrupts are enough for one in a loop of the
loader, one in a handler and one in a module; four requests or starts for a wrap
between two ordinary blocks and for a second start of a module that is loaded.
`MaxTyped`, `MaxKeys`, `MaxIrqs` and `MaxCalls` bound what the environment does,
nothing the kernel does. Types that a property takes for granted (that an index
stays in its array, a pointer in its heap) are the first part of that property in
Paging (`FramesHaveOneUse`), Keyboard (`DeliveredInOrder`), SkipList
(`LevelsAreSublists`), SlabAllocator (`CellsAreAccounted`) and Terminal
(`ScreenShowsPaper`).

**Fairness.** Keyboard: weak fairness of `get_keyboard_key`, because the
terminal's loop calls it for ever, and of the interrupt, because the processor
takes a pending interrupt while interrupts are on, which they are in that loop.
Nothing is assumed of the typist. LockedAllocator: weak fairness of the step of
the call in progress, because it is the code that runs. Machine: weak fairness of
the steps of the start, of the loading of a module and of handlers, because the
processor goes on and nothing else runs meanwhile; none of users, modules or
devices. The other modules state no liveness.

**Deadlock.** Where the machine stops by `ASSERT` or `PANIC`, where the heap is
full, or the bounded typing has ended, the configurations switch the deadlock
check off and say why. Keyboard has it on.

## 4. Findings

1. `alloc_page` stops the machine (line 36) instead of returning NULL when a pool
   whose size is not a multiple of eight pages is exhausted (`mm_index_assert`).
   `AssertFailsOnExhaustion`, checked and proved, says that is the only case.
2. `init_memory_bitmap` clears one page of a bitmap; with a segment above 128 MB
   the rest keeps what RAM held, and those pages may never be handed out
   (`mm_uncleared_bitmap`).
3. `realloc(NULL, n)` and `realloc(p, 0)` wait for ever for the lock they hold
   (`heap_lock_null`).
4. `realloc` of a block of `valloc` fails "Bad magic on realloc."
   (`slab_realloc_valloc`).

More facts that the models show without a document that says otherwise:

- an interrupt that finds the lock held or the cache full ends the keyboard's life
  (`MissedInterruptIsTheLast`); with `ch` next to the lock an interrupt between
  the read of a key and the return wipes the key (`TakenKeysReachTerminal` holds
  only of the other layout);
- an interrupt while a module's code is copied sends the rest of the code to the
  data segment, since the stubs give `gs` back the value of `ds`; the timer, left
  as the BIOS set it, alone interrupts 18 times a second (`CodeIsWhole` holds
  with that case spelt out);
- the entry point is compared with offsets of the image, not of the code that is
  loaded: a module whose code does not begin its image may be entered up to
  `code_offset` bytes behind its code (the last part of `AdmittedModuleFits`);
- segment limits reach a page too far (`SegmentRegistersHold`), as `len >> 12` is
  the number of pages and a limit is the number of the last one;
- a module's data may cover the page of its own stack: `init_module` leaves one page
  below the end of the data segment, the kernel's stack, and the module's stack is the
  page below that. The loader then maps the page a second time, so the last page of
  the data is gone and its frame lost (`OnlySharedPagesMove`; a header of `machine`
  and the module of `paging` do this);
- data whose end wraps are admitted and not copied (`AdmittedModuleFits`);
- on a machine whose kernel data lie across a multiple of 4 MB the heap may reach over
  the address of a module's data by up to 4 MB (`LayoutHolds`); the pages there are
  mapped twice (`OnlySharedPagesMove`);
- `mmap` does not flush. Where it gives a mapped page another frame (the two cases
  above, and pages that a fault had mapped before `sbrk` or the loader comes to them)
  the processor may go on with the old one; `OnlySharedPagesMove` says that these are
  the only ones;
- `malloc` of a size within a header and a page of 2^32 returns a short block;
  `calloc` of such a size clears up to the kernel's stack; `calloc` of a product that
  wraps returns a short block (`BinsLieBelowBreak`);
- machines with little memory (in the scaled instance below five or six times the
  kernel and the span of a table) do not reach the terminal.

## 5. What is proved

All theorems hold for every value of the constants that the named assumptions
allow, and for runs of any length. Each component's theorems rest on one inductive
invariant (or, for the machine, on a few that build on each other).

**The page allocator**, `MemoryManagerProofs`, from `SegmentsAssumption` only: page
size and kernel sections positive and aligned, the kernel and a stack page fit the
segments. So for every memory size, kernel size and content of RAM. Its lemmas say
what each bitmap operation does to every bit, that the bytes cover the pages, and
that `first_clear_bit` returns the lowest clear bit or says that there is none.

- `OneUse` (types included), `NeverNull`: the invariants;
- `AssertionHolds`: line 36 fails only on exhaustion of a pool with spare bits;
- `Conserved`: the action property that calls neither lose nor invent pages;
- `Refinement`: the bitmaps implement PageAllocator.

`PagesHaveOneUse` is not inductive: it does not say that nobody holds a page
before boot, when the bitmap is junk, which `IInv` adds. Boot marks the kernel's
pages whatever the memory held; `alloc_page` keeps the uses apart because the scan
returns a clear bit, which no kernel page and no owned page has;
`free_page` because what callers hold is no kernel page. `AssertionHolds` is
proved on top of it: a bit above the segment is in the bitmap only if the size is
not a multiple of eight, and it is returned only if every bit below is set.

**Paging**, `PagingProofs`, from `SizesAssumption` and `LayoutAssumption`:

- `WindowIsTrue`, `OneUse`, `UserIsConfined`, `MemorySuffices`: the invariants;
- `SharedPagesMove`: the action property `OnlySharedPagesMove`;
- `AddressSpaceRefined`: tables edited through themselves implement AddressSpace.

The invariant `PInv` says how the tables hang together (`TablesHold`: the table of
page tables is one of the tables and has an entry for each, with a frame of its
own), what every mapped page leads to (`PagesHold`), that nothing in use and nothing
lost is free (`FramesHold`), what the loops have yet to map (`TodoHolds`: no page twice
but a shared one), and that there are as many free and lost frames as pages and tables
without one (`CountsHold`). From `TablesHold` follows what the processor's walk gives
for a page of the window and for any other page; with it a store through the window is
a store to the frame meant (`NewTable`), and one `mmap` changes one translation
(`Effect`), with or without a new table, of a page that was mapped or was not.
`CountsHold` is what makes `MemoryNeverRunsOut` inductive: a mapping takes one page and
one frame away, or, if the page had a frame, turns a free frame into a lost one; a new
table takes one frame and its page in the window. Once frames were lost memory may run
short, and a table may be put at NULL, over the kernel's data (`TableAtNull`), as
`get_pt_entry` does not look; the properties say nothing of a machine where that
happened, and `MemoryNeverRunsOut` that it does not happen before. `SharedPagesMove`
rests on this: a mapped page that no fault has mapped and that is not shared is
settled, its loop has passed and none will come to it again (`Settled`).

**The keyboard**, `KeyboardProofs`, from `KeyboardAssumption` (the cache has two
places or more, codes are bytes but not 0), for both places of `ch`:

- `TakenReachTerminal`, `Ordered`: the invariants;
- `MissedIsTheLast`: the action property on missed interrupts;
- `QueueRefined`: the shifting array under its lock implements KeyQueue.

`KInv` says when the lock is held and what is known at each statement of the
reader (`LockHolds`), that the byte of a missed interrupt stays in the controller
(`ByteHolds`), that `ch` is the key that left the queue unless an interrupt wiped
it (`HeadHolds`), and that the keys delivered are a selection `kept` of those
taken, in order, to which the key on its way does not belong (`Kept`).

**The skip list**, `SkipListProofs`, from `SkipListAssumption` (bins and sizes are
positive numbers):

- `HoldsFreeBins`, `Sublists`, `CanBeUnlinked`: the invariants;
- `BestFitRefined`: the pointers implement BestFit.

The invariant `SInv` says that there are a set of bins for each level, each in the
one below, and ranks, in the order of sizes and different for different bins, such
that every pointer of a node of a level leads to the node of next higher rank
(`Linked`, `LeadsOn`). Nothing is said of the pointers of bins that are out of the
list or of levels that a bin is not on: they may be stale. A walk along a level
ends at the last node below the size (`WalkFinds`): its well-definedness is
`LastNodeExists`, for any finite acyclic chain, by the well-foundedness of the
ranks; so does `update` from each level to the next (`UpdateFinds`). Insertion and
deletion are then arguments on ranks (`InsertLinks`, `DeleteLinks`).

**The slab allocator**, `SlabAllocatorProofs`, from `SlabAssumption`: for every
heap, page and header size, every set of requests and any sequence of calls.

- `CellsAccounted`, `ListsHoldRoom`, `HeadersSpared`, `NoAssertFails`: the invariants;
- `MemoryIsReused`: the action property `FreedMemoryIsReused`;
- `HeapRefined`: bins, stacks and lists implement Heap.

The invariant `IInv` joins what holds of the heap to what callers hold. `HeapHolds`:
bins lie apart between the heap's start and its break (`BinsHold`), a bin's stack
has, once each, the cells of the bin that nobody holds (`StacksHold`), and the
lists hold exactly the bins with room, the big ones by size (`ListsHold`).
`BlocksHold`: each block lies in one cell, different blocks in different cells, and
a block of `valloc` is in the second page of a big bin, where it is not the cell's
own address that `free` gets. None of the six follows from the operation at hand:
that a freed cell goes to the right stack needs `header_of` to find the bin of any
address a caller may give (`CellPlace`, by division; for a block of `valloc` the
page before), that no two blocks overlap needs bins to be apart. The lemmas speak of
heap records and not of the variables, because `klrealloc` runs `klmalloc` and
`klfree` on heaps between two states: `MallocHolds`, `FreeHolds` and `ReallocHolds`
give for each what is kept, and the steps combine them. Below them are lemmas on
powers of two and on pushing
to, taking from and inserting into sequences without repetition. `NoAssertFails`
covers the calls the specification makes; the one assertion that can fail is
reached by `SpecAnyRealloc` (section 4).

The same module proves of the exported functions, `LockedAllocator`, for callers
that keep away from the special cases of `realloc` and for callers that do not:

- `LockFree`: a call from outside finds `mem_lock` free (`LockIsFreeOutside`);
- `AllocatorImplemented`: they do to the heap what SlabAllocator describes, so
  the theorems above hold of them.

`LInv` tells three cases apart: no call in progress (`Outside`), one (`Single`), and
a special case of `realloc` waiting inside itself for its own lock (`Stuck`), which
no step leaves. Not inductive without it: that a block is still its caller's when
`free` or `realloc`, which chose its argument before it had the lock, gets to it;
it is, because nothing else changes the heap meanwhile (`ArgumentsHold`).

**The layout and the header**, `MachineProofs`, from `WordsAssumption` (a page and a
table have at least two parts), `LoaderAssumption` (the image is loaded above
address 0, is made of the linker script's three parts, and ends a page below 4 GB),
`BootsAssumption` and `HeadersAssumption` (fields have the widths of `multiboot.h`
and `module.h`): for every memory map, header, page size and word size.

- `SegmentsApart`: `Spec => []SegmentsAreApart`;
- `AdmittedFits`: `Spec => []AdmittedModuleFits`.

Neither property is inductive: they speak of the layout at the end and of a header
that was checked earlier. `IInv` adds that the chosen chunk is one of the map,
that `segments` is `Layout` from then on, that `damaged` holds nothing before each
copy, that the kernel recorded what the loader passed on the stack, and that an
admitted header passes the same check now. Every step after the record is a
`KernelStep`, which touches none of this. The proofs found two edges that the
instance had not: a module that ends less than two pages below 4 GB, where its
rounded end wraps (`Suitable` excludes it), and an image loaded at address 0.

**The life of a module**, the second part of `MachineProofs`, for any number of starts, calls, faults
and nested interrupts:

- `ExitIsValid`: `Spec => []ExitStateIsValid`;
- `TerminalStaysItself`: `Spec => []TerminalIsItself`;
- `CodeWhole`: `Spec => []CodeIsWhole`;
- `RegistersHold`: `Spec => []SegmentRegistersHold`.

The first two need `IrqsAssumption` only (there are 16 IRQs). The invariant `LInv`
says which frames lie under the program that runs (`Base`),
that a first handler's frame holds the selectors of the program it interrupted,
that only interrupts which nothing masks lie above it, and that the saved state is
complete from the jump on. Such an interrupt has no handler, so it ends the module
or the kernel and never returns (`TopFrame`); a stack that is cut where the saved
state says is again the one of `start_module` (`CutToBase`).

`CodeWhole` is about two loops of unknown length that an interrupt may leave at any
byte. `CodeInv` says how far each has come, in terms of what runs or waits in a
frame (`Underway`): up to byte `at` the code is there or is among `strays`, and the
rest is zero unless `gs` was changed. `RegistersHold` rests on the digits of
descriptors, `BaseIsKept` and `LimitIsKept`: what `set_global_descriptor` splits,
the processor joins to the same number. `RegInv` says that every register holds the
entry of its selector in the table in force, also in the frames of those who were
interrupted (`FramesFit`). It needs `FieldsAssumption` and `VideoAssumption` besides.

**The heap and the layout in memory**, `LayoutProofs`, from the assumptions above,
`HeapAssumption`, `VideoAssumption` and `KernelDataAssumption`:

- `BinsBelowBreak`: `Spec => []BinsLieBelowBreak`;
- `LayoutIsSound`: `Spec => []LayoutHolds`.

`HeapInv`: blocks lie one above the other up to the break (`BinsStack`), in mapped
pages, each as long as its request makes it (`BinsServe`). That only sizes near 2^32
and products that wrap make it shorter is a matter of words (`RequestAsks`, `IncrementServes`): the
increment is a multiple of a page that exceeds size and header unless their sum, or the
rounding, wraps; `klcalloc` returns only if what it clears ends below the kernel's
stack. The break never goes down: `sbrk` moves it by an unsigned number and asserts that
it stays below the heap's end. `LayInv` follows
the page marks of the start (`MarksHold`) to the window (`WindowHolds`: it is the
first span of a table that begins above the directory), to the bounds of the heap
(`SizeHolds`), to the two blocks that `start_kernel` itself asks for, which fail on
a machine whose heap is too small (`RoomHolds`), and keeps what is mapped on either
side of the window (`MappedOutside`). Three facts came out of the proof and not of
the instance: with a data segment that is full before `init_paging` the code uses
what `alloc_page` returns, 0, for the directory (`NextFree`; a machine was added
for it); the header of a block must not be larger than half a page; and bytes that
go astray while a module's code is copied may make the page fault handler map a
page where the window will show a table (code of five pages), so `LayoutHolds`
speaks of machines on which that has not happened (`disturbed`).

**The screen and the terminal**, `TerminalProofs`, from `ScreenAssumption` (two rows
and columns or more, bytes) and `TerminalAssumption` (texts are sequences of
symbols): for every size of screen and buffer, all texts and any number of keys:

- `ShowsPaper`: `Spec => []ScreenShowsPaper`;
- `HoldsLine`: `Spec => []BufferHoldsLine`.

`ScreenShowsPaper` compares two folds over the same text: `printf` on the
screen, which scrolls, wraps and moves back, and writing on a paper without an
end. Both sides are proved to agree symbol by symbol (`PutShows`), by a lemma
for each case of `putchar`: a new line that scrolls or does not (`NextLine`,
`WindowMoves`), a backspace, over the end of a line too (`BackShows`), and a
symbol that moves on (`SymbolMovesOn`). The property alone would not carry this:
the row that a scroll brings in is blank only because nothing is written below
the window (`Agree`), and the screen a text starts from may have lost the paper,
when only the cursor's place on it is known (`Shows`). `TextShows` takes it from
symbols to texts. A fold has no definition that the provers can unfold twice, so
what the first places of a text print is given by a function on sets of places
(`Prints`, `Writes`), whose existence is proved by induction, stated over sets
of numbers (`Induction`, `PrintsExist`, `WritesExist`). `Buffered`, for the
second theorem, holds of a buffer that is full as well, where further symbols
are echoed but not kept.

**Out of the provers' reach.** Liveness under fairness and `ENABLED`. The library's
induction theorems take an operator as a parameter, which no prover here
instantiates; where induction is needed (chains of pointers, loops, least elements,
folds over texts) it is done with sets of numbers and well-founded relations.

**Only model-checked**: the four liveness properties, `LockIsAcquired`,
`StoredKeysAreTaken`, `CallsReturn` and `InterruptsComeBack`. Every invariant, action
property and refinement of the passing runs is a theorem.

## 6. What is not modelled, and why

Colours and VGA cursor registers, texts of messages, the drawing of panic
screens; timer and real-time clock (nothing initialises them); the string helpers
that nothing but a message uses (`itoa`, `memmove`, `memchr`, `memcmp`, `strcpy`,
`strncpy`: sequential loops that a unit test reaches); the acknowledgement written
to the interrupt controllers; the sample module (a test program: in Machine a
module is any program). A second free of the same page or block and writes past a
block are the caller's doing: the models' callers free what they hold. Codes
0x1a and 0x1b of the keyboard read the byte behind a string, which the linker
chooses; the model is given no such code. General registers are not modelled:
`save_kernel_state` and the stubs save and restore all that C code relies on.
Cached translations are not modelled: boot maps no page twice, so it needs no flush,
and `OnlySharedPagesMove` names the pages for which `sbrk`, the loader, or a caller of
`munmap`, would need one.

## 7. Plan

Done, in this order, the most important first: page allocator with its proofs,
paging with the heap break, keyboard, slab allocator (skip list, cells, lock),
terminal and screen; then the machine as a whole (loader, start, heap arithmetic,
header and life of a module) with its proofs; last the proofs of the lock around the
allocator and of the screen. What could follow:

1. a command of the terminal that starts a module, once the code has one: Terminal
   and ModuleLifecycle would then share the loop.
