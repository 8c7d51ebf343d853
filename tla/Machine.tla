------------------------------- MODULE Machine -------------------------------
(***************************************************************************)
(* The machine from the boot loader's jump to the terminal, with heap      *)
(* requests and modules from then on: Loader, KernelStart, KHeap and       *)
(* ModuleLifecycle on one processor and one memory, and what must hold of  *)
(* them together.                                                          *)
(***************************************************************************)
EXTENDS ModuleLifecycle

CONSTANTS
  Vectors,              \* what a module may put in an int instruction
  MaxCalls              \* bound on the heap requests and starts together

vars == <<loaderVars, startVars, heapVars, moduleVars>>

Init == Init_loader /\ Init_start /\ Init_heap /\ Init_module

(* What a kernel that runs does by itself.                                 *)
Start ==
  \/ Next_loader /\ UNCHANGED <<startVars, heapVars, moduleVars>>
  \/ Next_start /\ UNCHANGED <<heapVars, moduleVars>>
  \/ pc = "terminal" /\ Next_boot_heap /\ UNCHANGED moduleVars

LoadModule ==
  \/ load_code_pages
  \/ clean_code
  \/ copy_code_byte
  \/ load_data_and_stack
  \/ load_stack
  \/ save_kernel_state
  \/ jump_to_module_code

Handle ==
  \/ handler_returns
  \/ exit_module
  \/ panic
  \/ exit_label

(* What its users and the devices do.                                      *)
Request ==
  /\ At("terminal") /\ Len(bins) + starts < MaxCalls
  /\ \/ Next_requests /\ UNCHANGED moduleVars
     \/ start_module

UseModule ==
  \/ \E v \in Vectors, a \in Eax : ModuleInt(v, a)
  \/ ModulePageFault

Interrupt ==
  \/ \E n \in Irqs : Irq(n)
  \/ NonMaskable

Next ==
  \/ Start
  \/ LoadModule
  \/ Handle
  \/ Request
  \/ UseModule
  \/ Interrupt

(* The processor goes on: the kernel's own steps are taken.  Nothing makes *)
(* a user, a module or a device do anything.                               *)
Fairness == WF_vars(Start) /\ WF_vars(LoadModule) /\ WF_vars(Handle)

Spec == Init /\ [][Next]_vars /\ Fairness

-----------------------------------------------------------------------------
Entered == stage \notin {"loader_main", "hang", "get_biggest_memory_chunk", "init_gdt",
                        "copy_data", "copy_code", "goto_kernel", "wrecked"}
OwnTable == gdtr = "kernel"

(* What the processor takes a register's segment for.                      *)
Describes(register, area, access) ==
  LET d == cpu[register].d
  IN  /\ d.access = access /\ BaseOf(d) = area.base
      /\ area.len <= Reach(d) /\ Reach(d) <= area.len + PAGE_SIZE

(* The segment registers describe the segments that the code running takes *)
(* them for, and reach one page too far at most, at every step: while the  *)
(* bitmap has wiped the table they were loaded from, when the kernel's own *)
(* table gives the selectors other meanings, in handlers and in a module.  *)
SegmentRegistersHold ==
  Entered =>
    /\ \A r \in {"ds", "ss"} :
         Describes(r, segments.data, IF pc = "module" THEN UserData ELSE KernelData)
    /\ Describes("cs", segments.code, IF pc = "module" THEN UserCode ELSE KernelCode)
    /\ OwnTable /\ pc # "module" =>
         /\ Describes("fs", segments.module, KernelData)
         /\ Describes("es", Area(VIDEO_BASE_ADDR, VIDEO_SIZE), KernelData)
         /\ \/ Describes("gs", segments.data, KernelData)
            \/ pc \in {"clean", "copy", "load data"} /\ Describes("gs", segments.code, KernelData)

(* The kernel's data with the pages of the GDT, the IDT and the directory. *)
Straddles ==
  info.data.base \div TableSpan
    # (info.data.base + data_top + (2 + DIR_PAGES) * PAGE_SIZE - 1) \div TableSpan

(* Once the terminal runs: no page that is mapped lies where the window    *)
(* shows a page table, whichever tables there will be, if the map suits    *)
(* and no byte of a module went astray; the heap ends below the stacks,    *)
(* and begins below a module's data.  It ends below them too unless the    *)
(* kernel's data lie across a multiple of 4 MB; then as much of it as a    *)
(* page table maps may lie under them (init_paging_tables and init_heap).  *)
LayoutHolds ==
  stage = "running" =>
    /\ Suitable /\ ~disturbed => \A t \in 0 .. ENTRIES - 1 : Slot(t) \notin mapped
    /\ heap_start + heap_size + 2 * PAGE_SIZE <= info.data.len
    /\ heap_start < MODULE_DATA_LOAD_ADDR
    /\ heap_start + heap_size
         <= MODULE_DATA_LOAD_ADDR + (IF Straddles THEN TableSpan ELSE 0)

(* Every block that malloc or calloc returned lies in mapped pages between *)
(* the start of the heap and the break, apart from the others, and what    *)
(* calloc cleared lies in it.  It is as long as it was asked to be, with   *)
(* its header, unless the product that calloc takes wrapped, or the size   *)
(* that malloc takes was within a header and a page of 2^32; calloc does   *)
(* not return from such a size (klmalloc, klcalloc and sbrk).              *)
BinsLieBelowBreak ==
  \A i \in DOMAIN bins :
    LET b == bins[i]
    IN  /\ heap_start <= b.addr /\ b.addr + b.len <= heap_brk
        /\ Linear(info.data, b.addr, Pages(b.len)) \subseteq mapped
        /\ \A j \in DOMAIN bins : j < i => bins[j].addr + bins[j].len <= b.addr
        /\ b.cleared > 0 => HEADER + b.cleared <= b.len
        /\ \/ HEADER + b.asked <= b.len
           \/ b.asked >= MODULUS
           \/ b.cleared = 0 /\ b.asked + HEADER + PAGE_SIZE >= MODULUS

(* The code of a module that init_module admits is copied whole, from      *)
(* inside its image, to pages that begin in the code segment and end less  *)
(* than a page above it; its data are copied whole, or, if their end wraps,*)
(* not at all, to pages below the kernel's stack, the last of which may be *)
(* the page that is then mapped as the module's stack.  The entry point,   *)
(* as an offset of the image, lies in the code; as an address it lies in   *)
(* the code that was loaded, or as far behind it as the code in the image  *)
(* is behind the image's start.                                            *)
AdmittedModuleFits ==
  initialized =>
    /\ CopiedCode(Header) = Header.code_offset .. Header.code_offset + Header.code_size - 1
    /\ \/ CopiedData(Header) = Header.data_offset .. Header.data_offset + Header.data_size - 1
       \/ CopiedData(Header) = {} /\ Header.data_offset + Header.data_size >= MODULUS
    /\ CopiedCode(Header) \cup CopiedData(Header) \subseteq 0 .. segments.module.len - 1
    /\ CodeEnd(Header) < segments.code.len + PAGE_SIZE
    /\ DataEnd(Header) + PAGE_SIZE <= segments.data.len
    /\ EntryOffset(Header) \in CopiedCode(Header)
    /\ MODULE_CODE_LOAD_ADDR < Header.entry_point
    /\ Header.entry_point < MODULE_CODE_LOAD_ADDR + Header.code_offset + Header.code_size

(* Once loaded, each byte of the module's code is in its place, or an      *)
(* interrupt during the loading turned gs to the data segment and the byte *)
(* went there; without such an interrupt all is in place and the rest of   *)
(* the pages is zero but for its last three bytes                          *)
(* (load_module_code_and_data and the end of irq_common_stub).             *)
CodeIsWhole ==
  loaded =>
    /\ \A i \in 0 .. Header.code_size - 1 :
         code_mem[i] = Header.code_offset + i \/ (disturbed /\ i \in strays)
    /\ ~disturbed =>
         /\ strays = {}
         /\ \A i \in Header.code_size .. CodePages * PAGE_SIZE - 4 : code_mem[i] = ZERO

(* As long as a module runs, and in every handler that interrupts it, the  *)
(* state that exit_module is to restore is the one of the start_module that*)
(* waits for it, and the TSS leads to the stack above its frame; running   *)
(* says so, which is how isr_handler tells a module from the kernel.       *)
ExitStateIsValid ==
  /\ running <=> pc = "module" \/ (\E i \in DOMAIN kstack :
                                    kstack[i].what = "interrupt" /\ kstack[i].user)
  /\ running => /\ kernel_state.esp = tss.esp0 /\ tss.ss0 = KernelSelectors.ss
                /\ kernel_state.esp <= Len(kstack)
                /\ kstack[kernel_state.esp].what = "start_module"
                /\ kernel_state.flag

(* Whenever the terminal goes on, after a handler, a module that was left, *)
(* killed, or refused, it has its own registers, its own stack and         *)
(* interrupts (restore_kernel_state and the stubs).                        *)
TerminalIsItself ==
  At("terminal") =>
    /\ \A r \in Registers : cpu[r].sel = KernelSelectors[r]
    /\ kstack = <<Frame("terminal")>>
    /\ interrupts /\ ~running

(* Interrupts that are off come on again, at boot and after each handler,  *)
(* unless the machine stops for good.                                      *)
Stopped == {"hang", "halted", "wrecked"}
InterruptsComeBack == ~interrupts ~> (interrupts \/ stage \in Stopped)

=============================================================================
