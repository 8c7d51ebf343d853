-------------------------- MODULE ModuleLifecycle --------------------------
(***************************************************************************)
(* A loadable module from start_module to exit_module: src/module_loader.c,*)
(* src/module.c, src/syscall.c, src/isr.c and src/interrupt.s, on a        *)
(* processor with two rings.  The kernel's stack is a sequence of frames.  *)
(* Interrupts come between any two steps that have them enabled.           *)
(***************************************************************************)
EXTENDS KHeap, ModuleHeader

CONSTANTS
  Eax,                  \* the numbers of system calls a module may use
  Irqs,                 \* the IRQs that come
  MaxIrqs               \* bound on the interrupts

(* The programmable interrupt controllers raise 16 IRQs.                   *)
ASSUME IrqsAssumption == Irqs \subseteq 0 .. 15

(* The fields of a module's header are words.                              *)
ASSUME HeadersAssumption ==
  \A b \in Boots :
    /\ b.header.code_offset \in Word /\ b.header.code_size \in Word
    /\ b.header.data_offset \in Word /\ b.header.data_size \in Word
    /\ b.header.entry_point \in Word

VARIABLES
  pc,                   \* what runs: the terminal, the loader, a module, ...
  running, initialized, loaded,         \* module_info's flags
  kernel_state,
  kstack,               \* the frames on the kernel's stack
  code_mem,             \* the bytes of the pages of the module's code
  at,                   \* the byte that a loop of the loader has come to
  strays,               \* the bytes it wrote elsewhere (history)
  disturbed,            \* an interrupt changed gs in a loop (history)
  irqs, starts          \* counted for bounds

flagVars == <<running, initialized, loaded>>
codeVars == <<code_mem, at, strays, disturbed>>
moduleVars == <<pc, flagVars, kernel_state, kstack, codeVars, irqs, starts>>
bootVars == <<layoutVars, damaged, args, info, tableVars, idt, handlers, heapVars>>

Frame(what) == [what |-> what]

Init_module ==
  /\ pc = "terminal"
  /\ running = FALSE /\ initialized = FALSE /\ loaded = FALSE
  /\ kernel_state = [esp |-> 0] /\ kstack = <<Frame("terminal")>>
  /\ code_mem = <<>> /\ at = 0 /\ strays = {} /\ disturbed = FALSE
  /\ irqs = 0 /\ starts = 0

ZERO == -1
JUNK == -2

Header == mbi.header
At(p) == stage = "running" /\ pc = p
WithSelectors(regs) == [r \in Registers |-> IF r \in DOMAIN regs THEN Load(gdt, regs[r]) ELSE cpu[r]]

-----------------------------------------------------------------------------
(* start_module up to the loading: a module that was admitted once is not  *)
(* checked again, one that was loaded is not loaded again.                 *)
start_module ==
  /\ At("terminal")
  /\ starts' = starts + 1
  /\ \/ /\ info.module.len > 0
        /\ initialized \/ Admitted(Header, info.code.len, info.data.len, info.module.len)
        /\ initialized' = TRUE
        /\ pc' = IF loaded THEN "save" ELSE "load code"
        /\ kstack' = Append(kstack, Frame("start_module"))
     \/ /\ ~initialized
        /\ info.module.len = 0 \/ ~Admitted(Header, info.code.len, info.data.len, info.module.len)
        /\ UNCHANGED <<initialized, pc, kstack>>
  /\ UNCHANGED <<stage, bootVars, memoryVars, processorVars, tss, interrupts, running, loaded,
                 kernel_state, codeVars, irqs>>

(* Pages of the data segment and the tables for them, allocated and mapped,*)
(* or the assertion that they could be had.                                *)
MapData(rel, n, next) ==
  LET pages  == Linear(info.data, rel, n)
      needed == n + Cardinality(NewTables(pages))
  IN  /\ stage' \in IF needed <= Cardinality(FreeData) THEN {stage} ELSE {"halted", "wrecked"}
      /\ data_marks' = data_marks \cup FirstFree(FreeData, needed)
      /\ tables' = tables \cup NewTables(pages)
      /\ mapped' = mapped \cup pages
      /\ pc' = next

CodePages == PageCount(Header.code_size)

(* gs gets the code segment as data, and the pages of the code are mapped. *)
load_code_pages ==
  LET pages  == Linear(info.code, MODULE_CODE_LOAD_ADDR, CodePages)
  IN  /\ At("load code")
      /\ cpu' = WithSelectors([gs |-> 56])
      /\ stage' = IF CodePages > Cardinality(FreeCode) THEN "halted"
                  ELSE IF Cardinality(NewTables(pages)) > Cardinality(FreeData) THEN NoPage
                  ELSE stage
      /\ pc' = "clean" /\ at' = 0
      /\ code_marks' = code_marks \cup FirstFree(FreeCode, CodePages)
      /\ data_marks' = data_marks \cup FirstFree(FreeData, Cardinality(NewTables(pages)))
      /\ tables' = tables \cup NewTables(pages) /\ mapped' = mapped \cup pages
      /\ code_mem' = [i \in 0 .. CodePages * PAGE_SIZE - 1 |-> JUNK]
      /\ UNCHANGED <<bootVars, gdt, gdtr, tss, interrupts, flagVars, kernel_state, kstack,
                     strays, disturbed, irqs, starts>>

(* A byte stored through gs.  If gs is the data segment the byte goes to   *)
(* the same offset there: over a page table, into a page that is mapped,   *)
(* or into one that the page fault maps.                                   *)
StoreByte(byte) ==
  LET page   == CHOOSE p \in Linear(info.data, MODULE_CODE_LOAD_ADDR + at, 1) : TRUE
      astray == cpu.gs.sel # 56
      faults == astray /\ page \notin mapped \cup {Slot(t) : t \in tables}
  IN  /\ code_mem' = IF astray THEN code_mem ELSE [code_mem EXCEPT ![at] = byte]
      /\ strays' = IF astray THEN strays \cup {at} ELSE strays
      /\ IF faults
         THEN /\ AllocData(1 + Cardinality(NewTables({page})), stage)
              /\ tables' = tables \cup NewTables({page}) /\ mapped' = mapped \cup {page}
         ELSE /\ stage' = IF astray /\ page \notin mapped THEN "wrecked" ELSE stage
              /\ UNCHANGED <<data_marks, tables, mapped>>
      /\ UNCHANGED code_marks

LoopVars == <<bootVars, processorVars, tss, interrupts, flagVars, kernel_state, kstack,
              disturbed, irqs, starts>>

(* Mutant of CleanEnd: it stops before the last page.                      *)
CleanEnd_page_early == (CodePages - 1) * PAGE_SIZE

(* The pages are cleared but for their last three bytes, then the code is  *)
(* copied over them.                                                       *)
CleanEnd == CodePages * PAGE_SIZE - 3

clean_code ==
  /\ At("clean")
  /\ \/ /\ at < CleanEnd
        /\ StoreByte(ZERO)
        /\ at' = at + 1 /\ UNCHANGED pc
     \/ /\ at >= CleanEnd
        /\ pc' = "copy" /\ at' = 0
        /\ UNCHANGED <<stage, memoryVars, code_mem, strays>>
  /\ UNCHANGED LoopVars

copy_code_byte ==
  /\ At("copy")
  /\ \/ /\ Header.code_offset + at < CodeMax(Header)
        /\ StoreByte(Header.code_offset + at)
        /\ at' = at + 1 /\ UNCHANGED pc
     \/ /\ Header.code_offset + at >= CodeMax(Header)
        /\ pc' = "load data"
        /\ UNCHANGED <<stage, memoryVars, code_mem, strays, at>>
  /\ UNCHANGED LoopVars

(* gs as before; the pages of the data, and the module's stack below the   *)
(* kernel's.  ds survives an interrupt, so the copy of the data does too.  *)
load_data_and_stack ==
  /\ At("load data")
  /\ cpu' = WithSelectors([gs |-> 16])
  /\ MapData(MODULE_DATA_LOAD_ADDR, PageCount(Header.data_size), "load stack")
  /\ UNCHANGED <<bootVars, code_marks, gdt, gdtr, tss, interrupts, flagVars, kernel_state,
                 kstack, codeVars, irqs, starts>>

load_stack ==
  /\ At("load stack")
  /\ MapData(Sub(info.data.len, 2 * PAGE_SIZE), 1, "save")
  /\ loaded' = TRUE
  /\ UNCHANGED <<bootVars, code_marks, processorVars, tss, interrupts, running, initialized,
                 kernel_state, kstack, codeVars, irqs, starts>>

-----------------------------------------------------------------------------
(* Mutant of set_kernel_stack_in_tss: it is left as it was at boot.        *)
set_kernel_stack_in_tss_forgotten(esp) == tss

set_kernel_stack_in_tss(esp) == [tss EXCEPT !.esp0 = esp]

(* Mutant of SavedState: the flags are saved after cli.                    *)
SavedState_after_cli ==
  [esp |-> Len(kstack), flag |-> FALSE,
   regs |-> [r \in {"cs", "ss", "ds", "es", "fs"} |-> cpu[r].sel]]

(* save_kernel_state: what exit_module is to restore.                      *)
SavedState ==
  [esp |-> Len(kstack), flag |-> interrupts,
   regs |-> [r \in {"cs", "ss", "ds", "es", "fs"} |-> cpu[r].sel]]

save_kernel_state ==
  /\ At("save")
  /\ tss' = set_kernel_stack_in_tss(Len(kstack))
  /\ kernel_state' = SavedState
  /\ pc' = "jump"
  /\ UNCHANGED <<stage, bootVars, memoryVars, processorVars, interrupts, flagVars, kstack,
                 codeVars, irqs, starts>>

jump_to_module_code ==
  /\ At("jump")
  /\ running' = TRUE
  /\ cpu' = WithSelectors([r \in Registers |-> IF r = "cs" THEN 27 ELSE 35])
  /\ interrupts' = TRUE
  /\ pc' = "module"
  /\ UNCHANGED <<stage, bootVars, memoryVars, gdt, gdtr, tss, initialized, loaded,
                 kernel_state, kstack, codeVars, irqs, starts>>

(* The processor and the stub of interrupt.s: a ring-3 program's frame goes*)
(* to the stack of the TSS.  Every gate leads to ring 0, and cli follows.  *)
Enter(vector, eax) ==
  LET below == IF pc = "module" THEN SubSeq(kstack, 1, tss.esp0) ELSE kstack
  IN  /\ kstack' = Append(below,
                     [what |-> "interrupt", vector |-> vector, eax |-> eax,
                      user |-> pc = "module", pc |-> pc, flag |-> interrupts,
                      regs |-> [r \in Registers |-> cpu[r].sel]])
      /\ cpu' = WithSelectors(KernelSelectors)
      /\ interrupts' = FALSE
      /\ pc' = "handler"
      /\ UNCHANGED <<stage, bootVars, memoryVars, gdt, gdtr, tss, flagVars, kernel_state,
                     codeVars, starts>>

Irq(n) ==
  /\ stage \in {"init_buf", "running"} /\ interrupts /\ irqs < MaxIrqs
  /\ irqs' = irqs + 1
  /\ Enter(IRQ0 + n, 0)

(* An interrupt that nothing masks, and that has no handler.               *)
NMI == 2
NonMaskable ==
  /\ stage = "running" /\ irqs < MaxIrqs
  /\ irqs' = irqs + 1
  /\ Enter(NMI, 0)

(* int 0x80, or an instruction that faults; an int whose gate is not for   *)
(* ring 3 faults too.                                                      *)
GENERAL_PROTECTION == 13
ModuleInt(vector, eax) ==
  /\ At("module")
  /\ Enter(IF vector \in DOMAIN idt /\ idt[vector].dpl = 3 THEN vector ELSE GENERAL_PROTECTION, eax)
  /\ UNCHANGED irqs

ModulePageFault ==
  /\ At("module")
  /\ Enter(PAGE_FAULT, 0)
  /\ UNCHANGED irqs

-----------------------------------------------------------------------------
Top == kstack[Len(kstack)]
EXIT == 4
IsIrq(vector) == vector \in IRQ0 .. IRQ0 + 15

(* When a handler does not come back: exit_module.                         *)
Exits(f) ==
  \/ f.vector = SYSCALL /\ f.vector \in handlers /\ f.eax = EXIT
  \/ f.vector = PAGE_FAULT /\ f.vector \in handlers /\ f.user
  \/ ~IsIrq(f.vector) /\ f.vector \notin handlers /\ running
Panics(f) == ~IsIrq(f.vector) /\ f.vector \notin handlers /\ ~running

InHandler == stage \in {"init_buf", "running"} /\ pc = "handler"

(* The end of the stub: fs, es and ds from the stack, and ds into gs.      *)
Restored(f) == WithSelectors([f.regs EXCEPT !.gs = f.regs.ds])

handler_returns ==
  /\ InHandler /\ ~Exits(Top) /\ ~Panics(Top)
  /\ cpu' = Restored(Top)
  /\ interrupts' = Top.flag
  /\ pc' = Top.pc
  /\ kstack' = SubSeq(kstack, 1, Len(kstack) - 1)
  /\ disturbed' = (disturbed \/ (Top.pc \in {"clean", "copy"} /\ cpu'.gs.sel # Top.regs.gs))
  /\ UNCHANGED <<stage, bootVars, memoryVars, gdt, gdtr, tss, flagVars, kernel_state,
                 code_mem, at, strays, irqs, starts>>

(* exit_module: restore_kernel_state, and on at exit_label.                *)
exit_module ==
  /\ InHandler /\ Exits(Top)
  /\ running' = FALSE
  /\ cpu' = WithSelectors([r \in Registers |->
              kernel_state.regs[IF r = "gs" THEN "ds" ELSE r]])
  /\ interrupts' = kernel_state.flag
  /\ pc' = "exit_label" /\ kstack' = SubSeq(kstack, 1, kernel_state.esp)
  /\ UNCHANGED <<stage, bootVars, memoryVars, gdt, gdtr, tss, initialized, loaded,
                 kernel_state, codeVars, irqs, starts>>

(* panic: interrupts off, for ever.                                        *)
panic ==
  /\ InHandler /\ Panics(Top)
  /\ stage' = "halted"
  /\ UNCHANGED <<bootVars, memoryVars, processorVars, tss, interrupts, moduleVars>>

(* start_module returns to the terminal.                                   *)
exit_label ==
  /\ At("exit_label")
  /\ stage' = IF Top.what = "start_module" THEN stage ELSE "wrecked"
  /\ kstack' = SubSeq(kstack, 1, Len(kstack) - 1)
  /\ pc' = "terminal"
  /\ UNCHANGED <<bootVars, memoryVars, processorVars, tss, interrupts, flagVars, kernel_state,
                 codeVars, irqs, starts>>

=============================================================================
