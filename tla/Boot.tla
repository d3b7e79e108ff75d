-------------------------------- MODULE Boot --------------------------------
(***************************************************************************)
(* kernel_main: the tables that it gives the processor (gdt.c, paging.c,   *)
(* idt.c), the drivers, the heap and the first task that it sets up, the   *)
(* order in which it does so, and the drop to ring 3 (user_mode.S), while  *)
(* devices raise interrupts and the machine may be reset.                  *)
(*                                                                         *)
(* The boot loader enters the kernel with interrupts off, so that a step   *)
(* before sti is as large as what it sets up.  How the processor uses the  *)
(* tables (Mapped, Enterable) is external.  An exception or interrupt that *)
(* cannot be delivered ends in a triple fault, which resets the machine.   *)
(* After a reset it boots again, and its memory is what it was or cleared: *)
(* the kernel clears neither .bss nor the heap itself.                     *)
(***************************************************************************)
EXTENDS Integers, Sequences, FiniteSetsExt

CONSTANTS
  first_page_table_raw,  \* where the linker puts the array of that name
  MaxResets              \* bound on the resets from outside

VARIABLES
  cpu,      \* the processor and the PIC:
            \*   pc          the next call of kernel_main; "link" is inside
            \*               tasking_init, "wild" a processor that executes
            \*               what is no code of the kernel
            \*   cpl         the privilege level, 0 or 3
            \*   interrupts  EFLAGS.IF
            \*   paging      CR0.PG
            \*   gdt         descriptor -> access byte, of the table in use
            \*   idtr        lidt has been executed
            \*   pic_base    the vector of IRQ 0
            \*   masked      the IRQs masked
  mem,      \* what the kernel keeps in .bss and in the heap:
            \*   esp0              tss_entry.esp0
            \*   page_directory    its 1024 entries
            \*   first_page_table  its 1024 entries
            \*   idt               vector -> type_attr
            \*   current_task
            \*   heap              address -> word, of the heap's beginning
  pending,  \* the IRQs raised and not yet taken
  drive,    \* the primary master, the same in every boot: it "works", its
            \* status never shows DRQ ("silent": none is attached, or it has
            \* failed) or always shows BSY ("floating": no controller)
  resets,   \* resets from outside so far
  cut       \* history: a reset has left current_task set and its next not

outside == <<pending, drive, resets, cut>>
vars    == <<cpu, mem, outside>>

NULL == 0

IRQs == {0, 1, 6} \* timer, keyboard, and a device the kernel has no driver for

Vectors == {14, 128} \cup {8 + n : n \in IRQs} \cup {32 + n : n \in IRQs}

(* Bits of the entries. *)
DPL(access)    == (access \div 32) % 4
Present(flags) == flags % 2 = 1
User(flags)    == (flags \div 4) % 2 = 1
Valid(gate)    == gate >= 128

(* The page table, aligned. *)
PAGE_SIZE        == 4096
Entries          == 0 .. 1023
first_page_table == ((first_page_table_raw + PAGE_SIZE - 1) \div PAGE_SIZE) * PAGE_SIZE

(* Pages: the first of the kernel, where user_main is too; that of the     *)
(* page table; the stack below 0x90000; video memory; the ends of the      *)
(* heap; and the page below address 0.                                     *)
KERNEL_PAGE == 1
KernelPages == {KERNEL_PAGE, first_page_table \div PAGE_SIZE, 143, 184, 256, 511}
TOP_PAGE    == 1048575

(* The array lies between the kernel's code and its stack. *)
ASSUME BootAssumption ==
  /\ first_page_table_raw \in PAGE_SIZE .. (589824 - 2 * PAGE_SIZE)
  /\ MaxResets \in Nat

KERNEL_CS == 8    \* 0x08
USER_CS   == 27   \* 0x1B

-----------------------------------------------------------------------------
(* The heap: a block is a header of three words, size, is_free and next,   *)
(* and its data.  HeapWords are those that a boot reads or writes.         *)
HEAP_START == 1048576   \* 0x100000
HEAP_SIZE  == 1048576
HEADER     == 12        \* sizeof(block_header_t)
HeapWords  == {HEAP_START + 4 * k : k \in 0 .. 113}

Size(h, b)   == h[b]
IsFree(h, b) == h[b + 4] # 0
Link(h, b)   == h[b + 8]

(* The headers on the way from free_list: the kernel makes three blocks    *)
(* of the first, so that a way that is longer is no list.                  *)
MaxBlocks == 4

Way(h) ==
  LET at[n \in 0 .. MaxBlocks] ==
        IF n = 0 THEN HEAP_START
        ELSE IF at[n - 1] = NULL THEN NULL ELSE Link(h, at[n - 1])
  IN  at

(* memory_alloc: the pointer, and the heap after it. *)
memory_alloc(h, size) ==
  LET aligned == ((size + 3) \div 4) * 4
      at      == Way(h)
      fits    == {n \in 0 .. MaxBlocks :
                    at[n] # NULL /\ IsFree(h, at[n]) /\ Size(h, at[n]) >= aligned}
      b       == at[Min(fits)]
      new     == b + HEADER + aligned
  IN  IF fits = {} THEN [ptr |-> NULL, heap |-> h]
      ELSE [ptr  |-> b + HEADER,
            heap |-> IF Size(h, b) >= aligned + HEADER + 4
                     THEN [h EXCEPT ![new] = Size(h, b) - aligned - HEADER, ![new + 4] = 1,
                                    ![new + 8] = Link(h, b),
                                    ![b] = aligned, ![b + 4] = 0, ![b + 8] = new]
                     ELSE [h EXCEPT ![b + 4] = 0]]

(* The first task: sizeof(task_t), and current_task->next. *)
TCB_SIZE  == 24
NextOf(t) == t + 20

Linked == mem.heap[NextOf(mem.current_task)] = mem.current_task

-----------------------------------------------------------------------------
(* Mutants: plausible mistakes in the definitions below. *)

(* Only the first megabyte is mapped. *)
Mut_FillPageTables ==
  /\ cpu.pc = "paging" /\ cpu' = [cpu EXCEPT !.pc = "enable"]
  /\ mem' = [mem EXCEPT
       !.page_directory   = [k \in Entries |-> IF k = 0 THEN first_page_table + 3 ELSE 2],
       !.first_page_table = [k \in Entries |-> IF k < 256 THEN k * PAGE_SIZE + 3 ELSE @[k]]]
  /\ UNCHANGED outside

(* No gate for the keyboard. *)
Mut_InstallGates ==
  /\ cpu.pc = "gates" /\ cpu' = [cpu EXCEPT !.pc = "lidt"]
  /\ mem' = [mem EXCEPT !.idt[14] = 142, !.idt[32] = 142, !.idt[128] = 238]
  /\ UNCHANGED outside

(* next is taken to be NULL already. *)
Mut_memory_init(h) ==
  [h EXCEPT ![HEAP_START] = HEAP_SIZE - HEADER, ![HEAP_START + 4] = 1]

(* No cli. *)
Mut_TaskAlloc ==
  /\ cpu.pc = "tasking" /\ cpu' = [cpu EXCEPT !.pc = "link"]
  /\ LET tcb == memory_alloc(mem.heap, TCB_SIZE)
     IN  mem' = [mem EXCEPT !.heap = tcb.heap, !.current_task = tcb.ptr]
  /\ UNCHANGED outside

-----------------------------------------------------------------------------
(* How the boot loader enters the kernel, after the BIOS. *)
Entry ==
  [pc |-> "gdt", cpl |-> 0, interrupts |-> FALSE, paging |-> FALSE,
   gdt |-> [n \in 0 .. 5 |-> CASE n = 1 -> 154 [] n = 2 -> 146 [] OTHER -> 0],
   idtr |-> FALSE, pic_base |-> 8, masked |-> {}]

Cleared ==
  [esp0 |-> 0,
   page_directory |-> [k \in Entries |-> 0], first_page_table |-> [k \in Entries |-> 0],
   idt |-> [v \in Vectors |-> 0], current_task |-> NULL, heap |-> [w \in HeapWords |-> 0]]

Init ==
  /\ cpu = Entry /\ mem = Cleared /\ pending = {}
  /\ drive \in {"works", "silent", "floating"}
  /\ resets = 0 /\ cut = FALSE

-----------------------------------------------------------------------------
(* The tables lead an access to a page, at level l, to that very page. *)
Mapped(page, l) ==
  LET pde == mem.page_directory[page \div 1024]
      pte == mem.first_page_table[page % 1024]
  IN  /\ Present(pde) /\ pde \div PAGE_SIZE = first_page_table \div PAGE_SIZE
      /\ Present(pte) /\ pte \div PAGE_SIZE = page
      /\ l = 3 => User(pde) /\ User(pte)

Accessible(page, l) == cpu.paging => Mapped(page, l)

(* The page that the first push of a handler entered from ring 3 writes. *)
StackPage == IF mem.esp0 = 0 THEN TOP_PAGE ELSE (mem.esp0 - 1) \div PAGE_SIZE

(* The handler of a vector can be entered from level l: its gate is        *)
(* present, its code segment is of ring 0, and its code and stack are      *)
(* there.                                                                  *)
Enterable(v, l) ==
  /\ cpu.idtr /\ Valid(mem.idt[v])
  /\ DPL(cpu.gdt[KERNEL_CS \div 8]) = 0
  /\ Accessible(KERNEL_PAGE, 0)
  /\ l = 3 => Accessible(StackPage, 0)

(* The machine starts again, with its memory or without. *)
Restart(keep) ==
  /\ cpu' = Entry /\ pending' = {}
  /\ mem' = IF keep THEN mem ELSE Cleared
  /\ UNCHANGED drive

(* A triple fault. *)
TripleFault ==
  /\ \E keep \in BOOLEAN : Restart(keep) /\ cut' = (cut /\ keep)
  /\ UNCHANGED resets

-----------------------------------------------------------------------------
(* gdt_init: the six descriptors, the TSS, lgdt and ltr. *)
GdtInit ==
  /\ cpu.pc = "gdt"
  /\ cpu' = [cpu EXCEPT !.pc = "paging",
       !.gdt = [n \in 0 .. 5 |-> CASE n = 0 -> 0   [] n = 1 -> 154 [] n = 2 -> 146
                                   [] n = 3 -> 250 [] n = 4 -> 242 [] n = 5 -> 233]]
  /\ mem' = [mem EXCEPT !.esp0 = 0]
  /\ UNCHANGED outside

(* paging_init: the tables, which map the first 4 MB to themselves ... *)
FillPageTables ==
  /\ cpu.pc = "paging" /\ cpu' = [cpu EXCEPT !.pc = "enable"]
  /\ mem' = [mem EXCEPT
       !.page_directory   = [k \in Entries |-> IF k = 0 THEN first_page_table + 3 ELSE 2],
       !.first_page_table = [k \in Entries |-> k * PAGE_SIZE + 3]]
  /\ UNCHANGED outside

(* ... and load_page_directory and enable_paging.  There is no IDT yet:    *)
(* the first page fault is the last.                                       *)
EnablePaging ==
  /\ cpu.pc = "enable"
  /\ IF \A page \in KernelPages : Mapped(page, 0)
     THEN cpu' = [cpu EXCEPT !.pc = "pic", !.paging = TRUE] /\ UNCHANGED <<mem, outside>>
     ELSE TripleFault

(* idt_init: clears the IDT and calls pic_remap ... *)
PicRemap ==
  /\ cpu.pc = "pic"
  /\ cpu' = [cpu EXCEPT !.pc = "gates", !.pic_base = 32, !.masked = IRQs \ {0, 1}]
  /\ mem' = [mem EXCEPT !.idt = [v \in Vectors |-> 0]]
  /\ UNCHANGED outside

(* ... sets the gates, that of int 0x80 for ring 3 ... *)
InstallGates ==
  /\ cpu.pc = "gates" /\ cpu' = [cpu EXCEPT !.pc = "lidt"]
  /\ mem' = [mem EXCEPT !.idt[14] = 142, !.idt[32] = 142, !.idt[33] = 142, !.idt[128] = 238]
  /\ UNCHANGED outside

(* ... and executes lidt and sti. *)
LoadIdt ==
  /\ cpu.pc = "lidt"
  /\ cpu' = [cpu EXCEPT !.pc = "timer", !.idtr = TRUE, !.interrupts = TRUE]
  /\ UNCHANGED <<mem, outside>>

(* timer_init and keyboard_init, whose state is that of other modules. *)
InitDriver ==
  /\ cpu.pc \in {"timer", "keyboard"}
  /\ cpu' = [cpu EXCEPT !.pc = IF cpu.pc = "timer" THEN "keyboard" ELSE "ata"]
  /\ UNCHANGED <<mem, outside>>

(* ata_init: IDENTIFY, and ata_wait_bsy unless the status is 0. *)
AtaInit ==
  /\ cpu.pc = "ata" /\ drive # "floating"
  /\ cpu' = [cpu EXCEPT !.pc = "fat16"]
  /\ UNCHANGED <<mem, outside>>

(* fat16_init: ata_read_sector waits for DRQ; its result is not looked at. *)
Fat16Init ==
  /\ cpu.pc = "fat16" /\ drive = "works"
  /\ cpu' = [cpu EXCEPT !.pc = "memory"]
  /\ UNCHANGED <<mem, outside>>

(* memory_init: one block, over what the boot before has left. *)
memory_init(h) ==
  [h EXCEPT ![HEAP_START] = HEAP_SIZE - HEADER, ![HEAP_START + 4] = 1, ![HEAP_START + 8] = NULL]

MemoryInit ==
  /\ cpu.pc = "memory" /\ cpu' = [cpu EXCEPT !.pc = "ptr1"]
  /\ mem' = [mem EXCEPT !.heap = memory_init(@)]
  /\ UNCHANGED outside

(* The allocation test. *)
TestAlloc(pc, size, next) ==
  /\ cpu.pc = pc /\ cpu' = [cpu EXCEPT !.pc = next]
  /\ mem' = [mem EXCEPT !.heap = memory_alloc(@, size).heap]
  /\ UNCHANGED outside

(* tasking_init: cli, and current_task = memory_alloc(sizeof(task_t)) ... *)
TaskAlloc ==
  /\ cpu.pc = "tasking" /\ cpu' = [cpu EXCEPT !.pc = "link", !.interrupts = FALSE]
  /\ LET tcb == memory_alloc(mem.heap, TCB_SIZE)
     IN  mem' = [mem EXCEPT !.heap = tcb.heap, !.current_task = tcb.ptr]
  /\ UNCHANGED outside

(* ... and current_task->next = current_task, after the other fields, sti. *)
TaskLink ==
  /\ cpu.pc = "link" /\ cpu' = [cpu EXCEPT !.pc = "user", !.interrupts = TRUE]
  /\ mem' = [mem EXCEPT !.heap[NextOf(mem.current_task)] = mem.current_task]
  /\ cut' = FALSE
  /\ UNCHANGED <<pending, drive, resets>>

(* switch_to_user_mode: cli, and an iret that sets IF. *)
SwitchToUserMode ==
  /\ cpu.pc = "user" /\ DPL(cpu.gdt[USER_CS \div 8]) = USER_CS % 4
  /\ cpu' = [cpu EXCEPT !.pc = "user_main", !.cpl = USER_CS % 4, !.interrupts = TRUE]
  /\ UNCHANGED <<mem, outside>>

-----------------------------------------------------------------------------
(* A device raises an interrupt. *)
Raise(n) ==
  /\ n \notin pending /\ pending' = pending \cup {n}
  /\ UNCHANGED <<cpu, mem, drive, resets, cut>>

(* task_switch returns early: there is no task, or only one. *)
NoSwitch == mem.current_task # NULL => Linked

(* The processor takes it.  irq0_handler and irq1_handler run with         *)
(* interrupts off up to the EOI and iret.  In kernel_main there is at most *)
(* one task: a switch loads esp from what is no task at all.               *)
Irq(n) ==
  /\ cpu.interrupts /\ n \in pending \ cpu.masked
  /\ \/ /\ Enterable(cpu.pic_base + n, cpu.cpl) /\ (n = 0 => NoSwitch)
        /\ pending' = pending \ {n} /\ UNCHANGED <<cpu, mem, drive, resets, cut>>
     \/ /\ Enterable(cpu.pic_base + n, cpu.cpl) /\ n = 0 /\ ~ NoSwitch
        /\ pending' = pending \ {n}
        /\ cpu' = [cpu EXCEPT !.pc = "wild", !.interrupts = FALSE]
        /\ UNCHANGED <<mem, drive, resets, cut>>
     \/ ~ Enterable(cpu.pic_base + n, cpu.cpl) /\ TripleFault

(* The processor fetches user_main's first instruction: isr14_handler      *)
(* prints and halts for ever, if it can be entered.                        *)
UserFetch ==
  /\ cpu.pc = "user_main" /\ ~ Accessible(KERNEL_PAGE, 3)
  /\ IF Enterable(14, 3)
     THEN /\ cpu' = [cpu EXCEPT !.pc = "panic", !.cpl = 0, !.interrupts = FALSE]
          /\ UNCHANGED <<mem, outside>>
     ELSE TripleFault

(* The reset button, or a power cut short or long. *)
PowerReset ==
  /\ cpu.pc # "wild" /\ resets < MaxResets /\ resets' = resets + 1
  /\ \E keep \in BOOLEAN :
       /\ Restart(keep)
       /\ cut' = (keep /\ (cut \/ (cpu.pc = "link" /\ ~ Linked)))

(* Only switching it off helps a machine that has gone wild. *)
PowerCycle == cpu.pc = "wild" /\ Restart(FALSE) /\ cut' = FALSE /\ UNCHANGED resets

Kernel ==
  \/ GdtInit \/ FillPageTables \/ EnablePaging
  \/ PicRemap \/ InstallGates \/ LoadIdt
  \/ InitDriver \/ AtaInit \/ Fat16Init \/ MemoryInit
  \/ TestAlloc("ptr1", 128, "ptr2") \/ TestAlloc("ptr2", 256, "tasking")
  \/ TaskAlloc \/ TaskLink
  \/ SwitchToUserMode \/ UserFetch

Next ==
  \/ Kernel
  \/ \E n \in IRQs : Raise(n) \/ Irq(n)
  \/ PowerReset \/ PowerCycle

Spec == Init /\ [][Next]_vars

(* The processor executes the kernel.  Nothing is assumed of the devices,  *)
(* except that their interrupts leave time for it: a drive may keep        *)
(* ata_wait_bsy or ata_wait_drq polling, which is no step of Kernel.       *)
FairSpec == Spec /\ WF_vars(Kernel)

-----------------------------------------------------------------------------
(* Type invariant. *)
TypeOK ==
  /\ cpu \in [pc : {"gdt", "paging", "enable", "pic", "gates", "lidt", "timer", "keyboard",
                    "ata", "fat16", "memory", "ptr1", "ptr2", "tasking", "link",
                    "user", "user_main", "panic", "wild"},
              cpl : {0, 3}, interrupts : BOOLEAN, paging : BOOLEAN,
              gdt : [0 .. 5 -> 0 .. 255], idtr : BOOLEAN, pic_base : {8, 32},
              masked : SUBSET IRQs]
  /\ mem \in [esp0 : Nat,
              page_directory : [Entries -> Nat], first_page_table : [Entries -> Nat],
              idt : [Vectors -> 0 .. 255],
              current_task : {NULL} \cup HeapWords, heap : [HeapWords -> Nat]]
  /\ pending \subseteq IRQs
  /\ drive \in {"works", "silent", "floating"}
  /\ resets \in 0 .. MaxResets /\ cut \in BOOLEAN

(* From sti on, in ring 0, an interrupt that the PIC lets through has a    *)
(* handler and its vector is none of the processor's own exceptions, and a *)
(* page fault reaches isr14_handler: idt_init sets gates, PIC and IDT up   *)
(* before it enables interrupts, and no later step, nor a second boot over *)
(* the memory of the first, undoes it.                                     *)
InterruptsHandled ==
  cpu.interrupts /\ cpu.cpl = 0 =>
    /\ \A n \in IRQs \ cpu.masked : cpu.pic_base + n >= 32 /\ Enterable(cpu.pic_base + n, 0)
    /\ Enterable(14, 0)

(* A boot finds nothing of the one before in its heap: once memory_init   *)
(* has returned, the list from free_list is the blocks that this boot has  *)
(* asked for, in order and taken, and one free block; they follow each     *)
(* other without a gap up to the heap's end, and the TCB is the third.     *)
(* memory_init writes one header only, and wherever the last boot was      *)
(* reset its headers lie where this one puts its own.                      *)
Made ==
  CASE cpu.pc = "ptr1" -> <<>>
    [] cpu.pc = "ptr2" -> <<128>>
    [] cpu.pc = "tasking" -> <<128, 256>>
    [] cpu.pc \in {"link", "user", "user_main"} -> <<128, 256, TCB_SIZE>>

HeapRestarts ==
  cpu.pc \in {"ptr1", "ptr2", "tasking", "link", "user", "user_main"} =>
    LET h    == mem.heap
        at   == Way(h)
        last == Len(Made)
    IN  /\ \A n \in 0 .. (last - 1) :
             /\ Size(h, at[n]) = Made[n + 1] /\ ~ IsFree(h, at[n])
             /\ at[n + 1] = at[n] + HEADER + Size(h, at[n])
        /\ IsFree(h, at[last]) /\ Link(h, at[last]) = NULL
        /\ at[last] + HEADER + Size(h, at[last]) = HEAP_START + HEAP_SIZE
        /\ last = 3 => mem.current_task = at[2] + HEADER

(* A tick never switches to a context that is not there: when IRQ0 can     *)
(* come in ring 0, current_task is NULL or a ring of its own.  From the    *)
(* sti of idt_init to tasking_init .bss may hold the current_task of the   *)
(* boot before, and the headers that memory_init and memory_alloc write    *)
(* leave the TCB at that address as it was.  The exception is a reset      *)
(* between the two assignments of tasking_init, which leaves a task        *)
(* without its link.                                                       *)
TickHarmless == cpu.interrupts /\ cpu.cpl = 0 => NoSwitch \/ cut

(* The boot gets to user_main, whatever interrupts come in between, unless *)
(* the drive never answers: then ata_init, on BSY, or the first read of    *)
(* fat16_init, on DRQ, polls for ever.  And unless a reset has cut         *)
(* tasking_init short: then the next tick may lead astray.                 *)
Polling ==
  \/ cpu.pc = "ata" /\ drive = "floating"
  \/ cpu.pc = "fat16" /\ drive = "silent"

ReachesUser ==
  (cpu.pc = "gdt") ~> (cpu.pc = "user_main" \/ Polling \/ (cpu.pc = "wild" /\ cut))

(* "user_main() takes over", with a TSS that keeps the stack for ring 3's  *)
(* interrupts: user_main can be fetched in ring 3, and interrupts, page    *)
(* faults and the system call can be entered from there.                   *)
Ring3Sound ==
  cpu.cpl = 3 =>
    /\ Accessible(KERNEL_PAGE, 3)
    /\ \A v \in {14, 128} \cup {cpu.pic_base + n : n \in IRQs \ cpu.masked} : Enterable(v, 3)
=============================================================================
