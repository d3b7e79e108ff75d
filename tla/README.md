# BlackHole OS: specifications

TLA+ models of the parts of BlackHole OS that keep state, the TLC runs that
check them, and TLAPS proofs of the properties that matter most.  Every
definition is a translation of the C and assembly source; `PROJECT.json` maps
each one to its lines.

Check a run with `tlc -config <cfg> <module>`, a proof with `tlapm <module>.tla`.

## 1. The system

One processor, one kernel image, no memory protection between its parts.
`kernel_main` initialises the drivers in turn and then drops to ring 3.  The
shell (`shell_loop`, or `shell_start_multitasking_demo` with a second thread)
drives the rest: it reads lines from the keyboard and calls the heap, the timer
and the file system.  Interrupts are the only concurrency: IRQ0 (timer, which
also runs the scheduler) and IRQ1 (keyboard) arrive between any two
instructions while EFLAGS.IF is set, and their handlers run with it clear.
The disk image is the only state that is meant to survive a reset.

| component | state | operations | what is hard | what makes it correct |
|---|---|---|---|---|
| heap, `kernel/memory.c` | list of block headers in the heap itself | `memory_init`, `memory_alloc`, `memory_free` | long sequences of calls, split and merge at their boundaries, 32-bit rounding | blocks tile the heap; callers' ranges are disjoint; nothing leaks; failure only when full |
| FAT16, `fs/fat16.c` | on disk: two FATs, root directory, data sectors | `fat16_read_file`, `fat16_write_file`, `fat16_delete_file`, `fat16_list_root` | a reset between two sector writes, failures half way, clusters past the disk's end, colliding names | chains acyclic and disjoint; a write stores its data and touches no other file; calls end |
| ATA, `drivers/ata.c` | the drive's registers | `ata_init`, `ata_read_sector`, `ata_write_sector`, all polling | the drive works in between; errors are ignored, polling has no time limit, a reset falls into a transfer | whole sectors at the right address; a transfer ends, and has happened |
| keyboard, `drivers/keyboard.c` | ring buffer, shift flag | `keyboard_handle_scancode` (IRQ1), `keyboard_read`, `keyboard_readline`, `keyboard_init` | producer in interrupt context, consumer without a lock; test-then-`hlt` | FIFO, drop only when full, the line is what was typed, no key is slept on |
| console, `drivers/vga.c` | characters, cursor | `vga_putchar` and its special characters, scrolling | edges of the screen; `background_task` writes to the same memory | what is shown is what was printed |
| scheduler, `kernel/task.c`, `switch.S` | ring of TCBs, saved stack pointers, IF, the PIC's in-service bit | `tasking_init`, `create_kernel_thread`, `task_switch` | switching inside an interrupt handler, new threads, allocation failure | one ring, separate stacks, everyone runs |
| timer, `drivers/timer.c` | `tick` | `timer_callback` (IRQ0), `sleep` | wrap-around, test-then-`hlt` | a sleep takes its time, and ends |
| interrupts, `idt.c`, `isr.c`, `isr_stub.S` | IDT, PIC masks | handlers for IRQ0, IRQ1, page fault, `int 0x80` | EOI and iret when a handler switches stacks | every interrupt is acknowledged |
| paging, GDT, user mode | page tables, TSS | one-time set-up, `iret` to ring 3 | privilege checks | a fault in ring 3 reaches its handler |
| shell, `shell/shell.c` | the command line | commands | names and text cut by hand; raw disk access beside the file system | a command does what `help` says |
| libc | none | `printf`, `itoa`, `uitoa`, string functions | unchecked arguments, numeric edges | the output is what the format means |
| boot, `kernel/kernel.c` | what the boot before has left in memory | `kernel_main`'s calls, in order | interrupts before the set-up is complete; a reset anywhere; no drive | nothing of the last boot is used; user mode is reached |

How they meet: the shell calls `keyboard_readline`, which calls the console; it
calls the FAT16 driver, which calls the ATA driver, and for `diskread` and
`diskwrite` the ATA driver directly; `create_kernel_thread` and `tasking_init`
call the heap; IRQ0 calls `timer_callback`, which calls `task_switch`; IRQ1
calls `keyboard_handle_scancode`.  `hlt` in `keyboard_read` and in `sleep` waits
for either interrupt.

In the repository as it stands `kernel_main` leaves for ring 3 before it calls
the shell, and nothing calls the multitasking demo.  `Boot` models that; the
other models are of the drivers and the scheduler as the shell uses them.

## 2. Modules

| module | models | implements |
|---|---|---|
| `Memory` | `kernel/memory.c` | `HeapSpec` |
| `MemoryProofs` | theorems about `Memory` | |
| `Fat16` | `fs/fat16.c`, sectors of `drivers/ata.c`, `diskwrite` of the shell | `FileStore` |
| `Fat16Proofs` | theorems about `Fat16` | |
| `Ata` | `drivers/ata.c` and, external, the drive | `Disk` |
| `FatName` | `to_fat_name` and the name `fat16_list_root` builds | |
| `Shell` | `execute_command` and the file commands; extends `FatName` | |
| `Vga` | `drivers/vga.c`, as operators on a screen | |
| `Console` | `libc/stdio.c`, `itoa`, `uitoa`, `vga_scroll` and `background_task`; uses `Vga` | |
| `Keyboard` | `drivers/keyboard.c`, IRQ1, the shell's loop; uses `Vga` | `KeyQueue` |
| `Scheduler` | `kernel/task.c`, `switch.S`, IRQ0, `sleep` | |
| `Boot` | `kernel_main`, `gdt.c`, `paging.c`, `idt.c`, `user_mode.S` | |
| `AtaProofs`, `ShellProofs`, `KeyboardProofs`, `SchedulerProofs`, `ConsoleProofs` | theorems about `Ata`, `Shell` with `FatName`, `Keyboard`, `Scheduler`, `Console` | |
| `VgaProofs` | lemmas about `Vga`, used by `KeyboardProofs` and `ConsoleProofs` | |
| `MCMemory`, `MCFat16`, `MCAta`, `MCShell`, `MCConsole` | constants for TLC | |

Definitions named `Mut_...` are deliberately wrong versions of the definitions
they precede; putting one in place of the original must violate the property
that `PROJECT.json` names for it.

**Memory.**  `block` maps the address of each header reachable from `free_list`
to its fields; headers that `memory_free` absorbs leave its domain.  One loop
iteration is one action (`AllocSkip`, `AllocTake`, `FreeMerge`, `FreeSkip`), so
the invariants also say what holds in the middle of a call.  `owned` is history:
the ranges callers hold.  Arithmetic on sizes is modulo `WordMod`.  Callers free
only pointers they hold.

**Fat16.**  The unit of atomicity is one sector written, because that is where a
reset (`Crash`) can fall.  `fat[1]` is the copy the driver reads.  A directory
entry is its name, first cluster and size; a data sector is the pair of whose
data it holds and its index in the file.  `pc` is the phase of the running call.
`torn` and `leaky` are history: a reset has interrupted the freeing of a chain;
a write has failed or a reset has interrupted a call.  They are the exceptions
of `NoSharing` and `NoLeak`: `fat16_delete_file` frees the chain before the
directory entry that refers to it, so that a reset in between leaves an entry
pointing to clusters which other files will get.  The model takes one sector per
cluster, which is how `build.ps1` formats the image: 2048 sectors, of which the
FATs are LBA 1-8 and 9-16, the root directory 17-48 and the data 49-2047, that
is clusters 2 to 2000.  `fat_alloc_cluster` scans 2 to 2047; `LAST_CLUSTER` and
`ALLOC_LIMIT` keep the two apart.  What a drive does with a sector beyond its end
is external (`OnDisk`): it either takes the data and reports an error that the
driver does not read, or never raises DRQ, and then `ata_wait_drq` polls
forever (`Hang`).  `to_fat_name` is the constant `FatNameOf`, which need not be
injective, since names longer than 8.3 lose characters.

**Ata, Disk.**  The driver's steps are its accesses to the ports; between any two
of them the drive, which is external, may answer a command or store a sector.
The drive has the four address registers, a command, a status and the words of
one sector; a command that reaches it while BSY or DRQ is set is ignored.  A
polling loop is a step that is enabled when the loop ends.  There may be no
drive: the ports then read 0 (and `ata_init` says so) or 0xFF.  A reset
(`Reset`) can fall anywhere, also between two words of a sector.  `Disk` is the
interface that `Fat16` uses: a call reads or writes one whole sector, once,
before it returns.  In the mapping a write takes effect when the drive stores
the sector, which is after the driver has sent the last word; `ata_write_sector`
may return only then.

**Shell, FatName.**  `FatName` has the two loops of `to_fat_name`, one iteration
per action, and the name that `fat16_list_root` builds from a directory entry;
`Shell` has the commands around them: the tests of `execute_command`, the loop of
`cmd_write` that cuts the line into a name and a text, and the calls of the file
system.  Files are as `FileStore` has them, so that the shell and the driver
below it meet at the interface that `Fat16` is shown to implement.  A write may
fail (`WriteFails`), which removes the old file.  `meant` is history: what the
user, who reads a line as a name, a space and a text, has stored under each
directory name.

**Console.**  A call of `printf` is a sequence of items, each a literal
character or a conversion with its flags, its width and its argument.  `Format`
spells the items and `Arguments` lists the arguments, and that is all that
`printf` gets to see; `OutputAsFormatted` compares what it prints with what the
items mean.  `vga_putchar` is one step, but where it scrolls every cell that
`vga_scroll` copies is a step, and so is every digit that `background_task`
writes.  `plain` is history: the screen if the shell were alone.  That the
threads do take turns is assumed here; that the first switch fails is the
subject of `scheduler_demo`.

**Keyboard, Vga.**  The reader's steps are as fine as the interrupts can tell
apart: the assignments of `keyboard_init`, the test of `buf_empty()`, `hlt`, the
read of the front character and the advance of `buf_tail`.  The handler of an
interrupt is one step.  One key stands for each way the scancode tables treat a
key.  `held` is the environment: which Shift keys are really down.  Nothing
clears `.bss`: before `keyboard_init` the ring, its indices and the flag may be
those of the boot before, and a Shift key may be down; `Front` is where the
characters typed in this boot begin.  Extended (0xE0) sequences are not modelled.  The output of a command is reduced to the
newline that ends it.  Colours are left out.

**Scheduler.**  The processor runs on one stack; `at` says where the code of each
stack continues.  A saved context is the stack it is on and how it resumes:
inside IRQ0's handler (EOI and iret follow, so interrupts are on again), inside
a `task_switch` that the thread called itself, or at its entry point.
`interrupts` is EFLAGS.IF and `in_service` the PIC's waiting for the EOI of
IRQ0, which blocks IRQ0 and IRQ1.  Thread bodies are a parameter: with
`Cooperative` they call `task_switch`, which `task.h` offers for that, otherwise
they sleep as `background_task` does.  `create_kernel_thread` allocates twice,
the TCB (`Alloc`) and its stack (`AllocStack`), and the second may fail alone.
`NULL` is an address like any other, as it is in a kernel that maps page 0.

**Boot.**  `cpu` is the processor and the PIC, `mem` what the kernel keeps in
`.bss` and in the heap: the IDT, both page tables with their 1024 entries,
`current_task`, and the words of the heap in which a boot puts the headers of its
blocks and the first TCB.  Descriptors, gates and page table entries are the
numbers that the source writes.  What the processor does with them is external:
`Mapped` (from directory to table to page, with present and user bits),
`Enterable` (a present gate, mapped code and, from ring 3, a mapped stack at
`esp0`).  An interrupt or exception that cannot be delivered becomes, for want of
further gates or of a stack, a triple fault.  A reset can also come from outside,
between any two steps (`PowerReset`).  After either the machine boots again, with
its memory kept or cleared, because nothing but the BIOS clears `.bss` or the
heap.  A cold boot starts from cleared memory, as QEMU's does.  `memory_init` and
`memory_alloc` are one step each (their loops are `Memory`'s subject), but
`tasking_init` is two, `TaskAlloc` and `TaskLink`, since a reset between
them matters: `cut` is history and says that one has left `current_task` set and
its `next` not.  A tick that then switches to what is no task leaves the model
(`pc = "wild"`), until the machine is switched off.  `drive` is the disk drive: it
works, or never raises DRQ, or always shows BSY; in the last two cases
`fat16_init` or `ata_init` polls for ever.  `timer_init` and `keyboard_init`
always return.  The system call of `user_main` is left out: no behaviour gets to
it.

## 3. Runs

| run | expects | shows |
|---|---|---|
| `heap` | pass | on a heap of up to five blocks: `HeapTiled`, `OwnedDisjoint`, `NothingLeaked`, `Coalesced`, `FailsOnlyWhenFull`, `CallsReturn`, the inductive invariant `HeapInv`, and that `Memory` implements `HeapSpec` |
| `fat16` | pass | `FatAcyclic`, `NoSharing`, `NoLeak`, `DirectorySound`, `WriteStores`, `ReadReturnsFile`, and that `Fat16` implements `FileStore`, with a reset anywhere |
| `fat16_tail` | pass | with clusters beyond the disk and `diskwrite`: `CallsEnd`, `MirrorKept` |
| `ata` | pass | `Ata` implements `Disk`; `TransferEnds` |
| `shell` | pass | `NameAsSpecified`, `CatShowsWritten`, `ListedFindsFile` |
| `keyboard` | pass | `RefinesKeyQueue`, `LineIsTyped`, `EchoShowsLine`, `ShiftNotStuck`, `FrontKeyTaken` |
| `console` | pass | `OutputAsFormatted`, `OutputUndisturbed` |
| `console_ls` | violation of `OutputAsFormatted` | `ls` shows neither names nor sizes: `printf` does not know `%-13s` |
| `scheduler` | pass | `RingSound`, `StacksApart`, `ShellInterruptible`, `SleepPunctual`, `SleepEnds`, `EveryoneRuns` with threads that yield |
| `scheduler_demo` | violation of `EveryoneRuns` | the first switch to `background_task` stops the machine |
| `boot` | pass | `InterruptsHandled`, `HeapRestarts`, `TickHarmless`, `ReachesUser`, over any number of boots, with and without a drive |
| `boot_ring3` | violation of `Ring3Sound` | ring 3 cannot fetch `user_main`, and no handler can be entered from it |

Behaviours that a reader of the comments would not expect, which the properties
or the constants leave room for and no run of their own shows:

* `memory_alloc` of 2^32-3 bytes or more rounds the size up to 0 and succeeds
  with an empty block (`Requests <- MCRequestsWrap` violates `OwnedDisjoint`).
* A write into clusters 2001 to 2047, which have no sector, returns 0 or never
  returns (the constants of `fat16_tail` violate `WriteStores`).
* `task_switch` is not safe with interrupts on: IRQ0 between the change of
  `current_task` and `switch_task` saves the stack pointer in the wrong TCB
  (`ShellYields = TRUE` violates `StacksApart`).  The shell does not call it.
* `create_kernel_thread` does not check `memory_alloc`: a NULL for the TCB is
  linked into the ring (`MaxSpawns >= NumTCBs` violates `RingSound`), a NULL for
  the stack makes threads share the one at address 0 (`MaxSpawns > NumStacks`
  violates `StacksApart`).
* Without a drive `ata_init` returns, but the first `ata_read_sector` polls for
  ever; so does one whose sector the drive refuses (`TransferEnds` excepts both).
  That first read is `fat16_init`'s: a machine without a drive, as QEMU starts it
  unless it is given a disk, never gets past it (`Polling` in `ReachesUser`).
* A reset between `current_task = ...` and `current_task->next = ...` in
  `tasking_init`, with the memory kept, leaves the next boot a task without its
  link: `current_task` is in `.bss`, and the first tick after `idt_init` switches
  to whatever the TCB holds (`cut` in `TickHarmless` and `ReachesUser`).
  The cache flush after a write is ignored by a drive that is still busy.
* `diskwrite` writes to LBA 10, a sector of the second FAT, hence the exception
  of `MirrorKept`.
* `cmd_write` takes 31 characters for the name; the rest of a longer one becomes
  text, hence `Unsure` in `CatShowsWritten`.
* `%d` of INT_MIN prints characters that are no digits, hence `Overflows` in
  `OutputAsFormatted`; and `%x` prints its own `0x`, after the `0x` that
  `isr14_handler`'s format has already.
* `keyboard_readline` returns without Enter when the line is full (`keyboard.h`
  says "Returns on Enter."), and the rest of what is typed is the next command;
  Backspace after a Tab moves the cursor one column, not the Tab's whole width,
  hence `Tabbing` in `EchoShowsLine`.
* A `sleep` whose `end` wraps past 2^32 ticks does not wait, hence the range of
  `end` in `SleepPunctual` and `SleepEnds`.

Bounds, and why they are enough:

* heap: 84 bytes hold five smallest blocks, so that the walks have a beginning,
  a middle and an end, and merges happen on both sides of a freed block; the
  request sizes are below, at and above the split threshold.
* FAT16: three clusters let one two-cluster file and one one-cluster file fill
  the disk; two slots let a deleted slot precede a used one, one slot
  (`fat16_tail`) lets the directory be full; files of one and of two sectors,
  the second partial; buffers smaller and larger than the file; two of the three
  user names collide; one reset (`MaxCrashes`), after which the damage and all
  further calls are explored.
* ATA: bytes of one bit and an address of four, so that each of the four
  registers carries a part of some address; sectors of two words of two bytes,
  in which swapped bytes or words show; one address beyond the disk's end.
  Calls and resets are not bounded.
* shell: three commands (`MaxCommands`), as many as it takes to write two names
  that become one, or to write, delete or fail to overwrite, and then look;
  names of two characters and an extension of one, with arguments long enough
  for each part to be too long or missing, with dots and spaces anywhere, and
  for a name that `cmd_write` has no room for.
* console: 4 by 3 cells, of which two are the counter's; three calls
  (`MaxCalls`) scroll more than once; the counter has one and two digits and
  wraps around; words of five bits, so that INT_MIN, negative numbers and
  numbers of two digits occur.
* keyboard: a buffer that holds two characters overflows and wraps; a line of
  three characters fills; a console of 3 by 2 wraps and scrolls while a line is
  edited; four characters typed (`MaxTyped`) suffice for a full line and
  the beginning of another, for an erasure across a row's end with a character
  typed in its place, and for a buffer that overflows and is drained.  One
  character (`LeftOver`) stands for what the boot before has left in the ring.
* boot: two resets from outside (`MaxResets`), so that one can fall into the boot
  that follows another; triple faults and with them boots are not bounded.  Three
  IRQs stand for the timer, the keyboard and a masked device.
* scheduler: the shell and three threads; `tick` modulo 6, so that it wraps, and
  sleeps of two ticks.

Deadlock is checked except where the machine can really stop (`fat16_tail`: a
drive that never raises DRQ; `ata`: no drive; `scheduler_demo`) and in `shell`,
where the number of commands is bounded and `pagefault` halts.

Fairness: `Memory` and `Fat16` assume that a call that can take a step does
(nothing in it waits, except for the drive).  `Keyboard` assumes that the shell
runs when it can, which includes that the command it runs returns, and that the
timer keeps interrupting; nothing is assumed about typing.  `Scheduler` assumes
that the processor executes and that the timer interrupts when IF and the PIC
let it.  It also assumes, through `ran`, that one tick (10 ms) is longer than the
code that runs with interrupts off between two instructions of the shell.  `Boot`
assumes that the processor executes `kernel_main`; a drive that keeps it polling
is no step of it, and resets from outside come to an end (`MaxResets`).  `Ata` assumes that the
processor polls on and that a drive, if there is one, finishes a command it has
accepted.

## 4. Proofs

Every theorem holds for all values of the constants that satisfy the named
`ASSUME`s of its module, and the hypotheses listed here.  Each proof has the same
shape: an inductive invariant, which TLC has checked on the constants of the
component's run before it was proved; one lemma per action, and under it a step
per conjunct that the action can disturb; then the properties as consequences.

`MemoryProofs`, with the hypothesis `NoWrap` (no request wraps when it is rounded
up; without it `OwnedDisjoint` fails, see section 3):

* `HeapInvariant`: `HeapInv` is an invariant.  It strengthens `HeapTiled` by
  `Covered` (every byte is in a block), `OwnersHold` (allocated blocks and callers
  correspond one to one, also in the middle of `memory_free`), `MergedBehind` (no
  mergeable pair behind the cursor of `memory_free`) and `SearchedBehind` (no
  fitting block behind the cursor of `memory_alloc`).  `TakeSplitInv` and
  `FreeMergeInv`, where a header appears or goes, carry the weight.
* `ListTilesHeap`, `HeapSafety`, `NoBlockLeaked`, `FreeBlocksMerged`: hence
  `HeapTiled`, `OwnedDisjoint`, `NothingLeaked` and `Coalesced`.
* `NoSpuriousFailure`: hence `FailsOnlyWhenFull`; `Covered` and `Coalesced`
  together say that a gap between allocated blocks is one block.
* `HeapRefinement`: `Memory` implements `HeapSpec`.

`Fat16Proofs`, for all numbers of clusters, slots, FAT copies and resets, and any
name function:

* `ChainsAcyclic`, `FilesApart`: `FatAcyclic` and `NoSharing`.  The inductive
  invariant `FatInv` adds `LocalsInv` (what each phase knows of its local
  variables) and `InHand` (the chain being freed or built is referred to by a
  local variable and by nothing on the disk).  `FatAcyclic` is stated without
  paths, as "every non-empty set of clusters has a member whose entry leads out of
  it", so that no induction along chains is needed; cutting a chain and appending
  a cluster that nothing leads to preserve it.
* `DirectoryIsSound`: `DirectorySound`.  `DirInv` adds that the name being written
  is not in the directory from the moment its old file is gone; a reused slot
  cannot hide a later one, because only the end marker stops a scan.
* `NoClusterLost`: `NoLeak`.  `LeakInv` says for every phase which allocated
  cluster only a local variable refers to (`Held`).
* `CopiesInStep`: `MirrorKept`.  `MirrorInv` says what `fat_write_entry` has
  written to the copies before the one it is at.
* `ContentInvariance`: the invariant `ContentInv` of what the files hold.  A chain
  is given by its walk, a function from numbers to clusters, so that nothing is
  proved by induction along it: `FilesWhole` (as long as no reset has torn a call,
  each file has a walk of the length that its size needs), `WriteInv` (a running
  write has built a walk of `k` clusters, and the first `k` sectors of what it
  was given are in them), `ReadInv` (the pieces a running read has copied are
  the first of the file's, cut to what is left of file and buffer).  A step of a
  call writes only to clusters in no other file's walk; this is where `NoSharing`
  is needed.
* `ReadIsFile`: hence `ReadReturnsFile`.
* `WriteIsStored` and `ImplementsFileStore`: hence `WriteStores`, and `Fat16`
  implements `FileStore`, with the hypothesis `TailFree`: no cluster beyond the end
  of the disk is marked used.  It holds by itself when the FAT scan ends before the
  disk does, as in the constants of `fat16`.  For this kernel it cannot be dropped:
  `fat_alloc` scans to 2048, the disk has sectors for clusters up to 2000 only, and a
  cluster in between can be marked but stores nothing (section 3).  The scan takes
  the lowest free cluster, so that the hypothesis says that the clusters on the
  disk have never all been marked when another one was needed.

`AtaProofs`, for every size of byte, every number of words, addresses and
sectors, and every drive the model allows:

* `DriveFollowsDriver`: `AtaInv` is an invariant.  It ties each place in the
  driver's code to what the drive can be doing: `StartInv` (nothing of `ata_init`'s
  IDENTIFY is left to be taken for a sector), `CallInv` (from the command on the
  four registers hold the parts of the call's address), `TransferInv` (the
  words transferred are those of the sector or of the buffer).
* `DiskRefinement`: `Ata` implements `Disk`.  That the four registers give back the
  address is a lemma about division.

`ShellProofs`, for every size of base name, extension and filename buffer, every
alphabet and every set of lines:

* `NamesAreSpecified`: `NameAsSpecified`.  `NameInv` has the loops' invariants: the
  places below `j` are filled, and no dot was passed.
* `CatShowsLastWrite`: `CatShowsWritten`.  `ParseInv` follows the loop of
  `cmd_write`, and `FileInv` says that every file holds what was meant or `Unsure`.
  `FatNameOfCut` is the reason for `NAME_LIMIT >= BASE + 1 + EXT`: a name that is
  cut at 31 characters still reaches the same file.  That a first dot and a first
  space exist comes from the well-foundedness of `<` on the naturals.
* `FilesFoundByListing`: `ListedFindsFile`.  `ListInv` adds that the names on the
  disk are `WellNamed`: characters, then spaces, in the base name and in the
  extension.  A name with a space in its middle would be printed without it and
  lead to another file; there is none, because `cmd_write`, the only command that
  creates files, ends the name at the first space.  On a `WellNamed` name
  `to_fat_name` undoes what `fat16_list_root` prints.

`KeyboardProofs`, for every size of ring, line and screen and any number of keys:

* `KeyboardTypes`, `ShiftNeverStuck`, `EchoIsLine`: `TypeOK`, `ShiftNotStuck`,
  `EchoShowsLine`.  `KeyInv` says of the echo that the line is in the cells before
  the cursor and that nothing is behind it; `VgaProofs` has what `vga_putchar` does
  in terms of the cursor's offset, where wrapping is nothing special and a scroll
  moves cells and cursor alike.
* `LineIsWhatWasTyped`: `LineIsTyped`.  Which characters of a history with
  Backspaces survive is said by a count: a character does whose balance (characters
  less Backspaces so far) is never undercut later.  The invariant maps the places of
  the line to the survivors, in order; a character appends one, a Backspace
  removes the last one, and Enter hands the line over.
* `KeyQueueRefinement`: the ring buffer implements `KeyQueue`.  The handler moves
  `buf_head` only and the reader `buf_tail` only; a character that `buf_pop` has
  read and not yet removed is still the front one.  `BootInv` is about
  `keyboard_init`, which moves both: between the two resets no key can have run
  into the `buf_tail` of the boot before.

`SchedulerProofs`, for any number of threads, with the hypothesis `Benign`: the
shell does not call `task_switch` with interrupts on, and there is room for the
TCBs and the stacks (without the first or the last `StacksApart` fails, without
the second `RingSound`, see section 3):

* `TasksInOneRing`, `StacksNeverShared`, `ShellStaysInterruptible`: `RingSound`,
  `StacksApart`, `ShellInterruptible`.  `SchedInv` has, besides the ring (`next` is
  injective, and no proper subset is closed under it), how each saved context
  resumes and what the flags are at each place.  One ring is stated as "every
  non-empty closed set of tasks has them all", so that inserting a task behind the
  last one needs no induction along the list.
* `SleepsArePunctual`: `SleepPunctual`, with the further hypothesis that a tick is
  a whole number of milliseconds, as it is at the kernel's 100 Hz.  `SleepInv` adds
  how many ticks have passed since the sleep began.

`ConsoleProofs`, for every size of screen and every corner that the counter fits
into (`CounterFits`):

* `CounterStaysInCorner`: `OutputUndisturbed`.  `vga_scroll` reads each cell a row
  below the one it writes, hence never in the top row, where the corner is.  While
  it runs, `Scrolling` says that below `k` the screen is what it should be, and
  from `k` on that what is due is one row further down.

* `PrintsWhatIsMeant`: `OutputAsFormatted`, for every width of a word, with the
  hypothesis that `printf` handles its calls (`HandledCall`): no flags, no padding,
  no literal `%`, and words as arguments.  `MCConsole` has the hypothesis as an
  `ASSUME` over the shell's calls, so that TLC has checked it; the `%-13s` of
  `fat16_list_root` does not satisfy it, and is the violation of `console_ls`.
  `PrintfInv` says that `i`, the arguments left and the characters printed are all
  at the same item of the call, or inside it while it is on its way to the screen.
  The format, the arguments and the output are `FlattenSeq`s of a piece for each
  item; a step compares the prefix of `m` pieces with that of `m + 1` (`UptoAt`).
  That `uitoa`'s digits, obtained by repeated division, are the numeral, whose
  digits are read off with powers of the base, is the lemma `UitoaIs`.  Where a
  recursive function is involved (prefixes, powers, digits) the lemmas argue from a
  least counterexample, which `WFMin` of the library provides without an
  induction theorem.

Model-checked only:

* liveness, which needs fairness and ENABLED and is out of the prover's reach:
  `CallsReturn`, `CallsEnd`, `TransferEnds`, `FrontKeyTaken`, `SleepEnds`,
  `EveryoneRuns`, `ReachesUser`;
* `InterruptsHandled`, `HeapRestarts` and `TickHarmless` of `Boot`, whose tables
  and addresses are those of the source: apart from the place of the page table
  and the number of resets from outside it has no parameters, and TLC's run
  covers all its states over any number of boots.

The hypotheses `NoWrap`, `Benign`, `TailFree` and `HandledCall` are where the code
ends, not where the proofs do: section 3 and the run `console_ls` say what happens
beyond them.

## 5. Plan

1. Done: heap, FAT16, keyboard with the console's echo, scheduler, boot; the ATA
   protocol under `Fat16`; `printf` and scrolling beside `background_task`; the
   shell's commands and names; `sleep`'s conversion from milliseconds; the theorems
   of section 4.
2. Left: theorems about `Boot`, should its tables get parameters; a model of the
   system call handler, should ring 3 become able to reach it.

## 6. Not modelled

* The boot loader (a straight line of BIOS calls) up to its jump into the
  kernel, and the build scripts beyond the disk's layout and `.bss`.
* Colours, the wording of messages, and functions that nothing calls
  (`vga_set_cursor`, `vga_print_at`, `puts`, `putchar`, `tss_set_stack`).
* The divisor that `timer_init` gives the PIT: one constant, written once.
* The system call handler: ring 3 does not get as far as `int 0x80`.
* An allocator that is preempted: `memory_alloc` is called by `tasking_init` and
  `create_kernel_thread` between `cli` and `sti`, and by the shell's `alloc`
  outside, but no other thread of the repository allocates.
* The drive's timing: that its status is valid 400 ns after a command, and its
  write cache.
