------------------------------ MODULE Scheduler -----------------------------
(***************************************************************************)
(* The round-robin scheduler of kernel/task.c and kernel/switch.S, driven  *)
(* by the timer interrupt (drivers/timer.c, irq0_handler), and sleep().    *)
(*                                                                         *)
(* The processor runs on one stack at a time; at[s] is the next step of    *)
(* the code whose frames are on stack s:                                   *)
(*   boot     kernel_main before tasking_init                              *)
(*   run      the body of a thread (task 1 is the shell)                   *)
(*   test     sleep() tests tick < end                                     *)
(*   hlt      ... was true, hlt is next;   halted   the CPU sleeps         *)
(*   swap     task_switch has updated current_task, switch_task is next    *)
(*                                                                         *)
(* A suspended task resumes as its saved context demands:                  *)
(*   irq      in the handler of IRQ0, which acknowledges the interrupt and *)
(*            returns with iret, so that interrupts are on again           *)
(*   call     in a task_switch that its own body called                    *)
(*   fresh    at its entry point, which switch_task reaches with ret       *)
(***************************************************************************)
EXTENDS Integers

CONSTANTS
  NumTCBs,        \* task control blocks the heap has room for
  NumStacks,      \* stacks of 4096 bytes it has room for besides
  MaxSpawns,      \* bound on the calls of create_kernel_thread
  Cooperative,    \* threads call task_switch; otherwise they sleep, as
                  \* background_task does
  ShellYields,    \* the shell calls task_switch too
  MS,             \* the argument of sleep()
  current_freq,   \* ticks per second (100)
  TickMod         \* tick is a uint32_t (2^32)

(* ticks_to_wait of sleep(). *)
SleepTicks == MS \div (1000 \div current_freq)

ASSUME SchedulerAssumption ==
  /\ NumTCBs \in Nat \ {0} /\ NumStacks \in Nat
  /\ MaxSpawns \in Nat
  /\ Cooperative \in BOOLEAN /\ ShellYields \in BOOLEAN
  /\ MS \in Nat /\ current_freq \in 1 .. 1000
  /\ TickMod \in Nat /\ TickMod > SleepTicks

NULL == 0         \* memory_alloc's failure, and an address one can write to
Wild == -1        \* no stack at all
Addr == 0 .. NumTCBs

VARIABLES
  current_task, ready_queue,
  next,            \* TCB -> TCB
  esp,             \* TCB -> [stack, how]: its saved context
  made,            \* TCBs allocated: 1 .. made
  spawned,         \* calls of create_kernel_thread
  stack,           \* the stack in use
  at,
  old,             \* stack -> old_task of the task_switch running there
  interrupts,      \* EFLAGS.IF
  in_service,      \* the PIC waits for the EOI of IRQ0
  ran,             \* interruptible code has run since the last tick: a tick
                   \* lasts longer than the uninterruptible code in between
  tick,
  end,             \* stack -> the end of its running sleep()
  slept            \* history: stack -> ticks since its sleep() began

queue == <<current_task, ready_queue, next, esp, made, spawned>>
cpu   == <<stack, interrupts, in_service>>
time  == <<tick, end, slept>>
vars  == <<queue, cpu, at, old, ran, time>>

-----------------------------------------------------------------------------
(* Mutants: plausible mistakes in the definitions below.                   *)
Mut_Linked(new) == [next EXCEPT ![new] = ready_queue, ![ready_queue] = new]

Mut_Save(t, how) == esp' = [esp EXCEPT ![next[t]] = [stack |-> stack, how |-> how]]

(* No EOI. *)
Mut_Resume(t, steps, on, serving) ==
  LET ctx == esp[t]
  IN  /\ stack' = ctx.stack
      /\ interrupts' = (on \/ ctx.how = "irq")
      /\ in_service' = serving
      /\ at' = IF ctx.how = "call" THEN [steps EXCEPT ![ctx.stack] = "run"] ELSE steps

(* if (current_task->next == ready_queue) return *)
Mut_NothingToSwitch == current_task = NULL \/ next[current_task] = ready_queue

Mut_TestTick ==
  /\ at[stack] = "test"
  /\ at' = [at EXCEPT ![stack] = IF tick <= end[stack] THEN "hlt" ELSE "run"]
  /\ ran' = (ran \/ interrupts)
  /\ UNCHANGED <<queue, cpu, old, time>>

(* end is not reduced to 32 bits. *)
Mut_BeginSleep ==
  /\ at[stack] = "run" /\ (stack # 1 => ~ Cooperative)
  /\ end' = [end EXCEPT ![stack] = tick + SleepTicks]
  /\ slept' = [slept EXCEPT ![stack] = 0]
  /\ at' = [at EXCEPT ![stack] = "test"] /\ ran' = (ran \/ interrupts)
  /\ UNCHANGED <<queue, cpu, old, tick>>

-----------------------------------------------------------------------------
Init ==
  /\ current_task = NULL /\ ready_queue = NULL
  /\ next = [t \in Addr |-> NULL]
  /\ esp = [t \in Addr |-> [stack |-> Wild, how |-> "none"]]
  /\ made = 0 /\ spawned = 0
  /\ stack = 1 /\ at = [t \in Addr |-> IF t = 1 THEN "boot" ELSE "run"]
  /\ old = [t \in Addr |-> NULL]
  /\ interrupts = TRUE /\ in_service = FALSE /\ ran = TRUE
  /\ tick = 0
  /\ end = [t \in Addr |-> 0] /\ slept = [t \in Addr |-> 0]

Execute == ran' = (ran \/ interrupts)

(* The code on the stack in use goes on at pc. *)
Goto(pc) == at' = [at EXCEPT ![stack] = pc] /\ Execute

(* memory_alloc(sizeof(task_t)). *)
Alloc == IF made < NumTCBs THEN made + 1 ELSE NULL

(* memory_alloc(4096): the stack of that task.  There may be room for its  *)
(* TCB and none for this, but not the other way round.                     *)
AllocStack == IF spawned < NumStacks THEN Alloc ELSE NULL

(* tasking_init, between cli and sti. *)
TaskingInit ==
  /\ at[stack] = "boot"
  /\ current_task' = Alloc /\ ready_queue' = Alloc /\ made' = made + 1
  /\ next' = [next EXCEPT ![Alloc] = Alloc]
  /\ interrupts' = TRUE
  /\ Goto("run")
  /\ UNCHANGED <<esp, spawned, stack, in_service, old, time>>

(* The walk of create_kernel_thread starts at ready_queue and follows nx   *)
(* until nx leads back to it: t is on its way if it is in every set that   *)
(* the walk does not leave.                                                *)
Walked(nx, t) ==
  \A S \in SUBSET Addr :
    ready_queue \in S /\ (\A u \in S : nx[u] # ready_queue => nx[u] \in S) => t \in S

(* Where it stops: the last task before ready_queue. *)
TailOf(nx) == CHOOSE t \in Addr : nx[t] = ready_queue /\ Walked(nx, t)

Linked(new) ==
  LET nx == [next EXCEPT ![new] = ready_queue]
  IN  [nx EXCEPT ![TailOf(nx)] = new]

(* create_kernel_thread, between cli and sti.  What memory_alloc returned  *)
(* is used unchecked.                                                      *)
CreateKernelThread ==
  /\ stack = 1 /\ at[stack] = "run" /\ spawned < MaxSpawns
  /\ spawned' = spawned + 1
  /\ made' = IF Alloc = NULL THEN made ELSE made + 1
  /\ esp' = [esp EXCEPT ![Alloc] = [stack |-> AllocStack, how |-> "fresh"]]
  /\ next' = Linked(Alloc)
  /\ interrupts' = TRUE
  /\ Goto("run")
  /\ UNCHANGED <<current_task, ready_queue, stack, in_service, old, time>>

-----------------------------------------------------------------------------
(* switch_task loads the context that task t has saved, with the flag IF   *)
(* as on and IRQ0 in service as serving.  steps gives the next step of the *)
(* code on every stack.                                                    *)
Resume(t, steps, on, serving) ==
  LET ctx == esp[t]
  IN  /\ stack' = ctx.stack
      /\ interrupts' = (on \/ ctx.how = "irq")
      /\ in_service' = (serving /\ ctx.how # "irq")
      /\ at' = IF ctx.how = "call" THEN [steps EXCEPT ![ctx.stack] = "run"] ELSE steps

Save(t, how) == esp' = [esp EXCEPT ![t] = [stack |-> stack, how |-> how]]

(* The early return of task_switch: no tasks, or only one. *)
NothingToSwitch == current_task = NULL \/ next[current_task] = current_task

(* An interrupted hlt is over when its code goes on. *)
Unhalted == [at EXCEPT ![stack] = IF at[stack] = "halted" THEN "test" ELSE at[stack]]

(* IRQ0: timer_callback and, when task_switch returns, the EOI.  The gate  *)
(* has cleared IF, so all of it is one step.                               *)
Irq0 ==
  /\ interrupts /\ ~ in_service /\ ran
  /\ ran' = FALSE
  /\ tick' = (tick + 1) % TickMod
  /\ slept' = [t \in Addr |-> IF slept[t] <= SleepTicks + 1 THEN slept[t] + 1 ELSE slept[t]]
  /\ IF NothingToSwitch
     THEN at' = Unhalted /\ UNCHANGED <<cpu, current_task, esp>>
     ELSE /\ current_task' = next[current_task]
          /\ Save(current_task, "irq")
          /\ Resume(next[current_task], Unhalted, FALSE, TRUE)
  /\ UNCHANGED <<ready_queue, next, made, spawned, old, end>>

(* A thread calls task_switch itself, up to switch_task ... *)
Yield ==
  /\ at[stack] = "run" /\ (IF stack = 1 THEN ShellYields ELSE Cooperative)
  /\ IF NothingToSwitch
     THEN Goto("run") /\ UNCHANGED <<current_task, old>>
     ELSE /\ old' = [old EXCEPT ![stack] = current_task]
          /\ current_task' = next[current_task]
          /\ Goto("swap")
  /\ UNCHANGED <<ready_queue, next, esp, made, spawned, cpu, time>>

(* ... which saves this context and loads that of current_task. *)
SwitchTask ==
  /\ at[stack] = "swap"
  /\ Save(old[stack], "call")
  /\ Resume(current_task, at, interrupts, in_service)
  /\ Execute
  /\ UNCHANGED <<current_task, ready_queue, next, made, spawned, old, time>>

-----------------------------------------------------------------------------
(* sleep(ms): end = tick + ticks_to_wait, in 32 bits. *)
BeginSleep ==
  /\ at[stack] = "run" /\ (stack # 1 => ~ Cooperative)
  /\ end' = [end EXCEPT ![stack] = (tick + SleepTicks) % TickMod]
  /\ slept' = [slept EXCEPT ![stack] = 0]
  /\ Goto("test")
  /\ UNCHANGED <<queue, cpu, old, tick>>

(* while (tick < end) *)
TestTick ==
  /\ at[stack] = "test"
  /\ Goto(IF tick < end[stack] THEN "hlt" ELSE "run")
  /\ UNCHANGED <<queue, cpu, old, time>>

Halt ==
  /\ at[stack] = "hlt"
  /\ Goto("halted")
  /\ UNCHANGED <<queue, cpu, old, time>>

(* The shell does anything else, or kernel_main boots. *)
Compute ==
  /\ stack = 1 /\ at[stack] \in {"boot", "run"}
  /\ Goto(at[stack])
  /\ UNCHANGED <<queue, cpu, old, time>>

Cpu ==
  /\ stack # Wild
  /\ \/ TaskingInit \/ CreateKernelThread \/ Yield \/ SwitchTask
     \/ BeginSleep \/ TestTick \/ Halt \/ Compute

Next == Cpu \/ (stack # Wild /\ Irq0)

Spec == Init /\ [][Next]_vars

(* The processor executes instructions and the timer keeps ticking; the    *)
(* boot comes to its end.                                                  *)
FairSpec == Spec /\ WF_vars(Cpu) /\ WF_vars(TaskingInit) /\ WF_vars(Irq0)

-----------------------------------------------------------------------------
Context == [stack : Addr \cup {Wild}, how : {"none", "fresh", "irq", "call"}]

(* Type invariant. *)
TypeOK ==
  /\ current_task \in Addr /\ ready_queue \in Addr
  /\ next \in [Addr -> Addr] /\ esp \in [Addr -> Context]
  /\ made \in Addr /\ spawned \in 0 .. MaxSpawns
  /\ stack \in Addr \cup {Wild}
  /\ at \in [Addr -> {"boot", "run", "test", "hlt", "halted", "swap"}]
  /\ old \in [Addr -> Addr]
  /\ interrupts \in BOOLEAN /\ in_service \in BOOLEAN /\ ran \in BOOLEAN
  /\ tick \in 0 .. (TickMod - 1)
  /\ end \in [Addr -> 0 .. (TickMod - 1)]
  /\ slept \in [Addr -> 0 .. (SleepTicks + 2)]

Tasks == 1 .. made

(* The tasks form one ring: following next from any of them reaches every  *)
(* other one, since no smaller set of tasks is closed under next, and the  *)
(* scheduler is always at one of them.                                     *)
RingSound ==
  made > 0 =>
    /\ \A t \in Tasks : next[t] \in Tasks
    /\ \A S \in SUBSET Tasks : S # {} /\ (\A t \in S : next[t] \in S) => S = Tasks
    /\ current_task \in Tasks /\ ready_queue \in Tasks

(* Tasks do not share a stack: the context saved in a TCB is on the stack  *)
(* of that task and can be resumed, and between steps of task_switch the   *)
(* processor is on the stack of current_task.                              *)
StacksApart ==
  made > 0 =>
    /\ stack # Wild
    /\ at[stack] # "swap" => stack = current_task
    /\ \A t \in Tasks \ {stack} : esp[t].stack = t /\ esp[t].how # "none"

(* The shell runs with interrupts on and acknowledged, whatever the other  *)
(* threads have done in the meantime: otherwise its hlt never ends.        *)
ShellInterruptible == stack = 1 => interrupts /\ ~ in_service

-----------------------------------------------------------------------------
(* sleep(ms) lasts ms milliseconds to within one tick on either side: it   *)
(* rounds down, and a tick between its test and hlt costs one more.  The   *)
(* exception is a tick that wraps around while it waits: then tick < end   *)
(* fails at once and sleep() does not wait.                                *)
SleepEnding == at[stack] = "test" /\ at'[stack] = "run"

SleepPunctual ==
  [][ SleepEnding /\ SleepTicks <= end[stack] /\ end[stack] < TickMod - 1 =>
        /\ (slept[stack] + 1) * 1000 > MS * current_freq
        /\ (slept[stack] - 1) * 1000 <= MS * current_freq ]_vars

(* sleep() ends, unless it waits for the very last tick before the wrap,   *)
(* which it can miss.                                                      *)
SleepEnds ==
  \A t \in Addr : (at[t] = "test" /\ end[t] # TickMod - 1) ~> (at[t] = "run")

(* Round robin: every thread that was created runs again and again, and so *)
(* does the shell ("ticking a counter in parallel with shell_loop()").     *)
EveryoneRuns ==
  \A t \in Addr \ {NULL} : [](made >= t => <>(current_task = t /\ stack = t))
=============================================================================
