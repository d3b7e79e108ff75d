--------------------------- MODULE SchedulerProofs ---------------------------
(***************************************************************************)
(* Proofs about Scheduler, for every number of task control blocks and of  *)
(* threads, and every length of a sleep.                                   *)
(***************************************************************************)
EXTENDS Scheduler, TLAPS

-----------------------------------------------------------------------------
(* The inductive invariant, of a system in which memory suffices for the   *)
(* threads that are created and the shell does not call task_switch.       *)
Benign == MaxSpawns < NumTCBs /\ MaxSpawns <= NumStacks /\ ~ ShellYields

(* No two tasks have the same successor: create_kernel_thread has one task *)
(* to put the new one behind.                                              *)
NextInjective == \A t, u \in Tasks : next[t] = next[u] => t = u

(* Before tasking_init the shell's code runs and there is no task. *)
BootInv ==
  /\ \A t \in Addr : at[t] = "boot" <=> t = 1 /\ made = 0
  /\ made = 0 => stack = 1 /\ current_task = NULL /\ spawned = 0
  /\ made > 0 => stack \in Tasks /\ made = spawned + 1

(* A thread that is yet to be created has not run. *)
SpareInv == \A t \in Addr \ {1} : t > made => at[t] = "run"

(* Every thread but the shell inherits the interrupt in which it was first *)
(* switched to.                                                            *)
FlagsInv ==
  /\ stack = 1 => interrupts /\ ~ in_service
  /\ stack # 1 => ~ interrupts /\ in_service

(* A context that waits is the shell's, interrupted, or a thread's, at its *)
(* entry point or in a task_switch of its own.                             *)
ContextInv ==
  \A t \in Tasks \ {stack} :
    /\ esp[t].stack = t
    /\ t = 1 => esp[t].how = "irq"
    /\ t # 1 => esp[t].how = "call" \/ (esp[t].how = "fresh" /\ at[t] = "run")

(* Inside task_switch, current_task is one ahead of the stack. *)
SwapInv ==
  /\ at[1] # "swap"
  /\ made > 0 => current_task = IF at[stack] = "swap" THEN next[stack] ELSE stack
  /\ at[stack] = "swap" => old[stack] = stack /\ next[stack] # stack

SchedInv ==
  /\ TypeOK /\ RingSound /\ NextInjective /\ BootInv /\ SpareInv
  /\ FlagsInv /\ ContextInv /\ SwapInv

(* A sleep() that does not wrap: slept counts the ticks since it began,    *)
(* and the shell runs between two of them.  Threads other than the shell   *)
(* never see a tick.                                                       *)
Asleep(t) == at[t] \in {"test", "hlt", "halted"}

Exact(t) == SleepTicks <= end[t] /\ end[t] < TickMod - 1

SleepOf(t) ==
  /\ t # 1 => t = stack /\ made > 0
  /\ Exact(t) =>
       /\ slept[t] = tick - end[t] + SleepTicks
       /\ t # 1 => slept[t] = 0
       /\ at[t] = "test" => tick <= end[t] + 1 /\ (ran => slept[t] = 0)
       /\ at[t] = "hlt" => tick <= end[t] /\ (ran => tick < end[t])
       /\ at[t] = "halted" => tick <= end[t]

SleepInv == \A t \in Addr \ {NULL} : Asleep(t) => SleepOf(t)

-----------------------------------------------------------------------------
(* Arithmetic of sleep() and of the tick counter. *)

(* The milliseconds of one tick, 1000 / current_freq, are a positive       *)
(* number, and the ticks that sleep() waits for are a natural one.         *)
LEMMA SleepTicksType ==
  1000 \div current_freq \in Nat \ {0} /\ SleepTicks \in Nat
<1>1. 1000 \div current_freq \in Nat \ {0}
  BY SchedulerAssumption
<1> DEFINE q == 1000 \div current_freq
<1>2. \A m \in Nat, d \in Nat \ {0} : m \div d \in Nat
  OBVIOUS
<1>3. MS \in Nat
  BY SchedulerAssumption
<1>4. MS \div q \in Nat
  BY <1>1, <1>2, <1>3
<1>. QED  BY <1>1, <1>4 DEF SleepTicks

(* tick and end stay 32-bit numbers. *)
LEMMA TickType ==
  ASSUME NEW n \in Nat
  PROVE  n % TickMod \in 0 .. (TickMod - 1)
BY SleepTicksType, SchedulerAssumption

-----------------------------------------------------------------------------
(* The ring. *)

(* The tasks are control blocks of the heap, and the next one that it      *)
(* gives is none of them.                                                  *)
LEMMA TasksType ==
  ASSUME TypeOK, RingSound, made > 0, made < NumTCBs
  PROVE  /\ Tasks \subseteq Addr /\ made + 1 \in Addr /\ made + 1 \notin Tasks
         /\ next \in [Addr -> Addr] /\ ready_queue \in Tasks
<1>1. NumTCBs \in Nat /\ made \in Addr /\ next \in [Addr -> Addr]
  BY SchedulerAssumption DEF TypeOK
<1>2. Tasks \subseteq Addr /\ made + 1 \in Addr /\ made + 1 \notin Tasks
  BY <1>1 DEF Tasks, Addr
<1>. QED  BY <1>1, <1>2 DEF RingSound

(* The walk of create_kernel_thread ends at the one task that leads back   *)
(* to ready_queue, and the new task is linked in behind it.                *)
LEMMA LinkedAtTail ==
  ASSUME TypeOK, RingSound, NextInjective, made > 0, made < NumTCBs
  PROVE  \E tail \in Tasks :
           /\ next[tail] = ready_queue
           /\ Linked(made + 1) = [[next EXCEPT ![made + 1] = ready_queue]
                                    EXCEPT ![tail] = made + 1]
<1> DEFINE nx == [next EXCEPT ![made + 1] = ready_queue]
<1>0. /\ Tasks \subseteq Addr /\ made + 1 \in Addr /\ made + 1 \notin Tasks
      /\ next \in [Addr -> Addr] /\ ready_queue \in Tasks
  BY TasksType
<1>1. \A u \in Tasks : nx[u] = next[u] /\ next[u] \in Tasks
  BY <1>0 DEF RingSound
<1>2. \A S \in SUBSET Tasks : S # {} /\ (\A u \in S : next[u] \in S) => S = Tasks
  BY DEF RingSound
<1>3. \E t \in Tasks : next[t] = ready_queue
  <2>1. SUFFICES ASSUME \A t \in Tasks : next[t] # ready_queue
                 PROVE  FALSE
    OBVIOUS
  <2> DEFINE S == Tasks \ {ready_queue}
  <2>2. S # {}
    BY <1>0, <1>1, <2>1
  <2>3. \A u \in S : next[u] \in S
    BY <1>1, <2>1
  <2>. QED  BY <1>0, <1>2, <2>2, <2>3
<1>4. PICK t \in Tasks : next[t] = ready_queue
  BY <1>3
<1>5. Walked(nx, t)
  <2>1. SUFFICES ASSUME NEW S \in SUBSET Addr, ready_queue \in S,
                        \A u \in S : nx[u] # ready_queue => nx[u] \in S
                 PROVE  t \in S
    BY DEF Walked
  <2> DEFINE R == S \cap Tasks
  <2>2. R \in SUBSET Tasks /\ R # {}
    BY <1>0, <2>1
  <2>3. \A u \in R : next[u] \in R
    BY <1>0, <1>1, <2>1
  <2>4. R = Tasks
    BY <1>2, <2>2, <2>3
  <2>. QED  BY <2>4, <1>4
<1>6. \A u \in Addr : nx[u] = ready_queue /\ Walked(nx, u) => u = t
  <2>1. SUFFICES ASSUME NEW u \in Addr, nx[u] = ready_queue, Walked(nx, u)
                 PROVE  u = t
    OBVIOUS
  <2>2. u \in Tasks
    BY <1>0, <1>1, <2>1 DEF Walked
  <2>. QED  BY <1>1, <1>4, <2>1, <2>2 DEF NextInjective
<1>7. TailOf(nx) = t
  BY <1>0, <1>1, <1>4, <1>5, <1>6 DEF TailOf
<1>8. Linked(made + 1) = [nx EXCEPT ![t] = made + 1]
  BY <1>7 DEF Linked
<1>. QED  BY <1>4, <1>8

(* Linking a new task in between one task and its successor keeps one ring *)
(* in which no two tasks have the same successor.                          *)
LEMMA RingGrows ==
  ASSUME TypeOK, RingSound, NextInjective, made > 0, made < NumTCBs,
         next' = Linked(made + 1), made' = made + 1,
         UNCHANGED <<current_task, ready_queue>>
  PROVE  next' \in [Addr -> Addr] /\ RingSound' /\ NextInjective'
<1> DEFINE new == made + 1
<1>0. /\ Tasks \subseteq Addr /\ new \in Addr /\ new \notin Tasks
      /\ next \in [Addr -> Addr]
      /\ ready_queue \in Tasks /\ current_task \in Tasks
      /\ Tasks' = Tasks \cup {new}
  <2>1. made \in Nat
    BY SchedulerAssumption DEF TypeOK, Addr
  <2>2. Tasks' = Tasks \cup {new}
    BY <2>1 DEF Tasks
  <2>. QED  BY <2>2, TasksType DEF RingSound
<1>1. PICK tail \in Tasks :
        /\ next[tail] = ready_queue
        /\ Linked(new) = [[next EXCEPT ![new] = ready_queue] EXCEPT ![tail] = new]
  BY LinkedAtTail
<1> HIDE DEF new
<1>2. /\ next' \in [Addr -> Addr]
      /\ next'[new] = ready_queue /\ next'[tail] = new
      /\ \A u \in Tasks \ {tail} : next'[u] = next[u]
  <2>1. next' = [[next EXCEPT ![new] = ready_queue] EXCEPT ![tail] = new]
    BY <1>1 DEF new
  <2>. QED  BY <1>0, <1>1, <2>1
<1>3. /\ \A u \in Tasks : next[u] \in Tasks
      /\ \A S \in SUBSET Tasks : S # {} /\ (\A u \in S : next[u] \in S) => S = Tasks
  BY <1>0 DEF RingSound
<1>4. \A u \in Tasks' : next'[u] \in Tasks'
  BY <1>0, <1>2, <1>3
<1>5. ASSUME NEW S \in SUBSET (Tasks'), S # {}, \A u \in S : next'[u] \in S
      PROVE  S = Tasks'
  <2> DEFINE R == S \ {new}
  <2>1. new \in S
    <3>1. SUFFICES ASSUME new \notin S
                   PROVE  FALSE
      OBVIOUS
    <3>2. tail \notin S
      BY <1>2, <1>5, <3>1
    <3>3. S \in SUBSET Tasks /\ \A u \in S : next[u] \in S
      BY <1>0, <1>2, <1>5, <3>1, <3>2
    <3>. QED  BY <1>1, <1>3, <1>5, <3>2, <3>3
  <2>2. R \in SUBSET Tasks /\ ready_queue \in R
    BY <1>0, <1>2, <1>5, <2>1
  <2>3. \A u \in R : next[u] \in R
    BY <1>0, <1>1, <1>2, <1>3, <1>5, <2>2
  <2>4. R = Tasks
    BY <1>3, <2>2, <2>3
  <2>. QED  BY <1>0, <2>1, <2>4
<1>6. RingSound'
  BY <1>0, <1>4, <1>5 DEF RingSound
<1>7. NextInjective'
  <2>1. \A t, u \in Tasks : next[t] = next[u] => t = u
    BY DEF NextInjective
  <2>2. \A t, u \in Tasks' : next'[t] = next'[u] => t = u
    BY <1>0, <1>1, <1>2, <1>3, <2>1
  <2>. QED  BY <2>2 DEF NextInjective
<1>. QED  BY <1>2, <1>6, <1>7

-----------------------------------------------------------------------------
(* The inductive invariant. *)

Steps == {"boot", "run", "test", "hlt", "halted", "swap"}

(* The stack in use is that of a task, or the one kernel_main boots on.    *)
LEMMA StackType ==
  ASSUME SchedInv
  PROVE  /\ stack \in Addr /\ stack # 0 /\ 1 \in Addr
         /\ made > 0 => stack \in Tasks
         /\ made = 0 \/ made > 0
<1>1. NumTCBs \in Nat \ {0} /\ made \in Addr
  BY SchedulerAssumption DEF SchedInv, TypeOK
<1>2. (made = 0 => stack = 1) /\ (made > 0 => stack \in Tasks)
  BY DEF SchedInv, BootInv
<1>. QED  BY <1>1, <1>2 DEF Addr, Tasks

(* The first state: kernel_main runs on its stack, with interrupts on. *)
LEMMA InitInv == Init => SchedInv
<1> SUFFICES ASSUME Init PROVE SchedInv
  OBVIOUS
<1> USE DEF Init, NULL, Wild
<1>1. NumTCBs \in Nat \ {0} /\ MaxSpawns \in Nat
  BY SchedulerAssumption
<1>2. TickMod \in Nat \ {0} /\ SleepTicks \in Nat
  BY SchedulerAssumption, SleepTicksType
<1>3. TypeOK
  <2>1. esp \in [Addr -> Context]
    BY DEF Context
  <2>2. /\ 0 \in Addr /\ 1 \in Addr /\ 0 \in 0 .. (TickMod - 1)
        /\ 0 \in 0 .. MaxSpawns /\ 0 \in 0 .. (SleepTicks + 2)
    BY <1>1, <1>2 DEF Addr
  <2>3. at \in [Addr -> Steps]
    BY DEF Steps
  <2>4. next \in [Addr -> Addr] /\ old \in [Addr -> Addr]
    BY <2>2
  <2>5. end \in [Addr -> 0 .. (TickMod - 1)] /\ slept \in [Addr -> 0 .. (SleepTicks + 2)]
    BY <2>2
  <2>. QED  BY <2>1, <2>2, <2>3, <2>4, <2>5 DEF TypeOK, Steps
<1>4. RingSound /\ NextInjective /\ ContextInv /\ SpareInv
  BY DEF RingSound, NextInjective, ContextInv, SpareInv, Tasks
<1>5. BootInv /\ FlagsInv /\ SwapInv
  BY <1>1 DEF BootInv, FlagsInv, SwapInv, Addr
<1>. QED  BY <1>3, <1>4, <1>5 DEF SchedInv

(* A step that only moves the code on the stack in use, outside of         *)
(* task_switch, keeps the invariant: sleep(), hlt, and a task_switch that  *)
(* finds no other task.                                                    *)
LEMMA LocalStep ==
  ASSUME SchedInv, NEW x \in Steps \ {"swap"},
         at[stack] # "swap", x = "boot" <=> at[stack] = "boot",
         at' = [at EXCEPT ![stack] = x], Execute,
         tick' \in 0 .. (TickMod - 1), end' \in [Addr -> 0 .. (TickMod - 1)],
         slept' \in [Addr -> 0 .. (SleepTicks + 2)],
         UNCHANGED <<queue, cpu, old>>
  PROVE  SchedInv'
<1> USE DEF queue, cpu
<1>1. stack \in Addr /\ 1 \in Addr
  BY StackType
<1>2. at \in [Addr -> Steps] /\ at' \in [Addr -> Steps]
  BY <1>1 DEF SchedInv, TypeOK, Steps
<1>3. at'[stack] = x /\ \A t \in Addr \ {stack} : at'[t] = at[t]
  BY <1>1, <1>2
<1>4. TypeOK'
  BY <1>2 DEF SchedInv, TypeOK, Execute, Steps, Context
<1>5. RingSound' /\ NextInjective' /\ FlagsInv'
  BY DEF SchedInv, RingSound, NextInjective, FlagsInv, Tasks
<1>6. BootInv'
  BY <1>1, <1>3 DEF SchedInv, BootInv, Tasks
<1>7. SpareInv'
  <2>1. made = 0 => stack = 1
    BY DEF SchedInv, BootInv
  <2>2. made > 0 => ~ (stack > made)
    BY SchedulerAssumption DEF SchedInv, BootInv, Tasks, TypeOK, Addr
  <2>. QED  BY <1>3, <2>1, <2>2, StackType DEF SchedInv, SpareInv
<1>8. ContextInv'
  <2>1. Tasks' = Tasks /\ Tasks \subseteq Addr
    BY SchedulerAssumption DEF Tasks, Addr, SchedInv, TypeOK
  <2>. QED  BY <1>3, <2>1 DEF SchedInv, ContextInv
<1>9. SwapInv'
  BY <1>1, <1>3 DEF SchedInv, SwapInv
<1>. QED  BY <1>4, <1>5, <1>6, <1>7, <1>8, <1>9 DEF SchedInv

(* tasking_init makes task 1 of the code that boots, a ring of one. *)
LEMMA TaskingInitInv ==
  ASSUME SchedInv, TaskingInit
  PROVE  SchedInv'
<1> USE DEF time
<1>1. made = 0 /\ stack = 1 /\ spawned = 0
  <2>1. stack \in Addr
    BY StackType
  <2>. QED  BY <2>1 DEF SchedInv, BootInv, TaskingInit
<1>2. NumTCBs \in Nat \ {0} /\ 0 \in Addr /\ 1 \in Addr
  BY SchedulerAssumption DEF Addr
<1>3. Alloc = 1
  BY <1>1, <1>2 DEF Alloc
<1>4. /\ current_task' = 1 /\ ready_queue' = 1 /\ made' = 1 /\ stack' = 1
      /\ spawned' = 0 /\ interrupts' = TRUE /\ in_service' = in_service
      /\ next' = [next EXCEPT ![1] = 1] /\ at' = [at EXCEPT ![1] = "run"]
      /\ UNCHANGED <<esp, spawned, stack, old, tick, end, slept>>
      /\ ran' = (ran \/ interrupts)
  BY <1>1, <1>3 DEF TaskingInit, Goto, Execute
<1>5. next \in [Addr -> Addr] /\ at \in [Addr -> Steps]
  BY DEF SchedInv, TypeOK, Steps
<1>6. Tasks' = {1} /\ next'[1] = 1
  BY <1>2, <1>4, <1>5 DEF Tasks
<1>7. TypeOK'
  <2>1. next' \in [Addr -> Addr] /\ at' \in [Addr -> Steps]
    BY <1>2, <1>4, <1>5 DEF Steps
  <2>. QED  BY <1>2, <1>4, <2>1 DEF SchedInv, TypeOK, Steps, Context
<1>8. RingSound' /\ NextInjective' /\ ContextInv'
  BY <1>4, <1>6 DEF RingSound, NextInjective, ContextInv
<1>9. BootInv' /\ FlagsInv' /\ SwapInv'
  BY <1>1, <1>2, <1>4, <1>5, <1>6 DEF SchedInv, BootInv, FlagsInv, SwapInv
<1>10. SpareInv'
  BY <1>1, <1>2, <1>4, <1>5 DEF SchedInv, SpareInv, Addr
<1>. QED  BY <1>7, <1>8, <1>9, <1>10 DEF SchedInv

(* create_kernel_thread leaves a sound ring and a context that starts the  *)
(* thread on its own stack.                                                *)
LEMMA CreateInv ==
  ASSUME Benign, SchedInv, CreateKernelThread
  PROVE  SchedInv'
<1> USE DEF time
<1>1. stack = 1 /\ at[1] = "run" /\ spawned < MaxSpawns
  BY DEF CreateKernelThread
<1>2. NumTCBs \in Nat \ {0} /\ MaxSpawns \in Nat /\ 1 \in Addr
  BY SchedulerAssumption DEF Addr
<1>3. made \in Nat /\ spawned \in Nat /\ made <= NumTCBs
  BY <1>2 DEF SchedInv, TypeOK, Addr
<1>4. made > 0 /\ made = spawned + 1
  BY <1>1, <1>2, <1>3 DEF SchedInv, BootInv
<1>5. made < NumTCBs /\ made + 1 \in Addr /\ made + 1 # 1
  BY <1>1, <1>2, <1>3, <1>4 DEF Benign, Addr
<1>6. Alloc = made + 1 /\ Alloc # NULL /\ AllocStack = made + 1
  <2>1. Alloc = made + 1 /\ Alloc # NULL
    BY <1>3, <1>5 DEF Alloc, NULL
  <2>2. spawned < NumStacks
    BY <1>1, <1>2, <1>3, SchedulerAssumption DEF Benign
  <2>. QED  BY <2>1, <2>2 DEF AllocStack
<1>7. /\ spawned' = spawned + 1 /\ made' = made + 1
      /\ esp' = [esp EXCEPT ![made + 1] = [stack |-> made + 1, how |-> "fresh"]]
      /\ next' = Linked(made + 1) /\ interrupts' = TRUE
      /\ at' = [at EXCEPT ![1] = "run"] /\ ran' = (ran \/ interrupts)
      /\ UNCHANGED <<current_task, ready_queue, stack, in_service, old, tick, end, slept>>
  BY <1>1, <1>6 DEF CreateKernelThread, Goto, Execute
<1>8. at' = at
  BY <1>1, <1>2, <1>7 DEF SchedInv, TypeOK
<1>9. next' \in [Addr -> Addr] /\ RingSound' /\ NextInjective'
  BY <1>4, <1>5, <1>7, RingGrows DEF SchedInv
<1>10. esp' \in [Addr -> Context]
  <2>1. [stack |-> made + 1, how |-> "fresh"] \in Context
    BY <1>5 DEF Context
  <2>. QED  BY <1>5, <1>7, <2>1 DEF SchedInv, TypeOK
<1>11. TypeOK'
  <2>1. spawned' \in 0 .. MaxSpawns /\ made' \in Addr
    BY <1>1, <1>2, <1>3, <1>5, <1>7
  <2>. QED  BY <1>7, <1>8, <1>9, <1>10, <2>1 DEF SchedInv, TypeOK
<1>12. Tasks' = Tasks \cup {made + 1} /\ Tasks \subseteq Addr /\ made + 1 \notin Tasks
  BY <1>2, <1>3, <1>7 DEF Tasks, Addr
<1>13. BootInv'
  <2>1. made' > 0 /\ made' = spawned' + 1 /\ made' # 0
    BY <1>3, <1>4, <1>7
  <2>2. \A t \in Addr : at[t] # "boot"
    BY <1>3, <1>4 DEF SchedInv, BootInv
  <2>3. stack' \in Tasks'
    BY <1>4, <1>7, <1>12 DEF SchedInv, BootInv
  <2>. QED  BY <1>8, <2>1, <2>2, <2>3 DEF BootInv
<1>14. FlagsInv'
  BY <1>1, <1>7 DEF SchedInv, FlagsInv
<1>15. ContextInv'
  <2>1. \A t \in Tasks \ {stack} : esp'[t] = esp[t]
    BY <1>5, <1>7, <1>12 DEF SchedInv, TypeOK
  <2>2. esp'[made + 1] = [stack |-> made + 1, how |-> "fresh"]
    BY <1>5, <1>7 DEF SchedInv, TypeOK
  <2>3. at[made + 1] = "run"
    BY <1>3, <1>5 DEF SchedInv, SpareInv
  <2>. QED  BY <1>5, <1>7, <1>8, <1>12, <2>1, <2>2, <2>3 DEF SchedInv, ContextInv
<1>16. SwapInv'
  BY <1>1, <1>4, <1>7, <1>8 DEF SchedInv, SwapInv
<1>17. SpareInv'
  <2>1. \A t \in Addr : t > made' => t > made
    BY <1>2, <1>3, <1>7 DEF Addr
  <2>. QED  BY <1>8, <2>1 DEF SchedInv, SpareInv
<1>. QED  BY <1>9, <1>11, <1>13, <1>14, <1>15, <1>16, <1>17 DEF SchedInv

(* What the timer interrupt does when it switches.  Only the shell can be  *)
(* interrupted, so task 1 waits in its handler of IRQ0, and the task after *)
(* it goes on, with interrupts off and IRQ0 in service.                    *)
LEMMA Irq0Switch ==
  ASSUME SchedInv, Irq0, ~ NothingToSwitch
  PROVE  /\ made > 0 /\ stack = 1 /\ current_task = 1
         /\ stack' = next[1] /\ current_task' = next[1]
         /\ next[1] \in Tasks \ {1}
         /\ esp' = [esp EXCEPT ![1] = [stack |-> 1, how |-> "irq"]]
         /\ interrupts' = FALSE /\ in_service' = TRUE
         /\ at' = IF esp[next[1]].how = "call"
                  THEN [Unhalted EXCEPT ![next[1]] = "run"] ELSE Unhalted
         /\ esp[next[1]].how = "call" \/ at[next[1]] = "run"
<1>1. stack = 1
  BY DEF SchedInv, FlagsInv, Irq0
<1>2. made > 0
  BY StackType DEF SchedInv, BootInv, NothingToSwitch
<1>3. current_task = 1
  BY <1>1, <1>2 DEF SchedInv, SwapInv
<1>4. next[1] \in Tasks \ {1}
  BY <1>2, <1>3 DEF SchedInv, RingSound, NothingToSwitch
<1>5. /\ esp[next[1]].stack = next[1]
      /\ esp[next[1]].how = "call" \/ (esp[next[1]].how = "fresh" /\ at[next[1]] = "run")
  BY <1>1, <1>4 DEF SchedInv, ContextInv
<1>6. /\ current_task' = next[1] /\ esp' = [esp EXCEPT ![1] = [stack |-> 1, how |-> "irq"]]
      /\ Resume(next[1], Unhalted, FALSE, TRUE)
  BY <1>1, <1>3 DEF Irq0, Save
<1>7. /\ stack' = next[1] /\ interrupts' = FALSE /\ in_service' = TRUE
      /\ at' = IF esp[next[1]].how = "call"
               THEN [Unhalted EXCEPT ![next[1]] = "run"] ELSE Unhalted
  BY <1>5, <1>6 DEF Resume
<1>. QED  BY <1>1, <1>2, <1>3, <1>4, <1>5, <1>6, <1>7

(* The tick counter and the histories of the sleeps stay typed. *)
LEMMA Irq0Time ==
  ASSUME TypeOK, Irq0
  PROVE  /\ tick' \in 0 .. (TickMod - 1) /\ end' = end
         /\ slept' \in [Addr -> 0 .. (SleepTicks + 2)]
<1>1. TickMod \in Nat \ {0} /\ SleepTicks \in Nat
  BY SleepTicksType, SchedulerAssumption
<1>2. tick \in Nat /\ slept \in [Addr -> 0 .. (SleepTicks + 2)]
  BY <1>1 DEF TypeOK
<1>3. tick' \in 0 .. (TickMod - 1)
  BY <1>2, TickType DEF Irq0
<1>4. slept' = [t \in Addr |-> IF slept[t] <= SleepTicks + 1 THEN slept[t] + 1 ELSE slept[t]]
  BY DEF Irq0
<1>5. slept' \in [Addr -> 0 .. (SleepTicks + 2)]
  BY <1>1, <1>2, <1>4
<1>. QED  BY <1>3, <1>5 DEF Irq0

(* The timer interrupt. *)
LEMMA Irq0Inv ==
  ASSUME SchedInv, Irq0
  PROVE  SchedInv'
<1>1. stack = 1 /\ 1 \in Addr /\ Tasks' = Tasks /\ Tasks \subseteq Addr
  <2>1. made \in Addr /\ NumTCBs \in Nat /\ made' = made
    BY SchedulerAssumption DEF SchedInv, TypeOK, Irq0
  <2>. QED  BY <2>1, StackType DEF SchedInv, FlagsInv, Irq0, Tasks, Addr
<1>2. at \in [Addr -> Steps] /\ Unhalted \in [Addr -> Steps]
  BY <1>1 DEF SchedInv, TypeOK, Unhalted, Steps
<1>3. /\ \A t \in Addr \ {1} : Unhalted[t] = at[t]
      /\ Unhalted[1] = "boot" <=> at[1] = "boot"
      /\ Unhalted[1] # "swap"
  BY <1>1, <1>2 DEF SchedInv, SwapInv, Unhalted
<1>4. UNCHANGED <<ready_queue, next, made, spawned, old, end>> /\ ran' = FALSE
  BY DEF Irq0
<1>5. CASE NothingToSwitch
  <2>1. at' = Unhalted /\ UNCHANGED <<cpu, current_task, esp>>
    BY <1>5 DEF Irq0
  <2> USE DEF cpu
  <2>2. TypeOK'
    BY <1>2, <1>4, <2>1, Irq0Time DEF SchedInv, TypeOK, Steps, Context
  <2>3. RingSound' /\ NextInjective' /\ FlagsInv'
    BY <1>4, <2>1 DEF SchedInv, RingSound, NextInjective, FlagsInv, Tasks
  <2>4. BootInv' /\ SpareInv'
    BY <1>1, <1>3, <1>4, <2>1 DEF SchedInv, BootInv, SpareInv
  <2>5. ContextInv'
    BY <1>1, <1>3, <2>1 DEF SchedInv, ContextInv
  <2>6. SwapInv'
    BY <1>1, <1>3, <1>4, <2>1 DEF SchedInv, SwapInv
  <2>. QED  BY <2>2, <2>3, <2>4, <2>5, <2>6 DEF SchedInv
<1>6. CASE ~ NothingToSwitch
  <2> DEFINE n == next[1]
  <2>1. /\ made > 0 /\ stack' = n /\ current_task' = n /\ n \in Tasks \ {1} /\ n \in Addr
        /\ esp' = [esp EXCEPT ![1] = [stack |-> 1, how |-> "irq"]]
        /\ interrupts' = FALSE /\ in_service' = TRUE
        /\ at' = IF esp[n].how = "call" THEN [Unhalted EXCEPT ![n] = "run"] ELSE Unhalted
        /\ esp[n].how = "call" \/ at[n] = "run"
    BY <1>1, <1>6, Irq0Switch
  <2> HIDE DEF n
  <2>2. /\ at' \in [Addr -> Steps] /\ at'[n] = "run" /\ at'[1] = Unhalted[1]
        /\ \A t \in Addr \ {1, n} : at'[t] = at[t]
    BY <1>1, <1>2, <1>3, <2>1 DEF Steps
  <2>3. /\ esp' \in [Addr -> Context] /\ esp'[1] = [stack |-> 1, how |-> "irq"]
        /\ \A t \in Addr \ {1} : esp'[t] = esp[t]
    <3>1. [stack |-> 1, how |-> "irq"] \in Context
      BY <1>1 DEF Context
    <3>. QED  BY <1>1, <2>1, <3>1 DEF SchedInv, TypeOK
  <2>4. TypeOK'
    BY <1>4, <2>1, <2>2, <2>3, Irq0Time DEF SchedInv, TypeOK, Steps
  <2>5. RingSound' /\ NextInjective' /\ FlagsInv'
    BY <1>1, <1>4, <2>1 DEF SchedInv, RingSound, NextInjective, FlagsInv
  <2>6. BootInv'
    <3>1. \A t \in Addr : at'[t] # "boot"
      BY <1>1, <1>3, <2>1, <2>2, StackType DEF SchedInv, BootInv
    <3>. QED  BY <1>1, <1>4, <2>1, <3>1, StackType DEF SchedInv, BootInv
  <2>7. SpareInv'
    <3>1. ~ (n > made)
      BY <2>1, SchedulerAssumption DEF Tasks, SchedInv, TypeOK, Addr
    <3>. QED  BY <1>4, <2>2, <3>1 DEF SchedInv, SpareInv
  <2>8. ContextInv'
    BY <1>1, <2>1, <2>2, <2>3 DEF SchedInv, ContextInv
  <2>9. SwapInv'
    BY <1>3, <2>1, <2>2 DEF SwapInv
  <2>. QED  BY <2>4, <2>5, <2>6, <2>7, <2>8, <2>9 DEF SchedInv
<1>. QED  BY <1>5, <1>6

(* A thread's own call of task_switch: current_task runs ahead of the      *)
(* stack until switch_task.                                                *)
LEMMA YieldInv ==
  ASSUME Benign, SchedInv, Yield
  PROVE  SchedInv'
<1> USE DEF time, cpu
<1>1. stack \in Addr /\ at[stack] = "run" /\ stack # 1
  BY StackType DEF Yield, Benign
<1>2. CASE NothingToSwitch
  <2>1. /\ at' = [at EXCEPT ![stack] = "run"] /\ Execute
        /\ UNCHANGED <<queue, cpu, old, tick, end, slept>>
    BY <1>2 DEF Yield, Goto, queue
  <2>2. /\ tick' \in 0 .. (TickMod - 1) /\ end' \in [Addr -> 0 .. (TickMod - 1)]
        /\ slept' \in [Addr -> 0 .. (SleepTicks + 2)]
    BY <2>1 DEF SchedInv, TypeOK
  <2>. QED  BY <1>1, <2>1, <2>2, LocalStep DEF Steps
<1>3. CASE ~ NothingToSwitch
  <2>1. made > 0 /\ made # 0
    BY <1>3, StackType DEF SchedInv, BootInv, NothingToSwitch
  <2>2. current_task = stack /\ next[stack] # stack
    BY <1>1, <1>3, <2>1 DEF SchedInv, SwapInv, NothingToSwitch
  <2>3. /\ old' = [old EXCEPT ![stack] = stack] /\ current_task' = next[stack]
        /\ at' = [at EXCEPT ![stack] = "swap"] /\ ran' = (ran \/ interrupts)
        /\ UNCHANGED <<ready_queue, next, esp, made, spawned, cpu, tick, end, slept>>
    BY <1>3, <2>2 DEF Yield, Goto, Execute
  <2>4. /\ at' \in [Addr -> Steps] /\ at'[stack] = "swap"
        /\ \A t \in Addr \ {stack} : at'[t] = at[t]
    BY <1>1, <2>3 DEF SchedInv, TypeOK, Steps
  <2>5. old' \in [Addr -> Addr] /\ old'[stack] = stack
    BY <1>1, <2>3 DEF SchedInv, TypeOK
  <2>6. Tasks' = Tasks /\ Tasks \subseteq Addr /\ next[stack] \in Tasks /\ stack \in Tasks
    <3>1. stack \in Tasks
      BY <2>1, StackType
    <3>2. Tasks' = Tasks /\ Tasks \subseteq Addr
      BY <2>3, SchedulerAssumption DEF SchedInv, TypeOK, Tasks, Addr
    <3>. QED  BY <2>1, <3>1, <3>2 DEF SchedInv, RingSound
  <2>7. TypeOK'
    BY <2>3, <2>4, <2>5, <2>6 DEF SchedInv, TypeOK, Steps
  <2>8. RingSound' /\ NextInjective' /\ FlagsInv'
    BY <2>1, <2>3, <2>6 DEF SchedInv, RingSound, NextInjective, FlagsInv
  <2>9. BootInv'
    <3>1. \A t \in Addr : at'[t] # "boot"
      BY <1>1, <2>1, <2>4 DEF SchedInv, BootInv
    <3>. QED  BY <2>1, <2>3, <2>6, <3>1 DEF SchedInv, BootInv
  <2>10. SpareInv'
    <3>1. ~ (stack > made)
      BY <2>6, SchedulerAssumption DEF Tasks, SchedInv, TypeOK, Addr
    <3>. QED  BY <2>3, <2>4, <3>1 DEF SchedInv, SpareInv
  <2>11. ContextInv'
    BY <2>3, <2>4, <2>6 DEF SchedInv, ContextInv
  <2>12. SwapInv'
    BY <1>1, <2>2, <2>3, <2>4, <2>5, StackType DEF SchedInv, SwapInv
  <2>. QED  BY <2>7, <2>8, <2>9, <2>10, <2>11, <2>12 DEF SchedInv
<1>. QED  BY <1>2, <1>3

(* What switch_task does: the stack follows current_task.  A thread that   *)
(* hands over to the shell does so into its handler of IRQ0, which ends    *)
(* with the EOI and iret.                                                  *)
LEMMA SwitchTaskStep ==
  ASSUME SchedInv, SwitchTask
  PROVE  /\ made > 0 /\ stack \in Tasks \ {1}
         /\ current_task = next[stack] /\ next[stack] \in Tasks \ {stack}
         /\ stack' = next[stack]
         /\ esp' = [esp EXCEPT ![stack] = [stack |-> stack, how |-> "call"]]
         /\ interrupts' = (next[stack] = 1) /\ in_service' = (next[stack] # 1)
         /\ at' = IF esp[next[stack]].how = "call"
                  THEN [at EXCEPT ![next[stack]] = "run"] ELSE at
         /\ next[stack] # 1 => esp[next[stack]].how = "call" \/ at[next[stack]] = "run"
<1>1. at[stack] = "swap" /\ stack # 1 /\ ~ interrupts /\ in_service
  BY DEF SchedInv, SwapInv, FlagsInv, SwitchTask
<1>2. made > 0 /\ stack \in Tasks \ {1}
  BY <1>1, StackType DEF SchedInv, BootInv
<1>3. /\ current_task = next[stack] /\ next[stack] \in Tasks \ {stack} /\ old[stack] = stack
  BY <1>1, <1>2 DEF SchedInv, SwapInv, RingSound
<1>4. /\ esp[next[stack]].stack = next[stack]
      /\ next[stack] = 1 => esp[next[stack]].how = "irq"
      /\ next[stack] # 1 => \/ esp[next[stack]].how = "call"
                            \/ esp[next[stack]].how = "fresh" /\ at[next[stack]] = "run"
  BY <1>3 DEF SchedInv, ContextInv
<1>5. /\ esp' = [esp EXCEPT ![stack] = [stack |-> stack, how |-> "call"]]
      /\ Resume(next[stack], at, interrupts, in_service)
  BY <1>3 DEF SwitchTask, Save
<1>6. /\ stack' = next[stack]
      /\ interrupts' = (next[stack] = 1) /\ in_service' = (next[stack] # 1)
      /\ at' = IF esp[next[stack]].how = "call"
               THEN [at EXCEPT ![next[stack]] = "run"] ELSE at
  BY <1>1, <1>4, <1>5 DEF Resume
<1>. QED  BY <1>2, <1>3, <1>4, <1>5, <1>6

(* switch_task. *)
LEMMA SwitchTaskInv ==
  ASSUME SchedInv, SwitchTask
  PROVE  SchedInv'
<1> USE DEF time
<1> DEFINE n == next[stack]
<1>1. /\ made > 0 /\ stack \in Tasks \ {1} /\ current_task = n /\ n \in Tasks \ {stack}
      /\ stack' = n /\ esp' = [esp EXCEPT ![stack] = [stack |-> stack, how |-> "call"]]
      /\ interrupts' = (n = 1) /\ in_service' = (n # 1)
      /\ at' = IF esp[n].how = "call" THEN [at EXCEPT ![n] = "run"] ELSE at
      /\ n # 1 => esp[n].how = "call" \/ at[n] = "run"
  BY SwitchTaskStep
<1> HIDE DEF n
<1>2. /\ UNCHANGED <<current_task, ready_queue, next, made, spawned, old, tick, end, slept>>
      /\ ran' = (ran \/ interrupts)
  BY DEF SwitchTask, Execute
<1>3. Tasks' = Tasks /\ Tasks \subseteq Addr /\ 1 \in Addr
  BY <1>2, SchedulerAssumption DEF SchedInv, TypeOK, Tasks, Addr
<1>4. /\ at' \in [Addr -> Steps] /\ at'[n] # "swap" /\ at'[1] # "swap"
      /\ \A t \in Addr \ {n} : at'[t] = at[t]
      /\ at'[n] = "run" \/ at'[n] = at[n]
  BY <1>1, <1>3 DEF SchedInv, TypeOK, SwapInv, Steps
<1>5. /\ esp' \in [Addr -> Context] /\ esp'[stack] = [stack |-> stack, how |-> "call"]
      /\ \A t \in Addr \ {stack} : esp'[t] = esp[t]
  <2>1. [stack |-> stack, how |-> "call"] \in Context
    BY <1>1, <1>3 DEF Context
  <2>. QED  BY <1>1, <1>3, <2>1 DEF SchedInv, TypeOK
<1>6. TypeOK'
  BY <1>1, <1>2, <1>3, <1>4, <1>5 DEF SchedInv, TypeOK, Steps
<1>7. RingSound' /\ NextInjective'
  BY <1>2, <1>3 DEF SchedInv, RingSound, NextInjective
<1>8. FlagsInv'
  BY <1>1 DEF FlagsInv
<1>9. BootInv'
  <2>1. made # 0
    BY <1>1
  <2>2. \A t \in Addr : at'[t] # "boot"
    BY <1>1, <1>3, <1>4, <2>1 DEF SchedInv, BootInv
  <2>. QED  BY <1>1, <1>2, <1>3, <2>1, <2>2 DEF SchedInv, BootInv
<1>10. SpareInv'
  <2>1. ~ (n > made)
    BY <1>1, SchedulerAssumption DEF Tasks, SchedInv, TypeOK, Addr
  <2>. QED  BY <1>2, <1>4, <2>1 DEF SchedInv, SpareInv
<1>11. ContextInv'
  BY <1>1, <1>3, <1>4, <1>5 DEF SchedInv, ContextInv
<1>12. SwapInv'
  BY <1>1, <1>2, <1>4 DEF SwapInv
<1>. QED  BY <1>6, <1>7, <1>8, <1>9, <1>10, <1>11, <1>12 DEF SchedInv

(* sleep(), hlt and everything else that the shell and the threads do. *)
LEMMA ComputeInv ==
  ASSUME SchedInv, BeginSleep \/ TestTick \/ Halt \/ Compute
  PROVE  SchedInv'
<1> USE DEF time
<1>1. stack \in Addr
  BY StackType
<1>2. /\ tick \in 0 .. (TickMod - 1) /\ end \in [Addr -> 0 .. (TickMod - 1)]
      /\ slept \in [Addr -> 0 .. (SleepTicks + 2)]
  BY DEF SchedInv, TypeOK
<1>3. CASE BeginSleep
  <2>1. SleepTicks \in Nat /\ TickMod \in Nat
    BY SleepTicksType, SchedulerAssumption
  <2>2. (tick + SleepTicks) % TickMod \in 0 .. (TickMod - 1)
    BY <1>2, <2>1, TickType
  <2>3. /\ end' = [end EXCEPT ![stack] = (tick + SleepTicks) % TickMod]
        /\ slept' = [slept EXCEPT ![stack] = 0] /\ tick' = tick
        /\ at[stack] = "run" /\ at' = [at EXCEPT ![stack] = "test"]
        /\ Execute /\ UNCHANGED <<queue, cpu, old>>
    BY <1>3 DEF BeginSleep, Goto
  <2>4. /\ end' \in [Addr -> 0 .. (TickMod - 1)]
        /\ slept' \in [Addr -> 0 .. (SleepTicks + 2)]
    <3>1. 0 \in 0 .. (SleepTicks + 2)
      BY <2>1
    <3>. QED  BY <1>1, <1>2, <2>2, <2>3, <3>1
  <2>. QED  BY <1>2, <2>3, <2>4, LocalStep DEF Steps
<1>4. CASE TestTick
  <2>1. \E x \in {"hlt", "run"} :
          /\ at[stack] = "test" /\ at' = [at EXCEPT ![stack] = x] /\ Execute
          /\ UNCHANGED <<queue, cpu, old, tick, end, slept>>
    BY <1>4 DEF TestTick, Goto
  <2>. QED  BY <1>2, <2>1, LocalStep DEF Steps
<1>5. CASE Halt
  <2>1. /\ at[stack] = "hlt" /\ at' = [at EXCEPT ![stack] = "halted"] /\ Execute
        /\ UNCHANGED <<queue, cpu, old, tick, end, slept>>
    BY <1>5 DEF Halt, Goto
  <2>. QED  BY <1>2, <2>1, LocalStep DEF Steps
<1>6. CASE Compute
  <2>1. /\ at[stack] \in {"boot", "run"} /\ at' = [at EXCEPT ![stack] = at[stack]] /\ Execute
        /\ UNCHANGED <<queue, cpu, old, tick, end, slept>>
    BY <1>6 DEF Compute, Goto
  <2>. QED  BY <1>2, <2>1, LocalStep DEF Steps
<1>. QED  BY <1>3, <1>4, <1>5, <1>6

(* Every step keeps the invariant. *)
LEMMA NextInv ==
  ASSUME Benign, SchedInv, [Next]_vars
  PROVE  SchedInv'
<1>1. CASE Irq0
  BY <1>1, Irq0Inv
<1>2. CASE TaskingInit
  BY <1>2, TaskingInitInv
<1>3. CASE CreateKernelThread
  BY <1>3, CreateInv
<1>4. CASE Yield
  BY <1>4, YieldInv
<1>5. CASE SwitchTask
  BY <1>5, SwitchTaskInv
<1>6. CASE BeginSleep \/ TestTick \/ Halt \/ Compute
  BY <1>6, ComputeInv
<1>7. CASE UNCHANGED vars
  <2> USE <1>7 DEF vars, queue, cpu, time, SchedInv
  <2>1. TypeOK'
    BY DEF TypeOK
  <2>2. RingSound' /\ NextInjective'
    BY DEF RingSound, NextInjective, Tasks
  <2>3. BootInv' /\ SpareInv' /\ FlagsInv'
    BY DEF BootInv, SpareInv, FlagsInv, Tasks
  <2>4. ContextInv' /\ SwapInv'
    BY DEF ContextInv, SwapInv, Tasks
  <2>. QED  BY <2>1, <2>2, <2>3, <2>4
<1>. QED  BY <1>1, <1>2, <1>3, <1>4, <1>5, <1>6, <1>7 DEF Next, Cpu

(* The inductive invariant holds, if memory suffices for the threads that  *)
(* are created and the shell does not call task_switch.                    *)
THEOREM Invariance == ASSUME Benign PROVE Spec => []SchedInv
<1>1. Init => SchedInv
  BY InitInv
<1>2. SchedInv /\ [Next]_vars => SchedInv'
  BY NextInv
<1>. QED  BY <1>1, <1>2, PTL DEF Spec

(* create_kernel_thread and task_switch keep the tasks in one ring that no *)
(* task drops out of, whatever number of threads is created and whenever   *)
(* the timer interrupts.                                                   *)
THEOREM TasksInOneRing == ASSUME Benign PROVE Spec => []RingSound
<1>1. SchedInv => RingSound
  BY DEF SchedInv
<1>. QED  BY <1>1, Invariance, PTL

(* switch_task and the context that create_kernel_thread prepares never    *)
(* let two tasks run on one stack, and never resume a context that is not  *)
(* there.                                                                  *)
THEOREM StacksNeverShared == ASSUME Benign PROVE Spec => []StacksApart
<1>1. ASSUME SchedInv
      PROVE  StacksApart
  <2> SUFFICES ASSUME made > 0
               PROVE  /\ stack # Wild
                      /\ at[stack] # "swap" => stack = current_task
                      /\ \A t \in Tasks \ {stack} : esp[t].stack = t /\ esp[t].how # "none"
    BY DEF StacksApart
  <2>1. stack # Wild
    BY <1>1, StackType, SchedulerAssumption DEF Addr, Wild
  <2>2. at[stack] # "swap" => stack = current_task
    BY <1>1 DEF SchedInv, SwapInv
  <2>3. \A t \in Tasks \ {stack} : esp[t].stack = t /\ esp[t].how # "none"
    BY <1>1 DEF SchedInv, ContextInv
  <2>. QED  BY <2>1, <2>2, <2>3
<1>. QED  BY <1>1, Invariance, PTL

(* The shell always gets back the interrupts, acknowledged and enabled.    *)
THEOREM ShellStaysInterruptible == ASSUME Benign PROVE Spec => []ShellInterruptible
<1>1. SchedInv => ShellInterruptible
  BY DEF SchedInv, FlagsInv, ShellInterruptible
<1>. QED  BY <1>1, Invariance, PTL

-----------------------------------------------------------------------------
(* sleep(). *)

(* The histories are numbers. *)
LEMMA SleepTypes ==
  ASSUME TypeOK, NEW t \in Addr
  PROVE  /\ tick \in Nat /\ end[t] \in Nat /\ slept[t] \in Nat
         /\ tick < TickMod /\ end[t] < TickMod
         /\ TickMod \in Nat /\ SleepTicks \in Nat
<1>1. TickMod \in Nat /\ SleepTicks \in Nat
  BY SleepTicksType, SchedulerAssumption
<1>. QED  BY <1>1 DEF TypeOK

(* The end of a sleep that begins now, if it does not wrap. *)
LEMMA EndExact ==
  ASSUME NEW n \in Nat, NEW m \in Nat, NEW d \in Nat, n < d, m < d, m <= (n + m) % d
  PROVE  (n + m) % d = n + m
<1>1. CASE n + m < d
  BY <1>1
<1>2. CASE n + m >= d
  <2>1. (n + m) % d = n + m - d
    BY <1>2
  <2>. QED  BY <2>1
<1>. QED  BY <1>1, <1>2

(* A step of the code on another stack does not disturb a sleep: the       *)
(* sleeper is then the shell, and no thread but the shell runs with        *)
(* interrupts on.                                                          *)
LEMMA SleepElsewhere ==
  ASSUME SchedInv, SleepInv, NEW t \in Addr \ {0}, t # stack, Asleep(t)',
         at'[t] = at[t], end'[t] = end[t], slept'[t] = slept[t], tick' = tick, Execute
  PROVE  SleepOf(t)'
<1>1. Asleep(t) /\ SleepOf(t)
  BY DEF SleepInv, Asleep, NULL
<1>2. t = 1 /\ ~ interrupts
  BY <1>1 DEF SleepOf, SchedInv, FlagsInv
<1>3. ran' = ran
  BY <1>2 DEF Execute, SchedInv, TypeOK
<1>. QED  BY <1>1, <1>2, <1>3 DEF SleepOf, Exact

(* No thread but the running one sleeps when the timer interrupts. *)
LEMMA SleepIrq0 ==
  ASSUME SchedInv, SleepInv, Irq0
  PROVE  SleepInv'
<1>1. SUFFICES ASSUME NEW t \in Addr \ {0}, Asleep(t)'
               PROVE  SleepOf(t)'
  BY DEF SleepInv, NULL
<1>2. stack = 1 /\ 1 \in Addr /\ Tasks \subseteq Addr
  BY StackType, SchedulerAssumption DEF SchedInv, FlagsInv, Irq0, Tasks, TypeOK, Addr
<1>3. at \in [Addr -> Steps] /\ at[1] # "swap"
  BY DEF SchedInv, TypeOK, SwapInv, Steps
<1>4. /\ \A u \in Addr \ {1} : Unhalted[u] = at[u]
      /\ Unhalted[1] = IF at[1] = "halted" THEN "test" ELSE at[1]
      /\ Unhalted \in [Addr -> Steps]
  BY <1>2, <1>3 DEF Unhalted, Steps
<1>5. \A u \in Addr \ {0, 1} : ~ Asleep(u)
  BY <1>2 DEF SleepInv, SleepOf, NULL
<1>6. at'[1] = Unhalted[1] /\ \A u \in Addr \ {1} : at'[u] = at[u] \/ at'[u] = "run"
  <2>1. CASE NothingToSwitch
    BY <1>4, <2>1 DEF Irq0
  <2>2. CASE ~ NothingToSwitch
    <3>1. /\ next[1] \in Tasks \ {1}
          /\ at' = IF esp[next[1]].how = "call"
                   THEN [Unhalted EXCEPT ![next[1]] = "run"] ELSE Unhalted
      BY <2>2, Irq0Switch
    <3>. QED  BY <1>2, <1>4, <3>1
  <2>. QED  BY <2>1, <2>2
<1>7. t = 1
  BY <1>1, <1>5, <1>6 DEF Asleep
<1>8. Asleep(1) /\ SleepOf(1)
  BY <1>1, <1>2, <1>4, <1>6, <1>7 DEF Asleep, SleepInv, NULL
<1>9. /\ end' = end /\ ran /\ ran' = FALSE /\ tick' = (tick + 1) % TickMod
      /\ slept'[1] = IF slept[1] <= SleepTicks + 1 THEN slept[1] + 1 ELSE slept[1]
  BY <1>2 DEF Irq0
<1>10. SUFFICES ASSUME Exact(1)'
                PROVE  /\ slept'[1] = tick' - end'[1] + SleepTicks
                       /\ at'[1] = "test" => tick' <= end'[1] + 1
                       /\ at'[1] = "hlt" => tick' <= end'[1]
                       /\ at'[1] # "halted"
  BY <1>7, <1>9 DEF SleepOf
<1>11. /\ tick \in Nat /\ end[1] \in Nat /\ slept[1] \in Nat /\ TickMod \in Nat
       /\ SleepTicks \in Nat
  BY <1>2, SleepTypes DEF SchedInv
<1>12. SleepTicks <= end[1] /\ end[1] < TickMod - 1
  BY <1>9, <1>10 DEF Exact
<1>13. /\ slept[1] = tick - end[1] + SleepTicks
       /\ at[1] = "test" => slept[1] = 0
       /\ at[1] = "hlt" => tick < end[1]
       /\ at[1] = "halted" => tick <= end[1]
  BY <1>8, <1>9, <1>12 DEF SleepOf, Exact
<1>14. tick <= end[1]
  BY <1>8, <1>11, <1>13 DEF Asleep
<1>15. tick' = tick + 1
  BY <1>9, <1>11, <1>12, <1>14
<1>16. slept'[1] = slept[1] + 1
  BY <1>9, <1>11, <1>13, <1>14
<1>17. slept'[1] = tick' - end'[1] + SleepTicks
  BY <1>9, <1>11, <1>13, <1>15, <1>16
<1>18. at'[1] = "test" => tick' <= end'[1] + 1
  BY <1>9, <1>11, <1>14, <1>15
<1>19. at'[1] = "hlt" => tick' <= end'[1]
  BY <1>4, <1>6, <1>9, <1>11, <1>13, <1>15
<1>20. at'[1] # "halted"
  BY <1>4, <1>6
<1>. QED  BY <1>17, <1>18, <1>19, <1>20

(* The steps of sleep(). *)
LEMMA SleepSteps ==
  ASSUME SchedInv, SleepInv, BeginSleep \/ TestTick \/ Halt
  PROVE  SleepInv'
<1> USE DEF time, queue, cpu
<1>1. SUFFICES ASSUME NEW t \in Addr \ {0}, Asleep(t)'
               PROVE  SleepOf(t)'
  BY DEF SleepInv, NULL
<1>2. stack \in Addr \ {0} /\ at \in [Addr -> Steps]
  BY StackType DEF SchedInv, TypeOK, Steps
<1>3. end \in [Addr -> 0 .. (TickMod - 1)] /\ slept \in [Addr -> 0 .. (SleepTicks + 2)]
  BY DEF SchedInv, TypeOK
<1>4. /\ tick \in Nat /\ end[stack] \in Nat /\ slept[stack] \in Nat
      /\ tick < TickMod /\ TickMod \in Nat /\ SleepTicks \in Nat
  BY <1>2, SleepTypes DEF SchedInv
<1>5. Execute /\ UNCHANGED <<tick, made, stack>>
  BY DEF BeginSleep, TestTick, Halt, Goto
<1>6. CASE t # stack
  <2>1. at'[t] = at[t] /\ end'[t] = end[t] /\ slept'[t] = slept[t]
    BY <1>2, <1>3, <1>6 DEF BeginSleep, TestTick, Halt, Goto
  <2>. QED  BY <1>1, <1>5, <1>6, <2>1, SleepElsewhere
<1>7. ASSUME t = stack
      PROVE  t # 1 => t = stack' /\ made' > 0
  <2>1. made = 0 => stack = 1
    BY DEF SchedInv, BootInv
  <2>. QED  BY <1>5, <1>7, <2>1, StackType
<1>8. CASE t = stack /\ BeginSleep
  <2>1. /\ end'[t] = (tick + SleepTicks) % TickMod /\ slept'[t] = 0 /\ at'[t] = "test"
    BY <1>2, <1>3, <1>8 DEF BeginSleep, Goto
  <2>2. Exact(t)' => end'[t] = tick + SleepTicks
    <3>1. SleepTicks < TickMod
      BY SchedulerAssumption
    <3>2. Exact(t)' => SleepTicks <= end'[t]
      BY DEF Exact
    <3>. QED  BY <1>4, <2>1, <3>1, <3>2, EndExact
  <2>. QED  BY <1>4, <1>5, <1>7, <1>8, <2>1, <2>2 DEF SleepOf
<1>9. CASE t = stack /\ TestTick
  <2>1. at[t] = "test" /\ end' = end /\ slept' = slept
    BY <1>9 DEF TestTick
  <2>2. at'[t] = "hlt" /\ tick < end[t]
    BY <1>1, <1>2, <1>9 DEF TestTick, Goto, Asleep
  <2>3. SleepOf(t)
    BY <1>1, <2>1 DEF SleepInv, Asleep, NULL
  <2>. QED  BY <1>4, <1>5, <1>7, <1>9, <2>1, <2>2, <2>3 DEF SleepOf, Exact
<1>10. CASE t = stack /\ Halt
  <2>1. at[t] = "hlt" /\ end' = end /\ slept' = slept /\ at'[t] = "halted"
    BY <1>2, <1>10 DEF Halt, Goto
  <2>2. SleepOf(t)
    BY <1>1, <2>1 DEF SleepInv, Asleep, NULL
  <2>. QED  BY <1>4, <1>5, <1>7, <1>10, <2>1, <2>2 DEF SleepOf, Exact
<1>. QED  BY <1>6, <1>8, <1>9, <1>10

(* The other steps: the code that takes them does not sleep. *)
LEMMA SleepOthers ==
  ASSUME SchedInv, SleepInv,
         TaskingInit \/ CreateKernelThread \/ Yield \/ SwitchTask \/ Compute
  PROVE  SleepInv'
<1> USE DEF time, queue, cpu
<1>1. SUFFICES ASSUME NEW t \in Addr \ {0}, Asleep(t)'
               PROVE  SleepOf(t)'
  BY DEF SleepInv, NULL
<1>2. stack \in Addr \ {0} /\ at \in [Addr -> Steps]
  BY StackType DEF SchedInv, TypeOK, Steps
<1>3. Execute /\ UNCHANGED <<tick, end, slept>>
  BY DEF TaskingInit, CreateKernelThread, Yield, SwitchTask, Compute, Goto
<1>4. CASE SwitchTask
  <2>1. /\ stack \in Tasks \ {1}
        /\ at' = IF esp[next[stack]].how = "call"
                 THEN [at EXCEPT ![next[stack]] = "run"] ELSE at
    BY <1>4, SwitchTaskStep
  <2>2. at'[t] = at[t]
    BY <1>1, <1>2, <2>1 DEF Asleep
  <2>3. t # stack
    BY <1>1, <1>4, <2>2 DEF Asleep, SwitchTask
  <2>. QED  BY <1>1, <1>3, <2>2, <2>3, SleepElsewhere
<1>5. CASE TaskingInit \/ CreateKernelThread \/ Yield \/ Compute
  <2>1. \E x \in {"boot", "run", "swap"} : at' = [at EXCEPT ![stack] = x]
    BY <1>5 DEF TaskingInit, CreateKernelThread, Yield, Compute, Goto
  <2>2. t # stack /\ at'[t] = at[t]
    BY <1>1, <1>2, <2>1 DEF Asleep
  <2>. QED  BY <1>1, <1>3, <2>2, SleepElsewhere
<1>. QED  BY <1>4, <1>5

(* A sleep() that does not wrap has counted its ticks. *)
LEMMA SleepNext ==
  ASSUME SchedInv, SleepInv, [Next]_vars
  PROVE  SleepInv'
<1>1. CASE Irq0
  BY <1>1, SleepIrq0
<1>2. CASE BeginSleep \/ TestTick \/ Halt
  BY <1>2, SleepSteps
<1>3. CASE TaskingInit \/ CreateKernelThread \/ Yield \/ SwitchTask \/ Compute
  BY <1>3, SleepOthers
<1>4. CASE UNCHANGED vars
  BY <1>4 DEF vars, queue, cpu, time, SleepInv, Asleep, SleepOf, Exact
<1>. QED  BY <1>1, <1>2, <1>3, <1>4 DEF Next, Cpu

(* Only the test of sleep()'s loop ends a sleep, when it has lasted        *)
(* SleepTicks ticks or one more.                                           *)
LEMMA EndingSleep ==
  ASSUME SchedInv, SleepInv, [Next]_vars, SleepEnding, Exact(stack)
  PROVE  slept[stack] \in {SleepTicks, SleepTicks + 1}
<1>1. stack \in Addr \ {0} /\ at \in [Addr -> Steps]
  BY StackType DEF SchedInv, TypeOK, Steps
<1>2. at[stack] = "test" /\ at'[stack] = "run"
  BY DEF SleepEnding
<1>3. ~ UNCHANGED vars
  BY <1>2 DEF vars
<1>4. ~ Irq0
  <2>1. SUFFICES ASSUME Irq0 PROVE FALSE
    OBVIOUS
  <2>2. stack = 1
    BY <2>1 DEF SchedInv, FlagsInv, Irq0
  <2>3. Unhalted[1] = "test" /\ Unhalted \in [Addr -> Steps]
    BY <1>1, <1>2, <2>2 DEF Unhalted, Steps
  <2>4. CASE NothingToSwitch
    BY <1>2, <2>1, <2>2, <2>3, <2>4 DEF Irq0
  <2>5. CASE ~ NothingToSwitch
    <3>1. /\ next[1] # 1
          /\ at' = IF esp[next[1]].how = "call"
                   THEN [Unhalted EXCEPT ![next[1]] = "run"] ELSE Unhalted
      BY <2>1, <2>5, Irq0Switch
    <3>. QED  BY <1>1, <1>2, <2>2, <2>3, <3>1
  <2>. QED  BY <2>4, <2>5
<1>5. TestTick
  BY <1>1, <1>2, <1>3, <1>4
     DEF Next, Cpu, TaskingInit, CreateKernelThread, Yield, SwitchTask, BeginSleep, Halt, Compute
<1>6. ~ (tick < end[stack])
  BY <1>1, <1>2, <1>5 DEF TestTick, Goto
<1>7. slept[stack] = tick - end[stack] + SleepTicks /\ tick <= end[stack] + 1
  BY <1>1, <1>2 DEF SleepInv, Asleep, SleepOf, NULL
<1>8. tick \in Nat /\ end[stack] \in Nat /\ SleepTicks \in Nat
  BY <1>1, SleepTypes DEF SchedInv
<1>. QED  BY <1>6, <1>7, <1>8

(* Division: m lies between the multiples of d around it, at distance      *)
(* m % d from the lower one.                                               *)
LEMMA DivBounds ==
  ASSUME NEW m \in Int, NEW d \in Int, m >= 0, d > 0
  PROVE  /\ m = d * (m \div d) + (m % d)
         /\ d * (m \div d) <= m /\ m < d * (m \div d) + d
<1>1. m = d * (m \div d) + (m % d)
  BY Z3
<1>2. d * (m \div d) <= m /\ m < d * (m \div d) + d
  OBVIOUS
<1>. QED  BY <1>1, <1>2

(* Products of naturals are monotonic. *)
LEMMA TimesMonotonic ==
  ASSUME NEW a \in Nat, NEW b \in Nat, NEW e \in Nat, e > 0
  PROVE  (a <= b => a * e <= b * e) /\ (a < b => a * e < b * e)
OBVIOUS

(* SleepTicks ticks are MS milliseconds, rounded down, if a tick is a      *)
(* whole number of milliseconds.                                           *)
LEMMA TicksAreMilliseconds ==
  ASSUME 1000 % current_freq = 0
  PROVE  SleepTicks * 1000 <= MS * current_freq /\ MS * current_freq < (SleepTicks + 1) * 1000
<1> DEFINE q == 1000 \div current_freq
           f == current_freq
           k == SleepTicks
<1>1. q \in Nat \ {0} /\ k \in Nat /\ f \in Nat \ {0} /\ MS \in Nat
  BY SleepTicksType, SchedulerAssumption
<1>2. q * f = 1000
  <2>1. 1000 = f * q + (1000 % f)
    BY <1>1, DivBounds
  <2>2. 1000 % f = 0
    OBVIOUS
  <2> HIDE DEF q, f
  <2>3. 1000 = f * q
    BY <1>1, <2>1, <2>2
  <2>. QED  BY <1>1, <2>3
<1>3. q * k <= MS /\ MS < q * k + q
  <2>1. MS \in Int /\ MS >= 0 /\ q \in Int /\ q > 0
    BY <1>1
  <2> HIDE DEF q
  <2>2. q * (MS \div q) <= MS /\ MS < q * (MS \div q) + q
    BY <2>1, DivBounds
  <2>. QED  BY <2>2 DEF SleepTicks, q
<1> HIDE DEF q, f, k
<1>4. k * q <= MS /\ MS < (k + 1) * q
  BY <1>1, <1>3
<1>5. (k * q) * f <= MS * f /\ MS * f < ((k + 1) * q) * f
  <2>1. k * q \in Nat /\ (k + 1) * q \in Nat /\ f > 0
    BY <1>1
  <2>. QED  BY <1>1, <1>4, <2>1, TimesMonotonic
<1>6. (k * q) * f = k * (q * f) /\ ((k + 1) * q) * f = (k + 1) * (q * f)
  BY <1>1
<1>7. k * 1000 <= MS * f /\ MS * f < (k + 1) * 1000
  BY <1>2, <1>5, <1>6
<1>. QED  BY <1>7 DEF k, f

(* sleep(ms) lasts ms milliseconds to within a tick on either side, for    *)
(* every ms, every number of threads, and every frequency of the timer     *)
(* whose period is a whole number of milliseconds, as that of kernel_main  *)
(* is (100 Hz).                                                            *)
THEOREM SleepsArePunctual ==
  ASSUME Benign, 1000 % current_freq = 0
  PROVE  Spec => SleepPunctual
<1> DEFINE Punctual ==
      SleepEnding /\ SleepTicks <= end[stack] /\ end[stack] < TickMod - 1 =>
        /\ (slept[stack] + 1) * 1000 > MS * current_freq
        /\ (slept[stack] - 1) * 1000 <= MS * current_freq
<1>1. Init => SleepInv
  BY DEF Init, SleepInv, Asleep, NULL
<1>2. SchedInv /\ SleepInv /\ [Next]_vars => SleepInv'
  BY SleepNext
<1>3. SchedInv /\ SleepInv /\ [Next]_vars => [Punctual]_vars
  <2>1. SUFFICES ASSUME SchedInv, SleepInv, [Next]_vars, SleepEnding, Exact(stack)
                 PROVE  /\ (slept[stack] + 1) * 1000 > MS * current_freq
                        /\ (slept[stack] - 1) * 1000 <= MS * current_freq
    BY DEF Exact
  <2>2. slept[stack] \in {SleepTicks, SleepTicks + 1}
    BY <2>1, EndingSleep
  <2>3. MS * current_freq \in Nat /\ SleepTicks \in Nat
    BY SchedulerAssumption, SleepTicksType
  <2> DEFINE T == MS * current_freq
             s == slept[stack]
  <2>4. SleepTicks * 1000 <= T /\ T < (SleepTicks + 1) * 1000
    BY TicksAreMilliseconds
  <2>5. s \in {SleepTicks, SleepTicks + 1} /\ T \in Nat
    BY <2>2, <2>3
  <2> HIDE DEF T, s
  <2>6. (s + 1) * 1000 > T /\ (s - 1) * 1000 <= T
    BY <2>3, <2>4, <2>5
  <2>. QED  BY <2>6 DEF T, s
<1>4. Spec => []SchedInv
  BY Invariance
<1>. QED  BY <1>1, <1>2, <1>3, <1>4, PTL DEF Spec, SleepPunctual
=============================================================================
