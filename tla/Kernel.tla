------------------------------- MODULE Kernel -------------------------------
(***************************************************************************)
(* The task kernel of Weird RTOS: the priority scheduler                   *)
(* (rtos/kernel/scheduler.c), sleeping and the system tick (sleep.c), the  *)
(* yield (kernel.c), the life of a task (tasks.c) and the context switch   *)
(* of the Cortex-M3 port (port/kernel/cortex-m3/cortex_m3.c).              *)
(*                                                                         *)
(* There is one CPU.  A task executes the steps of the kernel call it is   *)
(* in; pc[t] is its stack of program points, the innermost first.  Between *)
(* any two steps the system tick may interrupt it while interrupts are     *)
(* enabled, and a pending PendSV exception switches tasks.  A step is as   *)
(* long as the code runs with interrupts disabled, or as long as it touches*)
(* only what no interrupt handler uses.                                    *)
(***************************************************************************)
EXTENDS Integers, Sequences, Sll

CONSTANTS
  Tasks,        \* task control blocks, the idle task among them
  Idle,         \* idle_task (idle.c)
  NULL,         \* no task
  Priority,     \* TASK.priority, given by scheduler_task_add; smaller is higher
  TickRange,    \* 2^32 in the code: current_tick and tick_sleep wrap here
  Delays,       \* the arguments each task calls sleep_ticks with
  MaxLate,      \* bound: the scheduler is not locked longer past a deadline
  MaxLock,      \* SCHEDULER_MAX_LOCK
  MaxUserLock,  \* bound: how deep an application nests scheduler_lock
  MayFinish,    \* tasks whose entry function may return
  MayAdd        \* tasks that another task adds while the system runs

ASSUME TaskAssumption ==
  /\ Idle \in Tasks
  /\ NULL \notin Tasks
  /\ Priority \in [Tasks -> Nat]
  /\ \A t \in Tasks \ {Idle} : Priority[t] < Priority[Idle]
  /\ MayFinish \subseteq Tasks \ {Idle}
  /\ MayAdd \subseteq Tasks \ {Idle}

(* A deadline is never half the tick range away from another one or from   *)
(* the current tick, so the signed difference orders them.                 *)
ASSUME TickAssumption ==
  /\ TickRange \in Nat \ {0}
  /\ MaxLate \in Nat
  /\ Delays \in [Tasks -> SUBSET Nat]
  /\ Delays[Idle] = {}
  /\ \A t \in Tasks : \A d \in Delays[t] : 2 * (d + MaxLate + 1) < TickRange

(* Every kernel call adds at most two levels to the application's own.     *)
ASSUME LockAssumption ==
  /\ MaxUserLock \in Nat
  /\ MaxLock \in Nat
  /\ MaxUserLock + 2 <= MaxLock

VARIABLES
  state,                \* TASK.state
  resume_from,          \* TASK.resume_from
  lock_count,           \* TASK.lock_count
  drift,                \* TASK_SCHED_DRIFT in TASK.flags
  tick_sleep,           \* TASK.tick_sleep
  sch_ready_task_list,  \* ready tasks, the next to run first
  sleep_task_list,      \* tasks in a timed wait, the next deadline first
  current_task,
  current_tick,
  interrupts,           \* sys_interrupt_level and PRIMASK: interrupts enabled
  pend_sv,              \* PendSV is pending
  mode,                 \* what the CPU executes
  pc,                   \* the program points of a task
  level,                \* interrupt_level saved around CONTROL_TO_SYSTEM
  ticks,                \* argument of the current timed wait
  left                  \* history: ticks still to pass until the wait is due

lists      == <<sch_ready_task_list, sleep_task_list>>
timeVars   == <<current_tick, tick_sleep, left, ticks>>
cpuVars    == <<current_task, interrupts, pend_sv, mode>>
kernelVars == <<state, resume_from, lock_count, drift, pc, level, lists,
                timeVars, cpuVars>>

States == {"TO_BE_SUSPENDED", "SUSPENDED", "RUNNING", "RESUME", "SLEEP_RESUME",
           "FINISHED"}
Modes  == {"boot", "task", "pendsv", "assert"}
Labels == {"user", "unlock", "drift", "pend", "back",
           "sl_add", "sl_insert", "sl_suspend"}

----------------------------------------------------------------------------
(* Time.  INT32CMP is the signed difference of two wrapping counters.      *)

(* Mutant: the counters are compared as plain numbers.                     *)
PlainCmp(a, b) == a - b

INT32CMP(a, b) ==
  LET d == (a - b) % TickRange
  IN  IF 2 * d < TickRange THEN d ELSE d - TickRange

Expired(t) == INT32CMP(current_tick, tick_sleep[t]) >= 0

----------------------------------------------------------------------------
(* Control: what may execute, and where a task goes next.                  *)

(* Task t executes: no handler does, and none is about to.                 *)
Executes(t) ==
  /\ mode = "task"
  /\ current_task = t
  /\ ~ (pend_sv /\ interrupts)

At(t, label) == Executes(t) /\ Head(pc[t]) = label

(* Replace the innermost program point of t by the given ones.             *)
Go(t, labels) == pc' = [pc EXCEPT ![t] = labels \o Tail(@)]

(* Application code of t calls the kernel.                                 *)
InUser(t) == At(t, "user")

(* Mutant: the level is read after interrupts were disabled.               *)
SaveDisabled(t, lvl) ==
  /\ interrupts' = TRUE
  /\ level' = [level EXCEPT ![t] = FALSE]

(* CONTROL_TO_SYSTEM is entered with interrupts disabled; the caller       *)
(* restores lvl when it comes back.  control_to_system enables interrupts  *)
(* before it sets PendSV: the task is at "pend" in between.                *)
ControlToSystem(t, lvl) ==
  /\ interrupts' = TRUE
  /\ level' = [level EXCEPT ![t] = lvl]

(* ASSERT: system_assert disables interrupts and spins for ever.           *)
Halt == mode' = "assert" /\ interrupts' = FALSE

----------------------------------------------------------------------------
(* The ready and the sleep list.                                           *)

(* Mutant: a task joins the ready list at its end, whatever its priority.  *)
SortAppend(list, task) == {}

(* Mutant: a task is scheduled before the others of its priority.          *)
SortBeforeEquals(list, task) ==
  {n \in ToSet(list) : Priority[n] >= Priority[task]}

(* The members of the ready list that a task is scheduled before.          *)
scheduler_task_sort(list, task) ==
  {n \in ToSet(list) : Priority[n] > Priority[task]}

(* The members of the sleep list that a task precedes.                     *)
sleep_task_sort(list, task) ==
  {n \in ToSet(list) :
     \/ INT32CMP(tick_sleep[n], tick_sleep[task]) > 0
     \/ tick_sleep[n] = tick_sleep[task] /\ Priority[n] > Priority[task]}

Enqueued(list, t) == sll_insert(list, t, scheduler_task_sort(list, t))

(* scheduler_task_yield(t, YIELD_SYSTEM).                                  *)
YieldSystem(t) ==
  /\ state' = [state EXCEPT ![t] = "RESUME"]
  /\ resume_from' = [resume_from EXCEPT ![t] = "SYSTEM"]
  /\ sch_ready_task_list' = Enqueued(sch_ready_task_list, t)

(* sleep_walk stops at position i: every task up to there has expired and  *)
(* this is the first that is suspended.                                    *)
sleep_walk(i) ==
  /\ \A j \in 1 .. i : Expired(sleep_task_list[j])
  /\ state[sleep_task_list[i]] = "SUSPENDED"
  /\ \A j \in 1 .. i - 1 : state[sleep_task_list[j]] # "SUSPENDED"

SomeToResume == \E i \in 1 .. Len(sleep_task_list) : sleep_walk(i)

(* Mutant: the deadline is one tick short.                                 *)
AddEarly(t, n) ==
  /\ tick_sleep' = [tick_sleep EXCEPT ![t] = (current_tick + n - 1) % TickRange]
  /\ left' = [left EXCEPT ![t] = n]

(* Mutant: the deadline does not wrap.                                     *)
AddNoWrap(t, n) ==
  /\ tick_sleep' = [tick_sleep EXCEPT ![t] = current_tick + n]
  /\ left' = [left EXCEPT ![t] = n]

(* sleep_add_to_list runs with interrupts enabled: the system tick may come*)
(* between the computation of the deadline and the insertion.              *)
sleep_add_to_list(t, n) ==
  /\ tick_sleep' = [tick_sleep EXCEPT ![t] = (current_tick + n) % TickRange]
  /\ left' = [left EXCEPT ![t] = n]

SleepInserted(t) ==
  sll_insert(sleep_task_list, t, sleep_task_sort(sleep_task_list, t))

(* The deadline of t is set: it is on the sleep list or about to join it.  *)
Timed(t) ==
  t \in ToSet(sleep_task_list) \/ Head(pc[t]) \in {"sl_insert", "sc_insert"}

----------------------------------------------------------------------------
(* Start: main() has created its tasks and called scheduler_init, which    *)
(* adds the idle task; it may add others before kernel_run.                *)

Init ==
  /\ state = [t \in Tasks |-> IF t = Idle THEN "RESUME" ELSE "FINISHED"]
  /\ resume_from = [t \in Tasks |-> "SYSTEM"]
  /\ lock_count = [t \in Tasks |-> 0]
  /\ drift = [t \in Tasks |-> FALSE]
  /\ tick_sleep = [t \in Tasks |-> 0]
  /\ sch_ready_task_list = <<Idle>>
  /\ sleep_task_list = <<>>
  /\ current_task = NULL
  /\ current_tick = 0
  /\ interrupts = FALSE
  /\ pend_sv = FALSE
  /\ mode = "boot"
  /\ pc = [t \in Tasks |-> <<"user">>]
  /\ level = [t \in Tasks |-> TRUE]
  /\ ticks = [t \in Tasks |-> 0]
  /\ left = [t \in Tasks |-> 0]

BootAdd(t) ==
  /\ mode = "boot"
  /\ state[t] = "FINISHED"
  /\ YieldSystem(t)
  /\ UNCHANGED <<lock_count, drift, pc, level, sleep_task_list, timeVars, cpuVars>>

(* scheduler_get_next_task, once no sleeping task is left to resume, and   *)
(* the switch to the task it returns.                                      *)
SwitchToNext ==
  IF sch_ready_task_list = <<>>
  THEN Halt /\ UNCHANGED <<current_task, state, sch_ready_task_list>>
  ELSE LET t == Head(sch_ready_task_list)
       IN  /\ current_task' = t
           /\ state' = [state EXCEPT ![t] = "RUNNING"]
           /\ sch_ready_task_list' = Tail(sch_ready_task_list)
           /\ interrupts' = TRUE
           /\ mode' = "task"

run_first_task ==
  /\ mode = "boot"
  /\ ~ SomeToResume
  /\ SwitchToNext
  /\ UNCHANGED <<resume_from, lock_count, drift, pc, level, sleep_task_list,
                 timeVars, pend_sv>>

----------------------------------------------------------------------------
(* Interrupt handlers.                                                     *)

(* isr_sysclock_handle: the tick advances; if the first sleeping task is   *)
(* due the running task is preempted, or told to yield when it unlocks.    *)
Triggers(tick) ==
  /\ sleep_task_list # <<>>
  /\ INT32CMP(tick, tick_sleep[Head(sleep_task_list)]) >= 0

(* Mutant: a tick that finds the scheduler locked is forgotten.            *)
ForgetDrift == UNCHANGED <<pend_sv, drift, mode, interrupts>>

Preempt ==
  IF lock_count[current_task] = 0
  THEN /\ UNCHANGED drift
       /\ IF state[current_task] = "RUNNING"
          THEN pend_sv' = TRUE /\ UNCHANGED <<mode, interrupts>>
          ELSE Halt /\ UNCHANGED pend_sv
  ELSE /\ drift' = [drift EXCEPT ![current_task] = TRUE]
       /\ UNCHANGED <<pend_sv, mode, interrupts>>

isr_sysclock_handle ==
  /\ mode = "task" /\ interrupts
  /\ \A t \in Tasks : Timed(t) => left[t] > - MaxLate
  /\ current_tick' = (current_tick + 1) % TickRange
  /\ left' = [t \in Tasks |-> IF Timed(t) THEN left[t] - 1 ELSE left[t]]
  /\ IF Triggers(current_tick') THEN Preempt
     ELSE UNCHANGED <<pend_sv, drift, mode, interrupts>>
  /\ UNCHANGED <<state, resume_from, lock_count, pc, level, lists, tick_sleep,
                 ticks, current_task>>

(* isr_pendsv_handle saves the running task: a running one stays ready, a  *)
(* suspending one is suspended, a finished one is left alone.              *)
SaveCurrent ==
  /\ mode = "task" /\ interrupts /\ pend_sv
  /\ pend_sv' = FALSE
  /\ mode' = "pendsv"
  /\ \/ state[current_task] = "RUNNING" /\ YieldSystem(current_task)
     \/ /\ state[current_task] = "TO_BE_SUSPENDED"
        /\ state' = [state EXCEPT ![current_task] = "SUSPENDED"]
        /\ UNCHANGED <<resume_from, sch_ready_task_list>>
     \/ /\ state[current_task] \notin {"RUNNING", "TO_BE_SUSPENDED"}
        /\ UNCHANGED <<state, resume_from, sch_ready_task_list>>
  /\ UNCHANGED <<lock_count, drift, pc, level, sleep_task_list, timeVars,
                 current_task, interrupts>>

(* Mutant: a task that wakes up stays on the sleep list.                   *)
ResumeStaysAsleep ==
  /\ mode = "pendsv"
  /\ \E i \in 1 .. Len(sleep_task_list) :
       LET t == sleep_task_list[i]
       IN  /\ sleep_walk(i)
           /\ state' = [state EXCEPT ![t] = "SLEEP_RESUME"]
           /\ resume_from' = [resume_from EXCEPT ![t] = "SLEEP"]
           /\ sch_ready_task_list' = Enqueued(sch_ready_task_list, t)
  /\ UNCHANGED <<lock_count, drift, pc, level, sleep_task_list, timeVars, cpuVars>>

(* One turn of sleep_process_system_tick.                                  *)
sleep_process_system_tick ==
  /\ mode = "pendsv"
  /\ \E i \in 1 .. Len(sleep_task_list) :
       LET t == sleep_task_list[i]
       IN  /\ sleep_walk(i)
           /\ sleep_task_list' = RemoveAt(sleep_task_list, i)
           /\ tick_sleep' = [tick_sleep EXCEPT ![t] = 0]
           /\ state' = [state EXCEPT ![t] = "SLEEP_RESUME"]
           /\ resume_from' = [resume_from EXCEPT ![t] = "SLEEP"]
           /\ sch_ready_task_list' = Enqueued(sch_ready_task_list, t)
           /\ left' = [left EXCEPT ![t] = IF @ > 0 THEN @ ELSE 0]
  /\ UNCHANGED <<lock_count, drift, pc, level, ticks, current_tick, cpuVars>>

LoadNext ==
  /\ mode = "pendsv"
  /\ ~ SomeToResume
  /\ SwitchToNext
  /\ UNCHANGED <<resume_from, lock_count, drift, pc, level, sleep_task_list,
                 timeVars, pend_sv>>

----------------------------------------------------------------------------
(* Kernel calls of the running task.                                       *)

(* PEND_SV(); with interrupts enabled the switch follows at once.          *)
PEND_SV(t) ==
  /\ At(t, "pend")
  /\ pend_sv' = TRUE
  /\ Go(t, <<"back">>)
  /\ UNCHANGED <<state, resume_from, lock_count, drift, level, lists, timeVars,
                 current_task, interrupts, mode>>

(* Back from the switch: the interrupt level of the caller is restored.    *)
RestoreLevel(t) ==
  /\ At(t, "back")
  /\ interrupts' = level[t]
  /\ Go(t, <<>>)
  /\ UNCHANGED <<state, resume_from, lock_count, drift, level, lists, timeVars,
                 current_task, pend_sv, mode>>

scheduler_lock(t) ==
  /\ InUser(t)
  /\ lock_count[t] < MaxUserLock
  /\ IF lock_count[t] >= MaxLock
     THEN Halt /\ UNCHANGED lock_count
     ELSE /\ lock_count' = [lock_count EXCEPT ![t] = @ + 1]
          /\ UNCHANGED <<mode, interrupts>>
  /\ UNCHANGED <<state, resume_from, drift, pc, level, lists, timeVars,
                 current_task, pend_sv>>

(* The application calls scheduler_unlock for a lock it holds.             *)
UserUnlock(t) ==
  /\ InUser(t)
  /\ lock_count[t] > 0
  /\ Go(t, <<"unlock", "user">>)
  /\ UNCHANGED <<state, resume_from, lock_count, drift, level, lists, timeVars,
                 cpuVars>>

scheduler_unlock(t) ==
  /\ At(t, "unlock")
  /\ IF lock_count[t] = 0
     THEN Halt /\ UNCHANGED <<lock_count, pc>>
     ELSE /\ lock_count' = [lock_count EXCEPT ![t] = @ - 1]
          /\ Go(t, <<"drift">>)
          /\ UNCHANGED <<mode, interrupts>>
  /\ UNCHANGED <<state, resume_from, drift, level, lists, timeVars,
                 current_task, pend_sv>>

(* Mutant: a missed switch is never made good.                             *)
UnlockNoYield(t) ==
  /\ At(t, "drift")
  /\ Go(t, <<>>)
  /\ UNCHANGED <<state, resume_from, lock_count, drift, level, lists, timeVars,
                 cpuVars>>

(* The end of scheduler_unlock: task_yield if a switch was missed.         *)
UnlockYield(t) ==
  /\ At(t, "drift")
  /\ IF lock_count[t] = 0 /\ drift[t]
     THEN /\ drift' = [drift EXCEPT ![t] = FALSE]
          /\ Go(t, <<"pend">>)
          /\ ControlToSystem(t, interrupts)
     ELSE /\ Go(t, <<>>)
          /\ UNCHANGED <<drift, interrupts, level>>
  /\ UNCHANGED <<state, resume_from, lock_count, lists, timeVars, current_task,
                 pend_sv, mode>>

task_yield(t) ==
  /\ InUser(t)
  /\ IF lock_count[t] = 0
     THEN /\ Go(t, <<"pend", "user">>)
          /\ ControlToSystem(t, interrupts)
          /\ UNCHANGED drift
     ELSE /\ drift' = [drift EXCEPT ![t] = TRUE]
          /\ UNCHANGED <<pc, interrupts, level>>
  /\ UNCHANGED <<state, resume_from, lock_count, lists, timeVars, current_task,
                 pend_sv, mode>>

(* Mutant: sleep_ticks does not lock the scheduler.                        *)
SleepUnlocked(t, n) ==
  /\ InUser(t)
  /\ ticks' = [ticks EXCEPT ![t] = n]
  /\ Go(t, <<"sl_add", "user">>)
  /\ UNCHANGED <<state, resume_from, lock_count, drift, level, lists,
                 current_tick, tick_sleep, left, cpuVars>>

(* sleep_ticks(n): lock, join the sleep list, suspend, and unlock again.   *)
sleep_ticks(t, n) ==
  /\ InUser(t)
  /\ IF lock_count[t] >= MaxLock
     THEN Halt /\ UNCHANGED <<lock_count, pc, ticks>>
     ELSE /\ lock_count' = [lock_count EXCEPT ![t] = @ + 1]
          /\ ticks' = [ticks EXCEPT ![t] = n]
          /\ Go(t, <<"sl_add", "user">>)
          /\ UNCHANGED <<mode, interrupts>>
  /\ UNCHANGED <<state, resume_from, drift, level, lists, current_tick,
                 tick_sleep, left, current_task, pend_sv>>

SleepAdd(t) ==
  /\ At(t, "sl_add")
  /\ sleep_add_to_list(t, ticks[t])
  /\ Go(t, <<"sl_insert">>)
  /\ UNCHANGED <<state, resume_from, lock_count, drift, level, lists,
                 current_tick, ticks, cpuVars>>

SleepInsert(t) ==
  /\ At(t, "sl_insert")
  /\ sleep_task_list' = SleepInserted(t)
  /\ Go(t, <<"sl_suspend">>)
  /\ UNCHANGED <<state, resume_from, lock_count, drift, level,
                 sch_ready_task_list, timeVars, cpuVars>>

SleepSuspend(t) ==
  /\ At(t, "sl_suspend")
  /\ state' = [state EXCEPT ![t] = "TO_BE_SUSPENDED"]
  /\ ControlToSystem(t, interrupts)
  /\ ticks' = [ticks EXCEPT ![t] = 0]
  /\ Go(t, <<"pend", "unlock">>)
  /\ UNCHANGED <<resume_from, lock_count, drift, lists, current_tick, tick_sleep,
                 left, current_task, pend_sv, mode>>

(* task_entry_return: the entry function returned.  When the task is added *)
(* again it goes on behind CONTROL_TO_SYSTEM, and the entry function is    *)
(* called again at the interrupt level control_to_system saved: disabled.  *)
task_entry_return(t) ==
  /\ InUser(t) /\ t \in MayFinish
  /\ lock_count[t] = 0
  /\ state' = [state EXCEPT ![t] = "FINISHED"]
  /\ ControlToSystem(t, FALSE)
  /\ Go(t, <<"pend", "user">>)
  /\ UNCHANGED <<resume_from, lock_count, drift, lists, timeVars, current_task,
                 pend_sv, mode>>

(* A running task adds a task that is finished, or was never added, and    *)
(* has left the CPU.                                                       *)
scheduler_task_add(t, new) ==
  /\ InUser(t) /\ new \in MayAdd
  /\ state[new] = "FINISHED"
  /\ YieldSystem(new)
  /\ UNCHANGED <<lock_count, drift, pc, level, sleep_task_list, timeVars, cpuVars>>

(* while (1) of system_assert.                                             *)
system_assert == mode = "assert" /\ UNCHANGED kernelVars

----------------------------------------------------------------------------
KernelCall(t) ==
  \/ PEND_SV(t) \/ RestoreLevel(t) \/ scheduler_unlock(t) \/ UnlockYield(t)
  \/ SleepAdd(t) \/ SleepInsert(t) \/ SleepSuspend(t)

UserCall(t) ==
  \/ scheduler_lock(t) \/ UserUnlock(t) \/ task_yield(t)
  \/ \E n \in Delays[t] : sleep_ticks(t, n)
  \/ task_entry_return(t)
  \/ \E new \in Tasks : scheduler_task_add(t, new)

Boot   == (\E t \in Tasks : BootAdd(t)) \/ run_first_task
PendSV == SaveCurrent \/ sleep_process_system_tick \/ LoadNext

Next ==
  \/ Boot \/ PendSV \/ isr_sysclock_handle \/ system_assert
  \/ \E t \in Tasks : KernelCall(t) \/ UserCall(t)

Spec == Init /\ [][Next]_kernelVars

(* The CPU goes on executing kernel code and exceptions; the timer keeps   *)
(* ticking, and its interrupt stays pending until it is taken, so that it  *)
(* cannot be passed over for ever by short sections with interrupts        *)
(* disabled; an application releases the locks it takes.                   *)
Fairness ==
  /\ WF_kernelVars(Boot) /\ WF_kernelVars(PendSV)
  /\ SF_kernelVars(isr_sysclock_handle)
  /\ \A t \in Tasks : WF_kernelVars(KernelCall(t)) /\ WF_kernelVars(UserUnlock(t))

FairSpec == Spec /\ Fairness

----------------------------------------------------------------------------
(* Properties.                                                             *)

StateTypeOK ==
  /\ state \in [Tasks -> States]
  /\ resume_from \in [Tasks -> {"SYSTEM", "SLEEP"}]
  /\ lock_count \in [Tasks -> 0 .. MaxLock]
  /\ drift \in [Tasks -> BOOLEAN]
  /\ tick_sleep \in [Tasks -> 0 .. TickRange - 1]
  /\ sch_ready_task_list \in Seq(Tasks)
  /\ sleep_task_list \in Seq(Tasks)
  /\ current_task \in Tasks \cup {NULL}
  /\ current_tick \in 0 .. TickRange - 1
  /\ interrupts \in BOOLEAN
  /\ pend_sv \in BOOLEAN
  /\ mode \in Modes
  /\ level \in [Tasks -> BOOLEAN]
  /\ ticks \in [Tasks -> Nat]
  /\ left \in [Tasks -> Int]

(* The variables have the types of the C declarations: lock_count and the  *)
(* tick counters stay in range, and the lists hold tasks.                  *)
TypeOK == StateTypeOK /\ pc \in [Tasks -> Seq(Labels)]

Ready(t) == state[t] \in {"RESUME", "SLEEP_RESUME"}

(* The ready list holds exactly the tasks in state RESUME or SLEEP_RESUME, *)
(* each once: no yield, wake-up, switch or task_add enqueues a task twice  *)
(* (which would cut or knot the linked list) or loses one.                 *)
ReadyListExact ==
  /\ NoDuplicates(sch_ready_task_list)
  /\ \A t \in Tasks : Ready(t) <=> t \in ToSet(sch_ready_task_list)

(* A task inside sleep_ticks that is not due.                              *)
Sleeping(t) ==
  state[t] \in {"TO_BE_SUSPENDED", "SUSPENDED"} \/ Head(pc[t]) = "sl_suspend"

(* The sleep list holds exactly the tasks inside sleep_ticks, each once,   *)
(* from sleep_add_to_list until they are made ready: a suspended task      *)
(* always has something that will resume it, and no task that runs is left *)
(* behind on the list.                                                     *)
SleepListExact ==
  /\ NoDuplicates(sleep_task_list)
  /\ \A t \in Tasks : Sleeping(t) <=> t \in ToSet(sleep_task_list)

(* There is always a task to run: scheduler_get_next_task never finds the  *)
(* list empty, no lock is taken or released too often, and the tick never  *)
(* finds the current task in a state other than running.  (Holds while no  *)
(* task returns from its entry function.)                                  *)
NoAssert == mode # "assert"

(* The scheduler picks by priority: the ready list is in order.            *)
ReadyListSorted ==
  \A i, j \in 1 .. Len(sch_ready_task_list) :
    i < j => Priority[sch_ready_task_list[i]] <= Priority[sch_ready_task_list[j]]

(* The sleep list is in the order of the deadlines across the wrap of the  *)
(* tick counter, as process_system_tick and sleep_walk rely on.            *)
SleepListSorted ==
  \A i, j \in 1 .. Len(sleep_task_list) :
    i < j => left[sleep_task_list[i]] <= left[sleep_task_list[j]]

(* No sleep ends early: a task is resumed from sleep only after as many    *)
(* ticks as it asked for, whatever the tick counter did in between.        *)
NeverEarly == \A t \in Tasks : state[t] = "SLEEP_RESUME" => left[t] <= 0

(* A sleep is over and its task is still suspended.                        *)
Overdue == \E t \in ToSet(sleep_task_list) : state[t] = "SUSPENDED" /\ left[t] <= 0

(* The current task is about to be switched out: a switch is pending, it   *)
(* is bound to yield when it unlocks, or it is yielding.                   *)
SwitchDue ==
  \/ pend_sv
  \/ lock_count[current_task] > 0 /\ drift[current_task]
  \/ Head(pc[current_task]) = "drift" /\ drift[current_task]
  \/ Head(pc[current_task]) = "pend"

(* No sleep is forgotten: while a due task is still suspended a switch is  *)
(* pending, or the running task is bound to yield when it unlocks.         *)
NeverForgotten == mode = "task" /\ Overdue => SwitchDue

(* Application code that has not locked the scheduler runs only while no   *)
(* ready task has a higher priority.  (Holds while no task is added at run *)
(* time.)                                                                  *)
HighestPriorityRuns ==
  \A t \in Tasks :
    InUser(t) /\ interrupts /\ lock_count[t] = 0
      => \A u \in Tasks : Ready(u) => Priority[u] >= Priority[t]

(* The tick handler's own assumption: when it is about to preempt the      *)
(* current task, that task is in the running state.                        *)
TickFindsRunning ==
  (/\ mode = "task" /\ interrupts
   /\ Triggers((current_tick + 1) % TickRange)
   /\ lock_count[current_task] = 0)
    => state[current_task] = "RUNNING"

(* Among equals the ready list is first in, first out: a ready task stays  *)
(* ahead of every task of its priority that became ready after it, so a    *)
(* yield goes round all of them.                                           *)
Before(u, v) ==
  \E i, j \in 1 .. Len(sch_ready_task_list) :
    i < j /\ sch_ready_task_list[i] = u /\ sch_ready_task_list[j] = v

FifoAmongEquals ==
  [][\A u, v \in Tasks :
       (/\ Priority[u] = Priority[v] /\ u # v
        /\ Ready(u) /\ Ready(u)' /\ Ready(v)'
        /\ (Ready(v) => Before(u, v)))
         => Before(u, v)']_kernelVars

(* task_entry_return relies on interrupts being enabled in a task's code.  *)
InterruptsInTask == \A t \in Tasks : InUser(t) => interrupts

(* A task that no other can preempt gets to run after every sleep.         *)
SleeperRuns ==
  \A t \in Tasks :
    (\A u \in Tasks \ {t} : Priority[t] < Priority[u])
      => (t \in ToSet(sleep_task_list) ~> InUser(t))

----------------------------------------------------------------------------
(* The inductive invariant behind TypeOK, ReadyListExact, ReadyListSorted  *)
(* and NoAssert.                                                           *)

(* The program points of a task: in application code, in one kernel call,  *)
(* or switching away inside sleep_ticks, which unlocks afterwards.         *)
StackShape(s) ==
  /\ s \in Seq(Labels)
  /\ \/ Len(s) = 1 /\ s[1] = "user"
     \/ Len(s) = 2 /\ s[1] \in Labels \ {"user"} /\ s[2] = "user"
     \/ Len(s) = 3 /\ s[1] \in {"pend", "back"} /\ s[2] = "unlock" /\ s[3] = "user"

StackOK == \A t \in Tasks : StackShape(pc[t])

(* The kernel owes the application of t a scheduler_unlock.                *)
OwesUnlock(t) ==
  pc[t][1] \in {"sl_add", "sl_insert", "sl_suspend", "unlock"} \/ Len(pc[t]) = 3

LocksOK ==
  \A t \in Tasks : /\ OwesUnlock(t) => lock_count[t] > 0
                   /\ lock_count[t] <= MaxUserLock + 1
                   /\ ~ OwesUnlock(t) => lock_count[t] <= MaxUserLock

(* The CPU executes a task that is not on the ready list, and a task that  *)
(* has left the running state is about to be switched out.                 *)
CurrentOK ==
  /\ mode \in {"task", "pendsv"} => current_task \in Tasks
  /\ mode = "task" =>
       /\ state[current_task] \in {"RUNNING", "TO_BE_SUSPENDED", "FINISHED"}
       /\ state[current_task] # "RUNNING" =>
            /\ interrupts
            /\ \/ pc[current_task][1] = "pend"
               \/ pc[current_task][1] = "back" /\ pend_sv
       /\ state[current_task] = "TO_BE_SUSPENDED" => Len(pc[current_task]) = 3

(* The inductive invariant of the kernel, for every assignment of          *)
(* priorities, delays, locks and finishing tasks.                          *)
KernelInvariant ==
  /\ TypeOK /\ ReadyListExact /\ ReadyListSorted
  /\ StackOK /\ LocksOK /\ CurrentOK

(* The idle task never leaves the scheduler: it runs or is ready, which is *)
(* why scheduler_get_next_task always has a task to return.                *)
IdleAvailable ==
  /\ state[Idle] \in {"RESUME", "RUNNING"}
  /\ state[Idle] = "RUNNING" => mode = "task" /\ current_task = Idle
  /\ pc[Idle][1] \notin {"sl_add", "sl_insert", "sl_suspend"}

(* While no task's entry function returns: a task that is switched out is  *)
(* running or suspending, never finished, and no assertion has fired.      *)
NoAssertInvariant ==
  /\ NoAssert /\ IdleAvailable
  /\ mode = "task" => state[current_task] # "FINISHED"

(* The deadline of a timed wait: its distance from the current tick is the *)
(* history variable, up to the wrap, and small enough for INT32CMP.        *)
DeadlineOK(t) ==
  /\ tick_sleep[t] = (current_tick + left[t]) % TickRange
  /\ left[t] >= - MaxLate
  /\ \E d \in Delays[t] : left[t] <= d

(* A task that is about to set its deadline was given a delay, and a       *)
(* suspended one is inside the switch that sleep_ticks made.               *)
SleeperStacks ==
  \A t \in Tasks : /\ pc[t][1] = "sl_add" => ticks[t] \in Delays[t]
                   /\ state[t] = "SUSPENDED" => Len(pc[t]) = 3

(* The inductive invariant behind SleepListExact, SleepListSorted,         *)
(* NeverEarly and NeverForgotten.                                          *)
SleepInvariant ==
  /\ SleepListExact /\ SleepListSorted /\ NeverEarly /\ NeverForgotten
  /\ SleeperStacks
  /\ \A t \in Tasks : Timed(t) => DeadlineOK(t)

(* While no task's entry function returns: interrupts are enabled in a     *)
(* task and in what it will restore.                                       *)
InterruptsOn == (mode = "task" => interrupts) /\ \A t \in Tasks : level[t]

(* While no task is added at run time: the task that has the CPU has at    *)
(* least the priority of every ready task, whatever it has locked.         *)
CurrentIsHighest ==
  mode = "task" =>
    \A u \in ToSet(sch_ready_task_list) : Priority[current_task] <= Priority[u]
============================================================================
