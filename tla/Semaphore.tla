------------------------------ MODULE Semaphore ------------------------------
(***************************************************************************)
(* rtos/kernel/semaphore.c: counting semaphores that tasks obtain, with a  *)
(* timeout, release and destroy.  The conditions of Condition are the      *)
(* conditions of the semaphores.  Interrupt protected semaphores are not   *)
(* part of this module.                                                    *)
(***************************************************************************)
EXTENDS Condition, FiniteSets

CONSTANTS
  MaxCount,    \* semaphore.max_count
  Waits,       \* the wait arguments of semaphore_obtain
  MayDestroy   \* the semaphores an application destroys

ASSUME SemaphoreAssumption ==
  /\ MaxCount \in [Conditions -> 1 .. 255]
  /\ Waits \subseteq Nat
  /\ \A w \in Waits \ {MAX_WAIT} : 2 * (w + MaxLate + 1) < TickRange
  /\ MayDestroy \subseteq Conditions
  /\ IsFiniteSet(Tasks)

VARIABLES
  owner,      \* semaphore.owner
  sem,        \* the semaphore argument of the call a task is in
  wait,       \* the wait argument
  destroyed,  \* semaphore_destroy has been called for it
  held        \* history: the semaphores a task has obtained and not released

semVars == <<owner, sem, wait, destroyed, held>>
vars    == <<kernelVars, condVars, semVars>>

SemaphoreLabels == {"so_test", "so_take", "sr_inc", "sd_clear"}

(* semaphore_create for every semaphore, before kernel_run.                *)
SemInit ==
  /\ Init /\ CondInit
  /\ count = MaxCount
  /\ owner = [s \in Conditions |-> NULL]
  /\ sem = [t \in Tasks |-> NULL]
  /\ wait = [t \in Tasks |-> 0]
  /\ destroyed = {}
  /\ held = [t \in Tasks |-> {}]

(* The call of a semaphore function: scheduler_lock comes first.           *)
EnterLocked(t, s, label) ==
  /\ InUser(t)
  /\ sem' = [sem EXCEPT ![t] = s]
  /\ IF lock_count[t] >= MaxLock
     THEN Halt /\ UNCHANGED <<lock_count, pc>>
     ELSE /\ lock_count' = [lock_count EXCEPT ![t] = @ + 1]
          /\ Go(t, <<label, "user">>)
          /\ UNCHANGED <<mode, interrupts>>
  /\ UNCHANGED <<state, resume_from, drift, level, lists, timeVars,
                 current_task, pend_sv>>

(* An application does not start to use a semaphore that is being deleted, *)
(* nor obtain again what it holds.                                         *)
semaphore_obtain(t, s, w) ==
  /\ t # Idle /\ s \notin destroyed /\ s \notin held[t]
  /\ EnterLocked(t, s, "so_test")
  /\ wait' = [wait EXCEPT ![t] = w]
  /\ UNCHANGED <<condVars, owner, destroyed, held>>

(* semaphore_condition_get: the tick at which a finite wait ends.          *)
Deadline(w) == IF w = MAX_WAIT THEN NULL ELSE (current_tick + w) % TickRange

(* The semaphore is free, or the task waits for it, or does not want to.   *)
ObtainTest(t) ==
  /\ At(t, "so_test")
  /\ \/ /\ count[sem[t]] > 0
        /\ status' = [status EXCEPT ![t] = "SUCCESS"]
        /\ Go(t, <<"so_take">>)
        /\ UNCHANGED <<conds, until, return_num, susp_status>>
     \/ /\ count[sem[t]] = 0 /\ wait[t] > 0
        /\ suspend_condition(t, <<sem[t]>>, <<Deadline(wait[t])>>)
        /\ Go(t, <<"sc_timeout", "so_take">>)
     \/ /\ count[sem[t]] = 0 /\ wait[t] = 0
        /\ status' = [status EXCEPT ![t] = "BUSY"]
        /\ Go(t, <<"so_take">>)
        /\ UNCHANGED <<conds, until, return_num, susp_status>>
  /\ UNCHANGED <<state, resume_from, lock_count, drift, level, lists, timeVars,
                 cpuVars, count, ping, suspend_list, suspend_data, timeout,
                 timeout_index, from, may_resume, resuming, semVars>>

(* Mutant: the count is not decremented.                                   *)
TakeNothing(t) == count

(* The count after t took a unit of its semaphore.                         *)
Taken(t) == [count EXCEPT ![sem[t]] = @ - 1]

ObtainTake(t) ==
  /\ At(t, "so_take")
  /\ IF status[t] = "SUCCESS" /\ count[sem[t]] = 0
     THEN Halt /\ UNCHANGED <<count, owner, held, sem, wait, pc>>
     ELSE /\ IF status[t] = "SUCCESS"
             THEN /\ count' = Taken(t)
                  /\ owner' = [owner EXCEPT ![sem[t]] = t]
                  /\ held' = [held EXCEPT ![t] = @ \cup {sem[t]}]
             ELSE UNCHANGED <<count, owner, held>>
          /\ sem' = [sem EXCEPT ![t] = NULL]
          /\ wait' = [wait EXCEPT ![t] = 0]
          /\ Go(t, <<"unlock">>)
          /\ UNCHANGED <<mode, interrupts>>
  /\ UNCHANGED <<state, resume_from, lock_count, drift, level, lists, timeVars,
                 current_task, pend_sv, ping, suspend_list, suspendVars,
                 resuming, destroyed>>

(* A holder releases.  A double release is an assertion of the code.       *)
semaphore_release(t, s) ==
  /\ s \in held[t] /\ s \notin destroyed
  /\ IF count[s] >= MaxCount[s]
     THEN /\ InUser(t)
          /\ Halt
          /\ UNCHANGED <<state, resume_from, drift, level, lists, timeVars,
                         current_task, pend_sv, lock_count, pc, sem>>
     ELSE EnterLocked(t, s, "sr_inc")
  /\ UNCHANGED <<condVars, owner, wait, destroyed, held>>

(* Mutant: the number of tasks to resume is read before the release.       *)
ResumableBefore(s) == count[s]

(* param.num: as many tasks as there are units after the release.          *)
Resumable(s) == count[s] + 1

ReleaseIncrement(t) ==
  LET s == sem[t]
  IN  /\ At(t, "sr_inc")
      /\ count' = [count EXCEPT ![s] = @ + 1]
      /\ owner' = [owner EXCEPT ![s] = NULL]
      /\ held' = [held EXCEPT ![t] = @ \ {s}]
      /\ resume_condition(t, s, Resumable(s), "SUCCESS")
      /\ sem' = [sem EXCEPT ![t] = NULL]
      /\ Go(t, <<"rc_lock", "unlock">>)
      /\ UNCHANGED <<state, resume_from, lock_count, drift, level, lists,
                     timeVars, cpuVars, ping, suspend_list, suspendVars, wait,
                     destroyed>>

(* Interrupts are disabled, and every waiting task is resumed with an      *)
(* error; the scheduler is not locked around it.  A holder destroys.       *)
semaphore_destroy(t, s) ==
  /\ InUser(t) /\ s \in MayDestroy \ destroyed /\ s \in held[t]
  /\ destroyed' = destroyed \cup {s}
  /\ sem' = [sem EXCEPT ![t] = s]
  /\ interrupts' = FALSE
  /\ resume_condition(t, s, -1, "DELETED")
  /\ Go(t, <<"rc_lock", "sd_clear", "user">>)
  /\ UNCHANGED <<state, resume_from, lock_count, drift, level, lists, timeVars,
                 current_task, pend_sv, mode, count, ping, suspend_list,
                 suspendVars, owner, wait, held>>

(* memset of the control block; the old interrupt level is restored (the   *)
(* application calls with interrupts enabled).                             *)
DestroyClear(t) ==
  LET s == sem[t]
  IN  /\ At(t, "sd_clear")
      /\ count' = [count EXCEPT ![s] = 0]
      /\ ping' = [ping EXCEPT ![s] = FALSE]
      /\ suspend_list' = [suspend_list EXCEPT ![s] = <<>>]
      /\ owner' = [owner EXCEPT ![s] = NULL]
      /\ held' = [held EXCEPT ![t] = @ \ {s}]
      /\ sem' = [sem EXCEPT ![t] = NULL]
      /\ interrupts' = TRUE
      /\ Go(t, <<>>)
      /\ UNCHANGED <<state, resume_from, lock_count, drift, level, lists,
                     timeVars, current_task, pend_sv, mode, suspendVars,
                     resuming, wait, destroyed>>

----------------------------------------------------------------------------
SemaphoreCall(t) ==
  ObtainTest(t) \/ ObtainTake(t) \/ ReleaseIncrement(t) \/ DestroyClear(t)

SemaphoreUse(t) ==
  \E s \in Conditions :
    \/ \E w \in Waits : semaphore_obtain(t, s, w)
    \/ semaphore_release(t, s)
    \/ semaphore_destroy(t, s)

CallStep(t) ==
  \/ KernelCall(t) /\ UNCHANGED <<condVars, semVars>>
  \/ ConditionCall(t) /\ UNCHANGED semVars
  \/ SemaphoreCall(t)

SemTick   == ConditionTick /\ UNCHANGED semVars
SemPendSV == PendSV /\ UNCHANGED <<condVars, semVars>>
SemBoot   == Boot /\ UNCHANGED <<condVars, semVars>>

(* A machine halted in system_assert has no step: TLC reports a deadlock.  *)
SemNext ==
  \/ SemBoot \/ SemPendSV \/ SemTick
  \/ \E t \in Tasks : \/ CallStep(t)
                      \/ UserCall(t) /\ UNCHANGED <<condVars, semVars>>
                      \/ SemaphoreUse(t)

SemSpec == SemInit /\ [][SemNext]_vars

Release(t) == \E s \in Conditions : semaphore_release(t, s)

(* As for the kernel; and a task that holds a semaphore releases it.       *)
SemFairness ==
  /\ WF_vars(SemBoot) /\ WF_vars(SemPendSV) /\ SF_vars(SemTick)
  /\ \A t \in Tasks : WF_vars(CallStep(t)) /\ SF_vars(Release(t))

SemFairSpec == SemSpec /\ SemFairness

----------------------------------------------------------------------------
(* Properties.                                                             *)

SemTypeOK ==
  /\ StateTypeOK
  /\ pc \in [Tasks -> Seq(Labels \cup ConditionLabels \cup SemaphoreLabels)]
  /\ \A c \in Conditions : count[c] \in 0 .. MaxCount[c]
  /\ ping \in [Conditions -> BOOLEAN]
  /\ suspend_list \in [Conditions -> Seq(Tasks)]
  /\ suspend_data \in [Tasks -> Seq(Conditions)]
  /\ conds \in [Tasks -> Seq(Conditions)]
  /\ timeout \in [Tasks -> 0 .. MAX_WAIT]
  /\ status \in [Tasks -> Errors \cup {"SUCCESS"}]
  /\ owner \in [Conditions -> Tasks \cup {NULL}]
  /\ held \in [Tasks -> SUBSET Conditions]

(* No more tasks hold a semaphore than it has units, and none is lost: the *)
(* count is what the holders leave of max_count.                           *)
CountExact ==
  \A s \in Conditions \ destroyed :
    count[s] + Cardinality({t \in Tasks : s \in held[t]}) = MaxCount[s]

(* The suspends a resume_condition under way has put aside.                *)
Aside(s) == UNION {ToSet(resuming[t].tmp) : t \in {u \in Tasks : resuming[u].cond = s}}

(* A task that waits for a semaphore without being ready is on its suspend *)
(* list once, so a release can find it.  It is while no semaphore is       *)
(* destroyed: see DestroyResumesAll.                                       *)
WaitersListed ==
  \A s \in Conditions :
    /\ NoDuplicates(suspend_list[s])
    /\ \A t \in Tasks :
         state[t] \in {"SUSPENDED", "TO_BE_SUSPENDED"} /\ conds[t] = <<s>>
           => t \in ToSet(suspend_list[s])

(* If any of the tasks are waiting when a semaphore is destroyed they are  *)
(* resumed with an error: none is suspended on it when semaphore_destroy   *)
(* clears the list of those who wait.  One is that a release had resumed   *)
(* before and that ran, and waited again, when resume_condition yielded.   *)
DestroyResumesAll ==
  \A t \in Tasks : At(t, "sd_clear") =>
    \A w \in Tasks : ~ (state[w] = "SUSPENDED" /\ conds[w] = <<sem[t]>>)

(* A wait list holds no task that has left suspend_condition: its SUSPEND  *)
(* was a local variable that no longer exists.                             *)
NoStaleSuspend ==
  \A s \in Conditions : \A t \in ToSet(suspend_list[s]) \cup Aside(s) : conds[t] = <<s>>

(* A task that is back in application code has left the sleep list: a node *)
(* left there would be linked a second time by the next timed wait, which  *)
(* cuts the list.                                                          *)
NoSleeperRuns ==
  /\ NoDuplicates(sleep_task_list)
  /\ \A t \in ToSet(sleep_task_list) : Head(pc[t]) # "user"

(* Task t was resumed for s, or took a turn of the loop, and has not yet   *)
(* looked at the count again; or it has looked and takes a unit next; or   *)
(* it is about to resume waiting tasks.                                    *)
WillLook(t, s) ==
  \/ sem[t] = s /\ Head(pc[t]) = "so_take" /\ status[t] = "SUCCESS"
  \/ conds[t] = <<s>> /\ state[t] \notin {"SUSPENDED", "TO_BE_SUSPENDED"}
       /\ from[t] = "SYSTEM" /\ state[t] # "SLEEP_RESUME"
  \/ resuming[t].cond = s

(* No lost wake-up: while a semaphore has units left and a task sleeps     *)
(* waiting for it, a task is on its way to take one.                       *)
NoLostWakeup ==
  \A s \in Conditions \ destroyed :
    (count[s] > 0 /\ \E t \in Tasks : state[t] = "SUSPENDED" /\ conds[t] = <<s>>)
      => \E t \in Tasks : WillLook(t, s)

(* A task that waits for ever for a semaphore gets it in the end, or the   *)
(* semaphore is destroyed, if no other task can preempt it and the holders *)
(* release.                                                                *)
WaiterObtains ==
  \A t \in Tasks : \A s \in Conditions :
    (\A u \in Tasks \ {t} : Priority[t] < Priority[u])
      => (conds[t] = <<s>> /\ timeout[t] = MAX_WAIT ~> (s \in held[t] \/ s \in destroyed))
----------------------------------------------------------------------------
(* The inductive invariant behind SemTypeOK, CountExact and ReadyListExact.*)

AllLabels    == Labels \cup ConditionLabels \cup SemaphoreLabels
ResumeLabels == {"rc_lock", "rc_loop", "rc_yield", "rc_back"}

(* What may be on top of a program point: the points of the function it    *)
(* called.                                                                 *)
Above(label) ==
  CASE label = "user" -> (Labels \ {"user"}) \cup SemaphoreLabels
    [] label = "unlock" -> {"pend", "back"} \cup ResumeLabels
    [] label = "sd_clear" -> ResumeLabels
    [] label = "so_take" -> ConditionLabels \ ResumeLabels
    [] label = "sc_done" -> {"unlock", "drift"}
    [] label = "rc_yield" -> {"unlock", "drift", "pend", "back"}
    [] label \in {"sc_woke", "rc_back"} -> {"pend", "back"}
    [] OTHER -> {}

CallStack(s) ==
  /\ s \in Seq(AllLabels)
  /\ Len(s) \in 1 .. 4 /\ s[Len(s)] = "user"
  /\ \A i \in 1 .. Len(s) - 1 : s[i] \in Above(s[i + 1])

(* The i-th program point of task t from the top, or what is left of its   *)
(* stack when it has fewer.                                                *)
Point(t, i) == IF i <= Len(pc[t]) THEN pc[t][i] ELSE "user"

(* The program points that owe the application a scheduler_unlock.         *)
Owing == {"unlock", "sl_add", "sl_insert", "sl_suspend", "so_test", "so_take",
          "sr_inc", "sc_sleep", "sc_insert", "sc_suspend", "sc_woke", "rc_loop"}

Owes(label) == IF label \in Owing THEN 1 ELSE 0
Owed(t)     == Owes(Point(t, 1)) + Owes(Point(t, 2)) + Owes(Point(t, 3))

(* A task has locked the scheduler as often as its calls and its           *)
(* application did.                                                        *)
SemLocks == \A t \in Tasks : lock_count[t] \in Owed(t) .. Owed(t) + MaxUserLock

(* Task t does not have the CPU.                                           *)
Away(t) == mode \in {"boot", "pendsv"} \/ (mode = "task" /\ t # current_task)

(* What the scheduler lock is for: a task that has locked the scheduler    *)
(* loses the CPU only where it gave it up itself.                          *)
LockKeepsCPU ==
  /\ \A t \in Tasks : Away(t) => lock_count[t] = 0 \/ Point(t, 1) = "back"
  /\ mode = "task" /\ pend_sv =>
       /\ interrupts
       /\ lock_count[current_task] = 0 \/ Point(current_task, 1) = "back"
  /\ mode = "task" /\ Point(current_task, 1) = "pend" => interrupts

(* The task that has the CPU runs, or has left the running state and is    *)
(* about to be switched out.                                               *)
SemCurrent ==
  /\ mode \in {"task", "pendsv"} => current_task \in Tasks
  /\ mode = "task" =>
       /\ state[current_task] \in {"RUNNING", "TO_BE_SUSPENDED", "FINISHED"}
       /\ state[current_task] # "RUNNING" =>
            /\ interrupts
            /\ \/ Point(current_task, 1) = "pend"
               \/ Point(current_task, 1) = "back" /\ pend_sv
  /\ \A t \in Tasks : state[t] = "TO_BE_SUSPENDED" => ~ Away(t) /\ current_task = t

(* Task t is at the program point, or will return to it.                   *)
Calling(t, label) == \E i \in 1 .. 3 : Point(t, i) = label

(* Task t is inside the suspend_condition of semaphore_obtain.             *)
InSuspend(t) == \E i \in 2 .. 3 : Point(t, i) = "so_take"

Resumes(t) == \E label \in ResumeLabels : Calling(t, label)

(* The arguments of the calls a task is in.                                *)
Arguments(t) ==
  /\ Calling(t, "so_test") \/ Calling(t, "so_take") => sem[t] \in Conditions \ held[t]
  /\ Calling(t, "sr_inc") => sem[t] \in held[t] \ destroyed
  /\ Calling(t, "sd_clear") => sem[t] \in held[t] \cap destroyed
  /\ InSuspend(t) => conds[t] = <<sem[t]>> /\ suspend_data[t] \in {<<>>, <<sem[t]>>}
  /\ ~ InSuspend(t) => suspend_data[t] = <<>> /\ conds[t] = <<>>
  /\ Point(t, 1) = "sc_timeout" => Len(until[t]) = 1
  /\ Resumes(t) => resuming[t].cond \in Conditions

CallArguments == \A t \in Tasks : Arguments(t)

Suspended(t) == state[t] \in {"TO_BE_SUSPENDED", "SUSPENDED"}

(* A wait goes through these: the task is on the list; it has left the     *)
(* running state; a release or the sleep made it ready; until it has left  *)
(* suspend_condition or gone round the loop.                               *)
Queued(t)  == Point(t, 1) \in {"sc_lock", "sc_sleep", "sc_insert", "sc_suspend"}
Waiting(t) == Calling(t, "sc_woke") /\ Suspended(t)
Ended(t, by) ==
  \/ Calling(t, "sc_woke") /\ ~ Suspended(t) /\ resume_from[t] = by
  \/ Calling(t, "sc_done") /\ from[t] = by
Resumed(t)  == Ended(t, "SYSTEM")
TimedOut(t) == Ended(t, "SLEEP")

(* A task is suspended inside a wait only, and stays so until it is        *)
(* resumed: no preemption comes between and hides what resumed it.         *)
WaitForm(t) ==
  /\ Suspended(t) => Point(t, 1) \in {"pend", "back"}
  /\ state[t] = "FINISHED" => Point(t, 2) = "user"
  /\ Calling(t, "sc_woke") /\ Point(t, 1) = "pend" => state[t] = "TO_BE_SUSPENDED"
  /\ Calling(t, "sc_woke") /\ mode = "task" /\ current_task = t /\ pend_sv
       => state[t] = "TO_BE_SUSPENDED"

WaitsKept ==
  /\ mode \in {"boot", "pendsv"} => ~ pend_sv
  /\ \A t \in Tasks : WaitForm(t)

(* The suspend of a task that waits carries its semaphore, and the one of  *)
(* a task that was resumed may resume it.                                  *)
ResumedMayTake ==
  \A t \in Tasks :
    /\ Waiting(t) \/ Resumed(t) => suspend_data[t] = <<sem[t]>>
    /\ Resumed(t) => may_resume[t][sem[t]]

(* While no semaphore is destroyed: a task that resumes others keeps the   *)
(* CPU until it has put back what it kept aside.                           *)
ResumerKeepsCPU ==
  \A t \in Tasks :
    IF Resumes(t) THEN Point(t, 1) \notin {"pend", "back"} ELSE resuming[t] = NoResume

(* A task is on the list of a semaphore, or aside, once and while it waits *)
(* for it or has timed out.                                                *)
SuspendLists ==
  \A s \in Conditions :
    /\ NoDuplicates(suspend_list[s])
    /\ \A t \in ToSet(suspend_list[s]) \cup Aside(s) :
         s = sem[t] /\ (Queued(t) \/ Waiting(t) \/ TimedOut(t))
    /\ \A t \in Tasks :
         sem[t] = s /\ (Queued(t) \/ Waiting(t)) => t \in ToSet(suspend_list[s])
    /\ \A t \in Tasks : resuming[t].cond = s =>
         /\ NoDuplicates(resuming[t].tmp)
         /\ ToSet(resuming[t].tmp) \cap ToSet(suspend_list[s]) = {}

(* The types of what SemTypeOK leaves out.                                 *)
CallTypes ==
  /\ sem \in [Tasks -> Conditions \cup {NULL}]
  /\ wait \in [Tasks -> Nat]
  /\ destroyed \subseteq Conditions
  /\ until \in [Tasks -> Seq(0 .. TickRange - 1 \cup {NULL})]
  /\ from \in [Tasks -> {"SYSTEM", "SLEEP"}]
  /\ susp_status \in [Tasks -> [Conditions -> Errors \cup {"SUCCESS"}]]
  /\ may_resume \in [Tasks -> [Conditions -> BOOLEAN]]
  /\ resuming \in [Tasks -> [cond : Conditions \cup {NULL}, num : Int,
                             status : Errors \cup {"SUCCESS"}, tmp : Seq(Tasks),
                             yield : BOOLEAN]]

SemInvariant ==
  /\ SemTypeOK /\ CallTypes /\ \A t \in Tasks : CallStack(pc[t])
  /\ SemLocks /\ LockKeepsCPU /\ SemCurrent /\ WaitsKept /\ ResumedMayTake
  /\ CallArguments /\ CountExact /\ ReadyListExact /\ ReadyListSorted

(* While no semaphore is destroyed.                                        *)
WaitInvariant == SemInvariant /\ ResumerKeepsCPU /\ SuspendLists
----------------------------------------------------------------------------
(* Sleeping tasks; behind NoSleeperRuns.                                   *)

(* The wait of task t has a timeout.                                       *)
TimedWait(t) == timeout[t] # MAX_WAIT

(* Task t sleeps in sleep_ticks, or in a wait with a timeout from its      *)
(* insertion until it runs again and leaves the list (SuspendWoke).        *)
Asleep(t) ==
  \/ Point(t, 1) = "sl_suspend"
  \/ Point(t, 1) = "sc_suspend" /\ TimedWait(t)
  \/ /\ Calling(t, "sc_woke") /\ TimedWait(t)
     /\ Suspended(t) \/ resume_from[t] = "SYSTEM"
  \/ Suspended(t) /\ ~ Calling(t, "sc_woke")

SleepersExact ==
  /\ NoDuplicates(sleep_task_list)
  /\ \A t \in Tasks : Asleep(t) <=> t \in ToSet(sleep_task_list)
  /\ \A t \in Tasks : Point(t, 1) = "sc_insert" => TimedWait(t)

----------------------------------------------------------------------------
(* While no entry function returns: interrupts are disabled, and restored  *)
(* disabled, inside semaphore_destroy only.                                *)
SemInterrupts ==
  /\ mode = "task" /\ ~ interrupts => Calling(current_task, "sd_clear")
  /\ \A t \in Tasks :
       Point(t, 1) \in {"pend", "back"} /\ ~ level[t] => Calling(t, "sd_clear")

----------------------------------------------------------------------------
(* While no entry function returns and no semaphore is destroyed: what the *)
(* assertions rest on.                                                     *)

(* A task that is about to take a unit finds one: nobody else takes it     *)
(* between the test of the count and the decrement.                        *)
UnitThere ==
  /\ \A c \in Conditions : ~ ping[c]
  /\ \A t \in Tasks : Point(t, 1) \in {"so_take", "sc_end"} /\ status[t] = "SUCCESS"
                        => count[sem[t]] > 0

(* The suspend of a task that timed out is still on its list, or aside.    *)
TimedOutListed ==
  \A t \in Tasks : TimedOut(t) => t \in ToSet(suspend_list[sem[t]]) \cup Aside(sem[t])

(* The idle task locks, unlocks and yields.                                *)
IdleReady ==
  /\ state[Idle] \in {"RESUME", "RUNNING"}
  /\ state[Idle] = "RUNNING" => mode = "task" /\ current_task = Idle
  /\ \A i \in 1 .. 3 : Point(Idle, i) \in {"user", "unlock", "drift", "pend", "back"}
  /\ held[Idle] = {}

AssertInvariant ==
  /\ NoAssert /\ UnitThere /\ TimedOutListed /\ IdleReady
  /\ mode = "task" => state[current_task] # "FINISHED"
  /\ \A t \in Tasks : Suspended(t) => Point(t, 2) \in {"unlock", "sc_woke"}

----------------------------------------------------------------------------
(* While no task is added at run time: when a ready task has a higher      *)
(* priority than the one that has the CPU, this one is resuming tasks and  *)
(* will yield, is bound to yield when it unlocks, or is being switched out.*)
BoundToYield(t) ==
  \/ /\ resuming[t].yield
     /\ Point(t, 1) \in {"rc_loop", "rc_yield"} \/ Point(t, 2) = "rc_yield"
  \/ drift[t] /\ (lock_count[t] > 0 \/ Point(t, 1) = "drift")
  \/ Point(t, 1) = "pend"
  \/ pend_sv

HigherWillRun ==
  mode = "task" =>
    \/ BoundToYield(current_task)
    \/ \A u \in ToSet(sch_ready_task_list) : Priority[current_task] <= Priority[u]

----------------------------------------------------------------------------
(* While no semaphore is destroyed and no wait has a timeout: the units of *)
(* a semaphore are spoken for while a task waits for it.                   *)

(* Nothing but a release ends a wait.                                      *)
OnlyReleases ==
  \A t \in Tasks :
    /\ ~ TimedWait(t) /\ wait[t] \in {0, MAX_WAIT}
    /\ ToSet(until[t]) \subseteq {NULL}
    /\ from[t] = "SYSTEM" /\ ~ TimedOut(t)
    /\ resuming[t].status = "SUCCESS"
    /\ \A c \in Conditions : susp_status[t][c] = "SUCCESS"

(* The sleep made a task ready and it has not run yet.                     *)
SleepEnded ==
  \A t \in Tasks : state[t] = "SLEEP_RESUME" =>
    resume_from[t] = "SLEEP" /\ Point(t, 1) \in {"pend", "back"}

(* A task on its way into a wait found no unit, and keeps the CPU.         *)
NoneFound ==
  \A t \in Tasks : Queued(t) \/ Point(t, 1) = "sc_append" => count[sem[t]] = 0

(* Task t was resumed for s and has not looked yet, or takes a unit next.  *)
Looks(t, s) ==
  /\ sem[t] = s
  /\ \/ Resumed(t)
     \/ Point(t, 1) \in {"sc_end", "so_take"} /\ status[t] = "SUCCESS"

Lookers(s) == {t \in Tasks : Looks(t, s)}

(* Task u may still resume tasks for s.                                    *)
ResumesFor(u, s) == Point(u, 1) \in {"rc_lock", "rc_loop"} /\ resuming[u].cond = s

SpokenFor(s) ==
  (\E t \in Tasks : Waiting(t) /\ sem[t] = s) =>
    \/ count[s] <= Cardinality(Lookers(s))
    \/ \E u \in Tasks :
         ResumesFor(u, s) /\ count[s] <= Cardinality(Lookers(s)) + resuming[u].num

WakeupInvariant ==
  /\ OnlyReleases /\ SleepEnded /\ NoneFound
  /\ \A s \in Conditions : SpokenFor(s)
============================================================================
