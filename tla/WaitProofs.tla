------------------------------ MODULE WaitProofs ------------------------------
(***************************************************************************)
(* More about Semaphore, for every set of tasks, semaphores and waits:     *)
(* which tasks are on the sleep list, the interrupt level, no lost         *)
(* wake-up, the highest priority, and no assertion.                        *)
(***************************************************************************)
EXTENDS SemaphoreProofs

----------------------------------------------------------------------------
(* Sleeping tasks.                                                         *)

SleepTops == {"sl_suspend", "sc_suspend", "sc_insert"}

SleepKept(u) ==
  /\ Asleep(u)' <=> Asleep(u)
  /\ Point(u, 1)' = "sc_insert" => TimedWait(u)'

(* A task that neither joins nor leaves a sleep.                           *)
LEMMA SleepSame ==
  ASSUME SleepersExact, NEW u \in Tasks, CallsKept(u), StateKept(u),
         timeout'[u] = timeout[u],
         \A label \in SleepTops : Point(u, 1)' = label <=> Point(u, 1) = label
  PROVE  SleepKept(u)
<1>1. \A label \in {"sl_suspend", "sc_suspend", "sc_insert"} :
        Point(u, 1)' = label <=> Point(u, 1) = label
  BY DEF SleepTops
<1>2. Calling(u, "sc_woke")' <=> Calling(u, "sc_woke")
  BY DEF CallsKept
<1>3. TimedWait(u)' <=> TimedWait(u)
  BY DEF TimedWait, MAX_WAIT
<1>4. Point(u, 1)' = "sc_insert" => TimedWait(u)'
  BY <1>1, <1>3 DEF SleepersExact
<1>5. CASE Calling(u, "sc_woke")
  BY <1>1, <1>2, <1>3, <1>4, <1>5 DEF SleepKept, Asleep, StateKept
<1>6. CASE ~ Calling(u, "sc_woke")
  BY <1>1, <1>2, <1>3, <1>4, <1>6 DEF SleepKept, Asleep, StateKept
<1> QED  BY <1>5, <1>6

LEMMA SleepersStay ==
  ASSUME SleepersExact, UNCHANGED sleep_task_list, \A u \in Tasks : SleepKept(u)
  PROVE  SleepersExact'
BY DEF SleepersExact, SleepKept

(* The other tasks while one moves on.                                     *)
LEMMA SleepOthers ==
  ASSUME SleepersExact, NEW u \in Tasks,
         Point(u, 1)' = Point(u, 1), Point(u, 2)' = Point(u, 2), Point(u, 3)' = Point(u, 3),
         state'[u] = state[u], resume_from'[u] = resume_from[u], timeout'[u] = timeout[u]
  PROVE  SleepKept(u)
<1>1. CallsKept(u) /\ StateKept(u)
  BY SamePoints DEF StateKept, Suspended
<1> QED  BY <1>1, SleepSame

(* A task that runs is awake outside the places where it joins the list.   *)
LEMMA AwakeAt ==
  ASSUME NEW t, ~ Suspended(t), ~ Calling(t, "sc_woke"), Point(t, 1) \notin SleepTops
  PROVE  ~ Asleep(t)
BY DEF Asleep, SleepTops

LEMMA AwakeNext ==
  ASSUME NEW t, NEW a, NEW b, NEW c, NewStack(t, a, b, c), ~ Suspended(t)',
         a \notin SleepTops \cup {"sc_woke"}, b # "sc_woke", c # "sc_woke"
  PROVE  ~ Asleep(t)' /\ Point(t, 1)' # "sc_insert"
<1>1. Point(t, 1)' = a /\ ~ Calling(t, "sc_woke")'
  BY NewCalling
<1> QED  BY <1>1 DEF Asleep, SleepTops

(* A step of a running task that is and stays awake.                       *)
LEMMA AwakeStep ==
  ASSUME Control, SleepersExact, NEW t \in Tasks, state[t] = "RUNNING",
         UNCHANGED <<state, resume_from, sleep_task_list>>,
         \A u \in Tasks : u # t => timeout'[u] = timeout[u],
         ~ Calling(t, "sc_woke"), Point(t, 1) \notin SleepTops,
         NEW a, NEW b, NEW c, NewStack(t, a, b, c),
         a \notin SleepTops \cup {"sc_woke"}, b # "sc_woke", c # "sc_woke"
  PROVE  SleepersExact'
<1>1. ~ Suspended(t) /\ ~ Suspended(t)'
  BY DEF Suspended
<1>2. SleepKept(t)
  BY <1>1, AwakeAt, AwakeNext DEF SleepKept
<1>3. ASSUME NEW u \in Tasks, u # t
      PROVE  SleepKept(u)
  BY <1>3, SleepOthers DEF NewStack
<1> QED  BY <1>2, <1>3, SleepersStay

(* A step that stops at an assertion.                                      *)
LEMMA SleepersHalt ==
  ASSUME SleepersExact, UNCHANGED <<pc, state, resume_from, sleep_task_list, timeout>>
  PROVE  SleepersExact'
<1>1. ASSUME NEW u \in Tasks
      PROVE  SleepKept(u)
  BY SleepOthers DEF Point
<1> QED  BY <1>1, SleepersStay

LEMMA SystemSleepers ==
  ASSUME Core, ReadyOK, WaitsKept, SleepersExact,
         Boot \/ PendSV \/ isr_sysclock_handle, UNCHANGED condVars
  PROVE  SleepersExact'
<1>0. Control /\ StateTypeOK /\ UNCHANGED timeout
  BY DEF Core, Control, condVars, suspendVars
<1>1. UNCHANGED pc /\ \A u \in Tasks : CallsKept(u)
  <2>1. UNCHANGED pc
    BY DEF Boot, BootAdd, run_first_task, PendSV, SaveCurrent, sleep_process_system_tick,
           LoadNext, isr_sysclock_handle
  <2> QED  BY <2>1, PointsStay
<1>2. ASSUME NEW u \in Tasks, StateKept(u)
      PROVE  SleepKept(u)
  BY <1>0, <1>1, <1>2, SleepSame DEF Point
<1>3. CASE Boot \/ SaveCurrent \/ LoadNext \/ isr_sysclock_handle
  <2>1. \A u \in Tasks : StateKept(u)
    BY <1>3, SystemStates
  <2>2. UNCHANGED sleep_task_list
    BY <1>3 DEF Boot, BootAdd, run_first_task, SaveCurrent, LoadNext, isr_sysclock_handle, lists
  <2> QED  BY <1>2, <2>1, <2>2, SleepersStay
<1>4. CASE sleep_process_system_tick
  <2>1. PICK i, t :
          /\ i \in 1 .. Len(sleep_task_list)
          /\ t = sleep_task_list[i] /\ sleep_walk(i)
          /\ sleep_task_list' = RemoveAt(sleep_task_list, i)
          /\ state' = [state EXCEPT ![t] = "SLEEP_RESUME"]
          /\ resume_from' = [resume_from EXCEPT ![t] = "SLEEP"]
    BY <1>4 DEF sleep_process_system_tick
  <2>2. t \in Tasks /\ state[t] = "SUSPENDED"
    BY <1>0, <2>1, ElementOf DEF StateTypeOK, sleep_walk
  <2>3. /\ state'[t] = "SLEEP_RESUME" /\ resume_from'[t] = "SLEEP"
        /\ \A u \in Tasks : u # t => state'[u] = state[u] /\ resume_from'[u] = resume_from[u]
    BY <1>0, <2>1, <2>2 DEF StateTypeOK
  <2>4. /\ NoDuplicates(sleep_task_list')
        /\ ToSet(sleep_task_list') = ToSet(sleep_task_list) \ {t}
    BY <1>0, <2>1, RemoveAtMembers DEF SleepersExact, StateTypeOK
  <2>5. Point(t, 1)' \in {"pend", "back"}
    BY <1>1, <2>2 DEF WaitsKept, WaitForm, Suspended, Point
  <2>6. ~ Asleep(t)'
    BY <2>3, <2>5 DEF Asleep, Suspended
  <2>7. ASSUME NEW u \in Tasks, u # t
        PROVE  SleepKept(u)
    BY <1>2, <2>3, <2>7 DEF StateKept, Suspended
  <2>8. \A u \in Tasks : Asleep(u)' <=> u \in ToSet(sleep_task_list')
    BY <2>4, <2>6, <2>7 DEF SleepersExact, SleepKept
  <2>9. \A u \in Tasks : Point(u, 1)' = "sc_insert" => TimedWait(u)'
    BY <2>5, <2>7 DEF SleepKept
  <2> QED  BY <2>4, <2>8, <2>9 DEF SleepersExact
<1> QED  BY <1>3, <1>4 DEF PendSV

(* sleep_ticks joins the list and suspends the task.                       *)
LEMMA InsertSleepers ==
  ASSUME Control, SleepersExact, NEW t \in Tasks, ~ Asleep(t),
         sleep_task_list' = SleepInserted(t), UNCHANGED <<state, resume_from, timeout>>,
         NEW a, NEW b, NEW c, NewStack(t, a, b, c), Asleep(t)', a # "sc_insert"
  PROVE  SleepersExact'
<1>1. t \notin ToSet(sleep_task_list) /\ sleep_task_list \in Seq(Tasks)
  BY DEF SleepersExact, Control, StateTypeOK
<1>2. /\ NoDuplicates(sleep_task_list')
      /\ ToSet(sleep_task_list') = ToSet(sleep_task_list) \cup {t}
  BY <1>1, SllInsertMembers DEF SleepInserted, SleepersExact
<1>3. ASSUME NEW u \in Tasks, u # t
      PROVE  SleepKept(u)
  BY <1>3, SleepOthers DEF NewStack
<1>4. Point(t, 1)' # "sc_insert"
  BY DEF NewStack
<1>5. \A u \in Tasks : Asleep(u)' <=> u \in ToSet(sleep_task_list')
  BY <1>2, <1>3 DEF SleepersExact, SleepKept
<1>6. \A u \in Tasks : Point(u, 1)' = "sc_insert" => TimedWait(u)'
  BY <1>3, <1>4 DEF SleepKept
<1> QED  BY <1>2, <1>5, <1>6 DEF SleepersExact

LEMMA KernelSleepers ==
  ASSUME Core, WaitsKept, SleepersExact, NEW t \in Tasks, KernelCall(t) \/ UserCall(t),
         UNCHANGED condVars
  PROVE  SleepersExact'
<1>0. Control /\ StateTypeOK /\ UNCHANGED timeout /\ \A u \in Tasks : CallsKept(u)
  BY KernelCallKeeps, UserCallKeeps DEF Core, Control, condVars, suspendVars
<1>1. CASE SleepInsert(t)
  <2>1. At(t, "sl_insert") /\ Go(t, <<"sl_suspend">>) /\ sleep_task_list' = SleepInserted(t)
        /\ UNCHANGED <<state, resume_from>>
    BY <1>1 DEF SleepInsert
  <2>2. /\ Point(t, 1) = "sl_insert" /\ Point(t, 2) = "user" /\ Point(t, 3) = "user"
        /\ state[t] = "RUNNING" /\ Stacks
    BY <1>0, <2>1, ExecFacts DEF StackForm, SuspendLabels, ConditionLabels, ResumeLabels
  <2>3. NewStack(t, "sl_suspend", "user", "user")
    <3>1. "sl_suspend" \in Above(Point(t, 2)) /\ Point(t, 1) # "user"
      BY <2>2, AboveIs DEF Labels
    <3>2. NewStack(t, "sl_suspend", Point(t, 2), Point(t, 3))
      BY <2>1, <2>2, <3>1, GoStep
    <3> QED  BY <2>2, <3>2
  <2>4. ~ Calling(t, "sc_woke") /\ ~ Suspended(t)
    BY <2>2, CallingIs DEF Suspended
  <2>5. ~ Asleep(t)
    BY <2>2, <2>4, AwakeAt DEF SleepTops
  <2>6. Asleep(t)'
    BY <2>3 DEF NewStack, Asleep
  <2> QED  BY <1>0, <2>1, <2>3, <2>5, <2>6, InsertSleepers
<1>2. CASE SleepSuspend(t)
  <2>1. /\ At(t, "sl_suspend") /\ state' = [state EXCEPT ![t] = "TO_BE_SUSPENDED"]
        /\ UNCHANGED <<resume_from, sleep_task_list>>
    BY <1>2 DEF SleepSuspend, lists
  <2>2. Point(t, 1) = "sl_suspend"
    BY <1>0, <2>1, ExecFacts
  <2>3. NewStack(t, "pend", "unlock", "user")
    BY <1>0, <1>2, SleepSuspendControl
  <2>4. Asleep(t)
    BY <2>2 DEF Asleep
  <2>5. ~ Calling(t, "sc_woke")' /\ Suspended(t)' /\ Point(t, 1)' = "pend"
    <3>1. Suspended(t)'
      BY <1>0, <2>1 DEF Suspended, StateTypeOK
    <3>2. ~ Calling(t, "sc_woke")' /\ Point(t, 1)' = "pend"
      BY <2>3, NewCalling
    <3> QED  BY <3>1, <3>2
  <2>6. SleepKept(t)
    BY <2>4, <2>5 DEF SleepKept, Asleep
  <2>7. ASSUME NEW u \in Tasks, u # t
        PROVE  SleepKept(u)
    <3>1. state'[u] = state[u]
      BY <1>0, <2>1, <2>7 DEF StateTypeOK
    <3> QED  BY <1>0, <2>1, <2>3, <2>7, <3>1, SleepOthers DEF NewStack
  <2> QED  BY <2>1, <2>6, <2>7, SleepersStay
<1>3. CASE ~ SleepInsert(t) /\ ~ SleepSuspend(t)
  <2>1. UNCHANGED sleep_task_list
    BY <1>3 DEF KernelCall, PEND_SV, RestoreLevel, scheduler_unlock, UnlockYield, SleepAdd,
                UserCall, scheduler_lock, UserUnlock, task_yield, sleep_ticks, lists,
                task_entry_return, scheduler_task_add
  <2>2. \A u \in Tasks : StateKept(u)
    BY <1>0, <1>3, KernelStates
  <2>3. /\ Point(t, 1) \notin SleepTops
        /\ \/ UNCHANGED pc
           \/ \E a \in {"back", "drift", "pend", "sl_insert", "sl_add", "unlock", Point(t, 2)} :
                \E b, c : NewStack(t, a, b, c)
    <3>1. CASE PEND_SV(t)
      BY <1>0, <3>1, ExecFacts, PendControl DEF PEND_SV, SleepTops
    <3>2. CASE RestoreLevel(t)
      BY <1>0, <3>2, ExecFacts, RestoreControl DEF RestoreLevel, SleepTops
    <3>3. CASE scheduler_unlock(t)
      BY <1>0, <3>3, ExecFacts, UnlockControl DEF scheduler_unlock, SleepTops
    <3>4. CASE UnlockYield(t)
      BY <1>0, <3>4, ExecFacts, UnlockYieldControl DEF UnlockYield, SleepTops
    <3>5. CASE SleepAdd(t)
      <4>1. At(t, "sl_add") /\ Go(t, <<"sl_insert">>)
        BY <3>5 DEF SleepAdd
      <4>2. Point(t, 1) = "sl_add" /\ Point(t, 2) = "user" /\ Stacks
        BY <1>0, <4>1, ExecFacts DEF StackForm, SuspendLabels, ConditionLabels, ResumeLabels
      <4>3. NewStack(t, "sl_insert", Point(t, 2), Point(t, 3))
        <5>1. "sl_insert" \in Above(Point(t, 2)) /\ Point(t, 1) # "user"
          BY <4>2, AboveIs DEF Labels
        <5> QED  BY <4>1, <4>2, <5>1, GoStep
      <4> QED  BY <4>2, <4>3 DEF SleepTops
    <3>6. CASE UserCall(t)
      <4>1. InUser(t)
        BY <3>6 DEF UserCall, scheduler_lock, UserUnlock, task_yield, sleep_ticks,
                    task_entry_return, scheduler_task_add
      <4>2. Point(t, 1) \notin SleepTops
        BY <1>0, <4>1, UserFacts DEF SleepTops
      <4> QED  BY <1>0, <3>6, <4>2, LockControl, UserUnlockControl, YieldControl,
                  SleepTicksControl, EntryReturnControl, TaskAddControl DEF UserCall
    <3> QED  BY <1>3, <3>1, <3>2, <3>3, <3>4, <3>5, <3>6 DEF KernelCall
  <2>4. Point(t, 2) \notin SleepTops
    <3>1. StackForm(Point(t, 1), Point(t, 2), Point(t, 3))
      BY <1>0, TaskStack DEF Control
    <3> QED  BY <3>1 DEF StackForm, SleepTops
  <2>5. \A u \in Tasks : \A label \in SleepTops : Point(u, 1)' = label <=> Point(u, 1) = label
    <3>1. CASE UNCHANGED pc
      BY <3>1 DEF Point
    <3>2. ASSUME NEW a \in {"back", "drift", "pend", "sl_insert", "sl_add", "unlock", Point(t, 2)},
                 NEW b, NEW c, NewStack(t, a, b, c)
          PROVE  \A u \in Tasks : \A label \in SleepTops : Point(u, 1)' = label <=> Point(u, 1) = label
      <4>1. a \notin SleepTops
        BY <2>4 DEF SleepTops
      <4> QED  BY <2>3, <3>2, <4>1 DEF NewStack
    <3> QED  BY <2>3, <3>1, <3>2
  <2>6. \A u \in Tasks : SleepKept(u)
    BY <1>0, <2>2, <2>5, SleepSame
  <2> QED  BY <2>1, <2>6, SleepersStay
<1> QED  BY <1>1, <1>2, <1>3

(* suspend_condition: the task joins the list for a finite wait and leaves *)
(* it when it runs again, unless the sleep has ended the wait.             *)
LEMMA SuspendSleepers ==
  ASSUME Core, WaitsKept, SleepersExact, NEW t \in Tasks,
         \/ suspend_timeout_get_min(t) \/ suspend_do_suspend(t)
         \/ suspend_condition_add_task(t) \/ SuspendLock(t)
         \/ SuspendSleep(t) \/ SuspendInsert(t) \/ SuspendSwitch(t) \/ SuspendWoke(t)
         \/ suspend_condition_remove_all(t) \/ suspend_condition_remove(t)
         \/ SuspendReturn(t)
  PROVE  SleepersExact'
<1>0. Control /\ StateTypeOK /\ DataTypes /\ timeout \in [Tasks -> 0 .. MAX_WAIT]
  BY DEF Core, Control, DataTypes
<1>1. ASSUME NEW label \in {"sc_timeout", "sc_check", "sc_append", "sc_lock", "sc_sleep", "sc_done",
                            "sc_end"},
             At(t, label)
      PROVE  state[t] = "RUNNING" /\ ~ Calling(t, "sc_woke") /\ Point(t, 1) \notin SleepTops
  <2>1. Point(t, 1) = label /\ Point(t, 2) = "so_take" /\ Point(t, 3) = "user" /\ state[t] = "RUNNING"
    BY <1>0, <1>1, InSuspendAt
  <2> QED  BY <2>1, CallingIs DEF SleepTops
<1>2. ASSUME NEW a \in {"sc_check", "sc_append", "sc_lock", "sc_sleep", "sc_end", "so_take"},
             NEW b \in {"so_take", "user"}, NewStack(t, a, b, "user"),
             state[t] = "RUNNING", ~ Calling(t, "sc_woke"), Point(t, 1) \notin SleepTops,
             UNCHANGED <<state, resume_from, sleep_task_list>>,
             \A u \in Tasks : u # t => timeout'[u] = timeout[u]
      PROVE  SleepersExact'
  <2>1. a \notin SleepTops \cup {"sc_woke"} /\ b # "sc_woke"
    BY DEF SleepTops
  <2> QED  BY <1>0, <1>2, <2>1, AwakeStep
<1>3. CASE suspend_timeout_get_min(t)
  <2>1. /\ At(t, "sc_timeout") /\ UNCHANGED <<state, resume_from, sleep_task_list>>
        /\ \E n : timeout' = [timeout EXCEPT ![t] = n]
    BY <1>3 DEF suspend_timeout_get_min, lists
  <2>2. \A u \in Tasks : u # t => timeout'[u] = timeout[u]
    BY <1>0, <2>1
  <2> QED  BY <1>0, <1>1, <1>2, <1>3, <2>1, <2>2, GetMinControl
<1>4. CASE suspend_do_suspend(t)
  <2>1. At(t, "sc_check") /\ UNCHANGED <<state, resume_from, sleep_task_list, timeout>>
    BY <1>4 DEF suspend_do_suspend, lists
  <2> QED  BY <1>0, <1>1, <1>2, <1>4, <2>1, DoSuspendControl
<1>5. CASE suspend_condition_add_task(t)
  <2>1. At(t, "sc_append") /\ UNCHANGED <<state, resume_from, sleep_task_list, timeout>>
    BY <1>5 DEF suspend_condition_add_task, lists, suspendVars
  <2> QED  BY <1>0, <1>1, <1>2, <1>5, <2>1, AddTaskControl
<1>6. CASE SuspendLock(t)
  <2>1. At(t, "sc_lock") /\ UNCHANGED <<state, resume_from, sleep_task_list, timeout>>
    BY <1>6 DEF SuspendLock, lists, condVars, suspendVars
  <2> QED  BY <1>0, <1>1, <1>2, <1>6, <2>1, SuspendLockControl
<1>7. CASE SuspendSleep(t)
  <2>1. At(t, "sc_sleep") /\ UNCHANGED <<state, resume_from, sleep_task_list, timeout>>
    BY <1>7 DEF SuspendSleep, lists, condVars, suspendVars
  <2>2. PICK a \in {"sc_insert", "sc_suspend"} : a = "sc_insert" <=> TimedWait(t)
    BY DEF TimedWait
  <2>3. Go(t, <<a>>)
    BY <1>7, <2>2 DEF SuspendSleep, TimedWait
  <2>4. /\ Point(t, 1) = "sc_sleep" /\ Point(t, 2) = "so_take" /\ Point(t, 3) = "user"
        /\ state[t] = "RUNNING" /\ Stacks
    BY <1>0, <2>1, InSuspendAt DEF Control
  <2>5. NewStack(t, a, "so_take", "user")
    <3>1. a \in Above(Point(t, 2)) /\ Point(t, 1) # "user"
      BY <2>4, AboveIs DEF ConditionLabels, ResumeLabels
    <3>2. NewStack(t, a, Point(t, 2), Point(t, 3))
      BY <2>3, <2>4, <3>1, GoStep
    <3> QED  BY <2>4, <3>2
  <2>6. ~ Asleep(t)
    <3>1. ~ Suspended(t)
      BY <2>4 DEF Suspended
    <3> QED  BY <1>1, <2>1, <3>1, AwakeAt
  <2>7. Point(t, 1)' = a /\ ~ Calling(t, "sc_woke")' /\ ~ Suspended(t)'
    <3>1. Point(t, 1)' = a /\ ~ Calling(t, "sc_woke")'
      BY <2>5, NewCalling
    <3> QED  BY <2>1, <2>4, <3>1 DEF Suspended
  <2>8. TimedWait(t)' <=> TimedWait(t)
    BY <2>1 DEF TimedWait, MAX_WAIT
  <2>9. SleepKept(t)
    BY <2>2, <2>6, <2>7, <2>8 DEF SleepKept, Asleep
  <2>10. ASSUME NEW u \in Tasks, u # t
         PROVE  SleepKept(u)
    BY <2>1, <2>5, <2>10, SleepOthers DEF NewStack
  <2> QED  BY <2>1, <2>9, <2>10, SleepersStay
<1>8. CASE SuspendInsert(t)
  <2>1. /\ At(t, "sc_insert") /\ UNCHANGED <<state, resume_from, timeout>>
        /\ sleep_task_list' = SleepInserted(t)
    BY <1>8 DEF SuspendInsert, lists, condVars, suspendVars
  <2>2. /\ Point(t, 1) = "sc_insert" /\ Point(t, 2) = "so_take" /\ Point(t, 3) = "user"
        /\ state[t] = "RUNNING" /\ ~ Suspended(t)
    BY <1>0, <2>1, InSuspendAt
  <2>3. NewStack(t, "sc_suspend", "so_take", "user")
    BY <1>0, <1>8, SuspendInsertControl
  <2>4. ~ Calling(t, "sc_woke")
    BY <2>2, CallingIs
  <2>5. ~ Asleep(t)
    BY <2>2, <2>4 DEF Asleep
  <2>6. TimedWait(t)'
    BY <2>1, <2>2 DEF SleepersExact, TimedWait, MAX_WAIT
  <2>7. Asleep(t)'
    BY <2>3, <2>6 DEF NewStack, Asleep
  <2> QED  BY <1>0, <2>1, <2>3, <2>5, <2>7, InsertSleepers
<1>9. CASE SuspendSwitch(t)
  <2>1. /\ At(t, "sc_suspend") /\ state' = [state EXCEPT ![t] = "TO_BE_SUSPENDED"]
        /\ UNCHANGED <<resume_from, sleep_task_list, timeout>>
    BY <1>9 DEF SuspendSwitch, lists
  <2>2. /\ Point(t, 1) = "sc_suspend" /\ Point(t, 2) = "so_take" /\ Point(t, 3) = "user"
        /\ ~ Suspended(t)
    BY <1>0, <2>1, InSuspendAt
  <2>3. NewStack(t, "pend", "sc_woke", "so_take")
    BY <1>0, <1>9, SuspendSwitchControl
  <2>4. ~ Calling(t, "sc_woke")
    BY <2>2, CallingIs
  <2>5. Calling(t, "sc_woke")' /\ Point(t, 1)' = "pend"
    BY <2>3, NewCalling
  <2>6. Suspended(t)'
    BY <1>0, <2>1 DEF Suspended, StateTypeOK
  <2>7. TimedWait(t)' <=> TimedWait(t)
    BY <2>1 DEF TimedWait, MAX_WAIT
  <2>8. SleepKept(t)
    BY <2>2, <2>4, <2>5, <2>6, <2>7 DEF SleepKept, Asleep
  <2>9. ASSUME NEW u \in Tasks, u # t
        PROVE  SleepKept(u)
    <3>1. state'[u] = state[u]
      BY <1>0, <2>1, <2>9 DEF StateTypeOK
    <3> QED  BY <2>1, <2>3, <2>9, <3>1, SleepOthers DEF NewStack
  <2> QED  BY <2>1, <2>8, <2>9, SleepersStay
<1>10. CASE SuspendWoke(t)
  <2>1. At(t, "sc_woke") /\ UNCHANGED <<state, resume_from, timeout>>
    BY <1>10 DEF SuspendWoke
  <2>2. /\ Point(t, 1) = "sc_woke" /\ Point(t, 2) = "so_take" /\ Point(t, 3) = "user"
        /\ state[t] = "RUNNING" /\ ~ Suspended(t) /\ mode = "task"
    BY <1>0, <2>1, InSuspendAt, ExecFacts
  <2>3. Calling(t, "sc_woke")
    BY <2>2, CallingIs
  <2>4. resume_from[t] \in {"SYSTEM", "SLEEP"}
    BY <1>0 DEF StateTypeOK
  <2>5. Asleep(t) <=> resume_from[t] # "SLEEP" /\ timeout[t] # MAX_WAIT
    BY <2>2, <2>3, <2>4 DEF Asleep, TimedWait
  <2>6. CASE UNCHANGED mode /\ NewStack(t, "unlock", "sc_done", "so_take")
    <3>1. CASE ~ (resume_from[t] # "SLEEP" /\ timeout[t] # MAX_WAIT)
      <4>1. UNCHANGED sleep_task_list
        BY <3>1 , <1>10 DEF SuspendWoke
      <4>2. ~ Suspended(t)'
        BY <2>1, <2>2 DEF Suspended
      <4>3. SleepKept(t)
        <5>1. ~ Asleep(t)' /\ Point(t, 1)' # "sc_insert"
          BY <2>6, <4>2, AwakeNext DEF SleepTops
        <5> QED  BY <2>5, <3>1, <5>1 DEF SleepKept
      <4>4. ASSUME NEW u \in Tasks, u # t
            PROVE  SleepKept(u)
        BY <2>1, <2>6, <4>4, SleepOthers DEF NewStack
      <4> QED  BY <4>1, <4>3, <4>4, SleepersStay
    <3>2. CASE resume_from[t] # "SLEEP" /\ timeout[t] # MAX_WAIT
      <4>1. mode' # "assert"
        BY <2>2, <2>6
      <4>2. sleep_task_list' = sll_remove(sleep_task_list, t)
        BY <3>2, <4>1, <1>10 DEF SuspendWoke, Halt
      <4>3. /\ NoDuplicates(sleep_task_list')
            /\ ToSet(sleep_task_list') = ToSet(sleep_task_list) \ {t}
        BY <1>0, <4>2, SllRemoveMembers DEF SleepersExact, StateTypeOK
      <4>4. ~ Asleep(t)' /\ Point(t, 1)' # "sc_insert"
        <5>1. ~ Suspended(t)'
          BY <2>1, <2>2 DEF Suspended
        <5> QED  BY <2>6, <5>1, AwakeNext DEF SleepTops
      <4>5. ASSUME NEW u \in Tasks, u # t
            PROVE  SleepKept(u)
        BY <2>1, <2>6, <4>5, SleepOthers DEF NewStack
      <4>6. \A u \in Tasks : Asleep(u)' <=> u \in ToSet(sleep_task_list')
        BY <4>3, <4>4, <4>5 DEF SleepersExact, SleepKept
      <4>7. \A u \in Tasks : Point(u, 1)' = "sc_insert" => TimedWait(u)'
        BY <4>4, <4>5 DEF SleepKept
      <4> QED  BY <4>3, <4>6, <4>7 DEF SleepersExact
    <3> QED  BY <3>1, <3>2
  <2>7. CASE mode' = "assert" /\ UNCHANGED pc
    <3>1. UNCHANGED sleep_task_list
      BY <2>2, <2>7, <1>10 DEF SuspendWoke
    <3> QED  BY <2>1, <2>7, <3>1, SleepersHalt
  <2> QED  BY <1>0, <1>10, <2>6, <2>7, WokeControl
<1>11. CASE suspend_condition_remove_all(t) \/ suspend_condition_remove(t)
  <2>1. At(t, "sc_done") /\ UNCHANGED <<state, resume_from, sleep_task_list, timeout>>
    BY <1>11 DEF suspend_condition_remove_all, suspend_condition_remove, lists
  <2>2. CASE UNCHANGED pc
    BY <2>1, <2>2, SleepersHalt
  <2>3. CASE ~ UNCHANGED pc
    <3>1. NewStack(t, "sc_end", "so_take", "user") \/ NewStack(t, "sc_check", "so_take", "user")
      BY <1>0, <1>11, <2>3, RemoveAllControl, RemoveControl
    <3> QED  BY <1>1, <1>2, <2>1, <3>1
  <2> QED  BY <2>2, <2>3
<1>12. CASE SuspendReturn(t)
  <2>1. /\ At(t, "sc_end") /\ UNCHANGED <<state, resume_from, sleep_task_list>>
        /\ timeout' = [timeout EXCEPT ![t] = MAX_WAIT]
    BY <1>12 DEF SuspendReturn, lists
  <2>2. \A u \in Tasks : u # t => timeout'[u] = timeout[u]
    BY <1>0, <2>1
  <2> QED  BY <1>0, <1>1, <1>2, <1>12, <2>1, <2>2, ReturnControl
<1> QED  BY <1>3, <1>4, <1>5, <1>6, <1>7, <1>8, <1>9, <1>10, <1>11, <1>12

(* A task resumed before its timeout stays on the list until it runs.      *)
LEMMA ResumeSleepers ==
  ASSUME Core, WaitsKept, SleepersExact, NEW t \in Tasks,
         \/ ResumeLock(t) \/ ResumeOne(t) \/ ResumeUnlock(t) \/ ResumeYield(t)
         \/ ResumeReturn(t)
  PROVE  SleepersExact'
<1>0. Control /\ StateTypeOK /\ DataTypes /\ CallArguments
  BY DEF Core, Control
<1>1. CASE ResumeOne(t)
  <2>1. UNCHANGED <<pc, sleep_task_list, timeout>>
    BY <1>1 DEF ResumeOne
  <2>2. PICK w, c : w = Head(suspend_list[resuming[t].cond]) /\ c = resuming[t].cond
    OBVIOUS
  <2>3. CASE ~ IsWaiting(w, c)
    <3>1. UNCHANGED <<state, resume_from>>
      BY <1>1, <2>2, <2>3 DEF ResumeOne
    <3> QED  BY <2>1, <3>1, SleepersHalt
  <2>4. CASE IsWaiting(w, c)
    <3>1. w \in Tasks
      BY <1>0, <1>1, <2>2, ArgumentsResuming, ResumedTask DEF DataTypes
    <3>2. Waiting(w)
      BY <1>0, <2>4, <3>1, WaitingTask
    <3>3. YieldSystem(w)
      BY <1>1, <2>2, <2>4 DEF ResumeOne
    <3>4. /\ state'[w] = "RESUME" /\ resume_from'[w] = "SYSTEM"
          /\ \A u \in Tasks : u # w => state'[u] = state[u] /\ resume_from'[u] = resume_from[u]
      BY <1>0, <3>1, <3>3, YieldSystemTypes
    <3>5. Point(w, 1) \in {"pend", "back"}
      BY <3>1, <3>2 DEF Waiting, WaitsKept, WaitForm
    <3>6. CallsKept(w) /\ Point(w, 1)' = Point(w, 1)
      BY <2>1, <3>1, PointsStay DEF Point
    <3>7. Calling(w, "sc_woke")' /\ Calling(w, "sc_woke") /\ Suspended(w)
      BY <3>2, <3>6 DEF CallsKept, Waiting
    <3>8. TimedWait(w)' <=> TimedWait(w)
      BY <2>1 DEF TimedWait, MAX_WAIT
    <3>9. SleepKept(w)
      BY <3>4, <3>5, <3>6, <3>7, <3>8 DEF SleepKept, Asleep
    <3>10. ASSUME NEW u \in Tasks, u # w
           PROVE  SleepKept(u)
      BY <2>1, <3>4, <3>10, SleepOthers DEF Point
    <3> QED  BY <2>1, <3>9, <3>10, SleepersStay
  <2> QED  BY <2>3, <2>4
<1>2. CASE ResumeLock(t) \/ ResumeUnlock(t) \/ ResumeYield(t) \/ ResumeReturn(t)
  <2>1. UNCHANGED <<state, resume_from, sleep_task_list, timeout>>
    BY <1>2 DEF ResumeLock, ResumeUnlock, ResumeYield, ResumeReturn, lists, condVars, suspendVars
  <2>2. PICK label \in ResumeLabels : At(t, label)
    BY <1>2 DEF ResumeLock, ResumeUnlock, ResumeYield, ResumeReturn, ResumeLabels
  <2>3. PICK p : p = Point(t, 2)
    OBVIOUS
  <2>4. /\ Point(t, 1) \in ResumeLabels /\ Point(t, 2) = p /\ Point(t, 3) = "user"
        /\ p \in {"unlock", "sd_clear"} /\ state[t] = "RUNNING"
    BY <1>0, <2>2, <2>3, ResumePoint
  <2>5. ~ Calling(t, "sc_woke") /\ Point(t, 1) \notin SleepTops
    BY <2>4, CallingIs DEF ResumeLabels, SleepTops
  <2>6. \/ NewStack(t, "rc_loop", p, "user") \/ NewStack(t, "unlock", "rc_yield", p)
        \/ NewStack(t, "pend", "rc_back", p) \/ NewStack(t, "rc_back", p, "user")
        \/ NewStack(t, p, "user", "user")
    BY <1>0, <1>2, <2>3, ResumeLockControl, ResumeUnlockControl, ResumeYieldControl,
       ResumeReturnControl
  <2>7. PICK a, b, c : /\ NewStack(t, a, b, c)
                       /\ {a, b, c} \subseteq {"rc_loop", "rc_back", "rc_yield", "unlock", "pend",
                                               "user", "sd_clear"}
    BY <2>4, <2>6
  <2>8. a \notin SleepTops \cup {"sc_woke"} /\ b # "sc_woke" /\ c # "sc_woke"
    BY <2>7 DEF SleepTops
  <2> QED  BY <1>0, <2>1, <2>4, <2>5, <2>7, <2>8, AwakeStep
<1> QED  BY <1>1, <1>2

LEMMA SemaphoreSleepers ==
  ASSUME Core, SleepersExact, NEW t \in Tasks, SemaphoreCall(t) \/ SemaphoreUse(t)
  PROVE  SleepersExact'
<1>0. Control /\ StateTypeOK
  BY DEF Core, Control
<1>1. UNCHANGED <<state, resume_from, sleep_task_list, timeout>>
  BY DEF SemaphoreCall, ObtainTest, ObtainTake, ReleaseIncrement, DestroyClear,
         SemaphoreUse, semaphore_obtain, semaphore_release, semaphore_destroy, EnterLocked,
         lists, condVars, suspendVars
<1>2. /\ Point(t, 1) \in SemaphoreLabels \cup {"user"} /\ Point(t, 2) = "user" /\ Point(t, 3) = "user"
      /\ state[t] = "RUNNING"
  <2>1. CASE SemaphoreCall(t)
    <3>1. PICK label \in SemaphoreLabels : At(t, label)
      BY <2>1 DEF SemaphoreCall, ObtainTest, ObtainTake, ReleaseIncrement, DestroyClear,
                  SemaphoreLabels
    <3> QED  BY <1>0, <3>1, SemaphorePoint
  <2>2. CASE SemaphoreUse(t)
    <3>1. InUser(t)
      BY <2>2 DEF SemaphoreUse, semaphore_obtain, semaphore_release, semaphore_destroy,
                  EnterLocked
    <3> QED  BY <1>0, <3>1, UserFacts
  <2> QED  BY <2>1, <2>2
<1>3. ~ Calling(t, "sc_woke") /\ Point(t, 1) \notin SleepTops
  BY <1>2, CallingIs DEF SemaphoreLabels, SleepTops
<1>4. ASSUME NEW a, NEW b, NEW c, NewStack(t, a, b, c),
             {a, b, c} \subseteq {"user", "so_test", "so_take", "sc_timeout", "unlock", "sr_inc",
                                  "rc_lock", "sd_clear"}
      PROVE  SleepersExact'
  <2>1. a \notin SleepTops \cup {"sc_woke"} /\ b # "sc_woke" /\ c # "sc_woke"
    BY <1>4 DEF SleepTops
  <2> QED  BY <1>0, <1>1, <1>2, <1>3, <1>4, <2>1, AwakeStep
<1>5. CASE UNCHANGED pc
  BY <1>1, <1>5, SleepersHalt
<1>6. CASE SemaphoreCall(t)
  BY <1>0, <1>4, <1>5, <1>6, ObtainTestControl, ObtainTakeControl, IncrementControl, ClearControl
     DEF SemaphoreCall
<1>7. ASSUME NEW s, NEW label \in {"so_test", "sr_inc"}, EnterLocked(t, s, label)
      PROVE  SleepersExact'
  BY <1>0, <1>4, <1>7, EnterControl
<1>8. CASE SemaphoreUse(t)
  <2>1. PICK s \in Conditions :
          \/ \E w \in Waits : semaphore_obtain(t, s, w)
          \/ semaphore_release(t, s)
          \/ semaphore_destroy(t, s)
    BY <1>8 DEF SemaphoreUse
  <2>2. CASE \E w \in Waits : semaphore_obtain(t, s, w)
    BY <1>7, <2>2 DEF semaphore_obtain
  <2>3. CASE semaphore_release(t, s)
    BY <1>5, <1>7, <2>3 DEF semaphore_release
  <2>4. CASE semaphore_destroy(t, s)
    BY <1>0, <1>4, <2>4, DestroyControl
  <2> QED  BY <2>1, <2>2, <2>3, <2>4
<1> QED  BY <1>6, <1>8

LEMMA SleepersStep ==
  ASSUME Core, ReadyOK, WaitsKept, SleepersExact, [SemNext]_vars
  PROVE  SleepersExact'
<1>1. CASE UNCHANGED vars
  <2>1. UNCHANGED <<pc, state, resume_from, sleep_task_list, timeout>>
    BY <1>1 DEF vars, kernelVars, lists, condVars, suspendVars
  <2> QED  BY <2>1, SleepersHalt
<1>2. CASE SemNext
  <2>1. CASE SemBoot \/ SemPendSV \/ SemTick
    BY <2>1, SystemSleepers DEF SemBoot, SemPendSV, SemTick, ConditionTick
  <2>2. ASSUME NEW t \in Tasks, KernelCall(t) \/ UserCall(t), UNCHANGED condVars
        PROVE  SleepersExact'
    BY <2>2, KernelSleepers
  <2>3. ASSUME NEW t \in Tasks, ConditionCall(t)
        PROVE  SleepersExact'
    BY <2>3, SuspendSleepers, ResumeSleepers DEF ConditionCall
  <2>4. ASSUME NEW t \in Tasks, SemaphoreCall(t) \/ SemaphoreUse(t)
        PROVE  SleepersExact'
    BY <2>4, SemaphoreSleepers
  <2> QED  BY <1>2, <2>1, <2>2, <2>3, <2>4 DEF SemNext, CallStep
<1> QED  BY <1>1, <1>2

LEMMA SleepersInit ==
  ASSUME SemInit
  PROVE  SleepersExact
<1>1. sleep_task_list = <<>> /\ pc = [t \in Tasks |-> <<"user">>]
      /\ state = [t \in Tasks |-> IF t = Idle THEN "RESUME" ELSE "FINISHED"]
  BY DEF SemInit, Init
<1>2. NoDuplicates(<<>>) /\ ToSet(<<>>) = {}
  BY DEF NoDuplicates, ToSet
<1>3. ASSUME NEW t \in Tasks
      PROVE  ~ Asleep(t) /\ Point(t, 1) # "sc_insert"
  <2>1. \A i \in 1 .. 3 : Point(t, i) = "user"
    BY <1>1 DEF Point
  <2>2. ~ Calling(t, "sc_woke") /\ Point(t, 1) = "user"
    BY <2>1 DEF Calling
  <2> QED  BY <1>1, <2>2 DEF Asleep, Suspended
<1> QED  BY <1>1, <1>2, <1>3 DEF SleepersExact

(* SleepersExact: the sleep list holds exactly the tasks inside            *)
(* sleep_ticks and the timed waits of suspend_condition from               *)
(* sleep_add_to_list until sleep_remove_from_list or the wake-up.          *)
THEOREM SleepersAlwaysExact == SemSpec => []SleepersExact
<1>1. SemInit => Sound /\ SleepersExact
  BY SoundInit, SleepersInit
<1>2. Sound /\ SleepersExact /\ [SemNext]_vars => (Sound /\ SleepersExact)'
  BY SoundStep, SleepersStep DEF Sound
<1> QED  BY <1>1, <1>2, PTL DEF SemSpec

(* NoSleeperRuns: no task is back in its application while it is still on  *)
(* the sleep list.                                                         *)
THEOREM SleepersLeave == SemSpec => []NoSleeperRuns
<1>1. SemInit => Sound /\ SleepersExact
  BY SoundInit, SleepersInit
<1>2. Sound /\ SleepersExact /\ [SemNext]_vars => (Sound /\ SleepersExact)'
  BY SoundStep, SleepersStep DEF Sound
<1>3. ASSUME Sound, SleepersExact
      PROVE  NoSleeperRuns
  <2>1. Control /\ Core /\ WaitsKept /\ Stacks /\ sleep_task_list \in Seq(Tasks)
    BY <1>3 DEF Sound, Core, Control, StateTypeOK
  <2>2. ASSUME NEW t \in ToSet(sleep_task_list)
        PROVE  Head(pc[t]) # "user"
    <3>1. t \in Tasks
      BY <2>1, ToSetTasks
    <3>2. Asleep(t)
      BY <1>3, <3>1 DEF SleepersExact
    <3>3. Suspended(t) => Point(t, 1) # "user"
      BY <2>1, <3>1 DEF WaitsKept, WaitForm
    <3>4. Calling(t, "sc_woke") => Point(t, 1) # "user"
      BY <2>1, <3>1, WokeStack
    <3>5. Point(t, 1) # "user"
      BY <3>2, <3>3, <3>4 DEF Asleep
    <3> QED  BY <2>1, <3>1, <3>5, TaskStack
  <2> QED  BY <1>3, <2>2 DEF NoSleeperRuns, SleepersExact
<1> QED  BY <1>1, <1>2, <1>3, PTL DEF SemSpec

----------------------------------------------------------------------------
(* Interrupts.                                                             *)

(* A step of the task that has the CPU.                                    *)
LEMMA InterruptsMove ==
  ASSUME SemInterrupts, NEW t \in Tasks, UNCHANGED current_task, current_task = t,
         \A u \in Tasks : u # t =>
           /\ Point(u, 1)' = Point(u, 1) /\ Point(u, 2)' = Point(u, 2)
           /\ Point(u, 3)' = Point(u, 3) /\ level'[u] = level[u],
         mode' = "task" /\ ~ interrupts' => Calling(t, "sd_clear")',
         Point(t, 1)' \in {"pend", "back"} /\ ~ level'[t] => Calling(t, "sd_clear")'
  PROVE  SemInterrupts'
<1>1. ASSUME NEW u \in Tasks, Point(u, 1)' \in {"pend", "back"}, ~ level'[u]
      PROVE  Calling(u, "sd_clear")'
  <2>1. CASE u = t
    BY <1>1, <2>1
  <2>2. CASE u # t
    <3>1. Calling(u, "sd_clear")' <=> Calling(u, "sd_clear")
      BY <2>2, SamePoints
    <3> QED  BY <1>1, <2>2, <3>1 DEF SemInterrupts
  <2> QED  BY <2>1, <2>2
<1>2. mode' = "task" /\ ~ interrupts' => Calling(current_task, "sd_clear")'
  OBVIOUS
<1> QED  BY <1>1, <1>2 DEF SemInterrupts

(* A step that leaves the interrupts alone, inside its function.           *)
LEMMA InterruptsStay ==
  ASSUME SemInterrupts, NEW t \in Tasks, UNCHANGED <<current_task, interrupts, level>>,
         current_task = t, mode = "task",
         NEW a, NEW b, NEW c, NewStack(t, a, b, c),
         Calling(t, "sd_clear") => "sd_clear" \in {a, b, c},
         a \in {"pend", "back"} => Point(t, 1) \in {"pend", "back"}
  PROVE  SemInterrupts'
<1>1. Calling(t, "sd_clear") => Calling(t, "sd_clear")'
  BY NewCalling
<1>2. Point(t, 1)' = a
  BY DEF NewStack
<1>3. mode' = "task" /\ ~ interrupts' => Calling(t, "sd_clear")'
  BY <1>1 DEF SemInterrupts
<1>4. Point(t, 1)' \in {"pend", "back"} /\ ~ level'[t] => Calling(t, "sd_clear")'
  BY <1>1, <1>2 DEF SemInterrupts
<1> QED  BY <1>3, <1>4, InterruptsMove DEF NewStack

(* A step that changes no stack.                                           *)
LEMMA InterruptsSame ==
  ASSUME SemInterrupts, UNCHANGED <<pc, level>>,
         \/ UNCHANGED <<mode, interrupts, current_task>>
         \/ mode' # "task" \/ interrupts'
  PROVE  SemInterrupts'
<1>1. \A u : \A i : Point(u, i)' = Point(u, i)
  BY DEF Point
<1>2. \A u : Calling(u, "sd_clear")' <=> Calling(u, "sd_clear")
  BY <1>1, SamePoints
<1> QED  BY <1>1, <1>2 DEF SemInterrupts

LEMMA SystemInterrupts ==
  ASSUME SemInterrupts, Boot \/ PendSV \/ isr_sysclock_handle
  PROVE  SemInterrupts'
<1>1. UNCHANGED <<pc, level>>
  BY DEF Boot, BootAdd, run_first_task, PendSV, SaveCurrent, sleep_process_system_tick,
         LoadNext, isr_sysclock_handle
<1>2. \/ UNCHANGED <<mode, interrupts, current_task>>
      \/ mode' # "task" \/ interrupts'
  <2>1. SwitchToNext => mode' # "task" \/ interrupts'
    BY DEF SwitchToNext, Halt
  <2>2. Preempt => mode' # "task" \/ UNCHANGED <<mode, interrupts>>
    BY DEF Preempt, Halt
  <2> QED  BY <2>1, <2>2 DEF Boot, BootAdd, run_first_task, PendSV, SaveCurrent,
              sleep_process_system_tick, LoadNext, isr_sysclock_handle, cpuVars
<1> QED  BY <1>1, <1>2, InterruptsSame

(* CONTROL_TO_SYSTEM saves the level of a task that enters the switch.     *)
LEMMA InterruptsSwitch ==
  ASSUME SemInterrupts, level \in [Tasks -> BOOLEAN], NEW t \in Tasks, UNCHANGED current_task,
         current_task = t, mode = "task", ControlToSystem(t, interrupts),
         NEW b, NEW c, NewStack(t, "pend", b, c),
         Calling(t, "sd_clear") => "sd_clear" \in {b, c}
  PROVE  SemInterrupts'
<1>1. /\ interrupts' /\ level'[t] = interrupts
      /\ \A u \in Tasks : u # t => level'[u] = level[u]
  BY DEF ControlToSystem
<1>2. Calling(t, "sd_clear") => Calling(t, "sd_clear")'
  BY NewCalling
<1>3. ~ level'[t] => Calling(t, "sd_clear")'
  BY <1>1, <1>2 DEF SemInterrupts
<1> QED  BY <1>1, <1>3, InterruptsMove DEF NewStack

LEMMA KernelInterrupts ==
  ASSUME MayFinish = {}, Control, SemInterrupts, NEW t \in Tasks, KernelCall(t) \/ UserCall(t)
  PROVE  SemInterrupts'
<1>0. Stacks /\ level \in [Tasks -> BOOLEAN] /\ UNCHANGED current_task
  BY DEF Control, StateTypeOK, KernelCall, PEND_SV, RestoreLevel, scheduler_unlock, UnlockYield,
         SleepAdd, SleepInsert, SleepSuspend, UserCall, scheduler_lock, UserUnlock, task_yield,
         sleep_ticks, task_entry_return, scheduler_task_add, cpuVars
<1>1. PICK p1, p2, p3 : p1 = Point(t, 1) /\ p2 = Point(t, 2) /\ p3 = Point(t, 3)
  OBVIOUS
<1>2. /\ StackForm(p1, p2, p3)
      /\ Calling(t, "sd_clear") <=> p1 = "sd_clear" \/ p2 = "sd_clear" \/ p3 = "sd_clear"
  BY <1>0, <1>1, TaskStack, CallingIs
<1>3. ASSUME NEW label, At(t, label)
      PROVE  mode = "task" /\ current_task = t /\ p1 = label
  BY <1>1, <1>3, ExecFacts
<1>4. CASE PEND_SV(t)
  <2>1. At(t, "pend") /\ UNCHANGED <<interrupts, level>>
    BY <1>4 DEF PEND_SV
  <2>2. NewStack(t, "back", p2, p3)
    BY <1>1, <1>4, PendControl
  <2> QED  BY <1>0, <1>1, <1>2, <1>3, <2>1, <2>2, InterruptsStay
<1>5. CASE RestoreLevel(t)
  <2>1. At(t, "back") /\ interrupts' = level[t] /\ UNCHANGED level
    BY <1>5 DEF RestoreLevel
  <2>2. NewStack(t, p2, p3, "user")
    BY <1>1, <1>5, RestoreControl
  <2>3. mode = "task" /\ current_task = t /\ p1 = "back"
    BY <1>3, <2>1
  <2>4. Calling(t, "sd_clear") => Calling(t, "sd_clear")'
    BY <1>2, <2>2, <2>3, NewCalling
  <2>5. ~ interrupts' => Calling(t, "sd_clear")'
    BY <1>1, <2>1, <2>3, <2>4 DEF SemInterrupts
  <2>6. Point(t, 1)' \notin {"pend", "back"}
    <3>1. p2 \notin {"pend", "back"}
      BY <1>2, <2>3 DEF StackForm
    <3> QED  BY <2>2, <3>1 DEF NewStack
  <2> QED  BY <1>0, <2>1, <2>2, <2>3, <2>5, <2>6, InterruptsMove DEF NewStack
<1>6. CASE scheduler_unlock(t)
  <2>1. At(t, "unlock") /\ UNCHANGED level
    BY <1>6 DEF scheduler_unlock
  <2>2. NewStack(t, "drift", p2, p3)
    BY <1>1, <1>6, UnlockControl
  <2>3. mode' # "task" \/ UNCHANGED interrupts
    BY <1>6 DEF scheduler_unlock, Halt
  <2>4. mode = "task" /\ current_task = t /\ p1 = "unlock"
    BY <1>3, <2>1
  <2>5. Calling(t, "sd_clear") => Calling(t, "sd_clear")'
    BY <1>2, <2>2, <2>4, NewCalling
  <2>6. mode' = "task" /\ ~ interrupts' => Calling(t, "sd_clear")'
    BY <2>3, <2>4, <2>5 DEF SemInterrupts
  <2> QED  BY <1>0, <2>1, <2>2, <2>4, <2>6, InterruptsMove DEF NewStack
<1>7. CASE UnlockYield(t)
  <2>1. At(t, "drift")
    BY <1>7 DEF UnlockYield
  <2>2. mode = "task" /\ current_task = t /\ p1 = "drift"
    BY <1>3, <2>1
  <2>3. CASE lock_count[t] = 0 /\ drift[t]
    <3>1. ControlToSystem(t, interrupts) /\ Go(t, <<"pend">>)
      BY <1>7, <2>3 DEF UnlockYield
    <3>2. "pend" \in Above(p2) /\ p1 # "user"
      <4>1. p2 # "sc_done"
        <5>1. ASSUME p2 = "sc_done"
              PROVE  p3 = "so_take"
          BY <1>2, <2>2, <5>1 DEF StackForm
        <5>2. Owes("so_take") = 1
          BY DEF Owes, Owing
        <5>3. lock_count[t] >= Owes(p1) + Owes(p2) + Owes(p3) /\ \A label : Owes(label) \in {0, 1}
          BY <1>1, LockFacts
        <5> QED  BY <2>3, <5>1, <5>2, <5>3
      <4>2. p2 \in {"user", "unlock", "sc_woke", "rc_yield", "rc_back"}
        BY <1>2, <2>2, <4>1 DEF StackForm, Labels, SuspendLabels, ConditionLabels, ResumeLabels
      <4> QED  BY <2>2, <4>2, AboveIs DEF Labels
    <3>3. NewStack(t, "pend", p2, p3)
      BY <1>0, <1>1, <3>1, <3>2, GoStep
    <3> QED  BY <1>0, <1>2, <2>2, <3>1, <3>3, InterruptsSwitch
  <2>4. CASE ~ (lock_count[t] = 0 /\ drift[t])
    <3>1. Go(t, <<>>) /\ UNCHANGED <<interrupts, level>>
      BY <1>7, <2>4 DEF UnlockYield
    <3>2. NewStack(t, p2, p3, "user")
      BY <1>0, <1>1, <2>2, <3>1, GoPop
    <3>3. p2 \notin {"pend", "back"}
      BY <1>2, <2>2 DEF StackForm
    <3> QED  BY <1>0, <1>2, <2>2, <3>1, <3>2, <3>3, InterruptsStay
  <2> QED  BY <2>3, <2>4
<1>8. CASE SleepAdd(t) \/ SleepInsert(t)
  <2>1. PICK label \in {"sl_add", "sl_insert"} : At(t, label)
    BY <1>8 DEF SleepAdd, SleepInsert
  <2>2. UNCHANGED <<interrupts, level>>
    BY <1>8 DEF SleepAdd, SleepInsert, cpuVars
  <2>3. PICK a \in {"sl_insert", "sl_suspend"} : NewStack(t, a, p2, p3)
    BY <1>1, <1>8, SleepStepControl
  <2> QED  BY <1>0, <1>2, <1>3, <2>1, <2>2, <2>3, InterruptsStay
<1>9. CASE SleepSuspend(t)
  <2>1. At(t, "sl_suspend") /\ ControlToSystem(t, interrupts)
    BY <1>9 DEF SleepSuspend
  <2>2. NewStack(t, "pend", "unlock", "user")
    BY <1>9, SleepSuspendControl
  <2>3. mode = "task" /\ current_task = t /\ p1 = "sl_suspend"
    BY <1>3, <2>1
  <2>4. ~ Calling(t, "sd_clear")
    BY <1>2, <2>3 DEF StackForm, SuspendLabels, ConditionLabels, ResumeLabels
  <2> QED  BY <1>0, <2>1, <2>2, <2>3, <2>4, InterruptsSwitch
<1>10. CASE UserCall(t)
  <2>1. InUser(t)
    BY <1>10 DEF UserCall, scheduler_lock, UserUnlock, task_yield, sleep_ticks,
                 task_entry_return, scheduler_task_add
  <2>2. /\ mode = "task" /\ current_task = t /\ ~ Calling(t, "sd_clear")
    BY <2>1, UserFacts, CallingIs
  <2>3. CASE UNCHANGED <<pc, interrupts, level>>
    <3>1. \/ UNCHANGED <<mode, interrupts, current_task>> \/ mode' # "task"
      BY <1>0, <1>10, <2>3 DEF UserCall, scheduler_lock, UserUnlock, task_yield, sleep_ticks,
                         task_entry_return, scheduler_task_add, Halt, cpuVars
    <3> QED  BY <2>3, <3>1, InterruptsSame
  <2>4. ASSUME NEW a \in {"unlock", "sl_add"}, NewStack(t, a, "user", "user"), UNCHANGED level,
               UNCHANGED interrupts
        PROVE  SemInterrupts'
    BY <1>0, <2>2, <2>4, InterruptsStay
  <2>5. CASE scheduler_lock(t)
    <3>1. UNCHANGED <<pc, level>>
      BY <2>5 DEF scheduler_lock
    <3>2. \/ UNCHANGED <<mode, interrupts, current_task>> \/ mode' # "task"
      BY <1>0, <2>5 DEF scheduler_lock, Halt
    <3> QED  BY <3>1, <3>2, InterruptsSame
  <2>6. CASE UserUnlock(t)
    <3>1. UNCHANGED <<interrupts, level>>
      BY <2>6 DEF UserUnlock, cpuVars
    <3> QED  BY <2>4, <2>6, <3>1, UserUnlockControl
  <2>7. CASE task_yield(t)
    <3>1. CASE lock_count[t] = 0
      <4>1. ControlToSystem(t, interrupts) /\ Go(t, <<"pend", "user">>)
        BY <2>7, <3>1 DEF task_yield
      <4>2. NewStack(t, "pend", "user", "user")
        <5>1. Point(t, 1) = "user" /\ "pend" \in Above("user")
          BY <2>1, UserFacts, AboveIs DEF Labels
        <5> QED  BY <1>0, <4>1, <5>1, GoCall
      <4> QED  BY <1>0, <2>2, <4>1, <4>2, InterruptsSwitch
    <3>2. CASE lock_count[t] # 0
      BY <2>3, <2>7, <3>2 DEF task_yield
    <3> QED  BY <3>1, <3>2
  <2>8. ASSUME NEW n \in Delays[t], sleep_ticks(t, n)
        PROVE  SemInterrupts'
    <3>1. UNCHANGED level /\ (mode' # "task" \/ UNCHANGED interrupts)
      BY <2>8 DEF sleep_ticks, Halt
    <3>2. NewStack(t, "sl_add", "user", "user")
      BY <2>8, SleepTicksControl
    <3>3. mode' = "task" => interrupts'
      BY <2>2, <3>1 DEF SemInterrupts
    <3> QED  BY <1>0, <2>2, <3>1, <3>2, <3>3, InterruptsMove DEF NewStack
  <2>9. ~ task_entry_return(t)
    BY DEF task_entry_return
  <2>10. ASSUME NEW new \in Tasks, scheduler_task_add(t, new)
         PROVE  SemInterrupts'
    BY <2>3, <2>10 DEF scheduler_task_add, cpuVars
  <2> QED  BY <1>10, <2>5, <2>6, <2>7, <2>8, <2>9, <2>10 DEF UserCall
<1> QED  BY <1>4, <1>5, <1>6, <1>7, <1>8, <1>9, <1>10 DEF KernelCall

(* suspend_condition: the task holds no semaphore that it destroys.        *)
LEMMA SuspendInterrupts ==
  ASSUME Core, SemInterrupts, NEW t \in Tasks,
         \/ suspend_timeout_get_min(t) \/ suspend_do_suspend(t)
         \/ suspend_condition_add_task(t) \/ SuspendLock(t)
         \/ SuspendSleep(t) \/ SuspendInsert(t) \/ SuspendSwitch(t) \/ SuspendWoke(t)
         \/ suspend_condition_remove_all(t) \/ suspend_condition_remove(t)
         \/ SuspendReturn(t)
  PROVE  SemInterrupts'
<1>0. Control /\ level \in [Tasks -> BOOLEAN] /\ timeout \in [Tasks -> 0 .. MAX_WAIT]
  BY DEF Core, Control, StateTypeOK, DataTypes
<1>1. PICK label \in {"sc_timeout", "sc_check", "sc_append", "sc_lock", "sc_sleep", "sc_insert",
                      "sc_suspend", "sc_woke", "sc_done", "sc_end"} : At(t, label)
  BY DEF suspend_timeout_get_min, suspend_do_suspend, suspend_condition_add_task, SuspendLock,
         SuspendSleep, SuspendInsert, SuspendSwitch, SuspendWoke, suspend_condition_remove_all,
         suspend_condition_remove, SuspendReturn
<1>2. Point(t, 1) = label /\ Point(t, 2) = "so_take" /\ Point(t, 3) = "user"
  BY <1>0, <1>1, InSuspendAt
<1>3. mode = "task" /\ current_task = t
  BY <1>0, <1>1, ExecFacts
<1>4. ~ Calling(t, "sd_clear") /\ UNCHANGED current_task
  <2>1. UNCHANGED current_task
    BY DEF suspend_timeout_get_min, suspend_do_suspend, suspend_condition_add_task, SuspendLock,
           SuspendSleep, SuspendInsert, SuspendSwitch, SuspendWoke, suspend_condition_remove_all,
           suspend_condition_remove, SuspendReturn, cpuVars
  <2> QED  BY <1>2, <2>1, CallingIs
<1>5. CASE SuspendSwitch(t)
  <2>1. ControlToSystem(t, interrupts)
    BY <1>5 DEF SuspendSwitch
  <2>2. NewStack(t, "pend", "sc_woke", "so_take")
    BY <1>0, <1>5, SuspendSwitchControl
  <2> QED  BY <1>0, <1>3, <1>4, <2>1, <2>2, InterruptsSwitch
<1>6. CASE ~ SuspendSwitch(t)
  <2>1. UNCHANGED level /\ (UNCHANGED <<mode, interrupts>> \/ mode' = "assert")
    BY <1>6 DEF suspend_timeout_get_min, suspend_do_suspend, suspend_condition_add_task,
           SuspendLock, SuspendSleep, SuspendInsert, SuspendWoke, suspend_condition_remove_all,
           suspend_condition_remove, SuspendReturn, cpuVars, Halt
  <2>2. CASE UNCHANGED pc
    BY <1>4, <2>1, <2>2, InterruptsSame
  <2>3. CASE \E a \in AllLabels \ {"pend", "back"}, b \in AllLabels, c \in AllLabels : NewStack(t, a, b, c)
    <3>1. PICK a, b, c : NewStack(t, a, b, c) /\ a \notin {"pend", "back"}
      BY <2>3
    <3>2. mode' = "task" => interrupts'
      BY <1>3, <1>4, <2>1 DEF SemInterrupts
    <3> QED  BY <1>3, <1>4, <2>1, <3>1, <3>2, InterruptsMove DEF NewStack
  <2>4. UNCHANGED pc \/ \E a \in {"sc_check", "sc_append", "sc_end", "sc_lock", "sc_sleep",
                                  "sc_insert", "sc_suspend", "unlock", "so_take"} :
                           \E b, c \in {"so_take", "sc_done", "user"} : NewStack(t, a, b, c)
    BY <1>0, <1>6, GetMinControl, DoSuspendControl, AddTaskControl, SuspendLockControl,
       SuspendSleepControl, SuspendInsertControl, WokeControl, RemoveAllControl, RemoveControl,
       ReturnControl
  <2> QED  BY <2>2, <2>3, <2>4 DEF AllLabels, Labels, ConditionLabels, SemaphoreLabels
<1> QED  BY <1>5, <1>6

(* resume_condition: semaphore_destroy is called back.                     *)
LEMMA ResumeInterrupts ==
  ASSUME Core, SemInterrupts, NEW t \in Tasks,
         \/ ResumeLock(t) \/ ResumeOne(t) \/ ResumeUnlock(t) \/ ResumeYield(t)
         \/ ResumeReturn(t)
  PROVE  SemInterrupts'
<1>0. Control /\ level \in [Tasks -> BOOLEAN] /\ UNCHANGED current_task
  BY DEF Core, Control, StateTypeOK, ResumeLock, ResumeOne, ResumeUnlock, ResumeYield,
         ResumeReturn, cpuVars
<1>1. CASE ResumeOne(t)
  <2>1. UNCHANGED <<pc, level, mode, interrupts, current_task>>
    BY <1>1 DEF ResumeOne, cpuVars
  <2> QED  BY <2>1, InterruptsSame
<1>2. CASE ~ ResumeOne(t)
  <2>1. PICK label \in ResumeLabels : At(t, label)
    BY <1>2 DEF ResumeLock, ResumeUnlock, ResumeYield, ResumeReturn, ResumeLabels
  <2>2. PICK p : p = Point(t, 2)
    OBVIOUS
  <2>3. /\ mode = "task" /\ current_task = t
        /\ Point(t, 1) \in ResumeLabels /\ p \in {"unlock", "sd_clear"} /\ Point(t, 3) = "user"
    BY <1>0, <2>1, <2>2, ResumePoint
  <2>4. Calling(t, "sd_clear") => p = "sd_clear"
    BY <2>2, <2>3, CallingIs DEF ResumeLabels
  <2>5. CASE NewStack(t, "pend", "rc_back", p)
    <3>1. ResumeYield(t)
      BY <1>0, <1>2, <2>2, <2>3, <2>5, ResumeLockControl, ResumeUnlockControl,
         ResumeReturnControl DEF NewStack
    <3>2. ControlToSystem(t, interrupts)
      <4>1. ASSUME Go(t, <<"rc_back">>)
            PROVE  FALSE
        <5>1. "rc_back" \in Above(p) /\ Point(t, 1) # "user" /\ Stacks
          BY <1>0, <2>3, AboveIs DEF ResumeLabels, Control
        <5>2. Point(t, 1)' = "rc_back"
          BY <2>2, <2>3, <4>1, <5>1, GoStep DEF NewStack
        <5> QED  BY <2>5, <5>2 DEF NewStack
      <4> QED  BY <3>1, <4>1 DEF ResumeYield
    <3> QED  BY <1>0, <2>3, <2>4, <2>5, <3>2, InterruptsSwitch
  <2>6. CASE ~ NewStack(t, "pend", "rc_back", p)
    <3>1. \/ NewStack(t, "rc_loop", p, "user") \/ NewStack(t, "unlock", "rc_yield", p)
          \/ NewStack(t, "rc_back", p, "user") \/ NewStack(t, p, "user", "user")
      BY <1>0, <1>2, <2>2, <2>6, ResumeLockControl, ResumeUnlockControl, ResumeYieldControl,
         ResumeReturnControl
    <3>2. PICK a, b, c : /\ NewStack(t, a, b, c) /\ p \in {a, b, c}
                         /\ a \notin {"pend", "back"}
      BY <2>3, <3>1
    <3>3. UNCHANGED level /\ (UNCHANGED <<mode, interrupts>> \/ mode' = "assert")
      <4>1. CASE ResumeYield(t)
        <5>1. ~ Go(t, <<"pend", "rc_back">>)
          <6>1. ASSUME Go(t, <<"pend", "rc_back">>)
                PROVE  FALSE
            <7>1. /\ "rc_back" \in Above(p) /\ "pend" \in Above("rc_back")
                  /\ Point(t, 1) # "user" /\ Stacks
              BY <1>0, <2>3, AboveIs DEF ResumeLabels, Control
            <7> QED  BY <2>2, <2>3, <2>6, <6>1, <7>1, GoPush
          <6> QED  BY <6>1
        <5> QED  BY <4>1, <5>1 DEF ResumeYield
      <4>2. CASE ~ ResumeYield(t)
        BY <1>2, <4>2 DEF ResumeLock, ResumeUnlock, ResumeReturn, Halt, cpuVars
      <4> QED  BY <4>1, <4>2
    <3>4. mode' = "task" /\ ~ interrupts' => Calling(t, "sd_clear")'
      BY <2>3, <2>4, <3>2, <3>3, NewCalling DEF SemInterrupts
    <3> QED  BY <1>0, <2>3, <3>2, <3>3, <3>4, InterruptsMove DEF NewStack
  <2> QED  BY <2>5, <2>6
<1> QED  BY <1>1, <1>2

LEMMA SemaphoreInterrupts ==
  ASSUME Core, SemInterrupts, NEW t \in Tasks, SemaphoreCall(t) \/ SemaphoreUse(t)
  PROVE  SemInterrupts'
<1>0. Control /\ UNCHANGED <<level, current_task>>
  BY DEF Core, SemaphoreCall, ObtainTest, ObtainTake, ReleaseIncrement, DestroyClear,
         SemaphoreUse, semaphore_obtain, semaphore_release, semaphore_destroy, EnterLocked, cpuVars
<1>1. /\ mode = "task" /\ current_task = t
      /\ Point(t, 1) \in SemaphoreLabels \cup {"user"} /\ Point(t, 2) = "user" /\ Point(t, 3) = "user"
  <2>1. CASE SemaphoreCall(t)
    <3>1. PICK label \in SemaphoreLabels : At(t, label)
      BY <2>1 DEF SemaphoreCall, ObtainTest, ObtainTake, ReleaseIncrement, DestroyClear,
                  SemaphoreLabels
    <3> QED  BY <1>0, <3>1, SemaphorePoint
  <2>2. CASE SemaphoreUse(t)
    <3>1. InUser(t)
      BY <2>2 DEF SemaphoreUse, semaphore_obtain, semaphore_release, semaphore_destroy,
                  EnterLocked
    <3> QED  BY <1>0, <3>1, UserFacts
  <2> QED  BY <2>1, <2>2
<1>2. ASSUME NEW a, NEW b, NEW c, NewStack(t, a, b, c), a \notin {"pend", "back"},
             mode' = "task" /\ ~ interrupts' => "sd_clear" \in {a, b, c}
      PROVE  SemInterrupts'
  <2>1. mode' = "task" /\ ~ interrupts' => Calling(t, "sd_clear")'
    BY <1>2, NewCalling
  <2> QED  BY <1>0, <1>1, <1>2, <2>1, InterruptsMove DEF NewStack
<1>3. ASSUME Point(t, 1) # "sd_clear"
      PROVE  interrupts
  BY <1>1, <1>3, CallingIs DEF SemInterrupts
<1>4. ASSUME UNCHANGED pc, UNCHANGED <<mode, interrupts>> \/ mode' = "assert"
      PROVE  SemInterrupts'
  BY <1>0, <1>4, InterruptsSame
<1>5. CASE ObtainTest(t)
  <2>1. At(t, "so_test") /\ UNCHANGED <<mode, interrupts>>
    BY <1>5 DEF ObtainTest, cpuVars
  <2>2. interrupts'
    BY <1>0, <1>3, <2>1, ExecFacts
  <2> QED  BY <1>0, <1>2, <1>5, <2>2, ObtainTestControl
<1>6. CASE ObtainTake(t)
  <2>1. At(t, "so_take") /\ (UNCHANGED <<mode, interrupts>> \/ mode' = "assert")
    BY <1>6 DEF ObtainTake, Halt
  <2>2. mode' = "task" => interrupts'
    BY <1>0, <1>3, <2>1, ExecFacts
  <2> QED  BY <1>0, <1>2, <1>4, <1>6, <2>1, <2>2, ObtainTakeControl
<1>7. CASE ReleaseIncrement(t)
  <2>1. At(t, "sr_inc") /\ UNCHANGED <<mode, interrupts>>
    BY <1>7 DEF ReleaseIncrement, cpuVars
  <2>2. interrupts'
    BY <1>0, <1>3, <2>1, ExecFacts
  <2> QED  BY <1>0, <1>2, <1>7, <2>2, IncrementControl
<1>8. CASE DestroyClear(t)
  <2>1. interrupts'
    BY <1>8 DEF DestroyClear
  <2> QED  BY <1>0, <1>2, <1>8, <2>1, ClearControl
<1>9. ASSUME NEW s, NEW label \in {"so_test", "sr_inc"}, EnterLocked(t, s, label)
      PROVE  SemInterrupts'
  <2>1. InUser(t) /\ (UNCHANGED <<mode, interrupts>> \/ mode' = "assert")
    BY <1>9 DEF EnterLocked, Halt
  <2>2. mode' = "task" => interrupts'
    BY <1>0, <1>3, <2>1, UserFacts
  <2>3. NewStack(t, label, "user", "user")
    BY <1>0, <1>9, EnterControl
  <2> QED  BY <1>2, <2>2, <2>3
<1>10. CASE SemaphoreUse(t)
  <2>1. PICK s \in Conditions :
          \/ \E w \in Waits : semaphore_obtain(t, s, w)
          \/ semaphore_release(t, s)
          \/ semaphore_destroy(t, s)
    BY <1>10 DEF SemaphoreUse
  <2>2. CASE \E w \in Waits : semaphore_obtain(t, s, w)
    BY <1>9, <2>2 DEF semaphore_obtain
  <2>3. CASE semaphore_release(t, s)
    BY <1>4, <1>9, <2>3 DEF semaphore_release, Halt
  <2>4. CASE semaphore_destroy(t, s)
    BY <1>0, <1>2, <2>4, DestroyControl
  <2> QED  BY <2>1, <2>2, <2>3, <2>4
<1> QED  BY <1>5, <1>6, <1>7, <1>8, <1>10 DEF SemaphoreCall

LEMMA InterruptsStep ==
  ASSUME MayFinish = {}, Core, SemInterrupts, [SemNext]_vars
  PROVE  SemInterrupts'
<1>1. CASE UNCHANGED vars
  <2>1. UNCHANGED <<pc, level, mode, interrupts, current_task>>
    BY <1>1 DEF vars, kernelVars, cpuVars
  <2> QED  BY <2>1, InterruptsSame
<1>2. CASE SemNext
  <2>1. CASE SemBoot \/ SemPendSV \/ SemTick
    BY <2>1, SystemInterrupts DEF SemBoot, SemPendSV, SemTick, ConditionTick
  <2>2. ASSUME NEW t \in Tasks, KernelCall(t) \/ UserCall(t)
        PROVE  SemInterrupts'
    BY <2>2, KernelInterrupts DEF Core
  <2>3. ASSUME NEW t \in Tasks, ConditionCall(t)
        PROVE  SemInterrupts'
    BY <2>3, SuspendInterrupts, ResumeInterrupts DEF ConditionCall
  <2>4. ASSUME NEW t \in Tasks, SemaphoreCall(t) \/ SemaphoreUse(t)
        PROVE  SemInterrupts'
    BY <2>4, SemaphoreInterrupts
  <2> QED  BY <1>2, <2>1, <2>2, <2>3, <2>4 DEF SemNext, CallStep
<1> QED  BY <1>1, <1>2

LEMMA SemInterruptsHold ==
  ASSUME MayFinish = {}
  PROVE  SemSpec => []SemInterrupts
<1>1. SemInit => SemInterrupts
  BY DEF SemInit, Init, SemInterrupts
<1>2. Sound /\ SemInterrupts /\ [SemNext]_vars => SemInterrupts'
  BY InterruptsStep DEF Sound
<1> QED  BY <1>1, <1>2, SoundInit, SoundStep, PTL DEF SemSpec

(* InterruptsInTask: with every entry function a loop, interrupts are      *)
(* enabled whenever an application runs, whatever is destroyed meanwhile.  *)
THEOREM SemInterruptsEnabled ==
  ASSUME MayFinish = {}
  PROVE  SemSpec => []InterruptsInTask
<1>1. Sound /\ SemInterrupts => InterruptsInTask
  <2>1. ASSUME Sound, SemInterrupts, NEW t \in Tasks, InUser(t)
        PROVE  interrupts
    <3>1. /\ mode = "task" /\ current_task = t
          /\ Point(t, 1) = "user" /\ Point(t, 2) = "user" /\ Point(t, 3) = "user"
      BY <2>1, UserFacts DEF Sound, Core
    <3> QED  BY <2>1, <3>1, CallingIs DEF SemInterrupts
  <2> QED  BY <2>1 DEF InterruptsInTask
<1> QED  BY <1>1, SemInterruptsHold, SoundInit, SoundStep, PTL DEF SemSpec

----------------------------------------------------------------------------
(* No lost wake-up: nothing but a release ends a wait.                     *)

(* The part of OnlyReleases about the data of a wait.                      *)
Released(t) ==
  /\ timeout[t] = MAX_WAIT /\ wait[t] \in {0, MAX_WAIT}
  /\ ToSet(until[t]) \subseteq {NULL} /\ from[t] = "SYSTEM"
  /\ resuming[t].status = "SUCCESS"
  /\ \A c \in Conditions : susp_status[t][c] = "SUCCESS"

LEMMA ReleasesAre ==
  OnlyReleases <=> \A t \in Tasks : Released(t) /\ ~ TimedOut(t)
BY DEF OnlyReleases, Released, TimedWait

LEMMA ReleasesMake ==
  ASSUME \A t \in Tasks : Released(t)' /\ ~ TimedOut(t)'
  PROVE  OnlyReleases'
<1>1. \A t \in Tasks : timeout'[t] = MAX_WAIT => ~ TimedWait(t)'
  BY DEF TimedWait, MAX_WAIT
<1>2. \A t \in Tasks : Released(t)' => timeout'[t] = MAX_WAIT /\ wait'[t] \in {0, MAX_WAIT}
  BY DEF Released, MAX_WAIT
<1>3. \A t \in Tasks : wait'[t] \in {0, MAX_WAIT}' <=> wait'[t] \in {0, MAX_WAIT}
  BY DEF MAX_WAIT
<1> QED  BY <1>1, <1>2, <1>3 DEF OnlyReleases, Released

LEMMA ReleasedKept ==
  ASSUME NEW u, Released(u),
         timeout'[u] = timeout[u], wait'[u] = wait[u], until'[u] = until[u], from'[u] = from[u],
         resuming'[u].status = resuming[u].status, susp_status'[u] = susp_status[u]
  PROVE  Released(u)'
BY DEF Released, MAX_WAIT

(* The sleep ends no wait without a timeout.                               *)
LEMMA WakeKeepsWaits ==
  ASSUME Core, WaitsKept, SleepersExact, OnlyReleases, sleep_process_system_tick,
         UNCHANGED condVars
  PROVE  \A u \in Tasks : PhaseKept(u)
<1>0. Control /\ StateTypeOK
  BY DEF Core, Control
<1>1. \A u \in Tasks : PhaseKept(u) \/ (Waiting(u) /\ NextPhase(u, "timed out"))
  BY WakePhases
<1>2. PICK i, t :
        /\ i \in 1 .. Len(sleep_task_list)
        /\ t = sleep_task_list[i]
        /\ state' = [state EXCEPT ![t] = "SLEEP_RESUME"]
  BY DEF sleep_process_system_tick
<1>3. t \in ToSet(sleep_task_list)
  BY <1>0, <1>2, ToSetMember DEF StateTypeOK
<1>4. ASSUME NEW u \in Tasks, Waiting(u), NextPhase(u, "timed out")
      PROVE  FALSE
  <2>1. Calling(u, "sc_woke") /\ Suspended(u) /\ ~ Waiting(u)'
    BY <1>4 DEF Waiting, NextPhase
  <2>2. Calling(u, "sc_woke")'
    <3>1. UNCHANGED pc
      BY DEF sleep_process_system_tick
    <3> QED  BY <2>1, <3>1, PointsStay DEF CallsKept
  <2>3. ~ Suspended(u)'
    BY <2>1, <2>2 DEF Waiting
  <2>4. u = t
    BY <1>0, <1>2, <2>1, <2>3 DEF Suspended, StateTypeOK
  <2>5. Asleep(u)
    BY <1>3, <1>4, <2>4 DEF SleepersExact
  <2>6. Point(u, 1) \in {"pend", "back"} /\ ~ TimedWait(u)
    BY <2>1 DEF WaitsKept, WaitForm, OnlyReleases
  <2> QED  BY <2>1, <2>5, <2>6 DEF Asleep
<1> QED  BY <1>1, <1>4

(* A system or kernel step gets no wait any further.                       *)
LEMMA OutsidePhases ==
  ASSUME Core, ReadyOK, WaitsKept, SleepersExact, OnlyReleases, UNCHANGED condVars,
         \/ Boot \/ PendSV \/ isr_sysclock_handle
         \/ \E t \in Tasks : KernelCall(t) \/ UserCall(t)
  PROVE  \A u \in Tasks : PhaseKept(u)
<1>1. CASE sleep_process_system_tick
  BY <1>1, WakeKeepsWaits
<1>2. CASE Boot \/ SaveCurrent \/ LoadNext \/ isr_sysclock_handle
  BY <1>2, SystemPhases
<1>3. ASSUME NEW t \in Tasks, KernelCall(t) \/ UserCall(t)
      PROVE  \A u \in Tasks : PhaseKept(u)
  BY <1>3, KernelPhases DEF Core
<1> QED  BY <1>1, <1>2, <1>3 DEF PendSV

(* Every other step but those of SuspendPhases leaves TimedOut false.      *)
LEMMA SuspendPhases ==
  ASSUME Core, OnlyReleases, NEW t \in Tasks,
         \/ suspend_timeout_get_min(t) \/ suspend_do_suspend(t)
         \/ suspend_condition_add_task(t) \/ SuspendLock(t)
         \/ SuspendSleep(t) \/ SuspendInsert(t) \/ SuspendSwitch(t) \/ SuspendWoke(t)
         \/ suspend_condition_remove_all(t) \/ suspend_condition_remove(t)
         \/ SuspendReturn(t)
  PROVE  \A u \in Tasks : ~ TimedOut(u)'
<1>0. Control /\ DataTypes /\ ~ TimedOut(t)
  BY DEF Core, OnlyReleases
<1>1. ASSUME NEW u \in Tasks, u # t
      PROVE  ~ TimedOut(u)'
  <2>1. PhaseKept(u)
    BY <1>0, <1>1, SuspendOthers
  <2> QED  BY <2>1 DEF PhaseKept, OnlyReleases
<1>2. \/ PhaseKept(t) \/ NextPhase(t, "none") \/ NextPhase(t, "queued")
      \/ NextPhase(t, "waiting")
  <2>1. CASE suspend_timeout_get_min(t) \/ suspend_do_suspend(t) \/ SuspendReturn(t)
    BY <1>0, <2>1, OutsideWait
  <2>2. CASE suspend_condition_add_task(t)
    BY <1>0, <2>2, AddPhase
  <2>3. CASE SuspendLock(t) \/ SuspendSleep(t) \/ SuspendInsert(t)
    BY <1>0, <2>3, QueuedPhase
  <2>4. CASE SuspendSwitch(t)
    BY <1>0, <2>4, SwitchPhase
  <2>5. CASE SuspendWoke(t)
    BY <1>0, <2>5, WokePhase
  <2>6. CASE suspend_condition_remove_all(t) \/ suspend_condition_remove(t)
    <3>1. mode' # "assert" \/ UNCHANGED pc
      BY <1>0, <2>6, RemoveAllControl, RemoveControl, ExecFacts
         DEF suspend_condition_remove_all, suspend_condition_remove
    <3> QED  BY <1>0, <2>6, <3>1, DonePhase
  <2> QED  BY <2>1, <2>2, <2>3, <2>4, <2>5, <2>6
<1>3. ~ TimedOut(t)'
  BY <1>0, <1>2 DEF PhaseKept, NextPhase
<1> QED  BY <1>1, <1>3

LEMMA ResumeUntimed ==
  ASSUME Core, WaitsKept, OnlyReleases, NEW t \in Tasks,
         \/ ResumeLock(t) \/ ResumeOne(t) \/ ResumeUnlock(t) \/ ResumeYield(t)
         \/ ResumeReturn(t)
  PROVE  \A u \in Tasks : ~ TimedOut(u)'
<1>0. Control /\ DataTypes /\ CallArguments /\ \A u \in Tasks : ~ TimedOut(u)
  BY DEF Core, OnlyReleases
<1>1. CASE ResumeOne(t)
  <2>1. PICK w, c : w = Head(suspend_list[resuming[t].cond]) /\ c = resuming[t].cond
    OBVIOUS
  <2>2. \A u \in Tasks : PhaseKept(u) \/ NextPhase(u, "resumed")
    BY <1>0, <1>1, <2>1, ResumeOnePhases
  <2> QED  BY <1>0, <2>2 DEF PhaseKept, NextPhase
<1>2. CASE ResumeLock(t) \/ ResumeUnlock(t) \/ ResumeYield(t) \/ ResumeReturn(t)
  <2>1. \A u \in Tasks : PhaseKept(u)
    BY <1>0, <1>2, ResumePhases
  <2> QED  BY <1>0, <2>1 DEF PhaseKept
<1> QED  BY <1>1, <1>2

LEMMA SuspendReleases ==
  ASSUME Core, OnlyReleases, NEW t \in Tasks, UNCHANGED semVars,
         \/ suspend_timeout_get_min(t) \/ suspend_do_suspend(t)
         \/ suspend_condition_add_task(t) \/ SuspendLock(t)
         \/ SuspendSleep(t) \/ SuspendInsert(t) \/ SuspendSwitch(t) \/ SuspendWoke(t)
         \/ suspend_condition_remove_all(t) \/ suspend_condition_remove(t)
         \/ SuspendReturn(t)
  PROVE  OnlyReleases'
<1>0. /\ Control /\ \A u \in Tasks : Released(u) /\ ~ TimedOut(u)
      /\ timeout \in [Tasks -> 0 .. MAX_WAIT]
      /\ until \in [Tasks -> Seq(0 .. TickRange - 1 \cup {NULL})]
      /\ from \in [Tasks -> {"SYSTEM", "SLEEP"}]
      /\ susp_status \in [Tasks -> [Conditions -> Errors \cup {"SUCCESS"}]]
  BY ReleasesAre DEF Core, DataTypes, CallTypes
<1>1. \A u \in Tasks : ~ TimedOut(u)'
  BY SuspendPhases
<1>2. UNCHANGED wait
  BY DEF semVars
<1>3. UNCHANGED resuming
  BY DEF suspend_timeout_get_min, suspend_do_suspend, suspend_condition_add_task,
         SuspendLock, SuspendSleep, SuspendInsert, SuspendSwitch, SuspendWoke, condVars,
         suspend_condition_remove_all, suspend_condition_remove, SuspendReturn
<1>4. ASSUME Released(t)',
             \A u \in Tasks : u # t =>
               /\ timeout'[u] = timeout[u] /\ until'[u] = until[u] /\ from'[u] = from[u]
               /\ susp_status'[u] = susp_status[u]
      PROVE  OnlyReleases'
  <2>1. \A u \in Tasks : u # t => Released(u)'
    BY <1>0, <1>2, <1>3, <1>4, ReleasedKept
  <2> QED  BY <1>1, <1>4, <2>1, ReleasesMake
<1>5. CASE UNCHANGED <<timeout, until, from, susp_status>>
  <2>1. Released(t)'
    BY <1>0, <1>2, <1>3, <1>5, ReleasedKept
  <2> QED  BY <1>4, <1>5, <2>1
<1>6. CASE suspend_timeout_get_min(t)
  <2>1. UNCHANGED <<from, susp_status>>
    BY <1>6 DEF suspend_timeout_get_min
  <2>2. Len(until[t]) = 1
    <3>1. Point(t, 1) = "sc_timeout"
      BY <1>0, <1>6, ExecFacts DEF suspend_timeout_get_min
    <3> QED  BY <3>1 DEF Core, CallArguments, Arguments
  <2>3. PICK ds, n :
          /\ ds = until[t]
          /\ n = CHOOSE i \in 1 .. Len(ds) : \A j \in 1 .. Len(ds) :
                   \/ TicksLeft(ds[i]) < TicksLeft(ds[j])
                   \/ TicksLeft(ds[i]) = TicksLeft(ds[j]) /\ i <= j
          /\ timeout' = [timeout EXCEPT ![t] = TicksLeft(ds[n])]
          /\ until' = [until EXCEPT ![t] = <<>>]
    BY <1>6 DEF suspend_timeout_get_min
  <2>4. n \in 1 .. Len(ds)
    <3>1. 1 \in 1 .. Len(ds) /\ \A j \in 1 .. Len(ds) : j = 1
      BY <2>2, <2>3
    <3>2. \E i \in 1 .. Len(ds) : \A j \in 1 .. Len(ds) :
             \/ TicksLeft(ds[i]) < TicksLeft(ds[j])
             \/ TicksLeft(ds[i]) = TicksLeft(ds[j]) /\ i <= j
      BY <3>1
    <3> QED  BY <2>3, <3>2
  <2>5. ds[n] = NULL
    <3>1. ds \in Seq(0 .. TickRange - 1 \cup {NULL}) /\ ToSet(ds) \subseteq {NULL}
      BY <1>0, <2>3 DEF Released
    <3> QED  BY <2>4, <3>1, ToSetMember
  <2>6. TicksLeft(ds[n]) = MAX_WAIT
    BY <2>5 DEF TicksLeft
  <2>7. /\ timeout'[t] = MAX_WAIT /\ until'[t] = <<>>
        /\ \A u \in Tasks : u # t => timeout'[u] = timeout[u] /\ until'[u] = until[u]
    BY <1>0, <2>3, <2>6
  <2>8. ToSet(<<>>) = {}
    BY DEF ToSet
  <2>9. Released(t)'
    BY <1>0, <1>2, <1>3, <2>1, <2>7, <2>8 DEF Released, MAX_WAIT
  <2> QED  BY <1>4, <2>1, <2>7, <2>9
<1>7. CASE SuspendWoke(t)
  <2>1. /\ from' = [from EXCEPT ![t] = resume_from[t]] /\ UNCHANGED <<timeout, until, susp_status>>
        /\ At(t, "sc_woke")
    BY <1>7 DEF SuspendWoke
  <2>2. resume_from[t] = "SYSTEM"
    <3>1. resume_from[t] \in {"SYSTEM", "SLEEP"}
      BY <1>0 DEF Control, StateTypeOK
    <3>2. Calling(t, "sc_woke") /\ ~ Suspended(t)
      BY <1>0, <2>1, InSuspendAt, CallingIs
    <3> QED  BY <1>0, <3>1, <3>2 DEF TimedOut, Ended
  <2>3. from'[t] = "SYSTEM" /\ \A u \in Tasks : u # t => from'[u] = from[u]
    BY <1>0, <2>1, <2>2
  <2>4. Released(t)'
    BY <1>0, <1>2, <1>3, <2>1, <2>3 DEF Released, MAX_WAIT
  <2> QED  BY <1>4, <2>1, <2>3, <2>4
<1>8. CASE SuspendReturn(t)
  <2>1. /\ timeout' = [timeout EXCEPT ![t] = MAX_WAIT]
        /\ from' = [from EXCEPT ![t] = "SYSTEM"]
        /\ susp_status' = [susp_status EXCEPT ![t] = [c \in Conditions |-> "SUCCESS"]]
        /\ UNCHANGED until
    BY <1>8 DEF SuspendReturn
  <2>2. /\ timeout'[t] = MAX_WAIT /\ from'[t] = "SYSTEM"
        /\ \A u \in Tasks : u # t => timeout'[u] = timeout[u] /\ from'[u] = from[u]
    BY <1>0, <2>1
  <2>3. /\ \A c \in Conditions : susp_status'[t][c] = "SUCCESS"
        /\ \A u \in Tasks : u # t => susp_status'[u] = susp_status[u]
    BY <1>0, <2>1
  <2>4. Released(t)'
    BY <1>0, <1>2, <1>3, <2>1, <2>2, <2>3 DEF Released, MAX_WAIT
  <2> QED  BY <1>4, <2>1, <2>2, <2>3, <2>4
<1>9. CASE \/ suspend_do_suspend(t) \/ suspend_condition_add_task(t) \/ SuspendLock(t)
           \/ SuspendSleep(t) \/ SuspendInsert(t) \/ SuspendSwitch(t)
           \/ suspend_condition_remove_all(t) \/ suspend_condition_remove(t)
  BY <1>5, <1>9 DEF suspend_do_suspend, suspend_condition_add_task, SuspendLock, SuspendSleep,
     SuspendInsert, SuspendSwitch, suspend_condition_remove_all, suspend_condition_remove,
     condVars, suspendVars
<1> QED  BY <1>6, <1>7, <1>8, <1>9

LEMMA ResumeReleases ==
  ASSUME Core, WaitsKept, OnlyReleases, NEW t \in Tasks, UNCHANGED semVars,
         \/ ResumeLock(t) \/ ResumeOne(t) \/ ResumeUnlock(t) \/ ResumeYield(t)
         \/ ResumeReturn(t)
  PROVE  OnlyReleases'
<1>0. /\ Control /\ CallArguments /\ DataTypes /\ \A u \in Tasks : Released(u) /\ ~ TimedOut(u)
      /\ resuming \in [Tasks -> ResumeRecords]
      /\ susp_status \in [Tasks -> [Conditions -> Errors \cup {"SUCCESS"}]]
  BY ReleasesAre DEF Core, DataTypes, CallTypes, ResumeRecords
<1>1. \A u \in Tasks : ~ TimedOut(u)'
  BY ResumeUntimed
<1>2. UNCHANGED <<wait, timeout, until, from>>
  BY DEF semVars, ResumeLock, ResumeOne, ResumeUnlock, ResumeYield, ResumeReturn, condVars,
         suspendVars
<1>3. ASSUME \A u \in Tasks : /\ resuming'[u].status = "SUCCESS"
                              /\ \A c \in Conditions : susp_status'[u][c] = "SUCCESS"
      PROVE  OnlyReleases'
  <2>1. \A u \in Tasks : Released(u)'
    BY <1>0, <1>2, <1>3 DEF Released, MAX_WAIT
  <2> QED  BY <1>1, <2>1, ReleasesMake
<1>4. CASE ResumeOne(t)
  <2>1. PICK w, c, r :
          /\ w = Head(suspend_list[resuming[t].cond]) /\ c = resuming[t].cond /\ r = resuming[t]
    OBVIOUS
  <2>2. w \in Tasks /\ c \in Conditions /\ r \in ResumeRecords /\ r.status = "SUCCESS"
    BY <1>0, <1>4, <2>1, ArgumentsResuming, ResumedTask DEF DataTypes, Released
  <2>3. susp_status' = [susp_status EXCEPT ![w][c] = "SUCCESS"]
    BY <1>4, <2>1, <2>2 DEF ResumeOne
  <2>4. \A u \in Tasks : \A d \in Conditions : susp_status'[u][d] = "SUCCESS"
    BY <1>0, <2>2, <2>3 DEF Released
  <2>5. PICK n : n = r.num - 1
    OBVIOUS
  <2>6. \/ resuming' = [resuming EXCEPT ![t].num = n, ![t].yield = TRUE]
        \/ \E m : resuming' = [resuming EXCEPT ![t].num = n, ![t].tmp = m]
    BY <1>4, <2>1, <2>5 DEF ResumeOne
  <2>7. ASSUME NEW q, resuming' = [resuming EXCEPT ![t] = q], q.status = r.status
        PROVE  OnlyReleases'
    <3>1. \A u \in Tasks : resuming'[u].status = resuming[u].status
      BY <1>0, <2>1, <2>7
    <3> QED  BY <1>0, <1>3, <2>4, <3>1 DEF Released
  <2>8. CASE resuming' = [resuming EXCEPT ![t].num = n, ![t].yield = TRUE]
    <3>1. PICK q : q = [r EXCEPT !.num = n, !.yield = TRUE]
      OBVIOUS
    <3>2. resuming' = [resuming EXCEPT ![t] = q]
      BY <1>0, <2>1, <2>8, <3>1
    <3>3. q.status = r.status
      BY <2>2, <3>1 DEF ResumeRecords
    <3> QED  BY <2>7, <3>2, <3>3
  <2>9. ASSUME NEW m, resuming' = [resuming EXCEPT ![t].num = n, ![t].tmp = m]
        PROVE  OnlyReleases'
    <3>1. PICK q : q = [r EXCEPT !.num = n, !.tmp = m]
      OBVIOUS
    <3>2. resuming' = [resuming EXCEPT ![t] = q]
      BY <1>0, <2>1, <2>9, <3>1
    <3>3. q.status = r.status
      BY <2>2, <3>1 DEF ResumeRecords
    <3> QED  BY <2>7, <3>2, <3>3
  <2> QED  BY <2>6, <2>8, <2>9
<1>5. CASE ResumeReturn(t)
  <2>1. resuming' = [resuming EXCEPT ![t] = NoResume] /\ UNCHANGED susp_status
    BY <1>5 DEF ResumeReturn, suspendVars
  <2>2. \A u \in Tasks : resuming'[u].status = "SUCCESS"
    BY <1>0, <2>1 DEF NoResume, Released
  <2> QED  BY <1>0, <1>3, <2>1, <2>2 DEF Released
<1>6. CASE ResumeLock(t) \/ ResumeUnlock(t) \/ ResumeYield(t)
  <2>1. UNCHANGED <<resuming, susp_status>>
    BY <1>6 DEF ResumeLock, ResumeUnlock, ResumeYield, condVars, suspendVars
  <2> QED  BY <1>0, <1>3, <2>1 DEF Released
<1> QED  BY <1>4, <1>5, <1>6

LEMMA SemaphoreReleases ==
  ASSUME MayDestroy = {}, Waits \subseteq {0, MAX_WAIT}, Core, destroyed = {}, OnlyReleases,
         NEW t \in Tasks, SemaphoreCall(t) \/ SemaphoreUse(t)
  PROVE  OnlyReleases'
<1>0. /\ Control /\ DataTypes /\ \A u \in Tasks : Released(u) /\ ~ TimedOut(u)
      /\ resuming \in [Tasks -> ResumeRecords]
      /\ wait \in [Tasks -> Nat]
      /\ until \in [Tasks -> Seq(0 .. TickRange - 1 \cup {NULL})]
      /\ susp_status \in [Tasks -> [Conditions -> Errors \cup {"SUCCESS"}]]
  BY ReleasesAre DEF Core, DataTypes, CallTypes, ResumeRecords
<1>1. \A u \in Tasks : ~ TimedOut(u)'
  <2>1. \A u \in Tasks : PhaseKept(u)
    BY <1>0, SemaphorePhases
  <2> QED  BY <1>0, <2>1 DEF PhaseKept
<1>2. UNCHANGED <<timeout, from>>
  BY DEF SemaphoreCall, ObtainTest, ObtainTake, ReleaseIncrement, DestroyClear,
         SemaphoreUse, semaphore_obtain, semaphore_release, semaphore_destroy, EnterLocked,
         condVars, suspendVars
<1>3. ASSUME Released(t)',
             \A u \in Tasks : u # t =>
               /\ wait'[u] = wait[u] /\ until'[u] = until[u] /\ resuming'[u] = resuming[u]
               /\ susp_status'[u] = susp_status[u]
      PROVE  OnlyReleases'
  <2>1. \A u \in Tasks : u # t => Released(u)'
    BY <1>0, <1>2, <1>3, ReleasedKept
  <2> QED  BY <1>1, <1>3, <2>1, ReleasesMake
<1>4. CASE UNCHANGED <<wait, until, resuming, susp_status>>
  <2>1. Released(t)'
    BY <1>0, <1>2, <1>4, ReleasedKept
  <2> QED  BY <1>3, <1>4, <2>1
<1>5. CASE ObtainTest(t)
  <2>1. UNCHANGED <<wait, resuming>>
    BY <1>5 DEF ObtainTest, semVars
  <2>2. CASE UNCHANGED <<until, susp_status>>
    BY <1>4, <2>1, <2>2
  <2>3. CASE suspend_condition(t, <<sem[t]>>, <<Deadline(wait[t])>>) /\ wait[t] > 0
    <3>1. Deadline(wait[t]) = NULL
      BY <1>0, <2>3 DEF Released, Deadline
    <3>2. PICK d : d = <<NULL>>
      OBVIOUS
    <3>3. ToSet(d) \subseteq {NULL}
      BY <3>2 DEF ToSet
    <3>4. until' = [until EXCEPT ![t] = d]
      BY <2>3, <3>1, <3>2 DEF suspend_condition
    <3>5. until'[t] = d /\ \A u \in Tasks : u # t => until'[u] = until[u]
      BY <1>0, <3>4
    <3>6. PICK cs : cs = ToSet(<<sem[t]>>)
      OBVIOUS
    <3>7. susp_status' = [susp_status EXCEPT ![t] =
                            [c \in Conditions |-> IF c \in cs THEN "SUCCESS" ELSE @[c]]]
      BY <2>3, <3>6 DEF suspend_condition
    <3>8. /\ \A c \in Conditions : susp_status'[t][c] = "SUCCESS"
          /\ \A u \in Tasks : u # t => susp_status'[u] = susp_status[u]
      BY <1>0, <3>7 DEF Released
    <3>9. Released(t)'
      BY <1>0, <1>2, <2>1, <3>3, <3>5, <3>8 DEF Released, MAX_WAIT
    <3> QED  BY <1>3, <2>1, <3>5, <3>8, <3>9
  <2> QED  BY <1>5, <2>2, <2>3 DEF ObtainTest
<1>6. ASSUME NEW w \in {0, MAX_WAIT}, wait' = [wait EXCEPT ![t] = w],
             UNCHANGED <<until, resuming, susp_status>>
      PROVE  OnlyReleases'
  <2>1. wait'[t] = w /\ \A u \in Tasks : u # t => wait'[u] = wait[u]
    BY <1>0, <1>6
  <2>2. Released(t)'
    BY <1>0, <1>2, <1>6, <2>1 DEF Released, MAX_WAIT
  <2> QED  BY <1>3, <1>6, <2>1, <2>2
<1>7. CASE ObtainTake(t)
  <2>1. UNCHANGED <<until, resuming, susp_status>>
    BY <1>7 DEF ObtainTake, suspendVars
  <2>2. UNCHANGED wait \/ wait' = [wait EXCEPT ![t] = 0]
    BY <1>7 DEF ObtainTake
  <2> QED  BY <1>4, <1>6, <2>1, <2>2
<1>8. CASE ReleaseIncrement(t)
  <2>1. UNCHANGED <<wait, until, susp_status>>
    BY <1>8 DEF ReleaseIncrement, suspendVars
  <2>2. PICK s, n : resume_condition(t, s, n, "SUCCESS")
    BY <1>8 DEF ReleaseIncrement
  <2>3. /\ resuming'[t].status = "SUCCESS"
        /\ \A u \in Tasks : u # t => resuming'[u] = resuming[u]
    BY <1>0, <2>2 DEF resume_condition, NoResume
  <2>4. Released(t)'
    BY <1>0, <1>2, <2>1, <2>3 DEF Released, MAX_WAIT
  <2> QED  BY <1>3, <2>1, <2>3, <2>4
<1>9. ~ DestroyClear(t)
  <2>1. ASSUME DestroyClear(t)
        PROVE  FALSE
    <3>1. At(t, "sd_clear") /\ "sd_clear" \in SemaphoreLabels
      BY <2>1 DEF DestroyClear, SemaphoreLabels
    <3>2. Calling(t, "sd_clear")
      BY <1>0, <3>1, SemaphorePoint, CallingIs
    <3> QED  BY <3>2 DEF Core, CallArguments, Arguments
  <2> QED  BY <2>1
<1>10. CASE SemaphoreUse(t)
  <2>1. PICK s \in Conditions :
          \/ \E w \in Waits : semaphore_obtain(t, s, w)
          \/ semaphore_release(t, s)
    BY <1>10 DEF SemaphoreUse, semaphore_destroy
  <2>2. ASSUME NEW w \in Waits, semaphore_obtain(t, s, w)
        PROVE  OnlyReleases'
    BY <1>6, <2>2 DEF semaphore_obtain, condVars, suspendVars
  <2>3. CASE semaphore_release(t, s)
    BY <1>4, <2>3 DEF semaphore_release, condVars, suspendVars
  <2> QED  BY <2>1, <2>2, <2>3
<1> QED  BY <1>5, <1>7, <1>8, <1>9, <1>10 DEF SemaphoreCall

LEMMA ReleasesStep ==
  ASSUME MayDestroy = {}, Waits \subseteq {0, MAX_WAIT}, Core, ReadyOK, WaitsKept, SleepersExact,
         destroyed = {}, OnlyReleases, [SemNext]_vars
  PROVE  OnlyReleases'
<1>1. ASSUME \A u \in Tasks : PhaseKept(u), UNCHANGED <<condVars, semVars>>
      PROVE  OnlyReleases'
  <2>1. UNCHANGED <<timeout, wait, until, from, resuming, susp_status>>
    BY <1>1 DEF condVars, suspendVars, semVars
  <2>2. \A u \in Tasks : Released(u)'
    BY <2>1, ReleasesAre, ReleasedKept
  <2> QED  BY <1>1, <2>2, ReleasesMake DEF PhaseKept, OnlyReleases
<1>2. CASE UNCHANGED vars
  <2>1. UNCHANGED <<pc, state, resume_from, from, condVars, semVars>>
    BY <1>2 DEF vars, kernelVars, condVars, suspendVars
  <2>2. \A u \in Tasks : PhaseKept(u)
    BY <2>1, PointsStay, PhaseSame DEF Suspended
  <2> QED  BY <1>1, <2>1, <2>2
<1>3. CASE SemNext
  <2>1. CASE SemBoot \/ SemPendSV \/ SemTick
    <3>1. /\ Boot \/ PendSV \/ isr_sysclock_handle
          /\ UNCHANGED <<condVars, semVars>>
      BY <2>1 DEF SemBoot, SemPendSV, SemTick, ConditionTick
    <3> QED  BY <1>1, <3>1, OutsidePhases
  <2>2. ASSUME NEW t \in Tasks, KernelCall(t) \/ UserCall(t), UNCHANGED <<condVars, semVars>>
        PROVE  OnlyReleases'
    BY <1>1, <2>2, OutsidePhases
  <2>3. ASSUME NEW t \in Tasks, ConditionCall(t), UNCHANGED semVars
        PROVE  OnlyReleases'
    BY <2>3, SuspendReleases, ResumeReleases DEF ConditionCall
  <2>4. ASSUME NEW t \in Tasks, SemaphoreCall(t) \/ SemaphoreUse(t)
        PROVE  OnlyReleases'
    BY <2>4, SemaphoreReleases
  <2> QED  BY <1>3, <2>1, <2>2, <2>3, <2>4 DEF SemNext, CallStep
<1> QED  BY <1>2, <1>3

(* A task keeps the state the sleep gave it, and its place, until it runs. *)
LEMMA SleepEndedKept ==
  ASSUME SleepEnded,
         \A u \in Tasks : state'[u] = "SLEEP_RESUME" =>
           \/ /\ state[u] = "SLEEP_RESUME" /\ resume_from'[u] = resume_from[u]
              /\ Point(u, 1)' = Point(u, 1)
           \/ resume_from'[u] = "SLEEP" /\ Point(u, 1)' \in {"pend", "back"}
  PROVE  SleepEnded'
<1>1. ASSUME NEW u \in Tasks, state'[u] = "SLEEP_RESUME"
      PROVE  resume_from'[u] = "SLEEP" /\ Point(u, 1)' \in {"pend", "back"}
  BY <1>1 DEF SleepEnded
<1> QED  BY <1>1 DEF SleepEnded

(* How a step changes the states of the tasks.                             *)
NewStates ==
  \/ UNCHANGED <<state, resume_from>>
  \/ \E x \in Tasks : YieldSystem(x)
  \/ \E x \in Tasks : \E st \in States \ {"SLEEP_RESUME"} :
       state' = [state EXCEPT ![x] = st] /\ UNCHANGED resume_from

LEMMA NewStatesOthers ==
  ASSUME StateTypeOK, NewStates, NEW u \in Tasks, state'[u] = "SLEEP_RESUME"
  PROVE  state[u] = "SLEEP_RESUME" /\ resume_from'[u] = resume_from[u]
<1>1. CASE UNCHANGED <<state, resume_from>>
  BY <1>1
<1>2. ASSUME NEW x \in Tasks, YieldSystem(x)
      PROVE  state[u] = "SLEEP_RESUME" /\ resume_from'[u] = resume_from[u]
  BY <1>2, YieldSystemTypes
<1>3. ASSUME NEW x \in Tasks, NEW st \in States \ {"SLEEP_RESUME"},
             state' = [state EXCEPT ![x] = st], UNCHANGED resume_from
      PROVE  state[u] = "SLEEP_RESUME" /\ resume_from'[u] = resume_from[u]
  <2>1. state'[x] = st /\ \A v \in Tasks : v # x => state'[v] = state[v]
    BY <1>3 DEF StateTypeOK
  <2> QED  BY <1>3, <2>1
<1> QED  BY <1>1, <1>2, <1>3 DEF NewStates

LEMMA SystemSleepEnded ==
  ASSUME Core, ReadyOK, WaitsKept, SleepEnded, Boot \/ PendSV \/ isr_sysclock_handle
  PROVE  SleepEnded'
<1>0. Control /\ StateTypeOK /\ SemCurrent
  BY DEF Core, Control
<1>1. UNCHANGED pc
  BY DEF Boot, BootAdd, run_first_task, PendSV, SaveCurrent, sleep_process_system_tick,
         LoadNext, isr_sysclock_handle
<1>2. \A u \in Tasks : Point(u, 1)' = Point(u, 1)
  BY <1>1 DEF Point
<1>3. ASSUME NewStates
      PROVE  SleepEnded'
  BY <1>0, <1>2, <1>3, NewStatesOthers, SleepEndedKept
<1>4. ASSUME SwitchToNext, UNCHANGED resume_from
      PROVE  SleepEnded'
  <2>1. CASE sch_ready_task_list = <<>>
    BY <1>3, <1>4, <2>1 DEF SwitchToNext, NewStates
  <2>2. CASE sch_ready_task_list # <<>>
    <3>1. PICK t : t = Head(sch_ready_task_list)
      OBVIOUS
    <3>2. state' = [state EXCEPT ![t] = "RUNNING"] /\ "RUNNING" \in States \ {"SLEEP_RESUME"}
      BY <1>4, <2>2, <3>1 DEF SwitchToNext, States
    <3>3. t \in Tasks
      BY <1>0, <2>2, <3>1 DEF StateTypeOK
    <3> QED  BY <1>3, <1>4, <3>2, <3>3 DEF NewStates
  <2> QED  BY <2>1, <2>2
<1>5. CASE Boot \/ LoadNext
  BY <1>3, <1>4, <1>5 DEF Boot, BootAdd, run_first_task, LoadNext, NewStates
<1>6. CASE SaveCurrent
  <2>1. current_task \in Tasks /\ "SUSPENDED" \in States \ {"SLEEP_RESUME"}
    BY <1>0, <1>6 DEF SaveCurrent, SemCurrent, States
  <2> QED  BY <1>3, <1>6, <2>1 DEF SaveCurrent, NewStates
<1>7. CASE isr_sysclock_handle
  BY <1>3, <1>7 DEF isr_sysclock_handle, NewStates
<1>8. CASE sleep_process_system_tick
  <2>1. PICK i, t :
          /\ i \in 1 .. Len(sleep_task_list)
          /\ t = sleep_task_list[i] /\ sleep_walk(i)
          /\ state' = [state EXCEPT ![t] = "SLEEP_RESUME"]
          /\ resume_from' = [resume_from EXCEPT ![t] = "SLEEP"]
    BY <1>8 DEF sleep_process_system_tick
  <2>2. t \in Tasks /\ state[t] = "SUSPENDED"
    BY <1>0, <2>1, ElementOf DEF StateTypeOK, sleep_walk
  <2>3. /\ resume_from'[t] = "SLEEP"
        /\ \A u \in Tasks : u # t => state'[u] = state[u] /\ resume_from'[u] = resume_from[u]
    BY <1>0, <2>1, <2>2 DEF StateTypeOK
  <2>4. Point(t, 1)' \in {"pend", "back"}
    BY <1>2, <2>2 DEF WaitsKept, WaitForm, Suspended
  <2> QED  BY <1>2, <2>3, <2>4, SleepEndedKept
<1> QED  BY <1>5, <1>6, <1>7, <1>8 DEF PendSV

(* A step of the task that executes.                                       *)
LEMMA TaskSleepEnded ==
  ASSUME Core, SleepEnded, NEW t \in Tasks, Executes(t), NewStates,
         UNCHANGED pc \/ \E l : Go(t, l)
  PROVE  SleepEnded'
<1>0. Control /\ StateTypeOK /\ SemCurrent /\ Stacks
  BY DEF Core, Control
<1>1. state[t] # "SLEEP_RESUME"
  BY <1>0 DEF Executes, SemCurrent
<1>2. ASSUME NEW u \in Tasks, u # t
      PROVE  Point(u, 1)' = Point(u, 1)
  <2>1. pc'[u] = pc[u]
    BY <1>0, <1>2 DEF Go, Stacks
  <2> QED  BY <2>1 DEF Point
<1> QED  BY <1>0, <1>1, <1>2, NewStatesOthers, SleepEndedKept

LEMMA SleepEndedStep ==
  ASSUME Core, ReadyOK, WaitsKept, SleepEnded, [SemNext]_vars
  PROVE  SleepEnded'
<1>0. Control /\ DataTypes /\ CallArguments
  BY DEF Core
<1>1. CASE UNCHANGED vars
  <2>1. UNCHANGED <<pc, state, resume_from>>
    BY <1>1 DEF vars, kernelVars
  <2> QED  BY <2>1, SleepEndedKept DEF Point
<1>2. CASE SemNext
  <2>1. CASE SemBoot \/ SemPendSV \/ SemTick
    BY <2>1, SystemSleepEnded DEF SemBoot, SemPendSV, SemTick, ConditionTick
  <2>2. "TO_BE_SUSPENDED" \in States \ {"SLEEP_RESUME"} /\ "FINISHED" \in States \ {"SLEEP_RESUME"}
    BY DEF States
  <2>3. ASSUME NEW t \in Tasks, KernelCall(t)
        PROVE  SleepEnded'
    <3>1. Executes(t) /\ NewStates
      BY <2>2, <2>3 DEF KernelCall, PEND_SV, RestoreLevel, scheduler_unlock, UnlockYield, SleepAdd,
             SleepInsert, SleepSuspend, At, NewStates
    <3>2. UNCHANGED pc \/ \E l : Go(t, l)
      BY <2>3 DEF KernelCall, PEND_SV, RestoreLevel, scheduler_unlock, UnlockYield, SleepAdd,
             SleepInsert, SleepSuspend
    <3> QED  BY <3>1, <3>2, TaskSleepEnded
  <2>4. ASSUME NEW t \in Tasks, UserCall(t)
        PROVE  SleepEnded'
    <3>1. Executes(t) /\ NewStates
      BY <2>2, <2>4 DEF UserCall, scheduler_lock, UserUnlock, task_yield, sleep_ticks,
             task_entry_return, scheduler_task_add, InUser, At, NewStates
    <3>2. UNCHANGED pc \/ \E l : Go(t, l)
      BY <2>4 DEF UserCall, scheduler_lock, UserUnlock, task_yield, sleep_ticks,
             task_entry_return, scheduler_task_add
    <3> QED  BY <3>1, <3>2, TaskSleepEnded
  <2>5. ASSUME NEW t \in Tasks, ConditionCall(t)
        PROVE  SleepEnded'
    <3>1. Executes(t) /\ (UNCHANGED pc \/ \E l : Go(t, l))
      BY <2>5 DEF ConditionCall, suspend_timeout_get_min, suspend_do_suspend,
             suspend_condition_add_task, SuspendLock, SuspendSleep, SuspendInsert, SuspendSwitch,
             SuspendWoke, suspend_condition_remove_all, suspend_condition_remove, SuspendReturn,
             ResumeLock, ResumeOne, ResumeUnlock, ResumeYield, ResumeReturn, At
    <3>2. CASE ResumeOne(t)
      <4>1. PICK w : w = Head(suspend_list[resuming[t].cond])
        OBVIOUS
      <4>2. w \in Tasks
        BY <1>0, <3>2, <4>1, ArgumentsResuming, ResumedTask DEF DataTypes
      <4>3. NewStates
        BY <3>2, <4>1, <4>2 DEF ResumeOne, NewStates
      <4> QED  BY <3>1, <4>3, TaskSleepEnded
    <3>3. CASE ~ ResumeOne(t)
      <4>1. NewStates
        BY <2>2, <2>5, <3>3 DEF ConditionCall, suspend_timeout_get_min, suspend_do_suspend,
             suspend_condition_add_task, SuspendLock, SuspendSleep, SuspendInsert, SuspendSwitch,
             SuspendWoke, suspend_condition_remove_all, suspend_condition_remove, SuspendReturn,
             ResumeLock, ResumeUnlock, ResumeYield, ResumeReturn, NewStates
      <4> QED  BY <3>1, <4>1, TaskSleepEnded
    <3> QED  BY <3>2, <3>3
  <2>6. ASSUME NEW t \in Tasks, SemaphoreCall(t) \/ SemaphoreUse(t)
        PROVE  SleepEnded'
    <3>1. Executes(t) /\ UNCHANGED <<state, resume_from>>
      BY <2>6 DEF SemaphoreCall, ObtainTest, ObtainTake, ReleaseIncrement, DestroyClear,
             SemaphoreUse, semaphore_obtain, semaphore_release, semaphore_destroy, EnterLocked,
             InUser, At
    <3>2. UNCHANGED pc \/ \E l : Go(t, l)
      BY <2>6 DEF SemaphoreCall, ObtainTest, ObtainTake, ReleaseIncrement, DestroyClear,
             SemaphoreUse, semaphore_obtain, semaphore_release, semaphore_destroy, EnterLocked
    <3> QED  BY <3>1, <3>2, TaskSleepEnded DEF NewStates
  <2> QED  BY <1>2, <2>1, <2>3, <2>4, <2>5, <2>6 DEF SemNext, CallStep
<1> QED  BY <1>1, <1>2

----------------------------------------------------------------------------
(* No lost wake-up: a task on its way into a wait found no unit.           *)

OnItsWay(u) == Queued(u) \/ Point(u, 1) = "sc_append"

LEMMA OnItsWayRuns ==
  ASSUME Core, NEW w \in Tasks, OnItsWay(w)
  PROVE  ~ Away(w)
<1>1. Control /\ StackForm(Point(w, 1), Point(w, 2), Point(w, 3))
  BY TaskStack DEF Core, Control
<1>2. Point(w, 2) = "so_take" /\ Point(w, 1) # "back"
  BY <1>1 DEF OnItsWay, Queued, StackForm, Labels, SemaphoreLabels, SuspendLabels,
              ConditionLabels, ResumeLabels
<1>3. /\ lock_count[w] >= Owes(Point(w, 1)) + Owes(Point(w, 2)) + Owes(Point(w, 3))
      /\ Owes(Point(w, 1)) \in {0, 1} /\ Owes(Point(w, 2)) \in {0, 1}
      /\ Owes(Point(w, 3)) \in {0, 1} /\ lock_count[w] \in Nat
  BY <1>1, LockFacts
<1>4. Owes(Point(w, 2)) = 1
  BY <1>2 DEF Owes, Owing
<1>5. lock_count[w] # 0
  BY <1>3, <1>4
<1> QED  BY <1>1, <1>2, <1>5 DEF Control, LockKeepsCPU

(* In a step of the task that has the CPU no other one is on its way.      *)
LEMMA NoneFoundTask ==
  ASSUME Core, NEW t \in Tasks, mode = "task", current_task = t,
         \A u \in Tasks : u # t => Point(u, 1)' = Point(u, 1),
         OnItsWay(t)' => count'[sem'[t]] = 0
  PROVE  NoneFound'
<1>1. ASSUME NEW u \in Tasks, u # t
      PROVE  ~ OnItsWay(u)'
  <2>1. ~ OnItsWay(u)
    BY <1>1, OnItsWayRuns DEF Away
  <2> QED  BY <1>1, <2>1 DEF OnItsWay, Queued
<1> QED  BY <1>1 DEF NoneFound, OnItsWay

(* A step outside the calls of a semaphore.                                *)
LEMMA OutsidePoints ==
  ASSUME Core, NEW t \in Tasks, KernelCall(t) \/ UserCall(t)
  PROVE  /\ mode = "task" /\ current_task = t /\ Point(t, 1) \in Labels
         /\ \A u \in Tasks : u # t => Point(u, 1)' = Point(u, 1)
         /\ Point(t, 1)' \notin {"sc_append", "sc_end", "so_take"}
<1>0. Control /\ Stacks
  BY DEF Core, Control
<1>1. mode = "task" /\ current_task = t /\ Point(t, 1) \in Labels
  <2>1. CASE KernelCall(t)
    <3>1. PICK label \in Labels : At(t, label)
      BY <2>1 DEF KernelCall, PEND_SV, RestoreLevel, scheduler_unlock, UnlockYield,
                  SleepAdd, SleepInsert, SleepSuspend, Labels
    <3> QED  BY <1>0, <3>1, ExecFacts
  <2>2. CASE UserCall(t)
    <3>1. InUser(t)
      BY <2>2 DEF UserCall, scheduler_lock, UserUnlock, task_yield, sleep_ticks,
                  task_entry_return, scheduler_task_add
    <3> QED  BY <1>0, <3>1, UserFacts DEF Labels
  <2> QED  BY <2>1, <2>2
<1>2. UNCHANGED pc \/ \E l : Go(t, l)
  BY DEF KernelCall, PEND_SV, RestoreLevel, scheduler_unlock, UnlockYield, SleepAdd, SleepInsert,
         SleepSuspend, UserCall, scheduler_lock, UserUnlock, task_yield, sleep_ticks,
         task_entry_return, scheduler_task_add
<1>3. ASSUME NEW u \in Tasks, u # t
      PROVE  /\ Point(u, 1)' = Point(u, 1) /\ Point(u, 2)' = Point(u, 2)
             /\ Point(u, 3)' = Point(u, 3)
  <2>1. pc'[u] = pc[u]
    BY <1>0, <1>2, <1>3 DEF Go, Stacks
  <2> QED  BY <2>1 DEF Point
<1>4. ASSUME Point(t, 1)' \in {"sc_append", "sc_end", "so_take"}
      PROVE  FALSE
  <2>1. Control' /\ CallsKept(t)
    BY <1>0, KernelCallKeeps, UserCallKeeps
  <2>2. PICK a, b, c, s :
          a = Point(t, 1)' /\ b = Point(t, 2)' /\ c = Point(t, 3)' /\ s = pc'[t]
    OBVIOUS
  <2>3. NewStack(t, a, b, c)
    BY <1>3, <2>1, <2>2 DEF NewStack, Control
  <2>4. StackForm(a, b, c)
    <3>1. CallStack(s)
      BY <2>1, <2>2 DEF Control, Stacks
    <3>2. a = PointOf(s, 1) /\ b = PointOf(s, 2) /\ c = PointOf(s, 3)
      BY <2>2 DEF Point, PointOf
    <3> QED  BY <3>1, <3>2, StackPoints, StackForms
  <2>5. \/ a \in {"sc_append", "sc_end"} /\ b = "so_take" /\ c = "user"
        \/ a = "so_take" /\ b = "user" /\ c = "user"
    BY <1>4, <2>2, <2>4 DEF StackForm, Labels, SemaphoreLabels, SuspendLabels, ConditionLabels,
                      ResumeLabels
  <2>6. StackForm(Point(t, 1), Point(t, 2), Point(t, 3))
    BY <1>0, TaskStack
  <2>7. CASE a \in {"sc_append", "sc_end"} /\ b = "so_take" /\ c = "user"
    <3>1. InSuspend(t)' /\ ~ Calling(t, "sc_woke")' /\ ~ Calling(t, "sc_done")'
      BY <2>3, <2>7, NewCalling
    <3>2. InSuspend(t) /\ ~ Calling(t, "sc_woke") /\ ~ Calling(t, "sc_done")
      BY <2>1, <3>1 DEF CallsKept
    <3>3. /\ Point(t, 2) # "sc_woke" /\ Point(t, 2) # "sc_done"
          /\ Point(t, 2) = "so_take" \/ Point(t, 3) = "so_take"
      BY <3>2, CallingIs
    <3> QED  BY <1>1, <2>6, <3>3 DEF StackForm, Labels, SemaphoreLabels, SuspendLabels,
                                    ConditionLabels, ResumeLabels
  <2>8. CASE a = "so_take" /\ b = "user" /\ c = "user"
    <3>1. ~ InSuspend(t)' /\ Calling(t, "so_take")'
      BY <2>3, <2>8, NewCalling
    <3>2. ~ InSuspend(t) /\ Calling(t, "so_take")
      BY <2>1, <3>1 DEF CallsKept, SemaphoreLabels
    <3>3. Point(t, 1) = "so_take"
      BY <3>2, CallingIs
    <3> QED  BY <1>1, <3>3 DEF Labels
  <2> QED  BY <2>5, <2>7, <2>8
<1> QED  BY <1>1, <1>3, <1>4

LEMMA SuspendNoneFound ==
  ASSUME Core, NoneFound, NEW t \in Tasks, UNCHANGED <<count, sem>>,
         \/ suspend_timeout_get_min(t) \/ suspend_do_suspend(t)
         \/ suspend_condition_add_task(t) \/ SuspendLock(t)
         \/ SuspendSleep(t) \/ SuspendInsert(t) \/ SuspendSwitch(t) \/ SuspendWoke(t)
         \/ suspend_condition_remove_all(t) \/ suspend_condition_remove(t)
         \/ SuspendReturn(t)
  PROVE  NoneFound'
<1>0. Control /\ DataTypes
  BY DEF Core
<1>1. PICK label \in {"sc_timeout", "sc_check", "sc_append", "sc_lock", "sc_sleep", "sc_insert",
                      "sc_suspend", "sc_woke", "sc_done", "sc_end"} : At(t, label)
  BY DEF suspend_timeout_get_min, suspend_do_suspend, suspend_condition_add_task, SuspendLock,
         SuspendSleep, SuspendInsert, SuspendSwitch, SuspendWoke, suspend_condition_remove_all,
         suspend_condition_remove, SuspendReturn
<1>2. /\ Point(t, 1) = label /\ mode = "task" /\ current_task = t
      /\ ToSet(conds[t]) = {sem[t]} /\ sem[t] \in Conditions
  BY <1>1, SuspendAt
<1>3. ASSUME UNCHANGED pc
      PROVE  NoneFound'
  <2>1. \A u : Point(u, 1)' = Point(u, 1)
    BY <1>3 DEF Point
  <2> QED  BY <2>1 DEF NoneFound, Queued
<1>4. ASSUME NEW a, NEW b, NEW c, NewStack(t, a, b, c), OnItsWay(t)' => count[sem[t]] = 0
      PROVE  NoneFound'
  BY <1>2, <1>4, NoneFoundTask DEF NewStack
<1>5. ASSUME NEW a, NEW b, NEW c, NewStack(t, a, b, c),
             a \notin {"sc_append", "sc_lock", "sc_sleep", "sc_insert", "sc_suspend"}
      PROVE  NoneFound'
  <2>1. ~ OnItsWay(t)'
    BY <1>5 DEF NewStack, OnItsWay, Queued
  <2> QED  BY <1>4, <1>5, <2>1
<1>6. CASE \/ suspend_timeout_get_min(t) \/ SuspendSwitch(t) \/ SuspendWoke(t)
           \/ suspend_condition_remove_all(t) \/ suspend_condition_remove(t) \/ SuspendReturn(t)
  BY <1>0, <1>3, <1>5, <1>6, GetMinControl, SuspendSwitchControl, WokeControl, RemoveAllControl,
     RemoveControl, ReturnControl
<1>7. CASE \/ suspend_condition_add_task(t) \/ SuspendLock(t) \/ SuspendSleep(t)
           \/ SuspendInsert(t)
  <2>1. label \in {"sc_append", "sc_lock", "sc_sleep", "sc_insert", "sc_suspend"}
    BY <1>2, <1>7, <1>0, ExecFacts DEF suspend_condition_add_task, SuspendLock, SuspendSleep, SuspendInsert
  <2>2. count[sem[t]] = 0
    BY <1>2, <2>1 DEF NoneFound, Queued
  <2>3. \E a : NewStack(t, a, "so_take", "user")
    BY <1>0, <1>7, AddTaskControl, SuspendLockControl, SuspendSleepControl, SuspendInsertControl
       DEF DataTypes
  <2> QED  BY <1>4, <2>2, <2>3
<1>8. CASE suspend_do_suspend(t)
  <2>1. CASE NewStack(t, "sc_append", "so_take", "user")
    <3>1. ~ Satisfied(sem[t])
      <4>1. ASSUME Satisfied(sem[t])
            PROVE  FALSE
        <5>1. Go(t, <<"sc_end">>)
          BY <1>2, <1>8, <4>1 DEF suspend_do_suspend
        <5>2. NewStack(t, "sc_end", "so_take", "user")
          <6>1. ~ Go(t, <<"sc_append">>)
            BY <5>1, <1>0 DEF Go, Control, Stacks
          <6> QED  BY <1>0, <1>8, <6>1, DoSuspendControl
        <5> QED  BY <2>1, <5>2 DEF NewStack
      <4> QED  BY <4>1
    <3>2. count[sem[t]] = 0
      BY <3>1 DEF Satisfied, do_suspend
    <3> QED  BY <1>4, <2>1, <3>2
  <2>2. CASE NewStack(t, "sc_end", "so_take", "user")
    BY <1>5, <2>2
  <2> QED  BY <1>0, <1>8, <2>1, <2>2, DoSuspendControl
<1> QED  BY <1>6, <1>7, <1>8

LEMMA ResumeNoneFound ==
  ASSUME Core, NoneFound, NEW t \in Tasks, UNCHANGED <<count, sem>>,
         \/ ResumeLock(t) \/ ResumeOne(t) \/ ResumeUnlock(t) \/ ResumeYield(t)
         \/ ResumeReturn(t)
  PROVE  NoneFound'
<1>0. Control
  BY DEF Core
<1>1. PICK label \in ResumeLabels : At(t, label)
  BY DEF ResumeLock, ResumeOne, ResumeUnlock, ResumeYield, ResumeReturn, ResumeLabels
<1>2. PICK p : p = Point(t, 2)
  OBVIOUS
<1>3. /\ mode = "task" /\ current_task = t /\ p \in {"unlock", "sd_clear"}
      /\ Point(t, 1) \in ResumeLabels
  BY <1>0, <1>1, <1>2, ResumePoint
<1>4. CASE ResumeOne(t)
  <2>1. \A u : Point(u, 1)' = Point(u, 1)
    BY <1>4 DEF ResumeOne, Point
  <2> QED  BY <2>1 DEF NoneFound, Queued
<1>5. CASE ~ ResumeOne(t)
  <2>1. \/ NewStack(t, "rc_loop", p, "user") \/ NewStack(t, "unlock", "rc_yield", p)
        \/ NewStack(t, "pend", "rc_back", p) \/ NewStack(t, "rc_back", p, "user")
        \/ NewStack(t, p, "user", "user")
    BY <1>0, <1>2, <1>5, ResumeLockControl, ResumeUnlockControl, ResumeYieldControl,
       ResumeReturnControl
  <2>2. PICK a, b, c : NewStack(t, a, b, c) /\ a \in {"rc_loop", "unlock", "pend", "rc_back", p}
    BY <2>1
  <2>3. ~ OnItsWay(t)'
    BY <1>3, <2>2 DEF NewStack, OnItsWay, Queued
  <2> QED  BY <1>3, <2>2, <2>3, NoneFoundTask DEF NewStack
<1> QED  BY <1>4, <1>5

LEMMA NoneFoundStep ==
  ASSUME MayDestroy = {}, Core, destroyed = {}, NoneFound, [SemNext]_vars
  PROVE  NoneFound'
<1>0. Control /\ DataTypes
  BY DEF Core
<1>1. ASSUME UNCHANGED <<pc, count, sem>>
      PROVE  NoneFound'
  <2>1. \A u : Point(u, 1)' = Point(u, 1)
    BY <1>1 DEF Point
  <2> QED  BY <1>1, <2>1 DEF NoneFound, Queued
<1>2. CASE UNCHANGED vars
  BY <1>1, <1>2 DEF vars, kernelVars, condVars, semVars
<1>3. CASE SemBoot \/ SemPendSV \/ SemTick
  <2>1. UNCHANGED <<pc, count, sem>>
    BY <1>3 DEF SemBoot, SemPendSV, SemTick, ConditionTick, condVars, semVars,
         Boot, BootAdd, run_first_task, PendSV, SaveCurrent, sleep_process_system_tick,
         LoadNext, isr_sysclock_handle
  <2> QED  BY <1>1, <2>1
<1>4. ASSUME NEW t \in Tasks, KernelCall(t) \/ UserCall(t), UNCHANGED <<condVars, semVars>>
      PROVE  NoneFound'
  <2>1. /\ mode = "task" /\ current_task = t
        /\ \A u \in Tasks : u # t => Point(u, 1)' = Point(u, 1)
        /\ Point(t, 1)' # "sc_append" /\ Point(t, 1) \in Labels
    BY <1>4, OutsidePoints
  <2>2. CallsKept(t)
    BY <1>0, <1>4, KernelCallKeeps, UserCallKeeps
  <2>3. ~ Queued(t)
    BY <2>1 DEF Queued, Labels
  <2>4. ~ OnItsWay(t)'
    BY <2>1, <2>2, <2>3 DEF OnItsWay, CallsKept
  <2> QED  BY <2>1, <2>4, NoneFoundTask
<1>5. ASSUME NEW t \in Tasks, ConditionCall(t), UNCHANGED semVars
      PROVE  NoneFound'
  <2>1. UNCHANGED <<count, sem>>
    BY <1>5 DEF ConditionCall, suspend_timeout_get_min, suspend_do_suspend,
       suspend_condition_add_task, SuspendLock, SuspendSleep, SuspendInsert, SuspendSwitch,
       SuspendWoke, suspend_condition_remove_all, suspend_condition_remove, SuspendReturn,
       ResumeLock, ResumeOne, ResumeUnlock, ResumeYield, ResumeReturn, condVars, semVars
  <2> QED  BY <1>5, <2>1, SuspendNoneFound, ResumeNoneFound DEF ConditionCall
<1>6. ASSUME NEW t \in Tasks, SemaphoreCall(t) \/ SemaphoreUse(t)
      PROVE  NoneFound'
  <2>1. mode = "task" /\ current_task = t /\ Point(t, 1) \in SemaphoreLabels \cup {"user"}
    BY <1>6, NotDestroyed
  <2>2. CASE UNCHANGED pc
    <3>1. \A u : Point(u, 1)' = Point(u, 1)
      BY <2>2 DEF Point
    <3>2. ~ OnItsWay(t)'
      BY <2>1, <3>1 DEF OnItsWay, Queued, SemaphoreLabels
    <3> QED  BY <2>1, <3>1, <3>2, NoneFoundTask
  <2>3. ASSUME NEW a, NEW b, NEW c, NewStack(t, a, b, c),
               a \in {"so_take", "so_test", "sr_inc", "sc_timeout", "unlock", "rc_lock"}
        PROVE  NoneFound'
    <3>1. ~ OnItsWay(t)'
      BY <2>3 DEF NewStack, OnItsWay, Queued
    <3> QED  BY <2>1, <2>3, <3>1, NoneFoundTask DEF NewStack
  <2>4. \/ UNCHANGED pc
        \/ \E a \in {"so_take", "so_test", "sr_inc", "sc_timeout", "unlock", "rc_lock"} :
             \E b, c : NewStack(t, a, b, c)
    BY <1>6, NotDestroyed
  <2> QED  BY <2>2, <2>3, <2>4
<1> QED  BY <1>2, <1>3, <1>4, <1>5, <1>6 DEF SemNext, CallStep

----------------------------------------------------------------------------
(* No lost wake-up: the units of a semaphore are spoken for.               *)

(* Task u asks for no more than before of semaphore s, and gives no less.  *)
AskKept(u, s) ==
  /\ Waiting(u)' /\ sem'[u] = s => Waiting(u) /\ sem[u] = s
  /\ Looks(u, s) => Looks(u, s)'
  /\ ResumesFor(u, s) => ResumesFor(u, s)' /\ resuming'[u].num = resuming[u].num

LEMMA LookersFinite ==
  ASSUME NEW s
  PROVE  IsFiniteSet(Lookers(s)) /\ Cardinality(Lookers(s)) \in Nat
<1>1. Lookers(s) \subseteq Tasks
  BY DEF Lookers
<1>2. IsFiniteSet(Lookers(s))
  BY <1>1, SemaphoreAssumption, FS_Subset
<1> QED  BY <1>2, FS_CardinalityType

LEMMA LookersGrow ==
  ASSUME NEW s, \A u \in Tasks : Looks(u, s) => Looks(u, s)'
  PROVE  Cardinality(Lookers(s)) <= Cardinality(Lookers(s)') /\ Cardinality(Lookers(s)') \in Nat
<1>1. PICK L, M : L = Lookers(s) /\ M = Lookers(s)'
  OBVIOUS
<1>2. L \subseteq M /\ M \subseteq Tasks
  BY <1>1 DEF Lookers
<1>3. IsFiniteSet(M)
  BY <1>2, SemaphoreAssumption, FS_Subset
<1>4. Cardinality(L) <= Cardinality(M) /\ Cardinality(M) \in Nat
  BY <1>2, <1>3, FS_Subset, FS_CardinalityType
<1> QED  BY <1>1, <1>4

LEMMA SpokenStays ==
  ASSUME DataTypes, NEW s \in Conditions, SpokenFor(s), count'[s] = count[s],
         \A u \in Tasks : AskKept(u, s)
  PROVE  SpokenFor(s)'
<1>1. PICK n, m : n = Cardinality(Lookers(s)) /\ m = Cardinality(Lookers(s)')
  OBVIOUS
<1>2. n \in Nat /\ m \in Nat /\ n <= m
  BY <1>1, LookersFinite, LookersGrow DEF AskKept
<1>3. PICK k \in Nat : k = count[s]
  BY DEF DataTypes
<1>4. SUFFICES ASSUME \E t \in Tasks : Waiting(t)' /\ sem'[t] = s
      PROVE  k <= m \/ \E u \in Tasks : ResumesFor(u, s)' /\ k <= m + resuming'[u].num
  BY <1>1, <1>3 DEF SpokenFor
<1>5. k <= n \/ \E u \in Tasks : ResumesFor(u, s) /\ k <= n + resuming[u].num
  BY <1>1, <1>3, <1>4 DEF SpokenFor, AskKept
<1>6. ASSUME NEW u \in Tasks, ResumesFor(u, s), k <= n + resuming[u].num
      PROVE  ResumesFor(u, s)' /\ k <= m + resuming'[u].num
  <2>1. PICK i : i = resuming[u].num
    OBVIOUS
  <2>2. i \in Int
    BY <2>1, ListTypes DEF ResumeRecords
  <2>3. ResumesFor(u, s)' /\ resuming'[u].num = i
    BY <1>6, <2>1 DEF AskKept
  <2> QED  BY <1>2, <1>6, <2>1, <2>2, <2>3
<1> QED  BY <1>2, <1>5, <1>6

LEMMA SpokenZero ==
  ASSUME NEW s \in Conditions, count'[s] = 0
  PROVE  SpokenFor(s)'
<1>1. 0 <= Cardinality(Lookers(s)')
  <2>1. PICK M : M = Lookers(s)'
    OBVIOUS
  <2>2. M \subseteq Tasks
    BY <2>1 DEF Lookers
  <2>3. Cardinality(M) \in Nat
    BY <2>2, SemaphoreAssumption, FS_Subset, FS_CardinalityType
  <2> QED  BY <2>1, <2>3
<1> QED  BY <1>1 DEF SpokenFor

(* A task whose wait and place stay the same as far as s is concerned.     *)
LEMMA AskSame ==
  ASSUME NEW u \in Tasks, NEW s, PhaseKept(u), sem'[u] = sem[u],
         Point(u, 1) \in {"sc_end", "so_take"} =>
           Point(u, 1)' \in {"sc_end", "so_take"} /\ status'[u] = status[u],
         Point(u, 1) \in {"rc_lock", "rc_loop"} =>
           Point(u, 1)' \in {"rc_lock", "rc_loop"} /\ resuming'[u] = resuming[u]
  PROVE  AskKept(u, s)
BY DEF AskKept, Looks, ResumesFor, PhaseKept

(* A task that has nothing to do with waits.                               *)
LEMMA AskNone ==
  ASSUME NEW u \in Tasks, NEW s, NoPhase(u), ~ Waiting(u)',
         Point(u, 1) \notin {"sc_end", "so_take", "rc_lock", "rc_loop"}
  PROVE  AskKept(u, s)
BY DEF AskKept, Looks, ResumesFor, NoPhase

(* A task that deals with another semaphore.                               *)
LEMMA AskOther ==
  ASSUME NEW u \in Tasks, NEW s, sem[u] # s, ~ Waiting(u)' \/ sem'[u] # s, ~ ResumesFor(u, s)
  PROVE  AskKept(u, s)
BY DEF AskKept, Looks

(* A step of task t.                                                       *)
OthersSame(t) ==
  \A u \in Tasks : u # t =>
    /\ PhaseKept(u) /\ Point(u, 1)' = Point(u, 1)
    /\ sem'[u] = sem[u] /\ status'[u] = status[u] /\ resuming'[u] = resuming[u]

LEMMA SpokenTask ==
  ASSUME DataTypes, NEW t \in Tasks, OthersSame(t),
         NEW s \in Conditions, SpokenFor(s), count'[s] = count[s], AskKept(t, s)
  PROVE  SpokenFor(s)'
<1>1. ASSUME NEW u \in Tasks, u # t
      PROVE  AskKept(u, s)
  BY <1>1, AskSame DEF OthersSame
<1> QED  BY <1>1, SpokenStays

(* A step outside the calls of a semaphore.                                *)
LEMMA OutsideSpoken ==
  ASSUME Core, ReadyOK, WaitsKept, SleepersExact, OnlyReleases, UNCHANGED <<condVars, semVars>>,
         \/ Boot \/ PendSV \/ isr_sysclock_handle
         \/ \E t \in Tasks : KernelCall(t) \/ UserCall(t),
         NEW s \in Conditions, SpokenFor(s)
  PROVE  SpokenFor(s)'
<1>1. UNCHANGED <<count, sem, status, resuming>>
  BY DEF condVars, suspendVars, semVars
<1>2. \A u \in Tasks : PhaseKept(u)
  BY OutsidePhases
<1>3. \A u \in Tasks : \/ Point(u, 1)' = Point(u, 1)
                       \/ Point(u, 1) \notin {"sc_end", "so_take", "rc_lock", "rc_loop"}
  <2>1. CASE Boot \/ PendSV \/ isr_sysclock_handle
    <3>1. UNCHANGED pc
      BY <2>1 DEF Boot, BootAdd, run_first_task, PendSV, SaveCurrent, sleep_process_system_tick,
                  LoadNext, isr_sysclock_handle
    <3> QED  BY <3>1 DEF Point
  <2>2. ASSUME NEW t \in Tasks, KernelCall(t) \/ UserCall(t), NEW u \in Tasks
        PROVE  \/ Point(u, 1)' = Point(u, 1)
               \/ Point(u, 1) \notin {"sc_end", "so_take", "rc_lock", "rc_loop"}
    BY <2>2, OutsidePoints DEF Labels
  <2> QED  BY <2>1, <2>2
<1>4. \A u \in Tasks : AskKept(u, s)
  <2>1. ASSUME NEW u \in Tasks
        PROVE  AskKept(u, s)
    <3>1. PhaseKept(u) /\ sem'[u] = sem[u] /\ status'[u] = status[u] /\ resuming'[u] = resuming[u]
      BY <1>1, <1>2
    <3> QED  BY <1>3, <3>1, AskSame
  <2> QED  BY <2>1
<1> QED  BY <1>1, <1>4, SpokenStays DEF Core

(* suspend_condition.                                                      *)
LEMMA SuspendSame ==
  ASSUME Core, StatusTypes, NEW t \in Tasks, UNCHANGED semVars,
         \/ suspend_timeout_get_min(t) \/ suspend_do_suspend(t)
         \/ suspend_condition_add_task(t) \/ SuspendLock(t)
         \/ SuspendSleep(t) \/ SuspendInsert(t) \/ SuspendSwitch(t) \/ SuspendWoke(t)
         \/ suspend_condition_remove_all(t) \/ suspend_condition_remove(t)
         \/ SuspendReturn(t)
  PROVE  OthersSame(t) /\ UNCHANGED <<count, sem, resuming>>
<1>0. Control /\ DataTypes /\ Stacks
  BY DEF Core, Control
<1>1. \A u \in Tasks : u # t => PhaseKept(u)
  BY <1>0, SuspendOthers
<1>2. UNCHANGED <<count, sem, resuming>>
  BY DEF suspend_timeout_get_min, suspend_do_suspend, suspend_condition_add_task, SuspendLock,
         SuspendSleep, SuspendInsert, SuspendSwitch, SuspendWoke, suspend_condition_remove_all,
         suspend_condition_remove, SuspendReturn, condVars, semVars
<1>3. UNCHANGED pc \/ \E l : Go(t, l)
  BY DEF suspend_timeout_get_min, suspend_do_suspend, suspend_condition_add_task, SuspendLock,
         SuspendSleep, SuspendInsert, SuspendSwitch, SuspendWoke, suspend_condition_remove_all,
         suspend_condition_remove, SuspendReturn
<1>4. UNCHANGED status \/ \E x : status' = [status EXCEPT ![t] = x]
  BY DEF suspend_timeout_get_min, suspend_do_suspend, suspend_condition_add_task, SuspendLock,
         SuspendSleep, SuspendInsert, SuspendSwitch, SuspendWoke, suspend_condition_remove_all,
         suspend_condition_remove, SuspendReturn, condVars, suspendVars
<1>5. ASSUME NEW u \in Tasks, u # t
      PROVE  Point(u, 1)' = Point(u, 1) /\ status'[u] = status[u]
  <2>1. pc'[u] = pc[u] /\ status'[u] = status[u]
    BY <1>0, <1>3, <1>4, <1>5 DEF Go, Stacks, StatusTypes
  <2> QED  BY <2>1 DEF Point
<1> QED  BY <1>1, <1>2, <1>5 DEF OthersSame

LEMMA SuspendSpoken ==
  ASSUME Core, ResumedMayTake, StatusTypes, OnlyReleases, NoneFound,
         NEW t \in Tasks, UNCHANGED semVars,
         \/ suspend_timeout_get_min(t) \/ suspend_do_suspend(t)
         \/ suspend_condition_add_task(t) \/ SuspendLock(t)
         \/ SuspendSleep(t) \/ SuspendInsert(t) \/ SuspendSwitch(t) \/ SuspendWoke(t)
         \/ suspend_condition_remove_all(t) \/ suspend_condition_remove(t)
         \/ SuspendReturn(t),
         NEW s \in Conditions, SpokenFor(s)
  PROVE  SpokenFor(s)'
<1>0. Control /\ DataTypes /\ CallArguments
  BY DEF Core
<1>1. PICK label \in {"sc_timeout", "sc_check", "sc_append", "sc_lock", "sc_sleep", "sc_insert",
                      "sc_suspend", "sc_woke", "sc_done", "sc_end"} : At(t, label)
  BY DEF suspend_timeout_get_min, suspend_do_suspend, suspend_condition_add_task, SuspendLock,
         SuspendSleep, SuspendInsert, SuspendSwitch, SuspendWoke, suspend_condition_remove_all,
         suspend_condition_remove, SuspendReturn
<1>2. /\ Point(t, 1) = label /\ mode = "task" /\ current_task = t
      /\ ToSet(conds[t]) = {sem[t]} /\ sem[t] \in Conditions
  BY <1>1, SuspendAt
<1>3. OthersSame(t) /\ UNCHANGED <<count, sem, resuming>>
  BY SuspendSame
<1>4. SUFFICES ASSUME count[s] # 0
      PROVE  AskKept(t, s)
  BY <1>0, <1>3, SpokenTask, SpokenZero
<1>5. CASE s # sem[t]
  <2>1. ~ ResumesFor(t, s)
    BY <1>2 DEF ResumesFor
  <2> QED  BY <1>3, <1>5, <2>1, AskOther
<1>6. ASSUME PhaseKept(t), label # "sc_end"
      PROVE  AskKept(t, s)
  BY <1>2, <1>3, <1>6, AskSame
<1>7. CASE \/ suspend_timeout_get_min(t) \/ suspend_do_suspend(t) \/ SuspendLock(t)
           \/ SuspendSleep(t) \/ SuspendInsert(t) \/ SuspendWoke(t)
  <2>1. PhaseKept(t)
    BY <1>0, <1>7, OutsideWait, QueuedPhase, WokePhase
  <2>2. label # "sc_end"
    BY <1>0, <1>2, <1>7, ExecFacts DEF suspend_timeout_get_min, suspend_do_suspend, SuspendLock,
       SuspendSleep, SuspendInsert, SuspendWoke
  <2> QED  BY <1>6, <2>1, <2>2
<1>8. CASE SuspendReturn(t)
  <2>1. PhaseKept(t) /\ Point(t, 1)' = "so_take"
    BY <1>0, <1>8, OutsideWait, ReturnControl DEF NewStack
  <2>2. UNCHANGED status /\ At(t, "sc_end")
    BY <1>8 DEF SuspendReturn
  <2>3. Point(t, 1) = "sc_end"
    BY <1>0, <2>2, ExecFacts
  <2> QED  BY <1>3, <2>1, <2>2, <2>3, AskSame
<1>9. CASE suspend_condition_add_task(t)
  <2>1. NoPhase(t) /\ ~ Waiting(t)' /\ At(t, "sc_append")
    BY <1>0, <1>9, AddPhase DEF NextPhase, suspend_condition_add_task
  <2>2. Point(t, 1) = "sc_append"
    BY <1>0, <2>1, ExecFacts
  <2> QED  BY <2>1, <2>2, AskNone
<1>10. CASE SuspendSwitch(t)
  <2>1. Queued(t)
    BY <1>0, <1>10, SwitchPhase
  <2> QED  BY <1>4, <1>5, <2>1 DEF NoneFound
<1>11. ~ suspend_condition_remove_all(t)
  <2>1. suspend_condition_remove_all(t) => TimedOut(t)
    BY <1>0, DonePhase
  <2> QED  BY <2>1 DEF OnlyReleases
<1>12. CASE suspend_condition_remove(t) /\ s = sem[t]
  <2>1. At(t, "sc_done")
    BY <1>12 DEF suspend_condition_remove
  <2>2. Point(t, 1) = "sc_done"
    BY <1>0, <2>1, ExecFacts
  <2>3. CASE UNCHANGED pc
    <3>1. PhaseKept(t)
      BY <1>0, <1>12, <2>3, DonePhase
    <3> QED  BY <1>2, <1>6, <2>2, <3>1
  <2>4. CASE Go(t, <<"sc_end">>) /\ UNCHANGED mode /\ NewStack(t, "sc_end", "so_take", "user")
    <3>1. NextPhase(t, "none")
      BY <1>0, <1>2, <1>12, <2>4, DonePhase
    <3>2. conds[t][ReturnNum(t)] = sem[t]
      BY <1>12, ReturnedOne DEF Core
    <3>3. status'[t] = "SUCCESS"
      <4>1. status' = [status EXCEPT ![t] = WaitStatus(t, sem[t])]
        <5>1. \/ status' = [status EXCEPT ![t] = WaitStatus(t, conds[t][ReturnNum(t)])]
              \/ mode' = "assert"
          BY <1>12 DEF suspend_condition_remove, Halt
        <5> QED  BY <1>2, <2>4, <3>2, <5>1
      <4>2. WaitStatus(t, sem[t]) = "SUCCESS"
        BY <1>2 DEF OnlyReleases, WaitStatus
      <4> QED  BY <4>1, <4>2 DEF StatusTypes
    <3>4. Looks(t, s)'
      BY <1>3, <1>12, <2>4, <3>3 DEF Looks, NewStack
    <3>5. ~ Waiting(t)' /\ ~ ResumesFor(t, s)
      BY <2>2, <3>1 DEF NextPhase, ResumesFor
    <3> QED  BY <3>4, <3>5 DEF AskKept
  <2>5. CASE Go(t, <<"sc_check">>) /\ UNCHANGED mode /\ NewStack(t, "sc_check", "so_take", "user")
    <3>1. conds[t][ReturnNum(t)] = sem[t]
      BY <1>12, ReturnedOne DEF Core
    <3>2. \/ ~ Satisfied(sem[t])
          \/ Go(t, <<"sc_end">>) \/ mode' = "assert"
      <4>1. \/ IF susp_status[t][conds[t][ReturnNum(t)]] \in Errors
                    \/ Satisfied(conds[t][ReturnNum(t)])
               THEN Go(t, <<"sc_end">>) ELSE Go(t, <<"sc_check">>)
            \/ mode' = "assert"
        BY <1>12 DEF suspend_condition_remove, Halt
      <4> QED  BY <3>1, <4>1
    <3>3. ~ Go(t, <<"sc_end">>)
      BY <1>0, <2>5 DEF Go, Control, Stacks
    <3>4. ~ Satisfied(sem[t])
      BY <1>2, <2>5, <3>2, <3>3
    <3> QED  BY <1>4, <1>12, <3>4 DEF Satisfied, do_suspend
  <2> QED  BY <1>0, <1>12, <2>3, <2>4, <2>5, RemoveControl
<1> QED  BY <1>5, <1>7, <1>8, <1>9, <1>10, <1>11, <1>12

(* resume_condition.                                                       *)
LEMMA ResumeOneSpoken ==
  ASSUME Core, WaitsKept, ResumedMayTake, destroyed = {}, ResumerKeepsCPU, SuspendLists,
         OnlyReleases, NEW t \in Tasks, ResumeOne(t), UNCHANGED semVars,
         NEW s \in Conditions, SpokenFor(s)
  PROVE  SpokenFor(s)'
<1>0. Control /\ DataTypes /\ CallArguments
  BY DEF Core
<1>1. PICK c, w : c = resuming[t].cond /\ w = Head(suspend_list[resuming[t].cond])
  OBVIOUS
<1>2. c \in Conditions /\ w \in Tasks /\ suspend_list[c] # <<>> /\ suspend_list[c] \in Seq(Tasks)
  BY <1>0, <1>1, ArgumentsResuming, ResumedTask DEF DataTypes
<1>3. sem[w] = c /\ MayBeListed(w)
  <2>1. ListOK(c)
    BY <1>2, ListsAre
  <2>2. w \in ToSet(suspend_list[c])
    <3>1. PICK l : l = suspend_list[c]
      OBVIOUS
    <3>2. 1 \in 1 .. Len(l) /\ w = l[1]
      BY <1>1, <1>2, <3>1
    <3> QED  BY <1>2, <3>1, <3>2, ToSetMember
  <2> QED  BY <2>1, <2>2 DEF ListOK
<1>4. /\ mode = "task" /\ current_task = t /\ Point(t, 1) = "rc_loop"
      /\ Point(t, 2) \in {"unlock", "sd_clear"} /\ Point(t, 3) = "user"
  <2>1. At(t, "rc_loop") /\ "rc_loop" \in ResumeLabels
    BY DEF ResumeOne, ResumeLabels
  <2> QED  BY <1>0, <2>1, ResumePoint
<1>5. w # t /\ ~ ResumesFor(w, s)
  <2>1. NoPhase(t)
    BY <1>4, PhaseAt
  <2>2. w # t
    BY <1>3, <2>1 DEF NoPhase, MayBeListed
  <2>3. ~ Resumes(w)
    BY <1>2, <1>4, <2>2, OnlyResumer
  <2> QED  BY <2>2, <2>3, CallingIs DEF ResumesFor, Resumes, ResumeLabels
<1>6. Waiting(w)
  <2>1. ~ Queued(w)
    BY <1>2, <1>4, <1>5, QueuedRuns DEF Away
  <2> QED  BY <1>2, <1>3, <2>1 DEF MayBeListed, OnlyReleases
<1>7. IsWaiting(w, c) /\ NextPhase(w, "resumed") /\ \A u \in Tasks : u # w => PhaseKept(u)
  <2>1. suspend_data[w] = <<sem[w]>>
    BY <1>2, <1>6 DEF ResumedMayTake
  <2>2. PICK d : d = <<c>>
    OBVIOUS
  <2>3. c \in ToSet(d)
    BY <1>2, <2>2, SingleMembers
  <2>4. IsWaiting(w, c)
    BY <1>3, <1>6, <2>1, <2>2, <2>3 DEF IsWaiting, Waiting, Suspended
  <2> QED  BY <1>0, <1>1, <2>4, ResumeOnePhases
<1>8. UNCHANGED <<count, sem, status, pc>> /\ \A u \in Tasks : Point(u, 1)' = Point(u, 1)
  BY DEF ResumeOne, semVars, Point
<1>9. resuming \in [Tasks -> ResumeRecords]
  BY <1>0 DEF DataTypes, CallTypes, ResumeRecords
<1>10. PICK r \in ResumeRecords : r = resuming[t]
  BY <1>9
<1>11. PICK n \in Int : n = r.num - 1
  BY <1>10 DEF ResumeRecords
<1>12. PICK q : q = [r EXCEPT !.num = n, !.yield = TRUE]
  OBVIOUS
<1>13. q.num = n /\ q.cond = c
  BY <1>1, <1>10, <1>12 DEF ResumeRecords
<1>14. resuming' = [resuming EXCEPT ![t] = q]
  BY <1>1, <1>7, <1>9, <1>10, <1>11, <1>12 DEF ResumeOne
<1>15. resuming'[t] = q /\ \A u \in Tasks : u # t => resuming'[u] = resuming[u]
  BY <1>9, <1>14
<1>16. CASE s # c
  <2>1. AskKept(w, s)
    BY <1>2, <1>3, <1>5, <1>8, <1>16, AskOther
  <2>2. AskKept(t, s)
    <3>1. PhaseKept(t) /\ ~ ResumesFor(t, s)
      BY <1>1, <1>5, <1>7, <1>16 DEF ResumesFor
    <3> QED  BY <1>4, <1>8, <3>1 DEF AskKept, Looks, PhaseKept
  <2>3. ASSUME NEW u \in Tasks, u # t, u # w
        PROVE  AskKept(u, s)
    BY <1>7, <1>8, <1>15, <2>3, AskSame
  <2>4. \A u \in Tasks : AskKept(u, s)
    BY <2>1, <2>2, <2>3
  <2> QED  BY <1>0, <1>8, <2>4, SpokenStays
<1>17. CASE s = c
  <2>1. PICK L, M, k : L = Lookers(s) /\ M = Lookers(s)' /\ k = count[s]
    OBVIOUS
  <2>2. w \notin L
    <3>1. Point(w, 1) \in {"pend", "back"} /\ ~ Calling(w, "sc_done")
      BY <1>0, <1>2, <1>6, <1>7, WaitingTask DEF Waiting, WaitsKept, WaitForm
    <3> QED  BY <1>6, <2>1, <3>1 DEF Lookers, Looks, Resumed, Ended, Waiting
  <2>3. w \in M
    BY <1>2, <1>3, <1>7, <1>8, <1>17, <2>1 DEF Lookers, Looks, NextPhase
  <2>4. L \subseteq M
    <3>1. ASSUME NEW u \in Tasks, Looks(u, s), u # w
          PROVE  Looks(u, s)'
      BY <1>7, <1>8, <3>1 DEF Looks, PhaseKept
    <3> QED  BY <2>1, <2>2, <3>1 DEF Lookers
  <2>5. IsFiniteSet(L) /\ IsFiniteSet(M)
    <3>1. L \subseteq Tasks /\ M \subseteq Tasks
      BY <2>1 DEF Lookers
    <3> QED  BY <3>1, SemaphoreAssumption, FS_Subset
  <2>6. PICK x, y : x = Cardinality(L) /\ y = Cardinality(M)
    OBVIOUS
  <2>7. x \in Nat /\ y \in Nat /\ x + 1 <= y
    <3>1. x \in Nat /\ y \in Nat
      BY <2>5, <2>6, FS_CardinalityType
    <3>2. Cardinality(L \cup {w}) = x + 1
      BY <2>2, <2>5, <2>6, FS_AddElement
    <3>3. L \cup {w} \in SUBSET M
      BY <2>3, <2>4
    <3>4. Cardinality(L \cup {w}) <= y
      BY <2>5, <2>6, <3>3, FS_Subset
    <3> QED  BY <3>1, <3>2, <3>4
  <2>8. k \in Nat
    BY <1>0, <2>1 DEF DataTypes
  <2>9. k <= x \/ k <= x + r.num
    <3>1. \/ k <= x
          \/ \E u \in Tasks : ResumesFor(u, s) /\ k <= x + resuming[u].num
      BY <1>2, <1>3, <1>6, <1>17, <2>1, <2>6 DEF SpokenFor
    <3>2. ASSUME NEW u \in Tasks, ResumesFor(u, s)
          PROVE  u = t
      <4>1. Resumes(u)
        BY <3>2, CallingIs DEF ResumesFor, Resumes, ResumeLabels
      <4> QED  BY <1>4, <4>1, OnlyResumer
    <3> QED  BY <1>10, <3>1, <3>2
  <2>10. ResumesFor(t, s)' /\ resuming'[t].num = n
    BY <1>4, <1>8, <1>13, <1>15, <1>17 DEF ResumesFor
  <2>11. r.num \in Int /\ n = r.num - 1
    BY <1>10, <1>11 DEF ResumeRecords
  <2>12. k <= y \/ k <= y + n
    BY <2>7, <2>8, <2>9, <2>11
  <2>13. count'[s] = k /\ Cardinality(Lookers(s)') = y
    BY <1>8, <2>1, <2>6
  <2> QED  BY <2>10, <2>12, <2>13 DEF SpokenFor
<1> QED  BY <1>16, <1>17

LEMMA ResumeSpoken ==
  ASSUME Core, WaitsKept, ResumedMayTake, destroyed = {}, ResumerKeepsCPU, SuspendLists,
         OnlyReleases, NEW t \in Tasks, UNCHANGED semVars,
         \/ ResumeLock(t) \/ ResumeOne(t) \/ ResumeUnlock(t) \/ ResumeYield(t)
         \/ ResumeReturn(t),
         NEW s \in Conditions, SpokenFor(s)
  PROVE  SpokenFor(s)'
<1>0. Control /\ DataTypes /\ CallArguments
  BY DEF Core
<1>1. CASE ResumeOne(t)
  BY <1>1, ResumeOneSpoken
<1>2. CASE ResumeLock(t) \/ ResumeUnlock(t) \/ ResumeYield(t) \/ ResumeReturn(t)
  <2>1. PICK label \in ResumeLabels : At(t, label)
    BY <1>2 DEF ResumeLock, ResumeUnlock, ResumeYield, ResumeReturn, ResumeLabels
  <2>2. mode = "task" /\ current_task = t /\ Point(t, 1) = label
    BY <1>0, <2>1, ResumePoint
  <2>3. \A u \in Tasks : PhaseKept(u)
    BY <1>0, <1>2, ResumePhases
  <2>4. UNCHANGED <<count, sem, status>>
    BY <1>2 DEF ResumeLock, ResumeUnlock, ResumeYield, ResumeReturn, semVars, condVars,
                suspendVars
  <2>5. \A u \in Tasks : u # t => resuming'[u] = resuming[u]
    <3>1. UNCHANGED resuming \/ resuming' = [resuming EXCEPT ![t] = NoResume]
      BY <1>2 DEF ResumeLock, ResumeUnlock, ResumeYield, ResumeReturn, condVars
    <3> QED  BY <1>0, <3>1 DEF DataTypes, CallTypes
  <2>6. \A u \in Tasks : u # t => Point(u, 1)' = Point(u, 1)
    <3>1. UNCHANGED pc \/ \E l : Go(t, l)
      BY <1>2 DEF ResumeLock, ResumeUnlock, ResumeYield, ResumeReturn
    <3>2. \A u \in Tasks : u # t => pc'[u] = pc[u]
      BY <1>0, <3>1 DEF Go, Control, Stacks
    <3> QED  BY <3>2 DEF Point
  <2>7. OthersSame(t)
    BY <2>3, <2>4, <2>5, <2>6 DEF OthersSame
  <2>8. ASSUME AskKept(t, s)
        PROVE  SpokenFor(s)'
    BY <1>0, <2>4, <2>7, <2>8, SpokenTask
  <2>9. CASE ResumeYield(t) \/ ResumeReturn(t)
    <3>1. label \in {"rc_yield", "rc_back"}
      BY <1>0, <2>2, <2>9, ExecFacts DEF ResumeYield, ResumeReturn
    <3> QED  BY <2>2, <2>3, <2>4, <2>8, <3>1, AskSame
  <2>10. CASE ResumeLock(t)
    <3>1. At(t, "rc_lock") /\ UNCHANGED resuming
      BY <2>10 DEF ResumeLock, condVars
    <3>2. Point(t, 1) = "rc_lock" /\ Point(t, 1)' = "rc_loop"
      BY <1>0, <2>10, <3>1, ExecFacts, ResumeLockControl DEF NewStack
    <3> QED  BY <2>3, <2>4, <2>8, <3>1, <3>2, AskSame
  <2>11. CASE ResumeUnlock(t)
    <3>1. At(t, "rc_loop") /\ UNCHANGED resuming
      BY <2>11 DEF ResumeUnlock, condVars
    <3>2. Point(t, 1) = "rc_loop"
      BY <1>0, <3>1, ExecFacts
    <3>3. CASE resuming[t].cond # s
      <4>1. ~ ResumesFor(t, s)
        BY <3>3 DEF ResumesFor
      <4>2. AskKept(t, s)
        BY <2>3, <2>4, <3>2, <4>1 DEF AskKept, Looks, PhaseKept
      <4> QED  BY <2>8, <4>2
    <3>4. CASE resuming[t].cond = s /\ suspend_list[s] = <<>>
      <4>1. ListOK(s) /\ ToSet(suspend_list[s]) = {}
        BY <3>4, ListsAre DEF ToSet
      <4>2. \A u \in Tasks : sem[u] = s => ~ Waiting(u)
        BY <4>1 DEF ListOK, Listed
      <4>3. \A u \in Tasks : sem'[u] = s => ~ Waiting(u)'
        BY <2>3, <2>4, <4>2 DEF PhaseKept
      <4> QED  BY <4>3 DEF SpokenFor
    <3>5. CASE resuming[t].cond = s /\ resuming[t].num = 0
      <4>1. PICK x, y, k : x = Cardinality(Lookers(s)) /\ y = Cardinality(Lookers(s)') /\ k = count[s]
        OBVIOUS
      <4>2. \A u \in Tasks : Looks(u, s) => Looks(u, s)'
        <5>1. ASSUME NEW u \in Tasks, u # t, Looks(u, s)
              PROVE  Looks(u, s)'
          BY <2>7, <5>1 DEF OthersSame, Looks, PhaseKept
        <5>2. Looks(t, s) => Looks(t, s)'
          BY <2>3, <2>4, <3>2 DEF Looks, PhaseKept
        <5> QED  BY <5>1, <5>2
      <4>3. x \in Nat /\ y \in Nat /\ x <= y
        BY <4>1, <4>2, LookersFinite, LookersGrow
      <4>4. k \in Nat
        BY <1>0, <4>1 DEF DataTypes
      <4>5. ASSUME NEW v \in Tasks, Waiting(v)', sem'[v] = s
            PROVE  k <= x
        <5>1. Waiting(v) /\ sem[v] = s
          BY <2>3, <2>4, <4>5 DEF PhaseKept
        <5>2. k <= x \/ \E u \in Tasks : ResumesFor(u, s) /\ k <= x + resuming[u].num
          BY <4>1, <5>1 DEF SpokenFor
        <5>3. ASSUME NEW u \in Tasks, ResumesFor(u, s)
              PROVE  resuming[u].num = 0
          <6>1. Resumes(u)
            BY <5>3, CallingIs DEF ResumesFor, Resumes, ResumeLabels
          <6>2. u = t
            BY <2>2, <6>1, OnlyResumer
          <6> QED  BY <3>5, <6>2
        <5>4. k <= x \/ k <= x + 0
          BY <5>2, <5>3
        <5> QED  BY <4>3, <4>4, <5>4
      <4>6. ASSUME NEW v \in Tasks, Waiting(v)', sem'[v] = s
            PROVE  count'[s] <= Cardinality(Lookers(s)')
        <5>1. k <= x
          BY <4>5, <4>6
        <5>2. k <= y
          BY <4>3, <4>4, <5>1
        <5> QED  BY <2>4, <4>1, <5>2
      <4> QED  BY <4>6 DEF SpokenFor
    <3>6. suspend_list[resuming[t].cond] = <<>> \/ resuming[t].num = 0
      BY <2>11 DEF ResumeUnlock
    <3> QED  BY <3>3, <3>4, <3>5, <3>6
  <2> QED  BY <1>2, <2>9, <2>10, <2>11
<1> QED  BY <1>1, <1>2

(* The semaphore's own steps.                                              *)
LEMMA TakeSpoken ==
  ASSUME Core, StatusTypes, NEW t \in Tasks, ObtainTake(t), OthersSame(t), NoPhase(t), ~ Waiting(t)',
         NEW s \in Conditions, SpokenFor(s)
  PROVE  SpokenFor(s)'
<1>0. Control /\ DataTypes /\ CallArguments
  BY DEF Core
<1>1. At(t, "so_take") /\ sem[t] \in Conditions /\ Point(t, 1) = "so_take"
  <2>1. At(t, "so_take") /\ "so_take" \in SemaphoreLabels
    BY DEF ObtainTake, SemaphoreLabels
  <2> QED  BY <1>0, <2>1, ItsSemaphore, SemaphorePoint
<1>2. ~ ResumesFor(t, s)
  BY <1>1 DEF ResumesFor
<1>3. CASE UNCHANGED pc /\ UNCHANGED <<count, sem>>
  <2>1. Point(t, 1)' = Point(t, 1) /\ UNCHANGED status
    BY <1>3 DEF Point, ObtainTake, suspendVars
  <2>2. Looks(t, s) => Looks(t, s)'
    BY <1>1, <1>3, <2>1 DEF Looks, NoPhase
  <2>3. AskKept(t, s)
    BY <1>2, <2>2 DEF AskKept
  <2> QED  BY <1>0, <1>3, <2>3, SpokenTask
<1>4. CASE s # sem[t] \/ status[t] # "SUCCESS"
  <2>1. ~ Looks(t, s)
    BY <1>1, <1>4 DEF Looks, NoPhase
  <2>2. AskKept(t, s)
    BY <1>2, <2>1 DEF AskKept
  <2>3. count'[s] = count[s]
    <3>1. UNCHANGED count \/ (status[t] = "SUCCESS" /\ count' = Taken(t))
      BY DEF ObtainTake
    <3>2. status[t] = "SUCCESS" /\ count' = Taken(t) => count'[s] = count[s]
      BY <1>0, <1>1, <1>4 DEF Taken, DataTypes
    <3> QED  BY <3>1, <3>2
  <2> QED  BY <1>0, <2>2, <2>3, SpokenTask
<1>5. CASE s = sem[t] /\ status[t] = "SUCCESS" /\ count' = Taken(t)
  <2>1. PICK L, M, k, l : L = Lookers(s) /\ M = Lookers(s)' /\ k = count[s] /\ l = count'[s]
    OBVIOUS
  <2>2. k \in Nat /\ l = k - 1
    BY <1>0, <1>5, <2>1 DEF DataTypes, Taken
  <2>3. L \ {t} \in SUBSET M
    <3>1. ASSUME NEW u \in Tasks, u # t, Looks(u, s)
          PROVE  Looks(u, s)'
      BY <3>1 DEF OthersSame, Looks, PhaseKept
    <3> QED  BY <2>1, <3>1 DEF Lookers
  <2>4. IsFiniteSet(L) /\ IsFiniteSet(M)
    <3>1. L \subseteq Tasks /\ M \subseteq Tasks
      BY <2>1 DEF Lookers
    <3> QED  BY <3>1, SemaphoreAssumption, FS_Subset
  <2>5. PICK x, y : x = Cardinality(L) /\ y = Cardinality(M)
    OBVIOUS
  <2>6. t \in L
    BY <1>1, <1>5, <2>1 DEF Lookers, Looks
  <2>7. x \in Nat /\ y \in Nat /\ x - 1 <= y
    <3>1. x \in Nat /\ y \in Nat
      BY <2>4, <2>5, FS_CardinalityType
    <3>2. Cardinality(L \ {t}) = x - 1
      BY <2>4, <2>5, <2>6, FS_RemoveElement
    <3>3. Cardinality(L \ {t}) <= y
      BY <2>3, <2>4, <2>5, FS_Subset
    <3> QED  BY <3>1, <3>2, <3>3
  <2>8. ASSUME NEW v \in Tasks, Waiting(v)', sem'[v] = s
        PROVE  l <= y \/ \E u \in Tasks : ResumesFor(u, s)' /\ l <= y + resuming'[u].num
    <3>1. v # t
      BY <2>8
    <3>2. Waiting(v) /\ sem[v] = s
      BY <2>8, <3>1 DEF OthersSame, PhaseKept
    <3>3. k <= x \/ \E u \in Tasks : ResumesFor(u, s) /\ k <= x + resuming[u].num
      BY <2>1, <2>5, <3>2 DEF SpokenFor
    <3>4. ASSUME NEW u \in Tasks, ResumesFor(u, s), k <= x + resuming[u].num
          PROVE  ResumesFor(u, s)' /\ l <= y + resuming'[u].num
      <4>1. PICK i : i = resuming[u].num
        OBVIOUS
      <4>2. i \in Int
        BY <1>0, <4>1, ListTypes DEF ResumeRecords
      <4>3. u # t
        BY <1>2, <3>4
      <4>4. ResumesFor(u, s)' /\ resuming'[u].num = i
        BY <3>4, <4>1, <4>3 DEF OthersSame, ResumesFor
      <4>5. l <= y + i
        BY <2>2, <2>7, <3>4, <4>1, <4>2
      <4> QED  BY <4>4, <4>5
    <3>5. k <= x => l <= y
      BY <2>2, <2>7
    <3> QED  BY <3>3, <3>4, <3>5
  <2>9. count'[s] = l /\ Cardinality(Lookers(s)') = y
    BY <2>1, <2>5
  <2> QED  BY <2>8, <2>9 DEF SpokenFor
<1>6. \/ UNCHANGED pc /\ UNCHANGED <<count, sem>>
      \/ status[t] # "SUCCESS"
      \/ status[t] = "SUCCESS" /\ count' = Taken(t)
  BY DEF ObtainTake
<1> QED  BY <1>3, <1>4, <1>5, <1>6

LEMMA IncrementSpoken ==
  ASSUME Core, NEW t \in Tasks, ReleaseIncrement(t), OthersSame(t), NoPhase(t), ~ Waiting(t)',
         NEW s \in Conditions, SpokenFor(s)
  PROVE  SpokenFor(s)'
<1>0. Control /\ DataTypes /\ CallArguments
  BY DEF Core
<1>1. At(t, "sr_inc") /\ sem[t] \in Conditions /\ Point(t, 1) = "sr_inc"
  <2>1. At(t, "sr_inc") /\ "sr_inc" \in SemaphoreLabels
    BY DEF ReleaseIncrement, SemaphoreLabels
  <2> QED  BY <1>0, <2>1, ItsSemaphore, SemaphorePoint
<1>2. count' = [count EXCEPT ![sem[t]] = @ + 1]
  BY DEF ReleaseIncrement
<1>3. CASE s # sem[t]
  <2>1. AskKept(t, s)
    BY <1>1, AskNone
  <2>2. count'[s] = count[s]
    BY <1>0, <1>1, <1>2, <1>3 DEF DataTypes
  <2> QED  BY <1>0, <2>1, <2>2, SpokenTask
<1>4. CASE s = sem[t]
  <2>1. PICK k \in Nat : k = count[s]
    BY <1>0 DEF DataTypes
  <2>2. count'[s] = k + 1
    BY <1>0, <1>1, <1>2, <1>4, <2>1 DEF DataTypes
  <2>3. resuming'[t].cond = s /\ resuming'[t].num = k + 1
    <3>1. PICK n : n = k + 1
      OBVIOUS
    <3>2. PICK r : r = [NoResume EXCEPT !.cond = s, !.num = n, !.status = "SUCCESS"]
      OBVIOUS
    <3>3. r.cond = s /\ r.num = n
      BY <3>2 DEF NoResume
    <3>4. resuming' = [resuming EXCEPT ![t] = r]
      BY <1>4, <2>1, <3>1, <3>2 DEF ReleaseIncrement, resume_condition, Resumable
    <3>5. resuming'[t] = r
      BY <1>0, <3>4 DEF DataTypes, CallTypes
    <3> QED  BY <3>1, <3>3, <3>5
  <2>4. ResumesFor(t, s)'
    BY <1>0, <2>3, IncrementControl DEF NewStack, ResumesFor
  <2>5. PICK M, y : M = Lookers(s)' /\ y = Cardinality(M)
    OBVIOUS
  <2>6. y \in Nat
    <3>1. M \subseteq Tasks
      BY <2>5 DEF Lookers
    <3> QED  BY <2>5, <3>1, SemaphoreAssumption, FS_Subset, FS_CardinalityType
  <2>7. k + 1 <= y + (k + 1)
    BY <2>1, <2>6
  <2>8. count'[s] <= Cardinality(Lookers(s)') + resuming'[t].num
    BY <2>2, <2>3, <2>5, <2>7
  <2> QED  BY <2>4, <2>8 DEF SpokenFor
<1> QED  BY <1>3, <1>4

LEMMA SemaphoreSpoken ==
  ASSUME MayDestroy = {}, Core, StatusTypes, destroyed = {}, NEW t \in Tasks,
         SemaphoreCall(t) \/ SemaphoreUse(t), NEW s \in Conditions, SpokenFor(s)
  PROVE  SpokenFor(s)'
<1>0. Control /\ DataTypes /\ CallArguments /\ Stacks
  BY DEF Core, Control
<1>1. /\ mode = "task" /\ current_task = t /\ Point(t, 2) = "user" /\ Point(t, 3) = "user"
      /\ Point(t, 1) \in SemaphoreLabels \cup {"user"}
  BY NotDestroyed
<1>2. \A u \in Tasks : PhaseKept(u)
  BY <1>0, SemaphorePhases
<1>3. NoPhase(t) /\ ~ Waiting(t)'
  <2>1. NoPhase(t)
    BY <1>1, PhaseAt DEF SemaphoreLabels
  <2> QED  BY <1>2, <2>1 DEF NoPhase, PhaseKept
<1>4. \A u \in Tasks : u # t => Point(u, 1)' = Point(u, 1)
  BY NotDestroyed DEF NewStack, Point
<1>5. \A u \in Tasks : u # t => sem'[u] = sem[u]
  <2>1. UNCHANGED sem \/ \E x : sem' = [sem EXCEPT ![t] = x]
    BY DEF SemaphoreCall, ObtainTest, ObtainTake, ReleaseIncrement, DestroyClear,
       SemaphoreUse, semaphore_obtain, semaphore_release, semaphore_destroy, EnterLocked,
       semVars
  <2> QED  BY <1>0, <2>1 DEF DataTypes, CallTypes
<1>6. \A u \in Tasks : u # t => status'[u] = status[u]
  <2>1. UNCHANGED status \/ \E x : status' = [status EXCEPT ![t] = x]
    BY DEF SemaphoreCall, ObtainTest, ObtainTake, ReleaseIncrement, DestroyClear,
       SemaphoreUse, semaphore_obtain, semaphore_release, semaphore_destroy, EnterLocked,
       condVars, suspendVars, suspend_condition
  <2> QED  BY <2>1 DEF StatusTypes
<1>7. \A u \in Tasks : u # t => resuming'[u] = resuming[u]
  <2>1. CASE ReleaseIncrement(t)
    BY <1>0, <2>1, IncrementData
  <2>2. CASE ~ ReleaseIncrement(t)
    BY <2>2, NotDestroyed
  <2> QED  BY <2>1, <2>2
<1>8. OthersSame(t)
  BY <1>2, <1>4, <1>5, <1>6, <1>7 DEF OthersSame
<1>9. CASE ObtainTake(t)
  BY <1>3, <1>8, <1>9, TakeSpoken
<1>10. CASE ReleaseIncrement(t)
  BY <1>3, <1>8, <1>10, IncrementSpoken
<1>11. CASE ~ ObtainTake(t) /\ ~ ReleaseIncrement(t)
  <2>1. ~ DestroyClear(t)
    <3>1. ASSUME DestroyClear(t)
          PROVE  FALSE
      <4>1. At(t, "sd_clear")
        BY <3>1 DEF DestroyClear
      <4> QED  BY <1>0, <4>1, ItsSemaphore
    <3> QED  BY <3>1
  <2>2. ObtainTest(t) \/ SemaphoreUse(t)
    BY <1>11, <2>1 DEF SemaphoreCall
  <2>3. UNCHANGED count
    BY <2>2 DEF ObtainTest, SemaphoreUse, semaphore_obtain, semaphore_release, semaphore_destroy,
                condVars
  <2>4. At(t, "so_test") \/ InUser(t)
    BY <2>2 DEF ObtainTest, SemaphoreUse, semaphore_obtain, semaphore_release, semaphore_destroy,
                EnterLocked
  <2>5. Point(t, 1) \notin {"sc_end", "so_take", "rc_lock", "rc_loop"}
    BY <1>0, <2>4, ExecFacts, UserFacts
  <2>6. AskKept(t, s)
    BY <1>3, <2>5, AskNone
  <2> QED  BY <1>0, <1>8, <2>3, <2>6, SpokenTask
<1> QED  BY <1>9, <1>10, <1>11

LEMMA SpokenStep ==
  ASSUME MayDestroy = {}, Sound, destroyed = {}, ResumerKeepsCPU, SuspendLists, SleepersExact,
         OnlyReleases, NoneFound, [SemNext]_vars, NEW s \in Conditions, SpokenFor(s)
  PROVE  SpokenFor(s)'
<1>0. Core /\ DataTypes /\ ReadyOK /\ WaitsKept /\ ResumedMayTake /\ StatusTypes
  BY DEF Sound, Core
<1>1. CASE UNCHANGED vars
  <2>1. UNCHANGED <<pc, state, resume_from, from, count, sem, status, resuming>>
    BY <1>1 DEF vars, kernelVars, condVars, suspendVars, semVars
  <2>2. ASSUME NEW u \in Tasks
        PROVE  AskKept(u, s)
    <3>1. PhaseKept(u)
      BY <2>1, PointsStay, PhaseSame DEF Suspended
    <3>2. Point(u, 1)' = Point(u, 1)
      BY <2>1 DEF Point
    <3> QED  BY <2>1, <3>1, <3>2, AskSame
  <2> QED  BY <1>0, <2>1, <2>2, SpokenStays
<1>2. CASE SemNext
  <2>1. CASE SemBoot \/ SemPendSV \/ SemTick
    <3>1. /\ Boot \/ PendSV \/ isr_sysclock_handle
          /\ UNCHANGED <<condVars, semVars>>
      BY <2>1 DEF SemBoot, SemPendSV, SemTick, ConditionTick
    <3> QED  BY <1>0, <3>1, OutsideSpoken
  <2>2. ASSUME NEW t \in Tasks, KernelCall(t) \/ UserCall(t), UNCHANGED <<condVars, semVars>>
        PROVE  SpokenFor(s)'
    BY <1>0, <2>2, OutsideSpoken
  <2>3. ASSUME NEW t \in Tasks, ConditionCall(t), UNCHANGED semVars
        PROVE  SpokenFor(s)'
    BY <1>0, <2>3, SuspendSpoken, ResumeSpoken DEF ConditionCall
  <2>4. ASSUME NEW t \in Tasks, SemaphoreCall(t) \/ SemaphoreUse(t)
        PROVE  SpokenFor(s)'
    BY <1>0, <2>4, SemaphoreSpoken
  <2> QED  BY <1>2, <2>1, <2>2, <2>3, <2>4 DEF SemNext, CallStep
<1> QED  BY <1>1, <1>2

LEMMA WakeupInit ==
  ASSUME SemInit
  PROVE  WakeupInvariant
<1>1. Init /\ CondInit /\ wait = [t \in Tasks |-> 0]
  BY DEF SemInit
<1>2. \A t \in Tasks : Point(t, 1) = "user" /\ Point(t, 2) = "user" /\ Point(t, 3) = "user"
  BY <1>1 DEF Init, Point
<1>3. \A t \in Tasks : NoPhase(t)
  BY <1>2, PhaseAt
<1>4. OnlyReleases
  <2>1. ToSet(<<>>) = {}
    BY DEF ToSet
  <2>2. ASSUME NEW t \in Tasks
        PROVE  Released(t)
    BY <1>1, <2>1 DEF CondInit, NoResume, Released
  <2> QED  BY <1>3, <2>2, ReleasesAre DEF NoPhase
<1>5. SleepEnded
  BY <1>1 DEF Init, SleepEnded
<1>6. NoneFound
  BY <1>2, <1>3 DEF NoneFound, NoPhase
<1>7. \A s \in Conditions : SpokenFor(s)
  BY <1>3 DEF SpokenFor, NoPhase
<1> QED  BY <1>4, <1>5, <1>6, <1>7 DEF WakeupInvariant

(* A task that waits without being ready waits for the semaphore of its    *)
(* call.                                                                   *)
LEMMA SuspendedWaits ==
  ASSUME Core, WaitsKept, NEW t \in Tasks, NEW s, Suspended(t), conds[t] = <<s>>
  PROVE  Waiting(t) /\ sem[t] = s
<1>1. Stacks /\ Arguments(t) /\ <<s>> # <<>>
  BY DEF Core, Control, CallArguments
<1>2. InSuspend(t)
  BY <1>1 DEF Arguments
<1>3. sem[t] = s
  <2>1. conds[t] = <<sem[t]>>
    BY <1>1, <1>2 DEF Arguments
  <2> QED  BY <2>1
<1>4. /\ Point(t, 1) \in {"pend", "back"}
      /\ StackForm(Point(t, 1), Point(t, 2), Point(t, 3))
      /\ Point(t, 2) = "so_take" \/ Point(t, 3) = "so_take"
  BY <1>1, <1>2, TaskStack, CallingIs DEF WaitsKept, WaitForm
<1>5. Point(t, 2) = "sc_woke"
  BY <1>4 DEF StackForm, Labels, SemaphoreLabels, SuspendLabels, ConditionLabels, ResumeLabels
<1> QED  BY <1>3, <1>5, CallingIs DEF Waiting

(* A task that was resumed is inside suspend_condition, ready.             *)
LEMMA ResumedIsReady ==
  ASSUME Core, WaitsKept, SleepEnded, NEW t \in Tasks, Resumed(t) \/ Point(t, 1) = "sc_end"
  PROVE  InSuspend(t) /\ ~ Suspended(t) /\ state[t] # "SLEEP_RESUME"
<1>1. StackForm(Point(t, 1), Point(t, 2), Point(t, 3))
  BY TaskStack DEF Core, Control
<1>2. /\ Suspended(t) => Point(t, 1) \in {"pend", "back"}
      /\ state[t] = "SLEEP_RESUME" => resume_from[t] = "SLEEP" /\ Point(t, 1) \in {"pend", "back"}
  BY DEF WaitsKept, WaitForm, SleepEnded
<1>3. CASE Calling(t, "sc_woke") /\ ~ Suspended(t) /\ resume_from[t] = "SYSTEM"
  <2>1. Point(t, 1) = "sc_woke" \/ Point(t, 2) = "sc_woke" \/ Point(t, 3) = "sc_woke"
    BY <1>3, CallingIs
  <2>2. Point(t, 2) = "so_take" \/ Point(t, 3) = "so_take"
    BY <1>1, <2>1
       DEF StackForm, Labels, SemaphoreLabels, SuspendLabels, ConditionLabels, ResumeLabels
  <2> QED  BY <1>2, <1>3, <2>2, CallingIs
<1>4. CASE Calling(t, "sc_done") \/ Point(t, 1) = "sc_end"
  <2>1. \/ Point(t, 1) = "sc_done" \/ Point(t, 2) = "sc_done" \/ Point(t, 3) = "sc_done"
        \/ Point(t, 1) = "sc_end"
    BY <1>4, CallingIs
  <2>2. /\ Point(t, 2) = "so_take" \/ Point(t, 3) = "so_take"
        /\ Point(t, 1) \notin {"pend", "back"}
    BY <1>1, <2>1
       DEF StackForm, Labels, SemaphoreLabels, SuspendLabels, ConditionLabels, ResumeLabels
  <2> QED  BY <1>2, <2>2, CallingIs
<1> QED  BY <1>3, <1>4 DEF Resumed, Ended

LEMMA LookerLooks ==
  ASSUME Core, WaitsKept, OnlyReleases, SleepEnded, NEW t \in Tasks, NEW s, Looks(t, s)
  PROVE  WillLook(t, s)
<1>1. CASE Point(t, 1) = "so_take" /\ status[t] = "SUCCESS"
  BY <1>1, TaskStack DEF Looks, WillLook, Core, Control
<1>2. CASE Resumed(t) \/ Point(t, 1) = "sc_end"
  <2>1. InSuspend(t) /\ ~ Suspended(t) /\ state[t] # "SLEEP_RESUME"
    BY <1>2, ResumedIsReady
  <2>2. conds[t] = <<sem[t]>> /\ sem[t] = s
    BY <2>1 DEF Core, CallArguments, Arguments, Looks
  <2>3. from[t] = "SYSTEM"
    BY DEF OnlyReleases
  <2> QED  BY <2>1, <2>2, <2>3 DEF WillLook, Suspended
<1> QED  BY <1>1, <1>2 DEF Looks

LEMMA SpokenIsEnough ==
  ASSUME Core, WaitsKept, destroyed = {}, WakeupInvariant
  PROVE  NoLostWakeup
<1>1. OnlyReleases /\ SleepEnded /\ \A s \in Conditions : SpokenFor(s)
  BY DEF WakeupInvariant
<1>2. ASSUME NEW s \in Conditions, count[s] > 0,
             NEW w \in Tasks, state[w] = "SUSPENDED", conds[w] = <<s>>
      PROVE  \E t \in Tasks : WillLook(t, s)
  <2>1. Waiting(w) /\ sem[w] = s
    BY <1>2, SuspendedWaits DEF Suspended
  <2>2. CASE count[s] <= Cardinality(Lookers(s))
    <3>1. count[s] \in Nat
      BY DEF Core, DataTypes
    <3>2. PICK L : L = Lookers(s)
      OBVIOUS
    <3>3. Cardinality({}) = 0 /\ Cardinality(L) \in Nat
      BY <3>2, LookersFinite, FS_EmptySet
    <3>4. L # {}
      BY <1>2, <2>2, <3>1, <3>2, <3>3
    <3>5. PICK t \in Tasks : Looks(t, s)
      BY <3>2, <3>4 DEF Lookers
    <3> QED  BY <1>1, <3>5, LookerLooks
  <2>3. CASE \E u \in Tasks : ResumesFor(u, s)
    BY <2>3 DEF ResumesFor, WillLook
  <2> QED  BY <1>1, <2>1, <2>2, <2>3 DEF SpokenFor
<1> QED  BY <1>2 DEF NoLostWakeup

(* WakeupInvariant: as long as a task waits for a semaphore, its units are *)
(* spoken for: by tasks that were resumed and have not looked yet, or by a *)
(* resume_condition that still counts them.                                *)
THEOREM UnitsSpokenFor ==
  ASSUME MayDestroy = {}, Waits \subseteq {0, MAX_WAIT}
  PROVE  SemSpec => [](destroyed = {} /\ WakeupInvariant)
<1> DEFINE Lists == destroyed = {} /\ ResumerKeepsCPU /\ SuspendLists
<1>1. SemInit => Sound /\ SleepersExact /\ Lists /\ WakeupInvariant
  BY SoundInit, SleepersInit, ListsInit, WakeupInit
<1>2. Sound /\ SleepersExact /\ [SemNext]_vars => (Sound /\ SleepersExact)'
  BY SoundStep, SleepersStep DEF Sound
<1>3. Sound /\ Lists /\ [SemNext]_vars => Lists'
  BY ResumerStep, ListsStep DEF Sound
<1>4. ASSUME Sound, SleepersExact, Lists, WakeupInvariant, [SemNext]_vars
      PROVE  WakeupInvariant'
  <2>1. OnlyReleases' /\ SleepEnded' /\ NoneFound'
    BY <1>4, ReleasesStep, SleepEndedStep, NoneFoundStep DEF Sound, WakeupInvariant
  <2>2. \A s \in Conditions : SpokenFor(s)'
    BY <1>4, SpokenStep DEF WakeupInvariant
  <2> QED  BY <2>1, <2>2 DEF WakeupInvariant
<1>5. Sound /\ SleepersExact /\ Lists /\ WakeupInvariant => destroyed = {} /\ WakeupInvariant
  OBVIOUS
<1> QED  BY <1>1, <1>2, <1>3, <1>4, <1>5, PTL DEF SemSpec

(* NoLostWakeup: while a semaphore has a unit and a task sleeps waiting    *)
(* for it, another task is on its way to take one: no interleaving of      *)
(* semaphore_obtain, semaphore_release, resume_condition and               *)
(* suspend_condition loses a wake-up.                                      *)
THEOREM NoWakeupLost ==
  ASSUME MayDestroy = {}, Waits \subseteq {0, MAX_WAIT}
  PROVE  SemSpec => []NoLostWakeup
<1>1. Sound /\ destroyed = {} /\ WakeupInvariant => NoLostWakeup
  BY SpokenIsEnough DEF Sound
<1> QED  BY <1>1, UnitsSpokenFor, SoundInit, SoundStep, PTL DEF SemSpec

----------------------------------------------------------------------------
(* Priorities: a task made ready gets the CPU from one of lower priority.  *)

LEMMA HigherBound ==
  ASSUME mode' = "task" => BoundToYield(current_task)'
  PROVE  HigherWillRun'
BY DEF HigherWillRun

LEMMA HigherKept ==
  ASSUME HigherWillRun, mode = "task", UNCHANGED <<current_task, sch_ready_task_list>>,
         mode' = "task" /\ BoundToYield(current_task) => BoundToYield(current_task)'
  PROVE  HigherWillRun'
BY DEF HigherWillRun

(* A step of a task that has the CPU and is not being switched out.        *)
LEMMA BoundMove ==
  ASSUME NEW t, NEW a, NEW b, NEW c, NewStack(t, a, b, c), ~ pend_sv, Point(t, 1) # "pend",
         drift[t] => drift'[t],
         resuming[t].yield /\ (Point(t, 1) \in {"rc_loop", "rc_yield"} \/ Point(t, 2) = "rc_yield")
           => resuming'[t].yield /\ (a \in {"rc_loop", "rc_yield"} \/ b = "rc_yield"),
         drift[t] /\ (lock_count[t] > 0 \/ Point(t, 1) = "drift")
           => lock_count'[t] > 0 \/ a = "drift",
         BoundToYield(t)
  PROVE  BoundToYield(t)'
BY DEF BoundToYield, NewStack

(* The task that the scheduler picks has the highest priority.             *)
LEMMA HigherNext ==
  ASSUME StateTypeOK, ReadyOK, SwitchToNext
  PROVE  HigherWillRun'
<1>1. CASE sch_ready_task_list = <<>>
  BY <1>1 DEF SwitchToNext, Halt, HigherWillRun
<1>2. CASE sch_ready_task_list # <<>>
  <2>1. PICK list : list = sch_ready_task_list
    OBVIOUS
  <2>2. list \in Seq(Tasks) /\ Len(list) \in Nat /\ Len(list) >= 1 /\ Head(list) = list[1]
    BY <1>2, <2>1 DEF StateTypeOK
  <2>3. current_task' = list[1] /\ sch_ready_task_list' = Tail(list)
    BY <1>2, <2>1, <2>2 DEF SwitchToNext
  <2>4. ASSUME NEW u \in ToSet(Tail(list))
        PROVE  Priority[list[1]] <= Priority[u]
    <3>1. PICK i \in 1 .. Len(Tail(list)) : u = Tail(list)[i]
      BY <2>4 DEF ToSet
    <3>2. i + 1 \in 1 .. Len(list) /\ 1 \in 1 .. Len(list) /\ 1 < i + 1 /\ u = list[i + 1]
      BY <2>2, <3>1
    <3> QED  BY <2>1, <3>2 DEF ReadyOK, ReadyListSorted
  <2> QED  BY <2>3, <2>4 DEF HigherWillRun
<1> QED  BY <1>1, <1>2

LEMMA SystemHigher ==
  ASSUME Control, ReadyOK, HigherWillRun, Boot \/ PendSV \/ isr_sysclock_handle,
         UNCHANGED resuming
  PROVE  HigherWillRun'
<1>1. CASE SwitchToNext
  BY <1>1, HigherNext DEF Control
<1>2. CASE mode' # "task"
  BY <1>2 DEF HigherWillRun
<1>3. CASE isr_sysclock_handle
  <2>1. /\ mode = "task" /\ UNCHANGED <<lock_count, pc, sch_ready_task_list, current_task>>
        /\ Preempt \/ UNCHANGED <<pend_sv, drift, mode, interrupts>>
    BY <1>3 DEF isr_sysclock_handle, lists
  <2>2. current_task \in Tasks /\ drift \in [Tasks -> BOOLEAN]
    BY <2>1 DEF Control, SemCurrent, StateTypeOK
  <2>3. \A i : Point(current_task, i)' = Point(current_task, i)
    BY <2>1 DEF Point
  <2>4. mode' = "task" => /\ pend_sv => pend_sv'
                          /\ drift[current_task] => drift'[current_task]
    BY <2>1, <2>2 DEF Preempt, Halt
  <2>5. mode' = "task" /\ BoundToYield(current_task) => BoundToYield(current_task)'
    BY <2>1, <2>3, <2>4 DEF BoundToYield
  <2> QED  BY <2>1, <2>5, HigherKept
<1> QED  BY <1>1, <1>2, <1>3 DEF Boot, BootAdd, run_first_task, PendSV, SaveCurrent,
            sleep_process_system_tick, LoadNext, cpuVars

LEMMA KernelHigher ==
  ASSUME MayAdd = {}, Control, HigherWillRun, NEW t \in Tasks, KernelCall(t) \/ UserCall(t),
         UNCHANGED resuming
  PROVE  HigherWillRun'
<1>0. /\ UNCHANGED <<current_task, sch_ready_task_list>>
      /\ Stacks /\ lock_count[t] \in Nat /\ drift \in [Tasks -> BOOLEAN]
      /\ lock_count \in [Tasks -> 0 .. MaxLock]
  <2>1. ~ \E new \in Tasks : scheduler_task_add(t, new)
    BY DEF scheduler_task_add
  <2>2. KernelCall(t) => UNCHANGED <<current_task, sch_ready_task_list>>
    BY DEF KernelCall, PEND_SV, RestoreLevel, scheduler_unlock, UnlockYield, SleepAdd,
           SleepInsert, SleepSuspend, cpuVars, lists
  <2>3. UserCall(t) => UNCHANGED <<current_task, sch_ready_task_list>>
    BY <2>1 DEF UserCall, scheduler_lock, UserUnlock, task_yield, sleep_ticks,
                task_entry_return, cpuVars, lists
  <2>4. Stacks /\ drift \in [Tasks -> BOOLEAN] /\ lock_count \in [Tasks -> 0 .. MaxLock]
    BY DEF Control, StateTypeOK
  <2> QED  BY <2>2, <2>3, <2>4, LockAssumption
<1>1. PICK p1, p2, p3 : p1 = Point(t, 1) /\ p2 = Point(t, 2) /\ p3 = Point(t, 3)
  OBVIOUS
<1>2. ASSUME NEW label, At(t, label)
      PROVE  mode = "task" /\ current_task = t /\ ~ pend_sv /\ p1 = label
  BY <1>1, <1>2, ExecFacts
<1>3. ASSUME NEW label, At(t, label), mode' = "task" => BoundToYield(t)'
      PROVE  HigherWillRun'
  BY <1>0, <1>2, <1>3, HigherBound
<1>4. ASSUME NEW label, At(t, label), BoundToYield(t) /\ mode' = "task" => BoundToYield(t)'
      PROVE  HigherWillRun'
  BY <1>0, <1>2, <1>4, HigherKept
<1>5. CASE PEND_SV(t)
  <2>1. At(t, "pend") /\ pend_sv'
    BY <1>5 DEF PEND_SV
  <2> QED  BY <1>3, <2>1 DEF BoundToYield
<1>6. CASE RestoreLevel(t)
  <2>1. At(t, "back") /\ UNCHANGED <<lock_count, drift>>
    BY <1>6 DEF RestoreLevel
  <2>2. NewStack(t, p2, p3, "user")
    BY <1>1, <1>6, RestoreControl
  <2>3. BoundToYield(t) => BoundToYield(t)'
    BY <1>1, <1>2, <2>1, <2>2, BoundMove
  <2> QED  BY <1>4, <2>1, <2>3
<1>7. CASE scheduler_unlock(t)
  <2>1. At(t, "unlock") /\ UNCHANGED drift
    BY <1>7 DEF scheduler_unlock
  <2>2. NewStack(t, "drift", p2, p3)
    BY <1>1, <1>7, UnlockControl
  <2>3. BoundToYield(t) => BoundToYield(t)'
    BY <1>1, <1>2, <2>1, <2>2, BoundMove
  <2> QED  BY <1>4, <2>1, <2>3
<1>8. CASE UnlockYield(t)
  <2>1. At(t, "drift") /\ UNCHANGED lock_count
    BY <1>8 DEF UnlockYield
  <2>2. CASE lock_count[t] = 0 /\ drift[t]
    <3>1. Go(t, <<"pend">>)
      BY <1>8, <2>2 DEF UnlockYield
    <3>2. pc'[t] = <<"pend">> \o Tail(pc[t]) /\ Tail(pc[t]) \in Seq(AllLabels)
      <4>1. pc \in [Tasks -> Seq(AllLabels)] /\ Len(pc[t]) \in 1 .. 4
        BY <1>0 DEF Stacks, CallStack
      <4>2. \A s \in Seq(AllLabels) : Len(s) \in 1 .. 4 => Tail(s) \in Seq(AllLabels)
        OBVIOUS
      <4>3. Tail(pc[t]) \in Seq(AllLabels)
        BY <4>1, <4>2
      <4>4. pc'[t] = <<"pend">> \o Tail(pc[t])
        BY <3>1, <4>1 DEF Go
      <4> QED  BY <4>3, <4>4
    <3>3. Point(t, 1)' = "pend"
      <4>1. PICK s, r : s = Tail(pc[t]) /\ r = <<"pend">> \o s
        OBVIOUS
      <4>2. r[1] = "pend" /\ Len(r) >= 1
        BY <3>2, <4>1
      <4> QED  BY <3>2, <4>1, <4>2 DEF Point
    <3> QED  BY <1>3, <2>1, <3>3 DEF BoundToYield
  <2>3. CASE ~ (lock_count[t] = 0 /\ drift[t])
    <3>1. Go(t, <<>>) /\ UNCHANGED drift
      BY <1>8, <2>3 DEF UnlockYield
    <3>2. NewStack(t, p2, p3, "user")
      <4>1. p1 # "user"
        BY <1>2, <2>1
      <4> QED  BY <1>0, <1>1, <3>1, <4>1, GoPop
    <3>3. BoundToYield(t) => BoundToYield(t)'
      BY <1>0, <1>1, <1>2, <2>1, <2>3, <3>1, <3>2, BoundMove
    <3> QED  BY <1>4, <2>1, <3>3
  <2> QED  BY <2>2, <2>3
<1>9. CASE SleepAdd(t) \/ SleepInsert(t)
  <2>1. PICK label \in {"sl_add", "sl_insert"} : At(t, label)
    BY <1>9 DEF SleepAdd, SleepInsert
  <2>2. UNCHANGED <<lock_count, drift>>
    BY <1>9 DEF SleepAdd, SleepInsert
  <2>3. PICK a \in {"sl_insert", "sl_suspend"} : NewStack(t, a, p2, p3)
    BY <1>1, <1>9, SleepStepControl
  <2>4. BoundToYield(t) => BoundToYield(t)'
    BY <1>1, <1>2, <2>1, <2>2, <2>3, BoundMove
  <2> QED  BY <1>4, <2>1, <2>4
<1>10. CASE SleepSuspend(t)
  <2>1. At(t, "sl_suspend")
    BY <1>10 DEF SleepSuspend
  <2>2. Point(t, 1)' = "pend"
    BY <1>10, SleepSuspendControl DEF NewStack
  <2> QED  BY <1>3, <2>1, <2>2 DEF BoundToYield
<1>11. CASE UserCall(t)
  <2>1. InUser(t) /\ At(t, "user")
    BY <1>11 DEF UserCall, scheduler_lock, UserUnlock, task_yield, sleep_ticks,
                 task_entry_return, scheduler_task_add, InUser
  <2>2. p1 = "user" /\ p2 = "user" /\ p3 = "user" /\ ~ pend_sv
    BY <1>1, <2>1, UserFacts
  <2>3. CASE scheduler_lock(t)
    <3>1. NewStack(t, "user", "user", "user")
      <4>1. UNCHANGED pc
        BY <2>3 DEF scheduler_lock
      <4> QED  BY <1>0, <1>1, <2>2, <4>1, StacksUnchanged DEF NewStack
    <3>2. UNCHANGED drift /\ (lock_count[t] > 0 => lock_count'[t] > 0)
      BY <1>0, <2>3 DEF scheduler_lock
    <3>3. BoundToYield(t) => BoundToYield(t)'
      BY <1>1, <2>2, <3>1, <3>2, BoundMove
    <3> QED  BY <1>4, <2>1, <3>3
  <2>4. CASE UserUnlock(t)
    <3>1. UNCHANGED <<lock_count, drift>>
      BY <2>4 DEF UserUnlock
    <3>2. NewStack(t, "unlock", "user", "user")
      BY <2>4, UserUnlockControl
    <3>3. BoundToYield(t) => BoundToYield(t)'
      BY <1>1, <2>2, <3>1, <3>2, BoundMove
    <3> QED  BY <1>4, <2>1, <3>3
  <2>5. CASE task_yield(t)
    <3>1. CASE lock_count[t] = 0
      <4>1. Go(t, <<"pend", "user">>)
        BY <2>5, <3>1 DEF task_yield
      <4>2. NewStack(t, "pend", "user", "user")
        <5>1. "pend" \in Above("user")
          BY AboveIs DEF Labels
        <5> QED  BY <1>0, <1>1, <2>2, <4>1, <5>1, GoCall
      <4> QED  BY <1>3, <2>1, <4>2 DEF BoundToYield, NewStack
    <3>2. CASE lock_count[t] # 0
      <4>1. drift'[t] /\ lock_count'[t] > 0
        BY <1>0, <2>5, <3>2 DEF task_yield
      <4> QED  BY <1>3, <2>1, <4>1 DEF BoundToYield
    <3> QED  BY <3>1, <3>2
  <2>6. ASSUME NEW n \in Delays[t], sleep_ticks(t, n)
        PROVE  HigherWillRun'
    <3>1. UNCHANGED drift /\ (lock_count[t] > 0 => lock_count'[t] > 0)
      BY <1>0, <2>6 DEF sleep_ticks
    <3>2. NewStack(t, "sl_add", "user", "user")
      BY <2>6, SleepTicksControl
    <3>3. BoundToYield(t) => BoundToYield(t)'
      BY <1>1, <2>2, <3>1, <3>2, BoundMove
    <3> QED  BY <1>4, <2>1, <3>3
  <2>7. CASE task_entry_return(t)
    <3>1. NewStack(t, "pend", "user", "user")
      BY <2>7, EntryReturnControl
    <3> QED  BY <1>3, <2>1, <3>1 DEF BoundToYield, NewStack
  <2>8. ~ \E new \in Tasks : scheduler_task_add(t, new)
    BY DEF scheduler_task_add
  <2> QED  BY <1>11, <2>3, <2>4, <2>5, <2>6, <2>7, <2>8 DEF UserCall
<1> QED  BY <1>5, <1>6, <1>7, <1>8, <1>9, <1>10, <1>11 DEF KernelCall

(* A step of a function that neither made a task ready nor yields.         *)
LEMMA HigherGoesOn ==
  ASSUME Control, HigherWillRun, NEW t \in Tasks, NEW label, At(t, label),
         label \notin {"pend", "drift", "rc_loop", "rc_yield"}, Point(t, 2) # "rc_yield",
         UNCHANGED <<current_task, sch_ready_task_list, drift>>,
         lock_count[t] > 0 => lock_count'[t] > 0,
         \/ \E a, b, c : NewStack(t, a, b, c)
         \/ mode' = "assert"
  PROVE  HigherWillRun'
<1>1. mode = "task" /\ current_task = t /\ ~ pend_sv /\ Point(t, 1) = label
  BY ExecFacts
<1>2. mode' = "task" /\ BoundToYield(t) => BoundToYield(t)'
  BY <1>1, BoundMove
<1> QED  BY <1>1, <1>2, HigherKept

LEMMA SuspendHigher ==
  ASSUME Control, DataTypes, HigherWillRun, NEW t \in Tasks,
         \/ suspend_timeout_get_min(t) \/ suspend_do_suspend(t)
         \/ suspend_condition_add_task(t) \/ SuspendLock(t)
         \/ SuspendSleep(t) \/ SuspendInsert(t) \/ SuspendSwitch(t) \/ SuspendWoke(t)
         \/ suspend_condition_remove_all(t) \/ suspend_condition_remove(t)
         \/ SuspendReturn(t)
  PROVE  HigherWillRun'
<1>1. PICK label \in {"sc_timeout", "sc_check", "sc_append", "sc_lock", "sc_sleep", "sc_insert",
                      "sc_suspend", "sc_woke", "sc_done", "sc_end"} : At(t, label)
  BY DEF suspend_timeout_get_min, suspend_do_suspend, suspend_condition_add_task, SuspendLock,
         SuspendSleep, SuspendInsert, SuspendSwitch, SuspendWoke, suspend_condition_remove_all,
         suspend_condition_remove, SuspendReturn
<1>2. Point(t, 1) = label /\ Point(t, 2) = "so_take" /\ current_task = t /\ mode = "task"
  BY <1>1, InSuspendAt, ExecFacts
<1>3. lock_count \in [Tasks -> 0 .. MaxLock] /\ MaxLock \in Nat
  BY LockAssumption DEF Control, StateTypeOK
<1>4. UNCHANGED <<current_task, sch_ready_task_list, drift>>
  BY DEF suspend_timeout_get_min, suspend_do_suspend, suspend_condition_add_task, SuspendLock,
         SuspendSleep, SuspendInsert, SuspendSwitch, SuspendWoke, suspend_condition_remove_all,
         suspend_condition_remove, SuspendReturn, cpuVars, lists
<1>5. lock_count[t] > 0 => lock_count'[t] > 0
  <2>1. CASE SuspendLock(t)
    BY <1>3, <2>1 DEF SuspendLock
  <2>2. CASE ~ SuspendLock(t)
    BY <2>2 DEF suspend_timeout_get_min, suspend_do_suspend, suspend_condition_add_task,
         SuspendSleep, SuspendInsert, SuspendSwitch, SuspendWoke, suspend_condition_remove_all,
         suspend_condition_remove, SuspendReturn
  <2> QED  BY <2>1, <2>2
<1>6. CASE SuspendSwitch(t)
  <2>1. Point(t, 1)' = "pend"
    BY <1>6, SuspendSwitchControl DEF NewStack
  <2> QED  BY <1>2, <1>4, <2>1, HigherBound DEF BoundToYield
<1>7. CASE ~ SuspendSwitch(t)
  <2>1. \/ \E a, b, c : NewStack(t, a, b, c)
        \/ mode' = "assert"
    BY <1>7, GetMinControl, DoSuspendControl, AddTaskControl, SuspendLockControl,
       SuspendSleepControl, SuspendInsertControl, WokeControl, RemoveAllControl, RemoveControl,
       ReturnControl DEF DataTypes
  <2> QED  BY <1>1, <1>2, <1>4, <1>5, <2>1, HigherGoesOn
<1> QED  BY <1>6, <1>7

(* resume_condition: it yields once it has resumed a task.                 *)
LEMMA ResumeHigher ==
  ASSUME Control, DataTypes, CallArguments, HigherWillRun, NEW t \in Tasks,
         \/ ResumeLock(t) \/ ResumeOne(t) \/ ResumeUnlock(t) \/ ResumeYield(t)
         \/ ResumeReturn(t)
  PROVE  HigherWillRun'
<1>0. /\ resuming \in [Tasks -> ResumeRecords] /\ drift \in [Tasks -> BOOLEAN]
      /\ lock_count \in [Tasks -> 0 .. MaxLock] /\ MaxLock \in Nat
  BY LockAssumption DEF Control, StateTypeOK, DataTypes, CallTypes, ResumeRecords
<1>1. PICK label \in ResumeLabels : At(t, label)
  BY DEF ResumeLock, ResumeOne, ResumeUnlock, ResumeYield, ResumeReturn, ResumeLabels
<1>2. /\ mode = "task" /\ current_task = t /\ ~ pend_sv /\ Point(t, 1) = label
      /\ Point(t, 2) \in {"unlock", "sd_clear"}
  BY <1>1, ResumePoint
<1>3. UNCHANGED current_task
  BY DEF ResumeLock, ResumeOne, ResumeUnlock, ResumeYield, ResumeReturn, cpuVars
<1>4. ASSUME BoundToYield(t)'
      PROVE  HigherWillRun'
  BY <1>2, <1>3, <1>4, HigherBound
<1>5. ASSUME BoundToYield(t) => BoundToYield(t)', UNCHANGED sch_ready_task_list
      PROVE  HigherWillRun'
  BY <1>2, <1>3, <1>5, HigherKept
<1>6. CASE ResumeLock(t) \/ ResumeReturn(t)
  <2>1. PICK at \in {"rc_lock", "rc_back"} : At(t, at)
    BY <1>6 DEF ResumeLock, ResumeReturn
  <2>2. UNCHANGED <<sch_ready_task_list, drift>>
    BY <1>6 DEF ResumeLock, ResumeReturn, lists
  <2>3. lock_count[t] > 0 => lock_count'[t] > 0
    BY <1>0, <1>6 DEF ResumeLock, ResumeReturn
  <2>4. \E a, b, c : NewStack(t, a, b, c)
    BY <1>6, ResumeLockControl, ResumeReturnControl
  <2> QED  BY <1>2, <1>3, <2>1, <2>2, <2>3, <2>4, HigherGoesOn
<1>7. CASE ResumeOne(t)
  <2>1. At(t, "rc_loop") /\ UNCHANGED <<pc, pend_sv, drift, lock_count>>
    BY <1>7 DEF ResumeOne, cpuVars
  <2>2. \A i : Point(t, i)' = Point(t, i)
    BY <2>1 DEF Point
  <2>3. Point(t, 1)' = "rc_loop"
    BY <2>1, <2>2, ExecFacts
  <2>4. PICK n : n = resuming[t].num - 1
    OBVIOUS
  <2>5. CASE resuming' = [resuming EXCEPT ![t].num = n, ![t].yield = TRUE]
    <3>1. resuming'[t].yield
      BY <1>0, <2>5 DEF ResumeRecords
    <3> QED  BY <1>4, <2>3, <3>1 DEF BoundToYield
  <2>6. ASSUME NEW m, resuming' = [resuming EXCEPT ![t].num = n, ![t].tmp = m],
               UNCHANGED sch_ready_task_list
        PROVE  HigherWillRun'
    <3>1. resuming'[t].yield = resuming[t].yield
      BY <1>0, <2>6 DEF ResumeRecords
    <3> QED  BY <1>5, <2>1, <2>2, <2>6, <3>1 DEF BoundToYield
  <2>7. \/ resuming' = [resuming EXCEPT ![t].num = n, ![t].yield = TRUE]
        \/ /\ \E m : resuming' = [resuming EXCEPT ![t].num = n, ![t].tmp = m]
           /\ UNCHANGED sch_ready_task_list
    BY <1>7, <2>4 DEF ResumeOne
  <2> QED  BY <2>5, <2>6, <2>7
<1>8. CASE ResumeUnlock(t)
  <2>1. At(t, "rc_loop") /\ UNCHANGED <<sch_ready_task_list, drift, lock_count, resuming>>
    BY <1>8 DEF ResumeUnlock, lists, condVars
  <2>2. NewStack(t, "unlock", "rc_yield", Point(t, 2))
    BY <1>8, ResumeUnlockControl
  <2>3. Point(t, 1) = "rc_loop"
    BY <2>1, ExecFacts
  <2>4. BoundToYield(t) => BoundToYield(t)'
    BY <1>2, <2>1, <2>2, <2>3, BoundMove
  <2> QED  BY <1>5, <2>1, <2>4
<1>9. CASE ResumeYield(t)
  <2>1. /\ At(t, "rc_yield") /\ UNCHANGED <<sch_ready_task_list, lock_count, resuming>>
        /\ drift' = [drift EXCEPT ![t] = @ \/ (resuming[t].yield /\ lock_count[t] > 0)]
    BY <1>9 DEF ResumeYield, lists, condVars
  <2>2. Point(t, 1) = "rc_yield"
    BY <2>1, ExecFacts
  <2>3. drift'[t] <=> drift[t] \/ (resuming[t].yield /\ lock_count[t] > 0)
    BY <1>0, <2>1
  <2>4. CASE resuming[t].yield /\ lock_count[t] > 0
    BY <1>4, <2>1, <2>3, <2>4 DEF BoundToYield
  <2>5. CASE ~ resuming[t].yield
    <3>1. Go(t, <<"rc_back">>)
      BY <1>9, <2>5 DEF ResumeYield
    <3>2. PICK a, b, c : NewStack(t, a, b, c)
      BY <1>9, ResumeYieldControl
    <3>3. drift'[t] <=> drift[t]
      BY <2>3, <2>5
    <3>4. BoundToYield(t) => BoundToYield(t)'
      BY <1>2, <2>1, <2>2, <2>5, <3>2, <3>3, BoundMove
    <3> QED  BY <1>5, <2>1, <3>4
  <2>6. CASE resuming[t].yield /\ lock_count[t] = 0
    <3>1. Go(t, <<"pend", "rc_back">>) /\ Stacks
      BY <1>9, <2>6 DEF ResumeYield, Control
    <3>2. NewStack(t, "pend", "rc_back", Point(t, 2))
      <4>1. CASE NewStack(t, "rc_back", Point(t, 2), "user")
        <5>1. PICK s, r : s = Tail(pc[t]) /\ r = <<"pend", "rc_back">> \o s
          OBVIOUS
        <5>2. s \in Seq(AllLabels)
          <6>1. pc[t] \in Seq(AllLabels) /\ Len(pc[t]) \in 1 .. 4
            BY <3>1 DEF Stacks, CallStack
          <6>2. \A l \in Seq(AllLabels) : Len(l) \in 1 .. 4 => Tail(l) \in Seq(AllLabels)
            OBVIOUS
          <6> QED  BY <5>1, <6>1, <6>2
        <5>3. r[1] = "pend" /\ Len(r) >= 1
          BY <5>1, <5>2
        <5>4. pc'[t] = r
          BY <3>1, <5>1 DEF Go, Stacks
        <5>5. Point(t, 1)' = "pend"
          BY <5>3, <5>4 DEF Point
        <5> QED  BY <4>1, <5>5 DEF NewStack
      <4> QED  BY <1>9, <4>1, ResumeYieldControl
    <3> QED  BY <1>4, <3>2 DEF BoundToYield, NewStack
  <2>7. lock_count[t] = 0 \/ lock_count[t] > 0
    BY <1>0
  <2> QED  BY <2>4, <2>5, <2>6, <2>7
<1> QED  BY <1>6, <1>7, <1>8, <1>9

LEMMA SemaphoreHigher ==
  ASSUME Control, HigherWillRun, NEW t \in Tasks, SemaphoreCall(t) \/ SemaphoreUse(t)
  PROVE  HigherWillRun'
<1>0. lock_count \in [Tasks -> 0 .. MaxLock] /\ MaxLock \in Nat
  BY LockAssumption DEF Control, StateTypeOK
<1>1. CASE SemaphoreCall(t)
  <2>1. PICK label \in {"so_test", "so_take", "sr_inc", "sd_clear"} : At(t, label)
    BY <1>1 DEF SemaphoreCall, ObtainTest, ObtainTake, ReleaseIncrement, DestroyClear
  <2>2. Point(t, 2) = "user"
    BY <2>1, SemaphorePoint DEF SemaphoreLabels
  <2>3. UNCHANGED <<current_task, sch_ready_task_list, drift, lock_count>>
    BY <1>1 DEF SemaphoreCall, ObtainTest, ObtainTake, ReleaseIncrement, DestroyClear, cpuVars,
                lists
  <2>4. \/ \E a, b, c : NewStack(t, a, b, c)
        \/ mode' = "assert"
    BY <1>1, ObtainTestControl, ObtainTakeControl, IncrementControl, ClearControl
       DEF SemaphoreCall
  <2> QED  BY <2>1, <2>2, <2>3, <2>4, HigherGoesOn
<1>2. ASSUME NEW s \in Conditions, NEW w, semaphore_obtain(t, s, w) \/ semaphore_release(t, s)
                                          \/ semaphore_destroy(t, s)
      PROVE  HigherWillRun'
  <2>1. InUser(t) /\ At(t, "user")
    BY <1>2 DEF semaphore_obtain, semaphore_release, semaphore_destroy, EnterLocked, InUser
  <2>2. Point(t, 2) = "user"
    BY <2>1, UserFacts
  <2>3. UNCHANGED <<current_task, sch_ready_task_list, drift>>
    BY <1>2 DEF semaphore_obtain, semaphore_release, semaphore_destroy, EnterLocked, lists
  <2>4. lock_count[t] > 0 => lock_count'[t] > 0
    BY <1>0, <1>2 DEF semaphore_obtain, semaphore_release, semaphore_destroy, EnterLocked
  <2>5. \/ \E a, b, c : NewStack(t, a, b, c)
        \/ mode' = "assert"
    BY <1>2, EnterControl, ReleaseControl, DestroyControl DEF semaphore_obtain
  <2> QED  BY <2>1, <2>2, <2>3, <2>4, <2>5, HigherGoesOn
<1> QED  BY <1>1, <1>2 DEF SemaphoreUse

LEMMA HigherStep ==
  ASSUME MayAdd = {}, Sound, HigherWillRun, [SemNext]_vars
  PROVE  HigherWillRun'
<1>0. Control /\ DataTypes /\ CallArguments /\ ReadyOK
  BY DEF Sound, Core
<1>1. CASE UNCHANGED vars
  BY <1>1 DEF vars, kernelVars, cpuVars, lists, condVars, HigherWillRun, BoundToYield, Point
<1>2. CASE SemNext
  <2>1. CASE SemBoot \/ SemPendSV \/ SemTick
    <3>1. /\ Boot \/ PendSV \/ isr_sysclock_handle
          /\ UNCHANGED resuming
      BY <2>1 DEF SemBoot, SemPendSV, SemTick, ConditionTick, condVars
    <3> QED  BY <1>0, <3>1, SystemHigher
  <2>2. ASSUME NEW t \in Tasks, KernelCall(t) \/ UserCall(t), UNCHANGED condVars
        PROVE  HigherWillRun'
    BY <1>0, <2>2, KernelHigher DEF condVars
  <2>3. ASSUME NEW t \in Tasks, ConditionCall(t)
        PROVE  HigherWillRun'
    BY <1>0, <2>3, SuspendHigher, ResumeHigher DEF ConditionCall
  <2>4. ASSUME NEW t \in Tasks, SemaphoreCall(t) \/ SemaphoreUse(t)
        PROVE  HigherWillRun'
    BY <1>0, <2>4, SemaphoreHigher
  <2> QED  BY <1>2, <2>1, <2>2, <2>3, <2>4 DEF SemNext, CallStep
<1> QED  BY <1>1, <1>2

(* HighestPriorityRuns: with semaphores too, an application that has not   *)
(* locked the scheduler runs only while no ready task has a higher         *)
(* priority: scheduler_unlock and resume_condition yield to the tasks they *)
(* made or found ready.                                                    *)
THEOREM SemHighestPriority ==
  ASSUME MayAdd = {}
  PROVE  SemSpec => []HighestPriorityRuns
<1>1. SemInit => Sound /\ HigherWillRun
  <2>1. SemInit => HigherWillRun
    BY DEF SemInit, Init, HigherWillRun
  <2> QED  BY <2>1, SoundInit
<1>2. Sound /\ HigherWillRun /\ [SemNext]_vars => (Sound /\ HigherWillRun)'
  BY SoundStep, HigherStep
<1>3. ASSUME Sound, HigherWillRun
      PROVE  HighestPriorityRuns
  <2>1. ASSUME NEW t \in Tasks, InUser(t), lock_count[t] = 0, NEW u \in Tasks, Ready(u)
        PROVE  Priority[u] >= Priority[t]
    <3>1. /\ mode = "task" /\ current_task = t /\ ~ pend_sv
          /\ Point(t, 1) = "user" /\ Point(t, 2) = "user"
      BY <1>3, <2>1, UserFacts DEF Sound, Core
    <3>2. ~ BoundToYield(t)
      BY <2>1, <3>1 DEF BoundToYield
    <3>3. u \in ToSet(sch_ready_task_list)
      BY <1>3, <2>1 DEF Sound, ReadyOK, ReadyListExact
    <3>4. Priority[t] <= Priority[u]
      BY <1>3, <3>1, <3>2, <3>3 DEF HigherWillRun
    <3> QED  BY <3>4, TaskAssumption
  <2> QED  BY <2>1 DEF HighestPriorityRuns
<1> QED  BY <1>1, <1>2, <1>3, PTL DEF SemSpec

----------------------------------------------------------------------------
(* Assertions: a task that timed out finds its suspend.                    *)

(* The suspend of task u stays where resume_condition keeps suspends.      *)
HasSuspend(u) == u \in ToSet(suspend_list[sem[u]]) \cup Aside(sem[u])

LEMMA TimedOutIn ==
  ASSUME Core, NEW u \in Tasks, MayBeListed(u)
  PROVE  sem[u] \in Conditions
<1>1. InSuspend(u)
  BY ListedInSuspend DEF Core, Control
<1>2. Calling(u, "so_take")
  BY <1>1, CallingIs
<1> QED  BY <1>2 DEF Core, CallArguments, Arguments

LEMMA TimedOutHas ==
  ASSUME Core, TimedOutListed, SuspendLists, NEW u \in Tasks, TimedOut(u) \/ Waiting(u)
  PROVE  HasSuspend(u)
<1>1. CASE TimedOut(u)
  BY <1>1 DEF TimedOutListed, HasSuspend
<1>2. CASE Waiting(u)
  <2>1. sem[u] \in Conditions
    BY <1>2, TimedOutIn DEF MayBeListed
  <2>2. u \in ToSet(suspend_list[sem[u]])
    BY <1>2, <2>1 DEF SuspendLists
  <2> QED  BY <2>2 DEF HasSuspend
<1> QED  BY <1>1, <1>2

LEMMA TimedOutKept ==
  ASSUME Core, TimedOutListed, SuspendLists,
         \A u \in Tasks : \/ ~ TimedOut(u)'
                          \/ TimedOut(u) \/ Waiting(u),
         \A u \in Tasks : HasSuspend(u) /\ TimedOut(u)' => HasSuspend(u)'
  PROVE  TimedOutListed'
<1>1. \A u \in Tasks : TimedOut(u)' => HasSuspend(u)
  BY TimedOutHas
<1>2. \A u \in Tasks : TimedOut(u)' => HasSuspend(u)'
  BY <1>1
<1> QED  BY <1>2 DEF TimedOutListed, HasSuspend

(* The lists and what is aside stay the same.                              *)
LEMMA TimedOutSame ==
  ASSUME Core, TimedOutListed, SuspendLists, UNCHANGED <<suspend_list, resuming, sem>>,
         \A u \in Tasks : \/ PhaseKept(u)
                          \/ Waiting(u) /\ NextPhase(u, "timed out")
                          \/ Queued(u) /\ NextPhase(u, "waiting")
  PROVE  TimedOutListed'
<1>1. \A u \in Tasks : ~ TimedOut(u)' \/ TimedOut(u) \/ Waiting(u)
  BY DEF PhaseKept, NextPhase
<1>2. \A u \in Tasks : HasSuspend(u) => HasSuspend(u)'
  BY DEF HasSuspend, Aside
<1> QED  BY <1>1, <1>2, TimedOutKept

LEMMA AddTimedOut ==
  ASSUME Core, TimedOutListed, SuspendLists, NEW t \in Tasks, suspend_condition_add_task(t),
         UNCHANGED semVars
  PROVE  TimedOutListed'
<1>0. Control /\ DataTypes
  BY DEF Core
<1>1. PICK c \in Conditions : c = sem[t] /\ ToSet(conds[t]) = {c}
  BY SuspendAt DEF suspend_condition_add_task
<1>2. UNCHANGED <<sem, resuming>>
  BY DEF suspend_condition_add_task, semVars
<1>3. /\ suspend_list'[c] = sll_append(suspend_list[c], t)
      /\ \A s \in Conditions : s # c => suspend_list'[s] = suspend_list[s]
  BY <1>1 DEF suspend_condition_add_task
<1>4. NextPhase(t, "queued") /\ \A u \in Tasks : u # t => PhaseKept(u)
  BY <1>0, AddPhase, SuspendOthers
<1>5. \A u \in Tasks : ~ TimedOut(u)' \/ TimedOut(u)
  BY <1>4 DEF PhaseKept, NextPhase
<1>6. ASSUME NEW s \in Conditions
      PROVE  ToSet(suspend_list[s]) \subseteq ToSet(suspend_list'[s])
  <2>1. suspend_list[s] \in Seq(Tasks)
    BY <1>0, ListTypes
  <2>2. CASE s = c
    BY <1>3, <2>1, <2>2, SllAppendMembers
  <2> QED  BY <1>3, <2>2
<1>7. ASSUME NEW u \in Tasks, HasSuspend(u), TimedOut(u)'
      PROVE  HasSuspend(u)'
  <2>1. sem[u] \in Conditions
    BY <1>5, <1>7, TimedOutIn DEF MayBeListed
  <2> QED  BY <1>2, <1>6, <1>7, <2>1 DEF HasSuspend, Aside
<1> QED  BY <1>5, <1>7, TimedOutKept

LEMMA DoneTimedOut ==
  ASSUME Core, TimedOutListed, SuspendLists, NEW t \in Tasks,
         suspend_condition_remove_all(t) \/ suspend_condition_remove(t), UNCHANGED semVars,
         mode' # "assert"
  PROVE  TimedOutListed'
<1>0. Control /\ DataTypes
  BY DEF Core
<1>1. UNCHANGED <<sem, resuming>>
  BY DEF suspend_condition_remove_all, suspend_condition_remove, semVars
<1>2. NextPhase(t, "none") /\ \A u \in Tasks : u # t => PhaseKept(u)
  BY <1>0, DonePhase, SuspendOthers
<1>3. \A u \in Tasks : ~ TimedOut(u)' \/ TimedOut(u)
  BY <1>2 DEF PhaseKept, NextPhase
<1>4. \E cs : Leave(t, cs)
  BY DEF suspend_condition_remove_all, suspend_condition_remove, Halt
<1>5. ASSUME NEW u \in Tasks, u # t, NEW s \in Conditions, u \in ToSet(suspend_list[s])
      PROVE  u \in ToSet(suspend_list'[s])
  <2>1. suspend_list[s] \in Seq(Tasks) /\ NoDuplicates(suspend_list[s])
    BY <1>0, ListTypes DEF SuspendLists
  <2>2. ToSet(sll_remove(suspend_list[s], t)) = ToSet(suspend_list[s]) \ {t}
    BY <2>1, SllRemoveMembers
  <2>3. \/ suspend_list'[s] = sll_remove(suspend_list[s], t)
        \/ suspend_list'[s] = suspend_list[s]
    BY <1>4 DEF Leave
  <2> QED  BY <1>5, <2>2, <2>3
<1>6. ASSUME NEW u \in Tasks, HasSuspend(u), TimedOut(u)'
      PROVE  HasSuspend(u)'
  <2>1. sem[u] \in Conditions
    BY <1>3, <1>6, TimedOutIn DEF MayBeListed
  <2>2. u # t
    BY <1>2, <1>6 DEF NextPhase
  <2> QED  BY <1>1, <1>5, <1>6, <2>1, <2>2 DEF HasSuspend, Aside
<1> QED  BY <1>3, <1>6, TimedOutKept

(* One turn of resume_condition moves the suspend of a task that does not  *)
(* wait any more aside.                                                    *)
LEMMA ResumeOneTimedOut ==
  ASSUME Core, WaitsKept, TimedOutListed, SuspendLists, NEW t \in Tasks, ResumeOne(t),
         UNCHANGED semVars
  PROVE  TimedOutListed'
<1>0. Control /\ DataTypes /\ CallArguments
  BY DEF Core
<1>1. PICK c, w : c = resuming[t].cond /\ w = Head(suspend_list[resuming[t].cond])
  OBVIOUS
<1>2. c \in Conditions /\ w \in Tasks /\ suspend_list[c] # <<>>
  BY <1>0, <1>1, ArgumentsResuming, ResumedTask DEF DataTypes
<1>3. ListOK(c) /\ suspend_list[c] \in Seq(Tasks)
  BY <1>0, <1>2, ListsAre, ListTypes
<1>4. PICK l : l = Tail(suspend_list[c])
  OBVIOUS
<1>5. ToSet(l) = ToSet(suspend_list[c]) \ {w} /\ w \in ToSet(suspend_list[c])
  BY <1>1, <1>2, <1>3, <1>4, TailMembers DEF ListOK
<1>6. suspend_list'[c] = l /\ \A s \in Conditions : s # c => suspend_list'[s] = suspend_list[s]
  <2>1. suspend_list' = [suspend_list EXCEPT ![c] = l]
    BY <1>1, <1>4 DEF ResumeOne
  <2>2. suspend_list \in [Conditions -> Seq(Tasks)]
    BY <1>0 DEF DataTypes
  <2> QED  BY <1>2, <2>1, <2>2
<1>7. sem[w] = c
  BY <1>3, <1>5 DEF ListOK
<1>8. UNCHANGED sem
  BY DEF semVars
<1>9. /\ \A u \in Tasks : u # w => PhaseKept(u)
      /\ IF IsWaiting(w, c) THEN Waiting(w) /\ NextPhase(w, "resumed") ELSE PhaseKept(w)
  BY <1>0, <1>1, ResumeOnePhases
<1>10. \A u \in Tasks : ~ TimedOut(u)' \/ (TimedOut(u) /\ (u = w => ~ IsWaiting(w, c)))
  BY <1>9 DEF PhaseKept, NextPhase
<1>11. resuming \in [Tasks -> ResumeRecords]
  BY <1>0 DEF DataTypes, CallTypes, ResumeRecords
<1>12. PICK r \in ResumeRecords : r = resuming[t]
  BY <1>11
<1> PICK n : n = r.num - 1
  OBVIOUS
<1>13. r.tmp \in Seq(Tasks) /\ r.cond = c
  BY <1>1, <1>12 DEF ResumeRecords
<1>14. /\ \A u \in Tasks : u # t => resuming'[u] = resuming[u]
       /\ resuming'[t].cond = c /\ ToSet(r.tmp) \subseteq ToSet(resuming'[t].tmp)
       /\ ~ IsWaiting(w, c) => w \in ToSet(resuming'[t].tmp)
  <2>1. CASE IsWaiting(w, c)
    <3>1. resuming' = [resuming EXCEPT ![t] = [r EXCEPT !.num = n, !.yield = TRUE]]
      BY <1>1, <1>11, <1>12, <2>1 DEF ResumeOne
    <3>2. PICK q : q = [r EXCEPT !.num = n, !.yield = TRUE]
      OBVIOUS
    <3>3. q.tmp = r.tmp /\ q.cond = r.cond
      BY <3>2 DEF ResumeRecords
    <3>4. resuming'[t] = q /\ \A u \in Tasks : u # t => resuming'[u] = resuming[u]
      BY <1>11, <3>1, <3>2
    <3> QED  BY <1>13, <2>1, <3>3, <3>4
  <2>2. CASE ~ IsWaiting(w, c)
    <3>1. PICK m, k : m = sll_push(k, w) /\ k = r.tmp
      OBVIOUS
    <3>2. ToSet(m) = ToSet(k) \cup {w}
      BY <1>2, <1>13, <3>1, SllPushMembers
    <3>3. PICK q : q = [r EXCEPT !.num = n, !.tmp = m]
      OBVIOUS
    <3>4. q.tmp = m /\ q.cond = r.cond
      BY <3>3 DEF ResumeRecords
    <3>5. resuming' = [resuming EXCEPT ![t] = q]
      BY <1>1, <1>11, <1>12, <2>2, <3>1, <3>3 DEF ResumeOne
    <3>6. resuming'[t] = q /\ \A u \in Tasks : u # t => resuming'[u] = resuming[u]
      BY <1>11, <3>5
    <3> QED  BY <1>13, <2>2, <3>1, <3>2, <3>4, <3>6
  <2> QED  BY <2>1, <2>2
<1>15. \A s : Aside(s) \subseteq Aside(s)'
  <2>1. ASSUME NEW s, NEW v, NEW u \in Tasks, resuming[u].cond = s, v \in ToSet(resuming[u].tmp)
        PROVE  resuming'[u].cond = s /\ v \in ToSet(resuming'[u].tmp)
    BY <1>12, <1>13, <1>14, <2>1
  <2>2. \A s, v : v \in Aside(s) <=>
          \E u \in Tasks : resuming[u].cond = s /\ v \in ToSet(resuming[u].tmp)
    BY DEF Aside
  <2> QED  BY <2>1, <2>2, AsideIs
<1>16. ASSUME NEW u \in Tasks, HasSuspend(u), TimedOut(u)'
       PROVE  HasSuspend(u)'
  <2>1. sem[u] \in Conditions
    BY <1>10, <1>16, TimedOutIn DEF MayBeListed
  <2>2. CASE u = w
    <3>1. w \in ToSet(resuming'[t].tmp) /\ resuming'[t].cond = c /\ sem'[w] = c
      BY <1>7, <1>8, <1>10, <1>14, <1>16, <2>2
    <3>2. w \in Aside(c)'
      BY <3>1, AsideIs
    <3> QED  BY <2>2, <3>1, <3>2 DEF HasSuspend, Aside
  <2>3. CASE u # w
    <3>1. u \in ToSet(suspend_list[sem[u]]) => u \in ToSet(suspend_list'[sem[u]])
      BY <1>5, <1>6, <2>1, <2>3
    <3> QED  BY <1>8, <1>15, <1>16, <3>1 DEF HasSuspend
  <2> QED  BY <2>2, <2>3
<1> QED  BY <1>10, <1>16, TimedOutKept

(* What was kept aside is put back.                                        *)
LEMMA ReturnTimedOut ==
  ASSUME Core, destroyed = {}, ResumerKeepsCPU, TimedOutListed, SuspendLists,
         NEW t \in Tasks, ResumeReturn(t), UNCHANGED semVars
  PROVE  TimedOutListed'
<1>0. Control /\ DataTypes /\ CallArguments
  BY DEF Core
<1>1. At(t, "rc_back") /\ "rc_back" \in ResumeLabels
  BY DEF ResumeReturn, ResumeLabels
<1>2. mode = "task" /\ current_task = t /\ Point(t, 1) = "rc_back"
  BY <1>0, <1>1, ResumePoint
<1>3. Resumes(t)
  BY <1>1, <1>2, CallingIs DEF Resumes
<1>4. PICK c \in Conditions : c = resuming[t].cond
  BY <1>3 DEF Core, CallArguments, Arguments
<1>5. \A u \in Tasks : u # t => resuming[u] = NoResume
  BY <1>2, OnlyResumer
<1>6. suspend_list \in [Conditions -> Seq(Tasks)]
  BY <1>0 DEF DataTypes
<1>7. PICK k, m, l : k = resuming[t].tmp /\ m = Reverse(k) /\ l = Joined(m, suspend_list[c])
  OBVIOUS
<1>8. ListOK(c) /\ k \in Seq(Tasks) /\ suspend_list[c] \in Seq(Tasks)
  BY <1>0, <1>4, <1>7, ListsAre, ListTypes
<1>9. NoDuplicates(k)
  BY <1>4, <1>7, <1>8 DEF ListOK
<1>10. m \in Seq(Tasks) /\ ToSet(m) = ToSet(k)
  BY <1>7, <1>8, <1>9, ReverseMembers
<1>11. ToSet(l) = ToSet(k) \cup ToSet(suspend_list[c])
  <2>1. ToSet(l) = ToSet(m) \cup ToSet(suspend_list[c])
    BY <1>7, <1>8, <1>10, ConcatMembers
  <2> QED  BY <1>10, <2>1
<1>12. suspend_list'[c] = l /\ \A s \in Conditions : s # c => suspend_list'[s] = suspend_list[s]
  <2>1. suspend_list' = [suspend_list EXCEPT ![c] = l]
    BY <1>4, <1>7 DEF ResumeReturn, PutBack, Joined
  <2> QED  BY <1>6, <2>1
<1>13. UNCHANGED sem /\ \A u \in Tasks : PhaseKept(u)
  BY <1>0, ResumePhases DEF semVars
<1>14. \A u \in Tasks : ~ TimedOut(u)' \/ TimedOut(u)
  BY <1>13 DEF PhaseKept
<1>15. ASSUME NEW s \in Conditions, NEW v \in Aside(s)
       PROVE  s = c /\ v \in ToSet(k)
  <2>1. PICK u \in Tasks : resuming[u].cond = s /\ v \in ToSet(resuming[u].tmp)
    BY <1>15 DEF Aside
  <2>2. u = t
    <3>1. ToSet(NoResume.tmp) = {}
      BY DEF NoResume, ToSet
    <3> QED  BY <1>5, <2>1, <3>1
  <2> QED  BY <1>4, <1>7, <2>1, <2>2
<1>16. ASSUME NEW u \in Tasks, HasSuspend(u), TimedOut(u)'
       PROVE  HasSuspend(u)'
  <2>1. sem[u] \in Conditions
    BY <1>14, <1>16, TimedOutIn DEF MayBeListed
  <2>2. u \in ToSet(suspend_list'[sem[u]])
    BY <1>11, <1>12, <1>15, <1>16, <2>1 DEF HasSuspend
  <2> QED  BY <1>13, <2>2 DEF HasSuspend
<1> QED  BY <1>14, <1>16, TimedOutKept

LEMMA SemaphoreTimedOut ==
  ASSUME MayDestroy = {}, Core, destroyed = {}, ResumerKeepsCPU, TimedOutListed, SuspendLists,
         NEW t \in Tasks, SemaphoreCall(t) \/ SemaphoreUse(t)
  PROVE  TimedOutListed'
<1>0. Control /\ DataTypes /\ CallArguments
  BY DEF Core
<1>1. \A u \in Tasks : PhaseKept(u)
  BY <1>0, SemaphorePhases
<1>2. \A u \in Tasks : u # t => sem'[u] = sem[u]
  <2>1. \/ UNCHANGED sem
        \/ \E x : sem' = [sem EXCEPT ![t] = x]
    BY DEF SemaphoreCall, ObtainTest, ObtainTake, ReleaseIncrement, DestroyClear,
       SemaphoreUse, semaphore_obtain, semaphore_release, semaphore_destroy, EnterLocked,
       semVars
  <2> QED  BY <2>1, <1>0 DEF DataTypes, CallTypes
<1>3. /\ Point(t, 1) \in SemaphoreLabels \cup {"user"} /\ Point(t, 2) = "user" /\ Point(t, 3) = "user"
      /\ UNCHANGED suspend_list
  BY NotDestroyed
<1>4. NoPhase(t)
  BY <1>3, PhaseAt DEF SemaphoreLabels
<1>5. \A u \in Tasks : ~ TimedOut(u)' \/ (TimedOut(u) /\ u # t)
  BY <1>1, <1>4 DEF NoPhase, PhaseKept
<1>6. \A s : Aside(s) \subseteq Aside(s)'
  <2>1. ASSUME NEW u \in Tasks
        PROVE  resuming'[u] = resuming[u] \/ ToSet(resuming[u].tmp) = {}
    <3>1. CASE ~ ReleaseIncrement(t)
      BY <3>1, NotDestroyed
    <3>2. CASE ReleaseIncrement(t)
      <4>1. \A v \in Tasks : v # t => resuming'[v] = resuming[v]
        BY <1>0, <3>2, IncrementData
      <4>2. ~ Resumes(t)
        BY <1>3, CallingIs DEF Resumes, ResumeLabels, SemaphoreLabels
      <4>3. resuming[t] = NoResume
        BY <4>2 DEF ResumerKeepsCPU
      <4>4. ToSet(resuming[t].tmp) = {}
        BY <4>3 DEF NoResume, ToSet
      <4> QED  BY <4>1, <4>4
    <3> QED  BY <3>1, <3>2
  <2>2. \A s, v : v \in Aside(s) <=>
          \E u \in Tasks : resuming[u].cond = s /\ v \in ToSet(resuming[u].tmp)
    BY DEF Aside
  <2> QED  BY <2>1, <2>2, AsideIs
<1>7. ASSUME NEW u \in Tasks, HasSuspend(u), TimedOut(u)'
      PROVE  HasSuspend(u)'
  BY <1>2, <1>3, <1>5, <1>6, <1>7 DEF HasSuspend
<1> QED  BY <1>5, <1>7, TimedOutKept

LEMMA TimedOutStep ==
  ASSUME MayDestroy = {}, Core, ReadyOK, WaitsKept, destroyed = {}, ResumerKeepsCPU,
         SuspendLists, TimedOutListed, [SemNext]_vars, mode' # "assert"
  PROVE  TimedOutListed'
<1>0. Control /\ DataTypes
  BY DEF Core
<1>1. ASSUME UNCHANGED <<condVars, semVars>>,
             \A u \in Tasks : PhaseKept(u) \/ (Waiting(u) /\ NextPhase(u, "timed out"))
      PROVE  TimedOutListed'
  BY <1>1, TimedOutSame DEF condVars, semVars
<1>2. CASE UNCHANGED vars
  <2>1. UNCHANGED <<pc, state, resume_from, from, condVars, semVars>>
    BY <1>2 DEF vars, kernelVars, condVars, suspendVars
  <2>2. \A u \in Tasks : PhaseKept(u)
    BY <2>1, PointsStay, PhaseSame DEF Suspended
  <2> QED  BY <1>1, <2>1, <2>2
<1>3. CASE SemNext
  <2>1. CASE SemBoot \/ SemPendSV \/ SemTick
    <3>1. /\ Boot \/ PendSV \/ isr_sysclock_handle
          /\ UNCHANGED <<condVars, semVars>>
      BY <2>1 DEF SemBoot, SemPendSV, SemTick, ConditionTick
    <3>2. CASE sleep_process_system_tick
      BY <1>1, <3>1, <3>2, WakePhases
    <3>3. CASE ~ sleep_process_system_tick
      <4>1. Boot \/ SaveCurrent \/ LoadNext \/ isr_sysclock_handle
        BY <3>1, <3>3 DEF PendSV
      <4> QED  BY <1>1, <3>1, <4>1, SystemPhases
    <3> QED  BY <3>2, <3>3
  <2>2. ASSUME NEW t \in Tasks, KernelCall(t) \/ UserCall(t), UNCHANGED <<condVars, semVars>>
        PROVE  TimedOutListed'
    BY <1>0, <1>1, <2>2, KernelPhases
  <2>3. ASSUME NEW t \in Tasks, ConditionCall(t), UNCHANGED semVars
        PROVE  TimedOutListed'
    <3>1. CASE ResumeOne(t)
      BY <2>3, <3>1, ResumeOneTimedOut
    <3>2. CASE ResumeReturn(t)
      BY <2>3, <3>2, ReturnTimedOut
    <3>3. CASE ResumeLock(t) \/ ResumeUnlock(t) \/ ResumeYield(t)
      <4>1. \A u \in Tasks : PhaseKept(u)
        BY <1>0, <3>3, ResumePhases
      <4>2. UNCHANGED condVars
        BY <3>3 DEF ResumeLock, ResumeUnlock, ResumeYield
      <4> QED  BY <1>1, <2>3, <4>1, <4>2
    <3>4. CASE suspend_condition_add_task(t)
      BY <2>3, <3>4, AddTimedOut
    <3>5. CASE suspend_condition_remove_all(t) \/ suspend_condition_remove(t)
      BY <2>3, <3>5, DoneTimedOut
    <3>6. CASE \/ suspend_timeout_get_min(t) \/ suspend_do_suspend(t)
               \/ SuspendLock(t) \/ SuspendSleep(t) \/ SuspendInsert(t)
               \/ SuspendSwitch(t) \/ SuspendWoke(t) \/ SuspendReturn(t)
      <4>1. UNCHANGED <<suspend_list, resuming, sem>>
        BY <2>3, <3>6 DEF suspend_timeout_get_min, suspend_do_suspend, SuspendLock, SuspendSleep,
           SuspendInsert, SuspendSwitch, SuspendWoke, SuspendReturn, condVars, semVars
      <4>2. \A u \in Tasks : u # t => PhaseKept(u)
        BY <1>0, <3>6, SuspendOthers
      <4>3. PhaseKept(t) \/ (Queued(t) /\ NextPhase(t, "waiting"))
        BY <1>0, <3>6, OutsideWait, QueuedPhase, SwitchPhase, WokePhase
      <4> QED  BY <4>1, <4>2, <4>3, TimedOutSame
    <3> QED  BY <2>3, <3>1, <3>2, <3>3, <3>4, <3>5, <3>6 DEF ConditionCall
  <2>4. ASSUME NEW t \in Tasks, SemaphoreCall(t) \/ SemaphoreUse(t)
        PROVE  TimedOutListed'
    BY <2>4, SemaphoreTimedOut
  <2> QED  BY <1>3, <2>1, <2>2, <2>3, <2>4 DEF SemNext, CallStep
<1> QED  BY <1>2, <1>3

----------------------------------------------------------------------------
(* Assertions: a task that takes a unit finds one.                         *)

NoPing == \A c \in Conditions : ~ ping[c]

(* Task u takes a unit in its next step or the one after.                  *)
Takes(u) == Point(u, 1) \in {"so_take", "sc_end"}

LEMMA TakesRuns ==
  ASSUME Core, NEW w \in Tasks, Takes(w)
  PROVE  ~ Away(w)
<1>1. Control /\ StackForm(Point(w, 1), Point(w, 2), Point(w, 3))
  BY TaskStack DEF Core, Control
<1>2. Point(w, 1) = "so_take" \/ Point(w, 2) = "so_take"
  BY <1>1 DEF Takes, StackForm, Labels, SemaphoreLabels, SuspendLabels, ConditionLabels,
              ResumeLabels
<1>3. /\ lock_count[w] >= Owes(Point(w, 1)) + Owes(Point(w, 2)) + Owes(Point(w, 3))
      /\ Owes(Point(w, 1)) \in {0, 1} /\ Owes(Point(w, 2)) \in {0, 1}
      /\ Owes(Point(w, 3)) \in {0, 1} /\ lock_count[w] \in Nat
  BY <1>1, LockFacts
<1>4. Owes("so_take") = 1
  BY DEF Owes, Owing
<1>5. lock_count[w] # 0
  BY <1>2, <1>3, <1>4
<1> QED  BY <1>1, <1>5 DEF Control, LockKeepsCPU, Takes

(* In a step of the task that has the CPU no other one takes a unit.       *)
LEMMA UnitThereTask ==
  ASSUME Core, NEW t \in Tasks, mode = "task", current_task = t,
         \A u \in Tasks : u # t => Point(u, 1)' = Point(u, 1),
         NoPing', Takes(t)' /\ status'[t] = "SUCCESS" => count'[sem'[t]] > 0
  PROVE  UnitThere'
<1>1. ASSUME NEW u \in Tasks, u # t
      PROVE  ~ Takes(u)'
  <2>1. ~ Takes(u)
    BY <1>1, TakesRuns DEF Away
  <2> QED  BY <1>1, <2>1 DEF Takes
<1>2. ASSUME NEW u \in Tasks, Takes(u)', status'[u] = "SUCCESS"
      PROVE  count'[sem'[u]] > 0
  BY <1>1, <1>2
<1> QED  BY <1>2 DEF UnitThere, NoPing, Takes

LEMMA UnitThereSame ==
  ASSUME UnitThere, UNCHANGED <<pc, count, sem, status, ping>>
  PROVE  UnitThere'
<1>1. \A u : Point(u, 1)' = Point(u, 1)
  BY DEF Point
<1> QED  BY <1>1 DEF UnitThere

LEMMA SuspendUnitThere ==
  ASSUME Core, ResumedMayTake, StatusTypes, UnitThere, NEW t \in Tasks, UNCHANGED <<count, sem>>,
         mode' # "assert",
         \/ suspend_timeout_get_min(t) \/ suspend_do_suspend(t)
         \/ suspend_condition_add_task(t) \/ SuspendLock(t)
         \/ SuspendSleep(t) \/ SuspendInsert(t) \/ SuspendSwitch(t) \/ SuspendWoke(t)
         \/ suspend_condition_remove_all(t) \/ suspend_condition_remove(t)
         \/ SuspendReturn(t)
  PROVE  UnitThere'
<1>0. Control /\ DataTypes /\ CallArguments
  BY DEF Core
<1>1. PICK label \in {"sc_timeout", "sc_check", "sc_append", "sc_lock", "sc_sleep", "sc_insert",
                      "sc_suspend", "sc_woke", "sc_done", "sc_end"} : At(t, label)
  BY DEF suspend_timeout_get_min, suspend_do_suspend, suspend_condition_add_task, SuspendLock,
         SuspendSleep, SuspendInsert, SuspendSwitch, SuspendWoke, suspend_condition_remove_all,
         suspend_condition_remove, SuspendReturn
<1>2. /\ Point(t, 1) = label /\ mode = "task" /\ current_task = t
      /\ ToSet(conds[t]) = {sem[t]} /\ sem[t] \in Conditions
  BY <1>1, SuspendAt
<1>3. NoPing'
  <2>1. \/ UNCHANGED ping
        \/ \E c : ping' = [ping EXCEPT ![c] = FALSE]
    BY DEF suspend_timeout_get_min, suspend_do_suspend, suspend_condition_add_task, SuspendLock,
           SuspendSleep, SuspendInsert, SuspendSwitch, SuspendWoke, suspend_condition_remove_all,
           suspend_condition_remove, SuspendReturn, condVars
  <2> QED  BY <1>0, <2>1 DEF UnitThere, NoPing, DataTypes
<1>4. ASSUME NEW a, NEW b, NEW c, NewStack(t, a, b, c),
             a \in {"sc_end", "so_take"} /\ status'[t] = "SUCCESS" => count[sem[t]] > 0
      PROVE  UnitThere'
  BY <1>2, <1>3, <1>4, UnitThereTask DEF NewStack, Takes
<1>5. CASE \/ suspend_timeout_get_min(t) \/ suspend_condition_add_task(t) \/ SuspendLock(t)
           \/ SuspendSleep(t) \/ SuspendInsert(t) \/ SuspendSwitch(t) \/ SuspendWoke(t)
  <2>1. \/ NewStack(t, "sc_check", "so_take", "user") \/ NewStack(t, "sc_lock", "so_take", "user")
        \/ NewStack(t, "sc_sleep", "so_take", "user") \/ NewStack(t, "sc_insert", "so_take", "user")
        \/ NewStack(t, "sc_suspend", "so_take", "user") \/ NewStack(t, "pend", "sc_woke", "so_take")
        \/ NewStack(t, "unlock", "sc_done", "so_take")
    BY <1>0, <1>5, GetMinControl, AddTaskControl, SuspendLockControl, SuspendSleepControl,
       SuspendInsertControl, SuspendSwitchControl, WokeControl DEF DataTypes
  <2> QED  BY <1>4, <2>1
<1>6. CASE suspend_do_suspend(t)
  <2>1. CASE Satisfied(sem[t])
    <3>1. count[sem[t]] > 0
      <4>1. ~ ping[sem[t]] /\ count[sem[t]] \in Nat
        BY <1>0, <1>2 DEF UnitThere, DataTypes
      <4> QED  BY <2>1, <4>1 DEF Satisfied, do_suspend
    <3>2. \E a : NewStack(t, a, "so_take", "user")
      BY <1>0, <1>6, DoSuspendControl
    <3> QED  BY <1>4, <3>1, <3>2
  <2>2. CASE ~ Satisfied(sem[t])
    <3>1. Go(t, <<"sc_append">>)
      BY <1>2, <1>6, <2>2 DEF suspend_do_suspend
    <3>2. ~ Go(t, <<"sc_end">>)
      BY <3>1, <1>0 DEF Go, Control, Stacks
    <3>3. NewStack(t, "sc_append", "so_take", "user")
      BY <1>0, <1>6, <3>2, DoSuspendControl
    <3> QED  BY <1>4, <3>3
  <2> QED  BY <2>1, <2>2
<1>7. CASE suspend_condition_remove_all(t)
  <2>1. NewStack(t, "sc_end", "so_take", "user")
    BY <1>0, <1>7, RemoveAllControl
  <2>2. status'[t] # "SUCCESS"
    <3>1. status' = [status EXCEPT ![t] = "TIMEOUT"]
      BY <1>7 DEF suspend_condition_remove_all, Halt
    <3> QED  BY <3>1 DEF StatusTypes
  <2> QED  BY <1>4, <2>1, <2>2
<1>8. CASE suspend_condition_remove(t)
  <2>1. PICK n, c : n = ReturnNum(t) /\ c = conds[t][ReturnNum(t)]
    OBVIOUS
  <2>2. n = 1 /\ c = sem[t]
    BY <1>8, <2>1, ReturnedOne DEF Core
  <2>3. /\ status' = [status EXCEPT ![t] = WaitStatus(t, c)]
        /\ IF susp_status[t][c] \in Errors \/ Satisfied(c)
           THEN Go(t, <<"sc_end">>)
           ELSE Go(t, <<"sc_check">>)
    BY <1>8, <2>1 DEF suspend_condition_remove, Halt
  <2>4. CASE susp_status[t][c] \in Errors \/ Satisfied(c)
    <3>1. Go(t, <<"sc_end">>)
      BY <2>3, <2>4
    <3>2. ~ Go(t, <<"sc_check">>)
      BY <3>1, <1>0 DEF Go, Control, Stacks
    <3>3. NewStack(t, "sc_end", "so_take", "user")
      BY <1>0, <1>8, <3>2, RemoveControl
    <3>4. CASE Satisfied(c)
      <4>1. ~ ping[c] /\ count[c] \in Nat
        BY <1>0, <1>2, <2>2 DEF UnitThere, DataTypes
      <4> QED  BY <1>4, <2>2, <3>3, <3>4, <4>1 DEF Satisfied, do_suspend
    <3>5. CASE susp_status[t][c] \in Errors
      <4>1. status'[t] # "SUCCESS"
        <5>1. status' = [status EXCEPT ![t] = susp_status[t][c]]
          BY <2>3 DEF WaitStatus
        <5> QED  BY <3>5, <5>1 DEF Errors, StatusTypes
      <4> QED  BY <1>4, <3>3, <4>1
    <3> QED  BY <2>4, <3>4, <3>5
  <2>5. CASE ~ (susp_status[t][c] \in Errors \/ Satisfied(c))
    <3>1. Go(t, <<"sc_check">>)
      BY <2>3, <2>5
    <3>2. ~ Go(t, <<"sc_end">>)
      BY <3>1, <1>0 DEF Go, Control, Stacks
    <3>3. NewStack(t, "sc_check", "so_take", "user")
      BY <1>0, <1>8, <3>2, RemoveControl
    <3> QED  BY <1>4, <3>3
  <2> QED  BY <2>4, <2>5
<1>9. CASE SuspendReturn(t)
  <2>1. NewStack(t, "so_take", "user", "user") /\ Point(t, 1) = "sc_end"
    BY <1>0, <1>9, ReturnControl, ExecFacts DEF SuspendReturn
  <2>2. status' = status
    BY <1>9 DEF SuspendReturn
  <2> QED  BY <1>4, <2>1, <2>2 DEF UnitThere
<1> QED  BY <1>5, <1>6, <1>7, <1>8, <1>9

LEMMA ResumeUnitThere ==
  ASSUME Core, UnitThere, NEW t \in Tasks, UNCHANGED semVars,
         \/ ResumeLock(t) \/ ResumeOne(t) \/ ResumeUnlock(t) \/ ResumeYield(t)
         \/ ResumeReturn(t)
  PROVE  UnitThere'
<1>0. Control
  BY DEF Core
<1>1. PICK label \in ResumeLabels : At(t, label)
  BY DEF ResumeLock, ResumeOne, ResumeUnlock, ResumeYield, ResumeReturn, ResumeLabels
<1>2. PICK p : p = Point(t, 2)
  OBVIOUS
<1>3. mode = "task" /\ current_task = t /\ p \in {"unlock", "sd_clear"}
  BY <1>0, <1>1, <1>2, ResumePoint
<1>4. UNCHANGED <<count, sem, status, ping>>
  BY DEF ResumeLock, ResumeOne, ResumeUnlock, ResumeYield, ResumeReturn, condVars, semVars,
         suspendVars
<1>5. CASE ResumeOne(t)
  BY <1>4, <1>5, UnitThereSame DEF ResumeOne
<1>6. CASE ~ ResumeOne(t)
  <2>1. \/ NewStack(t, "rc_loop", p, "user") \/ NewStack(t, "unlock", "rc_yield", p)
        \/ NewStack(t, "pend", "rc_back", p) \/ NewStack(t, "rc_back", p, "user")
        \/ NewStack(t, p, "user", "user")
    BY <1>0, <1>2, <1>6, ResumeLockControl, ResumeUnlockControl, ResumeYieldControl,
       ResumeReturnControl
  <2>2. PICK a, b, c : NewStack(t, a, b, c) /\ a \in {"rc_loop", "unlock", "pend", "rc_back", p}
    BY <2>1
  <2>3. ~ Takes(t)'
    BY <1>3, <2>2 DEF NewStack, Takes
  <2>4. NoPing'
    BY <1>4 DEF UnitThere, NoPing
  <2> QED  BY <1>3, <2>2, <2>3, <2>4, UnitThereTask DEF NewStack
<1> QED  BY <1>5, <1>6

LEMMA SemaphoreUnitThere ==
  ASSUME Core, StatusTypes, UnitThere, NEW t \in Tasks, SemaphoreCall(t) \/ SemaphoreUse(t),
         mode' # "assert"
  PROVE  UnitThere'
<1>0. Control /\ DataTypes
  BY DEF Core
<1>1. mode = "task" /\ current_task = t
  BY DEF SemaphoreCall, ObtainTest, ObtainTake, ReleaseIncrement, DestroyClear, SemaphoreUse,
         semaphore_obtain, semaphore_release, semaphore_destroy, EnterLocked, InUser, At, Executes
<1>2. NoPing'
  <2>1. \/ UNCHANGED ping
        \/ \E s : ping' = [ping EXCEPT ![s] = FALSE]
    BY DEF SemaphoreCall, ObtainTest, ObtainTake, ReleaseIncrement, DestroyClear, SemaphoreUse,
         semaphore_obtain, semaphore_release, semaphore_destroy, EnterLocked, condVars
  <2> QED  BY <1>0, <2>1 DEF UnitThere, NoPing, DataTypes
<1>3. ASSUME NEW a, NEW b, NEW c, NewStack(t, a, b, c),
             a \in {"sc_end", "so_take"} /\ status'[t] = "SUCCESS" => count'[sem'[t]] > 0
      PROVE  UnitThere'
  BY <1>1, <1>2, <1>3, UnitThereTask DEF NewStack, Takes
<1>4. CASE ObtainTest(t)
  <2>1. PICK s : s = sem[t] /\ UNCHANGED <<count, sem>>
    BY <1>4 DEF ObtainTest, semVars
  <2>2. CASE count[s] > 0
    <3>1. \E a, b : NewStack(t, a, b, "user")
      BY <1>0, <1>4, ObtainTestControl
    <3> QED  BY <1>3, <2>1, <2>2, <3>1
  <2>3. CASE ~ (count[s] > 0)
    <3>1. \/ Go(t, <<"sc_timeout", "so_take">>)
          \/ status' = [status EXCEPT ![t] = "BUSY"]
      BY <1>4, <2>1, <2>3 DEF ObtainTest
    <3>2. CASE status' = [status EXCEPT ![t] = "BUSY"]
      <4>1. status'[t] # "SUCCESS"
        BY <3>2 DEF StatusTypes
      <4>2. \E a, b : NewStack(t, a, b, "user")
        BY <1>0, <1>4, ObtainTestControl
      <4> QED  BY <1>3, <4>1, <4>2
    <3>3. CASE Go(t, <<"sc_timeout", "so_take">>)
      <4>1. ~ Go(t, <<"so_take">>)
        <5>1. CallStack(pc[t]) /\ pc[t] \in Seq(AllLabels)
          BY <1>0, StackPoints DEF Control, Stacks
        <5>2. PICK r \in Seq(AllLabels) : r = Tail(pc[t])
          <6>1. PICK l \in Seq(AllLabels) : l = pc[t] /\ l # <<>>
            BY <5>1, StackPoints
          <6>2. Tail(l) \in Seq(AllLabels)
            BY <6>1
          <6> QED  BY <6>1, <6>2
        <5>3. <<"sc_timeout", "so_take">> \o r # <<"so_take">> \o r
          <6>1. Len(<<"sc_timeout", "so_take">> \o r) = Len(r) + 2
            BY <5>2 DEF AllLabels, ConditionLabels, SemaphoreLabels
          <6>2. Len(<<"so_take">> \o r) = Len(r) + 1
            BY <5>2 DEF AllLabels, ConditionLabels, SemaphoreLabels
          <6> QED  BY <5>2, <6>1, <6>2
        <5>4. pc'[t] = <<"sc_timeout", "so_take">> \o r
          BY <1>0, <3>3, <5>2 DEF Go, Control, Stacks
        <5> QED  BY <1>0, <5>2, <5>3, <5>4 DEF Go, Control, Stacks
      <4>2. NewStack(t, "sc_timeout", "so_take", "user")
        BY <1>0, <1>4, <4>1, ObtainTestControl
      <4> QED  BY <1>3, <4>2
    <3> QED  BY <3>1, <3>2, <3>3
  <2> QED  BY <2>2, <2>3
<1>5. CASE ObtainTake(t) \/ ReleaseIncrement(t) \/ DestroyClear(t)
  <2>1. \/ NewStack(t, "unlock", "user", "user") \/ NewStack(t, "rc_lock", "unlock", "user")
        \/ NewStack(t, "user", "user", "user")
    BY <1>0, <1>5, ObtainTakeControl, IncrementControl, ClearControl
  <2> QED  BY <1>3, <2>1
<1>6. CASE SemaphoreUse(t)
  <2>1. \/ NewStack(t, "so_test", "user", "user") \/ NewStack(t, "sr_inc", "user", "user")
        \/ NewStack(t, "rc_lock", "sd_clear", "user")
    <3>1. ASSUME NEW s \in Conditions, NEW w \in Waits, semaphore_obtain(t, s, w)
          PROVE  NewStack(t, "so_test", "user", "user")
      BY <1>0, <3>1, EnterControl DEF semaphore_obtain
    <3> QED  BY <1>0, <1>6, <3>1, ReleaseControl, DestroyControl DEF SemaphoreUse
  <2> QED  BY <1>3, <2>1
<1> QED  BY <1>4, <1>5, <1>6 DEF SemaphoreCall

LEMMA UnitThereStep ==
  ASSUME Core, ResumedMayTake, StatusTypes, UnitThere, [SemNext]_vars, mode' # "assert"
  PROVE  UnitThere'
<1>1. CASE UNCHANGED vars
  BY <1>1, UnitThereSame DEF vars, kernelVars, condVars, semVars, suspendVars
<1>2. CASE SemBoot \/ SemPendSV \/ SemTick
  <2>1. UNCHANGED <<pc, count, sem, status, ping>>
    BY <1>2 DEF SemBoot, SemPendSV, SemTick, ConditionTick, condVars, semVars, suspendVars,
         Boot, BootAdd, run_first_task, PendSV, SaveCurrent, sleep_process_system_tick,
         LoadNext, isr_sysclock_handle
  <2> QED  BY <2>1, UnitThereSame
<1>3. ASSUME NEW t \in Tasks, KernelCall(t) \/ UserCall(t), UNCHANGED <<condVars, semVars>>
      PROVE  UnitThere'
  <2>1. /\ mode = "task" /\ current_task = t
        /\ \A u \in Tasks : u # t => Point(u, 1)' = Point(u, 1)
        /\ Point(t, 1)' \notin {"sc_append", "sc_end", "so_take"}
    BY <1>3, OutsidePoints
  <2>2. ~ Takes(t)'
    BY <2>1 DEF Takes
  <2>3. NoPing'
    BY <1>3 DEF UnitThere, NoPing, condVars
  <2> QED  BY <2>1, <2>2, <2>3, UnitThereTask
<1>4. ASSUME NEW t \in Tasks, ConditionCall(t), UNCHANGED semVars
      PROVE  UnitThere'
  <2>1. UNCHANGED <<count, sem>>
    BY <1>4 DEF ConditionCall, suspend_timeout_get_min, suspend_do_suspend,
       suspend_condition_add_task, SuspendLock, SuspendSleep, SuspendInsert, SuspendSwitch,
       SuspendWoke, suspend_condition_remove_all, suspend_condition_remove, SuspendReturn,
       ResumeLock, ResumeOne, ResumeUnlock, ResumeYield, ResumeReturn, condVars, semVars
  <2> QED  BY <1>4, <2>1, SuspendUnitThere, ResumeUnitThere DEF ConditionCall
<1>5. ASSUME NEW t \in Tasks, SemaphoreCall(t) \/ SemaphoreUse(t)
      PROVE  UnitThere'
  BY <1>5, SemaphoreUnitThere
<1> QED  BY <1>1, <1>2, <1>3, <1>4, <1>5 DEF SemNext, CallStep

----------------------------------------------------------------------------
(* Assertions: the idle task, and the states of the tasks.                 *)

(* A step of task t, in its code or in a call.                             *)
TaskStep(t) ==
  KernelCall(t) \/ UserCall(t) \/ ConditionCall(t) \/ SemaphoreCall(t) \/ SemaphoreUse(t)

LEMMA TaskMoves ==
  ASSUME Core, NEW t \in Tasks, TaskStep(t)
  PROVE  /\ Executes(t) /\ mode = "task" /\ current_task = t /\ current_task' = t
         /\ mode' \in {"task", "assert"}
         /\ UNCHANGED pc \/ \E l : Go(t, l)
<1>1. CASE KernelCall(t)
  BY <1>1 DEF KernelCall, PEND_SV, RestoreLevel, scheduler_unlock, UnlockYield, SleepAdd,
     SleepInsert, SleepSuspend, At, Executes, Halt, cpuVars
<1>2. CASE UserCall(t)
  BY <1>2 DEF UserCall, scheduler_lock, UserUnlock, task_yield, sleep_ticks,
     task_entry_return, scheduler_task_add, InUser, At, Executes, Halt, cpuVars
<1>3. CASE ConditionCall(t)
  <2>1. CASE ResumeLock(t) \/ ResumeOne(t) \/ ResumeUnlock(t) \/ ResumeYield(t) \/ ResumeReturn(t)
    BY <2>1 DEF ResumeLock, ResumeOne, ResumeUnlock, ResumeYield, ResumeReturn, At, Executes,
       Halt, cpuVars
  <2>2. CASE \/ suspend_condition_remove_all(t) \/ suspend_condition_remove(t) \/ SuspendReturn(t)
             \/ SuspendWoke(t)
    BY <2>2 DEF suspend_condition_remove_all, suspend_condition_remove, SuspendReturn,
       SuspendWoke, At, Executes, Halt, cpuVars
  <2>3. CASE \/ suspend_timeout_get_min(t) \/ suspend_do_suspend(t)
             \/ suspend_condition_add_task(t) \/ SuspendLock(t)
             \/ SuspendSleep(t) \/ SuspendInsert(t) \/ SuspendSwitch(t)
    BY <2>3 DEF suspend_timeout_get_min, suspend_do_suspend, suspend_condition_add_task,
       SuspendLock, SuspendSleep, SuspendInsert, SuspendSwitch, At, Executes, Halt, cpuVars
  <2> QED  BY <1>3, <2>1, <2>2, <2>3 DEF ConditionCall
<1>4. CASE SemaphoreCall(t)
  BY <1>4 DEF SemaphoreCall, ObtainTest, ObtainTake, ReleaseIncrement, DestroyClear, At, Executes,
     Halt, cpuVars
<1>5. CASE SemaphoreUse(t)
  BY <1>5 DEF SemaphoreUse, semaphore_obtain, semaphore_release, semaphore_destroy, EnterLocked,
     InUser, At, Executes, Halt
<1> QED  BY <1>1, <1>2, <1>3, <1>4, <1>5 DEF TaskStep

LEMMA TaskMovesOthers ==
  ASSUME Core, NEW t \in Tasks, TaskStep(t), NEW u \in Tasks, u # t
  PROVE  /\ Point(u, 1)' = Point(u, 1) /\ Point(u, 2)' = Point(u, 2)
         /\ Point(u, 3)' = Point(u, 3)
<1>1. pc'[u] = pc[u]
  BY TaskMoves DEF Go, Core, Control, Stacks
<1> QED  BY <1>1 DEF Point

(* Its state changes only when it suspends, and the one of another task    *)
(* only when that is made ready.                                           *)
LEMMA TaskStates ==
  ASSUME MayFinish = {}, Core, NEW t \in Tasks, TaskStep(t)
  PROVE  \/ UNCHANGED state
         \/ /\ SleepSuspend(t) \/ SuspendSwitch(t)
            /\ state' = [state EXCEPT ![t] = "TO_BE_SUSPENDED"]
         \/ /\ \E x \in Tasks : /\ state[x] \in {"TO_BE_SUSPENDED", "SUSPENDED", "FINISHED"}
                                /\ YieldSystem(x)
            /\ state[t] = "RUNNING"
<1>0. Control /\ DataTypes /\ CallArguments
  BY DEF Core
<1>1. CASE KernelCall(t)
  BY <1>1 DEF KernelCall, PEND_SV, RestoreLevel, scheduler_unlock, UnlockYield, SleepAdd,
     SleepInsert, SleepSuspend
<1>2. CASE UserCall(t)
  <2>1. CASE \E new \in Tasks : scheduler_task_add(t, new)
    <3>1. InUser(t)
      BY <2>1 DEF scheduler_task_add
    <3>2. state[t] = "RUNNING"
      BY <1>0, <3>1, UserFacts
    <3> QED  BY <2>1, <3>2 DEF scheduler_task_add
  <2>2. CASE ~ \E new \in Tasks : scheduler_task_add(t, new)
    BY <1>2, <2>2 DEF UserCall, scheduler_lock, UserUnlock, task_yield, sleep_ticks,
       task_entry_return
  <2> QED  BY <2>1, <2>2
<1>3. CASE ConditionCall(t)
  <2>1. CASE ResumeOne(t)
    <3>1. PICK w, c : w = Head(suspend_list[resuming[t].cond]) /\ c = resuming[t].cond
      OBVIOUS
    <3>2. w \in Tasks
      BY <1>0, <2>1, <3>1, ArgumentsResuming, ResumedTask DEF DataTypes
    <3>3. state[t] = "RUNNING"
      <4>1. At(t, "rc_loop") /\ "rc_loop" \in ResumeLabels
        BY <2>1 DEF ResumeOne, ResumeLabels
      <4> QED  BY <1>0, <4>1, ResumePoint
    <3> QED  BY <2>1, <3>1, <3>2, <3>3 DEF ResumeOne, IsWaiting
  <2>2. CASE ~ ResumeOne(t)
    BY <1>3, <2>2 DEF ConditionCall, suspend_timeout_get_min, suspend_do_suspend,
       suspend_condition_add_task, SuspendLock, SuspendSleep, SuspendInsert, SuspendSwitch,
       SuspendWoke, suspend_condition_remove_all, suspend_condition_remove, SuspendReturn,
       ResumeLock, ResumeUnlock, ResumeYield, ResumeReturn
  <2> QED  BY <2>1, <2>2
<1>4. CASE SemaphoreCall(t) \/ SemaphoreUse(t)
  BY <1>4 DEF SemaphoreCall, ObtainTest, ObtainTake, ReleaseIncrement, DestroyClear,
     SemaphoreUse, semaphore_obtain, semaphore_release, semaphore_destroy, EnterLocked
<1> QED  BY <1>1, <1>2, <1>3, <1>4 DEF TaskStep

(* The task that has the CPU has not finished, and a suspended task is in  *)
(* sleep_ticks or in suspend_condition.                                    *)
Unfinished == mode = "task" => state[current_task] # "FINISHED"
SuspendsInside == \A t \in Tasks : Suspended(t) => Point(t, 2) \in {"unlock", "sc_woke"}

LEMMA TaskUnfinished ==
  ASSUME MayFinish = {}, Core, Unfinished, SuspendsInside, NEW t \in Tasks, TaskStep(t)
  PROVE  Unfinished' /\ SuspendsInside'
<1>0. Control /\ StateTypeOK
  BY DEF Core, Control
<1>1. /\ mode = "task" /\ current_task = t /\ current_task' = t
      /\ UNCHANGED pc \/ \E l : Go(t, l)
  BY TaskMoves
<1>2. \A u \in Tasks : u # t => Point(u, 2)' = Point(u, 2)
  BY TaskMovesOthers
<1>3. CASE UNCHANGED state
  <2>1. Unfinished'
    BY <1>1, <1>3 DEF Unfinished
  <2>2. Suspended(t) => Point(t, 2)' = Point(t, 2)
    <3>1. CASE UNCHANGED pc
      BY <3>1 DEF Point
    <3>2. CASE Suspended(t) /\ ~ UNCHANGED pc
      <4>1. Executes(t) /\ state[t] # "RUNNING"
        BY <3>2, TaskMoves DEF Suspended
      <4>2. PICK label : At(t, label)
        BY <4>1 DEF At
      <4>3. At(t, "pend")
        BY <1>0, <4>1, <4>2, ExecFacts
      <4>4. PEND_SV(t)
        <5>1. Head(pc[t]) = "pend"
          BY <4>3 DEF At
        <5>2. CASE KernelCall(t)
          BY <5>1, <5>2 DEF KernelCall, RestoreLevel, scheduler_unlock, UnlockYield, SleepAdd,
             SleepInsert, SleepSuspend, At
        <5>3. CASE UserCall(t)
          BY <5>1, <5>3 DEF UserCall, scheduler_lock, UserUnlock, task_yield, sleep_ticks,
             task_entry_return, scheduler_task_add, InUser, At
        <5>4. CASE ConditionCall(t)
          BY <5>1, <5>4 DEF ConditionCall, suspend_timeout_get_min, suspend_do_suspend,
             suspend_condition_add_task, SuspendLock, SuspendSleep, SuspendInsert, SuspendSwitch,
             SuspendWoke, suspend_condition_remove_all, suspend_condition_remove, SuspendReturn,
             ResumeLock, ResumeOne, ResumeUnlock, ResumeYield, ResumeReturn, At
        <5>5. CASE SemaphoreCall(t) \/ SemaphoreUse(t)
          BY <5>1, <5>5 DEF SemaphoreCall, ObtainTest, ObtainTake, ReleaseIncrement, DestroyClear,
             SemaphoreUse, semaphore_obtain, semaphore_release, semaphore_destroy, EnterLocked,
             InUser, At
        <5> QED  BY <5>2, <5>3, <5>4, <5>5 DEF TaskStep
      <4> QED  BY <1>0, <4>4, PendControl DEF NewStack
    <3> QED  BY <3>1, <3>2
  <2> QED  BY <1>2, <1>3, <2>1, <2>2 DEF SuspendsInside, Suspended
<1>4. CASE /\ SleepSuspend(t) \/ SuspendSwitch(t)
           /\ state' = [state EXCEPT ![t] = "TO_BE_SUSPENDED"]
  <2>1. Point(t, 2)' \in {"unlock", "sc_woke"}
    BY <1>0, <1>4, SleepSuspendControl, SuspendSwitchControl DEF NewStack
  <2>2. state'[t] = "TO_BE_SUSPENDED" /\ \A u \in Tasks : u # t => state'[u] = state[u]
    BY <1>0, <1>4 DEF StateTypeOK
  <2> QED  BY <1>1, <1>2, <2>1, <2>2 DEF Unfinished, SuspendsInside, Suspended
<1>5. ASSUME NEW x \in Tasks, x # t, YieldSystem(x), state[t] = "RUNNING"
      PROVE  Unfinished' /\ SuspendsInside'
  <2>1. state'[x] = "RESUME" /\ \A u \in Tasks : u # x => state'[u] = state[u]
    BY <1>0, <1>5, YieldSystemTypes
  <2> QED  BY <1>1, <1>2, <1>5, <2>1 DEF Unfinished, SuspendsInside, Suspended
<1> QED  BY <1>3, <1>4, <1>5, TaskStates

LEMMA SystemUnfinished ==
  ASSUME Core, ReadyOK, WaitsKept, Unfinished, SuspendsInside,
         Boot \/ PendSV \/ isr_sysclock_handle
  PROVE  Unfinished' /\ SuspendsInside'
<1>0. Control /\ StateTypeOK /\ SemCurrent
  BY DEF Core, Control
<1>1. UNCHANGED pc
  BY DEF Boot, BootAdd, run_first_task, PendSV, SaveCurrent, sleep_process_system_tick,
         LoadNext, isr_sysclock_handle
<1>2. \A u \in Tasks : Point(u, 2)' = Point(u, 2)
  BY <1>1 DEF Point
<1>3. SuspendsInside'
  <2>1. \A u \in Tasks : Suspended(u)' => Suspended(u)
    <3>1. CASE sleep_process_system_tick
      <4>1. PICK i, t :
              /\ i \in 1 .. Len(sleep_task_list) /\ t = sleep_task_list[i]
              /\ state' = [state EXCEPT ![t] = "SLEEP_RESUME"]
        BY <3>1 DEF sleep_process_system_tick
      <4>2. t \in Tasks
        BY <1>0, <4>1, ElementOf DEF StateTypeOK
      <4>3. state'[t] = "SLEEP_RESUME" /\ \A u \in Tasks : u # t => state'[u] = state[u]
        BY <1>0, <4>1, <4>2 DEF StateTypeOK
      <4> QED  BY <4>3 DEF Suspended
    <3>2. CASE ~ sleep_process_system_tick
      <4>1. \A u \in Tasks : StateKept(u)
        BY <3>2, SystemStates DEF PendSV
      <4> QED  BY <4>1 DEF StateKept
    <3> QED  BY <3>1, <3>2
  <2> QED  BY <1>2, <2>1 DEF SuspendsInside
<1>4. ASSUME SwitchToNext
      PROVE  Unfinished'
  <2>1. CASE sch_ready_task_list = <<>>
    BY <1>4, <2>1 DEF SwitchToNext, Halt, Unfinished
  <2>2. CASE sch_ready_task_list # <<>>
    <3>1. PICK t : t = Head(sch_ready_task_list)
      OBVIOUS
    <3>2. state' = [state EXCEPT ![t] = "RUNNING"] /\ current_task' = t
      BY <1>4, <2>2, <3>1 DEF SwitchToNext
    <3>3. t \in Tasks
      BY <1>0, <2>2, <3>1 DEF StateTypeOK
    <3>4. state'[t] = "RUNNING"
      BY <1>0, <3>2, <3>3 DEF StateTypeOK
    <3> QED  BY <3>2, <3>4 DEF Unfinished
  <2> QED  BY <2>1, <2>2
<1>5. ASSUME \E t \in Tasks : BootAdd(t)
      PROVE  Unfinished'
  BY <1>5 DEF BootAdd, Unfinished, cpuVars
<1>6. ASSUME SaveCurrent \/ sleep_process_system_tick
      PROVE  Unfinished'
  BY <1>6 DEF SaveCurrent, sleep_process_system_tick, Unfinished, cpuVars
<1>7. ASSUME isr_sysclock_handle
      PROVE  Unfinished'
  BY <1>7 DEF isr_sysclock_handle, Preempt, Halt, Unfinished
<1> QED  BY <1>3, <1>4, <1>5, <1>6, <1>7 DEF Boot, run_first_task, PendSV, LoadNext

IdlePoints == {"user", "unlock", "drift", "pend", "back"}

LEMMA IdlePointsAre ==
  ASSUME IdleReady
  PROVE  Point(Idle, 1) \in IdlePoints /\ Point(Idle, 2) \in IdlePoints /\ Point(Idle, 3) \in IdlePoints
BY DEF IdleReady, IdlePoints

LEMMA IdleMake ==
  ASSUME state'[Idle] \in {"RESUME", "RUNNING"},
         state'[Idle] = "RUNNING" => mode' = "task" /\ current_task' = Idle,
         Point(Idle, 1)' \in IdlePoints, Point(Idle, 2)' \in IdlePoints,
         Point(Idle, 3)' \in IdlePoints, held'[Idle] = {}
  PROVE  IdleReady'
<1>1. ASSUME NEW i \in 1 .. 3
      PROVE  Point(Idle, i)' \in IdlePoints
  <2>1. i = 1 \/ i = 2 \/ i = 3
    OBVIOUS
  <2>2. CASE i = 1
    BY <2>2
  <2>3. CASE i = 2
    BY <2>3
  <2>4. CASE i = 3
    BY <2>4
  <2> QED  BY <2>1, <2>2, <2>3, <2>4
<1> QED  BY <1>1 DEF IdleReady, IdlePoints

(* The idle task itself locks, unlocks and yields.                         *)
LEMMA IdleSteps ==
  ASSUME MayFinish = {}, Core, IdleReady, TaskStep(Idle), mode' # "assert",
         UNCHANGED semVars \/ SemaphoreCall(Idle) \/ SemaphoreUse(Idle)
  PROVE  IdleReady'
<1>0. Control /\ DataTypes /\ Idle \in Tasks
  BY TaskAssumption DEF Core
<1>1. /\ Point(Idle, 1) \in IdlePoints /\ Point(Idle, 2) \in IdlePoints
      /\ Point(Idle, 3) \in IdlePoints /\ Head(pc[Idle]) = Point(Idle, 1)
  BY <1>0, IdlePointsAre, TaskStack DEF Control
<1>2. /\ mode' = "task" /\ current_task' = Idle
      /\ UNCHANGED pc \/ \E l : Go(Idle, l)
  BY <1>0, TaskMoves
<1>3. ~ ConditionCall(Idle) /\ ~ SemaphoreCall(Idle) /\ ~ SleepSuspend(Idle)
      /\ ~ SleepAdd(Idle) /\ ~ SleepInsert(Idle)
  BY <1>1 DEF IdlePoints, ConditionCall, suspend_timeout_get_min, suspend_do_suspend,
       suspend_condition_add_task, SuspendLock, SuspendSleep, SuspendInsert, SuspendSwitch,
       SuspendWoke, suspend_condition_remove_all, suspend_condition_remove, SuspendReturn,
       ResumeLock, ResumeOne, ResumeUnlock, ResumeYield, ResumeReturn,
       SemaphoreCall, ObtainTest, ObtainTake, ReleaseIncrement, DestroyClear,
       SleepSuspend, SleepAdd, SleepInsert, At
<1>4. ~ SemaphoreUse(Idle)
  BY DEF SemaphoreUse, semaphore_obtain, semaphore_release, semaphore_destroy, IdleReady
<1>5. KernelCall(Idle) \/ UserCall(Idle)
  BY <1>3, <1>4 DEF TaskStep
<1>6. state'[Idle] \in {"RESUME", "RUNNING"}
  <2>1. CASE UNCHANGED state
    BY <2>1 DEF IdleReady
  <2>2. ASSUME NEW x \in Tasks, YieldSystem(x), state[x] \in {"TO_BE_SUSPENDED", "SUSPENDED", "FINISHED"}
        PROVE  state'[Idle] \in {"RESUME", "RUNNING"}
    BY <1>0, <2>2, YieldSystemTypes DEF IdleReady, Control
  <2>3. ~ SuspendSwitch(Idle)
    BY <1>3 DEF ConditionCall
  <2> QED  BY <1>0, <1>3, <2>1, <2>2, <2>3, TaskStates
<1>7. UNCHANGED pc \/ \E a, b, c \in IdlePoints : NewStack(Idle, a, b, c)
  <2>1. PICK p2, p3 : p2 = Point(Idle, 2) /\ p3 = Point(Idle, 3)
    OBVIOUS
  <2>2. /\ "user" \in IdlePoints /\ "unlock" \in IdlePoints /\ "drift" \in IdlePoints
        /\ "pend" \in IdlePoints /\ "back" \in IdlePoints
        /\ p2 \in IdlePoints /\ p3 \in IdlePoints
    BY <1>1, <2>1 DEF IdlePoints
  <2>3. CASE KernelCall(Idle)
    <3>1. \/ NewStack(Idle, "back", p2, p3) \/ NewStack(Idle, p2, p3, "user")
          \/ NewStack(Idle, "drift", p2, p3) \/ NewStack(Idle, "pend", p2, p3)
      BY <1>0, <1>3, <2>1, <2>3, PendControl, RestoreControl, UnlockControl, UnlockYieldControl
         DEF KernelCall
    <3> QED  BY <2>2, <3>1
  <2>4. CASE UserCall(Idle)
    <3>1. /\ ~ task_entry_return(Idle)
          /\ ~ \E n \in Delays[Idle] : sleep_ticks(Idle, n)
      BY TickAssumption DEF task_entry_return
    <3>2. \/ UNCHANGED pc \/ NewStack(Idle, "unlock", "user", "user")
          \/ NewStack(Idle, "pend", "user", "user")
      BY <1>0, <2>4, <3>1, LockControl, UserUnlockControl, YieldControl, TaskAddControl DEF UserCall
    <3> QED  BY <2>2, <3>2
  <2> QED  BY <1>5, <2>3, <2>4
<1>8. /\ Point(Idle, 1)' \in IdlePoints /\ Point(Idle, 2)' \in IdlePoints
      /\ Point(Idle, 3)' \in IdlePoints
  <2>1. CASE UNCHANGED pc
    BY <1>1, <2>1 DEF Point
  <2>2. ASSUME NEW a \in IdlePoints, NEW b \in IdlePoints, NEW c \in IdlePoints,
               NewStack(Idle, a, b, c)
        PROVE  /\ Point(Idle, 1)' \in IdlePoints /\ Point(Idle, 2)' \in IdlePoints
               /\ Point(Idle, 3)' \in IdlePoints
    BY <2>2 DEF NewStack
  <2> QED  BY <1>7, <2>1, <2>2
<1>9. held'[Idle] = {}
  BY <1>3, <1>4 DEF IdleReady, semVars
<1> QED  BY <1>2, <1>6, <1>8, <1>9, IdleMake

(* Nobody suspends or finishes the idle task.                              *)
LEMMA IdleOthers ==
  ASSUME MayFinish = {}, Core, IdleReady, NEW t \in Tasks, t # Idle, TaskStep(t),
         UNCHANGED semVars \/ SemaphoreCall(t) \/ SemaphoreUse(t)
  PROVE  IdleReady'
<1>0. Control /\ DataTypes /\ StateTypeOK /\ Idle \in Tasks
  BY TaskAssumption DEF Core, Control
<1>1. /\ Point(Idle, 1) \in IdlePoints /\ Point(Idle, 2) \in IdlePoints
      /\ Point(Idle, 3) \in IdlePoints
  BY IdlePointsAre
<1>2. mode = "task" /\ current_task = t
  BY TaskMoves
<1>3. /\ Point(Idle, 1)' = Point(Idle, 1) /\ Point(Idle, 2)' = Point(Idle, 2)
      /\ Point(Idle, 3)' = Point(Idle, 3)
  BY <1>0, TaskMovesOthers
<1>4. state[Idle] = "RESUME"
  BY <1>2 DEF IdleReady
<1>5. state'[Idle] = "RESUME"
  <2>1. CASE UNCHANGED state
    BY <1>4, <2>1
  <2>2. ASSUME NEW x \in Tasks, YieldSystem(x)
        PROVE  state'[Idle] = "RESUME"
    BY <1>0, <1>4, <2>2, YieldSystemTypes
  <2>3. CASE state' = [state EXCEPT ![t] = "TO_BE_SUSPENDED"]
    BY <1>0, <1>4, <2>3 DEF StateTypeOK
  <2> QED  BY <1>0, <2>1, <2>2, <2>3, TaskStates
<1>6. held'[Idle] = held[Idle]
  <2>1. UNCHANGED held \/ \E h : held' = [held EXCEPT ![t] = h]
    BY DEF SemaphoreCall, ObtainTest, ObtainTake, ReleaseIncrement, DestroyClear, semVars,
       SemaphoreUse, semaphore_obtain, semaphore_release, semaphore_destroy
  <2> QED  BY <1>0, <2>1 DEF DataTypes
<1> QED  BY <1>1, <1>3, <1>5, <1>6, IdleMake DEF IdleReady

LEMMA SystemIdle ==
  ASSUME Core, ReadyOK, WaitsKept, IdleReady, UNCHANGED held, mode' # "assert",
         Boot \/ PendSV \/ isr_sysclock_handle
  PROVE  IdleReady'
<1>0. Control /\ StateTypeOK /\ SemCurrent /\ Idle \in Tasks
  BY TaskAssumption DEF Core, Control
<1>1. UNCHANGED pc
  BY DEF Boot, BootAdd, run_first_task, PendSV, SaveCurrent, sleep_process_system_tick,
         LoadNext, isr_sysclock_handle
<1>2. /\ Point(Idle, 1)' \in IdlePoints /\ Point(Idle, 2)' \in IdlePoints
      /\ Point(Idle, 3)' \in IdlePoints
  <2>1. /\ Point(Idle, 1) \in IdlePoints /\ Point(Idle, 2) \in IdlePoints
        /\ Point(Idle, 3) \in IdlePoints
    BY IdlePointsAre
  <2> QED  BY <1>1, <2>1 DEF Point
<1>3. held'[Idle] = {}
  BY DEF IdleReady
<1>4. /\ state'[Idle] \in {"RESUME", "RUNNING"}
      /\ state'[Idle] = "RUNNING" => mode' = "task" /\ current_task' = Idle
  <2>1. ASSUME NEW t \in Tasks, BootAdd(t)
        PROVE  state'[Idle] = state[Idle] /\ UNCHANGED <<mode, current_task>>
    <3>1. t # Idle
      BY <2>1 DEF BootAdd, IdleReady
    <3> QED  BY <1>0, <2>1, <3>1, YieldSystemTypes DEF BootAdd, cpuVars
  <2>2. ASSUME SwitchToNext, mode \in {"boot", "pendsv"}
        PROVE  /\ state'[Idle] \in {"RESUME", "RUNNING"}
               /\ state'[Idle] = "RUNNING" => mode' = "task" /\ current_task' = Idle
    <3>1. sch_ready_task_list # <<>>
      BY <2>2 DEF SwitchToNext, Halt
    <3>2. PICK t : t = Head(sch_ready_task_list)
      OBVIOUS
    <3>3. state' = [state EXCEPT ![t] = "RUNNING"] /\ current_task' = t /\ mode' = "task"
      BY <2>2, <3>1, <3>2 DEF SwitchToNext
    <3>4. state[Idle] = "RESUME"
      BY <2>2 DEF IdleReady
    <3> QED  BY <1>0, <3>3, <3>4 DEF StateTypeOK
  <2>3. ASSUME SaveCurrent
        PROVE  state'[Idle] = "RESUME"
    <3>1. mode = "task" /\ current_task \in Tasks
      BY <1>0, <2>3 DEF SaveCurrent, SemCurrent
    <3>2. CASE current_task = Idle
      <4>1. state[Idle] = "RUNNING"
        BY <1>0, <3>1, <3>2 DEF IdleReady, SemCurrent
      <4>2. YieldSystem(Idle)
        BY <2>3, <3>2, <4>1 DEF SaveCurrent
      <4> QED  BY <1>0, <4>2, YieldSystemTypes
    <3>3. CASE current_task # Idle
      <4>1. state[Idle] = "RESUME"
        BY <3>3 DEF IdleReady
      <4>2. PICK c : c = current_task
        OBVIOUS
      <4>3. CASE YieldSystem(c)
        BY <1>0, <3>1, <3>3, <4>1, <4>2, <4>3, YieldSystemTypes
      <4>4. CASE state' = [state EXCEPT ![c] = "SUSPENDED"]
        BY <1>0, <3>3, <4>1, <4>2, <4>4 DEF StateTypeOK
      <4>5. CASE UNCHANGED state
        BY <4>1, <4>5
      <4> QED  BY <2>3, <4>2, <4>3, <4>4, <4>5 DEF SaveCurrent
    <3> QED  BY <3>2, <3>3
  <2>4. ASSUME sleep_process_system_tick
        PROVE  state'[Idle] = state[Idle] /\ UNCHANGED <<mode, current_task>>
    <3>1. PICK i, t :
            /\ i \in 1 .. Len(sleep_task_list) /\ t = sleep_task_list[i]
            /\ sleep_walk(i) /\ state' = [state EXCEPT ![t] = "SLEEP_RESUME"]
      BY <2>4 DEF sleep_process_system_tick
    <3>2. t # Idle
      BY <3>1 DEF sleep_walk, IdleReady
    <3> QED  BY <1>0, <2>4, <3>1, <3>2 DEF StateTypeOK, sleep_process_system_tick, cpuVars
  <2>5. ASSUME isr_sysclock_handle
        PROVE  /\ state'[Idle] = state[Idle] /\ UNCHANGED current_task
               /\ mode = "task" /\ mode' = "task"
    BY <2>5 DEF isr_sysclock_handle, Preempt, Halt
  <2>6. /\ state[Idle] \in {"RESUME", "RUNNING"}
        /\ state[Idle] = "RUNNING" => mode = "task" /\ current_task = Idle
    BY DEF IdleReady
  <2>7. \/ \E t \in Tasks : BootAdd(t)
        \/ SwitchToNext /\ mode \in {"boot", "pendsv"}
        \/ SaveCurrent
        \/ sleep_process_system_tick
        \/ isr_sysclock_handle
    BY DEF Boot, PendSV, run_first_task, LoadNext
  <2> QED  BY <2>1, <2>2, <2>3, <2>4, <2>5, <2>6, <2>7
<1> QED  BY <1>2, <1>3, <1>4, IdleMake

----------------------------------------------------------------------------
(* No step of the system and none of a task halts.                         *)
LEMMA SystemNoAssert ==
  ASSUME Core, ReadyOK, IdleReady, Unfinished, SuspendsInside, mode # "assert",
         Boot \/ PendSV \/ isr_sysclock_handle
  PROVE  mode' # "assert"
<1>0. Control /\ StateTypeOK /\ SemCurrent /\ Idle \in Tasks
  BY TaskAssumption DEF Core, Control
<1>1. ASSUME SwitchToNext, mode \in {"boot", "pendsv"}
      PROVE  mode' # "assert"
  <2>1. Ready(Idle)
    BY <1>1 DEF Ready, IdleReady
  <2>2. Idle \in ToSet(sch_ready_task_list)
    BY <1>0, <2>1 DEF ReadyOK, ReadyListExact
  <2>3. sch_ready_task_list # <<>>
    BY <2>2 DEF ToSet
  <2> QED  BY <1>1, <2>3 DEF SwitchToNext
<1>2. ASSUME isr_sysclock_handle
      PROVE  mode' # "assert"
  <2>1. mode = "task" /\ current_task \in Tasks
    BY <1>0, <1>2 DEF isr_sysclock_handle, SemCurrent
  <2>2. PICK c \in Tasks : c = current_task
    BY <2>1
  <2>3. lock_count[c] = 0 => state[c] = "RUNNING"
    <3>1. SUFFICES ASSUME state[c] # "RUNNING"
                   PROVE  lock_count[c] # 0
      OBVIOUS
    <3>2. Suspended(c)
      BY <1>0, <2>1, <2>2, <3>1 DEF SemCurrent, Unfinished, Suspended
    <3>3. Owes(Point(c, 2)) = 1
      BY <3>2 DEF SuspendsInside, Owes, Owing
    <3> HIDE DEF Owes
    <3> QED  BY <1>0, <3>3, LockFacts
  <2> QED  BY <1>2, <2>1, <2>2, <2>3 DEF isr_sysclock_handle, Preempt
<1>3. ASSUME (\E t \in Tasks : BootAdd(t)) \/ SaveCurrent \/ sleep_process_system_tick
      PROVE  mode' # "assert"
  BY <1>3 DEF BootAdd, SaveCurrent, sleep_process_system_tick, cpuVars
<1> QED  BY <1>1, <1>2, <1>3 DEF Boot, PendSV, run_first_task, LoadNext

LEMMA KernelNoAssert ==
  ASSUME Core, NEW t \in Tasks, KernelCall(t) \/ UserCall(t)
  PROVE  mode' # "assert"
<1>0. Control
  BY DEF Core
<1>1. mode = "task"
  BY TaskMoves DEF TaskStep
<1>2. ASSUME scheduler_unlock(t)
      PROVE  mode' # "assert"
  <2>1. At(t, "unlock")
    BY <1>2 DEF scheduler_unlock
  <2>2. Point(t, 1) = "unlock"
    BY <1>0, <2>1, ExecFacts
  <2>3. Owes(Point(t, 1)) = 1
    BY <2>2 DEF Owes, Owing
  <2>4. lock_count[t] # 0
    BY <1>0, <2>3, LockFacts
  <2> QED  BY <1>1, <1>2, <2>4 DEF scheduler_unlock
<1>3. ASSUME scheduler_lock(t) \/ \E n \in Delays[t] : sleep_ticks(t, n)
      PROVE  mode' # "assert"
  <2>1. InUser(t)
    BY <1>3 DEF scheduler_lock, sleep_ticks
  <2>2. lock_count[t] \in 0 .. MaxUserLock
    BY <1>0, <2>1, UserFacts
  <2>3. ~ (lock_count[t] >= MaxLock)
    BY <2>2, LockAssumption
  <2> QED  BY <1>1, <1>3, <2>3 DEF scheduler_lock, sleep_ticks
<1>4. CASE KernelCall(t) /\ ~ scheduler_unlock(t)
  BY <1>1, <1>4 DEF KernelCall, PEND_SV, RestoreLevel, UnlockYield, SleepAdd, SleepInsert,
     SleepSuspend, cpuVars
<1>5. CASE UserCall(t) /\ ~ scheduler_lock(t) /\ ~ \E n \in Delays[t] : sleep_ticks(t, n)
  BY <1>1, <1>5 DEF UserCall, UserUnlock, task_yield, task_entry_return, scheduler_task_add,
     cpuVars
<1> QED  BY <1>2, <1>3, <1>4, <1>5

LEMMA SuspendNoAssert ==
  ASSUME Core, WaitsKept, ResumedMayTake, destroyed = {}, ResumerKeepsCPU, SleepersExact,
         TimedOutListed, NEW t \in Tasks,
         \/ SuspendLock(t) \/ SuspendWoke(t)
         \/ suspend_condition_remove_all(t) \/ suspend_condition_remove(t)
  PROVE  mode' # "assert"
<1>0. Control /\ DataTypes /\ StateTypeOK
  BY DEF Core, Control
<1>1. CASE SuspendLock(t)
  <2>1. At(t, "sc_lock") /\ "sc_lock" \in SuspendLabels
    BY <1>1 DEF SuspendLock, SuspendLabels, ConditionLabels, ResumeLabels
  <2>2. mode = "task" /\ lock_count[t] \in Owes("sc_lock") + 1 .. Owes("sc_lock") + 1 + MaxUserLock
    BY <1>0, <2>1, SuspendPoint
  <2>3. Owes("sc_lock") = 0
    BY DEF Owes, Owing
  <2>4. ~ (lock_count[t] >= MaxLock)
    BY <2>2, <2>3, LockAssumption
  <2> QED  BY <1>1, <2>2, <2>4 DEF SuspendLock
<1>2. CASE SuspendWoke(t)
  <2>1. At(t, "sc_woke")
    BY <1>2 DEF SuspendWoke
  <2>2. mode = "task" /\ Point(t, 1) = "sc_woke" /\ ~ Suspended(t)
    BY <1>0, <2>1, InSuspendAt, SuspendAt
  <2>3. Calling(t, "sc_woke")
    BY <2>2, CallingIs
  <2>4. resume_from[t] # "SLEEP" /\ timeout[t] # MAX_WAIT => t \in ToSet(sleep_task_list)
    <3>1. resume_from[t] \in {"SYSTEM", "SLEEP"}
      BY <1>0 DEF StateTypeOK
    <3> QED  BY <2>2, <2>3, <3>1 DEF SleepersExact, Asleep, TimedWait
  <2>5. resume_from[t] # "SLEEP" /\ timeout[t] # MAX_WAIT => sll_in_list(sleep_task_list, t)
    BY <1>0, <2>4, ToSetMember DEF StateTypeOK, sll_in_list
  <2> QED  BY <1>2, <2>2, <2>5 DEF SuspendWoke
<1>3. CASE suspend_condition_remove_all(t)
  <2>1. At(t, "sc_done") /\ from[t] = "SLEEP"
    BY <1>3 DEF suspend_condition_remove_all
  <2>2. /\ mode = "task" /\ current_task = t /\ ToSet(conds[t]) = {sem[t]}
        /\ Point(t, 1) = "sc_done" /\ Point(t, 2) = "so_take" /\ Point(t, 3) = "user"
    BY <2>1, SuspendAt
  <2>3. TimedOut(t)
    BY <1>0, <1>3, DonePhase
  <2>4. PICK s : s = sem[t]
    OBVIOUS
  <2>5. \A u \in Tasks : resuming[u] = NoResume
    <3>1. ~ Resumes(t)
      BY <2>2, CallingIs DEF Resumes, ResumeLabels
    <3>2. resuming[t] = NoResume
      BY <3>1 DEF ResumerKeepsCPU
    <3> QED  BY <2>2, <3>2, OnlyResumer
  <2>6. t \notin Aside(s)
    BY <2>5 DEF Aside, NoResume, ToSet
  <2>7. t \in ToSet(suspend_list[s])
    BY <2>3, <2>4, <2>6 DEF TimedOutListed
  <2>8. OnLists(t, ToSet(conds[t]))
    <3>1. PICK l : l = suspend_list[s]
      OBVIOUS
    <3>2. l \in Seq(Tasks)
      BY <2>1, <2>4, <3>1, SuspendAt, ListTypes, <1>0
    <3>3. sll_in_list(l, t)
      BY <2>7, <3>1, <3>2, ToSetMember DEF sll_in_list
    <3> QED  BY <2>2, <2>4, <3>1, <3>3 DEF OnLists
  <2> QED  BY <1>3, <2>2, <2>8 DEF suspend_condition_remove_all
<1>4. CASE suspend_condition_remove(t)
  <2>1. At(t, "sc_done")
    BY <1>4 DEF suspend_condition_remove
  <2>2. mode = "task" /\ ToSet(conds[t]) = {sem[t]}
    BY <2>1, SuspendAt
  <2>3. Resumed(t)
    BY <1>0, <1>4, DonePhase
  <2>4. suspend_data[t] = <<sem[t]>>
    BY <2>3 DEF ResumedMayTake
  <2>5. ToSet(conds[t]) \ {Head(suspend_data[t])} = {}
    BY <2>2, <2>4
  <2>6. OnLists(t, ToSet(conds[t]) \ {Head(suspend_data[t])})
    BY <2>5 DEF OnLists
  <2> QED  BY <1>4, <2>2, <2>6 DEF suspend_condition_remove
<1> QED  BY <1>1, <1>2, <1>3, <1>4

LEMMA ConditionNoAssert ==
  ASSUME Core, WaitsKept, ResumedMayTake, destroyed = {}, ResumerKeepsCPU, SleepersExact,
         TimedOutListed, NEW t \in Tasks, ConditionCall(t)
  PROVE  mode' # "assert"
<1>0. Control /\ DataTypes /\ StateTypeOK
  BY DEF Core, Control
<1>1. mode = "task"
  BY TaskMoves DEF TaskStep
<1>2. CASE ResumeLock(t)
  <2>1. At(t, "rc_lock") /\ "rc_lock" \in ResumeLabels
    BY <1>2 DEF ResumeLock, ResumeLabels
  <2>2. Point(t, 1) = "rc_lock" /\ Point(t, 3) = "user"
    BY <1>0, <2>1, ResumePoint
  <2>3. Owes("rc_lock") = 0 /\ Owes("user") = 0
    BY DEF Owes, Owing
  <2>4. Owes(Point(t, 1)) + Owes(Point(t, 2)) + Owes(Point(t, 3)) <= 1
    <3>1. Owes(Point(t, 2)) \in {0, 1}
      BY DEF Owes
    <3>2. Owes(Point(t, 1)) = 0 /\ Owes(Point(t, 3)) = 0
      BY <2>2, <2>3
    <3> QED  BY <3>1, <3>2
  <2>5. ~ (lock_count[t] >= MaxLock)
    <3>1. PICK a, b, c : a = Owes(Point(t, 1)) /\ b = Owes(Point(t, 2)) /\ c = Owes(Point(t, 3))
      OBVIOUS
    <3>2. a \in {0, 1} /\ b \in {0, 1} /\ c \in {0, 1} /\ a + b + c <= 1
      BY <2>4, <3>1 DEF Owes
    <3>3. lock_count[t] \in 0 .. MaxLock /\ lock_count[t] <= a + b + c + MaxUserLock
      BY <1>0, <3>1, LockFacts
    <3> QED  BY <3>2, <3>3, LockAssumption
  <2> QED  BY <1>1, <1>2, <2>5 DEF ResumeLock
<1>3. CASE ResumeOne(t) \/ ResumeUnlock(t) \/ ResumeYield(t) \/ ResumeReturn(t)
  BY <1>1, <1>3 DEF ResumeOne, ResumeUnlock, ResumeYield, ResumeReturn, cpuVars
<1>4. CASE \/ suspend_timeout_get_min(t) \/ suspend_do_suspend(t)
           \/ suspend_condition_add_task(t) \/ SuspendSleep(t) \/ SuspendInsert(t)
           \/ SuspendSwitch(t) \/ SuspendReturn(t)
  BY <1>1, <1>4 DEF suspend_timeout_get_min, suspend_do_suspend, suspend_condition_add_task,
     SuspendSleep, SuspendInsert, SuspendSwitch, SuspendReturn, cpuVars
<1> QED  BY <1>2, <1>3, <1>4, SuspendNoAssert DEF ConditionCall

LEMMA SemaphoreNoAssert ==
  ASSUME Core, CountExact, UnitThere, NEW t \in Tasks, SemaphoreCall(t) \/ SemaphoreUse(t)
  PROVE  mode' # "assert"
<1>0. Control /\ DataTypes /\ CallArguments
  BY DEF Core
<1>1. mode = "task"
  BY TaskMoves DEF TaskStep
<1>2. CASE ObtainTake(t)
  <2>1. At(t, "so_take")
    BY <1>2 DEF ObtainTake
  <2>2. Point(t, 1) = "so_take"
    BY <1>0, <2>1, ExecFacts
  <2>3. ~ (status[t] = "SUCCESS" /\ count[sem[t]] = 0)
    BY <2>2 DEF UnitThere
  <2> QED  BY <1>1, <1>2, <2>3 DEF ObtainTake
<1>3. ASSUME NEW s, NEW label, EnterLocked(t, s, label)
      PROVE  mode' # "assert"
  <2>1. InUser(t)
    BY <1>3 DEF EnterLocked
  <2>2. lock_count[t] \in 0 .. MaxUserLock
    BY <1>0, <2>1, UserFacts
  <2>3. ~ (lock_count[t] >= MaxLock)
    BY <2>2, LockAssumption
  <2> QED  BY <1>1, <1>3, <2>3 DEF EnterLocked
<1>4. ASSUME NEW s \in Conditions, semaphore_release(t, s)
      PROVE  mode' # "assert"
  <2>1. s \in held[t] /\ s \notin destroyed
    BY <1>4 DEF semaphore_release
  <2>2. PICK n : n = Cardinality(Holders(s))
    OBVIOUS
  <2>3. n \in Nat /\ n # 0
    <3>1. t \in Holders(s)
      BY <2>1 DEF Holders
    <3>2. IsFiniteSet(Holders(s)) /\ Holders(s) # {}
      BY <3>1, HoldersFinite
    <3> QED  BY <2>2, <3>2, FS_EmptySet, HoldersFinite
  <2>4. count[s] + n = MaxCount[s]
    BY <2>1, <2>2, CountOf
  <2>5. count[s] \in Nat
    BY <1>0 DEF DataTypes
  <2>6. ~ (count[s] >= MaxCount[s])
    BY <2>3, <2>4, <2>5
  <2> QED  BY <1>3, <1>4, <2>6 DEF semaphore_release
<1>5. CASE ObtainTest(t) \/ ReleaseIncrement(t) \/ DestroyClear(t)
  BY <1>1, <1>5 DEF ObtainTest, ReleaseIncrement, DestroyClear, cpuVars
<1>6. ASSUME NEW s \in Conditions,
             (\E w \in Waits : semaphore_obtain(t, s, w)) \/ semaphore_destroy(t, s)
      PROVE  mode' # "assert"
  BY <1>1, <1>3, <1>6 DEF semaphore_obtain, semaphore_destroy
<1> QED  BY <1>2, <1>4, <1>5, <1>6 DEF SemaphoreCall, SemaphoreUse

(* The steps of SemNext, as the lemmas above have them.                    *)
LEMMA SemNextSteps ==
  ASSUME SemNext
  PROVE  \/ (Boot \/ PendSV \/ isr_sysclock_handle) /\ UNCHANGED <<condVars, semVars>>
         \/ \E t \in Tasks :
              /\ TaskStep(t)
              /\ UNCHANGED semVars \/ SemaphoreCall(t) \/ SemaphoreUse(t)
BY DEF SemNext, SemBoot, SemPendSV, SemTick, ConditionTick, CallStep, TaskStep

LEMMA NoAssertStep ==
  ASSUME Sound, destroyed = {}, ResumerKeepsCPU, SleepersExact, UnitThere, TimedOutListed,
         IdleReady, Unfinished, SuspendsInside, mode # "assert", [SemNext]_vars
  PROVE  mode' # "assert"
<1>1. Core /\ ReadyOK /\ WaitsKept /\ ResumedMayTake /\ CountExact
  BY DEF Sound
<1>2. CASE UNCHANGED vars
  BY <1>2 DEF vars, kernelVars, cpuVars
<1>3. ASSUME NEW t \in Tasks, TaskStep(t)
      PROVE  mode' # "assert"
  BY <1>1, <1>3, KernelNoAssert, ConditionNoAssert, SemaphoreNoAssert DEF TaskStep
<1> QED  BY <1>1, <1>2, <1>3, SystemNoAssert, SemNextSteps

LEMMA IdleStep ==
  ASSUME MayFinish = {}, Core, ReadyOK, WaitsKept, IdleReady, mode' # "assert", [SemNext]_vars
  PROVE  IdleReady'
<1>1. CASE UNCHANGED vars
  BY <1>1 DEF vars, kernelVars, cpuVars, semVars, IdleReady, Point
<1>2. CASE (Boot \/ PendSV \/ isr_sysclock_handle) /\ UNCHANGED <<condVars, semVars>>
  BY <1>2, SystemIdle DEF semVars
<1>3. ASSUME NEW t \in Tasks, TaskStep(t),
             UNCHANGED semVars \/ SemaphoreCall(t) \/ SemaphoreUse(t)
      PROVE  IdleReady'
  BY <1>3, IdleSteps, IdleOthers
<1> QED  BY <1>1, <1>2, <1>3, SemNextSteps

LEMMA UnfinishedStep ==
  ASSUME MayFinish = {}, Core, ReadyOK, WaitsKept, Unfinished, SuspendsInside, [SemNext]_vars
  PROVE  Unfinished' /\ SuspendsInside'
<1>1. CASE UNCHANGED vars
  BY <1>1 DEF vars, kernelVars, cpuVars, Unfinished, SuspendsInside, Suspended, Point
<1> QED  BY <1>1, SystemUnfinished, TaskUnfinished, SemNextSteps

(* What the invariant of the assertions adds to the one of the waits.      *)
Asserts == destroyed = {} /\ ResumerKeepsCPU /\ SuspendLists /\ SleepersExact /\ AssertInvariant

LEMMA AssertIs ==
  AssertInvariant <=> /\ mode # "assert" /\ UnitThere /\ TimedOutListed /\ IdleReady
                      /\ Unfinished /\ SuspendsInside
BY DEF AssertInvariant, NoAssert, Unfinished, SuspendsInside

LEMMA AssertInit ==
  ASSUME SemInit
  PROVE  AssertInvariant
<1>0. Idle \in Tasks
  BY TaskAssumption
<1>1. Init /\ CondInit
  BY DEF SemInit
<1>2. /\ state = [t \in Tasks |-> IF t = Idle THEN "RESUME" ELSE "FINISHED"]
      /\ pc = [t \in Tasks |-> <<"user">>] /\ mode = "boot"
  BY <1>1 DEF Init
<1>3. \A t \in Tasks : \A i \in 1 .. 3 : Point(t, i) = "user"
  BY <1>2 DEF Point
<1>4. \A t \in Tasks : /\ Point(t, 1) = "user" /\ Point(t, 2) = "user" /\ Point(t, 3) = "user"
                       /\ ~ Suspended(t)
  <2>1. \A t \in Tasks : ~ Suspended(t)
    BY <1>2 DEF Suspended
  <2> QED  BY <1>3, <2>1
<1>5. \A t \in Tasks : ~ TimedOut(t)
  BY <1>4, CallingIs DEF TimedOut, Ended
<1>6. mode # "assert" /\ Unfinished /\ SuspendsInside /\ TimedOutListed
  BY <1>2, <1>4, <1>5 DEF Unfinished, SuspendsInside, TimedOutListed
<1>7. UnitThere
  BY <1>1, <1>4 DEF UnitThere, CondInit
<1>8. IdleReady
  <2>1. held[Idle] = {}
    BY <1>0 DEF SemInit
  <2> QED  BY <1>0, <1>2, <1>3, <2>1 DEF IdleReady
<1> QED  BY <1>6, <1>7, <1>8, AssertIs

LEMMA AssertStep ==
  ASSUME MayFinish = {}, MayDestroy = {}, Sound, Asserts, [SemNext]_vars
  PROVE  Asserts'
<1>0. /\ Core /\ ReadyOK /\ WaitsKept /\ ResumedMayTake /\ StatusTypes
      /\ destroyed = {} /\ ResumerKeepsCPU /\ SuspendLists /\ SleepersExact
      /\ mode # "assert" /\ UnitThere /\ TimedOutListed /\ IdleReady /\ Unfinished /\ SuspendsInside
  BY AssertIs DEF Sound, Asserts
<1>1. mode' # "assert"
  BY <1>0, NoAssertStep
<1>2. /\ destroyed' = {} /\ ResumerKeepsCPU'
  BY <1>0, ResumerStep
<1>3. SuspendLists'
  BY <1>0, ListsStep
<1>4. SleepersExact'
  BY <1>0, SleepersStep
<1>5. UnitThere'
  BY <1>0, <1>1, UnitThereStep
<1>6. TimedOutListed'
  BY <1>0, <1>1, TimedOutStep
<1>7. IdleReady'
  BY <1>0, <1>1, IdleStep
<1>8. Unfinished' /\ SuspendsInside'
  BY <1>0, UnfinishedStep
<1>9. AssertInvariant'
  BY <1>1, <1>5, <1>6, <1>7, <1>8 DEF AssertInvariant, NoAssert, Unfinished, SuspendsInside
<1> QED  BY <1>2, <1>3, <1>4, <1>9 DEF Asserts

(* No assertion of the kernel, of condition.c or of semaphore.c fails      *)
(* (NoAssert): the ready list is never empty when the CPU looks for a task,*)
(* the tick finds the running task running, the lock level stays in its    *)
(* range, a task that wakes up is still on the lists it leaves, and a unit *)
(* is there when it is taken or given back.                                *)
THEOREM SemNoAssert ==
  ASSUME MayFinish = {}, MayDestroy = {}
  PROVE  SemSpec => []NoAssert
<1>1. SemInit => Sound /\ Asserts
  BY SoundInit, ListsInit, SleepersInit, AssertInit DEF Asserts
<1>2. Sound /\ Asserts /\ [SemNext]_vars => (Sound /\ Asserts)'
  BY SoundStep, AssertStep
<1>3. Sound /\ Asserts => NoAssert
  BY DEF Asserts, AssertInvariant
<1> QED  BY <1>1, <1>2, <1>3, PTL DEF SemSpec
===============================================================================
