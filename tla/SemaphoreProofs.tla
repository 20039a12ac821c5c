--------------------------- MODULE SemaphoreProofs ---------------------------
(***************************************************************************)
(* Proofs about Semaphore, for every set of tasks, semaphores and waits:   *)
(* its types, the exact count of every semaphore, the ready list and,      *)
(* while no semaphore is destroyed, the suspend lists.                     *)
(***************************************************************************)
EXTENDS SemaphoreControl, FiniteSetTheorems

----------------------------------------------------------------------------
(* The arguments of the calls.                                             *)

(* Task u enters no semaphore function, neither enters nor leaves          *)
(* suspend_condition, and gets no further in its wait.                     *)
CallsKept(u) ==
  /\ \A label \in SemaphoreLabels : Calling(u, label)' => Calling(u, label)
  /\ InSuspend(u)' <=> InSuspend(u)
  /\ \A label \in {"sc_woke", "sc_done"} : Calling(u, label)' <=> Calling(u, label)
  /\ Queued(u)' <=> Queued(u)
  /\ Point(u, 1)' = "sc_timeout" => Point(u, 1) = "sc_timeout"
  /\ Resumes(u)' => Resumes(u)

LEMMA ArgumentsKept ==
  ASSUME NEW u, Arguments(u), CallsKept(u),
         sem'[u] = sem[u], held'[u] = held[u], conds'[u] = conds[u],
         suspend_data'[u] = suspend_data[u], until'[u] = until[u],
         resuming'[u].cond = resuming[u].cond,
         destroyed' = destroyed
  PROVE  Arguments(u)'
<1>1. \A label \in {"so_test", "so_take", "sr_inc", "sd_clear"} :
        Calling(u, label)' => Calling(u, label)
  BY DEF CallsKept, SemaphoreLabels
<1> QED  BY <1>1 DEF Arguments, CallsKept

LEMMA SamePoints ==
  ASSUME NEW u, Point(u, 1)' = Point(u, 1), Point(u, 2)' = Point(u, 2),
         Point(u, 3)' = Point(u, 3)
  PROVE  /\ CallsKept(u)
         /\ \A label : Calling(u, label)' <=> Calling(u, label)
<1>1. \A i \in 1 .. 3 : Point(u, i)' = Point(u, i)
  <2> TAKE i \in 1 .. 3
  <2>1. i = 1 \/ i = 2 \/ i = 3
    OBVIOUS
  <2> QED  BY <2>1
<1>2. \A label : Calling(u, label)' <=> Calling(u, label)
  BY <1>1 DEF Calling
<1>3. InSuspend(u)' <=> InSuspend(u)
  BY <1>1 DEF InSuspend
<1>4. Queued(u)' <=> Queued(u)
  BY DEF Queued
<1> QED  BY <1>2, <1>3, <1>4 DEF CallsKept, Resumes

(* The points a task is at, from the three topmost ones.                   *)
LEMMA CallingIs ==
  ASSUME NEW u
  PROVE  /\ \A label : Calling(u, label) <=>
              Point(u, 1) = label \/ Point(u, 2) = label \/ Point(u, 3) = label
         /\ InSuspend(u) <=> Point(u, 2) = "so_take" \/ Point(u, 3) = "so_take"
<1>1. \A i : i \in 1 .. 3 <=> i = 1 \/ i = 2 \/ i = 3
  OBVIOUS
<1>2. \A i : i \in 2 .. 3 <=> i = 2 \/ i = 3
  OBVIOUS
<1> QED  BY <1>1, <1>2, Zenon DEF Calling, InSuspend

LEMMA NewCalling ==
  ASSUME NEW t, NEW a, NEW b, NEW c, NewStack(t, a, b, c)
  PROVE  /\ \A label : Calling(t, label)' <=> a = label \/ b = label \/ c = label
         /\ InSuspend(t)' <=> b = "so_take" \/ c = "so_take"
         /\ Point(t, 1)' = a
<1>1. Point(t, 1)' = a /\ Point(t, 2)' = b /\ Point(t, 3)' = c
  BY DEF NewStack
<1>2. \A i : i \in 1 .. 3 <=> i = 1 \/ i = 2 \/ i = 3
  OBVIOUS
<1>3. \A i : i \in 2 .. 3 <=> i = 2 \/ i = 3
  OBVIOUS
<1>4. \A label : Calling(t, label)' <=> a = label \/ b = label \/ c = label
  <2> TAKE label
  <2>1. Calling(t, label)' <=> \E i \in 1 .. 3 : Point(t, i)' = label
    BY DEF Calling
  <2> QED  BY <1>1, <1>2, <2>1, Zenon
<1>5. InSuspend(t)' <=> b = "so_take" \/ c = "so_take"
  <2>1. InSuspend(t)' <=> \E i \in 2 .. 3 : Point(t, i)' = "so_take"
    BY DEF InSuspend
  <2> QED  BY <1>1, <1>3, <2>1, Zenon
<1> QED  BY <1>1, <1>4, <1>5

(* A kernel function goes on, calls, or returns.                           *)
LEMMA KernelStepKeeps ==
  ASSUME NEW t, NEW a \in Labels, NEW b, NEW c, NewStack(t, a, b, c),
         Point(t, 1) \in Labels,
         b \in {Point(t, 2), "user", "unlock"}, c \in {Point(t, 3), "user"},
         \/ b = Point(t, 2) /\ c = Point(t, 3)
         \/ Point(t, 2) = "user" /\ Point(t, 3) = "user" /\ c = "user"
  PROVE  CallsKept(t)
<1>1. \A label \in Labels :
        /\ label \notin SemaphoreLabels /\ label \notin ResumeLabels /\ label # "sc_timeout"
        /\ label \notin {"sc_woke", "sc_done", "sc_lock", "sc_sleep", "sc_insert", "sc_suspend"}
  BY DEF Labels, SemaphoreLabels, ResumeLabels
<1>2. "so_take" \in SemaphoreLabels /\ "user" \in Labels /\ "unlock" \in Labels
  BY DEF Labels, SemaphoreLabels
<1>3. \A label \in SemaphoreLabels \cup ResumeLabels : Calling(t, label)' => Calling(t, label)
  BY <1>1, <1>2, NewCalling, CallingIs
<1>4. InSuspend(t)' <=> InSuspend(t)
  BY <1>1, <1>2, NewCalling, CallingIs
<1>5. Point(t, 1)' # "sc_timeout" /\ ~ Queued(t)' /\ ~ Queued(t)
  BY <1>1, NewCalling DEF Queued
<1>6. \A label \in {"sc_woke", "sc_done"} : Calling(t, label)' <=> Calling(t, label)
  BY <1>1, <1>2, NewCalling, CallingIs
<1> QED  BY <1>3, <1>4, <1>5, <1>6 DEF CallsKept, Resumes

LEMMA KernelReturnKeeps ==
  ASSUME NEW t, Point(t, 1) \in Labels, StackForm(Point(t, 1), Point(t, 2), Point(t, 3)),
         NewStack(t, Point(t, 2), Point(t, 3), "user")
  PROVE  CallsKept(t)
<1>1. /\ Point(t, 2) # "so_take" /\ Point(t, 2) # "sc_timeout"
      /\ Point(t, 2) \notin {"sc_lock", "sc_sleep", "sc_insert", "sc_suspend"}
  BY DEF StackForm, Labels, SemaphoreLabels, ResumeLabels, SuspendLabels, ConditionLabels
<1>2. "user" \notin SemaphoreLabels \cup ResumeLabels
  BY DEF SemaphoreLabels, ResumeLabels
<1>3. \A label \in SemaphoreLabels \cup ResumeLabels : Calling(t, label)' => Calling(t, label)
  BY <1>2, NewCalling, CallingIs
<1>4. InSuspend(t)' <=> InSuspend(t)
  BY <1>1, NewCalling, CallingIs
<1>5. Point(t, 1)' # "sc_timeout" /\ ~ Queued(t)' /\ ~ Queued(t)
  BY <1>1, NewCalling DEF Queued, Labels
<1>6. \A label \in {"sc_woke", "sc_done"} : Calling(t, label)' <=> Calling(t, label)
  <2>1. Point(t, 1) \notin {"sc_woke", "sc_done"}
    BY DEF Labels
  <2> QED  BY <2>1, NewCalling, CallingIs
<1> QED  BY <1>3, <1>4, <1>5, <1>6 DEF CallsKept, Resumes

LEMMA KernelGoesOn ==
  ASSUME NEW t, NEW a \in Labels, NewStack(t, a, Point(t, 2), Point(t, 3)),
         Point(t, 1) \in Labels
  PROVE  CallsKept(t)
<1>1. PICK b, c : b = Point(t, 2) /\ c = Point(t, 3)
  OBVIOUS
<1>2. NewStack(t, a, b, c)
  BY <1>1
<1>3. /\ b \in {Point(t, 2), "user", "unlock"} /\ c \in {Point(t, 3), "user"}
      /\ \/ b = Point(t, 2) /\ c = Point(t, 3)
         \/ Point(t, 2) = "user" /\ Point(t, 3) = "user" /\ c = "user"
  BY <1>1
<1> QED  BY <1>2, <1>3, KernelStepKeeps, Zenon

(* The kernel's own calls leave the calls of semaphore functions alone.    *)
LEMMA KernelCallKeeps ==
  ASSUME Control, NEW t \in Tasks, KernelCall(t)
  PROVE  Control' /\ \A u \in Tasks : CallsKept(u)
<1>1. ASSUME NEW a, NEW b, NEW c, NewStack(t, a, b, c), NEW u \in Tasks, u # t
      PROVE  CallsKept(u)
  <2>1. Point(u, 1)' = Point(u, 1) /\ Point(u, 2)' = Point(u, 2) /\ Point(u, 3)' = Point(u, 3)
    BY <1>1 DEF NewStack
  <2> QED  BY <2>1, SamePoints
<1>2. "back" \in Labels /\ "pend" \in Labels /\ "drift" \in Labels
      /\ "sl_insert" \in Labels /\ "sl_suspend" \in Labels /\ "sl_add" \in Labels
      /\ "unlock" \in Labels
  BY DEF Labels
<1>3. ASSUME NEW label \in Labels, At(t, label)
      PROVE  Point(t, 1) \in Labels /\ StackForm(Point(t, 1), Point(t, 2), Point(t, 3))
  BY <1>3, ExecFacts
<1>4. CASE PEND_SV(t)
  <2>1. Control' /\ NewStack(t, "back", Point(t, 2), Point(t, 3))
    BY <1>4, PendControl
  <2>2. CallsKept(t)
    BY <1>2, <1>3, <1>4, <2>1, KernelGoesOn DEF PEND_SV
  <2> QED  BY <1>1, <2>1, <2>2
<1>5. CASE RestoreLevel(t)
  <2>1. Control' /\ NewStack(t, Point(t, 2), Point(t, 3), "user")
    BY <1>5, RestoreControl
  <2>2. CallsKept(t)
    BY <1>2, <1>3, <1>5, <2>1, KernelReturnKeeps DEF RestoreLevel
  <2> QED  BY <1>1, <2>1, <2>2
<1>6. CASE scheduler_unlock(t)
  <2>1. Control' /\ NewStack(t, "drift", Point(t, 2), Point(t, 3))
    BY <1>6, UnlockControl
  <2>2. CallsKept(t)
    BY <1>2, <1>3, <1>6, <2>1, KernelGoesOn DEF scheduler_unlock
  <2> QED  BY <1>1, <2>1, <2>2
<1>7. CASE UnlockYield(t)
  <2>1. Control'
    BY <1>7, UnlockYieldControl
  <2>2. CASE NewStack(t, "pend", Point(t, 2), Point(t, 3))
    <3>1. CallsKept(t)
      BY <1>2, <1>3, <1>7, <2>2, KernelGoesOn DEF UnlockYield
    <3> QED  BY <1>1, <2>1, <2>2, <3>1
  <2>3. CASE NewStack(t, Point(t, 2), Point(t, 3), "user")
    <3>1. CallsKept(t)
      BY <1>2, <1>3, <1>7, <2>3, KernelReturnKeeps DEF UnlockYield
    <3> QED  BY <1>1, <2>1, <2>3, <3>1
  <2> QED  BY <1>7, <2>2, <2>3, UnlockYieldControl
<1>8. CASE SleepAdd(t) \/ SleepInsert(t)
  <2>1. Control'
    BY <1>8, SleepStepControl
  <2>2. PICK a \in {"sl_insert", "sl_suspend"} : NewStack(t, a, Point(t, 2), Point(t, 3))
    BY <1>8, SleepStepControl
  <2>3. CallsKept(t)
    BY <1>2, <1>3, <1>8, <2>2, KernelGoesOn DEF SleepAdd, SleepInsert
  <2> QED  BY <1>1, <2>1, <2>2, <2>3
<1>9. CASE SleepSuspend(t)
  <2>1. Control' /\ NewStack(t, "pend", "unlock", "user")
    BY <1>9, SleepSuspendControl
  <2>2. Point(t, 2) = "user" /\ Point(t, 3) = "user"
    <3>1. At(t, "sl_suspend")
      BY <1>9 DEF SleepSuspend
    <3>2. StackForm("sl_suspend", Point(t, 2), Point(t, 3))
      BY <3>1, ExecFacts
    <3> QED  BY <3>2 DEF StackForm, SuspendLabels, ConditionLabels, ResumeLabels
  <2>3. CallsKept(t)
    BY <1>2, <1>3, <1>9, <2>1, <2>2, KernelStepKeeps DEF SleepSuspend
  <2> QED  BY <1>1, <2>1, <2>3
<1> QED  BY <1>4, <1>5, <1>6, <1>7, <1>8, <1>9 DEF KernelCall

LEMMA UserCallKeeps ==
  ASSUME Control, NEW t \in Tasks, UserCall(t)
  PROVE  Control' /\ \A u \in Tasks : CallsKept(u)
<1>1. ASSUME NEW a \in Labels, NewStack(t, a, "user", "user"), InUser(t), NEW u \in Tasks
      PROVE  CallsKept(u)
  <2>1. CASE u = t
    <3>1. /\ Point(t, 1) = "user" /\ Point(t, 2) = "user" /\ Point(t, 3) = "user"
          /\ "user" \in Labels
      BY <1>1, UserFacts DEF Labels
    <3>2. CallsKept(t)
      BY <1>1, <3>1, KernelStepKeeps
    <3> QED  BY <2>1, <3>2
  <2>2. CASE u # t
    <3>1. Point(u, 1)' = Point(u, 1) /\ Point(u, 2)' = Point(u, 2) /\ Point(u, 3)' = Point(u, 3)
      BY <1>1, <2>2 DEF NewStack
    <3> QED  BY <3>1, SamePoints
  <2> QED  BY <2>1, <2>2
<1>2. ASSUME UNCHANGED pc, NEW u \in Tasks
      PROVE  CallsKept(u)
  <2>1. Point(u, 1)' = Point(u, 1) /\ Point(u, 2)' = Point(u, 2) /\ Point(u, 3)' = Point(u, 3)
    BY <1>2 DEF Point
  <2> QED  BY <2>1, SamePoints
<1>3. "unlock" \in Labels /\ "pend" \in Labels /\ "sl_add" \in Labels
  BY DEF Labels
<1>4. CASE scheduler_lock(t)
  BY <1>2, <1>4, LockControl
<1>5. CASE UserUnlock(t)
  <2>1. Control' /\ NewStack(t, "unlock", "user", "user") /\ InUser(t)
    BY <1>5, UserUnlockControl DEF UserUnlock
  <2> QED  BY <1>1, <1>3, <2>1
<1>6. CASE task_yield(t)
  <2>1. Control' /\ (UNCHANGED pc \/ NewStack(t, "pend", "user", "user")) /\ InUser(t)
    BY <1>6, YieldControl DEF task_yield
  <2> QED  BY <1>1, <1>2, <1>3, <2>1
<1>7. ASSUME NEW n \in Delays[t], sleep_ticks(t, n)
      PROVE  Control' /\ \A u \in Tasks : CallsKept(u)
  <2>1. Control' /\ NewStack(t, "sl_add", "user", "user") /\ InUser(t)
    BY <1>7, SleepTicksControl DEF sleep_ticks
  <2> QED  BY <1>1, <1>3, <2>1
<1>8. CASE task_entry_return(t)
  <2>1. Control' /\ NewStack(t, "pend", "user", "user") /\ InUser(t)
    BY <1>8, EntryReturnControl DEF task_entry_return
  <2> QED  BY <1>1, <1>3, <2>1
<1>9. ASSUME NEW new \in Tasks, scheduler_task_add(t, new)
      PROVE  Control' /\ \A u \in Tasks : CallsKept(u)
  BY <1>2, <1>9, TaskAddControl
<1> QED  BY <1>4, <1>5, <1>6, <1>7, <1>8, <1>9 DEF UserCall

LEMMA SystemKeeps ==
  ASSUME Control, Boot \/ PendSV \/ isr_sysclock_handle
  PROVE  Control' /\ \A u \in Tasks : CallsKept(u)
<1>1. Control' /\ UNCHANGED pc
  <2>1. CASE Boot
    <3>1. ASSUME mode = "boot", SwitchToNext,
                 UNCHANGED <<resume_from, lock_count, drift, pc, level, sleep_task_list,
                             timeVars, pend_sv>>
          PROVE  Control' /\ UNCHANGED pc
      BY <3>1, SwitchControl
    <3> QED  BY <2>1, <3>1, BootAddControl DEF Boot, run_first_task
  <2>2. CASE PendSV
    <3>1. ASSUME mode = "pendsv", SwitchToNext,
                 UNCHANGED <<resume_from, lock_count, drift, pc, level, sleep_task_list,
                             timeVars, pend_sv>>
          PROVE  Control' /\ UNCHANGED pc
      BY <3>1, SwitchControl
    <3> QED  BY <2>2, <3>1, SaveControl, WakeControl DEF PendSV, LoadNext
  <2>3. CASE isr_sysclock_handle
    BY <2>3, TickControl
  <2> QED  BY <2>1, <2>2, <2>3
<1>2. ASSUME NEW u \in Tasks
      PROVE  CallsKept(u)
  <2>1. Point(u, 1)' = Point(u, 1) /\ Point(u, 2)' = Point(u, 2) /\ Point(u, 3)' = Point(u, 3)
    BY <1>1 DEF Point
  <2> QED  BY <2>1, SamePoints
<1> QED  BY <1>1, <1>2

----------------------------------------------------------------------------
(* The types of what the calls keep.                                       *)

DataTypes ==
  /\ CallTypes
  /\ count \in [Conditions -> Nat]
  /\ ping \in [Conditions -> BOOLEAN]
  /\ suspend_list \in [Conditions -> Seq(Tasks)]
  /\ suspend_data \in [Tasks -> Seq(Conditions)]
  /\ conds \in [Tasks -> Seq(Conditions)]
  /\ timeout \in [Tasks -> 0 .. MAX_WAIT]
  /\ owner \in [Conditions -> Tasks \cup {NULL}]
  /\ held \in [Tasks -> SUBSET Conditions]

LEMMA DataUnchanged ==
  ASSUME DataTypes, UNCHANGED <<condVars, semVars>>
  PROVE  DataTypes'
BY DEF DataTypes, CallTypes, condVars, semVars, suspendVars, MAX_WAIT

LEMMA ElementOf ==
  ASSUME NEW S, NEW l \in Seq(S), NEW i \in 1 .. Len(l)
  PROVE  l[i] \in S
OBVIOUS

LEMMA OneSeq ==
  ASSUME NEW S, NEW a \in S, NEW l, l = <<a>>
  PROVE  l \in Seq(S) /\ Len(l) = 1 /\ l[1] = a
OBVIOUS

(* The ticks left until a deadline are a tick count.                       *)
LEMMA TicksLeftType ==
  ASSUME NEW d \in (0 .. TickRange - 1) \cup {NULL}, current_tick \in 0 .. TickRange - 1
  PROVE  TicksLeft(d) \in 0 .. MAX_WAIT
<1>1. TickRange \in Nat \ {0}
  BY TickAssumption
<1>2. CASE d = NULL
  BY <1>1, <1>2 DEF TicksLeft, MAX_WAIT
<1>3. CASE d # NULL
  <2>1. PICK n \in Int : n = d - current_tick
    BY <1>1, <1>3
  <2>2. PICK m \in 0 .. TickRange - 1 : m = n % TickRange
    BY <1>1
  <2>3. INT32CMP(d, current_tick) = IF 2 * m < TickRange THEN m ELSE m - TickRange
    BY <2>1, <2>2 DEF INT32CMP
  <2>4. PICK c : c = INT32CMP(d, current_tick)
    OBVIOUS
  <2>5. c > 0 => c \in 0 .. TickRange - 1
    BY <1>1, <2>2, <2>3, <2>4
  <2>6. TicksLeft(d) = IF c > 0 THEN c ELSE 0
    BY <1>3, <2>4 DEF TicksLeft
  <2> QED  BY <1>1, <2>5, <2>6 DEF MAX_WAIT
<1> QED  BY <1>2, <1>3

(* Taking a task off some of the lists.                                    *)
LEMMA LeaveTypes ==
  ASSUME suspend_list \in [Conditions -> Seq(Tasks)], NEW t, NEW cs, Leave(t, cs)
  PROVE  suspend_list' \in [Conditions -> Seq(Tasks)]
<1>1. \A c \in Conditions : sll_remove(suspend_list[c], t) \in Seq(Tasks)
  BY SllRemoveMembers
<1> QED  BY <1>1 DEF Leave

LEMMA SuspendData ==
  ASSUME Control, DataTypes, CallArguments, NEW t \in Tasks,
         \/ suspend_timeout_get_min(t) \/ suspend_do_suspend(t)
         \/ suspend_condition_add_task(t) \/ SuspendLock(t)
         \/ SuspendSleep(t) \/ SuspendInsert(t) \/ SuspendSwitch(t) \/ SuspendWoke(t)
         \/ suspend_condition_remove_all(t) \/ suspend_condition_remove(t)
         \/ SuspendReturn(t),
         UNCHANGED semVars
  PROVE  DataTypes'
<1>0. /\ sem \in [Tasks -> Conditions \cup {NULL}]
      /\ wait \in [Tasks -> Nat]
      /\ destroyed \subseteq Conditions
      /\ until \in [Tasks -> Seq(0 .. TickRange - 1 \cup {NULL})]
      /\ from \in [Tasks -> {"SYSTEM", "SLEEP"}]
      /\ susp_status \in [Tasks -> [Conditions -> Errors \cup {"SUCCESS"}]]
      /\ may_resume \in [Tasks -> [Conditions -> BOOLEAN]]
      /\ suspend_list \in [Conditions -> Seq(Tasks)]
      /\ resume_from \in [Tasks -> {"SYSTEM", "SLEEP"}]
      /\ conds \in [Tasks -> Seq(Conditions)]
      /\ suspend_data \in [Tasks -> Seq(Conditions)]
      /\ timeout \in [Tasks -> 0 .. MAX_WAIT]
      /\ ping \in [Conditions -> BOOLEAN]
  BY DEF DataTypes, CallTypes, Control, StateTypeOK
<1>1. CASE suspend_timeout_get_min(t)
  <2>1. At(t, "sc_timeout")
    BY <1>1 DEF suspend_timeout_get_min
  <2>2. Point(t, 1) = "sc_timeout" /\ StateTypeOK
    BY <2>1, ExecFacts
  <2>3. Len(until[t]) = 1
    BY <2>2 DEF CallArguments, Arguments
  <2>4. PICK ds, n :
          /\ ds \in Seq(0 .. TickRange - 1 \cup {NULL})
          /\ ds = until[t]
          /\ n = CHOOSE i \in 1 .. Len(ds) : \A j \in 1 .. Len(ds) :
                   \/ TicksLeft(ds[i]) < TicksLeft(ds[j])
                   \/ TicksLeft(ds[i]) = TicksLeft(ds[j]) /\ i <= j
          /\ timeout' = [timeout EXCEPT ![t] = TicksLeft(ds[n])]
          /\ until' = [until EXCEPT ![t] = <<>>]
    BY <1>0, <1>1 DEF suspend_timeout_get_min
  <2>5. n \in 1 .. Len(ds)
    <3>1. \E i \in 1 .. Len(ds) : \A j \in 1 .. Len(ds) :
             \/ TicksLeft(ds[i]) < TicksLeft(ds[j])
             \/ TicksLeft(ds[i]) = TicksLeft(ds[j]) /\ i <= j
      <4>1. Len(ds) = 1
        BY <2>3, <2>4
      <4>2. 1 \in 1 .. Len(ds) /\ \A j \in 1 .. Len(ds) : j = 1
        BY <4>1
      <4> QED  BY <4>2
    <3> QED  BY <2>4, <3>1
  <2>6. ds[n] \in (0 .. TickRange - 1) \cup {NULL}
    <3>1. ds \in Seq((0 .. TickRange - 1) \cup {NULL})
      BY <2>4
    <3> QED  BY <2>5, <3>1, ElementOf
  <2>7. TicksLeft(ds[n]) \in 0 .. MAX_WAIT
    BY <2>2, <2>6, TicksLeftType DEF StateTypeOK
  <2>8. timeout' \in [Tasks -> 0 .. MAX_WAIT]
    BY <1>0, <2>4, <2>7
  <2>9. until' \in [Tasks -> Seq(0 .. TickRange - 1 \cup {NULL})]
    BY <1>0, <2>4
  <2>10. UNCHANGED <<count, ping, suspend_list, suspend_data, conds, from, susp_status,
                     may_resume, resuming, semVars>>
    BY <1>1 DEF suspend_timeout_get_min
  <2> QED  BY <2>8, <2>9, <2>10 DEF DataTypes, CallTypes, semVars, MAX_WAIT
<1>2. CASE suspend_do_suspend(t)
  <2>1. may_resume' = [may_resume EXCEPT ![t] =
          [c \in Conditions |-> @[c] /\ (c \in ToSet(conds[t]) => Satisfied(c))]]
    BY <1>2 DEF suspend_do_suspend
  <2>2. may_resume' \in [Tasks -> [Conditions -> BOOLEAN]]
    BY <1>0, <2>1
  <2>3. UNCHANGED <<count, ping, suspend_list, suspend_data, conds, until, timeout,
                    from, susp_status, resuming, semVars>>
    BY <1>2 DEF suspend_do_suspend
  <2> QED  BY <2>2, <2>3 DEF DataTypes, CallTypes, semVars, MAX_WAIT
<1>3. CASE suspend_condition_add_task(t)
  <2>1. suspend_list' = [c \in Conditions |->
          IF c \in ToSet(conds[t]) THEN Append(suspend_list[c], t) ELSE suspend_list[c]]
    BY <1>3 DEF suspend_condition_add_task, sll_append
  <2>2. suspend_list' \in [Conditions -> Seq(Tasks)]
    <3>1. \A c \in Conditions : Append(suspend_list[c], t) \in Seq(Tasks)
      BY <1>0
    <3> QED  BY <1>0, <2>1, <3>1
  <2>3. UNCHANGED <<count, ping, suspendVars, resuming, semVars>>
    BY <1>3 DEF suspend_condition_add_task
  <2> QED  BY <2>2, <2>3 DEF DataTypes, CallTypes, semVars, suspendVars, MAX_WAIT
<1>4. CASE SuspendLock(t) \/ SuspendSleep(t) \/ SuspendInsert(t)
  <2>1. UNCHANGED condVars
    BY <1>4 DEF SuspendLock, SuspendSleep, SuspendInsert
  <2> QED  BY <2>1, DataUnchanged
<1>5. CASE SuspendSwitch(t)
  <2>1. suspend_data' = [suspend_data EXCEPT ![t] = conds[t]]
    BY <1>5 DEF SuspendSwitch
  <2>2. suspend_data' \in [Tasks -> Seq(Conditions)]
    BY <1>0, <2>1
  <2>3. UNCHANGED <<count, ping, suspend_list, conds, until, timeout, from, status,
                    susp_status, may_resume, resuming, semVars>>
    BY <1>5 DEF SuspendSwitch
  <2> QED  BY <2>2, <2>3 DEF DataTypes, CallTypes, semVars, MAX_WAIT
<1>6. CASE SuspendWoke(t)
  <2>1. from' = [from EXCEPT ![t] = resume_from[t]]
    BY <1>6, Zenon DEF SuspendWoke
  <2>2. from' \in [Tasks -> {"SYSTEM", "SLEEP"}]
    BY <1>0, <2>1
  <2>3. UNCHANGED <<count, ping, suspend_list, suspend_data, conds, until, timeout,
                    susp_status, may_resume, resuming, semVars>>
    BY <1>6 DEF SuspendWoke
  <2> QED  BY <2>2, <2>3 DEF DataTypes, CallTypes, semVars, MAX_WAIT
<1>7. CASE suspend_condition_remove_all(t)
  <2>1. suspend_list' \in [Conditions -> Seq(Tasks)]
    BY <1>0, <1>7, LeaveTypes DEF suspend_condition_remove_all
  <2>2. UNCHANGED <<count, ping, suspend_data, conds, until, timeout, from,
                    susp_status, may_resume, resuming, semVars>>
    BY <1>7 DEF suspend_condition_remove_all
  <2> QED  BY <2>1, <2>2 DEF DataTypes, CallTypes, semVars, MAX_WAIT
<1>8. CASE suspend_condition_remove(t)
  <2>1. suspend_list' \in [Conditions -> Seq(Tasks)]
    BY <1>0, <1>8, LeaveTypes DEF suspend_condition_remove
  <2>2. UNCHANGED <<count, ping, suspend_data, conds, until, timeout, from,
                    susp_status, may_resume, resuming, semVars>>
    BY <1>8 DEF suspend_condition_remove
  <2> QED  BY <2>1, <2>2 DEF DataTypes, CallTypes, semVars, MAX_WAIT
<1>9. CASE SuspendReturn(t)
  <2>1. /\ ping' = [ping EXCEPT ![conds[t][return_num[t]]] = FALSE]
        /\ conds' = [conds EXCEPT ![t] = <<>>]
        /\ suspend_data' = [suspend_data EXCEPT ![t] = <<>>]
        /\ timeout' = [timeout EXCEPT ![t] = MAX_WAIT]
        /\ from' = [from EXCEPT ![t] = "SYSTEM"]
        /\ may_resume' = [may_resume EXCEPT ![t] = [c \in Conditions |-> FALSE]]
        /\ susp_status' = [susp_status EXCEPT ![t] = [c \in Conditions |-> "SUCCESS"]]
        /\ UNCHANGED <<count, suspend_list, until, resuming, semVars>>
    BY <1>9 DEF SuspendReturn
  <2>2. ping' \in [Conditions -> BOOLEAN]
    BY <1>0, <2>1
  <2>3. conds' \in [Tasks -> Seq(Conditions)] /\ suspend_data' \in [Tasks -> Seq(Conditions)]
    BY <1>0, <2>1
  <2>4. timeout' \in [Tasks -> 0 .. MAX_WAIT]
    <3>1. MAX_WAIT \in 0 .. MAX_WAIT
      BY TickAssumption DEF MAX_WAIT
    <3> QED  BY <1>0, <2>1, <3>1
  <2>5. from' \in [Tasks -> {"SYSTEM", "SLEEP"}]
    BY <1>0, <2>1
  <2>6. may_resume' \in [Tasks -> [Conditions -> BOOLEAN]]
    BY <1>0, <2>1
  <2>7. susp_status' \in [Tasks -> [Conditions -> Errors \cup {"SUCCESS"}]]
    BY <1>0, <2>1
  <2> QED  BY <2>1, <2>2, <2>3, <2>4, <2>5, <2>6, <2>7 DEF DataTypes, CallTypes, semVars, MAX_WAIT
<1> QED  BY <1>1, <1>2, <1>3, <1>4, <1>5, <1>6, <1>7, <1>8, <1>9

(* A task keeps the condition it resumes until it returns.                 *)
LEMMA ArgumentsResuming ==
  ASSUME CallArguments
  PROVE  Resuming
BY DEF CallArguments, Arguments, Resuming

LEMMA PushType ==
  ASSUME NEW S, NEW l \in Seq(S), NEW a \in S
  PROVE  <<a>> \o l \in Seq(S)
OBVIOUS

ResumeRecords == [cond : Conditions \cup {NULL}, num : Int,
                  status : Errors \cup {"SUCCESS"}, tmp : Seq(Tasks), yield : BOOLEAN]

LEMMA ResumeOneData ==
  ASSUME Control, DataTypes, Resuming, NEW t \in Tasks, ResumeOne(t), UNCHANGED semVars
  PROVE  DataTypes'
<1>0. /\ resuming \in [Tasks -> ResumeRecords]
      /\ susp_status \in [Tasks -> [Conditions -> Errors \cup {"SUCCESS"}]]
      /\ may_resume \in [Tasks -> [Conditions -> BOOLEAN]]
      /\ suspend_list \in [Conditions -> Seq(Tasks)]
      /\ suspend_data \in [Tasks -> Seq(Conditions)]
  BY DEF DataTypes, CallTypes, ResumeRecords
<1>1. PICK w \in Tasks, c \in Conditions :
        /\ c = resuming[t].cond /\ w = Head(suspend_list[resuming[t].cond])
        /\ suspend_list[c] # <<>>
  BY <1>0, ResumedTask
<1>2. PICK r \in ResumeRecords : r = resuming[t]
  BY <1>0
<1>3. suspend_list' \in [Conditions -> Seq(Tasks)]
  <2>1. suspend_list' = [suspend_list EXCEPT ![c] = Tail(@)]
    BY <1>1 DEF ResumeOne
  <2>2. Tail(suspend_list[c]) \in Seq(Tasks)
    BY <1>0, <1>1, HeadTailProperties
  <2> QED  BY <1>0, <2>1, <2>2
<1>4. susp_status' \in [Tasks -> [Conditions -> Errors \cup {"SUCCESS"}]]
  <2>1. PICK st \in Errors \cup {"SUCCESS"} : st = r.status
    BY <1>2 DEF ResumeRecords
  <2>2. susp_status' = [susp_status EXCEPT ![w] = [@ EXCEPT ![c] = st]]
    BY <1>1, <1>2, <2>1 DEF ResumeOne
  <2>3. [susp_status[w] EXCEPT ![c] = st] \in [Conditions -> Errors \cup {"SUCCESS"}]
    BY <1>0
  <2> QED  BY <1>0, <2>2, <2>3
<1>5. may_resume' \in [Tasks -> [Conditions -> BOOLEAN]]
  <2>1. may_resume' = [may_resume EXCEPT ![w] = [@ EXCEPT ![c] = TRUE]]
    BY <1>1 DEF ResumeOne
  <2>2. [may_resume[w] EXCEPT ![c] = TRUE] \in [Conditions -> BOOLEAN]
    BY <1>0
  <2> QED  BY <1>0, <2>1, <2>2
<1>6. suspend_data' \in [Tasks -> Seq(Conditions)]
  <2>1. \/ suspend_data' = [suspend_data EXCEPT ![w] = <<c>>]
        \/ UNCHANGED suspend_data
    BY <1>1 DEF ResumeOne
  <2>2. <<c>> \in Seq(Conditions)
    OBVIOUS
  <2> QED  BY <1>0, <2>1, <2>2
<1>7. resuming' \in [Tasks -> ResumeRecords]
  <2>1. PICK n \in Int : n = r.num - 1
    BY <1>2 DEF ResumeRecords
  <2>2. PICK l \in Seq(Tasks) : l = <<w>> \o r.tmp
    <3>1. r.tmp \in Seq(Tasks)
      BY <1>2 DEF ResumeRecords
    <3>2. <<w>> \o r.tmp \in Seq(Tasks)
      BY <3>1, PushType
    <3> QED  BY <3>2
  <2>3. \/ resuming' = [resuming EXCEPT ![t] = [r EXCEPT !.num = n, !.yield = TRUE]]
        \/ resuming' = [resuming EXCEPT ![t] = [r EXCEPT !.num = n, !.tmp = l]]
    BY <1>0, <1>1, <1>2, <2>1, <2>2 DEF ResumeOne, sll_push
  <2>4. [r EXCEPT !.num = n, !.yield = TRUE] \in ResumeRecords
    BY <1>2 DEF ResumeRecords
  <2>5. [r EXCEPT !.num = n, !.tmp = l] \in ResumeRecords
    BY <1>2 DEF ResumeRecords
  <2> QED  BY <1>0, <2>3, <2>4, <2>5
<1>8. UNCHANGED <<count, ping, conds, until, timeout, from, semVars>>
  BY DEF ResumeOne
<1> QED  BY <1>3, <1>4, <1>5, <1>6, <1>7, <1>8
         DEF DataTypes, CallTypes, ResumeRecords, semVars, MAX_WAIT

LEMMA ReverseType ==
  ASSUME NEW S, NEW l \in Seq(S), NEW m \in Seq(S)
  PROVE  Reverse(l) \o m \in Seq(S)
<1>1. Reverse(l) = [i \in 1 .. Len(l) |-> l[(Len(l) - i) + 1]]
  BY DEF Reverse
<1>2. \A i \in 1 .. Len(l) : (Len(l) - i) + 1 \in 1 .. Len(l)
  OBVIOUS
<1>3. \A i \in 1 .. Len(l) : l[(Len(l) - i) + 1] \in S
  BY <1>2, ElementOf
<1>4. PICK n \in Nat : n = Len(l)
  OBVIOUS
<1>5. [i \in 1 .. n |-> l[(Len(l) - i) + 1]] \in Seq(S)
  BY <1>3, <1>4
<1>6. PICK r \in Seq(S) : r = Reverse(l)
  BY <1>1, <1>4, <1>5
<1> QED  BY <1>6

LEMMA ResumeData ==
  ASSUME Control, DataTypes, CallArguments, NEW t \in Tasks,
         \/ ResumeLock(t) \/ ResumeOne(t) \/ ResumeUnlock(t) \/ ResumeYield(t)
         \/ ResumeReturn(t),
         UNCHANGED semVars
  PROVE  DataTypes'
<1>1. CASE ResumeLock(t) \/ ResumeUnlock(t) \/ ResumeYield(t)
  <2>1. UNCHANGED condVars
    BY <1>1 DEF ResumeLock, ResumeUnlock, ResumeYield
  <2> QED  BY <2>1, DataUnchanged
<1>2. CASE ResumeOne(t)
  BY <1>2, ArgumentsResuming, ResumeOneData
<1>3. CASE ResumeReturn(t)
  <2>1. resuming \in [Tasks -> ResumeRecords] /\ suspend_list \in [Conditions -> Seq(Tasks)]
    BY DEF DataTypes, CallTypes, ResumeRecords
  <2>2. PICK r \in ResumeRecords : r = resuming[t]
    BY <2>1
  <2>3. suspend_list' = [suspend_list EXCEPT ![r.cond] = Reverse(r.tmp) \o @]
    BY <1>3, <2>2 DEF ResumeReturn, PutBack
  <2>4. suspend_list' \in [Conditions -> Seq(Tasks)]
    <3>1. CASE r.cond \in Conditions
      <4>1. r.tmp \in Seq(Tasks)
        BY <2>2 DEF ResumeRecords
      <4>2. Reverse(r.tmp) \o suspend_list[r.cond] \in Seq(Tasks)
        BY <2>1, <3>1, <4>1, ReverseType
      <4> QED  BY <2>1, <2>3, <3>1, <4>2
    <3>2. CASE r.cond \notin Conditions
      <4>1. suspend_list' = suspend_list
        BY <2>1, <2>3, <3>2
      <4> QED  BY <2>1, <4>1
    <3> QED  BY <3>1, <3>2
  <2>5. resuming' \in [Tasks -> ResumeRecords]
    <3>1. NoResume \in ResumeRecords
      <4>1. <<>> \in Seq(Tasks)
        OBVIOUS
      <4> QED  BY <4>1 DEF NoResume, ResumeRecords
    <3> QED  BY <1>3, <2>1, <3>1 DEF ResumeReturn
  <2>6. UNCHANGED <<count, ping, suspendVars, semVars>>
    BY <1>3 DEF ResumeReturn
  <2> QED  BY <2>4, <2>5, <2>6
           DEF DataTypes, CallTypes, ResumeRecords, semVars, suspendVars, MAX_WAIT
<1> QED  BY <1>1, <1>2, <1>3

(* What a call of resume_condition puts into the record of its task.       *)
LEMMA ResumeStartType ==
  ASSUME resuming \in [Tasks -> ResumeRecords], NEW t \in Tasks, NEW c \in Conditions,
         NEW n \in Int, NEW st \in Errors \cup {"SUCCESS"}, resume_condition(t, c, n, st)
  PROVE  /\ resuming' \in [Tasks -> ResumeRecords]
         /\ resuming'[t].cond = c
         /\ \A u \in Tasks : u # t => resuming'[u] = resuming[u]
<1>1. PICK r : r = [NoResume EXCEPT !.cond = c, !.num = n, !.status = st]
  OBVIOUS
<1>2. <<>> \in Seq(Tasks)
  OBVIOUS
<1>3. r \in ResumeRecords /\ r.cond = c
  BY <1>1, <1>2 DEF NoResume, ResumeRecords
<1>4. resuming' = [resuming EXCEPT ![t] = r]
  BY <1>1 DEF resume_condition
<1> QED  BY <1>3, <1>4

(* The semaphore a semaphore function works on.                            *)
LEMMA ItsSemaphore ==
  ASSUME Control, DataTypes, CallArguments, NEW t \in Tasks
  PROVE  /\ At(t, "so_test") \/ At(t, "so_take") =>
              sem[t] \in Conditions /\ sem[t] \notin held[t]
         /\ At(t, "sr_inc") =>
              sem[t] \in Conditions /\ sem[t] \in held[t] /\ sem[t] \notin destroyed
         /\ At(t, "sd_clear") =>
              sem[t] \in Conditions /\ sem[t] \in held[t] /\ sem[t] \in destroyed
<1>1. Arguments(t)
  BY DEF CallArguments
<1>2. held[t] \subseteq Conditions
  BY DEF DataTypes
<1>3. ASSUME NEW label, At(t, label)
      PROVE  Calling(t, label)
  <2>1. Point(t, 1) = label
    BY <1>3, ExecFacts
  <2> QED  BY <2>1, CallingIs
<1>4. CASE At(t, "so_test") \/ At(t, "so_take")
  BY <1>1, <1>3, <1>4 DEF Arguments
<1>5. At(t, "sr_inc") => sem[t] \in held[t] /\ sem[t] \notin destroyed
  BY <1>1, <1>3 DEF Arguments
<1>6. At(t, "sd_clear") => sem[t] \in held[t] /\ sem[t] \in destroyed
  BY <1>1, <1>3 DEF Arguments
<1> QED  BY <1>2, <1>4, <1>5, <1>6

LEMMA DeadlineType ==
  ASSUME NEW w \in Nat, current_tick \in 0 .. TickRange - 1
  PROVE  Deadline(w) \in (0 .. TickRange - 1) \cup {NULL}
<1>1. TickRange \in Nat \ {0}
  BY TickAssumption
<1>2. \A n \in Int : n % TickRange \in 0 .. TickRange - 1
  BY <1>1
<1>3. current_tick + w \in Int
  BY <1>1
<1> QED  BY <1>2, <1>3 DEF Deadline

LEMMA ObtainTestData ==
  ASSUME Control, DataTypes, CallArguments, NEW t \in Tasks, ObtainTest(t)
  PROVE  DataTypes'
<1>1. /\ UNCHANGED <<count, ping, suspend_list, suspend_data, timeout, from, may_resume,
                     resuming, semVars>>
      /\ \/ UNCHANGED <<conds, until, susp_status>>
         \/ suspend_condition(t, <<sem[t]>>, <<Deadline(wait[t])>>)
  BY DEF ObtainTest
<1>2. CASE UNCHANGED <<conds, until, susp_status>>
  BY <1>1, <1>2 DEF DataTypes, CallTypes, semVars, MAX_WAIT
<1>3. CASE suspend_condition(t, <<sem[t]>>, <<Deadline(wait[t])>>)
  <2>1. At(t, "so_test")
    BY DEF ObtainTest
  <2>2. PICK s \in Conditions : s = sem[t]
    BY <2>1, ItsSemaphore
  <2>3. PICK d \in (0 .. TickRange - 1) \cup {NULL} : d = Deadline(wait[t])
    <3>1. wait[t] \in Nat /\ current_tick \in 0 .. TickRange - 1
      BY DEF DataTypes, CallTypes, Control, StateTypeOK
    <3> QED  BY <3>1, DeadlineType
  <2>4. conds' \in [Tasks -> Seq(Conditions)]
    <3>1. conds' = [conds EXCEPT ![t] = <<s>>]
      BY <1>3, <2>2 DEF suspend_condition
    <3>2. <<s>> \in Seq(Conditions)
      OBVIOUS
    <3> QED  BY <3>1, <3>2 DEF DataTypes
  <2>5. until' \in [Tasks -> Seq((0 .. TickRange - 1) \cup {NULL})]
    <3>1. until' = [until EXCEPT ![t] = <<d>>]
      BY <1>3, <2>3 DEF suspend_condition
    <3>2. \A S : d \in S => <<d>> \in Seq(S)
      OBVIOUS
    <3> QED  BY <2>3, <3>1, <3>2 DEF DataTypes, CallTypes
  <2>6. susp_status' \in [Tasks -> [Conditions -> Errors \cup {"SUCCESS"}]]
    <3>1. susp_status \in [Tasks -> [Conditions -> Errors \cup {"SUCCESS"}]]
      BY DEF DataTypes, CallTypes
    <3>2. susp_status' = [susp_status EXCEPT ![t] =
             [c \in Conditions |-> IF c \in ToSet(<<s>>) THEN "SUCCESS" ELSE @[c]]]
      BY <1>3, <2>2 DEF suspend_condition
    <3> QED  BY <3>1, <3>2
  <2> QED  BY <1>1, <2>4, <2>5, <2>6 DEF DataTypes, CallTypes, semVars, MAX_WAIT
<1> QED  BY <1>1, <1>2, <1>3

LEMMA ObtainTakeData ==
  ASSUME Control, DataTypes, CallArguments, NEW t \in Tasks, ObtainTake(t)
  PROVE  DataTypes'
<1>1. At(t, "so_take")
  BY DEF ObtainTake
<1>2. PICK s \in Conditions : s = sem[t]
  BY <1>1, ItsSemaphore
<1>3. /\ UNCHANGED <<ping, suspend_list, suspendVars, resuming, destroyed>>
      /\ \/ UNCHANGED <<sem, wait>>
         \/ sem' = [sem EXCEPT ![t] = NULL] /\ wait' = [wait EXCEPT ![t] = 0]
      /\ \/ UNCHANGED <<count, owner, held>>
         \/ /\ count[s] # 0 /\ count' = [count EXCEPT ![s] = @ - 1]
            /\ owner' = [owner EXCEPT ![s] = t]
            /\ held' = [held EXCEPT ![t] = @ \cup {s}]
  BY <1>2 DEF ObtainTake, Taken
<1>4. /\ count \in [Conditions -> Nat] /\ owner \in [Conditions -> Tasks \cup {NULL}]
      /\ held \in [Tasks -> SUBSET Conditions]
      /\ sem \in [Tasks -> Conditions \cup {NULL}] /\ wait \in [Tasks -> Nat]
  BY DEF DataTypes, CallTypes
<1>5. count' \in [Conditions -> Nat]
  BY <1>3, <1>4
<1>6. owner' \in [Conditions -> Tasks \cup {NULL}]
  BY <1>3, <1>4
<1>7. held' \in [Tasks -> SUBSET Conditions]
  BY <1>2, <1>3, <1>4
<1>8. sem' \in [Tasks -> Conditions \cup {NULL}] /\ wait' \in [Tasks -> Nat]
  BY <1>3, <1>4
<1> QED  BY <1>3, <1>5, <1>6, <1>7, <1>8 DEF DataTypes, CallTypes, suspendVars, MAX_WAIT

LEMMA IncrementData ==
  ASSUME Control, DataTypes, CallArguments, NEW t \in Tasks, ReleaseIncrement(t)
  PROVE  DataTypes' /\ resuming'[t].cond = sem[t]
         /\ \A u \in Tasks : u # t => resuming'[u] = resuming[u]
<1>1. At(t, "sr_inc")
  BY DEF ReleaseIncrement
<1>2. PICK s \in Conditions : s = sem[t]
  BY <1>1, ItsSemaphore
<1>3. /\ count' = [count EXCEPT ![s] = @ + 1]
      /\ owner' = [owner EXCEPT ![s] = NULL]
      /\ held' = [held EXCEPT ![t] = @ \ {s}]
      /\ resume_condition(t, s, Resumable(s), "SUCCESS")
      /\ sem' = [sem EXCEPT ![t] = NULL]
      /\ UNCHANGED <<ping, suspend_list, suspendVars, wait, destroyed>>
  BY <1>2 DEF ReleaseIncrement
<1>4. /\ count \in [Conditions -> Nat] /\ owner \in [Conditions -> Tasks \cup {NULL}]
      /\ held \in [Tasks -> SUBSET Conditions]
      /\ sem \in [Tasks -> Conditions \cup {NULL}]
      /\ resuming \in [Tasks -> ResumeRecords]
  BY DEF DataTypes, CallTypes, ResumeRecords
<1>5. count' \in [Conditions -> Nat] /\ owner' \in [Conditions -> Tasks \cup {NULL}]
  BY <1>3, <1>4
<1>6. held' \in [Tasks -> SUBSET Conditions] /\ sem' \in [Tasks -> Conditions \cup {NULL}]
  BY <1>3, <1>4
<1>7. /\ resuming' \in [Tasks -> ResumeRecords] /\ resuming'[t].cond = s
      /\ \A u \in Tasks : u # t => resuming'[u] = resuming[u]
  <2>1. Resumable(s) \in Int
    BY <1>4 DEF Resumable
  <2> QED  BY <1>3, <1>4, <2>1, ResumeStartType
<1> QED  BY <1>2, <1>3, <1>5, <1>6, <1>7
         DEF DataTypes, CallTypes, ResumeRecords, suspendVars, MAX_WAIT

LEMMA ClearData ==
  ASSUME Control, DataTypes, CallArguments, NEW t \in Tasks, DestroyClear(t)
  PROVE  DataTypes'
<1>1. At(t, "sd_clear")
  BY DEF DestroyClear
<1>2. PICK s \in Conditions : s = sem[t]
  BY <1>1, ItsSemaphore
<1>3. /\ count' = [count EXCEPT ![s] = 0] /\ ping' = [ping EXCEPT ![s] = FALSE]
      /\ suspend_list' = [suspend_list EXCEPT ![s] = <<>>]
      /\ owner' = [owner EXCEPT ![s] = NULL] /\ held' = [held EXCEPT ![t] = @ \ {s}]
      /\ sem' = [sem EXCEPT ![t] = NULL]
      /\ UNCHANGED <<suspendVars, resuming, wait, destroyed>>
  BY <1>2 DEF DestroyClear
<1>4. /\ count \in [Conditions -> Nat] /\ owner \in [Conditions -> Tasks \cup {NULL}]
      /\ held \in [Tasks -> SUBSET Conditions]
      /\ sem \in [Tasks -> Conditions \cup {NULL}]
      /\ ping \in [Conditions -> BOOLEAN] /\ suspend_list \in [Conditions -> Seq(Tasks)]
  BY DEF DataTypes, CallTypes
<1>5. count' \in [Conditions -> Nat] /\ owner' \in [Conditions -> Tasks \cup {NULL}]
  BY <1>3, <1>4
<1>6. held' \in [Tasks -> SUBSET Conditions] /\ sem' \in [Tasks -> Conditions \cup {NULL}]
  BY <1>3, <1>4
<1>7. ping' \in [Conditions -> BOOLEAN] /\ suspend_list' \in [Conditions -> Seq(Tasks)]
  BY <1>3, <1>4
<1> QED  BY <1>3, <1>5, <1>6, <1>7 DEF DataTypes, CallTypes, suspendVars, MAX_WAIT

LEMMA UseData ==
  ASSUME DataTypes, NEW t \in Tasks, NEW s \in Conditions,
         \/ \E w \in Waits : semaphore_obtain(t, s, w)
         \/ semaphore_release(t, s)
         \/ semaphore_destroy(t, s)
  PROVE  DataTypes'
<1>1. /\ sem \in [Tasks -> Conditions \cup {NULL}] /\ wait \in [Tasks -> Nat]
      /\ resuming \in [Tasks -> ResumeRecords] /\ destroyed \subseteq Conditions
  BY DEF DataTypes, CallTypes, ResumeRecords
<1>2. CASE \E w \in Waits : semaphore_obtain(t, s, w)
  <2>1. PICK w \in Waits : semaphore_obtain(t, s, w)
    BY <1>2
  <2>2. w \in Nat
    BY SemaphoreAssumption
  <2>3. sem' \in [Tasks -> Conditions \cup {NULL}] /\ wait' \in [Tasks -> Nat]
    BY <1>1, <2>1, <2>2 DEF semaphore_obtain, EnterLocked
  <2>4. UNCHANGED <<condVars, owner, destroyed, held>>
    BY <2>1 DEF semaphore_obtain
  <2> QED  BY <2>3, <2>4 DEF DataTypes, CallTypes, condVars, suspendVars, MAX_WAIT
<1>3. CASE semaphore_release(t, s)
  <2>1. sem' \in [Tasks -> Conditions \cup {NULL}]
    BY <1>1, <1>3 DEF semaphore_release, EnterLocked
  <2>2. UNCHANGED <<condVars, owner, wait, destroyed, held>>
    BY <1>3 DEF semaphore_release
  <2> QED  BY <2>1, <2>2 DEF DataTypes, CallTypes, condVars, suspendVars, MAX_WAIT
<1>4. CASE semaphore_destroy(t, s)
  <2>1. /\ destroyed' = destroyed \cup {s} /\ sem' = [sem EXCEPT ![t] = s]
        /\ resume_condition(t, s, -1, "DELETED")
        /\ UNCHANGED <<count, ping, suspend_list, suspendVars, owner, wait, held>>
    BY <1>4 DEF semaphore_destroy
  <2>2. resuming' \in [Tasks -> ResumeRecords]
    BY <1>1, <2>1, ResumeStartType DEF Errors
  <2>3. sem' \in [Tasks -> Conditions \cup {NULL}] /\ destroyed' \subseteq Conditions
    BY <1>1, <2>1
  <2> QED  BY <2>1, <2>2, <2>3 DEF DataTypes, CallTypes, ResumeRecords, suspendVars, MAX_WAIT
<1> QED  BY <1>2, <1>3, <1>4

----------------------------------------------------------------------------
(* The arguments of the calls, in the functions of the kernel and of the   *)
(* conditions.                                                             *)

DataKept(u) ==
  /\ sem'[u] = sem[u] /\ held'[u] = held[u] /\ conds'[u] = conds[u]
  /\ suspend_data'[u] = suspend_data[u] /\ until'[u] = until[u]
  /\ resuming'[u].cond = resuming[u].cond

LEMMA OthersKeep ==
  ASSUME CallArguments, NEW t, NEW a, NEW b, NEW c, NewStack(t, a, b, c),
         destroyed' = destroyed, \A u \in Tasks : u # t => DataKept(u)
  PROVE  \A u \in Tasks : u # t => Arguments(u)'
<1>1. ASSUME NEW u \in Tasks, u # t
      PROVE  Arguments(u)'
  <2>1. Point(u, 1)' = Point(u, 1) /\ Point(u, 2)' = Point(u, 2) /\ Point(u, 3)' = Point(u, 3)
    BY <1>1 DEF NewStack
  <2>2. CallsKept(u)
    BY <2>1, SamePoints
  <2>3. Arguments(u)
    BY DEF CallArguments
  <2>4. DataKept(u)
    BY <1>1
  <2> QED  BY <2>2, <2>3, <2>4, ArgumentsKept DEF DataKept
<1> QED  BY <1>1

LEMMA ArgumentsStay ==
  ASSUME CallArguments, \A u \in Tasks : CallsKept(u), UNCHANGED <<condVars, semVars>>
  PROVE  CallArguments'
<1>1. ASSUME NEW u \in Tasks
      PROVE  Arguments(u)'
  <2>1. Arguments(u) /\ CallsKept(u)
    BY DEF CallArguments
  <2>2. UNCHANGED <<sem, held, conds, suspend_data, until, resuming, destroyed>>
    BY DEF condVars, semVars, suspendVars
  <2> QED  BY <2>1, <2>2, ArgumentsKept
<1>2. UNCHANGED Tasks
  OBVIOUS
<1> QED  BY <1>1, <1>2 DEF CallArguments

LEMMA PointsStay ==
  ASSUME UNCHANGED pc
  PROVE  \A u \in Tasks : CallsKept(u)
<1>1. ASSUME NEW u \in Tasks
      PROVE  CallsKept(u)
  <2>1. Point(u, 1)' = Point(u, 1) /\ Point(u, 2)' = Point(u, 2) /\ Point(u, 3)' = Point(u, 3)
    BY DEF Point
  <2> QED  BY <2>1, SamePoints
<1> QED  BY <1>1

(* Inside suspend_condition.                                               *)
Inside(a, b, c) ==
  /\ b = "so_take" \/ c = "so_take"
  /\ \A label \in {a, b, c} :
       label \notin {"so_test", "sr_inc", "sd_clear", "sc_timeout"} \cup ResumeLabels

LEMMA InsideSuspend ==
  ASSUME CallArguments, NEW t \in Tasks, InSuspend(t),
         NEW a, NEW b, NEW c, NewStack(t, a, b, c),
         Inside(a, b, c),
         sem'[t] = sem[t], held'[t] = held[t], conds'[t] = conds[t],
         suspend_data'[t] \in {suspend_data[t], conds[t]}
  PROVE  Arguments(t)'
<1>1. Arguments(t) /\ Calling(t, "so_take")
  BY CallingIs DEF CallArguments
<1>2. /\ sem[t] \in Conditions \ held[t]
      /\ conds[t] = <<sem[t]>> /\ suspend_data[t] \in {<<>>, <<sem[t]>>}
  BY <1>1 DEF Arguments
<1>3. /\ ~ Calling(t, "so_test")' /\ ~ Calling(t, "sr_inc")' /\ ~ Calling(t, "sd_clear")'
      /\ Point(t, 1)' # "sc_timeout" /\ ~ Resumes(t)' /\ InSuspend(t)'
  BY NewCalling DEF Resumes, Inside
<1> QED  BY <1>2, <1>3 DEF Arguments

LEMMA SuspendStacks ==
  ASSUME Control, DataTypes, NEW t \in Tasks,
         \/ suspend_timeout_get_min(t) \/ suspend_do_suspend(t)
         \/ suspend_condition_add_task(t) \/ SuspendLock(t)
         \/ SuspendSleep(t) \/ SuspendInsert(t) \/ SuspendSwitch(t) \/ SuspendWoke(t)
         \/ suspend_condition_remove_all(t) \/ suspend_condition_remove(t)
  PROVE  /\ Control'
         /\ \/ UNCHANGED pc
            \/ \E a, b, c : NewStack(t, a, b, c) /\ Inside(a, b, c)
<1>1. \A a \in {"sc_check", "sc_append", "sc_end", "sc_lock", "sc_sleep", "sc_insert", "sc_suspend"} :
        Inside(a, "so_take", "user")
  BY DEF Inside, ResumeLabels
<1>2. Inside("pend", "sc_woke", "so_take") /\ Inside("unlock", "sc_done", "so_take")
  BY DEF Inside, ResumeLabels
<1>3. CASE suspend_timeout_get_min(t)
  BY <1>1, <1>3, GetMinControl
<1>4. CASE suspend_do_suspend(t)
  BY <1>1, <1>4, DoSuspendControl
<1>5. CASE suspend_condition_add_task(t)
  BY <1>1, <1>5, AddTaskControl
<1>6. CASE SuspendLock(t)
  BY <1>1, <1>6, SuspendLockControl
<1>7. CASE SuspendSleep(t)
  <2>1. timeout \in [Tasks -> 0 .. MAX_WAIT]
    BY DEF DataTypes
  <2> QED  BY <1>1, <1>7, <2>1, SuspendSleepControl
<1>8. CASE SuspendInsert(t)
  BY <1>1, <1>8, SuspendInsertControl
<1>9. CASE SuspendSwitch(t)
  BY <1>2, <1>9, SuspendSwitchControl
<1>10. CASE SuspendWoke(t)
  BY <1>2, <1>10, WokeControl
<1>11. CASE suspend_condition_remove_all(t)
  BY <1>1, <1>11, RemoveAllControl
<1>12. CASE suspend_condition_remove(t)
  BY <1>1, <1>12, RemoveControl
<1> QED  BY <1>3, <1>4, <1>5, <1>6, <1>7, <1>8, <1>9, <1>10, <1>11, <1>12

(* The suspend data is filled in by a step that moves the task on.         *)
LEMMA NotSwitched ==
  ASSUME Control, NEW t \in Tasks, UNCHANGED pc,
         \/ suspend_timeout_get_min(t) \/ suspend_do_suspend(t)
         \/ suspend_condition_add_task(t) \/ SuspendLock(t)
         \/ SuspendSleep(t) \/ SuspendInsert(t) \/ SuspendSwitch(t) \/ SuspendWoke(t)
         \/ suspend_condition_remove_all(t) \/ suspend_condition_remove(t)
  PROVE  UNCHANGED <<conds, suspend_data, until>>
<1>1. CASE suspend_timeout_get_min(t)
  <2>1. At(t, "sc_timeout") /\ "sc_timeout" \in SuspendLabels
    BY <1>1 DEF suspend_timeout_get_min, SuspendLabels, ConditionLabels, ResumeLabels
  <2>2. Point(t, 1)' = "sc_check" /\ Point(t, 1) = "sc_timeout"
    BY <1>1, <2>1, GetMinControl, SuspendPoint DEF NewStack
  <2>3. Point(t, 1)' = Point(t, 1)
    BY DEF Point
  <2> QED  BY <2>2, <2>3
<1>2. CASE SuspendSwitch(t)
  <2>1. At(t, "sc_suspend") /\ "sc_suspend" \in SuspendLabels
    BY <1>2 DEF SuspendSwitch, SuspendLabels, ConditionLabels, ResumeLabels
  <2>2. Point(t, 1)' = "pend" /\ Point(t, 1) = "sc_suspend"
    BY <1>2, <2>1, SuspendSwitchControl, SuspendPoint DEF NewStack
  <2>3. Point(t, 1)' = Point(t, 1)
    BY DEF Point
  <2> QED  BY <2>2, <2>3
<1>3. CASE ~ suspend_timeout_get_min(t) /\ ~ SuspendSwitch(t)
  BY <1>3 DEF suspend_do_suspend, suspend_condition_add_task,
         SuspendLock, SuspendSleep, SuspendInsert, SuspendWoke, suspendVars,
         suspend_condition_remove_all, suspend_condition_remove, condVars
<1> QED  BY <1>1, <1>2, <1>3

LEMMA SuspendArguments ==
  ASSUME Control, DataTypes, CallArguments, NEW t \in Tasks,
         \/ suspend_timeout_get_min(t) \/ suspend_do_suspend(t)
         \/ suspend_condition_add_task(t) \/ SuspendLock(t)
         \/ SuspendSleep(t) \/ SuspendInsert(t) \/ SuspendSwitch(t) \/ SuspendWoke(t)
         \/ suspend_condition_remove_all(t) \/ suspend_condition_remove(t)
         \/ SuspendReturn(t),
         UNCHANGED semVars
  PROVE  Control' /\ CallArguments'
<1>1. InSuspend(t)
  <2>1. PICK label \in SuspendLabels : At(t, label)
    BY DEF suspend_timeout_get_min, suspend_do_suspend, suspend_condition_add_task,
           SuspendLock, SuspendSleep, SuspendInsert, SuspendSwitch, SuspendWoke,
           suspend_condition_remove_all, suspend_condition_remove, SuspendReturn,
           SuspendLabels, ConditionLabels, ResumeLabels
  <2>2. Point(t, 2) = "so_take"
    BY <2>1, SuspendPoint
  <2> QED  BY <2>2, CallingIs
<1>2. /\ conds \in [Tasks -> Seq(Conditions)] /\ suspend_data \in [Tasks -> Seq(Conditions)]
      /\ until \in [Tasks -> Seq(0 .. TickRange - 1 \cup {NULL})]
  BY DEF DataTypes, CallTypes
<1>3. UNCHANGED <<resuming, sem, held, destroyed>>
  BY DEF semVars, suspend_timeout_get_min, suspend_do_suspend, suspend_condition_add_task,
         SuspendLock, SuspendSleep, SuspendInsert, SuspendSwitch, SuspendWoke,
         suspend_condition_remove_all, suspend_condition_remove, SuspendReturn, condVars
<1>4. \A u \in Tasks : u # t => DataKept(u)
  <2>1. \/ UNCHANGED until
        \/ until' = [until EXCEPT ![t] = <<>>]
    BY DEF suspend_timeout_get_min, suspend_do_suspend, suspend_condition_add_task,
         SuspendLock, SuspendSleep, SuspendInsert, SuspendSwitch, SuspendWoke, suspendVars,
         suspend_condition_remove_all, suspend_condition_remove, SuspendReturn, condVars
  <2>2. \/ UNCHANGED conds
        \/ conds' = [conds EXCEPT ![t] = <<>>]
    BY DEF suspend_timeout_get_min, suspend_do_suspend, suspend_condition_add_task,
         SuspendLock, SuspendSleep, SuspendInsert, SuspendSwitch, SuspendWoke, suspendVars,
         suspend_condition_remove_all, suspend_condition_remove, SuspendReturn, condVars
  <2>3. \/ UNCHANGED suspend_data
        \/ suspend_data' = [suspend_data EXCEPT ![t] = conds[t]]
        \/ suspend_data' = [suspend_data EXCEPT ![t] = <<>>]
    BY DEF suspend_timeout_get_min, suspend_do_suspend, suspend_condition_add_task,
         SuspendLock, SuspendSleep, SuspendInsert, SuspendSwitch, SuspendWoke, suspendVars,
         suspend_condition_remove_all, suspend_condition_remove, SuspendReturn, condVars
  <2> QED  BY <1>2, <1>3, <2>1, <2>2, <2>3 DEF DataKept
<1>5. ASSUME NEW a, NEW b, NEW c, NewStack(t, a, b, c), Arguments(t)'
      PROVE  CallArguments'
  <2>1. \A u \in Tasks : u # t => Arguments(u)'
    BY <1>3, <1>4, <1>5, OthersKeep
  <2> QED  BY <1>5, <2>1 DEF CallArguments
<1>6. CASE SuspendReturn(t)
  <2>1. Control' /\ NewStack(t, "so_take", "user", "user")
    BY <1>6, ReturnControl
  <2>2. Arguments(t)'
    <3>1. /\ ~ Calling(t, "so_test")' /\ ~ Calling(t, "sr_inc")' /\ ~ Calling(t, "sd_clear")'
          /\ Point(t, 1)' # "sc_timeout" /\ ~ Resumes(t)' /\ ~ InSuspend(t)'
      BY <2>1, NewCalling DEF Resumes, ResumeLabels
    <3>2. suspend_data'[t] = <<>> /\ conds'[t] = <<>>
      BY <1>2, <1>6 DEF SuspendReturn
    <3>3. sem[t] \in Conditions \ held[t]
      BY <1>1, CallingIs DEF CallArguments, Arguments
    <3> QED  BY <1>3, <3>1, <3>2, <3>3 DEF Arguments
  <2> QED  BY <1>5, <2>1, <2>2
<1>7. CASE ~ SuspendReturn(t)
  <2>1. /\ Control'
        /\ \/ UNCHANGED pc
           \/ \E a, b, c : NewStack(t, a, b, c) /\ Inside(a, b, c)
    BY <1>7, SuspendStacks
  <2>2. CASE UNCHANGED pc
    <3>1. DataKept(t)
      BY <1>3, <1>7, <2>2, NotSwitched DEF DataKept
    <3>2. ASSUME NEW u \in Tasks
          PROVE  Arguments(u)'
      <4>1. CallsKept(u) /\ Arguments(u)
        BY <2>2, PointsStay DEF CallArguments
      <4>2. DataKept(u)
        BY <1>4, <3>1
      <4> QED  BY <1>3, <4>1, <4>2, ArgumentsKept DEF DataKept
    <3> QED  BY <2>1, <3>2 DEF CallArguments
  <2>3. CASE \E a, b, c : NewStack(t, a, b, c) /\ Inside(a, b, c)
    <3>1. PICK a, b, c : NewStack(t, a, b, c) /\ Inside(a, b, c)
      BY <2>3
    <3>2. conds'[t] = conds[t] /\ suspend_data'[t] \in {suspend_data[t], conds[t]}
      BY <1>2, <1>7 DEF suspend_timeout_get_min, suspend_do_suspend, suspend_condition_add_task,
           SuspendLock, SuspendSleep, SuspendInsert, SuspendSwitch, SuspendWoke, suspendVars,
           suspend_condition_remove_all, suspend_condition_remove, condVars
    <3>3. Arguments(t)'
      BY <1>1, <1>3, <3>1, <3>2, InsideSuspend DEF Inside
    <3> QED  BY <1>5, <2>1, <3>1, <3>3
  <2> QED  BY <2>1, <2>2, <2>3
<1> QED  BY <1>6, <1>7

LEMMA ResumeArguments ==
  ASSUME Control, DataTypes, CallArguments, NEW t \in Tasks,
         \/ ResumeLock(t) \/ ResumeOne(t) \/ ResumeUnlock(t) \/ ResumeYield(t)
         \/ ResumeReturn(t),
         UNCHANGED semVars
  PROVE  Control' /\ CallArguments'
<1>1. CASE ResumeOne(t)
  <2>1. Control' /\ UNCHANGED pc
    <3>1. Resuming /\ suspend_list \in [Conditions -> Seq(Tasks)]
      BY ArgumentsResuming DEF DataTypes
    <3> QED  BY <1>1, <3>1, ResumeOneControl
  <2>2. PICK c, w : c = resuming[t].cond /\ w = Head(suspend_list[resuming[t].cond])
    OBVIOUS
  <2>3. c \in Conditions /\ w \in Tasks
    BY <1>1, <2>2, ArgumentsResuming, ResumedTask DEF DataTypes
  <2>4. UNCHANGED suspend_data
    <3>1. CASE IsWaiting(w, c)
      <4>1. suspend_data' = [suspend_data EXCEPT ![w] = <<c>>]
        BY <1>1, <2>2, <3>1 DEF ResumeOne
      <4>2. suspend_data[w] = <<c>>
        <5>1. Arguments(w)
          BY <2>3 DEF CallArguments
        <5>2. PICK d : d = sem[w]
          OBVIOUS
        <5>3. suspend_data[w] \in {<<>>, <<d>>}
          BY <5>1, <5>2 DEF Arguments
        <5>4. c \in ToSet(suspend_data[w])
          BY <3>1 DEF IsWaiting
        <5>5. ToSet(<<>>) = {} /\ ToSet(<<d>>) = {d}
          BY DEF ToSet
        <5> QED  BY <5>3, <5>4, <5>5
      <4> QED  BY <2>3, <4>1, <4>2 DEF DataTypes
    <3>2. CASE ~ IsWaiting(w, c)
      BY <1>1, <2>2, <3>2 DEF ResumeOne
    <3> QED  BY <3>1, <3>2
  <2>5. \A u \in Tasks : resuming'[u].cond = resuming[u].cond
    <3>1. resuming \in [Tasks -> ResumeRecords]
      BY DEF DataTypes, CallTypes, ResumeRecords
    <3>2. PICK r, n :
            /\ r \in ResumeRecords
            /\ r = resuming[t]
            /\ n = r.num - 1
      BY <3>1
    <3>3. PICK l : l = sll_push(r.tmp, w)
      OBVIOUS
    <3>4. \/ resuming' = [resuming EXCEPT ![t] = [r EXCEPT !.num = n, !.yield = TRUE]]
          \/ resuming' = [resuming EXCEPT ![t] = [r EXCEPT !.num = n, !.tmp = l]]
      BY <1>1, <2>2, <3>1, <3>2, <3>3 DEF ResumeOne
    <3>5. /\ [r EXCEPT !.num = n, !.yield = TRUE].cond = r.cond
          /\ [r EXCEPT !.num = n, !.tmp = l].cond = r.cond
      BY <3>2 DEF ResumeRecords
    <3> QED  BY <3>1, <3>2, <3>4, <3>5
  <2>6. ASSUME NEW u \in Tasks
        PROVE  Arguments(u)'
    <3>1. CallsKept(u) /\ Arguments(u)
      BY <2>1, PointsStay DEF CallArguments
    <3>2. UNCHANGED <<sem, held, conds, until, destroyed>>
      BY <1>1 DEF ResumeOne, semVars
    <3> QED  BY <2>4, <2>5, <3>1, <3>2, ArgumentsKept
  <2> QED  BY <2>1, <2>6 DEF CallArguments
<1>2. CASE ~ ResumeOne(t)
  <2>1. PICK label \in ResumeLabels : At(t, label)
    BY <1>2 DEF ResumeLock, ResumeUnlock, ResumeYield, ResumeReturn, ResumeLabels
  <2>2. /\ Point(t, 1) \in ResumeLabels /\ Point(t, 2) \in {"unlock", "sd_clear"}
        /\ Point(t, 3) = "user"
    BY <2>1, ResumePoint
  <2>3. PICK p : p = Point(t, 2)
    OBVIOUS
  <2>4. /\ Control'
        /\ \/ \E a \in {"rc_loop", "rc_back"} : NewStack(t, a, p, "user")
           \/ NewStack(t, "unlock", "rc_yield", p)
           \/ NewStack(t, "pend", "rc_back", p)
           \/ NewStack(t, p, "user", "user")
        /\ ResumeReturn(t) => NewStack(t, p, "user", "user")
    BY <1>2, <2>3, ResumeLockControl, ResumeUnlockControl, ResumeYieldControl,
       ResumeReturnControl
  <2>5. UNCHANGED <<sem, held, conds, until, destroyed, suspend_data>>
    BY <1>2 DEF ResumeLock, ResumeUnlock, ResumeYield, ResumeReturn, semVars, condVars,
                suspendVars
  <2>6. \A u \in Tasks : u # t => DataKept(u)
    <3>1. \A u \in Tasks : u # t => resuming'[u] = resuming[u]
      <4>1. resuming \in [Tasks -> ResumeRecords]
        BY DEF DataTypes, CallTypes, ResumeRecords
      <4> QED  BY <1>2, <4>1 DEF ResumeLock, ResumeUnlock, ResumeYield, ResumeReturn, condVars
    <3> QED  BY <2>5, <3>1 DEF DataKept
  <2>7. PICK a, b, c :
          /\ NewStack(t, a, b, c)
          /\ {a, b, c} \subseteq {"rc_loop", "rc_back", "rc_yield", "unlock", "pend", "user", p}
          /\ ResumeReturn(t) => a = p /\ b = "user" /\ c = "user"
    <3>1. CASE ResumeReturn(t)
      BY <2>4, <3>1
    <3>2. CASE ~ ResumeReturn(t) /\ NewStack(t, p, "user", "user")
      BY <3>2
    <3>3. CASE ~ ResumeReturn(t) /\ NewStack(t, "pend", "rc_back", p)
      BY <3>3
    <3>4. CASE ~ ResumeReturn(t) /\ NewStack(t, "unlock", "rc_yield", p)
      BY <3>4
    <3>5. ASSUME ~ ResumeReturn(t), NEW a \in {"rc_loop", "rc_back"}, NewStack(t, a, p, "user")
          PROVE  \E x, b, c :
                    /\ NewStack(t, x, b, c)
                    /\ {x, b, c} \subseteq {"rc_loop", "rc_back", "rc_yield", "unlock", "pend", "user", p}
                    /\ ResumeReturn(t) => x = p /\ b = "user" /\ c = "user"
      BY <3>5
    <3> QED  BY <2>4, <3>1, <3>2, <3>3, <3>4, <3>5
  <2>8. Arguments(t)'
    <3>1. Arguments(t) /\ ~ InSuspend(t) /\ Resumes(t)
      BY <2>2, CallingIs DEF CallArguments, Resumes
    <3>2. /\ ~ Calling(t, "so_test")' /\ ~ Calling(t, "so_take")' /\ ~ Calling(t, "sr_inc")'
          /\ Point(t, 1)' # "sc_timeout" /\ ~ InSuspend(t)'
      BY <2>2, <2>3, <2>7, NewCalling
    <3>3. Calling(t, "sd_clear")' => Calling(t, "sd_clear")
      BY <2>3, <2>7, NewCalling, CallingIs
    <3>4. Resumes(t)' => resuming'[t].cond \in Conditions
      <4>1. CASE ResumeReturn(t)
        <5>1. ~ Resumes(t)'
          BY <2>2, <2>3, <2>7, <4>1, NewCalling DEF Resumes, ResumeLabels
        <5> QED  BY <5>1
      <4>2. CASE ~ ResumeReturn(t)
        <5>1. UNCHANGED resuming
          BY <1>2, <4>2 DEF ResumeLock, ResumeUnlock, ResumeYield, condVars
        <5> QED  BY <3>1, <5>1 DEF Arguments
      <4> QED  BY <4>1, <4>2
    <3> QED  BY <2>5, <3>1, <3>2, <3>3, <3>4 DEF Arguments
  <2>9. \A u \in Tasks : u # t => Arguments(u)'
    BY <2>5, <2>6, <2>7, OthersKeep
  <2> QED  BY <2>4, <2>8, <2>9 DEF CallArguments
<1> QED  BY <1>1, <1>2

----------------------------------------------------------------------------
(* The arguments of the calls, in the semaphore functions.                 *)

(* A task at a point of a semaphore function that is not a call of it.     *)
LEMMA AtNoCall ==
  ASSUME NEW t, NEW a, NewStack(t, a, "user", "user"),
         a \notin (SemaphoreLabels \cup ResumeLabels \cup {"sc_timeout"}),
         suspend_data'[t] = <<>>, conds'[t] = <<>>
  PROVE  Arguments(t)'
<1>1. /\ ~ Calling(t, "so_test")' /\ ~ Calling(t, "so_take")' /\ ~ Calling(t, "sr_inc")'
      /\ ~ Calling(t, "sd_clear")' /\ Point(t, 1)' # "sc_timeout"
      /\ ~ InSuspend(t)' /\ ~ Resumes(t)'
  BY NewCalling DEF Resumes, SemaphoreLabels, ResumeLabels
<1> QED  BY <1>1 DEF Arguments

(* A task that is not in suspend_condition waits for no condition.         *)
LEMMA NoSuspendData ==
  ASSUME CallArguments, NEW t \in Tasks, Point(t, 2) = "user", Point(t, 3) = "user"
  PROVE  suspend_data[t] = <<>> /\ conds[t] = <<>>
<1>1. ~ InSuspend(t) /\ Arguments(t)
  BY CallingIs DEF CallArguments
<1> QED  BY <1>1 DEF Arguments

LEMMA ObtainTestArguments ==
  ASSUME Control, DataTypes, CallArguments, NEW t \in Tasks, ObtainTest(t)
  PROVE  CallArguments'
<1>1. At(t, "so_test") /\ "so_test" \in SemaphoreLabels
  BY DEF ObtainTest, SemaphoreLabels
<1>2. Point(t, 2) = "user" /\ Point(t, 3) = "user" /\ Stacks /\ Point(t, 1) = "so_test"
  BY <1>1, SemaphorePoint
<1>3. /\ suspend_data[t] = <<>> /\ conds[t] = <<>>
      /\ sem[t] \in Conditions /\ sem[t] \notin held[t]
  BY <1>1, <1>2, NoSuspendData, ItsSemaphore
<1>4. UNCHANGED <<suspend_data, resuming, sem, held, destroyed>>
  BY DEF ObtainTest, semVars
<1>5. \A u \in Tasks : u # t => conds'[u] = conds[u] /\ until'[u] = until[u]
  BY DEF ObtainTest, suspend_condition, DataTypes, CallTypes
<1>6. \A u \in Tasks : u # t => DataKept(u)
  BY <1>4, <1>5 DEF DataKept
<1>7. ASSUME NEW a, NEW b, NEW c, NewStack(t, a, b, c), Arguments(t)'
      PROVE  CallArguments'
  <2>1. \A u \in Tasks : u # t => Arguments(u)'
    BY <1>4, <1>6, <1>7, OthersKeep
  <2> QED  BY <1>7, <2>1 DEF CallArguments
<1>8. CASE Go(t, <<"so_take">>) /\ NewStack(t, "so_take", "user", "user")
  <2>1. /\ ~ Calling(t, "so_test")' /\ ~ Calling(t, "sr_inc")'
        /\ ~ Calling(t, "sd_clear")' /\ Point(t, 1)' # "sc_timeout"
        /\ ~ InSuspend(t)' /\ ~ Resumes(t)'
    BY <1>8, NewCalling DEF Resumes, ResumeLabels
  <2>2. UNCHANGED conds
    <3>1. CASE Go(t, <<"sc_timeout", "so_take">>)
      <4>1. NewStack(t, "sc_timeout", "so_take", "user")
        <5>1. "sc_timeout" \in Above("so_take") /\ "so_take" \in Above("user")
          BY AboveIs DEF SemaphoreLabels, ConditionLabels, ResumeLabels
        <5>2. Point(t, 1) # "user"
          BY <1>2
        <5> QED  BY <1>2, <3>1, <5>1, <5>2, GoPush
      <4> QED  BY <1>8, <4>1 DEF NewStack
    <3>2. CASE ~ Go(t, <<"sc_timeout", "so_take">>)
      BY <3>2 DEF ObtainTest
    <3> QED  BY <3>1, <3>2
  <2>3. Arguments(t)'
    BY <1>3, <1>4, <2>1, <2>2 DEF Arguments
  <2> QED  BY <1>7, <1>8, <2>3
<1>9. CASE Go(t, <<"sc_timeout", "so_take">>) /\ NewStack(t, "sc_timeout", "so_take", "user")
  <2>1. /\ ~ Calling(t, "so_test")' /\ ~ Calling(t, "sr_inc")'
        /\ ~ Calling(t, "sd_clear")' /\ InSuspend(t)' /\ ~ Resumes(t)'
    BY <1>9, NewCalling DEF Resumes, ResumeLabels
  <2>2. conds'[t] = <<sem[t]>> /\ \E d : until'[t] = <<d>>
    <3>1. suspend_condition(t, <<sem[t]>>, <<Deadline(wait[t])>>)
      <4>1. CASE Go(t, <<"so_take">>)
        <5>1. NewStack(t, "so_take", "user", "user")
          <6>1. "so_take" \in Above("user") /\ Point(t, 1) # "user"
            BY <1>2, AboveIs DEF SemaphoreLabels
          <6>2. NewStack(t, "so_take", Point(t, 2), Point(t, 3))
            BY <1>2, <4>1, <6>1, GoStep
          <6> QED  BY <1>2, <6>2
        <5> QED  BY <1>9, <5>1 DEF NewStack
      <4>2. CASE ~ Go(t, <<"so_take">>)
        BY <4>2 DEF ObtainTest
      <4> QED  BY <4>1, <4>2
    <3>2. PICK cs, ds : cs = <<sem[t]>> /\ ds = <<Deadline(wait[t])>>
      OBVIOUS
    <3>3. conds'[t] = cs /\ until'[t] = ds
      BY <3>1, <3>2 DEF suspend_condition, DataTypes, CallTypes
    <3> QED  BY <3>2, <3>3
  <2>3. \A l, d : l = <<d>> => Len(l) = 1
    OBVIOUS
  <2>4. Len(until'[t]) = 1
    BY <2>2, <2>3
  <2>5. Arguments(t)'
    BY <1>3, <1>4, <2>1, <2>2, <2>4 DEF Arguments
  <2> QED  BY <1>7, <1>9, <2>5
<1> QED  BY <1>8, <1>9, ObtainTestControl

LEMMA ObtainTakeArguments ==
  ASSUME Control, DataTypes, CallArguments, NEW t \in Tasks, ObtainTake(t)
  PROVE  CallArguments'
<1>0. CASE mode' = "assert"
  <2>1. mode = "task" /\ "so_take" \in SemaphoreLabels
    BY DEF ObtainTake, At, Executes, SemaphoreLabels
  <2>2. UNCHANGED <<pc, condVars, semVars>>
    BY <1>0, <2>1 DEF ObtainTake, Halt, condVars, semVars
  <2> QED  BY <2>2, PointsStay, ArgumentsStay
<1> SUFFICES ASSUME mode' # "assert"
             PROVE  CallArguments'
  BY <1>0
<1>1. At(t, "so_take") /\ "so_take" \in SemaphoreLabels
  BY DEF ObtainTake, SemaphoreLabels
<1>2. NewStack(t, "unlock", "user", "user") /\ suspend_data[t] = <<>> /\ conds[t] = <<>>
  BY <1>1, SemaphorePoint, NoSuspendData, ObtainTakeControl
<1>3. \A u \in Tasks : u # t => DataKept(u)
  <2>1. UNCHANGED <<suspendVars, resuming>>
    BY DEF ObtainTake
  <2>2. \A u \in Tasks : u # t => sem'[u] = sem[u] /\ held'[u] = held[u]
    BY DEF ObtainTake, DataTypes, CallTypes
  <2> QED  BY <2>1, <2>2 DEF DataKept, suspendVars
<1>4. UNCHANGED <<destroyed, suspend_data, conds>>
  BY DEF ObtainTake, suspendVars
<1>5. Arguments(t)'
  BY <1>2, <1>4, AtNoCall DEF SemaphoreLabels, ResumeLabels
<1>6. \A u \in Tasks : u # t => Arguments(u)'
  BY <1>2, <1>3, <1>4, OthersKeep
<1> QED  BY <1>5, <1>6 DEF CallArguments

LEMMA IncrementArguments ==
  ASSUME Control, DataTypes, CallArguments, NEW t \in Tasks, ReleaseIncrement(t)
  PROVE  CallArguments'
<1>1. At(t, "sr_inc") /\ "sr_inc" \in SemaphoreLabels
  BY DEF ReleaseIncrement, SemaphoreLabels
<1>2. /\ NewStack(t, "rc_lock", "unlock", "user") /\ suspend_data[t] = <<>>
      /\ sem[t] \in Conditions /\ conds[t] = <<>>
  BY <1>1, SemaphorePoint, NoSuspendData, IncrementControl, ItsSemaphore
<1>3. UNCHANGED <<destroyed, suspendVars>>
  BY DEF ReleaseIncrement
<1>4. /\ resuming'[t].cond = sem[t]
      /\ \A u \in Tasks : u # t => resuming'[u] = resuming[u]
  BY IncrementData
<1>5. \A u \in Tasks : u # t => DataKept(u)
  <2>1. \A u \in Tasks : u # t => sem'[u] = sem[u] /\ held'[u] = held[u]
    BY DEF ReleaseIncrement, DataTypes, CallTypes
  <2> QED  BY <1>3, <1>4, <2>1 DEF DataKept, suspendVars
<1>6. Arguments(t)'
  <2>1. /\ ~ Calling(t, "so_test")' /\ ~ Calling(t, "so_take")' /\ ~ Calling(t, "sr_inc")'
        /\ ~ Calling(t, "sd_clear")' /\ Point(t, 1)' # "sc_timeout" /\ ~ InSuspend(t)'
    BY <1>2, NewCalling
  <2> QED  BY <1>2, <1>3, <1>4, <2>1 DEF Arguments, suspendVars
<1>7. \A u \in Tasks : u # t => Arguments(u)'
  BY <1>2, <1>3, <1>5, OthersKeep
<1> QED  BY <1>6, <1>7 DEF CallArguments

LEMMA ClearArguments ==
  ASSUME Control, DataTypes, CallArguments, NEW t \in Tasks, DestroyClear(t)
  PROVE  CallArguments'
<1>1. At(t, "sd_clear") /\ "sd_clear" \in SemaphoreLabels
  BY DEF DestroyClear, SemaphoreLabels
<1>2. NewStack(t, "user", "user", "user") /\ suspend_data[t] = <<>> /\ conds[t] = <<>>
  BY <1>1, SemaphorePoint, NoSuspendData, ClearControl
<1>3. UNCHANGED <<suspendVars, resuming, destroyed>>
  BY DEF DestroyClear
<1>4. \A u \in Tasks : u # t => DataKept(u)
  <2>1. \A u \in Tasks : u # t => sem'[u] = sem[u] /\ held'[u] = held[u]
    BY DEF DestroyClear, DataTypes, CallTypes
  <2> QED  BY <1>3, <2>1 DEF DataKept, suspendVars
<1>5. Arguments(t)'
  BY <1>2, <1>3, AtNoCall DEF SemaphoreLabels, ResumeLabels, suspendVars
<1>6. \A u \in Tasks : u # t => Arguments(u)'
  BY <1>2, <1>3, <1>4, OthersKeep
<1> QED  BY <1>5, <1>6 DEF CallArguments

(* A task that enters a semaphore function with its scheduler lock.        *)
LEMMA EnterArguments ==
  ASSUME CallArguments, NEW t \in Tasks, NEW s \in Conditions,
         NEW label \in {"so_test", "sr_inc"},
         InUser(t), Control, NewStack(t, label, "user", "user"), sem' = [sem EXCEPT ![t] = s],
         sem \in [Tasks -> Conditions \cup {NULL}],
         UNCHANGED <<condVars, destroyed, held>>,
         label = "so_test" => s \notin held[t],
         label = "sr_inc" => s \in held[t] /\ s \notin destroyed
  PROVE  CallArguments'
<1>1. Point(t, 2) = "user" /\ Point(t, 3) = "user"
  BY UserFacts
<1>2. suspend_data[t] = <<>> /\ conds[t] = <<>>
  BY <1>1, NoSuspendData
<1>3. \A u \in Tasks : u # t => DataKept(u)
  BY DEF DataKept, condVars, suspendVars
<1>4. Arguments(t)'
  <2>1. /\ Calling(t, "so_test")' => label = "so_test"
        /\ Calling(t, "sr_inc")' => label = "sr_inc"
        /\ ~ Calling(t, "so_take")' /\ ~ Calling(t, "sd_clear")'
        /\ Point(t, 1)' # "sc_timeout" /\ ~ InSuspend(t)' /\ ~ Resumes(t)'
    BY NewCalling DEF Resumes, ResumeLabels
  <2>2. sem'[t] = s
    OBVIOUS
  <2> QED  BY <1>2, <2>1, <2>2 DEF Arguments, condVars, suspendVars
<1>5. \A u \in Tasks : u # t => Arguments(u)'
  BY <1>3, OthersKeep
<1> QED  BY <1>4, <1>5 DEF CallArguments

LEMMA DestroyArguments ==
  ASSUME Control, DataTypes, CallArguments, NEW t \in Tasks, NEW s \in Conditions,
         semaphore_destroy(t, s)
  PROVE  CallArguments'
<1>1. /\ InUser(t) /\ s \in held[t] /\ destroyed' = destroyed \cup {s}
      /\ sem' = [sem EXCEPT ![t] = s] /\ resume_condition(t, s, -1, "DELETED")
      /\ UNCHANGED <<suspendVars, held>>
  BY DEF semaphore_destroy
<1>2. NewStack(t, "rc_lock", "sd_clear", "user")
  BY DestroyControl
<1>3. mode = "task" /\ current_task = t /\ Point(t, 2) = "user" /\ Point(t, 3) = "user"
  BY <1>1, UserFacts
<1>4. suspend_data[t] = <<>> /\ conds[t] = <<>>
  BY <1>3, NoSuspendData
<1>5. resuming'[t].cond = s /\ \A u \in Tasks : u # t => resuming'[u] = resuming[u]
  <2>1. resuming \in [Tasks -> ResumeRecords]
    BY DEF DataTypes, CallTypes, ResumeRecords
  <2> QED  BY <1>1, <2>1, ResumeStartType DEF Errors
<1>6. Arguments(t)'
  <2>1. /\ ~ Calling(t, "so_test")' /\ ~ Calling(t, "so_take")' /\ ~ Calling(t, "sr_inc")'
        /\ Point(t, 1)' # "sc_timeout" /\ ~ InSuspend(t)'
    BY <1>2, NewCalling
  <2>2. sem'[t] = s
    BY <1>1 DEF DataTypes, CallTypes
  <2> QED  BY <1>1, <1>4, <1>5, <2>1, <2>2 DEF Arguments, suspendVars
<1>7. ASSUME NEW u \in Tasks, u # t
      PROVE  Arguments(u)'
  <2>1. Point(u, 1)' = Point(u, 1) /\ Point(u, 2)' = Point(u, 2) /\ Point(u, 3)' = Point(u, 3)
    BY <1>2, <1>7 DEF NewStack
  <2>2. /\ InSuspend(u)' <=> InSuspend(u)
        /\ \A label : Calling(u, label)' <=> Calling(u, label)
    BY <2>1, SamePoints DEF CallsKept
  <2>3. DataKept(u)
    BY <1>1, <1>5, <1>7 DEF DataKept, suspendVars, DataTypes, CallTypes
  <2>4. ~ Calling(u, "sr_inc")
    <3>1. Away(u)
      BY <1>3, <1>7 DEF Away
    <3>2. lock_count[u] = 0 \/ Point(u, 1) = "back"
      BY <3>1 DEF Control, LockKeepsCPU
    <3>3. StackForm(Point(u, 1), Point(u, 2), Point(u, 3))
      BY TaskStack DEF Control
    <3>4. CASE lock_count[u] = 0
      <4>1. lock_count[u] \in Owed(u) .. Owed(u) + MaxUserLock
        BY DEF Control, SemLocks
      <4>2. Owed(u) = 0
        <5>1. Owed(u) \in Nat
          BY DEF Owed, Owes
        <5> QED  BY <3>4, <4>1, <5>1, LockAssumption
      <4>3. Owes(Point(u, 1)) = 0 /\ Owes(Point(u, 2)) = 0 /\ Owes(Point(u, 3)) = 0
        BY <4>2 DEF Owed, Owes
      <4>4. Owes("sr_inc") = 1
        BY DEF Owes, Owing
      <4> QED  BY <4>3, <4>4, CallingIs
    <3>5. CASE Point(u, 1) = "back"
      BY <3>3, <3>5, CallingIs DEF StackForm, Labels, SemaphoreLabels, ResumeLabels,
                                   SuspendLabels, ConditionLabels
    <3> QED  BY <3>2, <3>4, <3>5
  <2>5. Arguments(u)
    BY DEF CallArguments
  <2>6. destroyed \subseteq destroyed'
    BY <1>1
  <2> QED  BY <2>1, <2>2, <2>3, <2>4, <2>5, <2>6 DEF Arguments, DataKept, Resumes
<1> QED  BY <1>6, <1>7 DEF CallArguments

LEMMA UseArguments ==
  ASSUME Control, DataTypes, CallArguments, NEW t \in Tasks, NEW s \in Conditions,
         \/ \E w \in Waits : semaphore_obtain(t, s, w)
         \/ semaphore_release(t, s)
         \/ semaphore_destroy(t, s)
  PROVE  Control' /\ CallArguments'
<1>1. sem \in [Tasks -> Conditions \cup {NULL}]
  BY DEF DataTypes, CallTypes
<1>2. CASE \E w \in Waits : semaphore_obtain(t, s, w)
  <2>1. EnterLocked(t, s, "so_test") /\ s \notin held[t] /\ UNCHANGED <<condVars, destroyed, held>>
    BY <1>2 DEF semaphore_obtain
  <2>2. InUser(t) /\ sem' = [sem EXCEPT ![t] = s]
    BY <2>1 DEF EnterLocked
  <2>3. Control' /\ NewStack(t, "so_test", "user", "user")
    BY <2>1, EnterControl
  <2> QED  BY <1>1, <2>1, <2>2, <2>3, EnterArguments
<1>3. CASE semaphore_release(t, s)
  <2>1. s \in held[t] /\ s \notin destroyed /\ UNCHANGED <<condVars, destroyed, held>>
    BY <1>3 DEF semaphore_release
  <2>2. /\ Control'
        /\ \/ EnterLocked(t, s, "sr_inc") /\ NewStack(t, "sr_inc", "user", "user")
           \/ mode' = "assert" /\ UNCHANGED <<pc, sem>>
    BY <1>3, ReleaseControl
  <2>3. CASE EnterLocked(t, s, "sr_inc") /\ NewStack(t, "sr_inc", "user", "user")
    <3>1. InUser(t) /\ sem' = [sem EXCEPT ![t] = s]
      BY <2>3 DEF EnterLocked
    <3> QED  BY <1>1, <2>1, <2>2, <2>3, <3>1, EnterArguments
  <2>4. CASE UNCHANGED <<pc, sem>>
    <3>1. \A u \in Tasks : CallsKept(u) /\ Arguments(u)
      BY <2>4, PointsStay DEF CallArguments
    <3>2. \A u \in Tasks : Arguments(u)'
      BY <2>1, <2>4, <3>1, ArgumentsKept DEF condVars, suspendVars
    <3> QED  BY <2>2, <3>2 DEF CallArguments
  <2> QED  BY <2>2, <2>3, <2>4
<1>4. CASE semaphore_destroy(t, s)
  BY <1>4, DestroyControl, DestroyArguments
<1> QED  BY <1>2, <1>3, <1>4

----------------------------------------------------------------------------
(* Control, the types and the arguments of the calls are inductive.        *)

Core == Control /\ DataTypes /\ CallArguments

LEMMA CoreInit ==
  ASSUME SemInit
  PROVE  Core
<1>1. Init /\ CondInit
  BY DEF SemInit
<1>2. StateTypeOK
  BY <1>1, InitInvariant DEF KernelInvariant, TypeOK
<1>3. \A t \in Tasks : pc[t] = <<"user">>
  BY <1>1 DEF Init
<1>4. \A t \in Tasks : CallStack(pc[t]) /\ \A i \in 1 .. 3 : Point(t, i) = "user"
  <2>1. ASSUME NEW s, s = <<"user">>
        PROVE  s \in Seq(AllLabels) /\ Len(s) = 1 /\ s[1] = "user"
    <3>1. "user" \in AllLabels
      BY DEF AllLabels, Labels
    <3> QED  BY <2>1, <3>1, OneSeq
  <2>2. \A n \in Nat : n = 1 => 1 .. n - 1 = {} /\ n \in 1 .. 4
    OBVIOUS
  <2>3. \A s : s = <<"user">> => CallStack(s)
    BY <2>1, <2>2 DEF CallStack
  <2>4. \A t \in Tasks : \A i \in 1 .. 3 : Point(t, i) = "user"
    BY <1>3, <2>1 DEF Point
  <2> QED  BY <1>3, <2>3, <2>4
<1>5. Stacks
  <2>1. pc = [t \in Tasks |-> <<"user">>]
    BY <1>1 DEF Init
  <2>2. <<"user">> \in Seq(AllLabels)
    BY DEF AllLabels, Labels
  <2> QED  BY <1>4, <2>1, <2>2 DEF Stacks
<1>6. \A t \in Tasks : Point(t, 1) = "user" /\ Point(t, 2) = "user" /\ Point(t, 3) = "user"
  BY <1>4
<1>7. /\ mode = "boot" /\ \A t \in Tasks : lock_count[t] = 0
      /\ \A t \in Tasks : state[t] # "TO_BE_SUSPENDED"
  BY <1>1 DEF Init
<1>8. SemLocks
  <2>1. \A t \in Tasks : Owed(t) = 0
    BY <1>6 DEF Owed, Owes, Owing
  <2> QED  BY <1>7, <2>1, LockAssumption DEF SemLocks
<1>9. LockKeepsCPU /\ SemCurrent
  BY <1>7 DEF LockKeepsCPU, SemCurrent
<1>10. Control
  BY <1>2, <1>5, <1>8, <1>9 DEF Control
<1>11. CallArguments
  <2>1. ASSUME NEW t \in Tasks
        PROVE  Arguments(t)
    <3>1. \A label : Calling(t, label) => label = "user"
      BY <1>6, CallingIs
    <3>2. ~ InSuspend(t) /\ ~ Resumes(t)
      BY <1>6, <3>1, CallingIs DEF Resumes, ResumeLabels
    <3>3. suspend_data[t] = <<>> /\ conds[t] = <<>>
      BY <1>1 DEF CondInit
    <3> QED  BY <1>6, <3>1, <3>2, <3>3 DEF Arguments
  <2> QED  BY <2>1 DEF CallArguments
<1>12. DataTypes
  <2>1. /\ count \in [Conditions -> Nat] /\ owner \in [Conditions -> Tasks \cup {NULL}]
        /\ sem \in [Tasks -> Conditions \cup {NULL}] /\ wait \in [Tasks -> Nat]
        /\ destroyed \subseteq Conditions /\ held \in [Tasks -> SUBSET Conditions]
    <3>1. count \in [Conditions -> Nat]
      BY SemaphoreAssumption DEF SemInit
    <3> QED  BY <3>1 DEF SemInit
  <2>2. MAX_WAIT \in 0 .. MAX_WAIT
    BY TickAssumption DEF MAX_WAIT
  <2>3. /\ ping \in [Conditions -> BOOLEAN] /\ timeout \in [Tasks -> 0 .. MAX_WAIT]
        /\ from \in [Tasks -> {"SYSTEM", "SLEEP"}]
        /\ susp_status \in [Tasks -> [Conditions -> Errors \cup {"SUCCESS"}]]
        /\ may_resume \in [Tasks -> [Conditions -> BOOLEAN]]
    BY <1>1, <2>2 DEF CondInit
  <2>4. \A S : <<>> \in Seq(S)
    OBVIOUS
  <2>5. /\ suspend_list \in [Conditions -> Seq(Tasks)]
        /\ suspend_data \in [Tasks -> Seq(Conditions)]
        /\ conds \in [Tasks -> Seq(Conditions)]
        /\ until \in [Tasks -> Seq(0 .. TickRange - 1 \cup {NULL})]
    BY <1>1, <2>4 DEF CondInit
  <2>6. resuming \in [Tasks -> ResumeRecords]
    <3>1. NoResume \in ResumeRecords
      BY <2>4 DEF NoResume, ResumeRecords
    <3> QED  BY <1>1, <3>1 DEF CondInit
  <2> QED  BY <2>1, <2>3, <2>5, <2>6 DEF DataTypes, CallTypes, ResumeRecords
<1> QED  BY <1>10, <1>11, <1>12 DEF Core

LEMMA ControlUnchanged ==
  ASSUME Control, UNCHANGED kernelVars
  PROVE  Control'
<1>1. UNCHANGED <<state, resume_from, lock_count, drift, pc, level, lists, timeVars, cpuVars>>
  BY DEF kernelVars
<1>2. StateTypeOK'
  BY <1>1 DEF Control, StateTypeOK, lists, timeVars, cpuVars
<1>3. /\ Stacks'
      /\ \A u \in Tasks : /\ Point(u, 1)' = Point(u, 1) /\ Point(u, 2)' = Point(u, 2)
                          /\ Point(u, 3)' = Point(u, 3)
  BY <1>1, StacksUnchanged DEF Control
<1>4. SemLocks'
  BY <1>1, <1>3 DEF Control, SemLocks, Owed
<1>5. LockKeepsCPU'
  BY <1>1, <1>3 DEF Control, LockKeepsCPU, SemCurrent, Away, cpuVars, Point
<1>6. SemCurrent'
  BY <1>1, <1>3 DEF Control, SemCurrent, Away, cpuVars, Point
<1> QED  BY <1>2, <1>3, <1>4, <1>5, <1>6 DEF Control

LEMMA CoreStep ==
  ASSUME Core, [SemNext]_vars
  PROVE  Core'
<1>0. Control /\ DataTypes
  BY DEF Core
<1>1. CASE UNCHANGED vars
  <2>1. UNCHANGED <<kernelVars, condVars, semVars>>
    BY <1>1 DEF vars
  <2>2. Control'
    BY <1>0, <2>1, ControlUnchanged
  <2>3. DataTypes'
    BY <1>0, <2>1, DataUnchanged
  <2>4. CallArguments'
    <3>1. UNCHANGED <<pc, mode>>
      BY <2>1 DEF kernelVars, cpuVars
    <3> QED  BY <2>1, <3>1, PointsStay, ArgumentsStay DEF Core
  <2> QED  BY <2>2, <2>3, <2>4 DEF Core
<1>2. CASE SemNext
  <2>1. CallArguments
    BY DEF Core
  <2>2. ASSUME UNCHANGED <<condVars, semVars>>, Control', \A u \in Tasks : CallsKept(u)
        PROVE  Core'
    BY <1>0, <2>1, <2>2, DataUnchanged, ArgumentsStay DEF Core
  <2>3. CASE SemBoot \/ SemPendSV \/ SemTick
    <3>1. /\ Boot \/ PendSV \/ isr_sysclock_handle
          /\ UNCHANGED <<condVars, semVars>>
      BY <2>3 DEF SemBoot, SemPendSV, SemTick, ConditionTick
    <3> QED  BY <1>0, <2>2, <3>1, SystemKeeps
  <2>4. ASSUME NEW t \in Tasks, KernelCall(t), UNCHANGED <<condVars, semVars>>
        PROVE  Core'
    BY <1>0, <2>2, <2>4, KernelCallKeeps
  <2>5. ASSUME NEW t \in Tasks, UserCall(t), UNCHANGED <<condVars, semVars>>
        PROVE  Core'
    BY <1>0, <2>2, <2>5, UserCallKeeps
  <2>6. ASSUME NEW t \in Tasks, ConditionCall(t), UNCHANGED semVars
        PROVE  Core'
    <3>1. CASE \/ ResumeLock(t) \/ ResumeOne(t) \/ ResumeUnlock(t) \/ ResumeYield(t)
               \/ ResumeReturn(t)
      BY <1>0, <2>1, <2>6, <3>1, ResumeArguments, ResumeData DEF Core
    <3>2. CASE ~ (\/ ResumeLock(t) \/ ResumeOne(t) \/ ResumeUnlock(t) \/ ResumeYield(t)
                  \/ ResumeReturn(t))
      <4>1. \/ suspend_timeout_get_min(t) \/ suspend_do_suspend(t)
            \/ suspend_condition_add_task(t) \/ SuspendLock(t)
            \/ SuspendSleep(t) \/ SuspendInsert(t) \/ SuspendSwitch(t) \/ SuspendWoke(t)
            \/ suspend_condition_remove_all(t) \/ suspend_condition_remove(t)
            \/ SuspendReturn(t)
        BY <2>6, <3>2 DEF ConditionCall
      <4> QED  BY <1>0, <2>1, <2>6, <4>1, SuspendArguments, SuspendData DEF Core
    <3> QED  BY <3>1, <3>2
  <2>7. ASSUME NEW t \in Tasks, SemaphoreCall(t)
        PROVE  Core'
    <3>1. CASE ObtainTest(t)
      BY <1>0, <2>1, <3>1, ObtainTestControl, ObtainTestData, ObtainTestArguments DEF Core
    <3>2. CASE ObtainTake(t)
      BY <1>0, <2>1, <3>2, ObtainTakeControl, ObtainTakeData, ObtainTakeArguments DEF Core
    <3>3. CASE ReleaseIncrement(t)
      BY <1>0, <2>1, <3>3, IncrementControl, IncrementData, IncrementArguments DEF Core
    <3>4. CASE DestroyClear(t)
      BY <1>0, <2>1, <3>4, ClearControl, ClearData, ClearArguments DEF Core
    <3> QED  BY <2>7, <3>1, <3>2, <3>3, <3>4 DEF SemaphoreCall
  <2>8. ASSUME NEW t \in Tasks, SemaphoreUse(t)
        PROVE  Core'
    <3>1. PICK s \in Conditions :
            \/ \E w \in Waits : semaphore_obtain(t, s, w)
            \/ semaphore_release(t, s)
            \/ semaphore_destroy(t, s)
      BY <2>8 DEF SemaphoreUse
    <3> QED  BY <1>0, <2>1, <3>1, UseArguments, UseData DEF Core
  <2> QED  BY <1>2, <2>3, <2>4, <2>5, <2>6, <2>7, <2>8 DEF SemNext, CallStep
<1> QED  BY <1>1, <1>2

----------------------------------------------------------------------------
(* The count of a semaphore and its holders.                               *)

Holders(s) == {t \in Tasks : s \in held[t]}

CountBounded == \A s \in Conditions : count[s] <= MaxCount[s]

LEMMA HoldersFinite ==
  ASSUME NEW s
  PROVE  /\ IsFiniteSet(Holders(s)) /\ Cardinality(Holders(s)) \in Nat
         /\ Cardinality({t \in Tasks : s \in held[t]}) = Cardinality(Holders(s))
<1>1. Holders(s) \subseteq Tasks
  BY DEF Holders
<1>2. IsFiniteSet(Holders(s))
  BY <1>1, SemaphoreAssumption, FS_Subset
<1> QED  BY <1>2, FS_CardinalityType DEF Holders

LEMMA CountOf ==
  CountExact <=> \A s \in Conditions \ destroyed :
                   count[s] + Cardinality(Holders(s)) = MaxCount[s]
BY DEF CountExact, Holders

LEMMA CountKept ==
  ASSUME CountExact, CountBounded, UNCHANGED <<count, held>>, destroyed \subseteq destroyed'
  PROVE  CountExact' /\ CountBounded'
BY DEF CountExact, CountBounded

LEMMA TakeCount ==
  ASSUME Core, CallArguments, CountExact, CountBounded, NEW t \in Tasks, ObtainTake(t)
  PROVE  CountExact' /\ CountBounded'
<1>0. Control /\ DataTypes
  BY DEF Core
<1>1. At(t, "so_take")
  BY DEF ObtainTake
<1>2. PICK s \in Conditions : s = sem[t] /\ s \notin held[t]
  BY <1>0, <1>1, ItsSemaphore
<1>3. /\ destroyed' = destroyed
      /\ \/ UNCHANGED <<count, held>>
         \/ /\ count[s] # 0 /\ count' = [count EXCEPT ![s] = @ - 1]
            /\ held' = [held EXCEPT ![t] = @ \cup {s}]
  BY <1>2 DEF ObtainTake, Taken
<1>4. CASE UNCHANGED <<count, held>>
  BY <1>3, <1>4, CountKept
<1>5. CASE /\ count[s] # 0 /\ count' = [count EXCEPT ![s] = @ - 1]
           /\ held' = [held EXCEPT ![t] = @ \cup {s}]
  <2>1. /\ count \in [Conditions -> Nat] /\ held \in [Tasks -> SUBSET Conditions]
        /\ MaxCount \in [Conditions -> 1 .. 255]
    BY <1>0, SemaphoreAssumption DEF DataTypes
  <2>2. /\ count'[s] = count[s] - 1
        /\ \A c \in Conditions : c # s => count'[c] = count[c]
    BY <1>5, <2>1
  <2>3. Holders(s)' = Holders(s) \cup {t} /\ t \notin Holders(s)
    BY <1>2, <1>5, <2>1 DEF Holders
  <2>4. \A c \in Conditions : c # s => Holders(c)' = Holders(c)
    BY <1>5, <2>1 DEF Holders
  <2>5. Cardinality(Holders(s)') = Cardinality(Holders(s)) + 1
    BY <2>3, HoldersFinite, FS_AddElement
  <2>6. Cardinality(Holders(s)) \in Nat
    BY HoldersFinite
  <2>7. ASSUME NEW c \in Conditions \ destroyed'
        PROVE  count'[c] + Cardinality(Holders(c)') = MaxCount[c]
    <3>1. count[c] + Cardinality(Holders(c)) = MaxCount[c]
      BY <1>3, <2>7, CountOf
    <3>2. CASE c = s
      BY <2>1, <2>2, <2>5, <2>6, <3>1, <3>2
    <3>3. CASE c # s
      BY <2>2, <2>4, <3>1, <3>3
    <3> QED  BY <3>2, <3>3
  <2>8. CountExact'
    BY <2>7 DEF CountExact, Holders
  <2>9. CountBounded'
    BY <2>1, <2>2 DEF CountBounded
  <2> QED  BY <2>8, <2>9
<1> QED  BY <1>3, <1>4, <1>5

LEMMA IncrementCount ==
  ASSUME Core, CallArguments, CountExact, CountBounded, NEW t \in Tasks, ReleaseIncrement(t)
  PROVE  CountExact' /\ CountBounded'
<1>0. Control /\ DataTypes
  BY DEF Core
<1>1. At(t, "sr_inc")
  BY DEF ReleaseIncrement
<1>2. PICK s \in Conditions : s = sem[t] /\ s \in held[t] /\ s \notin destroyed
  BY <1>0, <1>1, ItsSemaphore
<1>3. /\ destroyed' = destroyed
      /\ count' = [count EXCEPT ![s] = @ + 1]
      /\ held' = [held EXCEPT ![t] = @ \ {s}]
  BY <1>2 DEF ReleaseIncrement
<1>4. /\ count \in [Conditions -> Nat] /\ held \in [Tasks -> SUBSET Conditions]
      /\ MaxCount \in [Conditions -> 1 .. 255]
  BY <1>0, SemaphoreAssumption DEF DataTypes
<1>5. /\ count'[s] = count[s] + 1
      /\ \A c \in Conditions : c # s => count'[c] = count[c]
  BY <1>3, <1>4
<1>6. Holders(s)' = Holders(s) \ {t} /\ t \in Holders(s)
  BY <1>2, <1>3, <1>4 DEF Holders
<1>7. \A c \in Conditions : c # s => Holders(c)' = Holders(c)
  BY <1>3, <1>4 DEF Holders
<1>8. Cardinality(Holders(s)') = Cardinality(Holders(s)) - 1
  BY <1>6, HoldersFinite, FS_RemoveElement
<1>9. Cardinality(Holders(s)) \in Nat /\ Cardinality(Holders(s)') \in Nat
  <2>1. Cardinality(Holders(s)) \in Nat
    BY HoldersFinite
  <2>2. IsFiniteSet(Holders(s)')
    BY <1>6, HoldersFinite, FS_RemoveElement
  <2> QED  BY <2>1, <2>2, FS_CardinalityType
<1>10. count[s] + Cardinality(Holders(s)) = MaxCount[s]
  BY <1>2, CountOf
<1>11. ASSUME NEW c \in Conditions \ destroyed'
       PROVE  count'[c] + Cardinality(Holders(c)') = MaxCount[c]
  <2>1. CASE c = s
    BY <1>4, <1>5, <1>8, <1>9, <1>10, <2>1
  <2>2. CASE c # s
    <3>1. count[c] + Cardinality(Holders(c)) = MaxCount[c]
      BY <1>3, <1>11, CountOf
    <3> QED  BY <1>5, <1>7, <2>2, <3>1
  <2> QED  BY <2>1, <2>2
<1>12. CountExact'
  BY <1>11 DEF CountExact, Holders
<1>13. CountBounded'
  <2>1. count'[s] <= MaxCount[s]
    BY <1>4, <1>5, <1>8, <1>9, <1>10
  <2> QED  BY <1>5, <2>1 DEF CountBounded
<1> QED  BY <1>12, <1>13

LEMMA ClearCount ==
  ASSUME Core, CallArguments, CountExact, CountBounded, NEW t \in Tasks, DestroyClear(t)
  PROVE  CountExact' /\ CountBounded'
<1>0. Control /\ DataTypes
  BY DEF Core
<1>1. At(t, "sd_clear")
  BY DEF DestroyClear
<1>2. PICK s \in Conditions : s = sem[t] /\ s \in destroyed
  BY <1>0, <1>1, ItsSemaphore
<1>3. /\ destroyed' = destroyed /\ count' = [count EXCEPT ![s] = 0]
      /\ held' = [held EXCEPT ![t] = @ \ {s}]
  BY <1>2 DEF DestroyClear
<1>4. /\ count \in [Conditions -> Nat] /\ held \in [Tasks -> SUBSET Conditions]
      /\ MaxCount \in [Conditions -> 1 .. 255]
  BY <1>0, SemaphoreAssumption DEF DataTypes
<1>5. /\ count'[s] = 0 /\ \A c \in Conditions : c # s => count'[c] = count[c]
  BY <1>3, <1>4
<1>6. \A c \in Conditions : c # s => Holders(c)' = Holders(c)
  BY <1>3, <1>4 DEF Holders
<1>7. ASSUME NEW c \in Conditions \ destroyed'
      PROVE  count'[c] + Cardinality(Holders(c)') = MaxCount[c]
  <2>1. c # s
    BY <1>2, <1>3, <1>7
  <2>2. count[c] + Cardinality(Holders(c)) = MaxCount[c]
    BY <1>3, <1>7, CountOf
  <2> QED  BY <1>5, <1>6, <2>1, <2>2
<1>8. CountExact'
  BY <1>7 DEF CountExact, Holders
<1>9. CountBounded'
  BY <1>4, <1>5 DEF CountBounded
<1> QED  BY <1>8, <1>9

LEMMA CountStep ==
  ASSUME Core, CountExact, CountBounded, [SemNext]_vars
  PROVE  CountExact' /\ CountBounded'
<1>1. CASE UNCHANGED <<condVars, semVars>>
  BY <1>1, CountKept DEF condVars, semVars
<1>2. CASE UNCHANGED vars
  BY <1>1, <1>2 DEF vars
<1>3. CASE SemNext
  <2>1. CallArguments
    BY DEF Core
  <2>2. CASE SemBoot \/ SemPendSV \/ SemTick
    BY <1>1, <2>2 DEF SemBoot, SemPendSV, SemTick, ConditionTick
  <2>3. ASSUME NEW t \in Tasks, ConditionCall(t), UNCHANGED semVars
        PROVE  CountExact' /\ CountBounded'
    <3>1. UNCHANGED count
      BY <2>3 DEF ConditionCall, suspend_timeout_get_min, suspend_do_suspend,
         suspend_condition_add_task, SuspendLock, SuspendSleep, SuspendInsert, SuspendSwitch,
         SuspendWoke, suspend_condition_remove_all, suspend_condition_remove, SuspendReturn,
         ResumeLock, ResumeOne, ResumeUnlock, ResumeYield, ResumeReturn, condVars
    <3> QED  BY <2>3, <3>1, CountKept DEF semVars
  <2>4. ASSUME NEW t \in Tasks, SemaphoreCall(t)
        PROVE  CountExact' /\ CountBounded'
    <3>1. CASE ObtainTest(t)
      BY <3>1, CountKept DEF ObtainTest, semVars
    <3> QED  BY <2>1, <2>4, <3>1, TakeCount, IncrementCount, ClearCount DEF SemaphoreCall
  <2>5. ASSUME NEW t \in Tasks, SemaphoreUse(t)
        PROVE  CountExact' /\ CountBounded'
    <3>1. UNCHANGED <<count, held>> /\ destroyed \subseteq destroyed'
      BY <2>5 DEF SemaphoreUse, semaphore_obtain, semaphore_release, semaphore_destroy, condVars
    <3> QED  BY <3>1, CountKept
  <2> QED  BY <1>1, <1>3, <2>2, <2>3, <2>4, <2>5 DEF SemNext, CallStep
<1> QED  BY <1>2, <1>3

(* CountExact: the units of a semaphore that is not destroyed are its      *)
(* count (semaphore.count) and the tasks that hold one: semaphore_obtain   *)
(* and semaphore_release neither lose nor invent a unit, whichever way the *)
(* tasks, the tick and the switches interleave.                            *)
THEOREM NoUnitLost == SemSpec => []CountExact
<1>1. SemInit => Core /\ CountExact /\ CountBounded
  <2> SUFFICES ASSUME SemInit
               PROVE  Core /\ CountExact /\ CountBounded
    OBVIOUS
  <2>1. \A s : Holders(s) = {}
    BY DEF SemInit, Holders
  <2>2. Cardinality({}) = 0
    BY FS_EmptySet
  <2>3. count = MaxCount /\ MaxCount \in [Conditions -> 1 .. 255]
    BY SemaphoreAssumption DEF SemInit
  <2>4. CountExact
    BY <2>1, <2>2, <2>3, CountOf
  <2>5. CountBounded
    BY <2>3 DEF CountBounded
  <2> QED  BY <2>4, <2>5, CoreInit
<1>2. Core /\ CountExact /\ CountBounded /\ [SemNext]_vars
        => (Core /\ CountExact /\ CountBounded)'
  BY CoreStep, CountStep
<1> QED  BY <1>1, <1>2, PTL DEF SemSpec

----------------------------------------------------------------------------
(* The ready list.                                                         *)

ReadyOK == ReadyListExact /\ ReadyListSorted

LEMMA RunningStaysOff ==
  ASSUME StateTypeOK, ReadyOK, NEW t \in Tasks, state[t] = "RUNNING",
         NEW st \in {"TO_BE_SUSPENDED", "FINISHED"},
         state' = [state EXCEPT ![t] = st], UNCHANGED sch_ready_task_list
  PROVE  ReadyOK'
<1>1. ~ Ready(t) /\ st \in States \ {"RESUME", "SLEEP_RESUME"}
  BY DEF Ready, States
<1> QED  BY <1>1, StaysOffList DEF ReadyOK

LEMMA YieldReady ==
  ASSUME StateTypeOK, ReadyOK, NEW t \in Tasks, ~ Ready(t), YieldSystem(t)
  PROVE  ReadyOK'
<1>1. /\ state' = [state EXCEPT ![t] = "RESUME"]
      /\ sch_ready_task_list' = Enqueued(sch_ready_task_list, t)
  BY DEF YieldSystem
<1> QED  BY <1>1, MadeReady DEF ReadyOK

LEMMA SwitchReady ==
  ASSUME StateTypeOK, ReadyOK, SwitchToNext
  PROVE  ReadyOK'
<1>1. CASE sch_ready_task_list = <<>>
  <2>1. UNCHANGED <<state, sch_ready_task_list>>
    BY <1>1 DEF SwitchToNext
  <2> QED  BY <2>1, ReadyListUnchanged DEF ReadyOK
<1>2. CASE sch_ready_task_list # <<>>
  <2>1. PICK t : t = Head(sch_ready_task_list)
    OBVIOUS
  <2>2. /\ state' = [state EXCEPT ![t] = "RUNNING"]
        /\ sch_ready_task_list' = Tail(sch_ready_task_list)
    BY <1>2, <2>1 DEF SwitchToNext
  <2> QED  BY <1>2, <2>1, <2>2, NextTaken DEF ReadyOK
<1> QED  BY <1>1, <1>2

LEMMA WakeReady ==
  ASSUME StateTypeOK, ReadyOK, sleep_process_system_tick
  PROVE  ReadyOK'
<1>1. PICK i, t :
        /\ i \in 1 .. Len(sleep_task_list)
        /\ t = sleep_task_list[i] /\ sleep_walk(i)
        /\ state' = [state EXCEPT ![t] = "SLEEP_RESUME"]
        /\ sch_ready_task_list' = Enqueued(sch_ready_task_list, t)
  BY DEF sleep_process_system_tick
<1>2. t \in Tasks
  BY <1>1, ElementOf DEF StateTypeOK
<1>3. ~ Ready(t)
  BY <1>1 DEF sleep_walk, Ready
<1> QED  BY <1>1, <1>2, <1>3, MadeReady DEF ReadyOK

LEMMA SystemReady ==
  ASSUME Core, ReadyOK, Boot \/ PendSV \/ isr_sysclock_handle
  PROVE  ReadyOK'
<1>0. StateTypeOK /\ SemCurrent
  BY DEF Core, Control
<1>1. CASE Boot
  <2>1. ASSUME NEW t \in Tasks, BootAdd(t)
        PROVE  ReadyOK'
    <3>1. ~ Ready(t) /\ YieldSystem(t)
      BY <2>1 DEF BootAdd, Ready
    <3> QED  BY <1>0, <3>1, YieldReady
  <2>2. CASE run_first_task
    BY <1>0, <2>2, SwitchReady DEF run_first_task
  <2> QED  BY <1>1, <2>1, <2>2 DEF Boot
<1>2. CASE PendSV
  <2>1. CASE SaveCurrent
    <3>1. PICK t : t = current_task
      OBVIOUS
    <3>2. t \in Tasks /\ state[t] \in {"RUNNING", "TO_BE_SUSPENDED", "FINISHED"} /\ ~ Ready(t)
      BY <1>0, <2>1, <3>1 DEF SaveCurrent, SemCurrent, Ready
    <3>3. CASE YieldSystem(current_task)
      BY <1>0, <3>1, <3>2, <3>3, YieldReady
    <3>4. CASE /\ state' = [state EXCEPT ![current_task] = "SUSPENDED"]
               /\ UNCHANGED <<resume_from, sch_ready_task_list>>
      <4>1. "SUSPENDED" \in States \ {"RESUME", "SLEEP_RESUME"}
        BY DEF States
      <4> QED  BY <1>0, <3>1, <3>2, <3>4, <4>1, StaysOffList DEF ReadyOK
    <3>5. CASE UNCHANGED <<state, resume_from, sch_ready_task_list>>
      BY <3>5, ReadyListUnchanged DEF ReadyOK
    <3> QED  BY <2>1, <3>3, <3>4, <3>5 DEF SaveCurrent
  <2>2. CASE sleep_process_system_tick
    BY <1>0, <2>2, WakeReady
  <2>3. CASE LoadNext
    BY <1>0, <2>3, SwitchReady DEF LoadNext
  <2> QED  BY <1>2, <2>1, <2>2, <2>3 DEF PendSV
<1>3. CASE isr_sysclock_handle
  <2>1. UNCHANGED <<state, sch_ready_task_list>>
    BY <1>3 DEF isr_sysclock_handle, lists
  <2> QED  BY <2>1, ReadyListUnchanged DEF ReadyOK
<1> QED  BY <1>1, <1>2, <1>3

LEMMA CallReady ==
  ASSUME Core, ReadyOK, NEW t \in Tasks, KernelCall(t) \/ UserCall(t)
  PROVE  ReadyOK'
<1>0. StateTypeOK /\ Control
  BY DEF Core, Control
<1>1. CASE SleepSuspend(t)
  <2>1. At(t, "sl_suspend") /\ state' = [state EXCEPT ![t] = "TO_BE_SUSPENDED"]
        /\ UNCHANGED sch_ready_task_list
    BY <1>1 DEF SleepSuspend, lists
  <2>2. state[t] = "RUNNING"
    BY <1>0, <2>1, ExecFacts
  <2> QED  BY <1>0, <2>1, <2>2, RunningStaysOff
<1>2. CASE task_entry_return(t)
  <2>1. InUser(t) /\ state' = [state EXCEPT ![t] = "FINISHED"]
        /\ UNCHANGED sch_ready_task_list
    BY <1>2 DEF task_entry_return, lists
  <2>2. state[t] = "RUNNING"
    BY <1>0, <2>1, UserFacts
  <2> QED  BY <1>0, <2>1, <2>2, RunningStaysOff
<1>3. ASSUME NEW new \in Tasks, scheduler_task_add(t, new)
      PROVE  ReadyOK'
  <2>1. ~ Ready(new) /\ YieldSystem(new)
    BY <1>3 DEF scheduler_task_add, Ready
  <2> QED  BY <1>0, <2>1, YieldReady
<1>4. CASE UNCHANGED <<state, sch_ready_task_list>>
  BY <1>4, ReadyListUnchanged DEF ReadyOK
<1>5. \/ SleepSuspend(t) \/ task_entry_return(t)
      \/ \E new \in Tasks : scheduler_task_add(t, new)
      \/ UNCHANGED <<state, sch_ready_task_list>>
  <2>1. CASE KernelCall(t)
    BY <2>1 DEF KernelCall, PEND_SV, RestoreLevel, scheduler_unlock, UnlockYield, SleepAdd,
                SleepInsert, lists
  <2>2. CASE UserCall(t)
    BY <2>2 DEF UserCall, scheduler_lock, UserUnlock, task_yield, sleep_ticks, lists
  <2> QED  BY <2>1, <2>2
<1> QED  BY <1>1, <1>2, <1>3, <1>4, <1>5

LEMMA ConditionReady ==
  ASSUME Core, CallArguments, ReadyOK, NEW t \in Tasks, ConditionCall(t)
  PROVE  ReadyOK'
<1>0. StateTypeOK /\ Control /\ DataTypes
  BY DEF Core, Control
<1>1. CASE SuspendSwitch(t)
  <2>1. At(t, "sc_suspend") /\ state' = [state EXCEPT ![t] = "TO_BE_SUSPENDED"]
        /\ UNCHANGED sch_ready_task_list
    BY <1>1 DEF SuspendSwitch, lists
  <2>2. state[t] = "RUNNING"
    BY <1>0, <2>1, ExecFacts
  <2> QED  BY <1>0, <2>1, <2>2, RunningStaysOff
<1>2. CASE ResumeOne(t)
  <2>1. PICK w \in Tasks : w = Head(suspend_list[resuming[t].cond])
    BY <1>0, <1>2, ArgumentsResuming, ResumedTask DEF DataTypes
  <2>2. \/ state[w] \in {"SUSPENDED", "TO_BE_SUSPENDED"} /\ YieldSystem(w)
        \/ UNCHANGED <<state, sch_ready_task_list>>
    BY <1>2, <2>1 DEF ResumeOne, IsWaiting
  <2>3. state[w] \in {"SUSPENDED", "TO_BE_SUSPENDED"} => ~ Ready(w)
    BY DEF Ready
  <2> QED  BY <1>0, <2>2, <2>3, YieldReady, ReadyListUnchanged DEF ReadyOK
<1>3. CASE ~ SuspendSwitch(t) /\ ~ ResumeOne(t)
  <2>1. UNCHANGED <<state, sch_ready_task_list>>
    BY <1>3 DEF ConditionCall, suspend_timeout_get_min, suspend_do_suspend,
         suspend_condition_add_task, SuspendLock, SuspendSleep, SuspendInsert,
         SuspendWoke, suspend_condition_remove_all, suspend_condition_remove, SuspendReturn,
         ResumeLock, ResumeUnlock, ResumeYield, ResumeReturn, lists
  <2> QED  BY <2>1, ReadyListUnchanged DEF ReadyOK
<1> QED  BY <1>1, <1>2, <1>3

LEMMA ReadyStep ==
  ASSUME Core, ReadyOK, [SemNext]_vars
  PROVE  ReadyOK'
<1>1. CASE UNCHANGED <<state, sch_ready_task_list>>
  BY <1>1, ReadyListUnchanged DEF ReadyOK
<1>2. CASE UNCHANGED vars
  BY <1>1, <1>2 DEF vars, kernelVars, lists
<1>3. CASE SemNext
  <2>1. CallArguments
    BY DEF Core
  <2>2. ASSUME NEW t \in Tasks, SemaphoreCall(t) \/ SemaphoreUse(t)
        PROVE  ReadyOK'
    <3>1. UNCHANGED <<state, sch_ready_task_list>>
      BY <2>2 DEF SemaphoreCall, ObtainTest, ObtainTake, ReleaseIncrement, DestroyClear,
            SemaphoreUse, semaphore_obtain, semaphore_release, semaphore_destroy, EnterLocked,
            lists
    <3> QED  BY <1>1, <3>1
  <2> QED  BY <1>3, <2>1, <2>2, SystemReady, CallReady, ConditionReady
           DEF SemNext, CallStep, SemBoot, SemPendSV, SemTick, ConditionTick
<1> QED  BY <1>2, <1>3

(* ReadyListExact: the ready list holds exactly the ready tasks, each      *)
(* once, while tasks also wait for semaphores and are resumed from them    *)
(* (scheduler_task_yield in suspend_condition and resume_condition).       *)
THEOREM SemReadyList == SemSpec => []ReadyListExact
<1>1. SemInit => Core /\ ReadyOK
  <2> SUFFICES ASSUME SemInit
               PROVE  Core /\ ReadyOK
    OBVIOUS
  <2>1. Init
    BY DEF SemInit
  <2> QED  BY <2>1, CoreInit, InitInvariant DEF ReadyOK, KernelInvariant
<1>2. Core /\ ReadyOK /\ [SemNext]_vars => (Core /\ ReadyOK)'
  BY CoreStep, ReadyStep
<1>3. ReadyOK => ReadyListExact
  BY DEF ReadyOK
<1> QED  BY <1>1, <1>2, <1>3, PTL DEF SemSpec

----------------------------------------------------------------------------
(* The course of a wait.                                                   *)

(* The step of a task that runs: it moves on, and may leave the running    *)
(* state at "pend"; a suspended task or one that was never started becomes *)
(* ready.                                                                  *)
LEMMA TaskWaits ==
  ASSUME Control, WaitsKept, NEW t \in Tasks, mode = "task", current_task = t, ~ pend_sv,
         state[t] = "RUNNING",
         \A u \in Tasks : u # t =>
           /\ Point(u, 1)' = Point(u, 1) /\ Point(u, 2)' = Point(u, 2)
           /\ Point(u, 3)' = Point(u, 3)
           /\ \/ state'[u] = state[u]
              \/ state'[u] = "RESUME" /\ state[u] # "TO_BE_SUSPENDED",
         current_task' = current_task, pend_sv' = pend_sv, mode' \in {"task", "assert"},
         Point(t, 1)' = "pend" /\ Calling(t, "sc_woke")' => state'[t] = "TO_BE_SUSPENDED",
         \/ state'[t] = "RUNNING"
         \/ state'[t] = "TO_BE_SUSPENDED" /\ Point(t, 1)' = "pend"
         \/ state'[t] = "FINISHED" /\ Point(t, 2)' = "user"
  PROVE  WaitsKept'
<1>1. WaitForm(t)'
  BY DEF WaitForm, Suspended
<1>2. ASSUME NEW u \in Tasks, u # t
      PROVE  WaitForm(u)'
  <2>1. Calling(u, "sc_woke")' <=> Calling(u, "sc_woke")
    BY <1>2, SamePoints
  <2>2. WaitForm(u)
    BY DEF WaitsKept
  <2>3. state[u] # "TO_BE_SUSPENDED"
    BY <1>2 DEF Control, SemCurrent
  <2> QED  BY <1>2, <2>1, <2>2, <2>3 DEF WaitForm, Suspended
<1> QED  BY <1>1, <1>2 DEF WaitsKept

(* A task is in sc_woke, or right above it in the switch.                  *)
LEMMA WokeStack ==
  ASSUME Control, NEW t \in Tasks, Calling(t, "sc_woke")
  PROVE  /\ \/ Point(t, 1) = "sc_woke" /\ Point(t, 2) = "so_take" /\ Point(t, 3) = "user"
            \/ Point(t, 1) \in {"pend", "back"} /\ Point(t, 2) = "sc_woke" /\ Point(t, 3) = "so_take"
         /\ InSuspend(t)
<1>1. StackForm(Point(t, 1), Point(t, 2), Point(t, 3))
  BY TaskStack DEF Control
<1>2. Point(t, 1) = "sc_woke" \/ Point(t, 2) = "sc_woke" \/ Point(t, 3) = "sc_woke"
  BY CallingIs
<1>3. \/ Point(t, 1) = "sc_woke" /\ Point(t, 2) = "so_take" /\ Point(t, 3) = "user"
      \/ Point(t, 1) \in {"pend", "back"} /\ Point(t, 2) = "sc_woke" /\ Point(t, 3) = "so_take"
  BY <1>1, <1>2 DEF StackForm, Labels, SemaphoreLabels, ResumeLabels, SuspendLabels,
                    ConditionLabels
<1> QED  BY <1>3, CallingIs

LEMMA WokeLocked ==
  ASSUME Control, NEW t \in Tasks, Calling(t, "sc_woke")
  PROVE  lock_count[t] # 0
<1>1. Point(t, 1) = "sc_woke" \/ Point(t, 2) = "sc_woke"
  BY WokeStack
<1>2. Owes("sc_woke") = 1
  BY DEF Owes, Owing
<1> QED  BY <1>1, <1>2, LockFacts

LEMMA SystemWaits ==
  ASSUME Core, ReadyOK, WaitsKept, Boot \/ PendSV \/ isr_sysclock_handle
  PROVE  WaitsKept'
<1>0. Control /\ StateTypeOK /\ SemCurrent
  BY DEF Core, Control
<1>1. /\ UNCHANGED pc
      /\ \A u \in Tasks : \A i \in 1 .. 3 : Point(u, i)' = Point(u, i)
      /\ \A u \in Tasks : Calling(u, "sc_woke")' <=> Calling(u, "sc_woke")
  <2>1. UNCHANGED pc
    BY DEF Boot, BootAdd, run_first_task, PendSV, SaveCurrent, sleep_process_system_tick,
           LoadNext, isr_sysclock_handle
  <2>2. \A u \in Tasks : \A i \in 1 .. 3 : Point(u, i)' = Point(u, i)
    BY <2>1 DEF Point
  <2> QED  BY <2>1, <2>2 DEF Calling
<1>2. ASSUME NEW t \in Tasks, NEW st, state' = [state EXCEPT ![t] = st],
             st \in {"RESUME", "SLEEP_RESUME", "RUNNING", "SUSPENDED"},
             st = "SUSPENDED" => Suspended(t),
             Calling(t, "sc_woke") => state[t] # "TO_BE_SUSPENDED" \/ Point(t, 1) # "pend",
             ~ pend_sv'
      PROVE  WaitsKept'
  <2>1. ASSUME NEW u \in Tasks
        PROVE  WaitForm(u)'
    <3>1. WaitForm(u)
      BY DEF WaitsKept
    <3>2. IF u = t THEN state'[u] = st ELSE state'[u] = state[u]
      BY <1>0, <1>2 DEF StateTypeOK
    <3>3. Point(u, 1)' = Point(u, 1) /\ Point(u, 2)' = Point(u, 2)
      BY <1>1
    <3>4. CASE u = t
      BY <1>1, <1>2, <3>1, <3>2, <3>3, <3>4 DEF WaitForm, Suspended
    <3>5. CASE u # t
      BY <1>1, <1>2, <3>1, <3>2, <3>3, <3>5 DEF WaitForm, Suspended
    <3> QED  BY <3>4, <3>5
  <2> QED  BY <1>2, <2>1 DEF WaitsKept
<1>3. ASSUME mode \in {"boot", "pendsv"}, SwitchToNext, UNCHANGED pend_sv
      PROVE  WaitsKept'
  <2>0. ~ pend_sv /\ ~ pend_sv'
    BY <1>3 DEF WaitsKept
  <2>1. CASE sch_ready_task_list = <<>>
    <3>1. UNCHANGED state
      BY <1>3, <2>1 DEF SwitchToNext
    <3>2. ASSUME NEW u \in Tasks
          PROVE  WaitForm(u)'
      <4>1. WaitForm(u) /\ Point(u, 1)' = Point(u, 1) /\ Point(u, 2)' = Point(u, 2)
        BY <1>1 DEF WaitsKept
      <4> QED  BY <1>1, <2>0, <3>1, <4>1 DEF WaitForm, Suspended
    <3> QED  BY <2>0, <3>2 DEF WaitsKept
  <2>2. CASE sch_ready_task_list # <<>>
    <3>1. PICK t : t = Head(sch_ready_task_list)
      OBVIOUS
    <3>2. state' = [state EXCEPT ![t] = "RUNNING"]
      BY <1>3, <2>2, <3>1 DEF SwitchToNext
    <3>3. t \in Tasks /\ Ready(t)
      <4>1. sch_ready_task_list \in Seq(Tasks) /\ sch_ready_task_list[1] = t
        BY <1>0, <2>2, <3>1 DEF StateTypeOK
      <4>2. t \in Tasks /\ t \in ToSet(sch_ready_task_list)
        BY <2>2, <4>1, ToSetMember, ElementOf
      <4> QED  BY <4>2 DEF ReadyOK, ReadyListExact
    <3>4. state[t] # "TO_BE_SUSPENDED"
      BY <3>3 DEF Ready
    <3> QED  BY <1>2, <2>0, <3>2, <3>3, <3>4
  <2> QED  BY <2>1, <2>2
<1>4. CASE Boot
  <2>1. ASSUME NEW t \in Tasks, BootAdd(t)
        PROVE  WaitsKept'
    <3>1. state' = [state EXCEPT ![t] = "RESUME"] /\ state[t] = "FINISHED" /\ ~ pend_sv'
      BY <2>1 DEF BootAdd, YieldSystem, cpuVars, WaitsKept
    <3> QED  BY <1>2, <3>1
  <2>2. CASE run_first_task
    BY <1>3, <2>2 DEF run_first_task
  <2> QED  BY <1>4, <2>1, <2>2 DEF Boot
<1>5. CASE SaveCurrent
  <2>1. PICK t : t = current_task
    OBVIOUS
  <2>2. /\ t \in Tasks /\ state[t] \in {"RUNNING", "TO_BE_SUSPENDED", "FINISHED"}
        /\ mode = "task" /\ pend_sv /\ ~ pend_sv'
    BY <1>0, <1>5, <2>1 DEF SaveCurrent, SemCurrent
  <2>3. Calling(t, "sc_woke") => Point(t, 1) = "back"
    <3>1. lock_count[t] = 0 \/ Point(t, 1) = "back"
      BY <1>0, <2>1, <2>2 DEF Control, LockKeepsCPU
    <3> QED  BY <1>0, <2>2, <3>1, WokeLocked
  <2>4. CASE YieldSystem(t)
    <3>1. state' = [state EXCEPT ![t] = "RESUME"]
      BY <2>4 DEF YieldSystem
    <3> QED  BY <1>2, <2>2, <2>3, <3>1
  <2>5. CASE state[t] = "TO_BE_SUSPENDED" /\ state' = [state EXCEPT ![t] = "SUSPENDED"]
    BY <1>2, <2>2, <2>3, <2>5 DEF Suspended
  <2>6. CASE UNCHANGED state
    <3>1. ASSUME NEW u \in Tasks
          PROVE  WaitForm(u)'
      <4>1. WaitForm(u) /\ Point(u, 1)' = Point(u, 1) /\ Point(u, 2)' = Point(u, 2)
        BY <1>1 DEF WaitsKept
      <4> QED  BY <1>1, <2>2, <2>6, <4>1 DEF WaitForm, Suspended
    <3> QED  BY <2>2, <3>1 DEF WaitsKept
  <2> QED  BY <1>5, <2>1, <2>4, <2>5, <2>6 DEF SaveCurrent
<1>6. CASE sleep_process_system_tick
  <2>1. PICK i, t :
          /\ i \in 1 .. Len(sleep_task_list)
          /\ t = sleep_task_list[i] /\ sleep_walk(i)
          /\ state' = [state EXCEPT ![t] = "SLEEP_RESUME"]
    BY <1>6 DEF sleep_process_system_tick
  <2>2. t \in Tasks /\ state[t] = "SUSPENDED"
    BY <1>0, <2>1, ElementOf DEF StateTypeOK, sleep_walk
  <2>3. ~ pend_sv'
    BY <1>6 DEF sleep_process_system_tick, cpuVars, WaitsKept
  <2> QED  BY <1>2, <2>1, <2>2, <2>3
<1>7. CASE LoadNext
  BY <1>3, <1>7 DEF LoadNext
<1>8. CASE isr_sysclock_handle
  <2>1. /\ UNCHANGED <<state, current_task>> /\ mode = "task" /\ mode' \in {"task", "assert"}
    BY <1>8 DEF isr_sysclock_handle, Preempt, Halt
  <2>2. pend_sv' => pend_sv \/ lock_count[current_task] = 0
    BY <1>8 DEF isr_sysclock_handle, Preempt
  <2>3. ASSUME NEW u \in Tasks
        PROVE  WaitForm(u)'
    <3>1. WaitForm(u) /\ Point(u, 1)' = Point(u, 1) /\ Point(u, 2)' = Point(u, 2)
      BY <1>1 DEF WaitsKept
    <3>2. Calling(u, "sc_woke") => lock_count[u] # 0
      BY <1>0, WokeLocked
    <3> QED  BY <1>1, <2>1, <2>2, <3>1, <3>2 DEF WaitForm, Suspended
  <2> QED  BY <2>1, <2>3 DEF WaitsKept
<1> QED  BY <1>4, <1>5, <1>6, <1>7, <1>8 DEF PendSV

(* A step of a running task that changes its stack and no task's state.    *)
LEMMA StepWaits ==
  ASSUME Control, WaitsKept, NEW t \in Tasks, mode = "task", current_task = t, ~ pend_sv,
         state[t] = "RUNNING", UNCHANGED <<state, current_task, pend_sv>>,
         mode' \in {"task", "assert"},
         \/ UNCHANGED pc
         \/ \E a, b, c : NewStack(t, a, b, c) /\ (a = "pend" => b # "sc_woke" /\ c # "sc_woke")
  PROVE  WaitsKept'
<1>1. CASE UNCHANGED pc
  <2>1. \A u \in Tasks : /\ Point(u, 1)' = Point(u, 1) /\ Point(u, 2)' = Point(u, 2)
                         /\ Point(u, 3)' = Point(u, 3)
    BY <1>1 DEF Point
  <2>2. Calling(t, "sc_woke")' <=> Calling(t, "sc_woke")
    BY <2>1, SamePoints
  <2>3. Point(t, 1)' = "pend" /\ Calling(t, "sc_woke")' => state'[t] = "TO_BE_SUSPENDED"
    BY <2>1, <2>2 DEF WaitsKept, WaitForm
  <2> QED  BY <2>1, <2>3, TaskWaits
<1>2. ASSUME NEW a, NEW b, NEW c, NewStack(t, a, b, c), a = "pend" => b # "sc_woke" /\ c # "sc_woke"
      PROVE  WaitsKept'
  <2>1. ~ (Point(t, 1)' = "pend" /\ Calling(t, "sc_woke")')
    BY <1>2, NewCalling
  <2> QED  BY <1>2, <2>1, TaskWaits DEF NewStack
<1> QED  BY <1>1, <1>2

LEMMA KernelWaits ==
  ASSUME Control, WaitsKept, NEW t \in Tasks, KernelCall(t) \/ UserCall(t)
  PROVE  WaitsKept'
<1>1. ASSUME NEW label, At(t, label), label # "pend",
             UNCHANGED <<state, current_task, pend_sv>>, mode' \in {mode, "assert"},
             \/ UNCHANGED pc
             \/ \E a, b, c : NewStack(t, a, b, c) /\ (a = "pend" => b # "sc_woke" /\ c # "sc_woke")
      PROVE  WaitsKept'
  BY <1>1, ExecFacts, StepWaits
<1>2. CASE PEND_SV(t)
  <2>1. At(t, "pend") /\ UNCHANGED <<state, current_task, mode>>
    BY <1>2 DEF PEND_SV
  <2>2. NewStack(t, "back", Point(t, 2), Point(t, 3))
    BY <1>2, PendControl
  <2>3. /\ mode = "task" /\ current_task = t /\ Point(t, 1) = "pend"
        /\ StackForm("pend", Point(t, 2), Point(t, 3))
    BY <2>1, ExecFacts
  <2>4. WaitForm(t)'
    <3>1. WaitForm(t)
      BY DEF WaitsKept
    <3>2. Calling(t, "sc_woke")' => Calling(t, "sc_woke")
      BY <2>2, NewCalling, CallingIs
    <3>3. Point(t, 1)' = "back" /\ Point(t, 2)' = Point(t, 2)
      BY <2>2 DEF NewStack
    <3> QED  BY <2>1, <2>3, <3>1, <3>2, <3>3 DEF WaitForm, Suspended
  <2>5. ASSUME NEW u \in Tasks, u # t
        PROVE  WaitForm(u)'
    <3>1. Point(u, 1)' = Point(u, 1) /\ Point(u, 2)' = Point(u, 2) /\ Point(u, 3)' = Point(u, 3)
      BY <2>2, <2>5 DEF NewStack
    <3>2. Calling(u, "sc_woke")' <=> Calling(u, "sc_woke")
      BY <3>1, SamePoints
    <3> QED  BY <2>1, <2>3, <2>5, <3>1, <3>2 DEF WaitsKept, WaitForm, Suspended
  <2> QED  BY <2>1, <2>3, <2>4, <2>5 DEF WaitsKept
<1>3. CASE RestoreLevel(t)
  <2>1. At(t, "back") /\ UNCHANGED <<state, current_task, pend_sv, mode>>
    BY <1>3 DEF RestoreLevel
  <2>2. StackForm("back", Point(t, 2), Point(t, 3))
    BY <2>1, ExecFacts
  <2>3. Point(t, 2) # "pend"
    BY <2>2 DEF StackForm, SuspendLabels, ConditionLabels, ResumeLabels
  <2> QED  BY <1>1, <1>3, <2>1, <2>3, RestoreControl
<1>4. CASE scheduler_unlock(t)
  <2>1. At(t, "unlock") /\ UNCHANGED <<state, current_task, pend_sv>> /\ mode' \in {mode, "assert"}
    BY <1>4 DEF scheduler_unlock, Halt
  <2> QED  BY <1>1, <1>4, <2>1, UnlockControl
<1>5. CASE UnlockYield(t)
  <2>1. At(t, "drift") /\ UNCHANGED <<state, current_task, pend_sv, mode>>
    BY <1>5 DEF UnlockYield
  <2>2. StackForm("drift", Point(t, 2), Point(t, 3))
    BY <2>1, ExecFacts
  <2>3. Point(t, 2) \notin {"pend", "sc_woke"} /\ Point(t, 3) # "sc_woke"
    BY <2>2 DEF StackForm, SuspendLabels, ConditionLabels, ResumeLabels
  <2> QED  BY <1>1, <1>5, <2>1, <2>3, UnlockYieldControl
<1>6. CASE SleepAdd(t) \/ SleepInsert(t)
  <2>1. PICK label \in {"sl_add", "sl_insert"} : At(t, label)
    BY <1>6 DEF SleepAdd, SleepInsert
  <2>2. UNCHANGED <<state, current_task, pend_sv, mode>>
    BY <1>6 DEF SleepAdd, SleepInsert, cpuVars
  <2>3. PICK a \in {"sl_insert", "sl_suspend"} : NewStack(t, a, Point(t, 2), Point(t, 3))
    BY <1>6, SleepStepControl
  <2> QED  BY <1>1, <2>1, <2>2, <2>3
<1>7. CASE SleepSuspend(t)
  <2>1. At(t, "sl_suspend") /\ state' = [state EXCEPT ![t] = "TO_BE_SUSPENDED"]
        /\ UNCHANGED <<current_task, pend_sv, mode>>
    BY <1>7 DEF SleepSuspend
  <2>2. NewStack(t, "pend", "unlock", "user")
    BY <1>7, SleepSuspendControl
  <2>3. /\ mode = "task" /\ current_task = t /\ ~ pend_sv /\ state[t] = "RUNNING"
        /\ StateTypeOK
    BY <2>1, ExecFacts
  <2>4. state'[t] = "TO_BE_SUSPENDED" /\ \A u \in Tasks : u # t => state'[u] = state[u]
    BY <2>1, <2>3 DEF StateTypeOK
  <2> QED  BY <2>1, <2>2, <2>3, <2>4, TaskWaits DEF NewStack
<1>8. ASSUME InUser(t), UNCHANGED <<state, current_task, pend_sv>>, mode' \in {mode, "assert"},
             UNCHANGED pc \/ \E a : NewStack(t, a, "user", "user")
      PROVE  WaitsKept'
  <2>1. At(t, "user")
    BY <1>8 DEF InUser
  <2> QED  BY <1>1, <1>8, <2>1
<1>9. CASE scheduler_lock(t)
  BY <1>8, <1>9, LockControl DEF scheduler_lock, Halt
<1>10. CASE UserUnlock(t)
  BY <1>8, <1>10, UserUnlockControl DEF UserUnlock, cpuVars
<1>11. CASE task_yield(t)
  BY <1>8, <1>11, YieldControl DEF task_yield
<1>12. ASSUME NEW n \in Delays[t], sleep_ticks(t, n)
       PROVE  WaitsKept'
  BY <1>8, <1>12, SleepTicksControl DEF sleep_ticks, Halt
<1>13. CASE task_entry_return(t)
  <2>1. InUser(t) /\ state' = [state EXCEPT ![t] = "FINISHED"]
        /\ UNCHANGED <<current_task, pend_sv, mode>>
    BY <1>13 DEF task_entry_return
  <2>2. NewStack(t, "pend", "user", "user")
    BY <1>13, EntryReturnControl
  <2>3. /\ mode = "task" /\ current_task = t /\ ~ pend_sv /\ state[t] = "RUNNING"
        /\ StateTypeOK
    BY <2>1, UserFacts
  <2>4. state'[t] = "FINISHED" /\ \A u \in Tasks : u # t => state'[u] = state[u]
    BY <2>1, <2>3 DEF StateTypeOK
  <2>5. ~ Calling(t, "sc_woke")'
    BY <2>2, NewCalling
  <2> QED  BY <2>1, <2>2, <2>3, <2>4, <2>5, TaskWaits DEF NewStack
<1>14. ASSUME NEW new \in Tasks, scheduler_task_add(t, new)
       PROVE  WaitsKept'
  <2>1. InUser(t) /\ YieldSystem(new) /\ state[new] = "FINISHED" /\ UNCHANGED pc
        /\ UNCHANGED <<current_task, pend_sv, mode>>
    BY <1>14 DEF scheduler_task_add, cpuVars
  <2>2. /\ mode = "task" /\ current_task = t /\ ~ pend_sv /\ state[t] = "RUNNING"
        /\ StateTypeOK /\ Point(t, 1) = "user"
    BY <2>1, UserFacts
  <2>3. \A u \in Tasks : /\ Point(u, 1)' = Point(u, 1) /\ Point(u, 2)' = Point(u, 2)
                         /\ Point(u, 3)' = Point(u, 3)
    BY <2>1 DEF Point
  <2>4. \A u \in Tasks : u # new => state'[u] = state[u]
    BY <2>1, <2>2, YieldSystemTypes
  <2>5. state'[new] = "RESUME"
    BY <2>1, <2>2, YieldSystemTypes
  <2> QED  BY <2>1, <2>2, <2>3, <2>4, <2>5, TaskWaits
<1>15. CASE KernelCall(t)
  BY <1>2, <1>3, <1>4, <1>5, <1>6, <1>7, <1>15 DEF KernelCall
<1>16. CASE UserCall(t)
  BY <1>9, <1>10, <1>11, <1>12, <1>13, <1>14, <1>16 DEF UserCall
<1> QED  BY <1>15, <1>16

LEMMA ConditionWaits ==
  ASSUME Core, CallArguments, WaitsKept, NEW t \in Tasks, ConditionCall(t)
  PROVE  WaitsKept'
<1>0. Control /\ DataTypes
  BY DEF Core
<1>1. CASE SuspendSwitch(t)
  <2>1. At(t, "sc_suspend") /\ state' = [state EXCEPT ![t] = "TO_BE_SUSPENDED"]
        /\ UNCHANGED <<current_task, pend_sv, mode>>
    BY <1>1 DEF SuspendSwitch
  <2>2. NewStack(t, "pend", "sc_woke", "so_take")
    BY <1>0, <1>1, SuspendSwitchControl
  <2>3. /\ mode = "task" /\ current_task = t /\ ~ pend_sv /\ state[t] = "RUNNING"
        /\ StateTypeOK
    BY <1>0, <2>1, ExecFacts
  <2>4. state'[t] = "TO_BE_SUSPENDED" /\ \A u \in Tasks : u # t => state'[u] = state[u]
    BY <2>1, <2>3 DEF StateTypeOK
  <2> QED  BY <1>0, <2>1, <2>2, <2>3, <2>4, TaskWaits DEF NewStack
<1>2. CASE ResumeOne(t)
  <2>1. PICK w \in Tasks : w = Head(suspend_list[resuming[t].cond])
    BY <1>0, <1>2, ArgumentsResuming, ResumedTask DEF DataTypes
  <2>2. /\ At(t, "rc_loop") /\ UNCHANGED <<pc, current_task, pend_sv, mode>>
        /\ \/ state[w] \in {"SUSPENDED", "TO_BE_SUSPENDED"} /\ YieldSystem(w)
           \/ UNCHANGED state
    BY <1>2, <2>1 DEF ResumeOne, IsWaiting, cpuVars
  <2>3. /\ mode = "task" /\ current_task = t /\ ~ pend_sv /\ state[t] = "RUNNING"
        /\ StateTypeOK /\ Point(t, 1) = "rc_loop"
    BY <1>0, <2>2, ExecFacts
  <2>4. \A u \in Tasks : /\ Point(u, 1)' = Point(u, 1) /\ Point(u, 2)' = Point(u, 2)
                         /\ Point(u, 3)' = Point(u, 3)
    BY <2>2 DEF Point
  <2>5. CASE UNCHANGED state
    BY <1>0, <2>2, <2>3, <2>5, StepWaits
  <2>6. CASE state[w] \in {"SUSPENDED", "TO_BE_SUSPENDED"} /\ YieldSystem(w)
    <3>1. state[w] # "TO_BE_SUSPENDED" /\ w # t
      BY <1>0, <2>3, <2>6 DEF Control, SemCurrent
    <3>2. state'[w] = "RESUME" /\ \A u \in Tasks : u # w => state'[u] = state[u]
      BY <2>3, <2>6, YieldSystemTypes
    <3> QED  BY <1>0, <2>2, <2>3, <2>4, <3>1, <3>2, TaskWaits
  <2> QED  BY <2>2, <2>5, <2>6
<1>3. CASE ~ SuspendSwitch(t) /\ ~ ResumeOne(t)
  <2>1. PICK label \in SuspendLabels \cup ResumeLabels : At(t, label)
    BY <1>3 DEF ConditionCall, suspend_timeout_get_min, suspend_do_suspend,
         suspend_condition_add_task, SuspendLock, SuspendSleep, SuspendInsert, SuspendWoke,
         suspend_condition_remove_all, suspend_condition_remove, SuspendReturn, ResumeLock,
         ResumeUnlock, ResumeYield, ResumeReturn, SuspendLabels, ConditionLabels, ResumeLabels
  <2>2. label # "pend"
    BY DEF SuspendLabels, ConditionLabels, ResumeLabels
  <2>3. /\ mode = "task" /\ current_task = t /\ ~ pend_sv /\ state[t] = "RUNNING"
    BY <1>0, <2>1, <2>2, ExecFacts
  <2>4. UNCHANGED <<state, current_task, pend_sv>> /\ mode' \in {mode, "assert"}
    BY <1>3 DEF ConditionCall, suspend_timeout_get_min, suspend_do_suspend,
         suspend_condition_add_task, SuspendLock, SuspendSleep, SuspendInsert, SuspendWoke,
         suspend_condition_remove_all, suspend_condition_remove, SuspendReturn, ResumeLock,
         ResumeUnlock, ResumeYield, ResumeReturn, cpuVars, Halt
  <2>5. \/ UNCHANGED pc
        \/ \E a, b, c : NewStack(t, a, b, c) /\ (a = "pend" => b # "sc_woke" /\ c # "sc_woke")
    <3>1. ASSUME NEW a, NEW b, NEW c, NewStack(t, a, b, c), a # "pend"
          PROVE  \E x, y, z : NewStack(t, x, y, z) /\ (x = "pend" => y # "sc_woke" /\ z # "sc_woke")
      BY <3>1
    <3>2. CASE SuspendReturn(t)
      BY <1>0, <3>1, <3>2, ReturnControl
    <3>3. CASE \/ suspend_timeout_get_min(t) \/ suspend_do_suspend(t)
               \/ suspend_condition_add_task(t) \/ SuspendLock(t)
               \/ SuspendSleep(t) \/ SuspendInsert(t) \/ SuspendWoke(t)
               \/ suspend_condition_remove_all(t) \/ suspend_condition_remove(t)
      <4>1. UNCHANGED pc \/ \E a : a # "pend" /\ \E b, c : NewStack(t, a, b, c)
        <5>1. CASE SuspendSleep(t)
          <6>1. timeout \in [Tasks -> 0 .. MAX_WAIT]
            BY <1>0 DEF DataTypes
          <6>2. PICK a \in {"sc_insert", "sc_suspend"} : NewStack(t, a, "so_take", "user")
            BY <1>0, <5>1, <6>1, SuspendSleepControl
          <6> QED  BY <6>2
        <5>2. CASE ~ SuspendSleep(t)
          BY <1>0, <3>3, <5>2, GetMinControl, DoSuspendControl, AddTaskControl, SuspendLockControl,
             SuspendInsertControl, WokeControl, RemoveAllControl, RemoveControl
        <5> QED  BY <5>1, <5>2
      <4> QED  BY <3>1, <4>1
    <3>4. CASE ResumeLock(t) \/ ResumeUnlock(t)
      BY <1>0, <3>1, <3>4, ResumeLockControl, ResumeUnlockControl
    <3>5. ASSUME ResumeYield(t) \/ ResumeReturn(t)
          PROVE  Point(t, 2) \in {"unlock", "sd_clear"}
      BY <1>0, <3>5, ResumePoint DEF ResumeYield, ResumeReturn, ResumeLabels
    <3>6. CASE ResumeYield(t)
      BY <1>0, <3>5, <3>6, ResumeYieldControl
    <3>7. CASE ResumeReturn(t)
      BY <1>0, <3>1, <3>5, <3>7, ResumeReturnControl
    <3> QED  BY <1>3, <3>2, <3>3, <3>4, <3>6, <3>7 DEF ConditionCall, ResumeOne, SuspendSwitch
  <2> QED  BY <1>0, <2>3, <2>4, <2>5, StepWaits
<1> QED  BY <1>1, <1>2, <1>3

LEMMA SemaphoreWaits ==
  ASSUME Control, WaitsKept, NEW t \in Tasks, SemaphoreCall(t) \/ SemaphoreUse(t)
  PROVE  WaitsKept'
<1>1. ASSUME NEW label, At(t, label), label # "pend",
             UNCHANGED <<state, current_task, pend_sv>>, mode' \in {mode, "assert"},
             UNCHANGED pc \/ \E a, b, c : NewStack(t, a, b, c) /\ a # "pend"
      PROVE  WaitsKept'
  BY <1>1, ExecFacts, StepWaits
<1>2. CASE ObtainTest(t)
  BY <1>1, <1>2, ObtainTestControl DEF ObtainTest, cpuVars
<1>3. CASE ObtainTake(t)
  <2>1. At(t, "so_take") /\ UNCHANGED <<state, current_task, pend_sv>> /\ mode' \in {mode, "assert"}
    BY <1>3 DEF ObtainTake, Halt
  <2>2. UNCHANGED pc \/ NewStack(t, "unlock", "user", "user")
    BY <1>3, ObtainTakeControl
  <2> QED  BY <1>1, <2>1, <2>2
<1>4. CASE ReleaseIncrement(t)
  <2>1. At(t, "sr_inc") /\ UNCHANGED <<state, current_task, pend_sv, mode>>
    BY <1>4 DEF ReleaseIncrement, cpuVars
  <2> QED  BY <1>1, <1>4, <2>1, IncrementControl
<1>5. CASE DestroyClear(t)
  <2>1. At(t, "sd_clear") /\ UNCHANGED <<state, current_task, pend_sv, mode>>
    BY <1>5 DEF DestroyClear
  <2> QED  BY <1>1, <1>5, <2>1, ClearControl
<1>6. ASSUME NEW s, NEW label \in {"so_test", "sr_inc"}, EnterLocked(t, s, label)
      PROVE  WaitsKept'
  BY <1>1, <1>6, EnterControl DEF EnterLocked, Halt, InUser
<1>7. ASSUME NEW s \in Conditions, NEW w \in Waits, semaphore_obtain(t, s, w)
      PROVE  WaitsKept'
  BY <1>6, <1>7 DEF semaphore_obtain
<1>8. ASSUME NEW s \in Conditions, semaphore_release(t, s)
      PROVE  WaitsKept'
  <2>1. CASE EnterLocked(t, s, "sr_inc")
    BY <1>6, <2>1
  <2>2. CASE /\ InUser(t) /\ Halt
             /\ UNCHANGED <<state, current_task, pend_sv, pc>>
    BY <1>1, <2>2 DEF InUser, Halt
  <2> QED  BY <1>8, <2>1, <2>2 DEF semaphore_release
<1>9. ASSUME NEW s \in Conditions, semaphore_destroy(t, s)
      PROVE  WaitsKept'
  <2>1. At(t, "user") /\ UNCHANGED <<state, current_task, pend_sv, mode>>
    BY <1>9 DEF semaphore_destroy, InUser
  <2> QED  BY <1>1, <1>9, <2>1, DestroyControl
<1> QED  BY <1>2, <1>3, <1>4, <1>5, <1>7, <1>8, <1>9 DEF SemaphoreCall, SemaphoreUse

LEMMA WaitsStep ==
  ASSUME Core, ReadyOK, WaitsKept, [SemNext]_vars
  PROVE  WaitsKept'
<1>0. Control
  BY DEF Core
<1>1. CASE UNCHANGED vars
  <2>1. UNCHANGED <<pc, state, mode, current_task, pend_sv>>
    BY <1>1 DEF vars, kernelVars, cpuVars
  <2>2. \A u \in Tasks : /\ Point(u, 1)' = Point(u, 1) /\ Point(u, 2)' = Point(u, 2)
                         /\ Point(u, 3)' = Point(u, 3)
    BY <2>1 DEF Point
  <2>3. \A u \in Tasks : Calling(u, "sc_woke")' <=> Calling(u, "sc_woke")
    BY <2>2, SamePoints
  <2> QED  BY <2>1, <2>2, <2>3 DEF WaitsKept, WaitForm, Suspended
<1>2. CASE SemNext
  <2>1. CallArguments
    BY DEF Core
  <2> QED  BY <1>0, <1>2, <2>1, SystemWaits, KernelWaits, ConditionWaits, SemaphoreWaits
           DEF SemNext, CallStep, SemBoot, SemPendSV, SemTick, ConditionTick
<1> QED  BY <1>1, <1>2

PhaseKept(u) ==
  /\ Queued(u)' <=> Queued(u)
  /\ Waiting(u)' <=> Waiting(u)
  /\ Resumed(u)' <=> Resumed(u)
  /\ TimedOut(u)' <=> TimedOut(u)

NextPhase(u, phase) ==
  /\ Queued(u)' <=> phase = "queued"
  /\ Waiting(u)' <=> phase = "waiting"
  /\ Resumed(u)' <=> phase = "resumed"
  /\ TimedOut(u)' <=> phase = "timed out"

NoPhase(u) == ~ Queued(u) /\ ~ Waiting(u) /\ ~ Resumed(u) /\ ~ TimedOut(u)

LEMMA PhaseSame ==
  ASSUME NEW u, CallsKept(u),
         Calling(u, "sc_woke") =>
           (Suspended(u)' <=> Suspended(u)) /\ resume_from'[u] = resume_from[u],
         from'[u] = from[u]
  PROVE  PhaseKept(u)
<1>1. /\ Queued(u)' <=> Queued(u)
      /\ Calling(u, "sc_woke")' <=> Calling(u, "sc_woke")
      /\ Calling(u, "sc_done")' <=> Calling(u, "sc_done")
  BY DEF CallsKept
<1> QED  BY <1>1 DEF PhaseKept, Waiting, Resumed, TimedOut, Ended

LEMMA PhaseNone ==
  ASSUME NEW t, NEW a, NEW b, NEW c, NewStack(t, a, b, c),
         a \notin {"sc_woke", "sc_done", "sc_lock", "sc_sleep", "sc_insert", "sc_suspend"},
         b \notin {"sc_woke", "sc_done"}, c \notin {"sc_woke", "sc_done"}
  PROVE  NextPhase(t, "none") /\ ~ Calling(t, "sc_woke")'
<1>1. ~ Calling(t, "sc_woke")' /\ ~ Calling(t, "sc_done")' /\ ~ Queued(t)'
  BY NewCalling DEF Queued
<1> QED  BY <1>1 DEF NextPhase, Waiting, Resumed, TimedOut, Ended

LEMMA PhaseAt ==
  ASSUME NEW t,
         Point(t, 1) \notin {"sc_woke", "sc_done", "sc_lock", "sc_sleep", "sc_insert", "sc_suspend"},
         Point(t, 2) \notin {"sc_woke", "sc_done"}, Point(t, 3) \notin {"sc_woke", "sc_done"}
  PROVE  NoPhase(t) /\ ~ Calling(t, "sc_woke")
<1>1. ~ Calling(t, "sc_woke") /\ ~ Calling(t, "sc_done") /\ ~ Queued(t)
  BY CallingIs DEF Queued
<1> QED  BY <1>1 DEF NoPhase, Waiting, Resumed, TimedOut, Ended

LEMMA PhaseStaysNone ==
  ASSUME NEW t, NoPhase(t), NextPhase(t, "none")
  PROVE  PhaseKept(t)
BY DEF NoPhase, NextPhase, PhaseKept

(* A task that was never started or has finished is in no wait.            *)
LEMMA FinishedNotWoke ==
  ASSUME Control, WaitsKept, NEW t \in Tasks, state[t] = "FINISHED"
  PROVE  ~ Calling(t, "sc_woke")
<1>1. Point(t, 2) = "user"
  BY DEF WaitsKept, WaitForm
<1> QED  BY <1>1, WokeStack

(* A task stays suspended, or not, and what resumed it is not forgotten.   *)
StateKept(u) ==
  /\ Suspended(u)' <=> Suspended(u)
  /\ Calling(u, "sc_woke") => resume_from'[u] = resume_from[u]

LEMMA SystemStates ==
  ASSUME Core, ReadyOK, WaitsKept, Boot \/ SaveCurrent \/ LoadNext \/ isr_sysclock_handle
  PROVE  \A u \in Tasks : StateKept(u)
<1>0. Control /\ StateTypeOK /\ SemCurrent
  BY DEF Core, Control
<1>3. ASSUME UNCHANGED <<state, resume_from>>
      PROVE  \A u \in Tasks : StateKept(u)
  BY <1>3 DEF StateKept, Suspended
<1>4. ASSUME NEW t \in Tasks, YieldSystem(t), ~ Calling(t, "sc_woke"), ~ Suspended(t)
      PROVE  \A u \in Tasks : StateKept(u)
  <2>1. /\ state'[t] = "RESUME"
        /\ \A u \in Tasks : u # t => state'[u] = state[u] /\ resume_from'[u] = resume_from[u]
    BY <1>0, <1>4, YieldSystemTypes
  <2> QED  BY <1>4, <2>1 DEF StateKept, Suspended
<1>5. ASSUME NEW t \in Tasks, NEW st, state' = [state EXCEPT ![t] = st], UNCHANGED resume_from,
             st \in {"TO_BE_SUSPENDED", "SUSPENDED"} <=> Suspended(t)
      PROVE  \A u \in Tasks : StateKept(u)
  <2>1. state'[t] = st /\ \A u \in Tasks : u # t => state'[u] = state[u]
    BY <1>0, <1>5 DEF StateTypeOK
  <2> QED  BY <1>5, <2>1 DEF StateKept, Suspended
<1>6. ASSUME SwitchToNext, UNCHANGED resume_from
      PROVE  \A u \in Tasks : StateKept(u)
  <2>1. CASE sch_ready_task_list = <<>>
    BY <1>3, <1>6, <2>1 DEF SwitchToNext
  <2>2. CASE sch_ready_task_list # <<>>
    <3>1. PICK t : t = Head(sch_ready_task_list)
      OBVIOUS
    <3>2. state' = [state EXCEPT ![t] = "RUNNING"]
      BY <1>6, <2>2, <3>1 DEF SwitchToNext
    <3>3. t \in Tasks /\ Ready(t)
      <4>1. sch_ready_task_list \in Seq(Tasks) /\ sch_ready_task_list[1] = t
        BY <1>0, <2>2, <3>1 DEF StateTypeOK
      <4>2. t \in Tasks /\ t \in ToSet(sch_ready_task_list)
        BY <2>2, <4>1, ToSetMember, ElementOf
      <4> QED  BY <4>2 DEF ReadyOK, ReadyListExact
    <3>4. ~ Suspended(t)
      BY <3>3 DEF Ready, Suspended
    <3> QED  BY <1>5, <1>6, <3>2, <3>3, <3>4
  <2> QED  BY <2>1, <2>2
<1>7. CASE Boot
  <2>1. ASSUME NEW t \in Tasks, BootAdd(t)
        PROVE  \A u \in Tasks : StateKept(u)
    <3>1. YieldSystem(t) /\ state[t] = "FINISHED"
      BY <2>1 DEF BootAdd
    <3> QED  BY <1>0, <1>4, <3>1, FinishedNotWoke DEF Suspended
  <2>2. CASE run_first_task
    BY <1>6, <2>2 DEF run_first_task
  <2> QED  BY <1>7, <2>1, <2>2 DEF Boot
<1>8. CASE SaveCurrent
  <2>1. PICK t : t = current_task
    OBVIOUS
  <2>2. t \in Tasks /\ mode = "task" /\ pend_sv
    BY <1>0, <1>8, <2>1 DEF SaveCurrent, SemCurrent
  <2>3. CASE state[t] = "RUNNING" /\ YieldSystem(t)
    <3>1. ~ Calling(t, "sc_woke")
      BY <2>1, <2>2, <2>3 DEF WaitsKept, WaitForm
    <3> QED  BY <1>4, <2>2, <2>3, <3>1 DEF Suspended
  <2>4. CASE /\ state[t] = "TO_BE_SUSPENDED" /\ state' = [state EXCEPT ![t] = "SUSPENDED"]
             /\ UNCHANGED resume_from
    BY <1>5, <2>2, <2>4 DEF Suspended
  <2>5. CASE UNCHANGED <<state, resume_from>>
    BY <1>3, <2>5
  <2> QED  BY <1>8, <2>1, <2>3, <2>4, <2>5 DEF SaveCurrent
<1>9. CASE LoadNext
  BY <1>6, <1>9 DEF LoadNext
<1>10. CASE isr_sysclock_handle
  BY <1>3, <1>10 DEF isr_sysclock_handle
<1> QED  BY <1>7, <1>8, <1>9, <1>10

LEMMA SystemPhases ==
  ASSUME Core, ReadyOK, WaitsKept, Boot \/ SaveCurrent \/ LoadNext \/ isr_sysclock_handle,
         UNCHANGED condVars
  PROVE  \A u \in Tasks : PhaseKept(u)
<1>1. \A u \in Tasks : CallsKept(u)
  BY SystemKeeps DEF PendSV, Core
<1>2. \A u \in Tasks : StateKept(u)
  BY SystemStates
<1> QED  BY <1>1, <1>2, PhaseSame DEF StateKept, condVars, suspendVars

(* The sleep ends a wait.                                                  *)
LEMMA WakePhases ==
  ASSUME Core, WaitsKept, sleep_process_system_tick, UNCHANGED condVars
  PROVE  \A u \in Tasks : \/ PhaseKept(u)
                          \/ Waiting(u) /\ NextPhase(u, "timed out")
<1>0. Control /\ StateTypeOK
  BY DEF Core, Control
<1>1. \A u \in Tasks : CallsKept(u)
  BY <1>0, SystemKeeps DEF PendSV
<1>2. UNCHANGED from
  BY DEF condVars, suspendVars
<1>3. PICK i, t :
        /\ i \in 1 .. Len(sleep_task_list)
        /\ t = sleep_task_list[i] /\ sleep_walk(i)
        /\ state' = [state EXCEPT ![t] = "SLEEP_RESUME"]
        /\ resume_from' = [resume_from EXCEPT ![t] = "SLEEP"]
  BY DEF sleep_process_system_tick
<1>4. t \in Tasks /\ state[t] = "SUSPENDED"
  BY <1>0, <1>3, ElementOf DEF StateTypeOK, sleep_walk
<1>5. /\ state'[t] = "SLEEP_RESUME" /\ resume_from'[t] = "SLEEP"
      /\ \A u \in Tasks : u # t => state'[u] = state[u] /\ resume_from'[u] = resume_from[u]
  BY <1>0, <1>3, <1>4 DEF StateTypeOK
<1>6. \A u \in Tasks : u # t => PhaseKept(u)
  BY <1>1, <1>2, <1>5, PhaseSame DEF Suspended
<1>7. CASE ~ Calling(t, "sc_woke")
  BY <1>1, <1>2, <1>6, <1>7, PhaseSame
<1>8. CASE Calling(t, "sc_woke")
  <2>1. Waiting(t)
    BY <1>4, <1>8 DEF Waiting, Suspended
  <2>2. /\ Calling(t, "sc_woke")' /\ ~ Suspended(t)' /\ ~ Waiting(t)'
        /\ Queued(t)' <=> Queued(t)
        /\ Calling(t, "sc_done")' <=> Calling(t, "sc_done")
    BY <1>1, <1>4, <1>5, <1>8 DEF CallsKept, Suspended, Waiting
  <2>3. ~ Queued(t) /\ ~ Calling(t, "sc_done")
    BY <1>0, <1>4, <1>8, WokeStack, CallingIs DEF Queued
  <2>4. NextPhase(t, "timed out")
    BY <1>5, <2>2, <2>3 DEF NextPhase, Resumed, TimedOut, Ended
  <2> QED  BY <1>6, <2>1, <2>4
<1> QED  BY <1>7, <1>8

LEMMA KernelStates ==
  ASSUME Control, WaitsKept, NEW t \in Tasks, KernelCall(t) \/ UserCall(t), ~ SleepSuspend(t)
  PROVE  \A u \in Tasks : StateKept(u)
<1>1. StateTypeOK
  BY DEF Control
<1>2. CASE UNCHANGED <<state, resume_from>>
  BY <1>2 DEF StateKept, Suspended
<1>3. CASE task_entry_return(t)
  <2>1. InUser(t) /\ state' = [state EXCEPT ![t] = "FINISHED"] /\ UNCHANGED resume_from
    BY <1>3 DEF task_entry_return
  <2>2. state[t] = "RUNNING"
    BY <2>1, UserFacts
  <2>3. state'[t] = "FINISHED" /\ \A u \in Tasks : u # t => state'[u] = state[u]
    BY <1>1, <2>1 DEF StateTypeOK
  <2> QED  BY <2>1, <2>2, <2>3 DEF StateKept, Suspended
<1>4. ASSUME NEW new \in Tasks, scheduler_task_add(t, new)
      PROVE  \A u \in Tasks : StateKept(u)
  <2>1. YieldSystem(new) /\ state[new] = "FINISHED"
    BY <1>4 DEF scheduler_task_add
  <2>2. /\ state'[new] = "RESUME"
        /\ \A u \in Tasks : u # new => state'[u] = state[u] /\ resume_from'[u] = resume_from[u]
    BY <1>1, <2>1, YieldSystemTypes
  <2>3. ~ Calling(new, "sc_woke")
    BY <2>1, FinishedNotWoke
  <2> QED  BY <2>1, <2>2, <2>3 DEF StateKept, Suspended
<1>5. \/ task_entry_return(t)
      \/ \E new \in Tasks : scheduler_task_add(t, new)
      \/ UNCHANGED <<state, resume_from>>
  <2>1. CASE KernelCall(t)
    BY <2>1 DEF KernelCall, PEND_SV, RestoreLevel, scheduler_unlock, UnlockYield, SleepAdd,
                SleepInsert
  <2>2. CASE UserCall(t)
    BY <2>2 DEF UserCall, scheduler_lock, UserUnlock, task_yield, sleep_ticks
  <2> QED  BY <2>1, <2>2
<1> QED  BY <1>2, <1>3, <1>4, <1>5

LEMMA KernelPhases ==
  ASSUME Control, WaitsKept, NEW t \in Tasks, KernelCall(t) \/ UserCall(t),
         UNCHANGED condVars
  PROVE  \A u \in Tasks : PhaseKept(u)
<1>1. StateTypeOK /\ UNCHANGED from /\ \A u \in Tasks : CallsKept(u)
  BY KernelCallKeeps, UserCallKeeps DEF condVars, suspendVars, Control
<1>2. CASE ~ SleepSuspend(t)
  BY <1>1, <1>2, KernelStates, PhaseSame DEF StateKept
<1>3. CASE SleepSuspend(t)
  <2>1. At(t, "sl_suspend") /\ state' = [state EXCEPT ![t] = "TO_BE_SUSPENDED"]
        /\ UNCHANGED resume_from
    BY <1>3 DEF SleepSuspend
  <2>2. Point(t, 1) = "sl_suspend"
    BY <2>1, ExecFacts
  <2>3. ~ Calling(t, "sc_woke") /\ \A u \in Tasks : u # t => state'[u] = state[u]
    BY <1>1, <2>1, <2>2, WokeStack DEF StateTypeOK
  <2> QED  BY <1>1, <2>1, <2>3, PhaseSame DEF Suspended
<1> QED  BY <1>2, <1>3

(* The other tasks when a task moves on without touching their state.      *)
LEMMA OthersPhase ==
  ASSUME NEW t, NEW u \in Tasks, u # t,
         Point(u, 1)' = Point(u, 1), Point(u, 2)' = Point(u, 2), Point(u, 3)' = Point(u, 3),
         state'[u] = state[u], resume_from'[u] = resume_from[u], from'[u] = from[u]
  PROVE  PhaseKept(u)
BY SamePoints, PhaseSame DEF Suspended

LEMMA SemaphorePhases ==
  ASSUME Control, DataTypes, NEW t \in Tasks, SemaphoreCall(t) \/ SemaphoreUse(t)
  PROVE  \A u \in Tasks : PhaseKept(u)
<1>0. UNCHANGED <<state, resume_from, from>>
  BY DEF SemaphoreCall, ObtainTest, ObtainTake, ReleaseIncrement, DestroyClear,
         SemaphoreUse, semaphore_obtain, semaphore_release, semaphore_destroy, EnterLocked,
         condVars, suspendVars
<1>1. CASE UNCHANGED pc
  <2>1. \A u \in Tasks : CallsKept(u)
    BY <1>1, PointsStay
  <2> QED  BY <1>0, <2>1, PhaseSame DEF Suspended
<1>2. Point(t, 1) \in SemaphoreLabels \cup {"user"} /\ Point(t, 2) = "user" /\ Point(t, 3) = "user"
  <2>1. CASE SemaphoreCall(t)
    <3>1. PICK label \in SemaphoreLabels : At(t, label)
      BY <2>1 DEF SemaphoreCall, ObtainTest, ObtainTake, ReleaseIncrement, DestroyClear,
                  SemaphoreLabels
    <3> QED  BY <3>1, SemaphorePoint
  <2>2. CASE SemaphoreUse(t)
    <3>1. InUser(t)
      BY <2>2 DEF SemaphoreUse, semaphore_obtain, semaphore_release, semaphore_destroy,
                  EnterLocked
    <3> QED  BY <3>1, UserFacts
  <2> QED  BY <2>1, <2>2
<1>3. NoPhase(t)
  BY <1>2, PhaseAt DEF SemaphoreLabels
<1>4. ASSUME NEW a, NEW b, NEW c, NewStack(t, a, b, c),
             {a, b, c} \subseteq {"user", "so_test", "so_take", "sc_timeout", "unlock", "sr_inc",
                                  "rc_lock", "sd_clear"}
      PROVE  \A u \in Tasks : PhaseKept(u)
  <2>1. PhaseKept(t)
    BY <1>3, <1>4, PhaseNone, PhaseStaysNone
  <2>2. ASSUME NEW u \in Tasks, u # t
        PROVE  PhaseKept(u)
    BY <1>0, <1>4, <2>2, OthersPhase DEF NewStack
  <2> QED  BY <2>1, <2>2
<1>5. CASE ObtainTest(t)
  BY <1>4, <1>5, ObtainTestControl
<1>6. CASE ObtainTake(t)
  BY <1>1, <1>4, <1>6, ObtainTakeControl
<1>7. CASE ReleaseIncrement(t)
  BY <1>4, <1>7, IncrementControl
<1>8. CASE DestroyClear(t)
  BY <1>4, <1>8, ClearControl
<1>9. ASSUME NEW s, NEW label \in {"so_test", "sr_inc"}, EnterLocked(t, s, label)
      PROVE  \A u \in Tasks : PhaseKept(u)
  BY <1>4, <1>9, EnterControl
<1>10. ASSUME NEW s \in Conditions, semaphore_release(t, s)
       PROVE  \A u \in Tasks : PhaseKept(u)
  BY <1>1, <1>9, <1>10 DEF semaphore_release
<1>11. ASSUME NEW s \in Conditions, semaphore_destroy(t, s)
       PROVE  \A u \in Tasks : PhaseKept(u)
  BY <1>4, <1>11, DestroyControl
<1>12. ASSUME NEW s \in Conditions, NEW w \in Waits, semaphore_obtain(t, s, w)
       PROVE  \A u \in Tasks : PhaseKept(u)
  BY <1>9, <1>12 DEF semaphore_obtain
<1> QED  BY <1>5, <1>6, <1>7, <1>8, <1>10, <1>11, <1>12 DEF SemaphoreCall, SemaphoreUse

LEMMA ResumePhases ==
  ASSUME Control, DataTypes, NEW t \in Tasks,
         ResumeLock(t) \/ ResumeUnlock(t) \/ ResumeYield(t) \/ ResumeReturn(t)
  PROVE  \A u \in Tasks : PhaseKept(u)
<1>0. UNCHANGED <<state, resume_from, from>>
  BY DEF ResumeLock, ResumeUnlock, ResumeYield, ResumeReturn, condVars, suspendVars
<1>1. PICK label \in ResumeLabels : At(t, label)
  BY DEF ResumeLock, ResumeUnlock, ResumeYield, ResumeReturn, ResumeLabels
<1>2. PICK p : p = Point(t, 2)
  OBVIOUS
<1>3. /\ Point(t, 1) \in ResumeLabels /\ Point(t, 2) = p /\ Point(t, 3) = "user"
      /\ p \in {"unlock", "sd_clear"}
  BY <1>1, <1>2, ResumePoint
<1>4. NoPhase(t)
  BY <1>3, PhaseAt DEF ResumeLabels
<1>5. ASSUME NEW a, NEW b, NEW c, NewStack(t, a, b, c),
             {a, b, c} \subseteq {"rc_loop", "rc_back", "rc_yield", "unlock", "pend", "user", p}
      PROVE  \A u \in Tasks : PhaseKept(u)
  <2>1. PhaseKept(t)
    BY <1>3, <1>4, <1>5, PhaseNone, PhaseStaysNone
  <2>2. ASSUME NEW u \in Tasks, u # t
        PROVE  PhaseKept(u)
    BY <1>0, <1>5, <2>2, OthersPhase DEF NewStack
  <2> QED  BY <2>1, <2>2
<1>6. \/ NewStack(t, "rc_loop", p, "user") \/ NewStack(t, "unlock", "rc_yield", p)
      \/ NewStack(t, "pend", "rc_back", p) \/ NewStack(t, "rc_back", p, "user")
      \/ NewStack(t, p, "user", "user")
  BY <1>2, ResumeLockControl, ResumeUnlockControl, ResumeYieldControl, ResumeReturnControl
<1> QED  BY <1>5, <1>6

(* A task that is waiting for a semaphore is in the wait of it.            *)
LEMMA WaitingTask ==
  ASSUME Control, WaitsKept, CallArguments, NEW w \in Tasks, NEW c, IsWaiting(w, c)
  PROVE  /\ Waiting(w) /\ InSuspend(w) /\ suspend_data[w] = <<c>> /\ c = sem[w]
         /\ ~ Queued(w) /\ ~ Calling(w, "sc_done")
<1>1. Suspended(w) /\ c \in ToSet(suspend_data[w])
  BY DEF IsWaiting, Suspended
<1>2. PICK d : d = sem[w]
  OBVIOUS
<1>3. ToSet(<<>>) = {} /\ ToSet(<<d>>) = {d}
  BY DEF ToSet
<1>4. Arguments(w) /\ WaitForm(w)
  BY DEF CallArguments, WaitsKept
<1>5. InSuspend(w)
  BY <1>1, <1>3, <1>4 DEF Arguments
<1>6. suspend_data[w] = <<c>> /\ c = sem[w]
  BY <1>1, <1>2, <1>3, <1>4, <1>5 DEF Arguments
<1>7. /\ Point(w, 1) \in {"pend", "back"}
      /\ StackForm(Point(w, 1), Point(w, 2), Point(w, 3))
      /\ Point(w, 2) = "so_take" \/ Point(w, 3) = "so_take"
  BY <1>1, <1>4, <1>5, TaskStack, CallingIs DEF WaitForm, Control
<1>8. Point(w, 2) = "sc_woke"
  BY <1>7 DEF StackForm, Labels, SemaphoreLabels, SuspendLabels, ConditionLabels, ResumeLabels
<1>9. Calling(w, "sc_woke") /\ ~ Queued(w) /\ ~ Calling(w, "sc_done")
  <2>1. Point(w, 3) = "so_take"
    BY <1>7, <1>8
  <2> QED  BY <1>7, <1>8, <2>1, CallingIs DEF Queued
<1> QED  BY <1>1, <1>5, <1>6, <1>9 DEF Waiting

(* One turn of resume_condition ends the wait of the task it resumes.      *)
LEMMA ResumeOnePhases ==
  ASSUME Core, CallArguments, WaitsKept, NEW t \in Tasks, ResumeOne(t),
         NEW w, w = Head(suspend_list[resuming[t].cond]), NEW c, c = resuming[t].cond
  PROVE  /\ \A u \in Tasks : u # w => PhaseKept(u)
         /\ IF IsWaiting(w, c) THEN Waiting(w) /\ NextPhase(w, "resumed") ELSE PhaseKept(w)
<1>0. Control /\ DataTypes /\ StateTypeOK
  BY DEF Core, Control
<1>1. w \in Tasks
  BY <1>0, ArgumentsResuming, ResumedTask DEF DataTypes
<1>2. UNCHANGED <<pc, from>>
  BY DEF ResumeOne
<1>3. \A u \in Tasks : CallsKept(u)
  BY <1>2, PointsStay
<1>4. CASE ~ IsWaiting(w, c)
  <2>1. UNCHANGED <<state, resume_from>>
    BY <1>4 DEF ResumeOne
  <2> QED  BY <1>1, <1>2, <1>3, <1>4, <2>1, PhaseSame DEF Suspended
<1>5. CASE IsWaiting(w, c)
  <2>1. Waiting(w) /\ ~ Queued(w) /\ ~ Calling(w, "sc_done")
    BY <1>0, <1>1, <1>5, WaitingTask
  <2>2. YieldSystem(w)
    BY <1>5 DEF ResumeOne
  <2>3. /\ state'[w] = "RESUME" /\ resume_from'[w] = "SYSTEM"
        /\ \A u \in Tasks : u # w => state'[u] = state[u] /\ resume_from'[u] = resume_from[u]
    BY <1>0, <1>1, <2>2, YieldSystemTypes
  <2>4. \A u \in Tasks : u # w => PhaseKept(u)
    BY <1>2, <1>3, <2>3, PhaseSame DEF Suspended
  <2>5. NextPhase(w, "resumed")
    <3>1. Calling(w, "sc_woke")' /\ ~ Queued(w)' /\ ~ Calling(w, "sc_done")'
      BY <1>1, <1>3, <2>1 DEF CallsKept, Waiting
    <3> QED  BY <2>3, <3>1 DEF NextPhase, Waiting, Suspended, Resumed, TimedOut, Ended
  <2> QED  BY <1>5, <2>1, <2>4, <2>5
<1> QED  BY <1>4, <1>5

(* The other tasks in a step of suspend_condition.                         *)
LEMMA SuspendOthers ==
  ASSUME Control, DataTypes, NEW t \in Tasks,
         \/ suspend_timeout_get_min(t) \/ suspend_do_suspend(t)
         \/ suspend_condition_add_task(t) \/ SuspendLock(t)
         \/ SuspendSleep(t) \/ SuspendInsert(t) \/ SuspendSwitch(t) \/ SuspendWoke(t)
         \/ suspend_condition_remove_all(t) \/ suspend_condition_remove(t)
         \/ SuspendReturn(t)
  PROVE  \A u \in Tasks : u # t => PhaseKept(u)
<1>1. \/ UNCHANGED pc
      \/ \E a, b, c : NewStack(t, a, b, c)
  BY SuspendStacks, ReturnControl
<1>2. \A u \in Tasks : u # t => /\ Point(u, 1)' = Point(u, 1) /\ Point(u, 2)' = Point(u, 2)
                                /\ Point(u, 3)' = Point(u, 3)
  BY <1>1 DEF Point, NewStack
<1>3. \A u \in Tasks : u # t =>
        state'[u] = state[u] /\ resume_from'[u] = resume_from[u] /\ from'[u] = from[u]
  <2>1. \/ UNCHANGED state
        \/ state' = [state EXCEPT ![t] = "TO_BE_SUSPENDED"]
    BY DEF suspend_timeout_get_min, suspend_do_suspend, suspend_condition_add_task,
         SuspendLock, SuspendSleep, SuspendInsert, SuspendSwitch, SuspendWoke,
         suspend_condition_remove_all, suspend_condition_remove, SuspendReturn
  <2>2. UNCHANGED resume_from
    BY DEF suspend_timeout_get_min, suspend_do_suspend, suspend_condition_add_task,
         SuspendLock, SuspendSleep, SuspendInsert, SuspendSwitch, SuspendWoke,
         suspend_condition_remove_all, suspend_condition_remove, SuspendReturn
  <2>3. \/ UNCHANGED from
        \/ from' = [from EXCEPT ![t] = resume_from[t]]
        \/ from' = [from EXCEPT ![t] = "SYSTEM"]
    BY DEF suspend_timeout_get_min, suspend_do_suspend, suspend_condition_add_task,
         SuspendLock, SuspendSleep, SuspendInsert, SuspendSwitch, SuspendWoke, condVars,
         suspendVars, suspend_condition_remove_all, suspend_condition_remove, SuspendReturn
  <2> QED  BY <2>1, <2>2, <2>3 DEF Control, StateTypeOK, DataTypes, CallTypes
<1> QED  BY <1>2, <1>3, OthersPhase

LEMMA InSuspendAt ==
  ASSUME Control, NEW t \in Tasks,
         NEW label \in {"sc_timeout", "sc_check", "sc_append", "sc_lock", "sc_sleep", "sc_insert",
                        "sc_suspend", "sc_woke", "sc_done", "sc_end"},
         At(t, label)
  PROVE  /\ Point(t, 1) = label /\ Point(t, 2) = "so_take" /\ Point(t, 3) = "user"
         /\ state[t] = "RUNNING" /\ ~ Suspended(t)
<1>1. label \in SuspendLabels
  BY DEF SuspendLabels, ConditionLabels, ResumeLabels
<1> QED  BY <1>1, SuspendPoint DEF Suspended

(* How far a step of suspend_condition gets the wait of its task.          *)
LEMMA OutsideWait ==
  ASSUME Control, DataTypes, NEW t \in Tasks,
         suspend_timeout_get_min(t) \/ suspend_do_suspend(t) \/ SuspendReturn(t)
  PROVE  NoPhase(t) /\ NextPhase(t, "none") /\ PhaseKept(t)
<1>1. PICK label \in {"sc_timeout", "sc_check", "sc_end"} : At(t, label)
  BY DEF suspend_timeout_get_min, suspend_do_suspend, SuspendReturn
<1>2. NoPhase(t)
  BY <1>1, InSuspendAt, PhaseAt
<1>3. PICK a \in {"sc_check", "sc_append", "sc_end", "so_take"}, b \in {"so_take", "user"} :
        NewStack(t, a, b, "user")
  BY GetMinControl, DoSuspendControl, ReturnControl
<1>4. NextPhase(t, "none")
  BY <1>3, PhaseNone
<1> QED  BY <1>2, <1>4, PhaseStaysNone

LEMMA AddPhase ==
  ASSUME Control, NEW t \in Tasks, suspend_condition_add_task(t)
  PROVE  NoPhase(t) /\ NextPhase(t, "queued")
<1>1. At(t, "sc_append")
  BY DEF suspend_condition_add_task
<1>2. NoPhase(t)
  BY <1>1, InSuspendAt, PhaseAt
<1>3. NewStack(t, "sc_lock", "so_take", "user")
  BY AddTaskControl
<1>4. Queued(t)' /\ ~ Calling(t, "sc_woke")' /\ ~ Calling(t, "sc_done")'
  BY <1>3, NewCalling DEF Queued
<1> QED  BY <1>2, <1>4 DEF NextPhase, Waiting, Resumed, TimedOut, Ended

LEMMA QueuedPhase ==
  ASSUME Control, DataTypes, NEW t \in Tasks,
         SuspendLock(t) \/ SuspendSleep(t) \/ SuspendInsert(t)
  PROVE  Queued(t) /\ PhaseKept(t)
<1>1. PICK label \in {"sc_lock", "sc_sleep", "sc_insert"} : At(t, label)
  BY DEF SuspendLock, SuspendSleep, SuspendInsert
<1>2. Point(t, 1) = label /\ Point(t, 2) = "so_take" /\ Point(t, 3) = "user"
  BY <1>1, InSuspendAt
<1>3. Queued(t) /\ ~ Calling(t, "sc_woke") /\ ~ Calling(t, "sc_done")
  BY <1>2, CallingIs DEF Queued
<1>4. CASE UNCHANGED pc
  <2>1. CallsKept(t)
    BY <1>4, PointsStay
  <2>2. UNCHANGED <<state, resume_from, from>>
    BY DEF SuspendLock, SuspendSleep, SuspendInsert, condVars, suspendVars
  <2> QED  BY <1>3, <2>1, <2>2, PhaseSame
<1>5. ASSUME NEW a \in {"sc_sleep", "sc_insert", "sc_suspend"}, NewStack(t, a, "so_take", "user")
      PROVE  PhaseKept(t)
  <2>1. Queued(t)' /\ ~ Calling(t, "sc_woke")' /\ ~ Calling(t, "sc_done")'
    BY <1>5, NewCalling DEF Queued
  <2> QED  BY <1>3, <2>1 DEF PhaseKept, Waiting, Resumed, TimedOut, Ended
<1>6. UNCHANGED pc \/ \E a \in {"sc_sleep", "sc_insert", "sc_suspend"} : NewStack(t, a, "so_take", "user")
  <2>1. timeout \in [Tasks -> 0 .. MAX_WAIT]
    BY DEF DataTypes
  <2> QED  BY <2>1, SuspendLockControl, SuspendSleepControl, SuspendInsertControl
<1> QED  BY <1>3, <1>4, <1>5, <1>6

LEMMA SwitchPhase ==
  ASSUME Control, NEW t \in Tasks, SuspendSwitch(t)
  PROVE  Queued(t) /\ NextPhase(t, "waiting")
<1>1. At(t, "sc_suspend") /\ state' = [state EXCEPT ![t] = "TO_BE_SUSPENDED"]
  BY DEF SuspendSwitch
<1>2. Point(t, 1) = "sc_suspend"
  BY <1>1, InSuspendAt
<1>3. NewStack(t, "pend", "sc_woke", "so_take")
  BY SuspendSwitchControl
<1>4. Calling(t, "sc_woke")' /\ ~ Calling(t, "sc_done")' /\ ~ Queued(t)'
  BY <1>3, NewCalling DEF Queued
<1>5. Suspended(t)'
  BY <1>1 DEF Suspended, Control, StateTypeOK
<1> QED  BY <1>2, <1>4, <1>5 DEF Queued, NextPhase, Waiting, Resumed, TimedOut, Ended

LEMMA WokePhase ==
  ASSUME Control, DataTypes, NEW t \in Tasks, SuspendWoke(t)
  PROVE  PhaseKept(t) /\ (Resumed(t) \/ TimedOut(t))
<1>1. At(t, "sc_woke") /\ from' = [from EXCEPT ![t] = resume_from[t]]
      /\ UNCHANGED <<state, resume_from>>
  BY DEF SuspendWoke
<1>2. Point(t, 1) = "sc_woke" /\ Point(t, 2) = "so_take" /\ Point(t, 3) = "user" /\ ~ Suspended(t)
  BY <1>1, InSuspendAt
<1>3. ~ Queued(t) /\ Calling(t, "sc_woke") /\ ~ Calling(t, "sc_done")
  BY <1>2, CallingIs DEF Queued
<1>4. resume_from[t] \in {"SYSTEM", "SLEEP"} /\ from'[t] = resume_from[t]
  BY <1>1 DEF Control, StateTypeOK, DataTypes, CallTypes
<1>5. Resumed(t) \/ TimedOut(t)
  BY <1>2, <1>3, <1>4 DEF Resumed, TimedOut, Ended
<1>6. CASE UNCHANGED pc
  <2>1. CallsKept(t)
    BY <1>6, PointsStay
  <2>2. ~ Queued(t)' /\ Calling(t, "sc_woke")' /\ ~ Calling(t, "sc_done")'
    BY <1>3, <2>1 DEF CallsKept
  <2> QED  BY <1>1, <1>3, <1>5, <2>2 DEF PhaseKept, Waiting, Suspended, Resumed, TimedOut, Ended
<1>7. CASE NewStack(t, "unlock", "sc_done", "so_take")
  <2>1. Calling(t, "sc_done")' /\ ~ Calling(t, "sc_woke")' /\ ~ Queued(t)'
    BY <1>7, NewCalling DEF Queued
  <2> QED  BY <1>2, <1>3, <1>4, <1>5, <2>1 DEF PhaseKept, Waiting, Resumed, TimedOut, Ended
<1> QED  BY <1>5, <1>6, <1>7, WokeControl

LEMMA DonePhase ==
  ASSUME Control, DataTypes, NEW t \in Tasks,
         suspend_condition_remove_all(t) \/ suspend_condition_remove(t)
  PROVE  /\ suspend_condition_remove_all(t) => TimedOut(t)
         /\ suspend_condition_remove(t) => Resumed(t)
         /\ mode' # "assert" => NextPhase(t, "none")
         /\ UNCHANGED pc => PhaseKept(t)
<1>1. At(t, "sc_done") /\ UNCHANGED <<state, resume_from, from>>
  BY DEF suspend_condition_remove_all, suspend_condition_remove
<1>2. Point(t, 1) = "sc_done" /\ mode = "task"
  BY <1>1, InSuspendAt DEF At, Executes
<1>3. Calling(t, "sc_done") /\ from[t] \in {"SYSTEM", "SLEEP"}
  BY <1>2, CallingIs DEF DataTypes, CallTypes
<1>4. /\ suspend_condition_remove_all(t) => TimedOut(t)
      /\ suspend_condition_remove(t) => Resumed(t)
  BY <1>3 DEF TimedOut, Resumed, Ended, suspend_condition_remove_all, suspend_condition_remove
<1>5. ASSUME mode' # "assert"
      PROVE  NextPhase(t, "none")
  <2>1. \/ NewStack(t, "sc_end", "so_take", "user") \/ NewStack(t, "sc_check", "so_take", "user")
    BY <1>5, RemoveAllControl, RemoveControl
  <2> QED  BY <2>1, PhaseNone
<1>6. ASSUME UNCHANGED pc
      PROVE  PhaseKept(t)
  <2>1. CallsKept(t)
    BY <1>6, PointsStay
  <2> QED  BY <1>1, <2>1, PhaseSame DEF Suspended
<1> QED  BY <1>4, <1>5, <1>6

----------------------------------------------------------------------------
(* The suspend of a task that waits, or was resumed.                       *)

MayTake(t) ==
  /\ Waiting(t) \/ Resumed(t) => suspend_data[t] = <<sem[t]>>
  /\ Resumed(t) => may_resume[t][sem[t]]

LEMMA MayTakeKept ==
  ASSUME NEW u, MayTake(u), \/ PhaseKept(u) \/ NextPhase(u, "none") \/ NextPhase(u, "timed out")
                            \/ NextPhase(u, "queued"),
         Waiting(u) \/ Resumed(u) =>
           sem'[u] = sem[u] /\ suspend_data'[u] = suspend_data[u] /\ may_resume'[u] = may_resume[u]
  PROVE  MayTake(u)'
BY DEF MayTake, PhaseKept, NextPhase

LEMMA ResumeOneMayTake ==
  ASSUME Core, CallArguments, WaitsKept, ResumedMayTake, NEW t \in Tasks, ResumeOne(t),
         UNCHANGED semVars
  PROVE  ResumedMayTake'
<1>0. Control /\ DataTypes
  BY DEF Core
<1>1. PICK c, w : c = resuming[t].cond /\ w = Head(suspend_list[resuming[t].cond])
  OBVIOUS
<1>2. c \in Conditions /\ w \in Tasks
  BY <1>0, <1>1, ArgumentsResuming, ResumedTask DEF DataTypes
<1>3. may_resume \in [Tasks -> [Conditions -> BOOLEAN]] /\ suspend_data \in [Tasks -> Seq(Conditions)]
  BY <1>0 DEF DataTypes, CallTypes
<1>4. may_resume' = [may_resume EXCEPT ![w][c] = TRUE] /\ UNCHANGED sem
  BY <1>1 DEF ResumeOne, semVars
<1>5. /\ \A u \in Tasks : u # w => PhaseKept(u)
      /\ IF IsWaiting(w, c) THEN Waiting(w) /\ NextPhase(w, "resumed") ELSE PhaseKept(w)
  BY <1>1, ResumeOnePhases
<1>6. /\ may_resume'[w][c] = TRUE
      /\ \A d \in Conditions : d # c => may_resume'[w][d] = may_resume[w][d]
      /\ \A u \in Tasks : u # w => may_resume'[u] = may_resume[u]
  BY <1>2, <1>3, <1>4
<1>7. \/ UNCHANGED suspend_data
      \/ IsWaiting(w, c) /\ suspend_data' = [suspend_data EXCEPT ![w] = <<c>>]
  BY <1>1 DEF ResumeOne
<1>8. ASSUME NEW u \in Tasks, u # w
      PROVE  MayTake(u)'
  <2>1. suspend_data'[u] = suspend_data[u]
    BY <1>3, <1>7, <1>8
  <2>2. MayTake(u)
    BY DEF ResumedMayTake, MayTake
  <2> QED  BY <1>4, <1>5, <1>6, <1>8, <2>1, <2>2, MayTakeKept
<1>9. CASE IsWaiting(w, c)
  <2>1. c = sem[w] /\ suspend_data[w] = <<c>>
    BY <1>0, <1>2, <1>9, WaitingTask
  <2>2. PICK l : l = <<c>>
    OBVIOUS
  <2>3. suspend_data'[w] = l
    BY <1>2, <1>3, <1>7, <2>1, <2>2
  <2>4. MayTake(w)'
    BY <1>4, <1>6, <2>1, <2>2, <2>3 DEF MayTake
  <2> QED  BY <1>8, <2>4 DEF MayTake, ResumedMayTake
<1>10. CASE ~ IsWaiting(w, c)
  <2>1. PhaseKept(w) /\ suspend_data'[w] = suspend_data[w] /\ MayTake(w)
    BY <1>2, <1>5, <1>7, <1>10 DEF ResumedMayTake, MayTake
  <2>2. sem[w] \in Conditions \/ ~ Resumed(w)
    <3>1. Resumed(w) => Calling(w, "sc_woke") \/ Calling(w, "sc_done")
      BY DEF Resumed, Ended
    <3>2. StackForm(Point(w, 1), Point(w, 2), Point(w, 3))
      BY <1>0, <1>2, TaskStack DEF Control
    <3>3. Resumed(w) => Calling(w, "so_take")
      BY <3>1, <3>2, CallingIs DEF StackForm, Labels, SemaphoreLabels, SuspendLabels,
                                   ConditionLabels, ResumeLabels
    <3> QED  BY <1>2, <3>3 DEF CallArguments, Arguments
  <2>3. MayTake(w)'
    BY <1>4, <1>6, <2>1, <2>2 DEF MayTake, PhaseKept
  <2> QED  BY <1>8, <2>3 DEF MayTake, ResumedMayTake
<1> QED  BY <1>9, <1>10

LEMMA SuspendMayTake ==
  ASSUME Core, CallArguments, ResumedMayTake, NEW t \in Tasks,
         \/ suspend_timeout_get_min(t) \/ suspend_do_suspend(t)
         \/ suspend_condition_add_task(t) \/ SuspendLock(t)
         \/ SuspendSleep(t) \/ SuspendInsert(t) \/ SuspendSwitch(t) \/ SuspendWoke(t)
         \/ suspend_condition_remove_all(t) \/ suspend_condition_remove(t)
         \/ SuspendReturn(t),
         UNCHANGED semVars
  PROVE  ResumedMayTake'
<1>0. Control /\ DataTypes
  BY DEF Core
<1>1. /\ may_resume \in [Tasks -> [Conditions -> BOOLEAN]]
      /\ suspend_data \in [Tasks -> Seq(Conditions)] /\ UNCHANGED sem
  BY <1>0 DEF DataTypes, CallTypes, semVars
<1>2. \/ UNCHANGED <<suspend_data, may_resume>>
      \/ suspend_do_suspend(t) \/ SuspendSwitch(t) \/ SuspendReturn(t)
  BY DEF suspend_timeout_get_min, suspend_condition_add_task, SuspendLock, SuspendSleep,
         SuspendInsert, SuspendWoke, suspend_condition_remove_all, suspend_condition_remove,
         condVars, suspendVars
<1>3. \A u \in Tasks : u # t => suspend_data'[u] = suspend_data[u] /\ may_resume'[u] = may_resume[u]
  BY <1>1, <1>2 DEF suspend_do_suspend, SuspendSwitch, SuspendReturn
<1>4. ASSUME NEW u \in Tasks
      PROVE  MayTake(u)
  BY DEF ResumedMayTake, MayTake
<1>5. ASSUME NEW u \in Tasks, u # t
      PROVE  MayTake(u)'
  BY <1>0, <1>1, <1>3, <1>4, <1>5, SuspendOthers, MayTakeKept
<1>6. CASE SuspendSwitch(t)
  <2>1. Queued(t) /\ NextPhase(t, "waiting")
    BY <1>0, <1>6, SwitchPhase
  <2>2. suspend_data' = [suspend_data EXCEPT ![t] = conds[t]] /\ At(t, "sc_suspend")
    BY <1>6 DEF SuspendSwitch
  <2>3. conds[t] = <<sem[t]>>
    <3>1. InSuspend(t)
      BY <1>0, <2>2, InSuspendAt, CallingIs
    <3> QED  BY <3>1 DEF CallArguments, Arguments
  <2>4. suspend_data'[t] = <<sem'[t]>>
    BY <1>1, <2>2, <2>3
  <2>5. MayTake(t)'
    BY <2>1, <2>4 DEF MayTake, NextPhase
  <2> QED  BY <1>5, <2>5 DEF ResumedMayTake, MayTake
<1>7. CASE suspend_timeout_get_min(t) \/ suspend_do_suspend(t) \/ SuspendReturn(t)
  <2>1. NextPhase(t, "none")
    BY <1>0, <1>7, OutsideWait
  <2>2. MayTake(t)'
    BY <2>1 DEF MayTake, NextPhase
  <2> QED  BY <1>5, <2>2 DEF ResumedMayTake, MayTake
<1>8. CASE suspend_condition_add_task(t)
  <2>1. NextPhase(t, "queued")
    BY <1>0, <1>8, AddPhase
  <2>2. MayTake(t)'
    BY <2>1 DEF MayTake, NextPhase
  <2> QED  BY <1>5, <2>2 DEF ResumedMayTake, MayTake
<1>9. CASE /\ ~ suspend_timeout_get_min(t) /\ ~ suspend_do_suspend(t) /\ ~ SuspendReturn(t)
           /\ ~ suspend_condition_add_task(t) /\ ~ SuspendSwitch(t)
  <2>1. PhaseKept(t) \/ NextPhase(t, "none")
    <3>1. CASE SuspendLock(t) \/ SuspendSleep(t) \/ SuspendInsert(t) \/ SuspendWoke(t)
      BY <1>0, <3>1, QueuedPhase, WokePhase
    <3>2. CASE suspend_condition_remove_all(t) \/ suspend_condition_remove(t)
      <4>1. mode' # "assert" \/ UNCHANGED pc
        BY <1>0, <3>2, RemoveAllControl, RemoveControl DEF suspend_condition_remove_all,
           suspend_condition_remove, At, Executes
      <4> QED  BY <1>0, <3>2, <4>1, DonePhase
    <3> QED  BY <1>9, <3>1, <3>2
  <2>2. MayTake(t)'
    BY <1>1, <1>2, <1>4, <1>9, <2>1, MayTakeKept
  <2> QED  BY <1>5, <2>2 DEF ResumedMayTake, MayTake
<1> QED  BY <1>6, <1>7, <1>8, <1>9

LEMMA MayTakeStep ==
  ASSUME Core, ReadyOK, WaitsKept, ResumedMayTake, [SemNext]_vars
  PROVE  ResumedMayTake'
<1>0. Control /\ DataTypes
  BY DEF Core
<1>1. \A u \in Tasks : MayTake(u)
  BY DEF ResumedMayTake, MayTake
<1>2. ASSUME UNCHANGED <<sem, suspend_data, may_resume>>,
             \A u \in Tasks : PhaseKept(u) \/ NextPhase(u, "timed out")
      PROVE  ResumedMayTake'
  <2>1. \A u \in Tasks : MayTake(u)'
    BY <1>1, <1>2, MayTakeKept
  <2> QED  BY <2>1 DEF ResumedMayTake, MayTake
<1>3. ASSUME UNCHANGED <<condVars, semVars>>,
             \A u \in Tasks : PhaseKept(u) \/ NextPhase(u, "timed out")
      PROVE  ResumedMayTake'
  BY <1>2, <1>3 DEF condVars, semVars, suspendVars
<1>4. CASE UNCHANGED vars
  <2>1. UNCHANGED <<pc, state, resume_from, from, condVars, semVars>>
    BY <1>4 DEF vars, kernelVars, condVars, suspendVars
  <2>2. \A u \in Tasks : PhaseKept(u)
    BY <2>1, PointsStay, PhaseSame DEF Suspended
  <2> QED  BY <1>3, <2>1, <2>2
<1>5. CASE SemNext
  <2>1. CallArguments
    BY DEF Core
  <2>2. CASE SemBoot \/ SemPendSV \/ SemTick
    <3>1. /\ Boot \/ PendSV \/ isr_sysclock_handle
          /\ UNCHANGED <<condVars, semVars>>
      BY <2>2 DEF SemBoot, SemPendSV, SemTick, ConditionTick
    <3>2. CASE sleep_process_system_tick
      BY <1>3, <3>1, <3>2, WakePhases
    <3>3. CASE ~ sleep_process_system_tick
      <4>1. Boot \/ SaveCurrent \/ LoadNext \/ isr_sysclock_handle
        BY <3>1, <3>3 DEF PendSV
      <4> QED  BY <1>3, <3>1, <4>1, SystemPhases
    <3> QED  BY <3>2, <3>3
  <2>3. ASSUME NEW t \in Tasks, KernelCall(t) \/ UserCall(t), UNCHANGED <<condVars, semVars>>
        PROVE  ResumedMayTake'
    BY <1>0, <1>3, <2>3, KernelPhases
  <2>4. ASSUME NEW t \in Tasks, ConditionCall(t), UNCHANGED semVars
        PROVE  ResumedMayTake'
    <3>1. CASE ResumeOne(t)
      BY <2>1, <2>4, <3>1, ResumeOneMayTake
    <3>2. CASE ResumeLock(t) \/ ResumeUnlock(t) \/ ResumeYield(t) \/ ResumeReturn(t)
      <4>1. \A u \in Tasks : PhaseKept(u)
        BY <1>0, <3>2, ResumePhases
      <4>2. UNCHANGED <<suspend_data, may_resume>>
        BY <3>2 DEF ResumeLock, ResumeUnlock, ResumeYield, ResumeReturn, condVars, suspendVars
      <4>3. UNCHANGED sem
        BY <2>4 DEF semVars
      <4> QED  BY <1>2, <4>1, <4>2, <4>3
    <3>3. CASE ~ ResumeOne(t) /\ ~ (ResumeLock(t) \/ ResumeUnlock(t) \/ ResumeYield(t) \/ ResumeReturn(t))
      <4>1. \/ suspend_timeout_get_min(t) \/ suspend_do_suspend(t)
            \/ suspend_condition_add_task(t) \/ SuspendLock(t)
            \/ SuspendSleep(t) \/ SuspendInsert(t) \/ SuspendSwitch(t) \/ SuspendWoke(t)
            \/ suspend_condition_remove_all(t) \/ suspend_condition_remove(t)
            \/ SuspendReturn(t)
        BY <2>4, <3>3 DEF ConditionCall
      <4> QED  BY <2>1, <2>4, <4>1, SuspendMayTake
    <3> QED  BY <3>1, <3>2, <3>3
  <2>5. ASSUME NEW t \in Tasks, SemaphoreCall(t) \/ SemaphoreUse(t)
        PROVE  ResumedMayTake'
    <3>1. \A u \in Tasks : PhaseKept(u)
      BY <1>0, <2>5, SemaphorePhases
    <3>2. UNCHANGED <<suspend_data, may_resume>>
      BY <2>5 DEF SemaphoreCall, ObtainTest, ObtainTake, ReleaseIncrement, DestroyClear,
         SemaphoreUse, semaphore_obtain, semaphore_release, semaphore_destroy, EnterLocked,
         condVars, suspendVars
    <3>3. \A u \in Tasks : u # t => sem'[u] = sem[u]
      <4>1. \/ UNCHANGED sem
            \/ \E x : sem' = [sem EXCEPT ![t] = x]
        BY <2>5 DEF SemaphoreCall, ObtainTest, ObtainTake, ReleaseIncrement, DestroyClear,
           SemaphoreUse, semaphore_obtain, semaphore_release, semaphore_destroy, EnterLocked,
           semVars
      <4> QED  BY <4>1, <1>0 DEF DataTypes, CallTypes
    <3>4. NoPhase(t)
      <4>1. CASE SemaphoreCall(t)
        <5>1. PICK label \in SemaphoreLabels : At(t, label)
          BY <4>1 DEF SemaphoreCall, ObtainTest, ObtainTake, ReleaseIncrement, DestroyClear,
                      SemaphoreLabels
        <5> QED  BY <1>0, <5>1, SemaphorePoint, PhaseAt DEF SemaphoreLabels
      <4>2. CASE SemaphoreUse(t)
        <5>1. InUser(t)
          BY <4>2 DEF SemaphoreUse, semaphore_obtain, semaphore_release, semaphore_destroy,
                      EnterLocked
        <5> QED  BY <1>0, <5>1, UserFacts, PhaseAt
      <4> QED  BY <2>5, <4>1, <4>2
    <3>5. \A u \in Tasks : MayTake(u)'
      BY <1>1, <3>1, <3>2, <3>3, <3>4, MayTakeKept DEF NoPhase
    <3> QED  BY <3>5 DEF ResumedMayTake, MayTake
  <2> QED  BY <1>5, <2>2, <2>3, <2>4, <2>5 DEF SemNext, CallStep
<1> QED  BY <1>4, <1>5

----------------------------------------------------------------------------
(* The status a wait returns.                                              *)

StatusTypes == status \in [Tasks -> Errors \cup {"SUCCESS"}]

(* A task that was resumed for its semaphore takes the status the resumer  *)
(* gave for that semaphore.                                                *)
LEMMA ReturnedOne ==
  ASSUME Core, CallArguments, ResumedMayTake, NEW t \in Tasks, suspend_condition_remove(t)
  PROVE  /\ conds[t] = <<sem[t]>> /\ ReturnNum(t) = 1 /\ conds[t][ReturnNum(t)] = sem[t]
         /\ sem[t] \in Conditions
<1>0. Control /\ DataTypes
  BY DEF Core
<1>1. At(t, "sc_done") /\ Resumed(t)
  BY <1>0, DonePhase DEF suspend_condition_remove
<1>2. InSuspend(t) /\ Calling(t, "so_take")
  BY <1>0, <1>1, InSuspendAt, CallingIs
<1>3. /\ conds[t] = <<sem[t]>> /\ sem[t] \in Conditions
      /\ may_resume[t][sem[t]]
  BY <1>1, <1>2 DEF CallArguments, Arguments, ResumedMayTake
<1>4. PICK d : d = sem[t]
  OBVIOUS
<1>5. conds[t] = <<d>>
  BY <1>3, <1>4
<1>6. Len(conds[t]) = 1 /\ conds[t][1] = d
  BY <1>5
<1>7. \A n \in 1 .. Len(conds[t]) : n = 1
  BY <1>6
<1>8. PICK may : may = {n \in 1 .. Len(conds[t]) :
                          \/ susp_status[t][conds[t][n]] \in Errors
                          \/ may_resume[t][conds[t][n]]}
  OBVIOUS
<1>9. may = {1}
  <2>1. 1 \in may
    BY <1>3, <1>4, <1>6, <1>8
  <2>2. \A n \in may : n = 1
    BY <1>7, <1>8
  <2> QED  BY <2>1, <2>2
<1>10. ReturnNum(t) = CHOOSE n \in may : \A m \in may : m <= n
  BY <1>8, <1>9 DEF ReturnNum
<1>11. ReturnNum(t) = 1
  BY <1>9, <1>10
<1> QED  BY <1>3, <1>4, <1>6, <1>11

LEMMA StatusStep ==
  ASSUME Core, ResumedMayTake, StatusTypes, [SemNext]_vars
  PROVE  StatusTypes'
<1>0. Core /\ DataTypes
  BY DEF Core
<1>1. CASE UNCHANGED status
  BY <1>1 DEF StatusTypes
<1>2. ASSUME NEW t \in Tasks, NEW st \in Errors \cup {"SUCCESS"},
             status' = [status EXCEPT ![t] = st]
      PROVE  StatusTypes'
  BY <1>2 DEF StatusTypes
<1>3. "TIMEOUT" \in Errors /\ "BUSY" \in Errors
  BY DEF Errors
<1>4. CASE UNCHANGED vars
  BY <1>1, <1>4 DEF vars, condVars, suspendVars
<1>5. CASE SemNext
  <2>1. CallArguments
    BY DEF Core
  <2>2. CASE UNCHANGED condVars
    BY <1>1, <2>2 DEF condVars, suspendVars
  <2>3. ASSUME NEW t \in Tasks, ConditionCall(t)
        PROVE  StatusTypes'
    <3>1. CASE suspend_condition_remove(t)
      <4>1. \/ UNCHANGED status
            \/ status' = [status EXCEPT ![t] = WaitStatus(t, conds[t][ReturnNum(t)])]
        BY <3>1 DEF suspend_condition_remove
      <4>2. WaitStatus(t, conds[t][ReturnNum(t)]) \in Errors \cup {"SUCCESS"}
        BY <1>0, <2>1, <3>1, ReturnedOne DEF WaitStatus, DataTypes, CallTypes
      <4> QED  BY <1>1, <1>2, <4>1, <4>2
    <3>2. CASE suspend_condition_remove_all(t)
      <4>1. UNCHANGED status \/ status' = [status EXCEPT ![t] = "TIMEOUT"]
        BY <3>2 DEF suspend_condition_remove_all
      <4> QED  BY <1>1, <1>2, <1>3, <4>1
    <3>3. CASE ~ suspend_condition_remove(t) /\ ~ suspend_condition_remove_all(t)
      <4>1. UNCHANGED status
        BY <2>3, <3>3 DEF ConditionCall, suspend_timeout_get_min, suspend_do_suspend,
           suspend_condition_add_task, SuspendLock, SuspendSleep, SuspendInsert, SuspendSwitch,
           SuspendWoke, SuspendReturn,
           ResumeLock, ResumeOne, ResumeUnlock, ResumeYield, ResumeReturn, condVars, suspendVars
      <4> QED  BY <1>1, <4>1
    <3> QED  BY <3>1, <3>2, <3>3
  <2>4. ASSUME NEW t \in Tasks, SemaphoreCall(t)
        PROVE  StatusTypes'
    <3>1. CASE ObtainTest(t)
      <4>1. \/ status' = [status EXCEPT ![t] = "SUCCESS"]
            \/ status' = [status EXCEPT ![t] = "BUSY"]
        BY <3>1 DEF ObtainTest, suspend_condition
      <4> QED  BY <1>2, <1>3, <4>1
    <3>2. CASE ~ ObtainTest(t)
      <4>1. UNCHANGED status
        BY <2>4, <3>2 DEF SemaphoreCall, ObtainTake, ReleaseIncrement, DestroyClear, suspendVars
      <4> QED  BY <1>1, <4>1
    <3> QED  BY <3>1, <3>2
  <2>5. ASSUME NEW t \in Tasks, SemaphoreUse(t)
        PROVE  StatusTypes'
    <3>1. UNCHANGED status
      BY <2>5 DEF SemaphoreUse, semaphore_obtain, semaphore_release, semaphore_destroy,
                  condVars, suspendVars
    <3> QED  BY <1>1, <3>1
  <2> QED  BY <1>5, <2>2, <2>3, <2>4, <2>5
           DEF SemNext, CallStep, SemBoot, SemPendSV, SemTick, ConditionTick
<1> QED  BY <1>4, <1>5

----------------------------------------------------------------------------
(* The invariant of the semaphores.                                        *)

Sound ==
  /\ Core /\ CountExact /\ CountBounded /\ ReadyOK
  /\ WaitsKept /\ ResumedMayTake /\ StatusTypes

LEMMA SoundInit ==
  ASSUME SemInit
  PROVE  Sound
<1>1. Init /\ CondInit /\ Core
  BY CoreInit DEF SemInit
<1>2. CountExact /\ CountBounded
  <2>1. \A s : Holders(s) = {}
    BY DEF SemInit, Holders
  <2>2. Cardinality({}) = 0
    BY FS_EmptySet
  <2>3. count = MaxCount /\ MaxCount \in [Conditions -> 1 .. 255]
    BY SemaphoreAssumption DEF SemInit
  <2> QED  BY <2>1, <2>2, <2>3, CountOf DEF CountBounded
<1>3. ReadyOK
  BY <1>1, InitInvariant DEF ReadyOK, KernelInvariant
<1>4. \A t \in Tasks : Point(t, 1) = "user" /\ Point(t, 2) = "user" /\ Point(t, 3) = "user"
  <2>1. ASSUME NEW t \in Tasks, NEW s, s = <<"user">>
        PROVE  PointOf(s, 1) = "user" /\ PointOf(s, 2) = "user" /\ PointOf(s, 3) = "user"
    <3>1. Len(s) = 1 /\ s[1] = "user"
      BY <2>1
    <3> QED  BY <3>1 DEF PointOf
  <2>2. \A t \in Tasks : pc[t] = <<"user">>
    BY <1>1 DEF Init
  <2> QED  BY <2>1, <2>2, PointIs
<1>5. ASSUME NEW t \in Tasks
      PROVE  NoPhase(t) /\ ~ Calling(t, "sc_woke")
  BY <1>4, PhaseAt
<1>6. WaitsKept
  <2>1. mode = "boot" /\ ~ pend_sv /\ \A t \in Tasks : ~ Suspended(t)
    BY <1>1 DEF Init, Suspended
  <2> QED  BY <1>4, <1>5, <2>1 DEF WaitsKept, WaitForm
<1>7. ResumedMayTake
  BY <1>5 DEF ResumedMayTake, NoPhase
<1>8. StatusTypes
  BY <1>1 DEF StatusTypes, CondInit
<1> QED  BY <1>1, <1>2, <1>3, <1>6, <1>7, <1>8 DEF Sound

LEMMA SoundStep ==
  ASSUME Sound, [SemNext]_vars
  PROVE  Sound'
BY CoreStep, CountStep, ReadyStep, WaitsStep, MayTakeStep, StatusStep DEF Sound

LEMMA SoundTypes ==
  ASSUME Core, CountBounded, StatusTypes
  PROVE  SemTypeOK
<1>1. StateTypeOK /\ Stacks /\ DataTypes
  BY DEF Core, Control
<1>2. pc \in [Tasks -> Seq(Labels \cup ConditionLabels \cup SemaphoreLabels)]
  BY <1>1 DEF Stacks, AllLabels
<1>3. \A c \in Conditions : count[c] \in 0 .. MaxCount[c]
  BY <1>1, SemaphoreAssumption DEF CountBounded, DataTypes
<1> QED  BY <1>1, <1>2, <1>3 DEF SemTypeOK, DataTypes, StatusTypes

(* SemInvariant: the stacks of calls, the scheduler locks, the arguments   *)
(* of the calls, the count and the ready list of a system whose tasks use  *)
(* semaphores (semaphore.c, condition.c and the scheduler) stay right.     *)
THEOREM SemInvariantHolds == SemSpec => []SemInvariant
<1>1. Sound => SemInvariant
  <2> SUFFICES ASSUME Sound
               PROVE  SemInvariant
    OBVIOUS
  <2>1. Core /\ Control /\ DataTypes
    BY DEF Sound, Core
  <2>2. SemTypeOK
    BY SoundTypes DEF Sound
  <2>3. CallTypes /\ \A t \in Tasks : CallStack(pc[t])
    BY <2>1 DEF DataTypes, Control, Stacks
  <2>4. SemLocks /\ LockKeepsCPU /\ SemCurrent
    BY <2>1 DEF Control
  <2> QED  BY <2>1, <2>2, <2>3, <2>4 DEF SemInvariant, Sound, Core, ReadyOK
<1> QED  BY <1>1, SoundInit, SoundStep, PTL DEF SemSpec

(* SemTypeOK: every variable keeps its type; the count of a semaphore      *)
(* (semaphore.count) stays between 0 and max_count.                        *)
THEOREM SemTypesHold == SemSpec => []SemTypeOK
<1>1. SemInvariant => SemTypeOK
  BY DEF SemInvariant
<1> QED  BY <1>1, SemInvariantHolds, PTL

----------------------------------------------------------------------------
(* A task that resumes others keeps the CPU, while no semaphore is         *)
(* destroyed.                                                              *)

Resumer(t) ==
  IF Resumes(t) THEN Point(t, 1) \notin {"pend", "back"} ELSE resuming[t] = NoResume

LEMMA ResumerIs ==
  ResumerKeepsCPU <=> \A t \in Tasks : Resumer(t)
BY DEF ResumerKeepsCPU, Resumer

LEMMA ResumerAt ==
  ASSUME Core, destroyed = {}, NEW t \in Tasks, Resumer(t), Resumes(t)
  PROVE  /\ \/ Point(t, 1) \in ResumeLabels /\ Point(t, 2) = "unlock" /\ Point(t, 3) = "user"
            \/ /\ Point(t, 1) \in {"unlock", "drift"}
               /\ Point(t, 2) = "rc_yield" /\ Point(t, 3) = "unlock"
         /\ lock_count[t] >= 1
         /\ ~ Away(t)
<1>1. Control /\ Arguments(t)
  BY DEF Core, CallArguments
<1>2. ~ Calling(t, "sd_clear")
  BY <1>1 DEF Arguments
<1>3. /\ Point(t, 1) # "sd_clear" /\ Point(t, 2) # "sd_clear" /\ Point(t, 3) # "sd_clear"
      /\ \E label \in ResumeLabels :
           Point(t, 1) = label \/ Point(t, 2) = label \/ Point(t, 3) = label
  BY <1>2, CallingIs DEF Resumes
<1>4. StackForm(Point(t, 1), Point(t, 2), Point(t, 3))
  BY <1>1, TaskStack DEF Control
<1>5. \/ Point(t, 1) \in ResumeLabels /\ Point(t, 2) = "unlock" /\ Point(t, 3) = "user"
      \/ /\ Point(t, 1) \in {"unlock", "drift"}
         /\ Point(t, 2) = "rc_yield" /\ Point(t, 3) = "unlock"
  BY <1>3, <1>4 DEF StackForm, Resumer, ResumeLabels, SuspendLabels, ConditionLabels, Labels,
                    SemaphoreLabels
<1>6. lock_count[t] >= 1
  <2>1. /\ lock_count[t] >= Owes(Point(t, 1)) + Owes(Point(t, 2)) + Owes(Point(t, 3))
        /\ Owes(Point(t, 1)) \in {0, 1} /\ Owes(Point(t, 2)) \in {0, 1}
        /\ Owes(Point(t, 3)) \in {0, 1} /\ lock_count[t] \in Nat
    BY <1>1, LockFacts
  <2>2. Owes(Point(t, 2)) = 1 \/ Owes(Point(t, 3)) = 1
    BY <1>5 DEF Owes, Owing
  <2> QED  BY <2>1, <2>2
<1>7. ~ Away(t)
  <2>1. Point(t, 1) # "back"
    BY <1>5 DEF ResumeLabels
  <2> QED  BY <1>1, <1>6, <2>1 DEF Control, LockKeepsCPU
<1> QED  BY <1>5, <1>6, <1>7

(* No other task than the one that executes resumes.                       *)
LEMMA OnlyResumer ==
  ASSUME Core, destroyed = {}, ResumerKeepsCPU, NEW t \in Tasks, mode = "task", current_task = t,
         NEW u \in Tasks, u # t
  PROVE  ~ Resumes(u) /\ resuming[u] = NoResume
<1>1. Resumer(u)
  BY ResumerIs
<1>2. Away(u)
  BY DEF Away
<1> QED  BY <1>1, <1>2, ResumerAt DEF Resumer

(* The other tasks, when they enter no call.                               *)
LEMMA ResumerStays ==
  ASSUME NEW u, ~ Resumes(u), resuming[u] = NoResume, CallsKept(u), resuming'[u] = resuming[u]
  PROVE  Resumer(u)'
BY DEF Resumer, CallsKept

LEMMA KernelResumer ==
  ASSUME Core, destroyed = {}, ResumerKeepsCPU, NEW t \in Tasks, KernelCall(t) \/ UserCall(t),
         UNCHANGED resuming
  PROVE  ResumerKeepsCPU'
<1>0. Control /\ \A u \in Tasks : Resumer(u)
  BY ResumerIs DEF Core
<1>1. \A u \in Tasks : CallsKept(u)
  BY <1>0, KernelCallKeeps, UserCallKeeps
<1>2. mode = "task" /\ current_task = t
  BY DEF KernelCall, PEND_SV, RestoreLevel, scheduler_unlock, UnlockYield, SleepAdd, SleepInsert,
         SleepSuspend, UserCall, scheduler_lock, UserUnlock, task_yield, sleep_ticks,
         task_entry_return, scheduler_task_add, InUser, At, Executes
<1>3. \A u \in Tasks : u # t => Resumer(u)'
  BY <1>1, <1>2, OnlyResumer, ResumerStays
<1>4. CASE ~ Resumes(t)
  BY <1>0, <1>1, <1>3, <1>4, ResumerStays, ResumerIs DEF Resumer, ResumerKeepsCPU
<1>5. CASE Resumes(t)
  <2>1. /\ \/ Point(t, 1) \in ResumeLabels /\ Point(t, 2) = "unlock" /\ Point(t, 3) = "user"
           \/ /\ Point(t, 1) \in {"unlock", "drift"}
              /\ Point(t, 2) = "rc_yield" /\ Point(t, 3) = "unlock"
        /\ lock_count[t] >= 1
    BY <1>0, <1>5, ResumerAt
  <2>2. lock_count[t] # 0
    BY <1>0, <2>1, LockFacts
  <2>3. scheduler_unlock(t) \/ UnlockYield(t)
    <3>1. CASE KernelCall(t)
      <4>1. \A label : At(t, label) => label \in ResumeLabels \cup {"unlock", "drift"}
        BY <1>0, <2>1, ExecFacts
      <4>2. PEND_SV(t) => At(t, "pend")
        BY DEF PEND_SV
      <4>3. RestoreLevel(t) => At(t, "back")
        BY DEF RestoreLevel
      <4>4. /\ SleepAdd(t) => At(t, "sl_add")
            /\ SleepInsert(t) => At(t, "sl_insert")
            /\ SleepSuspend(t) => At(t, "sl_suspend")
        BY DEF SleepAdd, SleepInsert, SleepSuspend
      <4>5. {"pend", "back", "sl_add", "sl_insert", "sl_suspend"}
              \cap (ResumeLabels \cup {"unlock", "drift"}) = {}
        BY DEF ResumeLabels
      <4> QED  BY <3>1, <4>1, <4>2, <4>3, <4>4, <4>5 DEF KernelCall
    <3>2. CASE UserCall(t)
      <4>1. InUser(t)
        BY <3>2 DEF UserCall, scheduler_lock, UserUnlock, task_yield, sleep_ticks,
                    task_entry_return, scheduler_task_add
      <4>2. Point(t, 1) = "user"
        BY <1>0, <4>1, UserFacts
      <4> QED  BY <2>1, <4>2 DEF ResumeLabels
    <3> QED  BY <3>1, <3>2
  <2>4. PICK p : p = Point(t, 1)
    OBVIOUS
  <2>5. /\ p \in {"unlock", "drift"}
        /\ Point(t, 2) = "rc_yield" /\ Point(t, 3) = "unlock"
    <3>1. At(t, "unlock") \/ At(t, "drift")
      BY <2>3 DEF scheduler_unlock, UnlockYield
    <3>2. Point(t, 1) \in {"unlock", "drift"}
      BY <1>0, <3>1, ExecFacts
    <3> QED  BY <2>1, <2>4, <3>2 DEF ResumeLabels
  <2>6. \/ NewStack(t, "drift", "rc_yield", "unlock")
        \/ NewStack(t, "rc_yield", "unlock", "user")
    <3>1. CASE scheduler_unlock(t)
      BY <1>0, <2>5, <3>1, UnlockControl
    <3>2. CASE UnlockYield(t)
      <4>1. Go(t, <<>>) /\ At(t, "drift")
        BY <2>2, <3>2 DEF UnlockYield
      <4>2. Stacks /\ Point(t, 1) = "drift"
        BY <1>0, <4>1, ExecFacts
      <4>3. NewStack(t, Point(t, 2), Point(t, 3), "user")
        BY <4>1, <4>2, GoPop
      <4> QED  BY <2>5, <4>3
    <3> QED  BY <2>3, <3>1, <3>2
  <2>7. Resumes(t)' /\ Point(t, 1)' \notin {"pend", "back"}
    <3>1. Calling(t, "rc_yield")' /\ Point(t, 1)' \in {"drift", "rc_yield"}
      BY <2>6, NewCalling
    <3> QED  BY <3>1 DEF Resumes, ResumeLabels
  <2>8. Resumer(t)'
    BY <2>7 DEF Resumer
  <2> QED  BY <1>3, <2>8, ResumerIs DEF Resumer, ResumerKeepsCPU
<1> QED  BY <1>4, <1>5

LEMMA SuspendResumer ==
  ASSUME Core, destroyed = {}, ResumerKeepsCPU, NEW t \in Tasks,
         \/ suspend_timeout_get_min(t) \/ suspend_do_suspend(t)
         \/ suspend_condition_add_task(t) \/ SuspendLock(t)
         \/ SuspendSleep(t) \/ SuspendInsert(t) \/ SuspendSwitch(t) \/ SuspendWoke(t)
         \/ suspend_condition_remove_all(t) \/ suspend_condition_remove(t)
         \/ SuspendReturn(t)
  PROVE  ResumerKeepsCPU'
<1>0. Control /\ DataTypes /\ \A u \in Tasks : Resumer(u)
  BY ResumerIs DEF Core
<1>1. PICK label \in SuspendLabels : At(t, label)
  BY DEF suspend_timeout_get_min, suspend_do_suspend, suspend_condition_add_task,
         SuspendLock, SuspendSleep, SuspendInsert, SuspendSwitch, SuspendWoke,
         suspend_condition_remove_all, suspend_condition_remove, SuspendReturn,
         SuspendLabels, ConditionLabels, ResumeLabels
<1>2. /\ mode = "task" /\ current_task = t
      /\ Point(t, 1) = label /\ Point(t, 2) = "so_take" /\ Point(t, 3) = "user"
  BY <1>0, <1>1, SuspendPoint
<1>3. ~ Resumes(t)
  BY <1>2, CallingIs DEF Resumes, SuspendLabels, ResumeLabels
<1>4. \A u \in Tasks : ~ Resumes(u) /\ resuming[u] = NoResume
  BY <1>0, <1>2, <1>3, OnlyResumer DEF Resumer
<1>5. UNCHANGED resuming
  BY DEF suspend_timeout_get_min, suspend_do_suspend, suspend_condition_add_task,
         SuspendLock, SuspendSleep, SuspendInsert, SuspendSwitch, SuspendWoke, condVars,
         suspend_condition_remove_all, suspend_condition_remove, SuspendReturn
<1>6. ASSUME UNCHANGED pc
      PROVE  ResumerKeepsCPU'
  <2>1. \A u \in Tasks : CallsKept(u)
    BY <1>6, PointsStay
  <2>2. \A u \in Tasks : Resumer(u)'
    BY <1>4, <1>5, <2>1, ResumerStays
  <2> QED  BY <2>2 DEF ResumerKeepsCPU, Resumer
<1>7. ASSUME NEW a, NEW b, NEW c, NewStack(t, a, b, c),
             a \notin ResumeLabels, b \notin ResumeLabels, c \notin ResumeLabels
      PROVE  ResumerKeepsCPU'
  <2>1. ~ Resumes(t)'
    BY <1>7, NewCalling DEF Resumes
  <2>2. Resumer(t)'
    BY <1>4, <1>5, <2>1 DEF Resumer
  <2>3. ASSUME NEW u \in Tasks, u # t
        PROVE  Resumer(u)'
    <3>1. CallsKept(u)
      BY <1>7, <2>3, SamePoints DEF NewStack
    <3> QED  BY <1>4, <1>5, <3>1, ResumerStays
  <2> QED  BY <2>2, <2>3 DEF ResumerKeepsCPU, Resumer
<1>8. CASE SuspendReturn(t)
  <2>1. NewStack(t, "so_take", "user", "user")
    BY <1>0, <1>8, ReturnControl
  <2> QED  BY <1>7, <2>1 DEF ResumeLabels
<1>9. CASE ~ SuspendReturn(t)
  <2>1. \/ UNCHANGED pc
        \/ \E a, b, c : NewStack(t, a, b, c) /\ Inside(a, b, c)
    BY <1>0, <1>9, SuspendStacks
  <2> QED  BY <1>6, <1>7, <2>1 DEF Inside
<1> QED  BY <1>8, <1>9

LEMMA ResumeResumer ==
  ASSUME Core, destroyed = {}, ResumerKeepsCPU, NEW t \in Tasks,
         \/ ResumeLock(t) \/ ResumeOne(t) \/ ResumeUnlock(t) \/ ResumeYield(t)
         \/ ResumeReturn(t)
  PROVE  ResumerKeepsCPU'
<1>0. Control /\ DataTypes /\ \A u \in Tasks : Resumer(u)
  BY ResumerIs DEF Core
<1>1. PICK label \in ResumeLabels : At(t, label)
  BY DEF ResumeLock, ResumeOne, ResumeUnlock, ResumeYield, ResumeReturn, ResumeLabels
<1>2. /\ mode = "task" /\ current_task = t /\ Point(t, 1) = label
  BY <1>0, <1>1, ResumePoint
<1>3. Resumes(t)
  BY <1>2, CallingIs DEF Resumes
<1>4. Point(t, 2) = "unlock" /\ Point(t, 3) = "user" /\ lock_count[t] # 0
  <2>1. \/ Point(t, 2) = "unlock" /\ Point(t, 3) = "user"
        \/ Point(t, 2) = "rc_yield" /\ Point(t, 1) \in {"unlock", "drift"}
    BY <1>0, <1>3, ResumerAt
  <2>2. lock_count[t] >= 1 /\ lock_count[t] \in Nat
    BY <1>0, <1>3, ResumerAt, LockFacts
  <2> QED  BY <1>2, <2>1, <2>2 DEF ResumeLabels
<1>5. \A u \in Tasks : u # t => ~ Resumes(u) /\ resuming[u] = NoResume /\ resuming'[u] = resuming[u]
  <2>1. \A u \in Tasks : u # t => ~ Resumes(u) /\ resuming[u] = NoResume
    BY <1>2, OnlyResumer
  <2>2. \/ UNCHANGED resuming
        \/ \E x : resuming' = [resuming EXCEPT ![t] = x]
        \/ \E x, y : resuming' = [resuming EXCEPT ![t].num = x, ![t].yield = y]
        \/ \E x, y : resuming' = [resuming EXCEPT ![t].num = x, ![t].tmp = y]
    <3>1. CASE ResumeOne(t)
      <4>1. PICK r, w : r = resuming[t] /\ w = Head(suspend_list[r.cond])
        OBVIOUS
      <4>2. \/ resuming' = [resuming EXCEPT ![t].num = r.num - 1, ![t].yield = TRUE]
            \/ resuming' = [resuming EXCEPT ![t].num = r.num - 1, ![t].tmp = sll_push(@, w)]
        BY <3>1, <4>1 DEF ResumeOne
      <4>3. CASE resuming' = [resuming EXCEPT ![t].num = r.num - 1, ![t].yield = TRUE]
        BY <4>3
      <4>4. CASE resuming' = [resuming EXCEPT ![t].num = r.num - 1, ![t].tmp = sll_push(@, w)]
        <5>1. resuming' = [resuming EXCEPT ![t].num = r.num - 1,
                                           ![t].tmp = sll_push(resuming[t].tmp, w)]
          BY <4>4
        <5> QED  BY <5>1
      <4> QED  BY <4>2, <4>3, <4>4
    <3>2. CASE ResumeReturn(t)
      BY <3>2 DEF ResumeReturn
    <3> QED  BY <3>1, <3>2 DEF ResumeLock, ResumeUnlock, ResumeYield, condVars
  <2>3. resuming \in [Tasks -> ResumeRecords]
    BY <1>0 DEF DataTypes, CallTypes, ResumeRecords
  <2>4. \A u \in Tasks : u # t => resuming'[u] = resuming[u]
    BY <2>2, <2>3
  <2> QED  BY <2>1, <2>4
<1>6. CASE ResumeOne(t)
  <2>1. \A u \in Tasks : /\ Point(u, 1)' = Point(u, 1) /\ Point(u, 2)' = Point(u, 2)
                          /\ Point(u, 3)' = Point(u, 3)
    BY <1>6 DEF ResumeOne, Point
  <2>2. \A u \in Tasks : CallsKept(u)
    BY <2>1, SamePoints
  <2>3. Resumes(t)'
    BY <1>3, <2>1, SamePoints DEF Resumes
  <2>4. Resumer(t)'
    BY <1>0, <1>3, <2>1, <2>3 DEF Resumer
  <2>5. \A u \in Tasks : u # t => Resumer(u)'
    BY <1>5, <2>2, ResumerStays
  <2> QED  BY <2>4, <2>5 DEF ResumerKeepsCPU, Resumer
<1>7. ASSUME NEW a, NEW b, NEW c, NewStack(t, a, b, c), Resumer(t)'
      PROVE  ResumerKeepsCPU'
  <2>1. ASSUME NEW u \in Tasks, u # t
        PROVE  Resumer(u)'
    <3>1. CallsKept(u)
      BY <1>7, <2>1, SamePoints DEF NewStack
    <3> QED  BY <1>5, <2>1, <3>1, ResumerStays
  <2> QED  BY <1>7, <2>1 DEF ResumerKeepsCPU, Resumer
<1>8. ASSUME NEW a \in {"rc_loop", "rc_back", "unlock"}, NEW b, NEW c, NewStack(t, a, b, c),
             a \in ResumeLabels \/ b \in ResumeLabels
      PROVE  ResumerKeepsCPU'
  <2>1. Resumes(t)'
    BY <1>8, NewCalling DEF Resumes
  <2>2. Point(t, 1)' \notin {"pend", "back"}
    BY <1>8, NewCalling
  <2> QED  BY <1>7, <1>8, <2>1, <2>2 DEF Resumer
<1>9. "rc_loop" \in ResumeLabels /\ "rc_yield" \in ResumeLabels /\ "rc_back" \in ResumeLabels
  BY DEF ResumeLabels
<1>10. CASE ResumeLock(t)
  BY <1>0, <1>8, <1>9, <1>10, ResumeLockControl
<1>11. CASE ResumeUnlock(t)
  BY <1>0, <1>8, <1>9, <1>11, ResumeUnlockControl
<1>12. CASE ResumeYield(t)
  <2>1. At(t, "rc_yield") /\ Go(t, <<"rc_back">>)
    BY <1>4, <1>12 DEF ResumeYield
  <2>2. Stacks /\ "rc_back" \in Above(Point(t, 2)) /\ Point(t, 1) # "user"
    BY <1>0, <1>2, <1>4, <1>9, <2>1, ResumePoint, ExecFacts, AboveIs DEF ResumeLabels
  <2>3. NewStack(t, "rc_back", Point(t, 2), Point(t, 3))
    BY <2>1, <2>2, GoStep
  <2> QED  BY <1>8, <1>9, <2>3
<1>13. CASE ResumeReturn(t)
  <2>1. NewStack(t, "unlock", "user", "user")
    BY <1>0, <1>4, <1>13, ResumeReturnControl
  <2>2. ~ Resumes(t)'
    BY <2>1, NewCalling DEF Resumes, ResumeLabels
  <2>3. resuming'[t] = NoResume
    BY <1>0, <1>13 DEF ResumeReturn, DataTypes, CallTypes
  <2> QED  BY <1>7, <2>1, <2>2, <2>3 DEF Resumer
<1> QED  BY <1>6, <1>10, <1>11, <1>12, <1>13

(* The semaphore functions, while none is destroyed.                       *)
LEMMA NotDestroyed ==
  ASSUME MayDestroy = {}, Core, destroyed = {}, NEW t \in Tasks, SemaphoreCall(t) \/ SemaphoreUse(t)
  PROVE  /\ mode = "task" /\ current_task = t /\ Point(t, 2) = "user" /\ Point(t, 3) = "user"
         /\ Point(t, 1) \in SemaphoreLabels \cup {"user"}
         /\ ReleaseIncrement(t) => NewStack(t, "rc_lock", "unlock", "user")
         /\ ~ ReleaseIncrement(t) =>
              \/ UNCHANGED pc
              \/ \E a \in {"so_take", "so_test", "sr_inc", "sc_timeout", "unlock"},
                    b \in {"so_take", "user"} : NewStack(t, a, b, "user")
         /\ ~ ReleaseIncrement(t) => UNCHANGED resuming
         /\ UNCHANGED <<destroyed, suspend_list>>
<1>0. Control /\ DataTypes /\ CallArguments
  BY DEF Core
<1>1. ~ DestroyClear(t) /\ \A s : ~ semaphore_destroy(t, s)
  <2>1. ASSUME DestroyClear(t)
        PROVE  FALSE
    <3>1. At(t, "sd_clear")
      BY <2>1 DEF DestroyClear
    <3> QED  BY <1>0, <3>1, ItsSemaphore
  <2> QED  BY <2>1 DEF semaphore_destroy
<1>2. \/ ObtainTest(t) \/ ObtainTake(t) \/ ReleaseIncrement(t)
      \/ \E s \in Conditions : \/ \E w \in Waits : semaphore_obtain(t, s, w)
                               \/ semaphore_release(t, s)
  BY <1>1 DEF SemaphoreCall, SemaphoreUse
<1>3. (\E label \in SemaphoreLabels : At(t, label)) \/ InUser(t)
  BY <1>2 DEF ObtainTest, ObtainTake, ReleaseIncrement, semaphore_obtain, semaphore_release,
              EnterLocked, SemaphoreLabels
<1>4. /\ mode = "task" /\ current_task = t /\ Point(t, 2) = "user" /\ Point(t, 3) = "user"
      /\ Point(t, 1) \in SemaphoreLabels \cup {"user"}
  BY <1>0, <1>3, SemaphorePoint, UserFacts
<1>5. ReleaseIncrement(t) => NewStack(t, "rc_lock", "unlock", "user")
  BY <1>0, IncrementControl
<1>6. ASSUME ~ ReleaseIncrement(t)
      PROVE  \/ UNCHANGED pc
             \/ \E a \in {"so_take", "so_test", "sr_inc", "sc_timeout", "unlock"},
                   b \in {"so_take", "user"} : NewStack(t, a, b, "user")
  <2>1. CASE ObtainTest(t)
    BY <1>0, <2>1, ObtainTestControl
  <2>2. CASE ObtainTake(t)
    BY <1>0, <2>2, ObtainTakeControl
  <2>3. ASSUME NEW s, NEW w, semaphore_obtain(t, s, w)
        PROVE  NewStack(t, "so_test", "user", "user")
    <3>1. EnterLocked(t, s, "so_test")
      BY <2>3 DEF semaphore_obtain
    <3> QED  BY <1>0, <3>1, EnterControl
  <2>4. ASSUME NEW s, semaphore_release(t, s)
        PROVE  NewStack(t, "sr_inc", "user", "user") \/ UNCHANGED pc
    BY <1>0, <2>4, ReleaseControl
  <2> QED  BY <1>2, <1>6, <2>1, <2>2, <2>3, <2>4
<1>7. ~ ReleaseIncrement(t) => UNCHANGED resuming
  BY <1>2 DEF ObtainTest, ObtainTake, semaphore_obtain, semaphore_release, condVars
<1>8. UNCHANGED <<destroyed, suspend_list>>
  BY <1>2 DEF ObtainTest, ObtainTake, ReleaseIncrement, semaphore_obtain, semaphore_release,
              condVars, semVars
<1> QED  BY <1>4, <1>5, <1>6, <1>7, <1>8

LEMMA SemaphoreResumer ==
  ASSUME MayDestroy = {}, Core, destroyed = {}, ResumerKeepsCPU, NEW t \in Tasks,
         SemaphoreCall(t) \/ SemaphoreUse(t)
  PROVE  ResumerKeepsCPU'
<1>0. Control /\ DataTypes /\ \A u \in Tasks : Resumer(u)
  BY ResumerIs DEF Core
<1>1. /\ mode = "task" /\ current_task = t /\ Point(t, 2) = "user" /\ Point(t, 3) = "user"
      /\ Point(t, 1) \in SemaphoreLabels \cup {"user"}
  BY NotDestroyed
<1>2. ~ Resumes(t)
  BY <1>1, CallingIs DEF Resumes, SemaphoreLabels, ResumeLabels
<1>3. \A u \in Tasks : ~ Resumes(u) /\ resuming[u] = NoResume
  BY <1>0, <1>1, <1>2, OnlyResumer DEF Resumer
<1>4. CASE ReleaseIncrement(t)
  <2>1. NewStack(t, "rc_lock", "unlock", "user")
    BY <1>4, NotDestroyed
  <2>2. Resumes(t)' /\ Point(t, 1)' = "rc_lock"
    BY <2>1, NewCalling DEF Resumes, ResumeLabels
  <2>3. ASSUME NEW u \in Tasks, u # t
        PROVE  Resumer(u)'
    <3>1. CallsKept(u)
      BY <2>1, <2>3, SamePoints DEF NewStack
    <3>2. resuming'[u] = resuming[u]
      BY <1>0, <1>4, <2>3, IncrementData DEF Core
    <3> QED  BY <1>3, <3>1, <3>2, ResumerStays
  <2> QED  BY <2>2, <2>3 DEF ResumerKeepsCPU, Resumer
<1>5. CASE ~ ReleaseIncrement(t)
  <2>1. UNCHANGED resuming
    BY <1>5, NotDestroyed
  <2>2. CASE UNCHANGED pc
    <3>1. \A u \in Tasks : CallsKept(u)
      BY <2>2, PointsStay
    <3>2. \A u \in Tasks : Resumer(u)'
      BY <1>3, <2>1, <3>1, ResumerStays
    <3> QED  BY <3>2 DEF ResumerKeepsCPU, Resumer
  <2>3. ASSUME NEW a \in {"so_take", "so_test", "sr_inc", "sc_timeout", "unlock"},
               NEW b \in {"so_take", "user"}, NewStack(t, a, b, "user")
        PROVE  ResumerKeepsCPU'
    <3>1. ~ Resumes(t)'
      BY <2>3, NewCalling DEF Resumes, ResumeLabels
    <3>2. Resumer(t)'
      BY <1>3, <2>1, <3>1 DEF Resumer
    <3>3. ASSUME NEW u \in Tasks, u # t
          PROVE  Resumer(u)'
      <4>1. CallsKept(u)
        BY <2>3, <3>3, SamePoints DEF NewStack
      <4> QED  BY <1>3, <2>1, <4>1, ResumerStays
    <3> QED  BY <3>2, <3>3 DEF ResumerKeepsCPU, Resumer
  <2> QED  BY <1>5, <2>2, <2>3, NotDestroyed
<1> QED  BY <1>4, <1>5

LEMMA ResumerStep ==
  ASSUME MayDestroy = {}, Core, destroyed = {}, ResumerKeepsCPU, [SemNext]_vars
  PROVE  ResumerKeepsCPU' /\ destroyed' = {}
<1>0. Control
  BY DEF Core
<1>1. CASE UNCHANGED <<pc, resuming, destroyed>>
  <2>1. \A u \in Tasks : /\ Point(u, 1)' = Point(u, 1) /\ Point(u, 2)' = Point(u, 2)
                          /\ Point(u, 3)' = Point(u, 3)
    BY <1>1 DEF Point
  <2>2. \A u \in Tasks : Resumes(u)' <=> Resumes(u)
    BY <2>1, SamePoints DEF Resumes
  <2> QED  BY <1>1, <2>1, <2>2 DEF ResumerKeepsCPU
<1>2. CASE UNCHANGED vars
  BY <1>1, <1>2 DEF vars, kernelVars, condVars, semVars
<1>3. CASE SemNext
  <2>1. CASE SemBoot \/ SemPendSV \/ SemTick
    <3>1. /\ Boot \/ PendSV \/ isr_sysclock_handle
          /\ UNCHANGED <<resuming, destroyed>>
      BY <2>1 DEF SemBoot, SemPendSV, SemTick, ConditionTick, condVars, semVars
    <3>2. UNCHANGED pc
      BY <3>1 DEF Boot, BootAdd, run_first_task, PendSV, SaveCurrent, LoadNext,
         sleep_process_system_tick, isr_sysclock_handle
    <3> QED  BY <1>1, <3>1, <3>2
  <2>2. ASSUME NEW t \in Tasks, KernelCall(t) \/ UserCall(t), UNCHANGED <<condVars, semVars>>
        PROVE  ResumerKeepsCPU' /\ destroyed' = {}
    BY <2>2, KernelResumer DEF condVars, semVars
  <2>3. ASSUME NEW t \in Tasks, ConditionCall(t), UNCHANGED semVars
        PROVE  ResumerKeepsCPU' /\ destroyed' = {}
    BY <2>3, SuspendResumer, ResumeResumer DEF ConditionCall, semVars
  <2>4. ASSUME NEW t \in Tasks, SemaphoreCall(t) \/ SemaphoreUse(t)
        PROVE  ResumerKeepsCPU' /\ destroyed' = {}
    BY <2>4, SemaphoreResumer, NotDestroyed
  <2> QED  BY <1>3, <2>1, <2>2, <2>3, <2>4 DEF SemNext, CallStep
<1> QED  BY <1>2, <1>3

----------------------------------------------------------------------------
(* The suspend lists, while no semaphore is destroyed.                     *)

(* A task that may be, and one that must be, on the list of its semaphore. *)
MayBeListed(t) == Queued(t) \/ Waiting(t) \/ TimedOut(t)
Listed(t)      == Queued(t) \/ Waiting(t)

ListOK(s) ==
  /\ NoDuplicates(suspend_list[s])
  /\ \A t \in ToSet(suspend_list[s]) : s = sem[t] /\ MayBeListed(t)
  /\ \A t \in Tasks : sem[t] = s /\ Listed(t) => t \in ToSet(suspend_list[s])
  /\ \A u \in Tasks : resuming[u].cond = s =>
       /\ NoDuplicates(resuming[u].tmp)
       /\ \A t \in ToSet(resuming[u].tmp) :
            s = sem[t] /\ MayBeListed(t) /\ t \notin ToSet(suspend_list[s])

LEMMA ListsAre ==
  ASSUME SuspendLists, NEW s \in Conditions
  PROVE  ListOK(s)
<1>1. \A u \in Tasks : resuming[u].cond = s => \A t \in ToSet(resuming[u].tmp) : t \in Aside(s)
  BY DEF Aside
<1> QED  BY <1>1 DEF SuspendLists, ListOK, MayBeListed, Listed

LEMMA AsideIs ==
  ASSUME NEW s, NEW t
  PROVE  t \in Aside(s)' <=>
           \E u \in Tasks : resuming'[u].cond = s /\ t \in ToSet(resuming'[u].tmp)
BY DEF Aside

LEMMA ListsMake ==
  ASSUME \A s \in Conditions : ListOK(s)'
  PROVE  SuspendLists'
<1> SUFFICES ASSUME NEW s \in Conditions
             PROVE  /\ NoDuplicates(suspend_list[s])'
                    /\ \A t \in ToSet(suspend_list'[s]) \cup Aside(s)' :
                         s = sem'[t] /\ (Queued(t)' \/ Waiting(t)' \/ TimedOut(t)')
                    /\ \A t \in Tasks :
                         sem'[t] = s /\ (Queued(t)' \/ Waiting(t)') => t \in ToSet(suspend_list'[s])
                    /\ \A t \in Tasks : resuming'[t].cond = s =>
                         /\ NoDuplicates(resuming'[t].tmp)
                         /\ ToSet(resuming'[t].tmp) \cap ToSet(suspend_list'[s]) = {}
  BY DEF SuspendLists
<1>1. ListOK(s)'
  OBVIOUS
<1>2. \A t \in ToSet(suspend_list'[s]) \cup Aside(s)' :
        s = sem'[t] /\ (Queued(t)' \/ Waiting(t)' \/ TimedOut(t)')
  BY <1>1, AsideIs DEF ListOK, MayBeListed
<1>3. \A t \in Tasks : resuming'[t].cond = s =>
        ToSet(resuming'[t].tmp) \cap ToSet(suspend_list'[s]) = {}
  BY <1>1 DEF ListOK
<1> QED  BY <1>1, <1>2, <1>3 DEF ListOK, Listed

LEMMA ToSetTasks ==
  ASSUME NEW l \in Seq(Tasks)
  PROVE  ToSet(l) \subseteq Tasks
BY DEF ToSet

LEMMA ListTypes ==
  ASSUME DataTypes
  PROVE  /\ \A s \in Conditions : suspend_list[s] \in Seq(Tasks) /\ ToSet(suspend_list[s]) \subseteq Tasks
         /\ \A u \in Tasks : resuming[u] \in ResumeRecords /\ resuming[u].tmp \in Seq(Tasks)
                             /\ ToSet(resuming[u].tmp) \subseteq Tasks
<1>1. /\ \A s \in Conditions : suspend_list[s] \in Seq(Tasks)
      /\ \A u \in Tasks : resuming[u] \in ResumeRecords
  BY DEF DataTypes, CallTypes, ResumeRecords
<1>2. \A u \in Tasks : resuming[u].tmp \in Seq(Tasks)
  BY <1>1 DEF ResumeRecords
<1> QED  BY <1>1, <1>2, ToSetTasks

(* How far the waits get while the lists stay.                             *)
ListedKept(u) ==
  /\ MayBeListed(u) => MayBeListed(u)' /\ sem'[u] = sem[u]
  /\ Listed(u)' => Listed(u) /\ sem'[u] = sem[u]

LEMMA PhaseListed ==
  ASSUME NEW u,
         \/ PhaseKept(u)
         \/ Waiting(u) /\ NextPhase(u, "timed out")
         \/ Queued(u) /\ NextPhase(u, "waiting"),
         MayBeListed(u) => sem'[u] = sem[u]
  PROVE  ListedKept(u)
BY DEF ListedKept, MayBeListed, Listed, PhaseKept, NextPhase

LEMMA ListsStay ==
  ASSUME DataTypes, SuspendLists, UNCHANGED suspend_list,
         \A u \in Tasks : \/ resuming'[u].tmp = <<>>
                          \/ resuming'[u].cond = resuming[u].cond /\ resuming'[u].tmp = resuming[u].tmp,
         \A u \in Tasks : ListedKept(u)
  PROVE  SuspendLists'
<1> SUFFICES ASSUME NEW s \in Conditions
             PROVE  ListOK(s)'
  BY ListsMake
<1>1. ListOK(s)
  BY ListsAre
<1>2. /\ ToSet(suspend_list[s]) \subseteq Tasks
      /\ \A u \in Tasks : ToSet(resuming[u].tmp) \subseteq Tasks
  BY ListTypes
<1>3. ToSet(<<>>) = {} /\ NoDuplicates(<<>>)
  BY DEF ToSet, NoDuplicates
<1>4. \A t \in ToSet(suspend_list'[s]) : s = sem'[t] /\ MayBeListed(t)'
  BY <1>1, <1>2 DEF ListOK, ListedKept
<1>5. \A t \in Tasks : sem'[t] = s /\ Listed(t)' => t \in ToSet(suspend_list'[s])
  BY <1>1 DEF ListOK, ListedKept
<1>6. ASSUME NEW u \in Tasks, resuming'[u].cond = s
      PROVE  /\ NoDuplicates(resuming'[u].tmp)
             /\ \A t \in ToSet(resuming'[u].tmp) :
                  s = sem'[t] /\ MayBeListed(t)' /\ t \notin ToSet(suspend_list'[s])
  <2>1. CASE resuming'[u].tmp = <<>>
    BY <1>3, <2>1
  <2>2. CASE resuming'[u].cond = resuming[u].cond /\ resuming'[u].tmp = resuming[u].tmp
    BY <1>1, <1>2, <1>6, <2>2 DEF ListOK, ListedKept
  <2> QED  BY <2>1, <2>2
<1> QED  BY <1>1, <1>4, <1>5, <1>6 DEF ListOK

(* What is known of the semaphore of a task in suspend_condition.          *)
LEMMA SuspendAt ==
  ASSUME Core, NEW t \in Tasks,
         NEW label \in {"sc_timeout", "sc_check", "sc_append", "sc_lock", "sc_sleep", "sc_insert",
                        "sc_suspend", "sc_woke", "sc_done", "sc_end"},
         At(t, label)
  PROVE  /\ conds[t] = <<sem[t]>> /\ ToSet(conds[t]) = {sem[t]} /\ sem[t] \in Conditions
         /\ Point(t, 1) = label /\ Point(t, 2) = "so_take" /\ Point(t, 3) = "user"
         /\ mode = "task" /\ current_task = t
<1>1. Control /\ Arguments(t)
  BY DEF Core, CallArguments
<1>2. /\ Point(t, 1) = label /\ Point(t, 2) = "so_take" /\ Point(t, 3) = "user"
      /\ mode = "task" /\ current_task = t
  BY <1>1, InSuspendAt, ExecFacts
<1>3. InSuspend(t) /\ Calling(t, "so_take")
  BY <1>2, CallingIs
<1>4. conds[t] = <<sem[t]>> /\ sem[t] \in Conditions
  BY <1>1, <1>3 DEF Arguments
<1>5. PICK l : l = <<sem[t]>>
  OBVIOUS
<1>6. ToSet(l) = {sem[t]}
  BY <1>4, <1>5, SingleMembers
<1> QED  BY <1>2, <1>4, <1>5, <1>6

LEMMA AddLists ==
  ASSUME Core, SuspendLists, NEW t \in Tasks, suspend_condition_add_task(t), UNCHANGED semVars
  PROVE  SuspendLists'
<1>0. Control /\ DataTypes
  BY DEF Core
<1>1. PICK c \in Conditions : c = sem[t] /\ ToSet(conds[t]) = {c}
  BY SuspendAt DEF suspend_condition_add_task
<1>2. UNCHANGED <<sem, resuming>>
  BY DEF suspend_condition_add_task, semVars
<1>3. /\ suspend_list'[c] = sll_append(suspend_list[c], t)
      /\ \A s \in Conditions : s # c => suspend_list'[s] = suspend_list[s]
  BY <1>1 DEF suspend_condition_add_task
<1>4. NoPhase(t) /\ NextPhase(t, "queued") /\ \A u \in Tasks : u # t => PhaseKept(u)
  BY <1>0, AddPhase, SuspendOthers
<1>5. ~ MayBeListed(t) /\ ~ Listed(t) /\ MayBeListed(t)' /\ Listed(t)'
  BY <1>4 DEF NoPhase, NextPhase, MayBeListed, Listed
<1>6. \A u \in Tasks : u # t => (MayBeListed(u)' <=> MayBeListed(u)) /\ (Listed(u)' <=> Listed(u))
  BY <1>4 DEF PhaseKept, MayBeListed, Listed
<1>7. ASSUME NEW s \in Conditions
      PROVE  ListOK(s)'
  <2>1. ListOK(s) /\ suspend_list[s] \in Seq(Tasks) /\ ToSet(suspend_list[s]) \subseteq Tasks
        /\ \A u \in Tasks : ToSet(resuming[u].tmp) \subseteq Tasks
    BY <1>0, ListsAre, ListTypes
  <2>2. t \notin ToSet(suspend_list[s])
        /\ \A u \in Tasks : resuming[u].cond = s => t \notin ToSet(resuming[u].tmp)
    BY <1>5, <2>1 DEF ListOK
  <2>3. CASE s = c
    <3>1. /\ ToSet(suspend_list'[s]) = ToSet(suspend_list[s]) \cup {t}
          /\ NoDuplicates(suspend_list'[s])
      BY <1>3, <2>1, <2>2, <2>3, SllAppendMembers DEF ListOK
    <3>2. \A u \in ToSet(suspend_list'[s]) : sem'[u] = s /\ MayBeListed(u)'
      BY <1>1, <1>2, <1>5, <1>6, <2>1, <2>3, <3>1 DEF ListOK
    <3>3. \A u \in Tasks : sem'[u] = s /\ Listed(u)' => u \in ToSet(suspend_list'[s])
      BY <1>2, <1>6, <2>1, <3>1 DEF ListOK
    <3>4. \A u \in Tasks : resuming'[u].cond = s =>
            /\ NoDuplicates(resuming'[u].tmp)
            /\ \A v \in ToSet(resuming'[u].tmp) :
                 s = sem'[v] /\ MayBeListed(v)' /\ v \notin ToSet(suspend_list'[s])
      BY <1>2, <1>6, <2>1, <2>2, <3>1 DEF ListOK
    <3> QED  BY <3>1, <3>2, <3>3, <3>4 DEF ListOK
  <2>4. CASE s # c
    <3>1. suspend_list'[s] = suspend_list[s]
      BY <1>3, <2>4
    <3>2. \A u \in ToSet(suspend_list'[s]) : sem'[u] = s /\ MayBeListed(u)'
      BY <1>2, <1>6, <2>1, <2>2, <3>1 DEF ListOK
    <3>3. \A u \in Tasks : sem'[u] = s /\ Listed(u)' => u \in ToSet(suspend_list'[s])
      BY <1>1, <1>2, <1>6, <2>1, <2>4, <3>1 DEF ListOK
    <3>4. \A u \in Tasks : resuming'[u].cond = s =>
            /\ NoDuplicates(resuming'[u].tmp)
            /\ \A v \in ToSet(resuming'[u].tmp) :
                 s = sem'[v] /\ MayBeListed(v)' /\ v \notin ToSet(suspend_list'[s])
      BY <1>2, <1>6, <2>1, <2>2, <3>1 DEF ListOK
    <3>5. NoDuplicates(suspend_list'[s])
      BY <2>1, <3>1 DEF ListOK
    <3> QED  BY <3>2, <3>3, <3>4, <3>5 DEF ListOK
  <2> QED  BY <2>3, <2>4
<1> QED  BY <1>7, ListsMake

LEMMA DoneLists ==
  ASSUME Core, ResumedMayTake, SuspendLists, NEW t \in Tasks,
         suspend_condition_remove_all(t) \/ suspend_condition_remove(t), UNCHANGED semVars
  PROVE  SuspendLists'
<1>0. Control /\ DataTypes
  BY DEF Core
<1>1. At(t, "sc_done")
  BY DEF suspend_condition_remove_all, suspend_condition_remove
<1>2. PICK c \in Conditions : c = sem[t] /\ ToSet(conds[t]) = {c} /\ mode = "task"
                              /\ Point(t, 1) = "sc_done"
  BY <1>1, SuspendAt
<1>3. UNCHANGED <<sem, resuming>>
  BY DEF suspend_condition_remove_all, suspend_condition_remove, semVars
<1>4. \A u \in Tasks : u # t => PhaseKept(u)
  BY <1>0, SuspendOthers
<1>5. CASE UNCHANGED <<pc, suspend_list>>
  <2>1. PhaseKept(t)
    BY <1>0, <1>5, DonePhase
  <2>2. \A u \in Tasks : ListedKept(u)
    BY <1>3, <1>4, <2>1, PhaseListed
  <2> QED  BY <1>0, <1>3, <1>5, <2>2, ListsStay
<1>6. CASE suspend_condition_remove(t) /\ ~ UNCHANGED <<pc, suspend_list>>
  <2>1. Resumed(t)
    BY <1>0, <1>6, DonePhase
  <2>2. suspend_data[t] = <<c>>
    BY <1>2, <2>1 DEF ResumedMayTake
  <2>3. Head(suspend_data[t]) = c
    BY <2>2
  <2>4. Leave(t, {}) /\ UNCHANGED mode
    <3>1. ToSet(conds[t]) \ {Head(suspend_data[t])} = {}
      BY <1>2, <2>3
    <3> QED  BY <1>6, <3>1 DEF suspend_condition_remove
  <2>5. UNCHANGED suspend_list
    BY <1>0, <2>4 DEF Leave, DataTypes
  <2>6. NextPhase(t, "none")
    BY <1>0, <1>2, <1>6, <2>4, DonePhase
  <2>7. ~ MayBeListed(t)
    <3>1. Calling(t, "sc_done") /\ ~ Calling(t, "sc_woke") /\ ~ Queued(t)
      BY <1>1, <1>2, SuspendAt, CallingIs DEF Queued
    <3> QED  BY <2>1, <3>1 DEF MayBeListed, Waiting, TimedOut, Resumed, Ended
  <2>8. ListedKept(t)
    BY <2>6, <2>7 DEF ListedKept, NextPhase, Listed
  <2>9. \A u \in Tasks : ListedKept(u)
    BY <1>3, <1>4, <2>8, PhaseListed
  <2> QED  BY <1>0, <1>3, <2>5, <2>9, ListsStay
<1>7. CASE suspend_condition_remove_all(t) /\ ~ UNCHANGED <<pc, suspend_list>>
  <2>1. Leave(t, {c}) /\ UNCHANGED mode
    BY <1>2, <1>7 DEF suspend_condition_remove_all
  <2>2. /\ suspend_list'[c] = sll_remove(suspend_list[c], t)
        /\ \A s \in Conditions : s # c => suspend_list'[s] = suspend_list[s]
    BY <2>1 DEF Leave
  <2>3. NextPhase(t, "none") /\ TimedOut(t)
    BY <1>0, <1>2, <1>7, <2>1, DonePhase
  <2>4. ~ MayBeListed(t)' /\ ~ Listed(t)' /\ MayBeListed(t)
    BY <2>3 DEF NextPhase, MayBeListed, Listed
  <2>5. \A u \in Tasks : u # t => (MayBeListed(u)' <=> MayBeListed(u)) /\ (Listed(u)' <=> Listed(u))
    BY <1>4 DEF PhaseKept, MayBeListed, Listed
  <2>6. ASSUME NEW s \in Conditions
        PROVE  ListOK(s)'
    <3>1. ListOK(s) /\ suspend_list[s] \in Seq(Tasks) /\ ToSet(suspend_list[s]) \subseteq Tasks
          /\ \A u \in Tasks : ToSet(resuming[u].tmp) \subseteq Tasks
      BY <1>0, ListsAre, ListTypes
    <3>2. ToSet(suspend_list'[s]) = ToSet(suspend_list[s]) \ {t} /\ NoDuplicates(suspend_list'[s])
      <4>1. CASE s = c
        BY <2>2, <3>1, <4>1, SllRemoveMembers DEF ListOK
      <4>2. CASE s # c
        <5>1. t \notin ToSet(suspend_list[s])
          BY <1>2, <3>1, <4>2 DEF ListOK
        <5> QED  BY <2>2, <3>1, <4>2, <5>1 DEF ListOK
      <4> QED  BY <4>1, <4>2
    <3>3. ASSUME NEW u \in Tasks, resuming[u].cond = s
          PROVE  t \notin ToSet(resuming[u].tmp)
      <4>1. CASE t \in ToSet(suspend_list[s])
        BY <3>1, <3>3, <4>1 DEF ListOK
      <4>2. CASE t \notin ToSet(suspend_list[s])
        <5>1. CASE s # c
          BY <1>2, <3>1, <3>3, <5>1 DEF ListOK
        <5>2. CASE s = c
          <6>1. OnLists(t, {c})
            BY <1>2, <1>7 DEF suspend_condition_remove_all
          <6>2. sll_in_list(suspend_list[c], t)
            BY <6>1 DEF OnLists
          <6>3. t \in ToSet(suspend_list[c])
            BY <3>1, <5>2, <6>2, ToSetMember DEF sll_in_list
          <6> QED  BY <4>2, <5>2, <6>3
        <5> QED  BY <5>1, <5>2
      <4> QED  BY <4>1, <4>2
    <3>4. \A u \in ToSet(suspend_list'[s]) : sem'[u] = s /\ MayBeListed(u)'
      BY <1>3, <2>5, <3>1, <3>2 DEF ListOK
    <3>5. \A u \in Tasks : sem'[u] = s /\ Listed(u)' => u \in ToSet(suspend_list'[s])
      BY <1>3, <2>4, <2>5, <3>1, <3>2 DEF ListOK
    <3>6. \A u \in Tasks : resuming'[u].cond = s =>
            /\ NoDuplicates(resuming'[u].tmp)
            /\ \A v \in ToSet(resuming'[u].tmp) :
                 s = sem'[v] /\ MayBeListed(v)' /\ v \notin ToSet(suspend_list'[s])
      BY <1>3, <2>5, <3>1, <3>2, <3>3 DEF ListOK
    <3> QED  BY <3>2, <3>4, <3>5, <3>6 DEF ListOK
  <2> QED  BY <2>6, ListsMake
<1> QED  BY <1>5, <1>6, <1>7

(* A task that is about to wait has locked the scheduler.                  *)
LEMMA QueuedRuns ==
  ASSUME Core, NEW w \in Tasks, Queued(w)
  PROVE  ~ Away(w)
<1>1. Control /\ StackForm(Point(w, 1), Point(w, 2), Point(w, 3))
  BY TaskStack DEF Core, Control
<1>2. Point(w, 2) = "so_take" /\ Point(w, 1) # "back"
  BY <1>1 DEF Queued, StackForm, Labels, SemaphoreLabels, SuspendLabels, ConditionLabels, ResumeLabels
<1>3. /\ lock_count[w] >= Owes(Point(w, 1)) + Owes(Point(w, 2)) + Owes(Point(w, 3))
      /\ Owes(Point(w, 1)) \in {0, 1} /\ Owes(Point(w, 2)) \in {0, 1}
      /\ Owes(Point(w, 3)) \in {0, 1} /\ lock_count[w] \in Nat
  BY <1>1, LockFacts
<1>4. Owes(Point(w, 2)) = 1
  BY <1>2 DEF Owes, Owing
<1>5. lock_count[w] # 0
  BY <1>3, <1>4
<1> QED  BY <1>1, <1>2, <1>5 DEF Control, LockKeepsCPU

LEMMA ResumeOneLists ==
  ASSUME Core, WaitsKept, ResumedMayTake, destroyed = {}, ResumerKeepsCPU, SuspendLists,
         NEW t \in Tasks, ResumeOne(t), UNCHANGED semVars
  PROVE  SuspendLists'
<1>0. Control /\ DataTypes /\ CallArguments
  BY DEF Core
<1>1. PICK c, w : c = resuming[t].cond /\ w = Head(suspend_list[resuming[t].cond])
  OBVIOUS
<1>2. c \in Conditions /\ w \in Tasks /\ suspend_list[c] # <<>>
  BY <1>0, <1>1, ArgumentsResuming, ResumedTask DEF DataTypes
<1>3. ListOK(c) /\ suspend_list[c] \in Seq(Tasks)
  BY <1>0, <1>2, ListsAre, ListTypes
<1>4. PICK l : l = Tail(suspend_list[c])
  OBVIOUS
<1>5. /\ l \in Seq(Tasks) /\ NoDuplicates(l) /\ ToSet(l) = ToSet(suspend_list[c]) \ {w}
      /\ w \in ToSet(suspend_list[c])
  BY <1>1, <1>2, <1>3, <1>4, TailMembers DEF ListOK
<1>6. suspend_list'[c] = l /\ \A s \in Conditions : s # c => suspend_list'[s] = suspend_list[s]
  <2>1. suspend_list' = [suspend_list EXCEPT ![c] = l]
    BY <1>1, <1>4 DEF ResumeOne
  <2>2. suspend_list \in [Conditions -> Seq(Tasks)]
    BY <1>0 DEF DataTypes
  <2> QED  BY <1>2, <2>1, <2>2
<1>7. sem[w] = c /\ MayBeListed(w)
  BY <1>3, <1>5 DEF ListOK
<1>8. UNCHANGED sem
  BY DEF semVars
<1>9. /\ mode = "task" /\ current_task = t /\ Point(t, 1) = "rc_loop"
  <2>1. At(t, "rc_loop") /\ "rc_loop" \in ResumeLabels
    BY DEF ResumeOne, ResumeLabels
  <2> QED  BY <1>0, <2>1, ResumePoint
<1>10. \A u \in Tasks : u # t => resuming[u] = NoResume
  BY <1>9, OnlyResumer
<1>11. /\ \A u \in Tasks : u # w => PhaseKept(u)
       /\ IF IsWaiting(w, c) THEN Waiting(w) /\ NextPhase(w, "resumed") ELSE PhaseKept(w)
  BY <1>0, <1>1, ResumeOnePhases
<1>12. \A u \in Tasks : u # w => (MayBeListed(u)' <=> MayBeListed(u)) /\ (Listed(u)' <=> Listed(u))
  BY <1>11 DEF PhaseKept, MayBeListed, Listed
<1>13. resuming \in [Tasks -> ResumeRecords]
  BY <1>0 DEF DataTypes, CallTypes, ResumeRecords
<1>14. PICK r \in ResumeRecords : r = resuming[t]
  BY <1>13
<1>15. r.cond = c /\ r.tmp \in Seq(Tasks) /\ ToSet(r.tmp) \subseteq Tasks /\ NoDuplicates(r.tmp)
       /\ \A v \in ToSet(r.tmp) : sem[v] = c /\ MayBeListed(v) /\ v \notin ToSet(suspend_list[c])
  <2>1. r.tmp \in Seq(Tasks)
    BY <1>14 DEF ResumeRecords
  <2> QED  BY <1>1, <1>3, <1>14, <2>1, ToSetTasks DEF ListOK
<1>16. PICK n \in Int : n = r.num - 1
  BY <1>14 DEF ResumeRecords
<1>17. UNCHANGED pc
  BY DEF ResumeOne
<1>18. ASSUME NEW m, m \in Seq(Tasks), NoDuplicates(m), resuming'[t].tmp = m, resuming'[t].cond = c,
              \A u \in Tasks : u # t => resuming'[u] = resuming[u],
              \A v \in ToSet(m) : v \notin ToSet(r.tmp) => v = w /\ MayBeListed(w)',
              ~ Listed(w)'
       PROVE  SuspendLists'
  <2>1. ASSUME NEW s \in Conditions
        PROVE  ListOK(s)'
    <3>1. ListOK(s) /\ ToSet(suspend_list[s]) \subseteq Tasks
      BY <1>0, ListsAre, ListTypes
    <3>2. s # c => w \notin ToSet(suspend_list[s])
      BY <1>7, <3>1 DEF ListOK
    <3>3. ToSet(suspend_list'[s]) = ToSet(suspend_list[s]) \ {w} /\ NoDuplicates(suspend_list'[s])
      BY <1>5, <1>6, <3>1, <3>2 DEF ListOK
    <3>4. \A v \in ToSet(suspend_list'[s]) : sem'[v] = s /\ MayBeListed(v)'
      BY <1>8, <1>12, <3>1, <3>3 DEF ListOK
    <3>5. \A v \in Tasks : sem'[v] = s /\ Listed(v)' => v \in ToSet(suspend_list'[s])
      BY <1>8, <1>12, <1>18, <3>1, <3>3 DEF ListOK
    <3>6. ASSUME NEW u \in Tasks, resuming'[u].cond = s
          PROVE  /\ NoDuplicates(resuming'[u].tmp)
                 /\ \A v \in ToSet(resuming'[u].tmp) :
                      s = sem'[v] /\ MayBeListed(v)' /\ v \notin ToSet(suspend_list'[s])
      <4>1. CASE u = t
        <5>1. s = c
          BY <1>18, <3>6, <4>1
        <5>2. \A v \in ToSet(m) : s = sem'[v] /\ MayBeListed(v)' /\ v \notin ToSet(suspend_list'[s])
          BY <1>5, <1>6, <1>7, <1>8, <1>12, <1>15, <1>18, <5>1
        <5> QED  BY <1>18, <4>1, <5>2
      <4>2. CASE u # t
        <5>1. resuming'[u].tmp = <<>>
          BY <1>10, <1>18, <4>2 DEF NoResume
        <5> QED  BY <5>1 DEF NoDuplicates, ToSet
      <4> QED  BY <4>1, <4>2
    <3> QED  BY <3>3, <3>4, <3>5, <3>6 DEF ListOK
  <2> QED  BY <2>1, ListsMake
<1>19. CASE IsWaiting(w, c)
  <2>1. resuming' = [resuming EXCEPT ![t] = [r EXCEPT !.num = n, !.yield = TRUE]]
    BY <1>1, <1>13, <1>14, <1>16, <1>19 DEF ResumeOne
  <2>2. PICK q : q = [r EXCEPT !.num = n, !.yield = TRUE]
    OBVIOUS
  <2>3. q.tmp = r.tmp /\ q.cond = r.cond
    BY <1>14, <2>2 DEF ResumeRecords
  <2>4. resuming'[t] = q /\ \A u \in Tasks : u # t => resuming'[u] = resuming[u]
    BY <1>13, <2>1, <2>2
  <2>5. ~ Listed(w)'
    BY <1>11, <1>19 DEF NextPhase, Listed
  <2>6. PICK m : m = r.tmp
    OBVIOUS
  <2>7. m \in Seq(Tasks) /\ NoDuplicates(m) /\ resuming'[t].tmp = m /\ resuming'[t].cond = c
    BY <1>15, <2>3, <2>4, <2>6
  <2>8. \A v \in ToSet(m) : v \notin ToSet(r.tmp) => v = w /\ MayBeListed(w)'
    BY <2>6
  <2> QED  BY ONLY <1>18, <2>4, <2>5, <2>7, <2>8
<1>20. CASE ~ IsWaiting(w, c)
  <2>1. PICK m, k : m = sll_push(k, w) /\ k = r.tmp
    OBVIOUS
  <2>2. /\ m \in Seq(Tasks) /\ ToSet(m) = ToSet(k) \cup {w} /\ NoDuplicates(m)
    <3>1. k \in Seq(Tasks) /\ NoDuplicates(k) /\ w \notin ToSet(k)
      BY <1>5, <1>15, <2>1
    <3>2. w \in Tasks /\ m = sll_push(k, w)
      BY <1>2, <2>1
    <3>3. m \in Seq(Tasks)
      BY <3>1, <3>2, SllPushMembers
    <3>4. ToSet(m) = ToSet(k) \cup {w}
      BY <3>1, <3>2, SllPushMembers
    <3>5. NoDuplicates(m)
      BY <3>1, <3>2, SllPushMembers
    <3> QED  BY <3>3, <3>4, <3>5
  <2>3. PICK q : q = [r EXCEPT !.num = n, !.tmp = m]
    OBVIOUS
  <2>4. q.tmp = m /\ q.cond = r.cond
    BY <1>14, <2>3 DEF ResumeRecords
  <2>5. resuming' = [resuming EXCEPT ![t] = q]
    BY <1>1, <1>13, <1>14, <1>16, <1>20, <2>1, <2>3 DEF ResumeOne
  <2>6. resuming'[t] = q /\ \A u \in Tasks : u # t => resuming'[u] = resuming[u]
    BY <1>13, <2>5
  <2>7. ~ Queued(w)
    <3>1. Queued(w) => w # t
      BY <1>9 DEF Queued
    <3>2. w # t => Away(w)
      BY <1>9 DEF Away
    <3> QED  BY <1>2, <3>1, <3>2, QueuedRuns
  <2>8. ~ Waiting(w)
    <3>1. ASSUME Waiting(w)
          PROVE  FALSE
      <4>1. suspend_data[w] = <<sem[w]>>
        BY <1>2, <3>1 DEF ResumedMayTake
      <4>2. PICK d : d = <<c>>
        OBVIOUS
      <4>3. c \in ToSet(d)
        BY <1>2, <4>2, SingleMembers
      <4>4. IsWaiting(w, c)
        BY <1>7, <3>1, <4>1, <4>2, <4>3 DEF IsWaiting, Waiting, Suspended
      <4> QED  BY <1>20, <4>4
    <3> QED  BY <3>1
  <2>9. ~ Listed(w)' /\ MayBeListed(w)'
    BY <1>7, <1>11, <1>20, <2>7, <2>8 DEF PhaseKept, Listed, MayBeListed
  <2>10. resuming'[t].tmp = m /\ resuming'[t].cond = c
    BY <1>15, <2>4, <2>6
  <2>11. \A v \in ToSet(m) : v \notin ToSet(r.tmp) => v = w /\ MayBeListed(w)'
    BY <2>1, <2>2, <2>9
  <2> QED  BY ONLY <1>18, <2>2, <2>6, <2>9, <2>10, <2>11
<1> QED  BY <1>19, <1>20

LEMMA ResumeReturnLists ==
  ASSUME Core, destroyed = {}, ResumerKeepsCPU, SuspendLists,
         NEW t \in Tasks, ResumeReturn(t), UNCHANGED semVars
  PROVE  SuspendLists'
<1>0. Control /\ DataTypes /\ CallArguments
  BY DEF Core
<1>1. At(t, "rc_back") /\ "rc_back" \in ResumeLabels
  BY DEF ResumeReturn, ResumeLabels
<1>2. mode = "task" /\ current_task = t /\ Point(t, 1) = "rc_back"
  BY <1>0, <1>1, ResumePoint
<1>3. Resumes(t)
  BY <1>1, <1>2, CallingIs DEF Resumes
<1>4. PICK c \in Conditions : c = resuming[t].cond
  BY <1>3 DEF Core, CallArguments, Arguments
<1>5. \A u \in Tasks : u # t => resuming[u] = NoResume
  BY <1>2, OnlyResumer
<1>6. resuming \in [Tasks -> ResumeRecords] /\ suspend_list \in [Conditions -> Seq(Tasks)]
  BY <1>0 DEF DataTypes, CallTypes, ResumeRecords
<1>7. PICK k, m, l : k = resuming[t].tmp /\ m = Reverse(k) /\ l = Joined(m, suspend_list[c])
  OBVIOUS
<1>8. ListOK(c) /\ k \in Seq(Tasks) /\ suspend_list[c] \in Seq(Tasks)
  BY <1>0, <1>4, <1>7, ListsAre, ListTypes
<1>9. /\ ToSet(k) \cap ToSet(suspend_list[c]) = {} /\ NoDuplicates(k)
      /\ \A v \in ToSet(k) : sem[v] = c /\ MayBeListed(v)
      /\ NoDuplicates(suspend_list[c])
  BY <1>4, <1>7, <1>8 DEF ListOK
<1>10. m \in Seq(Tasks) /\ ToSet(m) = ToSet(k) /\ NoDuplicates(m)
  BY <1>7, <1>8, <1>9, ReverseMembers
<1>11. ToSet(l) = ToSet(k) \cup ToSet(suspend_list[c]) /\ NoDuplicates(l)
  <2>1. ToSet(m) \cap ToSet(suspend_list[c]) = {}
    BY <1>9, <1>10
  <2>2. /\ l = Joined(m, suspend_list[c]) /\ suspend_list[c] \in Seq(Tasks)
        /\ NoDuplicates(suspend_list[c])
    BY <1>7, <1>8, <1>9
  <2>3. ToSet(l) = ToSet(m) \cup ToSet(suspend_list[c])
    BY <1>10, <2>2, ConcatMembers
  <2>4. NoDuplicates(l)
    BY <1>10, <2>1, <2>2, ConcatMembers
  <2> QED  BY <1>10, <2>3, <2>4
<1>12. suspend_list'[c] = l /\ \A s \in Conditions : s # c => suspend_list'[s] = suspend_list[s]
  <2>1. suspend_list' = [suspend_list EXCEPT ![c] = l]
    BY <1>4, <1>7 DEF ResumeReturn, PutBack, Joined
  <2> QED  BY <1>6, <2>1
<1>13. \A u \in Tasks : resuming'[u] = NoResume
  <2>1. resuming' = [resuming EXCEPT ![t] = NoResume]
    BY DEF ResumeReturn
  <2> QED  BY <1>5, <1>6, <2>1
<1>14. UNCHANGED sem /\ \A u \in Tasks : PhaseKept(u)
  BY <1>0, ResumePhases DEF semVars
<1>15. \A u \in Tasks : (MayBeListed(u)' <=> MayBeListed(u)) /\ (Listed(u)' <=> Listed(u))
  BY <1>14 DEF PhaseKept, MayBeListed, Listed
<1>16. ASSUME NEW s \in Conditions
       PROVE  ListOK(s)'
  <2>1. ListOK(s) /\ ToSet(suspend_list[s]) \subseteq Tasks /\ ToSet(k) \subseteq Tasks
    BY <1>0, <1>8, ListsAre, ListTypes, ToSetTasks
  <2>2. NoDuplicates(suspend_list'[s])
    BY <1>11, <1>12, <2>1 DEF ListOK
  <2>3. \A v \in ToSet(suspend_list'[s]) : sem'[v] = s /\ MayBeListed(v)'
    BY <1>9, <1>11, <1>12, <1>14, <1>15, <2>1 DEF ListOK
  <2>4. \A v \in Tasks : sem'[v] = s /\ Listed(v)' => v \in ToSet(suspend_list'[s])
    BY <1>11, <1>12, <1>14, <1>15, <2>1 DEF ListOK
  <2>5. \A u \in Tasks : NoDuplicates(resuming'[u].tmp) /\ ToSet(resuming'[u].tmp) = {}
    BY <1>13 DEF NoResume, NoDuplicates, ToSet
  <2> QED  BY <2>2, <2>3, <2>4, <2>5 DEF ListOK
<1> QED  BY <1>16, ListsMake


(* The lists and what is aside stay the same.                              *)
LEMMA ListsSame ==
  ASSUME DataTypes, SuspendLists, UNCHANGED <<suspend_list, resuming, sem>>,
         \A u \in Tasks : \/ PhaseKept(u)
                          \/ Waiting(u) /\ NextPhase(u, "timed out")
                          \/ Queued(u) /\ NextPhase(u, "waiting")
  PROVE  SuspendLists'
<1>1. \A u \in Tasks : ListedKept(u)
  BY PhaseListed
<1> QED  BY <1>1, ListsStay

LEMMA SuspendStepLists ==
  ASSUME Core, SuspendLists, NEW t \in Tasks, UNCHANGED semVars,
         \/ suspend_timeout_get_min(t) \/ suspend_do_suspend(t)
         \/ SuspendLock(t) \/ SuspendSleep(t) \/ SuspendInsert(t)
         \/ SuspendSwitch(t) \/ SuspendWoke(t) \/ SuspendReturn(t)
  PROVE  SuspendLists'
<1>0. Control /\ DataTypes
  BY DEF Core
<1>1. UNCHANGED <<suspend_list, resuming, sem>>
  BY DEF suspend_timeout_get_min, suspend_do_suspend, SuspendLock, SuspendSleep, SuspendInsert,
         SuspendSwitch, SuspendWoke, SuspendReturn, condVars, semVars
<1>2. \A u \in Tasks : u # t => PhaseKept(u)
  BY <1>0, SuspendOthers
<1>3. PhaseKept(t) \/ (Queued(t) /\ NextPhase(t, "waiting"))
  BY <1>0, OutsideWait, QueuedPhase, SwitchPhase, WokePhase
<1> QED  BY <1>0, <1>1, <1>2, <1>3, ListsSame

LEMMA SemaphoreLists ==
  ASSUME MayDestroy = {}, Core, destroyed = {}, ResumerKeepsCPU, SuspendLists, NEW t \in Tasks,
         SemaphoreCall(t) \/ SemaphoreUse(t)
  PROVE  SuspendLists'
<1>0. Control /\ DataTypes /\ CallArguments
  BY DEF Core
<1>1. \A u \in Tasks : PhaseKept(u)
  BY <1>0, SemaphorePhases
<1>2. \A u \in Tasks : u # t => sem'[u] = sem[u]
  <2>1. \/ UNCHANGED sem
        \/ \E x : sem' = [sem EXCEPT ![t] = x]
    BY DEF SemaphoreCall, ObtainTest, ObtainTake, ReleaseIncrement, DestroyClear,
       SemaphoreUse, semaphore_obtain, semaphore_release, semaphore_destroy, EnterLocked,
       semVars
  <2> QED  BY <2>1, <1>0 DEF DataTypes, CallTypes
<1>3. /\ Point(t, 1) \in SemaphoreLabels \cup {"user"} /\ Point(t, 2) = "user" /\ Point(t, 3) = "user"
      /\ UNCHANGED suspend_list
  BY NotDestroyed
<1>4. NoPhase(t)
  BY <1>3, PhaseAt DEF SemaphoreLabels
<1>5. ListedKept(t)
  BY <1>1, <1>4 DEF NoPhase, PhaseKept, ListedKept, MayBeListed, Listed
<1>6. ASSUME NEW u \in Tasks
      PROVE  ListedKept(u)
  BY <1>1, <1>2, <1>5, PhaseListed
<1>7. \A u \in Tasks : \/ resuming'[u].tmp = <<>>
                       \/ /\ resuming'[u].cond = resuming[u].cond
                          /\ resuming'[u].tmp = resuming[u].tmp
  <2>1. CASE ReleaseIncrement(t)
    <3>1. \A u \in Tasks : u # t => resuming'[u] = resuming[u]
      BY <1>0, <2>1, IncrementData
    <3>2. PICK r : r = [NoResume EXCEPT !.cond = sem[t], !.num = Resumable(sem[t]), !.status = "SUCCESS"]
      OBVIOUS
    <3>3. r.tmp = <<>>
      BY <3>2 DEF NoResume
    <3>4. resuming' = [resuming EXCEPT ![t] = r]
      BY <2>1, <3>2 DEF ReleaseIncrement, resume_condition
    <3>5. resuming'[t] = r
      BY <1>0, <3>4 DEF DataTypes, CallTypes
    <3> QED  BY <3>1, <3>3, <3>5
  <2>2. CASE ~ ReleaseIncrement(t)
    BY <2>2, NotDestroyed
  <2> QED  BY <2>1, <2>2
<1> QED  BY <1>0, <1>3, <1>6, <1>7, ListsStay

LEMMA ListsStep ==
  ASSUME MayDestroy = {}, Core, ReadyOK, WaitsKept, ResumedMayTake, destroyed = {},
         ResumerKeepsCPU, SuspendLists, [SemNext]_vars
  PROVE  SuspendLists'
<1>0. Control /\ DataTypes
  BY DEF Core
<1>1. ASSUME UNCHANGED <<condVars, semVars>>,
             \A u \in Tasks : PhaseKept(u) \/ (Waiting(u) /\ NextPhase(u, "timed out"))
      PROVE  SuspendLists'
  BY <1>0, <1>1, ListsSame DEF condVars, semVars
<1>2. CASE UNCHANGED vars
  <2>1. UNCHANGED <<pc, state, resume_from, from, condVars, semVars>>
    BY <1>2 DEF vars, kernelVars, condVars, suspendVars
  <2>2. \A u \in Tasks : PhaseKept(u)
    BY <2>1, PointsStay, PhaseSame DEF Suspended
  <2> QED  BY <1>1, <2>1, <2>2
<1>3. CASE SemNext
  <2>1. CASE SemBoot \/ SemPendSV \/ SemTick
    <3>1. /\ Boot \/ PendSV \/ isr_sysclock_handle
          /\ UNCHANGED <<condVars, semVars>>
      BY <2>1 DEF SemBoot, SemPendSV, SemTick, ConditionTick
    <3>2. CASE sleep_process_system_tick
      BY <1>1, <3>1, <3>2, WakePhases
    <3>3. CASE ~ sleep_process_system_tick
      <4>1. Boot \/ SaveCurrent \/ LoadNext \/ isr_sysclock_handle
        BY <3>1, <3>3 DEF PendSV
      <4> QED  BY <1>1, <3>1, <4>1, SystemPhases
    <3> QED  BY <3>2, <3>3
  <2>2. ASSUME NEW t \in Tasks, KernelCall(t) \/ UserCall(t), UNCHANGED <<condVars, semVars>>
        PROVE  SuspendLists'
    BY <1>0, <1>1, <2>2, KernelPhases
  <2>3. ASSUME NEW t \in Tasks, ConditionCall(t), UNCHANGED semVars
        PROVE  SuspendLists'
    <3>1. CASE ResumeOne(t)
      BY <2>3, <3>1, ResumeOneLists
    <3>2. CASE ResumeReturn(t)
      BY <2>3, <3>2, ResumeReturnLists
    <3>3. CASE ResumeLock(t) \/ ResumeUnlock(t) \/ ResumeYield(t)
      <4>1. \A u \in Tasks : PhaseKept(u)
        BY <1>0, <3>3, ResumePhases
      <4>2. UNCHANGED condVars
        BY <3>3 DEF ResumeLock, ResumeUnlock, ResumeYield
      <4> QED  BY <1>1, <2>3, <4>1, <4>2
    <3>4. CASE suspend_condition_add_task(t)
      BY <2>3, <3>4, AddLists
    <3>5. CASE suspend_condition_remove_all(t) \/ suspend_condition_remove(t)
      BY <2>3, <3>5, DoneLists
    <3>6. CASE \/ suspend_timeout_get_min(t) \/ suspend_do_suspend(t)
               \/ SuspendLock(t) \/ SuspendSleep(t) \/ SuspendInsert(t)
               \/ SuspendSwitch(t) \/ SuspendWoke(t) \/ SuspendReturn(t)
      BY <2>3, <3>6, SuspendStepLists
    <3> QED  BY <2>3, <3>1, <3>2, <3>3, <3>4, <3>5, <3>6 DEF ConditionCall
  <2>4. ASSUME NEW t \in Tasks, SemaphoreCall(t) \/ SemaphoreUse(t)
        PROVE  SuspendLists'
    BY <2>4, SemaphoreLists
  <2> QED  BY <1>3, <2>1, <2>2, <2>3, <2>4 DEF SemNext, CallStep
<1> QED  BY <1>2, <1>3

(* The lists of a system that has started no wait are empty.               *)
LEMMA ListsInit ==
  ASSUME SemInit
  PROVE  destroyed = {} /\ ResumerKeepsCPU /\ SuspendLists
<1>1. Init /\ CondInit /\ destroyed = {} /\ sem = [t \in Tasks |-> NULL] /\ Core
  BY CoreInit DEF SemInit
<1>2. \A s \in Conditions : suspend_list[s] = <<>>
  BY <1>1 DEF CondInit
<1>3. \A t \in Tasks : resuming[t] = NoResume
  BY <1>1 DEF CondInit
<1>4. \A t \in Tasks : Point(t, 1) = "user" /\ Point(t, 2) = "user" /\ Point(t, 3) = "user"
  <2>1. ASSUME NEW t \in Tasks, NEW s, s = <<"user">>
        PROVE  PointOf(s, 1) = "user" /\ PointOf(s, 2) = "user" /\ PointOf(s, 3) = "user"
    <3>1. Len(s) = 1 /\ s[1] = "user"
      BY <2>1
    <3> QED  BY <3>1 DEF PointOf
  <2>2. \A t \in Tasks : pc[t] = <<"user">>
    BY <1>1 DEF Init
  <2> QED  BY <2>1, <2>2, PointIs
<1>5. \A t \in Tasks : NoPhase(t)
  BY <1>4, PhaseAt
<1>6. \A t \in Tasks : ~ Resumes(t)
  BY <1>4, CallingIs DEF Resumes, ResumeLabels
<1>7. ResumerKeepsCPU
  BY <1>3, <1>6 DEF ResumerKeepsCPU
<1>8. NoDuplicates(<<>>) /\ ToSet(<<>>) = {}
  BY DEF NoDuplicates, ToSet
<1>9. \A t \in Tasks : resuming[t].tmp = <<>>
  BY <1>3 DEF NoResume
<1>10. \A s : Aside(s) = {}
  BY <1>8, <1>9 DEF Aside
<1>11. SuspendLists
  BY <1>2, <1>5, <1>8, <1>9, <1>10 DEF SuspendLists, NoPhase
<1> QED  BY <1>1, <1>7, <1>11

(* WaitInvariant: while no semaphore is destroyed, a task that resumes     *)
(* others (resume_condition) keeps the CPU until it has put back what it   *)
(* kept aside, and the suspend lists hold each task that waits once.       *)
THEOREM WaitInvariantHolds ==
  ASSUME MayDestroy = {}
  PROVE  SemSpec => []WaitInvariant
<1> DEFINE IInv == destroyed = {} /\ ResumerKeepsCPU /\ SuspendLists
<1>1. SemInit => IInv
  BY ListsInit
<1>2. Sound /\ IInv /\ [SemNext]_vars => IInv'
  BY ResumerStep, ListsStep DEF Sound
<1>3. Sound /\ IInv /\ SemInvariant => WaitInvariant
  BY DEF WaitInvariant
<1> QED  BY <1>1, <1>2, <1>3, SoundInit, SoundStep, SemInvariantHolds, PTL DEF SemSpec

LEMMA InvariantStacks ==
  ASSUME SemInvariant
  PROVE  Stacks
<1>1. SemTypeOK /\ \A t \in Tasks : CallStack(pc[t])
  BY DEF SemInvariant
<1> QED  BY <1>1 DEF SemTypeOK, Stacks, AllLabels

(* A task on a list or aside is inside the suspend_condition of its        *)
(* semaphore.                                                              *)
LEMMA ListedInSuspend ==
  ASSUME Stacks, NEW t \in Tasks, MayBeListed(t)
  PROVE  InSuspend(t)
<1>1. StackForm(Point(t, 1), Point(t, 2), Point(t, 3))
  BY TaskStack
<1>2. \/ Queued(t)
      \/ Point(t, 1) = "sc_woke" \/ Point(t, 2) = "sc_woke" \/ Point(t, 3) = "sc_woke"
      \/ Point(t, 1) = "sc_done" \/ Point(t, 2) = "sc_done" \/ Point(t, 3) = "sc_done"
  BY CallingIs DEF MayBeListed, Waiting, TimedOut, Ended
<1>3. Point(t, 2) = "so_take" \/ Point(t, 3) = "so_take"
  BY <1>1, <1>2 DEF Queued, StackForm, Labels, SemaphoreLabels, SuspendLabels, ConditionLabels,
                    ResumeLabels
<1> QED  BY <1>3, CallingIs

(* NoStaleSuspend: no SUSPEND of a task that has left suspend_condition    *)
(* is on a suspend list, or aside in resume_condition: it was a local      *)
(* variable of that call.                                                  *)
THEOREM SuspendsLive ==
  ASSUME MayDestroy = {}
  PROVE  SemSpec => []NoStaleSuspend
<1>1. ASSUME WaitInvariant
      PROVE  NoStaleSuspend
  <2>1. SemInvariant /\ SuspendLists /\ CallArguments /\ Stacks
    BY <1>1, InvariantStacks DEF WaitInvariant, SemInvariant
  <2>2. /\ suspend_list \in [Conditions -> Seq(Tasks)]
        /\ \A u \in Tasks : resuming[u].tmp \in Seq(Tasks)
    BY <2>1 DEF SemInvariant, SemTypeOK, CallTypes
  <2>3. ASSUME NEW s \in Conditions, NEW t \in ToSet(suspend_list[s]) \cup Aside(s)
        PROVE  conds[t] = <<s>>
    <3>1. t \in Tasks
      BY <2>2, ToSetTasks DEF Aside
    <3>2. s = sem[t] /\ MayBeListed(t)
      BY <2>1 DEF SuspendLists, MayBeListed
    <3>3. InSuspend(t)
      BY <2>1, <3>1, <3>2, ListedInSuspend
    <3> QED  BY <2>1, <3>1, <3>2, <3>3 DEF CallArguments, Arguments
  <2> QED  BY <2>3 DEF NoStaleSuspend
<1> QED  BY <1>1, WaitInvariantHolds, PTL

(* WaitersListed: a task that is suspended in a wait for a semaphore is on *)
(* its suspend list, once, so that semaphore_release finds it.             *)
THEOREM WaitersOnList ==
  ASSUME MayDestroy = {}
  PROVE  SemSpec => []WaitersListed
<1>1. ASSUME WaitInvariant
      PROVE  WaitersListed
  <2>1. SemInvariant /\ SuspendLists /\ CallArguments /\ WaitsKept /\ Stacks
    BY <1>1, InvariantStacks DEF WaitInvariant, SemInvariant
  <2>2. ASSUME NEW s \in Conditions, NEW t \in Tasks, Suspended(t), conds[t] = <<s>>
        PROVE  t \in ToSet(suspend_list[s])
    <3>1. <<s>> # <<>>
      OBVIOUS
    <3>2. InSuspend(t)
      BY <2>1, <2>2, <3>1 DEF CallArguments, Arguments
    <3>3. sem[t] = s
      <4>1. conds[t] = <<sem[t]>>
        BY <2>1, <3>2 DEF CallArguments, Arguments
      <4> QED  BY <2>2, <4>1
    <3>4. /\ Point(t, 1) \in {"pend", "back"}
          /\ StackForm(Point(t, 1), Point(t, 2), Point(t, 3))
          /\ Point(t, 2) = "so_take" \/ Point(t, 3) = "so_take"
      BY <2>1, <2>2, <3>2, TaskStack, CallingIs DEF WaitsKept, WaitForm
    <3>5. Point(t, 2) = "sc_woke"
      BY <3>4 DEF StackForm, Labels, SemaphoreLabels, SuspendLabels, ConditionLabels, ResumeLabels
    <3>6. Waiting(t)
      BY <2>2, <3>5, CallingIs DEF Waiting
    <3> QED  BY <2>1, <3>3, <3>6 DEF SuspendLists
  <2> QED  BY <2>1, <2>2 DEF WaitersListed, SuspendLists, Suspended
<1> QED  BY <1>1, WaitInvariantHolds, PTL
=============================================================================
