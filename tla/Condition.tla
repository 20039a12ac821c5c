------------------------------ MODULE Condition ------------------------------
(***************************************************************************)
(* rtos/kernel/condition.c: a task waits for one or more conditions        *)
(* (suspend_condition) until another task resumes one of them              *)
(* (resume_condition) or the wait times out.                               *)
(*                                                                         *)
(* A condition c is satisfied while count[c] > 0; for a semaphore that is  *)
(* its count.  A SUSPEND is a local variable of the waiting task, one per  *)
(* condition it waits for, so the lists hold tasks.  The conditions here   *)
(* have no lock callbacks of their own, as the ones of semaphores: what    *)
(* protects them is the scheduler lock of the caller.                      *)
(***************************************************************************)
EXTENDS Kernel

CONSTANTS
  Conditions,
  SuspendPriority    \* SUSPEND.priority of a wait for the condition

ASSUME ConditionAssumption == SuspendPriority \in [Conditions -> 0 .. 254]

VARIABLES
  count,         \* what do_suspend of a condition looks at
  ping,          \* CONDITION_PING
  suspend_list,
  suspend_data,  \* TASK.suspend_data: the array waited for, or <<the resumer>>
  conds,         \* suspend_condition: the array of conditions
  until,         \*   SUSPEND.timeout of each, NULL when there is none
  timeout,       \*   the ticks to wait, MAX_WAIT for ever
  timeout_index, \*   the condition whose timeout that is
  from,          \*   resume_from
  return_num,    \*   the index of the condition it returns for
  status,        \*   the value it returns
  susp_status,   \* SUSPEND.status
  may_resume,    \* SUSPEND.may_resume
  resuming       \* resume_condition: its arguments and local variables

suspendVars == <<suspend_data, conds, until, timeout, timeout_index, from,
                 return_num, status, susp_status, may_resume>>
condVars    == <<count, ping, suspend_list, suspendVars, resuming>>

MAX_WAIT == TickRange - 1        \* (uint32_t)(-1)
ConditionLabels ==
  {"sc_timeout", "sc_check", "sc_append", "sc_lock", "sc_sleep", "sc_insert",
   "sc_suspend", "sc_woke", "sc_done", "sc_end", "rc_lock", "rc_loop", "rc_yield", "rc_back"}
Errors   == {"TIMEOUT", "DELETED", "BUSY"}
NoResume == [cond |-> NULL, num |-> 0, status |-> "SUCCESS", tmp |-> <<>>,
             yield |-> FALSE]

CondInit ==
  /\ ping = [c \in Conditions |-> FALSE]
  /\ suspend_list = [c \in Conditions |-> <<>>]
  /\ suspend_data = [t \in Tasks |-> <<>>]
  /\ conds = [t \in Tasks |-> <<>>]
  /\ until = [t \in Tasks |-> <<>>]
  /\ timeout = [t \in Tasks |-> MAX_WAIT]
  /\ timeout_index = [t \in Tasks |-> 1]
  /\ from = [t \in Tasks |-> "SYSTEM"]
  /\ return_num = [t \in Tasks |-> 0]
  /\ status = [t \in Tasks |-> "SUCCESS"]
  /\ susp_status = [t \in Tasks |-> [c \in Conditions |-> "SUCCESS"]]
  /\ may_resume = [t \in Tasks |-> [c \in Conditions |-> FALSE]]
  /\ resuming = [t \in Tasks |-> NoResume]

do_suspend(c) == count[c] = 0

----------------------------------------------------------------------------
(* suspend_condition.                                                      *)

(* The call: the caller has filled in a SUSPEND for every condition of cs, *)
(* with the tick its wait ends at.                                         *)
suspend_condition(t, cs, deadlines) ==
  /\ conds' = [conds EXCEPT ![t] = cs]
  /\ until' = [until EXCEPT ![t] = deadlines]
  /\ return_num' = [return_num EXCEPT ![t] = Len(cs) + 1]
  /\ status' = [status EXCEPT ![t] = "SUCCESS"]
  /\ susp_status' = [susp_status EXCEPT ![t] =
                       [c \in Conditions |-> IF c \in ToSet(cs) THEN "SUCCESS"
                                             ELSE @[c]]]

(* The ticks left of a timeout; a deadline that has passed leaves none.    *)
TicksLeft(deadline) ==
  IF deadline = NULL THEN MAX_WAIT
  ELSE IF INT32CMP(deadline, current_tick) > 0 THEN INT32CMP(deadline, current_tick)
  ELSE 0

(* The first of the shortest timeouts is the one the task waits for.       *)
suspend_timeout_get_min(t) ==
  LET ds == until[t]
      n  == CHOOSE i \in 1 .. Len(ds) : \A j \in 1 .. Len(ds) :
              \/ TicksLeft(ds[i]) < TicksLeft(ds[j])
              \/ TicksLeft(ds[i]) = TicksLeft(ds[j]) /\ i <= j
  IN  /\ At(t, "sc_timeout")
      /\ timeout_index' = [timeout_index EXCEPT ![t] = n]
      /\ timeout' = [timeout EXCEPT ![t] = TicksLeft(ds[n])]
      /\ until' = [until EXCEPT ![t] = <<>>]
      /\ Go(t, <<"sc_check">>)
      /\ UNCHANGED <<state, resume_from, lock_count, drift, level, lists,
                     timeVars, cpuVars, count, ping, suspend_list, suspend_data,
                     conds, from, return_num, status, susp_status, may_resume,
                     resuming>>

Satisfied(c) == ~ do_suspend(c) \/ ping[c]

(* The first satisfied condition of the highest priority.                  *)
BestOf(cs) ==
  CHOOSE n \in 1 .. Len(cs) :
    /\ Satisfied(cs[n])
    /\ \A m \in 1 .. Len(cs) : Satisfied(cs[m]) =>
         \/ SuspendPriority[cs[n]] < SuspendPriority[cs[m]]
         \/ SuspendPriority[cs[n]] = SuspendPriority[cs[m]] /\ n <= m

(* The loop condition.  A wait that is not satisfied loses may_resume.     *)
suspend_do_suspend(t) ==
  /\ At(t, "sc_check")
  /\ may_resume' = [may_resume EXCEPT ![t] =
       [c \in Conditions |-> @[c] /\ (c \in ToSet(conds[t]) => Satisfied(c))]]
  /\ IF \E c \in ToSet(conds[t]) : Satisfied(c)
     THEN /\ return_num' = [return_num EXCEPT ![t] = BestOf(conds[t])]
          /\ Go(t, <<"sc_end">>)
     ELSE /\ Go(t, <<"sc_append">>)
          /\ UNCHANGED return_num
  /\ UNCHANGED <<state, resume_from, lock_count, drift, level, lists, timeVars,
                 cpuVars, count, ping, suspend_list, suspend_data, conds, until,
                 timeout, timeout_index, from, status, susp_status, resuming>>

(* Mutant: the suspend is not put on the list.                             *)
AddNoSuspend(t) ==
  /\ At(t, "sc_append")
  /\ Go(t, <<"sc_lock">>)
  /\ UNCHANGED <<state, resume_from, lock_count, drift, level, lists, timeVars,
                 cpuVars, condVars>>

suspend_condition_add_task(t) ==
  /\ At(t, "sc_append")
  /\ suspend_list' = [c \in Conditions |->
       IF c \in ToSet(conds[t]) THEN sll_append(suspend_list[c], t)
       ELSE suspend_list[c]]
  /\ Go(t, <<"sc_lock">>)
  /\ UNCHANGED <<state, resume_from, lock_count, drift, level, lists, timeVars,
                 cpuVars, count, ping, suspendVars, resuming>>

(* Disable preemption, and join the sleep list for a finite wait.          *)
SuspendLock(t) ==
  /\ At(t, "sc_lock")
  /\ IF lock_count[t] >= MaxLock
     THEN Halt /\ UNCHANGED <<lock_count, pc>>
     ELSE /\ lock_count' = [lock_count EXCEPT ![t] = @ + 1]
          /\ Go(t, <<"sc_sleep">>)
          /\ UNCHANGED <<mode, interrupts>>
  /\ UNCHANGED <<state, resume_from, drift, level, lists, timeVars,
                 current_task, pend_sv, condVars>>

SuspendSleep(t) ==
  /\ At(t, "sc_sleep")
  /\ IF timeout[t] # MAX_WAIT
     THEN sleep_add_to_list(t, timeout[t]) /\ Go(t, <<"sc_insert">>)
     ELSE UNCHANGED <<tick_sleep, left>> /\ Go(t, <<"sc_suspend">>)
  /\ UNCHANGED <<state, resume_from, lock_count, drift, level, lists,
                 current_tick, ticks, cpuVars, condVars>>

SuspendInsert(t) ==
  /\ At(t, "sc_insert")
  /\ sleep_task_list' = SleepInserted(t)
  /\ Go(t, <<"sc_suspend">>)
  /\ UNCHANGED <<state, resume_from, lock_count, drift, level,
                 sch_ready_task_list, timeVars, cpuVars, condVars>>

SuspendSwitch(t) ==
  /\ At(t, "sc_suspend")
  /\ state' = [state EXCEPT ![t] = "TO_BE_SUSPENDED"]
  /\ suspend_data' = [suspend_data EXCEPT ![t] = conds[t]]
  /\ ControlToSystem(t, interrupts)
  /\ Go(t, <<"pend", "sc_woke">>)
  /\ UNCHANGED <<resume_from, lock_count, drift, lists, timeVars, current_task,
                 pend_sv, mode, count, ping, suspend_list, conds, until, timeout,
                 timeout_index, from, return_num, status, susp_status,
                 may_resume, resuming>>

(* Mutant: a task resumed in time is left on the sleep list.               *)
WokeStaysAsleep(t) ==
  /\ At(t, "sc_woke")
  /\ from' = [from EXCEPT ![t] = resume_from[t]]
  /\ Go(t, <<"unlock", "sc_done">>)
  /\ UNCHANGED <<state, resume_from, lock_count, drift, level, lists, timeVars,
                 cpuVars, count, ping, suspend_list, suspend_data, conds, until,
                 timeout, timeout_index, return_num, status, susp_status, may_resume, resuming>>

(* The task runs again.  Unless the sleep ended its wait it is still on    *)
(* the sleep list: sleep_remove_from_list.                                 *)
SuspendWoke(t) ==
  LET asleep == resume_from[t] # "SLEEP" /\ timeout[t] # MAX_WAIT
  IN  /\ At(t, "sc_woke")
      /\ from' = [from EXCEPT ![t] = resume_from[t]]
      /\ IF asleep /\ ~ sll_in_list(sleep_task_list, t)
         THEN Halt /\ UNCHANGED <<sleep_task_list, tick_sleep, left, pc>>
         ELSE /\ IF asleep
                 THEN /\ sleep_task_list' = sll_remove(sleep_task_list, t)
                      /\ tick_sleep' = [tick_sleep EXCEPT ![t] = 0]
                      /\ left' = [left EXCEPT ![t] = 0]
                 ELSE UNCHANGED <<sleep_task_list, tick_sleep, left>>
              /\ Go(t, <<"unlock", "sc_done">>)
              /\ UNCHANGED <<mode, interrupts>>
      /\ UNCHANGED <<state, resume_from, lock_count, drift, level,
                     sch_ready_task_list, current_tick, ticks, current_task,
                     pend_sv, count, ping, suspend_list, suspend_data, conds, until,
                     timeout, timeout_index, return_num, status, susp_status, may_resume,
                     resuming>>

(* Mutant: a wait that ends leaves its suspend behind.                     *)
LeaveNone(t, cs) == UNCHANGED suspend_list

(* The conditions of t that it leaves when it was resumed by c, or all of  *)
(* them after a timeout; it must still be on their lists.                  *)
Leave(t, cs) ==
  suspend_list' = [c \in Conditions |->
    IF c \in cs THEN sll_remove(suspend_list[c], t) ELSE suspend_list[c]]

OnLists(t, cs) == \A c \in cs : sll_in_list(suspend_list[c], t)

(* The last condition that has an error or may resume the task.            *)
ReturnNum(t) ==
  LET may == {n \in 1 .. Len(conds[t]) :
                \/ susp_status[t][conds[t][n]] \in Errors
                \/ may_resume[t][conds[t][n]]}
  IN  IF may = {} THEN return_num[t]
      ELSE CHOOSE n \in may : \A m \in may : m <= n

(* suspend_condition_remove_all after a timeout.                           *)
suspend_condition_remove_all(t) ==
  /\ At(t, "sc_done") /\ from[t] = "SLEEP"
  /\ IF OnLists(t, ToSet(conds[t]))
     THEN /\ Leave(t, ToSet(conds[t]))
          /\ status' = [status EXCEPT ![t] = "TIMEOUT"]
          /\ return_num' = [return_num EXCEPT ![t] = timeout_index[t]]
          /\ Go(t, <<"sc_end">>)
          /\ UNCHANGED <<mode, interrupts>>
     ELSE Halt /\ UNCHANGED <<suspend_list, status, return_num, pc>>
  /\ UNCHANGED <<state, resume_from, lock_count, drift, level, lists, timeVars,
                 current_task, pend_sv, count, ping, suspend_data, conds, until,
                 timeout, timeout_index, from, susp_status, may_resume, resuming>>

(* Mutant: the status the resumer gave is dropped.                         *)
WaitSucceeds(t, c) == "SUCCESS"

(* The status a wait returns that was resumed for condition c.             *)
WaitStatus(t, c) == susp_status[t][c]

(* suspend_condition_remove after a resume, and the decision to return or  *)
(* to go round the loop again.                                             *)
suspend_condition_remove(t) ==
  LET others == ToSet(conds[t]) \ {Head(suspend_data[t])}
      n      == ReturnNum(t)
      c      == conds[t][n]
  IN  /\ At(t, "sc_done") /\ from[t] # "SLEEP"
      /\ IF OnLists(t, others)
         THEN /\ Leave(t, others)
              /\ return_num' = [return_num EXCEPT ![t] = n]
              /\ status' = [status EXCEPT ![t] = WaitStatus(t, c)]
              /\ IF susp_status[t][c] \in Errors \/ Satisfied(c)
                 THEN Go(t, <<"sc_end">>)
                 ELSE Go(t, <<"sc_check">>)
              /\ UNCHANGED <<mode, interrupts>>
         ELSE Halt /\ UNCHANGED <<suspend_list, status, return_num, pc>>
      /\ UNCHANGED <<state, resume_from, lock_count, drift, level, lists,
                     timeVars, current_task, pend_sv, count, ping, suspend_data,
                     conds, until, timeout, timeout_index, from, susp_status,
                     may_resume, resuming>>

(* A ping is consumed; the caller finds the result in status.              *)
SuspendReturn(t) ==
  /\ At(t, "sc_end")
  /\ ping' = [ping EXCEPT ![conds[t][return_num[t]]] = FALSE]
  /\ conds' = [conds EXCEPT ![t] = <<>>]
  /\ suspend_data' = [suspend_data EXCEPT ![t] = <<>>]
  /\ timeout' = [timeout EXCEPT ![t] = MAX_WAIT]
  /\ timeout_index' = [timeout_index EXCEPT ![t] = 1]
  /\ from' = [from EXCEPT ![t] = "SYSTEM"]
  /\ may_resume' = [may_resume EXCEPT ![t] = [c \in Conditions |-> FALSE]]
  /\ susp_status' = [susp_status EXCEPT ![t] = [c \in Conditions |-> "SUCCESS"]]
  /\ Go(t, <<>>)
  /\ UNCHANGED <<state, resume_from, lock_count, drift, level, lists, timeVars,
                 cpuVars, count, suspend_list, until, return_num, status, resuming>>

----------------------------------------------------------------------------
(* resume_condition.                                                       *)

(* The call: at most num tasks satisfy the criteria of the resumer, or all *)
(* of them when there is none (num = -1); st is the status they get.       *)
resume_condition(t, c, num, st) ==
  resuming' = [resuming EXCEPT ![t] = [NoResume EXCEPT
                 !.cond = c, !.num = num, !.status = st]]

ResumeLock(t) ==
  /\ At(t, "rc_lock")
  /\ IF lock_count[t] >= MaxLock
     THEN Halt /\ UNCHANGED <<lock_count, pc>>
     ELSE /\ lock_count' = [lock_count EXCEPT ![t] = @ + 1]
          /\ Go(t, <<"rc_loop">>)
          /\ UNCHANGED <<mode, interrupts>>
  /\ UNCHANGED <<state, resume_from, drift, level, lists, timeVars,
                 current_task, pend_sv, condVars>>

(* Mutant: a task is resumed whatever its state.                           *)
IsWaitingAnyState(w, c) == c \in ToSet(suspend_data[w])

(* suspend_is_task_waiting, for a task that is or is being suspended.      *)
IsWaiting(w, c) ==
  /\ state[w] \in {"SUSPENDED", "TO_BE_SUSPENDED"}
  /\ c \in ToSet(suspend_data[w])

(* One turn of the loop: the first suspend is popped; its task is resumed  *)
(* if it still waits, else the suspend is kept aside.                      *)
ResumeOne(t) ==
  LET r == resuming[t]
      w == Head(suspend_list[r.cond])
  IN  /\ At(t, "rc_loop")
      /\ suspend_list[r.cond] # <<>> /\ r.num # 0
      /\ suspend_list' = [suspend_list EXCEPT ![r.cond] = Tail(@)]
      /\ susp_status' = [susp_status EXCEPT ![w][r.cond] = r.status]
      /\ may_resume' = [may_resume EXCEPT ![w][r.cond] = TRUE]
      /\ IF IsWaiting(w, r.cond)
         THEN /\ suspend_data' = [suspend_data EXCEPT ![w] = <<r.cond>>]
              /\ YieldSystem(w)
              /\ resuming' = [resuming EXCEPT ![t].num = r.num - 1,
                                              ![t].yield = TRUE]
         ELSE /\ resuming' = [resuming EXCEPT ![t].num = r.num - 1,
                                              ![t].tmp = sll_push(@, w)]
              /\ UNCHANGED <<suspend_data, state, resume_from,
                             sch_ready_task_list>>
      /\ UNCHANGED <<lock_count, drift, pc, level, sleep_task_list, timeVars,
                     cpuVars, count, ping, conds, until, timeout, timeout_index, from,
                     return_num, status>>

ResumeUnlock(t) ==
  /\ At(t, "rc_loop")
  /\ suspend_list[resuming[t].cond] = <<>> \/ resuming[t].num = 0
  /\ Go(t, <<"unlock", "rc_yield">>)
  /\ UNCHANGED <<state, resume_from, lock_count, drift, level, lists, timeVars,
                 cpuVars, condVars>>

(* task_yield if a task was resumed.                                       *)
ResumeYield(t) ==
  /\ At(t, "rc_yield")
  /\ IF resuming[t].yield /\ lock_count[t] = 0
     THEN Go(t, <<"pend", "rc_back">>) /\ ControlToSystem(t, interrupts)
     ELSE Go(t, <<"rc_back">>) /\ UNCHANGED <<interrupts, level>>
  /\ drift' = [drift EXCEPT ![t] = @ \/ (resuming[t].yield /\ lock_count[t] > 0)]
  /\ UNCHANGED <<state, resume_from, lock_count, lists, timeVars, current_task,
                 pend_sv, mode, condVars>>

(* Mutant: the suspends kept aside are dropped.                            *)
PutBackNone(t) == UNCHANGED suspend_list

(* The suspends kept aside go back to the front of the list, in order.     *)
PutBack(t) ==
  suspend_list' = [suspend_list EXCEPT ![resuming[t].cond] =
                     Reverse(resuming[t].tmp) \o @]

ResumeReturn(t) ==
  /\ At(t, "rc_back")
  /\ PutBack(t)
  /\ resuming' = [resuming EXCEPT ![t] = NoResume]
  /\ Go(t, <<>>)
  /\ UNCHANGED <<state, resume_from, lock_count, drift, level, lists, timeVars,
                 cpuVars, count, ping, suspendVars>>

----------------------------------------------------------------------------
ConditionCall(t) ==
  \/ suspend_timeout_get_min(t) \/ suspend_do_suspend(t)
  \/ suspend_condition_add_task(t) \/ SuspendLock(t)
  \/ SuspendSleep(t) \/ SuspendInsert(t) \/ SuspendSwitch(t) \/ SuspendWoke(t)
  \/ suspend_condition_remove_all(t) \/ suspend_condition_remove(t)
  \/ SuspendReturn(t)
  \/ ResumeLock(t) \/ ResumeOne(t) \/ ResumeUnlock(t) \/ ResumeYield(t)
  \/ ResumeReturn(t)

(* The tick leaves the conditions alone.                                   *)
ConditionTick == isr_sysclock_handle /\ UNCHANGED condVars
============================================================================
