---------------------------- MODULE KernelProofs ----------------------------
(***************************************************************************)
(* Theorems about the task kernel, for any number of tasks, priorities,    *)
(* delays and lock depths, and any width of the tick counter.              *)
(***************************************************************************)
EXTENDS Kernel, SllProofs

----------------------------------------------------------------------------
(* Stacks of program points.                                               *)

LEMMA SingleSeq ==
  ASSUME NEW S, NEW a \in S
  PROVE  <<a>> \in Seq(S) /\ Len(<<a>>) = 1 /\ <<a>>[1] = a
OBVIOUS

LEMMA PairSeq ==
  ASSUME NEW S, NEW a \in S, NEW b \in S
  PROVE  /\ <<a, b>> \in Seq(S) /\ Len(<<a, b>>) = 2
         /\ <<a, b>>[1] = a /\ <<a, b>>[2] = b
OBVIOUS

(* Replacing the head of s by the sequence l.                              *)
LEMMA ReplaceHead ==
  ASSUME NEW S, NEW s \in Seq(S), Len(s) >= 1, NEW l \in Seq(S)
  PROVE  /\ l \o Tail(s) \in Seq(S)
         /\ Len(l \o Tail(s)) = Len(l) + Len(s) - 1
         /\ \A i \in 1 .. Len(l) : (l \o Tail(s))[i] = l[i]
         /\ \A i \in 2 .. Len(s) : (l \o Tail(s))[Len(l) + i - 1] = s[i]
<1> DEFINE u == Tail(s)
<1>1. /\ u \in Seq(S) /\ Len(u) = Len(s) - 1
      /\ Len(s) \in Nat /\ Len(s) >= 1 /\ Len(l) \in Nat
      /\ \A i \in 1 .. Len(u) : u[i] = s[i + 1]
  BY HeadTailProperties
<1> HIDE DEF u
<1>2. /\ l \o u \in Seq(S) /\ Len(l \o u) = Len(l) + Len(u)
      /\ \A i \in 1 .. Len(l) + Len(u) :
           (l \o u)[i] = IF i <= Len(l) THEN l[i] ELSE u[i - Len(l)]
  BY <1>1, ConcatProperties
<1>3. Len(l \o u) = Len(l) + Len(s) - 1
  BY <1>1, <1>2
<1>4. ASSUME NEW i \in 1 .. Len(l)
      PROVE  (l \o u)[i] = l[i]
  BY <1>1, <1>2
<1>5. ASSUME NEW i \in 2 .. Len(s)
      PROVE  (l \o u)[Len(l) + i - 1] = s[i]
  <2>1. Len(l) + i - 1 \in 1 .. Len(l) + Len(u) /\ ~ (Len(l) + i - 1 <= Len(l))
    BY <1>1
  <2>2. (l \o u)[Len(l) + i - 1] = u[(Len(l) + i - 1) - Len(l)]
    BY <1>2, <2>1
  <2>3. /\ (Len(l) + i - 1) - Len(l) = i - 1
        /\ i - 1 \in 1 .. Len(u) /\ (i - 1) + 1 = i
    BY <1>1
  <2>4. u[i - 1] = s[(i - 1) + 1]
    BY <1>1, <2>3
  <2> QED  BY <2>2, <2>3, <2>4
<1> QED  BY <1>2, <1>3, <1>4, <1>5 DEF u

(* A call returns: the program point below it is reached.                  *)
LEMMA PopShape ==
  ASSUME NEW s, StackShape(s), s[1] # "user", NEW r, r = <<>> \o Tail(s)
  PROVE  /\ StackShape(r)
         /\ Len(s) = 2 => r[1] = "user" /\ Len(r) = 1
         /\ Len(s) = 3 => r[1] = "unlock" /\ Len(r) = 2
<1> DEFINE l == <<>>
<1>1. s \in Seq(Labels) /\ Len(s) >= 1 /\ Len(s) \in 2 .. 3
  BY DEF StackShape
<1>2. l \in Seq(Labels) /\ Len(l) = 0
  OBVIOUS
<1>3. r = l \o Tail(s)
  OBVIOUS
<1> HIDE DEF l
<1>4. /\ l \o Tail(s) \in Seq(Labels) /\ Len(l \o Tail(s)) = Len(s) - 1
      /\ \A i \in 2 .. Len(s) : (l \o Tail(s))[i - 1] = s[i]
  BY <1>1, <1>2, ReplaceHead
<1>5. /\ r \in Seq(Labels) /\ Len(r) = Len(s) - 1
      /\ \A i \in 2 .. Len(s) : r[i - 1] = s[i]
  BY <1>3, <1>4
<1>6. CASE Len(s) = 2
  <2>1. s[2] = "user"
    BY <1>6 DEF StackShape
  <2>2. r[1] = "user" /\ Len(r) = 1
    BY <1>5, <1>6, <2>1
  <2> QED  BY <2>2, <1>5, <1>6 DEF StackShape
<1>7. CASE Len(s) = 3
  <2>1. s[2] = "unlock" /\ s[3] = "user"
    BY <1>7 DEF StackShape
  <2>2. r[1] = "unlock" /\ r[2] = "user" /\ Len(r) = 2
    BY <1>5, <1>7, <2>1
  <2>3. "unlock" \in Labels \ {"user"}
    BY DEF Labels
  <2> QED  BY <2>2, <2>3, <1>5, <1>7 DEF StackShape
<1>8. Len(s) = 2 \/ Len(s) = 3
  BY <1>1
<1> QED  BY <1>6, <1>7, <1>8

LEMMA ReplaceByOne ==
  ASSUME NEW S, NEW s \in Seq(S), Len(s) >= 1, NEW a \in S,
         NEW r, r = <<a>> \o Tail(s)
  PROVE  /\ r \in Seq(S) /\ Len(r) = Len(s) /\ r[1] = a
         /\ \A i \in 2 .. Len(s) : r[i] = s[i]
<1> DEFINE l == <<a>>
<1>1. l \in Seq(S) /\ Len(l) = 1 /\ l[1] = a
  BY SingleSeq
<1>2. r = l \o Tail(s)
  OBVIOUS
<1> HIDE DEF l
<1>3. /\ l \o Tail(s) \in Seq(S)
      /\ Len(l \o Tail(s)) = Len(l) + Len(s) - 1
      /\ \A i \in 1 .. Len(l) : (l \o Tail(s))[i] = l[i]
      /\ \A i \in 2 .. Len(s) : (l \o Tail(s))[Len(l) + i - 1] = s[i]
  BY <1>1, ReplaceHead
<1>4. Len(s) \in Nat
  OBVIOUS
<1> QED  BY <1>1, <1>2, <1>3, <1>4

LEMMA ReplaceByTwo ==
  ASSUME NEW S, NEW s \in Seq(S), Len(s) >= 1, NEW l \in Seq(S), Len(l) = 2,
         NEW r, r = l \o Tail(s)
  PROVE  /\ r \in Seq(S) /\ Len(r) = Len(s) + 1 /\ r[1] = l[1] /\ r[2] = l[2]
         /\ \A i \in 2 .. Len(s) : r[i + 1] = s[i]
<1>1. /\ l \o Tail(s) \in Seq(S)
      /\ Len(l \o Tail(s)) = Len(l) + Len(s) - 1
      /\ \A i \in 1 .. Len(l) : (l \o Tail(s))[i] = l[i]
      /\ \A i \in 2 .. Len(s) : (l \o Tail(s))[Len(l) + i - 1] = s[i]
  BY ReplaceHead
<1>2. Len(s) \in Nat
  OBVIOUS
<1>3. ASSUME NEW i \in 2 .. Len(s)
      PROVE  r[i + 1] = s[i]
  <2>1. (l \o Tail(s))[2 + i - 1] = s[i] /\ 2 + i - 1 = i + 1
    BY <1>1, <1>2
  <2> QED  BY <2>1
<1> QED  BY <1>1, <1>2, <1>3

(* A call goes on to its next program point.                               *)
LEMMA StepShape ==
  ASSUME NEW s, StackShape(s), s[1] # "user", NEW a \in Labels \ {"user"},
         Len(s) = 3 => a \in {"pend", "back"}
  PROVE  /\ StackShape(<<a>> \o Tail(s))
         /\ (<<a>> \o Tail(s))[1] = a /\ Len(<<a>> \o Tail(s)) = Len(s)
<1> SUFFICES ASSUME NEW r, r = <<a>> \o Tail(s)
             PROVE  StackShape(r) /\ r[1] = a /\ Len(r) = Len(s)
  OBVIOUS
<1>1. s \in Seq(Labels) /\ Len(s) >= 1 /\ Len(s) \in 2 .. 3
  BY DEF StackShape
<1>2. /\ r \in Seq(Labels) /\ Len(r) = Len(s) /\ r[1] = a
      /\ \A i \in 2 .. Len(s) : r[i] = s[i]
  BY <1>1, ReplaceByOne
<1>3. CASE Len(s) = 2
  BY <1>2, <1>3 DEF StackShape
<1>4. CASE Len(s) = 3
  BY <1>2, <1>4 DEF StackShape
<1> QED  BY <1>1, <1>3, <1>4

(* The application calls the kernel.                                       *)
LEMMA CallShape ==
  ASSUME NEW s, StackShape(s), s[1] = "user", NEW a \in Labels \ {"user"},
         NEW l, l = <<a, "user">>
  PROVE  /\ StackShape(l \o Tail(s))
         /\ (l \o Tail(s))[1] = a /\ Len(l \o Tail(s)) = 2
<1> SUFFICES ASSUME NEW r, r = <<a, "user">> \o Tail(s)
             PROVE  StackShape(r) /\ r[1] = a /\ Len(r) = 2
  OBVIOUS
<1>1. s \in Seq(Labels) /\ Len(s) = 1
  <2>1. ~ (s[1] \in Labels \ {"user"}) /\ ~ (s[1] \in {"pend", "back"})
    OBVIOUS
  <2> QED  BY <2>1 DEF StackShape
<1>2. PICK b \in Labels : b = "user"
  BY DEF Labels
<1>3. PICK m \in Seq(Labels) : Len(m) = 2 /\ m[1] = a /\ m[2] = b /\ r = m \o Tail(s)
  <2>1. a \in Labels /\ r = <<a, b>> \o Tail(s)
    BY <1>2
  <2>2. /\ <<a, b>> \in Seq(Labels) /\ Len(<<a, b>>) = 2
        /\ <<a, b>>[1] = a /\ <<a, b>>[2] = b
    BY <2>1, PairSeq
  <2> QED  BY <2>1, <2>2
<1>4. r \in Seq(Labels) /\ Len(r) = Len(s) + 1 /\ r[1] = a /\ r[2] = b
  <2>1. Len(s) >= 1 /\ s \in Seq(Labels)
    BY <1>1
  <2>2. m \in Seq(Labels) /\ Len(m) = 2 /\ r = m \o Tail(s)
    BY <1>3
  <2>3. r \in Seq(Labels) /\ Len(r) = Len(s) + 1 /\ r[1] = m[1] /\ r[2] = m[2]
    BY <2>1, <2>2, ReplaceByTwo
  <2> QED  BY <1>3, <2>3
<1>5. Len(r) = 2
  BY <1>1, <1>4
<1> QED  BY <1>2, <1>4, <1>5 DEF StackShape

(* sleep_ticks suspends, and will unlock when it is back.                  *)
LEMMA SuspendShape ==
  ASSUME NEW s, StackShape(s), s[1] = "sl_suspend",
         NEW r, r = <<"pend", "unlock">> \o Tail(s)
  PROVE  StackShape(r) /\ r[1] = "pend" /\ Len(r) = 3
<1>1. s \in Seq(Labels) /\ Len(s) = 2 /\ s[2] = "user" /\ Len(s) >= 1
  BY DEF StackShape
<1>2. PICK a \in Labels, b \in Labels : a = "pend" /\ b = "unlock"
  BY DEF Labels
<1>3. PICK l \in Seq(Labels) : Len(l) = 2 /\ l[1] = a /\ l[2] = b /\ r = l \o Tail(s)
  BY <1>2, PairSeq
<1>4. /\ r \in Seq(Labels) /\ Len(r) = Len(s) + 1 /\ r[1] = a /\ r[2] = b
      /\ \A i \in 2 .. Len(s) : r[i + 1] = s[i]
  BY <1>1, <1>3, ReplaceByTwo
<1>5. Len(r) = 3 /\ r[3] = "user"
  BY <1>1, <1>4
<1> QED  BY <1>2, <1>4, <1>5 DEF StackShape

----------------------------------------------------------------------------
(* The ready list.                                                         *)

(* A task that was not ready is made ready: it joins the list, in order.   *)
LEMMA MadeReady ==
  ASSUME StateTypeOK, ReadyListExact, ReadyListSorted,
         NEW t \in Tasks, ~ Ready(t), NEW st \in {"RESUME", "SLEEP_RESUME"},
         state' = [state EXCEPT ![t] = st],
         sch_ready_task_list' = Enqueued(sch_ready_task_list, t)
  PROVE  /\ sch_ready_task_list' \in Seq(Tasks)
         /\ state' \in [Tasks -> States]
         /\ ToSet(sch_ready_task_list') = ToSet(sch_ready_task_list) \cup {t}
         /\ ReadyListExact'
         /\ ReadyListSorted'
<1> DEFINE list  == sch_ready_task_list
           later == scheduler_task_sort(list, t)
           new   == sll_insert(list, t, later)
<1>1. list \in Seq(Tasks) /\ state \in [Tasks -> States]
  BY DEF StateTypeOK
<1>2. sch_ready_task_list' = new
  BY DEF Enqueued
<1>3. NoDuplicates(list) /\ t \notin ToSet(list)
  BY DEF ReadyListExact
<1>4. later = {n \in ToSet(list) : Priority[n] > Priority[t]}
  BY DEF scheduler_task_sort
<1> HIDE DEF later
<1>5. new \in Seq(Tasks) /\ ToSet(new) = ToSet(list) \cup {t} /\ NoDuplicates(new)
  BY <1>1, <1>3, SllInsertMembers
<1>6. \A i, j \in 1 .. Len(new) : i < j => Priority[new[i]] <= Priority[new[j]]
  <2>1. Priority \in [Tasks -> Int]
    BY TaskAssumption
  <2>2. \A i, j \in 1 .. Len(list) : i < j => Priority[list[i]] <= Priority[list[j]]
    BY DEF ReadyListSorted
  <2>3. PICK n : n = new
    OBVIOUS
  <2> HIDE DEF new
  <2>4. n = sll_insert(list, t, later)
    BY <2>3 DEF new
  <2>5. \A m \in ToSet(list) :
          IF m \in later THEN Priority[t] <= Priority[m] ELSE Priority[m] <= Priority[t]
    <3>1. \A m \in ToSet(list) : Priority[m] \in Int
      BY <1>1, <2>1, ToSetMember
    <3> QED  BY <1>4, <2>1, <3>1
  <2>6. \A i, j \in 1 .. Len(n) : i < j => Priority[n[i]] <= Priority[n[j]]
    BY <1>1, <2>1, <2>2, <2>4, <2>5, SllInsertSorted
  <2> QED  BY <2>3, <2>6
<1> HIDE DEF new
<1>7. ReadyListSorted'
  BY <1>2, <1>6 DEF ReadyListSorted
<1>8. state' \in [Tasks -> States]
  BY <1>1 DEF States
<1>9. \A u \in Tasks : state'[u] = IF u = t THEN st ELSE state[u]
  BY <1>1
<1>10. \A u \in Tasks : Ready(u)' <=> u \in ToSet(new)
  <2> TAKE u \in Tasks
  <2>1. CASE u = t
    BY <1>5, <1>9, <2>1 DEF Ready
  <2>2. CASE u # t
    BY <1>5, <1>9, <2>2 DEF Ready, ReadyListExact
  <2> QED  BY <2>1, <2>2
<1>11. ReadyListExact'
  BY <1>2, <1>5, <1>10 DEF ReadyListExact
<1> QED  BY <1>2, <1>5, <1>7, <1>8, <1>11

(* The first ready task gets the CPU.                                      *)
LEMMA NextTaken ==
  ASSUME StateTypeOK, ReadyListExact, ReadyListSorted,
         sch_ready_task_list # <<>>, NEW t, t = Head(sch_ready_task_list),
         state' = [state EXCEPT ![t] = "RUNNING"],
         sch_ready_task_list' = Tail(sch_ready_task_list)
  PROVE  /\ t \in Tasks
         /\ sch_ready_task_list' \in Seq(Tasks)
         /\ state' \in [Tasks -> States]
         /\ ReadyListExact'
         /\ ReadyListSorted'
         /\ \A u \in ToSet(sch_ready_task_list') : Priority[t] <= Priority[u]
<1> DEFINE list == sch_ready_task_list
<1>1. list \in Seq(Tasks) /\ state \in [Tasks -> States]
  BY DEF StateTypeOK
<1>2. NoDuplicates(list) /\ \A u \in Tasks : Ready(u) <=> u \in ToSet(list)
  BY DEF ReadyListExact
<1>3. /\ t \in Tasks /\ t \in ToSet(list) /\ Tail(list) \in Seq(Tasks)
      /\ NoDuplicates(Tail(list)) /\ ToSet(Tail(list)) = ToSet(list) \ {t}
  BY <1>1, <1>2, TailMembers
<1>4. /\ \A i, j \in 1 .. Len(Tail(list)) :
           i < j => Priority[Tail(list)[i]] <= Priority[Tail(list)[j]]
      /\ \A u \in ToSet(Tail(list)) : Priority[t] <= Priority[u]
  <2>1. Priority \in [Tasks -> Nat]
    BY TaskAssumption
  <2>2. \A i, j \in 1 .. Len(list) : i < j => Priority[list[i]] <= Priority[list[j]]
    BY DEF ReadyListSorted
  <2> QED  BY <1>1, <2>1, <2>2, TailSorted
<1>5. state' \in [Tasks -> States]
  BY <1>1, <1>3 DEF States
<1>6. \A u \in Tasks : state'[u] = IF u = t THEN "RUNNING" ELSE state[u]
  BY <1>1, <1>3
<1>7. \A u \in Tasks : Ready(u)' <=> u \in ToSet(Tail(list))
  <2> TAKE u \in Tasks
  <2>1. CASE u = t
    BY <1>3, <1>6, <2>1 DEF Ready
  <2>2. CASE u # t
    BY <1>2, <1>3, <1>6, <2>2 DEF Ready
  <2> QED  BY <2>1, <2>2
<1>8. ReadyListExact'
  BY <1>3, <1>7 DEF ReadyListExact
<1>9. ReadyListSorted'
  BY <1>4 DEF ReadyListSorted
<1> QED  BY <1>3, <1>4, <1>5, <1>8, <1>9

(* The state of a task outside the list changes to another such state.     *)
LEMMA StaysOffList ==
  ASSUME StateTypeOK, ReadyListExact, ReadyListSorted,
         NEW t \in Tasks, ~ Ready(t),
         NEW st \in States \ {"RESUME", "SLEEP_RESUME"},
         state' = [state EXCEPT ![t] = st],
         sch_ready_task_list' = sch_ready_task_list
  PROVE  state' \in [Tasks -> States] /\ ReadyListExact' /\ ReadyListSorted'
<1>1. state \in [Tasks -> States]
  BY DEF StateTypeOK
<1>2. \A u \in Tasks : state'[u] = IF u = t THEN st ELSE state[u]
  BY <1>1
<1>3. \A u \in Tasks : Ready(u)' <=> Ready(u)
  BY <1>2 DEF Ready
<1> QED  BY <1>1, <1>3 DEF ReadyListExact, ReadyListSorted

(* Nothing that the ready list depends on changes.                         *)
LEMMA ReadyListUnchanged ==
  ASSUME ReadyListExact, ReadyListSorted, UNCHANGED <<state, sch_ready_task_list>>
  PROVE  ReadyListExact' /\ ReadyListSorted'
BY DEF ReadyListExact, ReadyListSorted, Ready

----------------------------------------------------------------------------
(* Control.                                                                *)

(* What holds of the task that executes.                                   *)
LEMMA AtFacts ==
  ASSUME KernelInvariant, NEW t \in Tasks, NEW label, At(t, label)
  PROVE  /\ mode = "task" /\ current_task = t /\ ~ (pend_sv /\ interrupts)
         /\ StackShape(pc[t]) /\ pc[t][1] = label /\ ~ Ready(t)
         /\ label # "pend" => state[t] = "RUNNING"
<1>1. mode = "task" /\ current_task = t /\ ~ (pend_sv /\ interrupts) /\ Head(pc[t]) = label
  BY DEF At, Executes
<1>2. StackShape(pc[t])
  BY DEF KernelInvariant, StackOK
<1>3. Head(pc[t]) = pc[t][1]
  BY <1>2 DEF StackShape
<1>4. /\ state[t] \in {"RUNNING", "TO_BE_SUSPENDED", "FINISHED"}
      /\ state[t] # "RUNNING" => /\ interrupts
                                 /\ \/ pc[t][1] = "pend"
                                    \/ pc[t][1] = "back" /\ pend_sv
  BY <1>1 DEF KernelInvariant, CurrentOK
<1>5. ~ Ready(t)
  BY <1>4 DEF Ready
<1>6. label # "pend" => state[t] = "RUNNING"
  BY <1>1, <1>3, <1>4
<1> QED  BY <1>1, <1>2, <1>3, <1>5, <1>6

LEMMA UserOwesNothing ==
  ASSUME KernelInvariant, NEW t \in Tasks, InUser(t)
  PROVE  ~ OwesUnlock(t)
<1>1. StackShape(pc[t]) /\ pc[t][1] = "user"
  BY AtFacts DEF InUser
<1>2. ~ (pc[t][1] \in Labels \ {"user"}) /\ ~ (pc[t][1] \in {"pend", "back"})
  BY <1>1
<1>3. Len(pc[t]) = 1
  BY <1>1, <1>2, Zenon DEF StackShape
<1>4. Len(pc[t]) # 3
  BY <1>3
<1> QED  BY <1>1, <1>4 DEF OwesUnlock

(* The program points of the others do not change.                         *)
LEMMA GoFacts ==
  ASSUME KernelInvariant, NEW t \in Tasks, NEW l, Go(t, l),
         StackShape(l \o Tail(pc[t]))
  PROVE  /\ pc' \in [Tasks -> Seq(Labels)] /\ StackOK'
         /\ pc'[t] = l \o Tail(pc[t])
         /\ \A u \in Tasks : u # t => pc'[u] = pc[u]
<1>1. pc \in [Tasks -> Seq(Labels)]
  BY DEF KernelInvariant, TypeOK
<1>2. \A u \in Tasks : pc'[u] = IF u = t THEN l \o Tail(pc[t]) ELSE pc[u]
  BY <1>1 DEF Go
<1>3. l \o Tail(pc[t]) \in Seq(Labels)
  BY DEF StackShape
<1>4. pc' \in [Tasks -> Seq(Labels)]
  BY <1>1, <1>3 DEF Go
<1>5. StackOK'
  <2> SUFFICES ASSUME NEW u \in Tasks
               PROVE  StackShape(pc'[u])
    BY DEF StackOK
  <2>1. StackShape(pc[u])
    BY DEF KernelInvariant, StackOK
  <2>2. CASE u = t
    BY <1>2, <2>2
  <2>3. CASE u # t
    BY <1>2, <2>1, <2>3
  <2> QED  BY <2>2, <2>3
<1> QED  BY <1>2, <1>4, <1>5

(* Halt: nothing but the mode and the interrupts change.                   *)
LEMMA HaltPreserves ==
  ASSUME KernelInvariant, Halt,
         UNCHANGED <<state, resume_from, lock_count, drift, pc, level, lists,
                     tick_sleep, ticks, current_task, pend_sv>>,
         current_tick' \in 0 .. TickRange - 1, left' \in [Tasks -> Int]
  PROVE  KernelInvariant'
<1>1. TypeOK'
  BY DEF KernelInvariant, TypeOK, StateTypeOK, Halt, lists, Modes
<1>2. ReadyListExact' /\ ReadyListSorted'
  BY ReadyListUnchanged DEF KernelInvariant, lists
<1>3. StackOK' /\ LocksOK'
  BY DEF KernelInvariant, StackOK, LocksOK, OwesUnlock
<1>4. CurrentOK'
  BY DEF CurrentOK, Halt
<1> QED  BY <1>1, <1>2, <1>3, <1>4 DEF KernelInvariant

----------------------------------------------------------------------------
(* The inductive invariant, action by action.                              *)

LEMMA InitInvariant == Init => KernelInvariant
<1> SUFFICES ASSUME Init
             PROVE  KernelInvariant
  OBVIOUS
<1>1. Idle \in Tasks /\ TickRange \in Nat /\ TickRange > 0 /\ MaxLock \in Nat
      /\ MaxUserLock \in Nat
  BY TaskAssumption, TickAssumption, LockAssumption
<1>2. PICK u \in Labels : u = "user"
  BY DEF Labels
<1>3. \A t \in Tasks : pc[t] = <<u>> /\ pc[t] \in Seq(Labels)
                        /\ Len(pc[t]) = 1 /\ pc[t][1] = "user"
  BY <1>2, SingleSeq DEF Init
<1>4. pc \in [Tasks -> Seq(Labels)]
  <2>1. pc = [t \in Tasks |-> <<u>>]
    BY <1>2 DEF Init
  <2>2. <<u>> \in Seq(Labels)
    BY SingleSeq
  <2> QED  BY <2>1, <2>2
<1>5. sch_ready_task_list \in Seq(Tasks) /\ Len(sch_ready_task_list) = 1
      /\ sch_ready_task_list[1] = Idle
  BY <1>1, SingleSeq DEF Init
<1>6. StateTypeOK
  <2>1. state \in [Tasks -> States] /\ resume_from \in [Tasks -> {"SYSTEM", "SLEEP"}]
    BY DEF Init, States
  <2>2. /\ lock_count \in [Tasks -> 0 .. MaxLock] /\ drift \in [Tasks -> BOOLEAN]
        /\ tick_sleep \in [Tasks -> 0 .. TickRange - 1]
        /\ current_tick \in 0 .. TickRange - 1
        /\ ticks \in [Tasks -> Nat] /\ left \in [Tasks -> Int]
        /\ level \in [Tasks -> BOOLEAN]
    BY <1>1 DEF Init
  <2>3. interrupts \in BOOLEAN /\ pend_sv \in BOOLEAN
    BY Zenon DEF Init
  <2>4. sleep_task_list \in Seq(Tasks) /\ current_task \in Tasks \cup {NULL}
    BY DEF Init
  <2>5. mode \in Modes
    BY DEF Init, Modes
  <2> QED  BY <1>5, <2>1, <2>2, <2>3, <2>4, <2>5 DEF StateTypeOK
<1>7. ReadyListExact
  <2>1. NoDuplicates(sch_ready_task_list)
    BY <1>5 DEF NoDuplicates
  <2>2. \A t \in Tasks : t \in ToSet(sch_ready_task_list) <=> t = Idle
    BY <1>5, ToSetMember
  <2>3. \A t \in Tasks : Ready(t) <=> t = Idle
    BY DEF Init, Ready
  <2> QED  BY <2>1, <2>2, <2>3 DEF ReadyListExact
<1>8. ReadyListSorted
  BY <1>5 DEF ReadyListSorted
<1>9. StackOK
  BY <1>3 DEF StackOK, StackShape
<1>10. LocksOK
  BY <1>1, <1>3 DEF LocksOK, OwesUnlock, Init
<1>11. CurrentOK
  BY DEF CurrentOK, Init
<1> QED  BY <1>4, <1>6, <1>7, <1>8, <1>9, <1>10, <1>11 DEF KernelInvariant, TypeOK

LEMMA BootAddInvariant ==
  ASSUME KernelInvariant, NEW t \in Tasks, BootAdd(t)
  PROVE  KernelInvariant'
<1>1. ~ Ready(t) /\ mode' = "boot"
  BY DEF BootAdd, Ready, cpuVars
<1>2. /\ sch_ready_task_list' \in Seq(Tasks) /\ state' \in [Tasks -> States]
      /\ ReadyListExact' /\ ReadyListSorted'
  BY <1>1, MadeReady DEF KernelInvariant, TypeOK, BootAdd, YieldSystem
<1>3. TypeOK'
  BY <1>2 DEF KernelInvariant, TypeOK, StateTypeOK, BootAdd, YieldSystem, timeVars, cpuVars
<1>4. StackOK' /\ LocksOK'
  BY DEF KernelInvariant, StackOK, LocksOK, OwesUnlock, BootAdd
<1>5. CurrentOK'
  BY <1>1 DEF CurrentOK
<1> QED  BY <1>2, <1>3, <1>4, <1>5 DEF KernelInvariant

(* run_first_task and LoadNext: the same switch at boot and in PendSV.     *)
LEMMA SwitchInvariant ==
  ASSUME KernelInvariant, SwitchToNext,
         UNCHANGED <<resume_from, lock_count, drift, pc, level, sleep_task_list,
                     timeVars, pend_sv>>
  PROVE  KernelInvariant'
<1>1. CASE sch_ready_task_list = <<>>
  <2>1. Halt /\ UNCHANGED <<current_task, state, sch_ready_task_list>>
    BY <1>1 DEF SwitchToNext
  <2>2. current_tick' \in 0 .. TickRange - 1 /\ left' \in [Tasks -> Int]
    BY DEF KernelInvariant, TypeOK, StateTypeOK, timeVars
  <2> QED  BY <2>1, <2>2, HaltPreserves DEF lists, timeVars
<1>2. CASE sch_ready_task_list # <<>>
  <2> DEFINE t == Head(sch_ready_task_list)
  <2>1. /\ current_task' = t /\ state' = [state EXCEPT ![t] = "RUNNING"]
        /\ sch_ready_task_list' = Tail(sch_ready_task_list)
        /\ interrupts' = TRUE /\ mode' = "task"
    BY <1>2 DEF SwitchToNext
  <2>2. /\ t \in Tasks /\ sch_ready_task_list' \in Seq(Tasks)
        /\ state' \in [Tasks -> States] /\ ReadyListExact' /\ ReadyListSorted'
    BY <1>2, <2>1, NextTaken DEF KernelInvariant, TypeOK
  <2> HIDE DEF t
  <2>3. TypeOK'
    BY <2>1, <2>2 DEF KernelInvariant, TypeOK, StateTypeOK, timeVars, Modes
  <2>4. StackOK' /\ LocksOK'
    BY DEF KernelInvariant, StackOK, LocksOK, OwesUnlock
  <2>5. state'[t] = "RUNNING"
    BY <2>1, <2>2 DEF KernelInvariant, TypeOK, StateTypeOK
  <2>6. CurrentOK'
    BY <2>1, <2>2, <2>5 DEF CurrentOK
  <2> QED  BY <2>2, <2>3, <2>4, <2>6 DEF KernelInvariant
<1> QED  BY <1>1, <1>2

LEMMA TickInvariant ==
  ASSUME KernelInvariant, isr_sysclock_handle
  PROVE  KernelInvariant'
<1>1. current_tick' \in 0 .. TickRange - 1
  BY TickAssumption DEF KernelInvariant, TypeOK, StateTypeOK, isr_sysclock_handle
<1>2. left' \in [Tasks -> Int]
  BY DEF KernelInvariant, TypeOK, StateTypeOK, isr_sysclock_handle
<1>3. UNCHANGED <<state, resume_from, lock_count, pc, level, lists, tick_sleep,
                  ticks, current_task>>
  BY DEF isr_sysclock_handle
<1>4. mode = "task" /\ current_task \in Tasks
  BY DEF KernelInvariant, CurrentOK, isr_sysclock_handle
<1>5. CASE Halt /\ UNCHANGED <<drift, pend_sv>>
  BY <1>1, <1>2, <1>3, <1>5, HaltPreserves
<1>6. CASE /\ UNCHANGED <<mode, interrupts>>
           /\ pend_sv' = TRUE \/ pend_sv' = pend_sv
           /\ drift' \in [Tasks -> BOOLEAN]
  <2>1. pend_sv \in BOOLEAN /\ pend_sv' \in BOOLEAN /\ (pend_sv => pend_sv')
    <3>1. pend_sv \in BOOLEAN
      BY DEF KernelInvariant, TypeOK, StateTypeOK
    <3>2. CASE pend_sv' = TRUE
      BY <3>1, <3>2
    <3>3. CASE pend_sv' = pend_sv
      BY <3>1, <3>3
    <3> QED  BY <1>6, <3>2, <3>3
  <2>2. TypeOK'
    <3>1. interrupts' \in BOOLEAN /\ mode' \in Modes
      BY <1>6, Zenon DEF KernelInvariant, TypeOK, StateTypeOK
    <3> QED  BY <1>1, <1>2, <1>3, <1>6, <2>1, <3>1
             DEF KernelInvariant, TypeOK, StateTypeOK, lists
  <2>3. ReadyListExact' /\ ReadyListSorted'
    BY <1>3, ReadyListUnchanged DEF KernelInvariant, lists
  <2>4. StackOK' /\ LocksOK'
    BY <1>3 DEF KernelInvariant, StackOK, LocksOK, OwesUnlock
  <2>5. CurrentOK'
    BY <1>3, <1>6, <2>1 DEF KernelInvariant, CurrentOK
  <2> QED  BY <2>2, <2>3, <2>4, <2>5 DEF KernelInvariant
<1>7. drift \in [Tasks -> BOOLEAN] /\ [drift EXCEPT ![current_task] = TRUE] \in [Tasks -> BOOLEAN]
  BY <1>4 DEF KernelInvariant, TypeOK, StateTypeOK
<1>8. \/ Halt /\ UNCHANGED <<drift, pend_sv>>
      \/ UNCHANGED <<mode, interrupts>> /\ (pend_sv' = TRUE \/ pend_sv' = pend_sv)
           /\ (UNCHANGED drift \/ drift' = [drift EXCEPT ![current_task] = TRUE])
  BY DEF isr_sysclock_handle, Preempt
<1> QED  BY <1>5, <1>6, <1>7, <1>8

LEMMA SaveInvariant ==
  ASSUME KernelInvariant, SaveCurrent
  PROVE  KernelInvariant'
<1>1. current_task \in Tasks /\ ~ Ready(current_task)
  BY DEF KernelInvariant, CurrentOK, SaveCurrent, Ready
<1>2. /\ mode' = "pendsv" /\ pend_sv' = FALSE
      /\ UNCHANGED <<lock_count, drift, pc, level, sleep_task_list, timeVars,
                     current_task, interrupts>>
  BY DEF SaveCurrent
<1>3. /\ sch_ready_task_list' \in Seq(Tasks) /\ state' \in [Tasks -> States]
      /\ resume_from' \in [Tasks -> {"SYSTEM", "SLEEP"}]
      /\ ReadyListExact' /\ ReadyListSorted'
  <2>1. CASE YieldSystem(current_task)
    <3>1. /\ sch_ready_task_list' \in Seq(Tasks) /\ state' \in [Tasks -> States]
          /\ ReadyListExact' /\ ReadyListSorted'
      BY <1>1, <2>1, MadeReady DEF KernelInvariant, TypeOK, YieldSystem
    <3> QED  BY <2>1, <3>1 DEF KernelInvariant, TypeOK, StateTypeOK, YieldSystem
  <2>2. CASE /\ state' = [state EXCEPT ![current_task] = "SUSPENDED"]
             /\ UNCHANGED <<resume_from, sch_ready_task_list>>
    <3>1. "SUSPENDED" \in States \ {"RESUME", "SLEEP_RESUME"}
      BY DEF States
    <3>2. state' \in [Tasks -> States] /\ ReadyListExact' /\ ReadyListSorted'
      BY <1>1, <2>2, <3>1, StaysOffList DEF KernelInvariant, TypeOK
    <3> QED  BY <2>2, <3>2 DEF KernelInvariant, TypeOK, StateTypeOK
  <2>3. CASE UNCHANGED <<state, resume_from, sch_ready_task_list>>
    BY <2>3, ReadyListUnchanged DEF KernelInvariant, TypeOK, StateTypeOK
  <2> QED  BY <2>1, <2>2, <2>3 DEF SaveCurrent
<1>4. TypeOK'
  BY <1>1, <1>2, <1>3 DEF KernelInvariant, TypeOK, StateTypeOK, timeVars, Modes
<1>5. StackOK' /\ LocksOK'
  BY <1>2 DEF KernelInvariant, StackOK, LocksOK, OwesUnlock
<1>6. CurrentOK'
  BY <1>1, <1>2 DEF CurrentOK
<1> QED  BY <1>3, <1>4, <1>5, <1>6 DEF KernelInvariant

LEMMA WakeInvariant ==
  ASSUME KernelInvariant, sleep_process_system_tick
  PROVE  KernelInvariant'
<1>1. PICK i \in 1 .. Len(sleep_task_list) :
        /\ sleep_walk(i)
        /\ sleep_task_list' = RemoveAt(sleep_task_list, i)
        /\ tick_sleep' = [tick_sleep EXCEPT ![sleep_task_list[i]] = 0]
        /\ state' = [state EXCEPT ![sleep_task_list[i]] = "SLEEP_RESUME"]
        /\ resume_from' = [resume_from EXCEPT ![sleep_task_list[i]] = "SLEEP"]
        /\ sch_ready_task_list' = Enqueued(sch_ready_task_list, sleep_task_list[i])
        /\ left' = [left EXCEPT ![sleep_task_list[i]] = IF @ > 0 THEN @ ELSE 0]
  BY DEF sleep_process_system_tick
<1>2. /\ mode = "pendsv"
      /\ UNCHANGED <<lock_count, drift, pc, level, ticks, current_tick, cpuVars>>
  BY DEF sleep_process_system_tick
<1>3. PICK t \in Tasks : t = sleep_task_list[i]
  <2>1. sleep_task_list \in Seq(Tasks)
    BY DEF KernelInvariant, TypeOK, StateTypeOK
  <2> QED  BY <2>1, ElementOfSeq
<1>4. ~ Ready(t)
  BY <1>1, <1>3 DEF sleep_walk, Ready
<1>5. /\ sch_ready_task_list' \in Seq(Tasks) /\ state' \in [Tasks -> States]
      /\ ReadyListExact' /\ ReadyListSorted'
  BY <1>1, <1>3, <1>4, MadeReady DEF KernelInvariant, TypeOK
<1>6. sleep_task_list' \in Seq(Tasks)
  <2>1. sleep_task_list \in Seq(Tasks)
    BY DEF KernelInvariant, TypeOK, StateTypeOK
  <2>2. RemoveAt(sleep_task_list, i) \in Seq(Tasks)
    BY <2>1, RemoveAtProperties
  <2> QED  BY <1>1, <2>2
<1>7. /\ tick_sleep' \in [Tasks -> 0 .. TickRange - 1]
      /\ resume_from' \in [Tasks -> {"SYSTEM", "SLEEP"}]
      /\ left' \in [Tasks -> Int]
  <2>1. 0 \in 0 .. TickRange - 1
    BY TickAssumption
  <2>2. left \in [Tasks -> Int] /\ left[t] \in Int
    BY DEF KernelInvariant, TypeOK, StateTypeOK
  <2>3. left' \in [Tasks -> Int]
    BY <1>1, <1>3, <2>2
  <2> QED  BY <1>1, <1>3, <2>1, <2>3 DEF KernelInvariant, TypeOK, StateTypeOK
<1>8. TypeOK'
  BY <1>2, <1>5, <1>6, <1>7 DEF KernelInvariant, TypeOK, StateTypeOK, cpuVars
<1>9. StackOK' /\ LocksOK'
  BY <1>2 DEF KernelInvariant, StackOK, LocksOK, OwesUnlock
<1>10. CurrentOK'
  BY <1>2 DEF KernelInvariant, CurrentOK, cpuVars
<1> QED  BY <1>5, <1>8, <1>9, <1>10 DEF KernelInvariant

(* A step of a call in which the running task keeps running.               *)
LEMMA CallInvariant ==
  ASSUME KernelInvariant, NEW t \in Tasks,
         mode = "task", current_task = t, state[t] = "RUNNING",
         UNCHANGED <<state, sch_ready_task_list, current_task, mode>>,
         TypeOK', StackOK',
         \A u \in Tasks : u # t => pc'[u] = pc[u] /\ lock_count'[u] = lock_count[u],
         OwesUnlock(t)' => lock_count'[t] > 0,
         lock_count'[t] <= MaxUserLock + 1,
         ~ OwesUnlock(t)' => lock_count'[t] <= MaxUserLock
  PROVE  KernelInvariant'
<1>1. ReadyListExact' /\ ReadyListSorted'
  BY ReadyListUnchanged DEF KernelInvariant
<1>2. LocksOK'
  <2> SUFFICES ASSUME NEW u \in Tasks
               PROVE  /\ OwesUnlock(u)' => lock_count'[u] > 0
                      /\ lock_count'[u] <= MaxUserLock + 1
                      /\ ~ OwesUnlock(u)' => lock_count'[u] <= MaxUserLock
    BY DEF LocksOK
  <2>1. CASE u = t
    BY <2>1
  <2>2. CASE u # t
    <3>1. /\ OwesUnlock(u) => lock_count[u] > 0
          /\ lock_count[u] <= MaxUserLock + 1
          /\ ~ OwesUnlock(u) => lock_count[u] <= MaxUserLock
      BY DEF KernelInvariant, LocksOK
    <3>2. OwesUnlock(u)' <=> OwesUnlock(u)
      BY <2>2 DEF OwesUnlock
    <3> QED  BY <2>2, <3>1, <3>2
  <2> QED  BY <2>1, <2>2
<1>3. CurrentOK'
  BY DEF CurrentOK
<1> QED  BY <1>1, <1>2, <1>3 DEF KernelInvariant

LEMMA PendInvariant ==
  ASSUME KernelInvariant, NEW t \in Tasks, PEND_SV(t)
  PROVE  KernelInvariant'
<1>1. /\ mode = "task" /\ current_task = t /\ StackShape(pc[t]) /\ pc[t][1] = "pend"
  BY AtFacts DEF PEND_SV
<1>2. PICK b \in Labels \ {"user"} : b = "back"
  BY DEF Labels
<1>3. StackShape(<<b>> \o Tail(pc[t])) /\ (<<b>> \o Tail(pc[t]))[1] = b
      /\ Len(<<b>> \o Tail(pc[t])) = Len(pc[t])
  BY <1>1, <1>2, StepShape
<1>4. Go(t, <<b>>)
  BY <1>2 DEF PEND_SV
<1>5. /\ pc' \in [Tasks -> Seq(Labels)] /\ StackOK' /\ pc'[t] = <<b>> \o Tail(pc[t])
      /\ \A u \in Tasks : u # t => pc'[u] = pc[u]
  BY <1>3, <1>4, GoFacts
<1>6. pc'[t][1] = "back" /\ Len(pc'[t]) = Len(pc[t])
  BY <1>2, <1>3, <1>5
<1>7. /\ UNCHANGED <<state, resume_from, lock_count, drift, level, lists, timeVars,
                     current_task, interrupts, mode>>
      /\ pend_sv' = TRUE
  BY DEF PEND_SV
<1>8. TypeOK'
  BY <1>5, <1>7 DEF KernelInvariant, TypeOK, StateTypeOK, lists, timeVars
<1>9. ReadyListExact' /\ ReadyListSorted'
  BY <1>7, ReadyListUnchanged DEF KernelInvariant, lists
<1>10. LocksOK'
  <2>1. \A u \in Tasks : OwesUnlock(u)' <=> OwesUnlock(u)
    BY <1>1, <1>5, <1>6 DEF OwesUnlock
  <2> QED  BY <1>7, <2>1 DEF KernelInvariant, LocksOK
<1>11. CurrentOK'
  BY <1>1, <1>6, <1>7 DEF KernelInvariant, CurrentOK
<1> QED  BY <1>5, <1>8, <1>9, <1>10, <1>11 DEF KernelInvariant

LEMMA RestoreInvariant ==
  ASSUME KernelInvariant, NEW t \in Tasks, RestoreLevel(t)
  PROVE  KernelInvariant'
<1>1. /\ mode = "task" /\ current_task = t /\ StackShape(pc[t]) /\ pc[t][1] = "back"
      /\ state[t] = "RUNNING"
  BY AtFacts DEF RestoreLevel
<1>2. /\ StackShape(<<>> \o Tail(pc[t]))
      /\ Len(pc[t]) = 2 => (<<>> \o Tail(pc[t]))[1] = "user" /\ Len(<<>> \o Tail(pc[t])) = 1
      /\ Len(pc[t]) = 3 => (<<>> \o Tail(pc[t]))[1] = "unlock" /\ Len(<<>> \o Tail(pc[t])) = 2
  BY <1>1, PopShape
<1>3. /\ pc' \in [Tasks -> Seq(Labels)] /\ StackOK' /\ pc'[t] = <<>> \o Tail(pc[t])
      /\ \A u \in Tasks : u # t => pc'[u] = pc[u]
  BY <1>2, GoFacts DEF RestoreLevel
<1>4. /\ UNCHANGED <<state, resume_from, lock_count, drift, level, lists, timeVars,
                     current_task, pend_sv, mode>>
      /\ interrupts' = level[t]
  BY DEF RestoreLevel
<1>5. TypeOK'
  <2>1. level[t] \in BOOLEAN
    BY DEF KernelInvariant, TypeOK, StateTypeOK
  <2> QED  BY <1>3, <1>4, <2>1 DEF KernelInvariant, TypeOK, StateTypeOK, lists, timeVars
<1>6. OwesUnlock(t)' <=> OwesUnlock(t)
  <2>1. Len(pc[t]) = 2 \/ Len(pc[t]) = 3
    BY <1>1 DEF StackShape
  <2>2. CASE Len(pc[t]) = 2
    <3>1. pc'[t][1] = "user" /\ Len(pc'[t]) = 1
      BY <1>2, <1>3, <2>2
    <3> QED  BY <1>1, <2>2, <3>1 DEF OwesUnlock
  <2>3. CASE Len(pc[t]) = 3
    BY <1>1, <1>2, <1>3, <2>3 DEF OwesUnlock
  <2> QED  BY <2>1, <2>2, <2>3
<1>7. /\ OwesUnlock(t)' => lock_count'[t] > 0
      /\ lock_count'[t] <= MaxUserLock + 1
      /\ ~ OwesUnlock(t)' => lock_count'[t] <= MaxUserLock
  BY <1>4, <1>6 DEF KernelInvariant, LocksOK
<1> QED  BY <1>1, <1>3, <1>4, <1>5, <1>7, CallInvariant DEF lists

LEMMA LockInvariant ==
  ASSUME KernelInvariant, NEW t \in Tasks, scheduler_lock(t)
  PROVE  KernelInvariant'
<1>1. /\ mode = "task" /\ current_task = t /\ StackShape(pc[t]) /\ pc[t][1] = "user"
      /\ state[t] = "RUNNING"
  BY AtFacts DEF scheduler_lock, InUser
<1>2. /\ lock_count[t] \in Nat /\ lock_count[t] < MaxUserLock
      /\ MaxUserLock \in Nat /\ MaxLock \in Nat /\ MaxUserLock + 2 <= MaxLock
  BY LockAssumption DEF KernelInvariant, TypeOK, StateTypeOK, scheduler_lock
<1>3. /\ lock_count' = [lock_count EXCEPT ![t] = @ + 1]
      /\ UNCHANGED <<mode, interrupts, state, resume_from, drift, pc, level, lists,
                     timeVars, current_task, pend_sv>>
  BY <1>2 DEF scheduler_lock
<1>4. /\ \A u \in Tasks : lock_count'[u] = IF u = t THEN lock_count[t] + 1 ELSE lock_count[u]
      /\ lock_count' \in [Tasks -> 0 .. MaxLock]
  <2>1. lock_count \in [Tasks -> 0 .. MaxLock]
    BY DEF KernelInvariant, TypeOK, StateTypeOK
  <2>2. lock_count[t] + 1 \in 0 .. MaxLock
    BY <1>2
  <2> QED  BY <1>3, <2>1, <2>2
<1>5. TypeOK'
  BY <1>3, <1>4 DEF KernelInvariant, TypeOK, StateTypeOK, lists, timeVars
<1>6. StackOK'
  BY <1>3 DEF KernelInvariant, StackOK
<1>7. lock_count'[t] > 0 /\ lock_count'[t] <= MaxUserLock
  BY <1>2, <1>4
<1>8. /\ UNCHANGED <<state, sch_ready_task_list, current_task, mode>>
      /\ \A u \in Tasks : u # t => pc'[u] = pc[u] /\ lock_count'[u] = lock_count[u]
  BY <1>3, <1>4 DEF lists
<1>9. lock_count'[t] <= MaxUserLock + 1
  BY <1>2, <1>4
<1> QED  BY <1>1, <1>5, <1>6, <1>7, <1>8, <1>9, CallInvariant

(* The application of t enters the kernel at a.                            *)
LEMMA CallEnters ==
  ASSUME KernelInvariant, NEW t \in Tasks, InUser(t),
         NEW a \in Labels \ {"user"}, Go(t, <<a, "user">>)
  PROVE  /\ pc' \in [Tasks -> Seq(Labels)] /\ StackOK'
         /\ pc'[t][1] = a /\ Len(pc'[t]) = 2
         /\ \A u \in Tasks : u # t => pc'[u] = pc[u]
<1>1. PICK s : s = pc[t] /\ StackShape(s) /\ s[1] = "user"
  BY AtFacts DEF InUser
<1>2. PICK l : l = <<a, "user">>
  OBVIOUS
<1>3. StackShape(l \o Tail(s)) /\ (l \o Tail(s))[1] = a /\ Len(l \o Tail(s)) = 2
  BY <1>1, <1>2, CallShape
<1>4. Go(t, l) /\ StackShape(l \o Tail(pc[t]))
  BY <1>1, <1>2, <1>3
<1>5. /\ pc' \in [Tasks -> Seq(Labels)] /\ StackOK' /\ pc'[t] = l \o Tail(pc[t])
      /\ \A u \in Tasks : u # t => pc'[u] = pc[u]
  BY <1>4, GoFacts
<1> QED  BY <1>1, <1>3, <1>5, Zenon

(* The application of t calls the kernel; other than its program points    *)
(* and lock count only what TypeOK speaks of changes.                      *)
LEMMA EnterInvariant ==
  ASSUME KernelInvariant, NEW t \in Tasks, InUser(t),
         NEW a \in Labels \ {"user"}, Go(t, <<a, "user">>),
         UNCHANGED <<state, sch_ready_task_list, current_task, mode>>,
         StateTypeOK',
         \A u \in Tasks : u # t => lock_count'[u] = lock_count[u],
         IF a \in {"sl_add", "sl_insert", "sl_suspend", "unlock"}
         THEN lock_count'[t] > 0 /\ lock_count'[t] <= MaxUserLock + 1
         ELSE lock_count'[t] = lock_count[t]
  PROVE  KernelInvariant'
<1>1. /\ mode = "task" /\ current_task = t /\ StackShape(pc[t]) /\ pc[t][1] = "user"
      /\ state[t] = "RUNNING"
  BY AtFacts DEF InUser
<1>5. /\ pc' \in [Tasks -> Seq(Labels)] /\ StackOK'
      /\ pc'[t][1] = a /\ Len(pc'[t]) = 2
      /\ \A u \in Tasks : u # t => pc'[u] = pc[u]
  BY CallEnters
<1>6. OwesUnlock(t)' <=> a \in {"sl_add", "sl_insert", "sl_suspend", "unlock"}
  <2>1. Len(pc'[t]) # 3
    BY <1>5
  <2> QED  BY <1>5, <2>1, Zenon DEF OwesUnlock
<1>7. ~ OwesUnlock(t)
  BY UserOwesNothing
<1>8. lock_count[t] <= MaxUserLock /\ lock_count[t] \in Nat /\ MaxUserLock \in Nat
  BY <1>7, LockAssumption DEF KernelInvariant, LocksOK, TypeOK, StateTypeOK
<1>9. /\ OwesUnlock(t)' => lock_count'[t] > 0
      /\ lock_count'[t] <= MaxUserLock + 1
      /\ ~ OwesUnlock(t)' => lock_count'[t] <= MaxUserLock
  <2>1. CASE a \in {"sl_add", "sl_insert", "sl_suspend", "unlock"}
    BY <1>6, <2>1
  <2>2. CASE a \notin {"sl_add", "sl_insert", "sl_suspend", "unlock"}
    BY <1>6, <1>8, <2>2
  <2> QED  BY <2>1, <2>2
<1>10. TypeOK'
  BY <1>5 DEF TypeOK
<1> QED  BY <1>1, <1>5, <1>9, <1>10, CallInvariant

LEMMA UserUnlockInvariant ==
  ASSUME KernelInvariant, NEW t \in Tasks, UserUnlock(t)
  PROVE  KernelInvariant'
<1>1. PICK a \in Labels \ {"user"} : a = "unlock"
  BY DEF Labels
<1>2. InUser(t) /\ Go(t, <<a, "user">>)
  BY <1>1 DEF UserUnlock
<1>3. UNCHANGED <<state, resume_from, lock_count, drift, level, lists, timeVars, cpuVars>>
  BY DEF UserUnlock
<1>4. lock_count'[t] > 0 /\ lock_count'[t] <= MaxUserLock + 1
  BY <1>3 DEF UserUnlock, KernelInvariant, LocksOK
<1>5. StateTypeOK'
  BY <1>3 DEF KernelInvariant, TypeOK, StateTypeOK, lists, timeVars, cpuVars
<1>6. /\ UNCHANGED <<state, sch_ready_task_list, current_task, mode>>
      /\ \A u \in Tasks : u # t => lock_count'[u] = lock_count[u]
  BY <1>3 DEF lists, cpuVars
<1>7. a \in {"sl_add", "sl_insert", "sl_suspend", "unlock"}
  BY <1>1
<1> QED  BY <1>2, <1>4, <1>5, <1>6, <1>7, EnterInvariant

LEMMA YieldInvariant ==
  ASSUME KernelInvariant, NEW t \in Tasks, task_yield(t)
  PROVE  KernelInvariant'
<1>1. /\ mode = "task" /\ current_task = t /\ state[t] = "RUNNING"
  BY AtFacts DEF task_yield, InUser
<1>2. UNCHANGED <<state, resume_from, lock_count, lists, timeVars, current_task,
                  pend_sv, mode>>
  BY DEF task_yield
<1>3. /\ drift' \in [Tasks -> BOOLEAN] /\ level' \in [Tasks -> BOOLEAN]
      /\ interrupts' \in BOOLEAN
  <2>1. /\ drift \in [Tasks -> BOOLEAN] /\ level \in [Tasks -> BOOLEAN]
        /\ interrupts \in BOOLEAN
    BY DEF KernelInvariant, TypeOK, StateTypeOK
  <2>2. /\ [drift EXCEPT ![t] = TRUE] \in [Tasks -> BOOLEAN]
        /\ [level EXCEPT ![t] = interrupts] \in [Tasks -> BOOLEAN]
    BY <2>1
  <2>3. drift' = drift \/ drift' = [drift EXCEPT ![t] = TRUE]
    BY DEF task_yield
  <2>4. level' = level \/ level' = [level EXCEPT ![t] = interrupts]
    BY DEF task_yield, ControlToSystem
  <2>5. interrupts' = interrupts \/ interrupts' = TRUE
    BY DEF task_yield, ControlToSystem
  <2>6. interrupts' \in BOOLEAN
    BY <2>1, <2>5
  <2> QED  BY <2>1, <2>2, <2>3, <2>4, <2>6
<1>4. StateTypeOK'
  BY <1>2, <1>3 DEF KernelInvariant, TypeOK, StateTypeOK, lists, timeVars
<1>5. CASE lock_count[t] = 0
  <2>1. PICK a \in Labels \ {"user"} : a = "pend"
    BY DEF Labels
  <2>2. InUser(t) /\ Go(t, <<a, "user">>)
    BY <1>5, <2>1 DEF task_yield
  <2>3. a \notin {"sl_add", "sl_insert", "sl_suspend", "unlock"}
    BY <2>1
  <2>4. /\ UNCHANGED <<state, sch_ready_task_list, current_task, mode>>
        /\ \A u \in Tasks : lock_count'[u] = lock_count[u]
    BY <1>2 DEF lists
  <2> QED  BY <1>4, <2>2, <2>3, <2>4, EnterInvariant
<1>6. CASE lock_count[t] # 0
  <2>1. UNCHANGED pc
    BY <1>6 DEF task_yield
  <2>2. TypeOK' /\ StackOK'
    BY <1>4, <2>1 DEF KernelInvariant, TypeOK, StackOK
  <2>3. /\ OwesUnlock(t)' => lock_count'[t] > 0
        /\ lock_count'[t] <= MaxUserLock + 1
        /\ ~ OwesUnlock(t)' => lock_count'[t] <= MaxUserLock
    BY <1>2, <2>1 DEF KernelInvariant, LocksOK, OwesUnlock
  <2>4. /\ UNCHANGED <<state, sch_ready_task_list, current_task, mode>>
        /\ \A u \in Tasks : u # t => pc'[u] = pc[u] /\ lock_count'[u] = lock_count[u]
    BY <1>2, <2>1 DEF lists
  <2> QED  BY <1>1, <2>2, <2>3, <2>4, CallInvariant
<1> QED  BY <1>5, <1>6

LEMMA SleepTicksInvariant ==
  ASSUME KernelInvariant, NEW t \in Tasks, NEW n \in Nat, sleep_ticks(t, n)
  PROVE  KernelInvariant'
<1>1. InUser(t)
  BY DEF sleep_ticks
<1>2. ~ OwesUnlock(t)
  BY <1>1, UserOwesNothing
<1>3. /\ lock_count \in [Tasks -> 0 .. MaxLock] /\ lock_count[t] \in Nat
      /\ lock_count[t] <= MaxUserLock
      /\ MaxUserLock \in Nat /\ MaxLock \in Nat /\ MaxUserLock + 2 <= MaxLock
  BY <1>2, LockAssumption DEF KernelInvariant, LocksOK, TypeOK, StateTypeOK
<1>4. /\ lock_count' = [lock_count EXCEPT ![t] = @ + 1]
      /\ ticks' = [ticks EXCEPT ![t] = n] /\ Go(t, <<"sl_add", "user">>)
      /\ UNCHANGED <<mode, interrupts, state, resume_from, drift, level, lists,
                     current_tick, tick_sleep, left, current_task, pend_sv>>
  BY <1>3 DEF sleep_ticks
<1>5. /\ \A u \in Tasks : lock_count'[u] = IF u = t THEN lock_count[t] + 1 ELSE lock_count[u]
      /\ lock_count' \in [Tasks -> 0 .. MaxLock]
  <2>1. lock_count[t] + 1 \in 0 .. MaxLock
    BY <1>3
  <2> QED  BY <1>3, <1>4, <2>1
<1>6. ticks' \in [Tasks -> Nat]
  BY <1>4 DEF KernelInvariant, TypeOK, StateTypeOK
<1>7. StateTypeOK'
  BY <1>4, <1>5, <1>6 DEF KernelInvariant, TypeOK, StateTypeOK, lists
<1>8. PICK a \in Labels \ {"user"} : a = "sl_add"
  BY DEF Labels
<1>9. InUser(t) /\ Go(t, <<a, "user">>) /\ a \in {"sl_add", "sl_insert", "sl_suspend", "unlock"}
  BY <1>4, <1>8 DEF sleep_ticks
<1>10. lock_count'[t] > 0 /\ lock_count'[t] <= MaxUserLock + 1
  BY <1>3, <1>5
<1>11. /\ UNCHANGED <<state, sch_ready_task_list, current_task, mode>>
       /\ \A u \in Tasks : u # t => lock_count'[u] = lock_count[u]
  BY <1>4, <1>5 DEF lists
<1> QED  BY <1>7, <1>9, <1>10, <1>11, EnterInvariant

LEMMA UnlockInvariant ==
  ASSUME KernelInvariant, NEW t \in Tasks, scheduler_unlock(t)
  PROVE  KernelInvariant'
<1>1. /\ mode = "task" /\ current_task = t /\ StackShape(pc[t]) /\ pc[t][1] = "unlock"
      /\ state[t] = "RUNNING"
  BY AtFacts DEF scheduler_unlock
<1>2. OwesUnlock(t) /\ Len(pc[t]) = 2
  BY <1>1 DEF OwesUnlock, StackShape
<1>3. /\ lock_count \in [Tasks -> 0 .. MaxLock] /\ lock_count[t] \in 0 .. MaxLock
      /\ lock_count[t] > 0 /\ lock_count[t] <= MaxUserLock + 1
      /\ MaxUserLock \in Nat /\ MaxLock \in Nat
  BY <1>2, LockAssumption DEF KernelInvariant, LocksOK, TypeOK, StateTypeOK
<1>4. /\ lock_count' = [lock_count EXCEPT ![t] = @ - 1] /\ Go(t, <<"drift">>)
      /\ UNCHANGED <<mode, interrupts, state, resume_from, drift, level, lists,
                     timeVars, current_task, pend_sv>>
  BY <1>3 DEF scheduler_unlock
<1>5. /\ \A u \in Tasks : lock_count'[u] = IF u = t THEN lock_count[t] - 1 ELSE lock_count[u]
      /\ lock_count' \in [Tasks -> 0 .. MaxLock]
  <2>1. lock_count[t] - 1 \in 0 .. MaxLock
    BY <1>3
  <2> QED  BY <1>3, <1>4, <2>1
<1>6. PICK a \in Labels \ {"user"} : a = "drift"
  BY DEF Labels
<1>7. /\ StackShape(<<a>> \o Tail(pc[t])) /\ (<<a>> \o Tail(pc[t]))[1] = a
      /\ Len(<<a>> \o Tail(pc[t])) = 2
  BY <1>1, <1>2, StepShape
<1>8. /\ pc' \in [Tasks -> Seq(Labels)] /\ StackOK' /\ pc'[t] = <<a>> \o Tail(pc[t])
      /\ \A u \in Tasks : u # t => pc'[u] = pc[u]
  BY <1>4, <1>6, <1>7, GoFacts
<1>9. ~ OwesUnlock(t)'
  <2>1. pc'[t][1] = a /\ Len(pc'[t]) = 2
    BY <1>7, <1>8, Zenon
  <2> QED  BY <1>6, <2>1 DEF OwesUnlock
<1>10. TypeOK'
  BY <1>4, <1>5, <1>8 DEF KernelInvariant, TypeOK, StateTypeOK, lists, timeVars
<1>11. lock_count'[t] <= MaxUserLock /\ lock_count'[t] <= MaxUserLock + 1
  BY <1>3, <1>5
<1>12. /\ UNCHANGED <<state, sch_ready_task_list, current_task, mode>>
       /\ \A u \in Tasks : u # t => pc'[u] = pc[u] /\ lock_count'[u] = lock_count[u]
  BY <1>4, <1>5, <1>8 DEF lists
<1> QED  BY <1>1, <1>8, <1>9, <1>10, <1>11, <1>12, CallInvariant

LEMMA UnlockYieldInvariant ==
  ASSUME KernelInvariant, NEW t \in Tasks, UnlockYield(t)
  PROVE  KernelInvariant'
<1>1. /\ mode = "task" /\ current_task = t /\ StackShape(pc[t]) /\ pc[t][1] = "drift"
      /\ state[t] = "RUNNING"
  BY AtFacts DEF UnlockYield
<1>2. Len(pc[t]) = 2
  BY <1>1 DEF StackShape
<1>3. ~ OwesUnlock(t)
  BY <1>1, <1>2 DEF OwesUnlock
<1>4. UNCHANGED <<state, resume_from, lock_count, lists, timeVars, current_task,
                  pend_sv, mode>>
  BY DEF UnlockYield
<1>5. StateTypeOK'
  <2>1. /\ drift \in [Tasks -> BOOLEAN] /\ level \in [Tasks -> BOOLEAN]
        /\ interrupts \in BOOLEAN
    BY DEF KernelInvariant, TypeOK, StateTypeOK
  <2>2. /\ [drift EXCEPT ![t] = FALSE] \in [Tasks -> BOOLEAN]
        /\ [level EXCEPT ![t] = interrupts] \in [Tasks -> BOOLEAN]
    BY <2>1
  <2>3. drift' = drift \/ drift' = [drift EXCEPT ![t] = FALSE]
    BY DEF UnlockYield
  <2>4. level' = level \/ level' = [level EXCEPT ![t] = interrupts]
    BY DEF UnlockYield, ControlToSystem
  <2>5. interrupts' = interrupts \/ interrupts' = TRUE
    BY DEF UnlockYield, ControlToSystem
  <2>6. interrupts' \in BOOLEAN
    BY <2>1, <2>5
  <2>7. drift' \in [Tasks -> BOOLEAN] /\ level' \in [Tasks -> BOOLEAN]
    BY <2>1, <2>2, <2>3, <2>4
  <2> QED  BY <1>4, <2>6, <2>7 DEF KernelInvariant, TypeOK, StateTypeOK, lists, timeVars
<1>6. PICK a \in Labels \ {"user"} : a = "pend"
  BY DEF Labels
<1>7. /\ StackShape(<<a>> \o Tail(pc[t])) /\ (<<a>> \o Tail(pc[t]))[1] = a
      /\ Len(<<a>> \o Tail(pc[t])) = 2
  BY <1>1, <1>2, StepShape
<1>8. /\ StackShape(<<>> \o Tail(pc[t])) /\ (<<>> \o Tail(pc[t]))[1] = "user"
      /\ Len(<<>> \o Tail(pc[t])) = 1
  BY <1>1, <1>2, PopShape
<1>9. Go(t, <<a>>) \/ Go(t, <<>>)
  BY <1>6 DEF UnlockYield
<1>10. /\ pc' \in [Tasks -> Seq(Labels)] /\ StackOK' /\ ~ OwesUnlock(t)'
       /\ \A u \in Tasks : u # t => pc'[u] = pc[u]
  <2>1. CASE Go(t, <<a>>)
    <3>1. /\ pc' \in [Tasks -> Seq(Labels)] /\ StackOK' /\ pc'[t] = <<a>> \o Tail(pc[t])
          /\ \A u \in Tasks : u # t => pc'[u] = pc[u]
      BY <1>7, <2>1, GoFacts
    <3>2. pc'[t][1] = a /\ Len(pc'[t]) = 2
      BY <1>7, <3>1, Zenon
    <3>3. ~ OwesUnlock(t)'
      BY <1>6, <3>2 DEF OwesUnlock
    <3> QED  BY <3>1, <3>3
  <2>2. CASE Go(t, <<>>)
    <3>1. /\ pc' \in [Tasks -> Seq(Labels)] /\ StackOK' /\ pc'[t] = <<>> \o Tail(pc[t])
          /\ \A u \in Tasks : u # t => pc'[u] = pc[u]
      BY <1>8, <2>2, GoFacts
    <3>2. pc'[t][1] = "user" /\ Len(pc'[t]) = 1
      BY <1>8, <3>1, Zenon
    <3>3. ~ OwesUnlock(t)'
      BY <3>2 DEF OwesUnlock
    <3> QED  BY <3>1, <3>3
  <2> QED  BY <1>9, <2>1, <2>2
<1>11. TypeOK'
  BY <1>5, <1>10 DEF TypeOK
<1>12. lock_count'[t] <= MaxUserLock /\ lock_count'[t] <= MaxUserLock + 1
  BY <1>3, <1>4 DEF KernelInvariant, LocksOK
<1>13. /\ UNCHANGED <<state, sch_ready_task_list, current_task, mode>>
       /\ \A u \in Tasks : u # t => pc'[u] = pc[u] /\ lock_count'[u] = lock_count[u]
  BY <1>4, <1>10 DEF lists
<1> QED  BY <1>1, <1>10, <1>11, <1>12, <1>13, CallInvariant

(* A step inside sleep_add_to_list.                                        *)
LEMMA SleepStepInvariant ==
  ASSUME KernelInvariant, NEW t \in Tasks, NEW b \in {"sl_add", "sl_insert"},
         At(t, b), NEW a \in Labels, a \in {"sl_insert", "sl_suspend"},
         Go(t, <<a>>), StateTypeOK',
         UNCHANGED <<state, lock_count, sch_ready_task_list, current_task, mode>>
  PROVE  KernelInvariant'
<1>1. /\ mode = "task" /\ current_task = t /\ StackShape(pc[t]) /\ pc[t][1] = b
      /\ state[t] = "RUNNING"
  <2>1. b # "back"
    OBVIOUS
  <2> QED  BY <2>1, AtFacts
<1>2. OwesUnlock(t) /\ Len(pc[t]) = 2
  <2>1. b \notin {"user", "pend", "back"}
    OBVIOUS
  <2>2. Len(pc[t]) = 2
    BY <1>1, <2>1 DEF StackShape
  <2> QED  BY <1>1, <2>2 DEF OwesUnlock
<1>3. pc[t][1] # "user"
  BY <1>1
<1>4. /\ StackShape(<<a>> \o Tail(pc[t])) /\ (<<a>> \o Tail(pc[t]))[1] = a
      /\ Len(<<a>> \o Tail(pc[t])) = 2
  <2>1. PICK s : s = pc[t] /\ StackShape(s) /\ s[1] # "user" /\ Len(s) = 2
    BY <1>1, <1>2, <1>3
  <2>2. Len(s) = 3 => a \in {"pend", "back"}
    BY <2>1
  <2>3. StackShape(s) /\ s[1] # "user" /\ a \in Labels \ {"user"}
    BY <2>1
  <2>4. /\ StackShape(<<a>> \o Tail(s)) /\ (<<a>> \o Tail(s))[1] = a
        /\ Len(<<a>> \o Tail(s)) = Len(s)
    BY <2>2, <2>3, StepShape
  <2> QED  BY <2>1, <2>4
<1>5. /\ pc' \in [Tasks -> Seq(Labels)] /\ StackOK' /\ pc'[t] = <<a>> \o Tail(pc[t])
      /\ \A u \in Tasks : u # t => pc'[u] = pc[u]
  BY <1>4, GoFacts
<1>6. OwesUnlock(t)'
  <2>1. pc'[t][1] = a
    BY <1>4, <1>5, Zenon
  <2> QED  BY <2>1 DEF OwesUnlock
<1>7. TypeOK'
  BY <1>5 DEF TypeOK
<1>8. lock_count'[t] > 0 /\ lock_count'[t] <= MaxUserLock + 1
  BY <1>2 DEF KernelInvariant, LocksOK
<1>9. \A u \in Tasks : u # t => pc'[u] = pc[u] /\ lock_count'[u] = lock_count[u]
  BY <1>5
<1> QED  BY <1>1, <1>5, <1>6, <1>7, <1>8, <1>9, CallInvariant

LEMMA SleepAddInvariant ==
  ASSUME KernelInvariant, NEW t \in Tasks, SleepAdd(t)
  PROVE  KernelInvariant'
<1>1. UNCHANGED <<state, resume_from, lock_count, drift, level, lists,
                  current_tick, ticks, cpuVars>>
  BY DEF SleepAdd
<1>2. PICK deadline \in 0 .. TickRange - 1 :
        /\ tick_sleep' = [tick_sleep EXCEPT ![t] = deadline]
        /\ left' = [left EXCEPT ![t] = ticks[t]]
  <2>1. /\ current_tick \in Nat /\ ticks[t] \in Nat /\ TickRange \in Nat \ {0}
    BY TickAssumption DEF KernelInvariant, TypeOK, StateTypeOK
  <2>2. (current_tick + ticks[t]) % TickRange \in 0 .. TickRange - 1
    BY <2>1
  <2> QED  BY <2>2 DEF SleepAdd, sleep_add_to_list
<1>3. tick_sleep' \in [Tasks -> 0 .. TickRange - 1] /\ left' \in [Tasks -> Int]
  BY <1>2 DEF KernelInvariant, TypeOK, StateTypeOK
<1>4. StateTypeOK'
  BY <1>1, <1>3 DEF KernelInvariant, TypeOK, StateTypeOK, lists, cpuVars
<1>5. PICK a \in Labels : a = "sl_insert"
  BY DEF Labels
<1>6. PICK b \in {"sl_add", "sl_insert"} : b = "sl_add"
  OBVIOUS
<1>7. At(t, b) /\ Go(t, <<a>>) /\ a \in {"sl_insert", "sl_suspend"}
  BY <1>5, <1>6 DEF SleepAdd
<1>8. UNCHANGED <<state, lock_count, sch_ready_task_list, current_task, mode>>
  BY <1>1 DEF lists, cpuVars
<1> QED  BY <1>4, <1>7, <1>8, SleepStepInvariant

LEMMA SleepInsertInvariant ==
  ASSUME KernelInvariant, NEW t \in Tasks, SleepInsert(t)
  PROVE  KernelInvariant'
<1>1. UNCHANGED <<state, resume_from, lock_count, drift, level,
                  sch_ready_task_list, timeVars, cpuVars>>
  BY DEF SleepInsert
<1>2. PICK later : sleep_task_list' = sll_insert(sleep_task_list, t, later)
  BY DEF SleepInsert, SleepInserted
<1>3. sleep_task_list' \in Seq(Tasks)
  <2>1. sleep_task_list \in Seq(Tasks)
    BY DEF KernelInvariant, TypeOK, StateTypeOK
  <2>2. sll_insert(sleep_task_list, t, later) \in Seq(Tasks)
    BY <2>1, SllInsertMembers
  <2> QED  BY <1>2, <2>2
<1>4. StateTypeOK'
  BY <1>1, <1>3 DEF KernelInvariant, TypeOK, StateTypeOK, timeVars, cpuVars
<1>5. PICK a \in Labels : a = "sl_suspend"
  BY DEF Labels
<1>6. PICK b \in {"sl_add", "sl_insert"} : b = "sl_insert"
  OBVIOUS
<1>7. At(t, b) /\ Go(t, <<a>>) /\ a \in {"sl_insert", "sl_suspend"}
  BY <1>5, <1>6 DEF SleepInsert
<1>8. UNCHANGED <<state, lock_count, sch_ready_task_list, current_task, mode>>
  BY <1>1 DEF cpuVars
<1> QED  BY <1>4, <1>7, <1>8, SleepStepInvariant

LEMMA SleepSuspendInvariant ==
  ASSUME KernelInvariant, NEW t \in Tasks, SleepSuspend(t)
  PROVE  KernelInvariant'
<1>1. /\ mode = "task" /\ current_task = t /\ StackShape(pc[t]) /\ pc[t][1] = "sl_suspend"
      /\ ~ Ready(t)
  BY AtFacts DEF SleepSuspend
<1>2. OwesUnlock(t)
  BY <1>1 DEF OwesUnlock
<1>3. PICK l : l = <<"pend", "unlock">>
  OBVIOUS
<1>4. /\ StackShape(l \o Tail(pc[t])) /\ (l \o Tail(pc[t]))[1] = "pend"
      /\ Len(l \o Tail(pc[t])) = 3
  <2>1. PICK s : s = pc[t] /\ StackShape(s) /\ s[1] = "sl_suspend"
    BY <1>1
  <2>2. PICK r : r = <<"pend", "unlock">> \o Tail(s)
    OBVIOUS
  <2>3. StackShape(r) /\ r[1] = "pend" /\ Len(r) = 3
    BY <2>1, <2>2, SuspendShape
  <2> QED  BY <1>3, <2>1, <2>2, <2>3
<1>5. /\ pc' \in [Tasks -> Seq(Labels)] /\ StackOK' /\ pc'[t] = l \o Tail(pc[t])
      /\ \A u \in Tasks : u # t => pc'[u] = pc[u]
  <2>1. Go(t, l)
    BY <1>3 DEF SleepSuspend
  <2> QED  BY <1>4, <2>1, GoFacts
<1>6. pc'[t][1] = "pend" /\ Len(pc'[t]) = 3
  BY <1>4, <1>5, Zenon
<1>7. /\ state' = [state EXCEPT ![t] = "TO_BE_SUSPENDED"]
      /\ interrupts' = TRUE /\ level' = [level EXCEPT ![t] = interrupts]
      /\ ticks' = [ticks EXCEPT ![t] = 0]
      /\ UNCHANGED <<resume_from, lock_count, drift, lists, current_tick, tick_sleep,
                     left, current_task, pend_sv, mode>>
  BY DEF SleepSuspend, ControlToSystem
<1>8. state' \in [Tasks -> States] /\ ReadyListExact' /\ ReadyListSorted'
  <2>1. PICK st \in States \ {"RESUME", "SLEEP_RESUME"} : st = "TO_BE_SUSPENDED"
    BY DEF States
  <2>2. state' = [state EXCEPT ![t] = st] /\ sch_ready_task_list' = sch_ready_task_list
    BY <1>7, <2>1 DEF lists
  <2> QED  BY <1>1, <2>2, StaysOffList DEF KernelInvariant, TypeOK
<1>9. TypeOK'
  <2>1. level' \in [Tasks -> BOOLEAN] /\ ticks' \in [Tasks -> Nat]
    BY <1>7 DEF KernelInvariant, TypeOK, StateTypeOK
  <2> QED  BY <1>5, <1>7, <1>8, <2>1 DEF KernelInvariant, TypeOK, StateTypeOK, lists
<1>10. LocksOK'
  <2>1. OwesUnlock(t)' /\ \A u \in Tasks : u # t => (OwesUnlock(u)' <=> OwesUnlock(u))
    BY <1>5, <1>6 DEF OwesUnlock
  <2> QED  BY <1>2, <1>7, <2>1 DEF KernelInvariant, LocksOK
<1>11. state'[t] = "TO_BE_SUSPENDED"
  BY <1>7 DEF KernelInvariant, TypeOK, StateTypeOK
<1>12. CurrentOK'
  BY <1>1, <1>6, <1>7, <1>11 DEF CurrentOK
<1> QED  BY <1>5, <1>8, <1>9, <1>10, <1>12 DEF KernelInvariant

LEMMA EntryReturnInvariant ==
  ASSUME KernelInvariant, NEW t \in Tasks, task_entry_return(t)
  PROVE  KernelInvariant'
<1>1. /\ mode = "task" /\ current_task = t /\ StackShape(pc[t]) /\ pc[t][1] = "user"
      /\ ~ Ready(t)
  BY AtFacts DEF task_entry_return, InUser
<1>2. ~ OwesUnlock(t)
  BY UserOwesNothing DEF task_entry_return
<1>3. PICK a \in Labels \ {"user"} : a = "pend"
  BY DEF Labels
<1>6. /\ pc' \in [Tasks -> Seq(Labels)] /\ StackOK'
      /\ pc'[t][1] = a /\ Len(pc'[t]) = 2
      /\ \A u \in Tasks : u # t => pc'[u] = pc[u]
  <2>1. InUser(t) /\ Go(t, <<a, "user">>)
    BY <1>3 DEF task_entry_return
  <2> QED  BY <2>1, CallEnters
<1>7. pc'[t][1] = a /\ Len(pc'[t]) = 2
  BY <1>6
<1>8. /\ state' = [state EXCEPT ![t] = "FINISHED"]
      /\ interrupts' = TRUE /\ level' = [level EXCEPT ![t] = FALSE]
      /\ UNCHANGED <<resume_from, lock_count, drift, lists, timeVars, current_task,
                     pend_sv, mode>>
  BY DEF task_entry_return, ControlToSystem
<1>9. state' \in [Tasks -> States] /\ ReadyListExact' /\ ReadyListSorted'
  <2>1. PICK st \in States \ {"RESUME", "SLEEP_RESUME"} : st = "FINISHED"
    BY DEF States
  <2>2. state' = [state EXCEPT ![t] = st] /\ sch_ready_task_list' = sch_ready_task_list
    BY <1>8, <2>1 DEF lists
  <2> QED  BY <1>1, <2>2, StaysOffList DEF KernelInvariant, TypeOK
<1>10. TypeOK'
  <2>1. level' \in [Tasks -> BOOLEAN]
    BY <1>8 DEF KernelInvariant, TypeOK, StateTypeOK
  <2> QED  BY <1>6, <1>8, <1>9, <2>1 DEF KernelInvariant, TypeOK, StateTypeOK, lists, timeVars
<1>11. LocksOK'
  <2>1. ~ OwesUnlock(t)'
    BY <1>3, <1>7 DEF OwesUnlock
  <2>2. \A u \in Tasks : u # t => (OwesUnlock(u)' <=> OwesUnlock(u))
    BY <1>6 DEF OwesUnlock
  <2> QED  BY <1>2, <1>8, <2>1, <2>2 DEF KernelInvariant, LocksOK
<1>12. state'[t] = "FINISHED"
  BY <1>8 DEF KernelInvariant, TypeOK, StateTypeOK
<1>13. CurrentOK'
  BY <1>1, <1>3, <1>7, <1>8, <1>12 DEF CurrentOK
<1> QED  BY <1>6, <1>9, <1>10, <1>11, <1>13 DEF KernelInvariant

LEMMA TaskAddInvariant ==
  ASSUME KernelInvariant, NEW t \in Tasks, NEW new \in Tasks, scheduler_task_add(t, new)
  PROVE  KernelInvariant'
<1>1. mode = "task" /\ current_task = t /\ state[t] = "RUNNING"
  BY AtFacts DEF scheduler_task_add, InUser
<1>2. ~ Ready(new) /\ new # t
  BY <1>1 DEF scheduler_task_add, Ready
<1>3. /\ sch_ready_task_list' \in Seq(Tasks) /\ state' \in [Tasks -> States]
      /\ ReadyListExact' /\ ReadyListSorted'
  BY <1>2, MadeReady DEF KernelInvariant, TypeOK, scheduler_task_add, YieldSystem
<1>4. /\ UNCHANGED <<lock_count, drift, pc, level, sleep_task_list, timeVars, cpuVars>>
      /\ resume_from' = [resume_from EXCEPT ![new] = "SYSTEM"]
      /\ state' = [state EXCEPT ![new] = "RESUME"]
  BY DEF scheduler_task_add, YieldSystem
<1>5. TypeOK'
  BY <1>3, <1>4 DEF KernelInvariant, TypeOK, StateTypeOK, timeVars, cpuVars
<1>6. StackOK' /\ LocksOK'
  BY <1>4 DEF KernelInvariant, StackOK, LocksOK, OwesUnlock
<1>7. state'[t] = "RUNNING"
  BY <1>1, <1>2, <1>4 DEF KernelInvariant, TypeOK, StateTypeOK
<1>8. CurrentOK'
  BY <1>1, <1>4, <1>7 DEF CurrentOK, cpuVars
<1> QED  BY <1>3, <1>5, <1>6, <1>8 DEF KernelInvariant

LEMMA StutterInvariant ==
  ASSUME KernelInvariant, UNCHANGED kernelVars
  PROVE  KernelInvariant'
<1>1. TypeOK'
  BY DEF KernelInvariant, TypeOK, StateTypeOK, kernelVars, lists, timeVars, cpuVars
<1>2. ReadyListExact' /\ ReadyListSorted'
  BY ReadyListUnchanged DEF KernelInvariant, kernelVars, lists
<1>3. StackOK' /\ LocksOK'
  BY DEF KernelInvariant, StackOK, LocksOK, OwesUnlock, kernelVars
<1>4. CurrentOK'
  BY DEF KernelInvariant, CurrentOK, kernelVars, cpuVars
<1> QED  BY <1>1, <1>2, <1>3, <1>4 DEF KernelInvariant

LEMMA NextInvariant ==
  ASSUME KernelInvariant, [Next]_kernelVars
  PROVE  KernelInvariant'
<1>1. ASSUME NEW t \in Tasks, BootAdd(t)
      PROVE  KernelInvariant'
  BY <1>1, BootAddInvariant
<1>2. CASE run_first_task
  BY <1>2, SwitchInvariant DEF run_first_task
<1>3. CASE SaveCurrent
  BY <1>3, SaveInvariant
<1>4. CASE sleep_process_system_tick
  BY <1>4, WakeInvariant
<1>5. CASE LoadNext
  BY <1>5, SwitchInvariant DEF LoadNext
<1>6. CASE isr_sysclock_handle
  BY <1>6, TickInvariant
<1>7. CASE system_assert
  BY <1>7, StutterInvariant DEF system_assert
<1>8. CASE UNCHANGED kernelVars
  BY <1>8, StutterInvariant
<1>9. ASSUME NEW t \in Tasks, KernelCall(t)
      PROVE  KernelInvariant'
  BY <1>9, PendInvariant, RestoreInvariant, UnlockInvariant, UnlockYieldInvariant,
     SleepAddInvariant, SleepInsertInvariant, SleepSuspendInvariant DEF KernelCall
<1>10. ASSUME NEW t \in Tasks, UserCall(t)
       PROVE  KernelInvariant'
  <2>1. CASE scheduler_lock(t) \/ UserUnlock(t) \/ task_yield(t) \/ task_entry_return(t)
    BY <2>1, LockInvariant, UserUnlockInvariant, YieldInvariant, EntryReturnInvariant
  <2>2. ASSUME NEW n \in Delays[t], sleep_ticks(t, n)
        PROVE  KernelInvariant'
    <3>1. n \in Nat
      BY TickAssumption
    <3> QED  BY <2>2, <3>1, SleepTicksInvariant
  <2>3. ASSUME NEW new \in Tasks, scheduler_task_add(t, new)
        PROVE  KernelInvariant'
    BY <2>3, TaskAddInvariant
  <2> QED  BY <1>10, <2>1, <2>2, <2>3 DEF UserCall
<1> QED  BY <1>1, <1>2, <1>3, <1>4, <1>5, <1>6, <1>7, <1>8, <1>9, <1>10
         DEF Next, Boot, PendSV

(* The inductive invariant holds in every reachable state.                 *)
THEOREM KernelInvariantHolds == Spec => []KernelInvariant
<1>1. Init => KernelInvariant
  BY InitInvariant
<1>2. KernelInvariant /\ [Next]_kernelVars => KernelInvariant'
  BY NextInvariant
<1> QED  BY <1>1, <1>2, PTL DEF Spec

(* No kernel call takes a variable out of its type: the lock counts stay   *)
(* in range and the tick counters wrap, for any number of tasks.           *)
THEOREM TypeCorrect == Spec => []TypeOK
<1>1. KernelInvariant => TypeOK
  BY DEF KernelInvariant
<1> QED  BY <1>1, KernelInvariantHolds, PTL

(* The scheduler never enqueues a task that is on the ready list, and      *)
(* never loses one: scheduler_task_yield, sleep_process_system_tick and    *)
(* scheduler_task_add are only reached for tasks that are off the list.    *)
THEOREM ReadyListCorrect == Spec => []ReadyListExact
<1>1. KernelInvariant => ReadyListExact
  BY DEF KernelInvariant
<1> QED  BY <1>1, KernelInvariantHolds, PTL

(* sll_insert with scheduler_task_sort keeps the ready list in the order   *)
(* of priority, so scheduler_get_next_task returns a task of the highest.  *)
THEOREM ReadyListInOrder == Spec => []ReadyListSorted
<1>1. KernelInvariant => ReadyListSorted
  BY DEF KernelInvariant
<1> QED  BY <1>1, KernelInvariantHolds, PTL

----------------------------------------------------------------------------
(* No assertion fires while no task's entry function returns.              *)

(* The program point a task is at after Go.                                *)
LEMMA StepTop ==
  ASSUME KernelInvariant, NEW t \in Tasks, NEW a \in Labels, Go(t, <<a>>)
  PROVE  pc'[t][1] = a /\ \A u \in Tasks : u # t => pc'[u] = pc[u]
<1>1. pc \in [Tasks -> Seq(Labels)] /\ pc[t] \in Seq(Labels) /\ Len(pc[t]) >= 1
  BY DEF KernelInvariant, TypeOK, StackOK, StackShape
<1>2. pc'[t] = <<a>> \o Tail(pc[t]) /\ \A u \in Tasks : u # t => pc'[u] = pc[u]
  BY <1>1 DEF Go
<1>3. PICK r : r = <<a>> \o Tail(pc[t])
  OBVIOUS
<1>4. r[1] = a
  BY <1>1, <1>3, ReplaceByOne
<1> QED  BY <1>2, <1>3, <1>4

LEMMA PopTop ==
  ASSUME KernelInvariant, NEW t \in Tasks, pc[t][1] # "user", Go(t, <<>>)
  PROVE  /\ pc'[t][1] \in {"user", "unlock"}
         /\ \A u \in Tasks : u # t => pc'[u] = pc[u]
<1>1. PICK s : s = pc[t] /\ StackShape(s) /\ s[1] # "user"
  BY DEF KernelInvariant, StackOK
<1>2. PICK r : r = <<>> \o Tail(s)
  OBVIOUS
<1>3. Len(s) = 2 \/ Len(s) = 3
  BY <1>1 DEF StackShape
<1>4. r[1] \in {"user", "unlock"}
  BY <1>1, <1>2, <1>3, PopShape
<1>5. pc'[t] = r /\ \A u \in Tasks : u # t => pc'[u] = pc[u]
  BY <1>1, <1>2 DEF Go, KernelInvariant, TypeOK
<1> QED  BY <1>4, <1>5

(* A step of the running task that changes no task's state.                *)
LEMMA RunningStep ==
  ASSUME KernelInvariant, NoAssertInvariant, NEW t \in Tasks,
         UNCHANGED <<mode, state, current_task>>,
         \A u \in Tasks : u # t => pc'[u] = pc[u],
         pc'[t][1] \notin {"sl_add", "sl_insert", "sl_suspend"} \/ t # Idle
  PROVE  NoAssertInvariant'
<1>1. Idle \in Tasks
  BY TaskAssumption
<1>2. pc'[Idle][1] \notin {"sl_add", "sl_insert", "sl_suspend"}
  BY <1>1 DEF NoAssertInvariant, IdleAvailable
<1> QED  BY <1>2 DEF NoAssertInvariant, NoAssert, IdleAvailable

(* There is a ready task whenever the scheduler looks for one.             *)
LEMMA SomeTaskReady ==
  ASSUME KernelInvariant, NoAssertInvariant, mode # "task"
  PROVE  sch_ready_task_list # <<>>
<1>1. Idle \in Tasks /\ Ready(Idle)
  BY TaskAssumption DEF NoAssertInvariant, IdleAvailable, Ready
<1>2. Idle \in ToSet(sch_ready_task_list) /\ sch_ready_task_list \in Seq(Tasks)
  BY <1>1 DEF KernelInvariant, ReadyListExact, TypeOK, StateTypeOK
<1>3. PICK i \in 1 .. Len(sch_ready_task_list) : sch_ready_task_list[i] = Idle
  BY <1>2, ToSetMember
<1> QED  BY <1>2, <1>3

LEMMA SwitchNoAssert ==
  ASSUME KernelInvariant, NoAssertInvariant, mode # "task", SwitchToNext, UNCHANGED pc
  PROVE  NoAssertInvariant'
<1>1. PICK t : /\ t = Head(sch_ready_task_list)
               /\ current_task' = t /\ state' = [state EXCEPT ![t] = "RUNNING"]
               /\ mode' = "task"
  BY SomeTaskReady DEF SwitchToNext
<1>2. t \in Tasks /\ Idle \in Tasks
  <2>1. sch_ready_task_list \in Seq(Tasks) /\ sch_ready_task_list # <<>>
    BY SomeTaskReady DEF KernelInvariant, TypeOK, StateTypeOK
  <2> QED  BY <1>1, <2>1, TaskAssumption
<1>3. \A u \in Tasks : state'[u] = IF u = t THEN "RUNNING" ELSE state[u]
  BY <1>1, <1>2 DEF KernelInvariant, TypeOK, StateTypeOK
<1>4. state[Idle] = "RESUME"
  BY DEF NoAssertInvariant, IdleAvailable
<1>5. IdleAvailable'
  BY <1>1, <1>2, <1>3, <1>4 DEF NoAssertInvariant, IdleAvailable
<1> QED  BY <1>1, <1>2, <1>3, <1>5 DEF NoAssertInvariant, NoAssert

LEMMA TickNoAssert ==
  ASSUME KernelInvariant, NoAssertInvariant, isr_sysclock_handle
  PROVE  NoAssertInvariant'
<1>1. mode = "task" /\ current_task \in Tasks
  BY DEF KernelInvariant, CurrentOK, isr_sysclock_handle
<1>2. state[current_task] \in {"RUNNING", "TO_BE_SUSPENDED"}
  BY <1>1 DEF KernelInvariant, CurrentOK, NoAssertInvariant
<1>3. CASE state[current_task] = "TO_BE_SUSPENDED"
  <2>1. OwesUnlock(current_task)
    BY <1>1, <1>3 DEF KernelInvariant, CurrentOK, OwesUnlock
  <2>2. lock_count[current_task] > 0 /\ lock_count[current_task] \in Nat
    BY <1>1, <2>1 DEF KernelInvariant, LocksOK, TypeOK, StateTypeOK
  <2>3. lock_count[current_task] # 0
    BY <2>2
  <2>4. UNCHANGED mode
    BY <2>3 DEF isr_sysclock_handle, Preempt
  <2> QED  BY <1>1, <2>4, RunningStep, TaskAssumption
           DEF isr_sysclock_handle, NoAssertInvariant, IdleAvailable
<1>4. CASE state[current_task] = "RUNNING"
  <2>1. UNCHANGED mode
    BY <1>4 DEF isr_sysclock_handle, Preempt
  <2> QED  BY <1>1, <2>1, RunningStep, TaskAssumption
           DEF isr_sysclock_handle, NoAssertInvariant, IdleAvailable
<1> QED  BY <1>2, <1>3, <1>4

LEMMA SaveNoAssert ==
  ASSUME KernelInvariant, NoAssertInvariant, SaveCurrent
  PROVE  NoAssertInvariant'
<1>1. /\ mode = "task" /\ mode' = "pendsv" /\ current_task \in Tasks /\ Idle \in Tasks
      /\ UNCHANGED <<pc, current_task>>
  BY TaskAssumption DEF KernelInvariant, CurrentOK, SaveCurrent
<1>2. state \in [Tasks -> States]
  BY DEF KernelInvariant, TypeOK, StateTypeOK
<1>3. \/ state[current_task] = "RUNNING" /\ state' = [state EXCEPT ![current_task] = "RESUME"]
      \/ /\ state[current_task] = "TO_BE_SUSPENDED"
         /\ state' = [state EXCEPT ![current_task] = "SUSPENDED"]
      \/ state[current_task] \notin {"RUNNING", "TO_BE_SUSPENDED"} /\ state' = state
  BY DEF SaveCurrent, YieldSystem
<1>4. /\ state[Idle] \in {"RESUME", "RUNNING"}
      /\ state[Idle] = "RUNNING" => current_task = Idle
  BY DEF NoAssertInvariant, IdleAvailable
<1>5. state'[Idle] = "RESUME"
  BY <1>1, <1>2, <1>3, <1>4
<1> QED  BY <1>1, <1>5 DEF NoAssertInvariant, NoAssert, IdleAvailable

LEMMA WakeNoAssert ==
  ASSUME KernelInvariant, NoAssertInvariant, sleep_process_system_tick
  PROVE  NoAssertInvariant'
<1>1. PICK i \in 1 .. Len(sleep_task_list) :
        /\ state[sleep_task_list[i]] = "SUSPENDED"
        /\ state' = [state EXCEPT ![sleep_task_list[i]] = "SLEEP_RESUME"]
  BY DEF sleep_process_system_tick, sleep_walk
<1>2. mode = "pendsv" /\ UNCHANGED <<mode, pc, current_task>>
  BY DEF sleep_process_system_tick, cpuVars
<1>3. state'[Idle] = state[Idle]
  BY <1>1, TaskAssumption
  DEF KernelInvariant, TypeOK, StateTypeOK, NoAssertInvariant, IdleAvailable
<1> QED  BY <1>2, <1>3 DEF NoAssertInvariant, NoAssert, IdleAvailable

LEMMA AddNoAssert ==
  ASSUME KernelInvariant, NoAssertInvariant, NEW t \in Tasks, t # Idle,
         state[t] = "FINISHED", YieldSystem(t), UNCHANGED <<pc, mode, current_task>>
  PROVE  NoAssertInvariant'
<1>1. Idle \in Tasks /\ state \in [Tasks -> States]
  BY TaskAssumption DEF KernelInvariant, TypeOK, StateTypeOK
<1>2. \A u \in Tasks : state'[u] = IF u = t THEN "RESUME" ELSE state[u]
  BY <1>1 DEF YieldSystem
<1>3. mode = "task" => current_task \in Tasks /\ current_task # t
  BY DEF KernelInvariant, CurrentOK, NoAssertInvariant
<1> QED  BY <1>1, <1>2, <1>3 DEF NoAssertInvariant, NoAssert, IdleAvailable

LEMMA CallNoAssert ==
  ASSUME KernelInvariant, NoAssertInvariant, NEW t \in Tasks, KernelCall(t)
  PROVE  NoAssertInvariant'
<1>1. CASE PEND_SV(t)
  <2>1. PICK a \in Labels : a = "back"
    BY DEF Labels
  <2>2. Go(t, <<a>>) /\ UNCHANGED <<mode, state, current_task>>
    BY <1>1, <2>1 DEF PEND_SV
  <2>3. pc'[t][1] \notin {"sl_add", "sl_insert", "sl_suspend"} /\ \A u \in Tasks : u # t => pc'[u] = pc[u]
    BY <2>1, <2>2, StepTop
  <2> QED  BY <2>2, <2>3, RunningStep
<1>2. CASE RestoreLevel(t)
  <2>1. Go(t, <<>>) /\ UNCHANGED <<mode, state, current_task>>
    BY <1>2 DEF RestoreLevel
  <2>2. pc[t][1] = "back"
    BY <1>2, AtFacts DEF RestoreLevel
  <2>3. pc'[t][1] \in {"user", "unlock"} /\ \A u \in Tasks : u # t => pc'[u] = pc[u]
    BY <2>1, <2>2, PopTop
  <2> QED  BY <2>1, <2>3, RunningStep
<1>3. CASE scheduler_unlock(t)
  <2>1. pc[t][1] = "unlock"
    BY <1>3, AtFacts DEF scheduler_unlock
  <2>2. lock_count[t] > 0 /\ lock_count[t] \in Nat
    BY <2>1 DEF OwesUnlock, KernelInvariant, LocksOK, TypeOK, StateTypeOK
  <2>3. lock_count[t] # 0
    BY <2>2
  <2>4. PICK a \in Labels : a = "drift"
    BY DEF Labels
  <2>5. Go(t, <<a>>) /\ UNCHANGED <<mode, state, current_task>>
    BY <1>3, <2>3, <2>4 DEF scheduler_unlock
  <2>6. pc'[t][1] \notin {"sl_add", "sl_insert", "sl_suspend"} /\ \A u \in Tasks : u # t => pc'[u] = pc[u]
    BY <2>4, <2>5, StepTop
  <2> QED  BY <2>5, <2>6, RunningStep
<1>4. CASE UnlockYield(t)
  <2>1. pc[t][1] = "drift"
    BY <1>4, AtFacts DEF UnlockYield
  <2>2. PICK a \in Labels : a = "pend"
    BY DEF Labels
  <2>3. (Go(t, <<a>>) \/ Go(t, <<>>)) /\ UNCHANGED <<mode, state, current_task>>
    BY <1>4, <2>2 DEF UnlockYield
  <2>4. CASE Go(t, <<a>>)
    <3>1. pc'[t][1] \notin {"sl_add", "sl_insert", "sl_suspend"} /\ \A u \in Tasks : u # t => pc'[u] = pc[u]
      BY <2>2, <2>4, StepTop
    <3> QED  BY <2>3, <3>1, RunningStep
  <2>5. CASE Go(t, <<>>)
    <3>1. pc'[t][1] \in {"user", "unlock"} /\ \A u \in Tasks : u # t => pc'[u] = pc[u]
      BY <2>1, <2>5, PopTop
    <3> QED  BY <2>3, <3>1, RunningStep
  <2> QED  BY <2>3, <2>4, <2>5
<1>5. CASE SleepAdd(t) \/ SleepInsert(t)
  <2>1. pc[t][1] \in {"sl_add", "sl_insert"}
    BY <1>5, AtFacts DEF SleepAdd, SleepInsert
  <2>2. t # Idle
    BY <2>1 DEF NoAssertInvariant, IdleAvailable
  <2>3. PICK a \in Labels : Go(t, <<a>>)
    <3>1. PICK b, c \in Labels : b = "sl_insert" /\ c = "sl_suspend"
      BY DEF Labels
    <3> QED  BY <1>5, <3>1 DEF SleepAdd, SleepInsert
  <2>4. UNCHANGED <<mode, state, current_task>>
    BY <1>5 DEF SleepAdd, SleepInsert, cpuVars
  <2>5. \A u \in Tasks : u # t => pc'[u] = pc[u]
    BY <2>3, StepTop
  <2> QED  BY <2>2, <2>4, <2>5, RunningStep
<1>6. CASE SleepSuspend(t)
  <2>1. pc[t][1] = "sl_suspend" /\ mode = "task" /\ current_task = t
    BY <1>6, AtFacts DEF SleepSuspend
  <2>2. t # Idle /\ Idle \in Tasks
    BY <2>1, TaskAssumption DEF NoAssertInvariant, IdleAvailable
  <2>3. /\ state' = [state EXCEPT ![t] = "TO_BE_SUSPENDED"]
        /\ UNCHANGED <<mode, current_task>>
        /\ pc' = [pc EXCEPT ![t] = <<"pend", "unlock">> \o Tail(@)]
    BY <1>6 DEF SleepSuspend, Go
  <2>4. pc'[Idle] = pc[Idle] /\ state'[Idle] = state[Idle] /\ state'[t] = "TO_BE_SUSPENDED"
    BY <2>2, <2>3 DEF KernelInvariant, TypeOK, StateTypeOK
  <2> QED  BY <2>1, <2>2, <2>3, <2>4 DEF NoAssertInvariant, NoAssert, IdleAvailable
<1> QED  BY <1>1, <1>2, <1>3, <1>4, <1>5, <1>6 DEF KernelCall

LEMMA UserNoAssert ==
  ASSUME MayFinish = {}, KernelInvariant, NoAssertInvariant, NEW t \in Tasks, UserCall(t)
  PROVE  NoAssertInvariant'
<1>1. CASE scheduler_lock(t)
  <2>1. lock_count[t] < MaxLock /\ lock_count[t] \in Nat /\ MaxLock \in Nat
    BY <1>1, LockAssumption DEF scheduler_lock, KernelInvariant, TypeOK, StateTypeOK
  <2>2. UNCHANGED <<mode, state, current_task, pc>>
    BY <1>1, <2>1 DEF scheduler_lock
  <2> QED  BY <2>2, RunningStep, TaskAssumption DEF NoAssertInvariant, IdleAvailable
<1>2. CASE UserUnlock(t)
  <2>1. PICK a \in Labels \ {"user"} : a = "unlock"
    BY DEF Labels
  <2>2. InUser(t) /\ Go(t, <<a, "user">>) /\ UNCHANGED <<mode, state, current_task>>
    BY <1>2, <2>1 DEF UserUnlock, cpuVars
  <2>3. pc'[t][1] = a /\ \A u \in Tasks : u # t => pc'[u] = pc[u]
    BY <2>2, CallEnters
  <2> QED  BY <2>1, <2>2, <2>3, RunningStep
<1>3. CASE task_yield(t)
  <2>1. UNCHANGED <<mode, state, current_task>> /\ InUser(t)
    BY <1>3 DEF task_yield
  <2>2. CASE lock_count[t] = 0
    <3>1. PICK a \in Labels \ {"user"} : a = "pend"
      BY DEF Labels
    <3>2. Go(t, <<a, "user">>)
      BY <1>3, <2>2, <3>1 DEF task_yield
    <3>3. pc'[t][1] = a /\ \A u \in Tasks : u # t => pc'[u] = pc[u]
      BY <2>1, <3>2, CallEnters
    <3> QED  BY <2>1, <3>1, <3>3, RunningStep
  <2>3. CASE lock_count[t] # 0
    <3>1. UNCHANGED pc
      BY <1>3, <2>3 DEF task_yield
    <3> QED  BY <2>1, <3>1, RunningStep, TaskAssumption DEF NoAssertInvariant, IdleAvailable
  <2> QED  BY <2>2, <2>3
<1>4. ASSUME NEW n \in Delays[t], sleep_ticks(t, n)
      PROVE  NoAssertInvariant'
  <2>1. t # Idle
    BY TickAssumption
  <2>2. InUser(t)
    BY <1>4 DEF sleep_ticks
  <2>3. ~ OwesUnlock(t)
    BY <2>2, UserOwesNothing
  <2>4. ~ (lock_count[t] >= MaxLock)
    BY <2>3, LockAssumption DEF KernelInvariant, LocksOK, TypeOK, StateTypeOK
  <2>5. PICK a \in Labels \ {"user"} : a = "sl_add"
    BY DEF Labels
  <2>6. Go(t, <<a, "user">>) /\ UNCHANGED <<mode, state, current_task>>
    BY <1>4, <2>4, <2>5 DEF sleep_ticks
  <2>7. \A u \in Tasks : u # t => pc'[u] = pc[u]
    BY <2>2, <2>6, CallEnters
  <2> QED  BY <2>1, <2>6, <2>7, RunningStep
<1>5. ~ task_entry_return(t)
  BY DEF task_entry_return
<1>6. ASSUME NEW new \in Tasks, scheduler_task_add(t, new)
      PROVE  NoAssertInvariant'
  <2>1. new # Idle /\ state[new] = "FINISHED" /\ YieldSystem(new)
        /\ UNCHANGED <<pc, mode, current_task>>
    BY <1>6, TaskAssumption DEF scheduler_task_add, cpuVars
  <2> QED  BY <2>1, AddNoAssert
<1> QED  BY <1>1, <1>2, <1>3, <1>4, <1>5, <1>6 DEF UserCall

(* No task returns from its entry function.  Then no ASSERT of the kernel  *)
(* is ever reached: scheduler_get_next_task always finds a task, no lock   *)
(* is taken or released too often, and the tick finds the task running.    *)
THEOREM NoAssertHolds ==
  ASSUME MayFinish = {}
  PROVE  Spec => []NoAssert
<1>1. Init => NoAssertInvariant
  <2> SUFFICES ASSUME Init
               PROVE  NoAssertInvariant
    OBVIOUS
  <2>1. pc[Idle] = <<"user">> /\ state[Idle] = "RESUME" /\ mode = "boot"
    BY TaskAssumption DEF Init
  <2>2. pc[Idle][1] = "user"
    BY <2>1
  <2> QED  BY <2>1, <2>2 DEF NoAssertInvariant, NoAssert, IdleAvailable
<1>2. KernelInvariant /\ NoAssertInvariant /\ [Next]_kernelVars => NoAssertInvariant'
  <2> SUFFICES ASSUME KernelInvariant, NoAssertInvariant, [Next]_kernelVars
               PROVE  NoAssertInvariant'
    OBVIOUS
  <2>1. ASSUME NEW t \in Tasks, BootAdd(t)
        PROVE  NoAssertInvariant'
    <3>1. t # Idle /\ state[t] = "FINISHED" /\ YieldSystem(t)
          /\ UNCHANGED <<pc, mode, current_task>>
      BY <2>1 DEF BootAdd, cpuVars, NoAssertInvariant, IdleAvailable
    <3> QED  BY <3>1, AddNoAssert
  <2>2. CASE run_first_task
    BY <2>2, SwitchNoAssert DEF run_first_task
  <2>3. CASE SaveCurrent
    BY <2>3, SaveNoAssert
  <2>4. CASE sleep_process_system_tick
    BY <2>4, WakeNoAssert
  <2>5. CASE LoadNext
    BY <2>5, SwitchNoAssert DEF LoadNext
  <2>6. CASE isr_sysclock_handle
    BY <2>6, TickNoAssert
  <2>7. CASE system_assert
    BY <2>7 DEF system_assert, NoAssertInvariant, NoAssert
  <2>8. CASE UNCHANGED kernelVars
    BY <2>8 DEF kernelVars, cpuVars, NoAssertInvariant, NoAssert, IdleAvailable
  <2>9. ASSUME NEW t \in Tasks, KernelCall(t)
        PROVE  NoAssertInvariant'
    BY <2>9, CallNoAssert
  <2>10. ASSUME NEW t \in Tasks, UserCall(t)
         PROVE  NoAssertInvariant'
    BY <2>10, UserNoAssert
  <2> QED  BY <2>1, <2>2, <2>3, <2>4, <2>5, <2>6, <2>7, <2>8, <2>9, <2>10
           DEF Next, Boot, PendSV
<1>3. NoAssertInvariant => NoAssert
  BY DEF NoAssertInvariant
<1> QED  BY <1>1, <1>2, <1>3, KernelInvariantHolds, PTL DEF Spec

----------------------------------------------------------------------------
(* The scheduler gives the CPU to a task of the highest ready priority.    *)

LEMMA SwitchHighest ==
  ASSUME KernelInvariant, SwitchToNext
  PROVE  CurrentIsHighest'
<1>1. CASE sch_ready_task_list = <<>>
  BY <1>1 DEF SwitchToNext, Halt, CurrentIsHighest
<1>2. CASE sch_ready_task_list # <<>>
  <2>1. PICK t : /\ t = Head(sch_ready_task_list) /\ current_task' = t
                 /\ state' = [state EXCEPT ![t] = "RUNNING"]
                 /\ sch_ready_task_list' = Tail(sch_ready_task_list)
    BY <1>2 DEF SwitchToNext
  <2>2. \A u \in ToSet(sch_ready_task_list') : Priority[t] <= Priority[u]
    BY <1>2, <2>1, NextTaken DEF KernelInvariant, TypeOK
  <2> QED  BY <2>1, <2>2 DEF CurrentIsHighest
<1> QED  BY <1>1, <1>2

LEMMA RunningHighest ==
  ASSUME CurrentIsHighest, mode' # "task" \/ mode' = mode,
         UNCHANGED <<current_task, sch_ready_task_list>>
  PROVE  CurrentIsHighest'
BY DEF CurrentIsHighest

(* No task is added while the system runs.  Then application code that has *)
(* not locked the scheduler only runs while no ready task has a higher     *)
(* priority: what the ready list holds changes only in PendSV, which       *)
(* switches to its head.                                                   *)
THEOREM HighestPriorityHolds ==
  ASSUME MayAdd = {}
  PROVE  Spec => []HighestPriorityRuns
<1>1. Init => CurrentIsHighest
  BY DEF Init, CurrentIsHighest
<1>2. KernelInvariant /\ CurrentIsHighest /\ [Next]_kernelVars => CurrentIsHighest'
  <2> SUFFICES ASSUME KernelInvariant, CurrentIsHighest, [Next]_kernelVars
               PROVE  CurrentIsHighest'
    OBVIOUS
  <2>1. ASSUME NEW t \in Tasks, BootAdd(t)
        PROVE  CurrentIsHighest'
    BY <2>1 DEF BootAdd, cpuVars, CurrentIsHighest
  <2>2. CASE run_first_task \/ LoadNext
    BY <2>2, SwitchHighest DEF run_first_task, LoadNext
  <2>3. CASE SaveCurrent \/ sleep_process_system_tick
    BY <2>3 DEF SaveCurrent, sleep_process_system_tick, cpuVars, CurrentIsHighest
  <2>4. CASE isr_sysclock_handle
    <3>1. mode' = mode \/ mode' = "assert"
      BY <2>4 DEF isr_sysclock_handle, Preempt, Halt
    <3> QED  BY <2>4, <3>1, RunningHighest DEF isr_sysclock_handle, lists
  <2>5. CASE system_assert \/ UNCHANGED kernelVars
    BY <2>5, RunningHighest DEF system_assert, kernelVars, lists, cpuVars
  <2>6. ASSUME NEW t \in Tasks, KernelCall(t)
        PROVE  CurrentIsHighest'
    <3>1. CASE PEND_SV(t) \/ RestoreLevel(t) \/ UnlockYield(t) \/ SleepSuspend(t)
      BY <3>1, RunningHighest DEF PEND_SV, RestoreLevel, UnlockYield, SleepSuspend, lists
    <3>2. CASE scheduler_unlock(t)
      BY <3>2, RunningHighest DEF scheduler_unlock, Halt, lists
    <3>3. CASE SleepAdd(t) \/ SleepInsert(t)
      BY <3>3, RunningHighest DEF SleepAdd, SleepInsert, lists, cpuVars
    <3> QED  BY <2>6, <3>1, <3>2, <3>3 DEF KernelCall
  <2>7. ASSUME NEW t \in Tasks, UserCall(t)
        PROVE  CurrentIsHighest'
    <3>1. CASE scheduler_lock(t)
      BY <3>1, RunningHighest DEF scheduler_lock, Halt, lists
    <3>2. CASE UserUnlock(t) \/ task_yield(t) \/ task_entry_return(t)
      BY <3>2, RunningHighest DEF UserUnlock, task_yield, task_entry_return, lists, cpuVars
    <3>3. ASSUME NEW n \in Delays[t], sleep_ticks(t, n)
          PROVE  CurrentIsHighest'
      BY <3>3, RunningHighest DEF sleep_ticks, Halt, lists
    <3>4. ~ \E new \in Tasks : scheduler_task_add(t, new)
      BY DEF scheduler_task_add
    <3> QED  BY <2>7, <3>1, <3>2, <3>3, <3>4 DEF UserCall
  <2> QED  BY <2>1, <2>2, <2>3, <2>4, <2>5, <2>6, <2>7 DEF Next, Boot, PendSV
<1>3. KernelInvariant /\ CurrentIsHighest => HighestPriorityRuns
  <2> SUFFICES ASSUME KernelInvariant, CurrentIsHighest, NEW t \in Tasks, InUser(t),
                      NEW u \in Tasks, Ready(u)
               PROVE  Priority[u] >= Priority[t]
    BY DEF HighestPriorityRuns
  <2>1. mode = "task" /\ current_task = t
    BY AtFacts DEF InUser
  <2>2. u \in ToSet(sch_ready_task_list)
    BY DEF KernelInvariant, ReadyListExact
  <2>3. Priority[t] \in Nat /\ Priority[u] \in Nat
    BY TaskAssumption
  <2> QED  BY <2>1, <2>2, <2>3 DEF CurrentIsHighest
<1> QED  BY <1>1, <1>2, <1>3, KernelInvariantHolds, PTL DEF Spec

----------------------------------------------------------------------------
(* Among equals the ready list is first in, first out.                     *)

LEMMA BeforeIsAhead ==
  ASSUME NEW u, NEW v
  PROVE  /\ Before(u, v) <=> Ahead(sch_ready_task_list, u, v)
         /\ Before(u, v)' <=> Ahead(sch_ready_task_list', u, v)
BY DEF Before, Ahead

(* A task joins the list: the others keep their order, and it goes behind  *)
(* everyone of its priority.                                               *)
LEMMA JoinFifo ==
  ASSUME KernelInvariant, NEW t \in Tasks, ~ Ready(t),
         sch_ready_task_list' = Enqueued(sch_ready_task_list, t), ReadyListExact',
         NEW u \in Tasks, NEW v \in Tasks, Priority[u] = Priority[v],
         Ready(u), Ready(v)', Ready(v) => Before(u, v)
  PROVE  Before(u, v)'
<1> DEFINE list == sch_ready_task_list
<1>1. PICK later, new :
        /\ later = {n \in ToSet(list) : Priority[n] > Priority[t]}
        /\ new = sch_ready_task_list' /\ new = sll_insert(list, t, later)
  BY DEF Enqueued, scheduler_task_sort
<1>2. list \in Seq(Tasks) /\ Priority \in [Tasks -> Int]
  BY TaskAssumption DEF KernelInvariant, TypeOK, StateTypeOK
<1>3. ToSet(new) = ToSet(list) \cup {t}
  BY <1>1, <1>2, SllInsertMembers
<1>4. v \in ToSet(new) /\ u \in ToSet(list)
  BY <1>1 DEF KernelInvariant, ReadyListExact
<1>5. CASE v # t
  <2>1. Ready(v)
    BY <1>3, <1>4, <1>5 DEF KernelInvariant, ReadyListExact
  <2>2. Ahead(list, u, v)
    BY <2>1, BeforeIsAhead
  <2>3. Ahead(new, u, v)
    BY <1>1, <1>2, <2>2, SllInsertKeepsOrder
  <2> QED  BY <1>1, <2>3, BeforeIsAhead
<1>6. CASE v = t
  <2>1. \A i, j \in 1 .. Len(list) : i < j => Priority[list[i]] <= Priority[list[j]]
    BY DEF KernelInvariant, ReadyListSorted
  <2>2. (\A n \in later : Priority[n] > Priority[t]) /\ Priority[u] = Priority[t]
    BY <1>1, <1>6
  <2>3. Ahead(new, u, t)
    BY <1>1, <1>2, <1>4, <2>1, <2>2, SllInsertBehind
  <2> QED  BY <1>1, <1>6, <2>3, BeforeIsAhead
<1> QED  BY <1>5, <1>6

(* The head of the list gets the CPU, or the list does not change.         *)
LEMMA LeaveFifo ==
  ASSUME KernelInvariant, ReadyListExact',
         \/ sch_ready_task_list' = sch_ready_task_list
         \/ /\ sch_ready_task_list # <<>>
            /\ sch_ready_task_list' = Tail(sch_ready_task_list),
         NEW u \in Tasks, NEW v \in Tasks,
         Ready(u)', Ready(v)', Ready(v) => Before(u, v)
  PROVE  Before(u, v)'
<1> DEFINE list == sch_ready_task_list
<1>1. list \in Seq(Tasks) /\ NoDuplicates(list)
  BY DEF KernelInvariant, TypeOK, StateTypeOK, ReadyListExact
<1>2. PICK new : new = sch_ready_task_list' /\ u \in ToSet(new) /\ v \in ToSet(new)
  BY DEF ReadyListExact
<1>3. CASE new = list
  BY <1>2, <1>3 DEF Before, KernelInvariant, ReadyListExact
<1>4. CASE list # <<>> /\ new = Tail(list)
  <2>1. u # Head(list) /\ v \in ToSet(list)
    BY <1>1, <1>2, <1>4, TailMembers
  <2>2. Ahead(list, u, v)
    BY <2>1, BeforeIsAhead DEF KernelInvariant, ReadyListExact
  <2>3. Ahead(new, u, v)
    BY <1>1, <1>4, <2>1, <2>2, TailKeepsOrder
  <2> QED  BY <1>2, <2>3, BeforeIsAhead
<1> QED  BY <1>2, <1>3, <1>4

(* What a step does to the ready list: nothing, a task joins that was not  *)
(* ready, or its head leaves.                                              *)
LEMMA ReadyListSteps ==
  ASSUME KernelInvariant, [Next]_kernelVars
  PROVE  \/ sch_ready_task_list' = sch_ready_task_list
         \/ \E t \in Tasks : /\ ~ Ready(t)
                             /\ sch_ready_task_list' = Enqueued(sch_ready_task_list, t)
         \/ /\ sch_ready_task_list # <<>>
            /\ sch_ready_task_list' = Tail(sch_ready_task_list)
<1>1. ASSUME NEW t \in Tasks, BootAdd(t) \/ \E s \in Tasks : scheduler_task_add(s, t)
      PROVE  ~ Ready(t) /\ sch_ready_task_list' = Enqueued(sch_ready_task_list, t)
  BY <1>1 DEF BootAdd, scheduler_task_add, YieldSystem, Ready
<1>2. CASE run_first_task \/ LoadNext
  BY <1>2 DEF run_first_task, LoadNext, SwitchToNext
<1>3. CASE SaveCurrent
  <2>1. current_task \in Tasks
    BY <1>3 DEF SaveCurrent, KernelInvariant, CurrentOK
  <2> QED  BY <1>3, <2>1 DEF SaveCurrent, YieldSystem, Ready
<1>4. CASE sleep_process_system_tick
  <2>1. PICK i \in 1 .. Len(sleep_task_list) :
          /\ sleep_walk(i)
          /\ sch_ready_task_list' = Enqueued(sch_ready_task_list, sleep_task_list[i])
    BY <1>4 DEF sleep_process_system_tick
  <2>2. sleep_task_list[i] \in Tasks
    BY <2>1, ElementOfSeq DEF KernelInvariant, TypeOK, StateTypeOK
  <2>3. ~ Ready(sleep_task_list[i])
    BY <2>1 DEF sleep_walk, Ready
  <2> QED  BY <2>1, <2>2, <2>3
<1>5. CASE isr_sysclock_handle \/ system_assert \/ UNCHANGED kernelVars
  BY <1>5 DEF isr_sysclock_handle, system_assert, kernelVars, lists
<1>6. ASSUME NEW t \in Tasks, KernelCall(t)
      PROVE  sch_ready_task_list' = sch_ready_task_list
  BY <1>6 DEF KernelCall, PEND_SV, RestoreLevel, scheduler_unlock, UnlockYield, SleepAdd,
              SleepInsert, SleepSuspend, lists
<1>7. ASSUME NEW t \in Tasks, UserCall(t), ~ \E s \in Tasks : scheduler_task_add(t, s)
      PROVE  sch_ready_task_list' = sch_ready_task_list
  BY <1>7 DEF UserCall, scheduler_lock, UserUnlock, task_yield, sleep_ticks,
              task_entry_return, lists
<1> QED  BY <1>1, <1>2, <1>3, <1>4, <1>5, <1>6, <1>7 DEF Next, Boot, PendSV

(* Among tasks of one priority the scheduler is first in, first out: a     *)
(* yield, a wake-up or a new task never passes a task that was ready       *)
(* before it.                                                              *)
THEOREM EqualsAreFifo == Spec => FifoAmongEquals
<1>1. KernelInvariant /\ KernelInvariant' /\ [Next]_kernelVars =>
        [\A u, v \in Tasks :
           (/\ Priority[u] = Priority[v] /\ u # v
            /\ Ready(u) /\ Ready(u)' /\ Ready(v)'
            /\ (Ready(v) => Before(u, v)))
             => Before(u, v)']_kernelVars
  <2> SUFFICES ASSUME KernelInvariant, KernelInvariant', [Next]_kernelVars,
                      NEW u \in Tasks, NEW v \in Tasks, Priority[u] = Priority[v],
                      Ready(u), Ready(u)', Ready(v)', Ready(v) => Before(u, v)
               PROVE  Before(u, v)'
    OBVIOUS
  <2>1. ReadyListExact'
    BY DEF KernelInvariant
  <2>2. ASSUME NEW t \in Tasks, ~ Ready(t),
               sch_ready_task_list' = Enqueued(sch_ready_task_list, t)
        PROVE  Before(u, v)'
    BY <2>1, <2>2, JoinFifo
  <2>3. CASE \/ sch_ready_task_list' = sch_ready_task_list
             \/ /\ sch_ready_task_list # <<>>
                /\ sch_ready_task_list' = Tail(sch_ready_task_list)
    BY <2>1, <2>3, LeaveFifo
  <2> QED  BY <2>2, <2>3, ReadyListSteps
<1> QED  BY <1>1, KernelInvariantHolds, PTL DEF Spec, FifoAmongEquals

----------------------------------------------------------------------------
(* Interrupts are enabled in application code.                             *)

(* A call that runs with interrupts enabled and saves their level, or      *)
(* leaves both alone.                                                      *)
LEMMA CallInterrupts ==
  ASSUME KernelInvariant, InterruptsOn, NEW t \in Tasks, mode = "task",
         \/ UNCHANGED <<interrupts, level, mode>>
         \/ ControlToSystem(t, interrupts)
         \/ Halt /\ UNCHANGED level
  PROVE  InterruptsOn'
<1>1. interrupts /\ level \in [Tasks -> BOOLEAN] /\ \A u \in Tasks : level[u]
  BY DEF InterruptsOn, KernelInvariant, TypeOK, StateTypeOK
<1>2. CASE UNCHANGED <<interrupts, level, mode>>
  BY <1>2 DEF InterruptsOn
<1>3. CASE ControlToSystem(t, interrupts)
  <2>1. \A u \in Tasks : level'[u] = IF u = t THEN interrupts ELSE level[u]
    BY <1>1, <1>3 DEF ControlToSystem
  <2> QED  BY <1>1, <1>3, <2>1 DEF InterruptsOn, ControlToSystem
<1>4. CASE Halt /\ UNCHANGED level
  BY <1>1, <1>4 DEF InterruptsOn, Halt
<1> QED  BY <1>2, <1>3, <1>4

(* No task returns from its entry function.  Then interrupts are enabled   *)
(* whenever application code runs: every call restores the level it found, *)
(* through any number of switches in between.                              *)
THEOREM InterruptsEnabled ==
  ASSUME MayFinish = {}
  PROVE  Spec => []InterruptsInTask
<1>1. Init => InterruptsOn
  BY DEF Init, InterruptsOn
<1>2. KernelInvariant /\ InterruptsOn /\ [Next]_kernelVars => InterruptsOn'
  <2> SUFFICES ASSUME KernelInvariant, InterruptsOn, [Next]_kernelVars
               PROVE  InterruptsOn'
    OBVIOUS
  <2>1. ASSUME NEW t \in Tasks, BootAdd(t) \/ \E s \in Tasks : scheduler_task_add(s, t)
        PROVE  InterruptsOn'
    BY <2>1 DEF BootAdd, scheduler_task_add, cpuVars, InterruptsOn
  <2>2. CASE run_first_task \/ LoadNext
    BY <2>2 DEF run_first_task, LoadNext, SwitchToNext, Halt, InterruptsOn
  <2>3. CASE SaveCurrent \/ sleep_process_system_tick
    BY <2>3 DEF SaveCurrent, sleep_process_system_tick, cpuVars, InterruptsOn
  <2>4. CASE isr_sysclock_handle
    <3>1. (mode' = mode /\ interrupts' = interrupts) \/ mode' = "assert"
      BY <2>4 DEF isr_sysclock_handle, Preempt, Halt
    <3> QED  BY <2>4, <3>1 DEF isr_sysclock_handle, InterruptsOn
  <2>5. CASE system_assert \/ UNCHANGED kernelVars
    BY <2>5 DEF system_assert, kernelVars, cpuVars, InterruptsOn
  <2>6. ASSUME NEW t \in Tasks, KernelCall(t), ~ RestoreLevel(t)
        PROVE  InterruptsOn'
    <3>1. mode = "task"
      BY <2>6 DEF KernelCall, PEND_SV, scheduler_unlock, UnlockYield, SleepAdd,
                  SleepInsert, SleepSuspend, At, Executes
    <3>2. \/ UNCHANGED <<interrupts, level, mode>>
          \/ ControlToSystem(t, interrupts)
          \/ Halt /\ UNCHANGED level
      BY <2>6 DEF KernelCall, PEND_SV, scheduler_unlock, UnlockYield, SleepAdd,
                  SleepInsert, SleepSuspend, cpuVars
    <3> QED  BY <3>1, <3>2, CallInterrupts
  <2>7. ASSUME NEW t \in Tasks, RestoreLevel(t)
        PROVE  InterruptsOn'
    BY <2>7 DEF RestoreLevel, InterruptsOn
  <2>8. ASSUME NEW t \in Tasks, UserCall(t), ~ \E s \in Tasks : scheduler_task_add(t, s)
        PROVE  InterruptsOn'
    <3>1. mode = "task" /\ ~ task_entry_return(t)
      BY <2>8 DEF UserCall, scheduler_lock, UserUnlock, task_yield, sleep_ticks,
                  task_entry_return, InUser, At, Executes
    <3>2. \/ UNCHANGED <<interrupts, level, mode>>
          \/ ControlToSystem(t, interrupts)
          \/ Halt /\ UNCHANGED level
      BY <2>8, <3>1 DEF UserCall, scheduler_lock, UserUnlock, task_yield, sleep_ticks,
                        cpuVars
    <3> QED  BY <3>1, <3>2, CallInterrupts
  <2> QED  BY <2>1, <2>2, <2>3, <2>4, <2>5, <2>6, <2>7, <2>8 DEF Next, Boot, PendSV
<1>3. InterruptsOn => InterruptsInTask
  BY DEF InterruptsOn, InterruptsInTask, InUser, At, Executes
<1> QED  BY <1>1, <1>2, <1>3, KernelInvariantHolds, PTL DEF Spec
----------------------------------------------------------------------------
(* Sleeping and the system tick: no sleep ends early and none is forgotten,*)
(* however often the tick counter wraps.                                   *)

----------------------------------------------------------------------------
(* Time.                                                                   *)

LEMMA ModDiffers ==
  ASSUME NEW R \in Nat \ {0}, NEW a \in Int
  PROVE  a % R \in 0 .. R - 1 /\ \E k \in Int : a % R = a + R * k
<1>1. a % R \in 0 .. R - 1 /\ a \div R \in Int /\ a = R * (a \div R) + (a % R)
  OBVIOUS
<1>2. PICK q \in Int : a = R * q + (a % R)
  BY <1>1
<1>3. a % R = a + R * (- q) /\ - q \in Int
  BY <1>1, <1>2
<1>4. \E k \in Int : a % R = a + R * k
  BY <1>3
<1> QED  BY <1>1, <1>4

(* INT32CMP of two deadlines that are less than half the range apart is    *)
(* their distance, wherever the counter wraps between them.                *)
LEMMA CmpIsDistance ==
  ASSUME NEW a \in Int, NEW x \in Int, NEW y \in Int,
         2 * (x - y) < TickRange, 2 * (y - x) < TickRange
  PROVE  INT32CMP((a + x) % TickRange, (a + y) % TickRange) = x - y
<1>1. TickRange \in Nat \ {0}
  BY TickAssumption
<1> DEFINE R == TickRange
           m == (a + x) % R
           n == (a + y) % R
           d == (m - n) % R
<1>2. \A z \in Int : z % R \in 0 .. R - 1 /\ \E k \in Int : z % R = z + R * k
  BY <1>1, ModDiffers
<1>3. d \in 0 .. R - 1 /\ \E k \in Int : d = (x - y) + R * k
  <2>1. a + x \in Int /\ a + y \in Int
    OBVIOUS
  <2>2. m \in Int /\ \E k \in Int : m = (a + x) + R * k
    BY <1>2, <2>1
  <2>3. n \in Int /\ \E k \in Int : n = (a + y) + R * k
    BY <1>2, <2>1
  <2> HIDE DEF m, n
  <2>4. m - n \in Int
    BY <2>2, <2>3
  <2>5. d \in 0 .. R - 1 /\ \E k \in Int : d = (m - n) + R * k
    BY <1>2, <2>4
  <2> HIDE DEF d
  <2>6. PICK i \in Int : m = (a + x) + R * i
    BY <2>2
  <2>7. PICK j \in Int : n = (a + y) + R * j
    BY <2>3
  <2>8. PICK l \in Int : d = (m - n) + R * l
    BY <2>5
  <2>9. d = (x - y) + R * (i - j + l) /\ i - j + l \in Int
    BY <1>1, <2>6, <2>7, <2>8
  <2> QED  BY <2>5, <2>9
<1>4. INT32CMP((a + x) % R, (a + y) % R) = IF 2 * d < R THEN d ELSE d - R
  BY DEF INT32CMP
<1> HIDE DEF d
<1>5. PICK k \in Int : d = (x - y) + R * k
  BY <1>3
<1>6. CASE x >= y
  <2>1. k = 0
    BY <1>1, <1>3, <1>5, <1>6
  <2> QED  BY <1>1, <1>4, <1>5, <2>1
<1>7. CASE x < y
  <2>1. k = 1
    BY <1>1, <1>3, <1>5, <1>7
  <2>2. d = (x - y) + R
    BY <1>1, <1>5, <2>1
  <2>3. ~ (2 * d < R)
    BY <1>1, <2>2
  <2> QED  BY <1>1, <1>4, <2>2, <2>3
<1> QED  BY <1>6, <1>7

(* A deadline seen from the next tick.                                     *)
LEMMA NextTickDeadline ==
  ASSUME NEW R \in Nat \ {0}, NEW a \in Int, NEW x \in Int
  PROVE  (a + x) % R = (((a + 1) % R) + (x - 1)) % R
<1>1. \A z \in Int : z % R \in 0 .. R - 1 /\ \E k \in Int : z % R = z + R * k
  BY ModDiffers
<1> DEFINE m == (a + 1) % R
           p == (a + x) % R
           q == (m + (x - 1)) % R
<1>2. m \in Int /\ \E k \in Int : m = (a + 1) + R * k
  <2>1. PICK z \in Int : z = a + 1
    OBVIOUS
  <2>2. z % R \in 0 .. R - 1 /\ \E k \in Int : z % R = z + R * k
    BY <1>1
  <2>3. m = z % R
    BY <2>1
  <2> HIDE DEF m
  <2> QED  BY <2>1, <2>2, <2>3
<1>3. p \in 0 .. R - 1 /\ \E k \in Int : p = (a + x) + R * k
  <2>1. a + x \in Int
    OBVIOUS
  <2> QED  BY <1>1, <2>1
<1> HIDE DEF m
<1>4. q \in 0 .. R - 1 /\ \E k \in Int : q = (m + (x - 1)) + R * k
  <2>1. m + (x - 1) \in Int
    BY <1>2
  <2> QED  BY <1>1, <2>1
<1> HIDE DEF p, q
<1>5. PICK i \in Int : m = (a + 1) + R * i
  BY <1>2
<1>6. PICK j \in Int : p = (a + x) + R * j
  BY <1>3
<1>7. PICK k \in Int : q = (m + (x - 1)) + R * k
  BY <1>4
<1>8. p - q = R * (j - i - k) /\ j - i - k \in Int
  BY <1>5, <1>6, <1>7
<1>9. - R < p - q /\ p - q < R /\ p - q \in Int
  BY <1>3, <1>4
<1>10. p - q = 0
  BY <1>8, <1>9
<1>11. p = q
  BY <1>3, <1>4, <1>10
<1> QED  BY <1>11 DEF m, p, q

(* The current tick compared with a deadline.                              *)
LEMMA CmpNow ==
  ASSUME KernelInvariant, NEW t \in Tasks, DeadlineOK(t)
  PROVE  /\ INT32CMP(current_tick, tick_sleep[t]) = - left[t]
         /\ INT32CMP((current_tick + 1) % TickRange, tick_sleep[t]) = 1 - left[t]
<1>1. /\ TickRange \in Nat \ {0} /\ MaxLate \in Nat
      /\ \A d \in Delays[t] : d \in Nat /\ 2 * (d + MaxLate + 1) < TickRange
  BY TickAssumption
<1>2. left[t] \in Int /\ current_tick \in 0 .. TickRange - 1
  BY DEF KernelInvariant, TypeOK, StateTypeOK
<1>3. PICK d \in Delays[t] : left[t] <= d /\ left[t] >= - MaxLate
  BY DEF DeadlineOK
<1>4. tick_sleep[t] = (current_tick + left[t]) % TickRange
  BY DEF DeadlineOK
<1>5. current_tick = (current_tick + 0) % TickRange
  BY <1>1, <1>2
<1>6. d \in Nat /\ 2 * (d + MaxLate + 1) < TickRange
  BY <1>1, <1>3
<1>7. \A x \in {0, 1} : 2 * (x - left[t]) < TickRange /\ 2 * (left[t] - x) < TickRange
  BY <1>1, <1>2, <1>3, <1>6
<1>8. \A x \in {0, 1} : INT32CMP((current_tick + x) % TickRange, tick_sleep[t]) = x - left[t]
  <2> TAKE x \in {0, 1}
  <2>1. x \in Int /\ current_tick \in Int
    BY <1>2
  <2>2. INT32CMP((current_tick + x) % TickRange, (current_tick + left[t]) % TickRange)
          = x - left[t]
    BY <1>2, <1>7, <2>1, CmpIsDistance
  <2> QED  BY <1>4, <2>2
<1>9. 0 - left[t] = - left[t]
  BY <1>2
<1> QED  BY <1>5, <1>8, <1>9

(* Two deadlines compared with each other.                                 *)
LEMMA CmpDeadlines ==
  ASSUME KernelInvariant, NEW t \in Tasks, NEW u \in Tasks, DeadlineOK(t), DeadlineOK(u)
  PROVE  INT32CMP(tick_sleep[t], tick_sleep[u]) = left[t] - left[u]
<1>1. /\ TickRange \in Nat \ {0} /\ MaxLate \in Nat
      /\ \A v \in Tasks : \A d \in Delays[v] : d \in Nat /\ 2 * (d + MaxLate + 1) < TickRange
  BY TickAssumption
<1>2. left[t] \in Int /\ left[u] \in Int /\ current_tick \in Int
  BY DEF KernelInvariant, TypeOK, StateTypeOK
<1>3. PICK d \in Delays[t] : left[t] <= d /\ left[t] >= - MaxLate
  BY DEF DeadlineOK
<1>4. PICK e \in Delays[u] : left[u] <= e /\ left[u] >= - MaxLate
  BY DEF DeadlineOK
<1>5. /\ d \in Nat /\ 2 * (d + MaxLate + 1) < TickRange
      /\ e \in Nat /\ 2 * (e + MaxLate + 1) < TickRange
  BY <1>1, <1>3, <1>4
<1>6. 2 * (left[t] - left[u]) < TickRange /\ 2 * (left[u] - left[t]) < TickRange
  BY <1>1, <1>2, <1>3, <1>4, <1>5
<1>7. INT32CMP((current_tick + left[t]) % TickRange, (current_tick + left[u]) % TickRange)
        = left[t] - left[u]
  BY <1>2, <1>6, CmpIsDistance
<1> QED  BY <1>7 DEF DeadlineOK

----------------------------------------------------------------------------
(* Steps that leave the deadlines and the sleep list alone.                *)

(* The innermost program point of a stack.                                 *)
LEMMA TopOfStack ==
  ASSUME NEW s, StackShape(s)
  PROVE  Head(s) = s[1] /\ s[1] \in Labels
<1>1. s \in Seq(Labels) /\ Len(s) \in 1 .. 3
  BY DEF StackShape
<1> QED  BY <1>1

(* A task without a deadline is not on the list and not about to join it.  *)
LEMMA TimedTop ==
  ASSUME KernelInvariant, NEW t \in Tasks
  PROVE  /\ Timed(t) <=> t \in ToSet(sleep_task_list) \/ pc[t][1] = "sl_insert"
         /\ Sleeping(t) <=> \/ state[t] \in {"TO_BE_SUSPENDED", "SUSPENDED"}
                            \/ pc[t][1] = "sl_suspend"
<1>1. Head(pc[t]) = pc[t][1] /\ pc[t][1] \in Labels
  BY TopOfStack DEF KernelInvariant, StackOK
<1>2. pc[t][1] # "sc_insert"
  BY <1>1 DEF Labels
<1> QED  BY <1>1, <1>2 DEF Timed, Sleeping

(* The members of the sleep list are tasks.                                *)
LEMMA SleepersAreTasks ==
  ASSUME KernelInvariant
  PROVE  ToSet(sleep_task_list) \subseteq Tasks
<1>1. sleep_task_list \in Seq(Tasks)
  BY DEF KernelInvariant, TypeOK, StateTypeOK
<1> SUFFICES ASSUME NEW u \in ToSet(sleep_task_list)
             PROVE  u \in Tasks
  OBVIOUS
<1>2. PICK i \in 1 .. Len(sleep_task_list) : sleep_task_list[i] = u
  BY <1>1, ToSetMember
<1> QED  BY <1>1, <1>2, ElementOfSeq

(* A step of task t that is not about its sleep.                           *)
LEMMA SleepersUnchanged ==
  ASSUME KernelInvariant, KernelInvariant', SleepInvariant, NeverForgotten',
         UNCHANGED <<sleep_task_list, current_tick, tick_sleep, left>>,
         NEW t \in Tasks,
         \A u \in Tasks : u # t =>
           state'[u] = state[u] /\ pc'[u] = pc[u] /\ ticks'[u] = ticks[u],
         \/ state'[t] \in {"TO_BE_SUSPENDED", "SUSPENDED"} \/ pc'[t][1] = "sl_suspend"
         <=> \/ state[t] \in {"TO_BE_SUSPENDED", "SUSPENDED"} \/ pc[t][1] = "sl_suspend",
         pc'[t][1] = "sl_insert" => pc[t][1] = "sl_insert",
         pc'[t][1] = "sl_add" => ticks'[t] \in Delays[t],
         state'[t] = "SUSPENDED" => Len(pc'[t]) = 3,
         state'[t] = "SLEEP_RESUME" => state[t] = "SLEEP_RESUME"
  PROVE  SleepInvariant'
<1>1. \A u \in Tasks : Head(pc[u]) = pc[u][1] /\ pc[u][1] \in Labels
  BY TopOfStack DEF KernelInvariant, StackOK
<1>2. \A u \in Tasks : Head(pc'[u]) = pc'[u][1] /\ pc'[u][1] \in Labels
  BY TopOfStack DEF KernelInvariant, StackOK
<1>3. \A u \in Tasks : Sleeping(u)' <=> Sleeping(u)
  BY <1>1, <1>2 DEF Sleeping
<1>4. SleepListExact'
  BY <1>3 DEF SleepInvariant, SleepListExact
<1>5. SleepListSorted'
  BY DEF SleepInvariant, SleepListSorted
<1>6. NeverEarly'
  BY DEF SleepInvariant, NeverEarly
<1>7. SleeperStacks'
  BY DEF SleepInvariant, SleeperStacks
<1>8. \A u \in Tasks : Timed(u)' => Timed(u)
  <2>1. "sc_insert" \notin Labels
    BY DEF Labels
  <2> QED  BY <1>1, <1>2, <2>1 DEF Timed
<1>9. \A u \in Tasks : Timed(u)' => DeadlineOK(u)'
  BY <1>8 DEF SleepInvariant, DeadlineOK
<1> QED  BY <1>4, <1>5, <1>6, <1>7, <1>9 DEF SleepInvariant

(* No task becomes overdue, and who was about to be switched out still is. *)
LEMMA StillDue ==
  ASSUME KernelInvariant, NeverForgotten, mode = "task",
         UNCHANGED <<sleep_task_list, left>>,
         \A u \in Tasks : state'[u] = "SUSPENDED" => state[u] = "SUSPENDED",
         SwitchDue => SwitchDue'
  PROVE  NeverForgotten'
<1>1. Overdue' => Overdue
  BY SleepersAreTasks DEF Overdue
<1> QED  BY <1>1 DEF NeverForgotten

(* A step of the running task t from program point a to b, in a call that  *)
(* is not about its sleep.                                                 *)
LEMMA CallSleep ==
  ASSUME KernelInvariant, KernelInvariant', SleepInvariant,
         NEW t \in Tasks, mode = "task", current_task = t,
         UNCHANGED <<sleep_task_list, current_tick, tick_sleep, left, ticks, state>>,
         \A u \in Tasks : u # t => pc'[u] = pc[u],
         pc[t][1] # "sl_suspend",
         pc'[t][1] \notin {"sl_add", "sl_insert", "sl_suspend"},
         Len(pc[t]) = 3 => Len(pc'[t]) = 3 \/ state[t] = "RUNNING",
         mode' = "task" => current_task' = t /\ (SwitchDue => SwitchDue')
  PROVE  SleepInvariant'
<1>1. NeverForgotten'
  <2>1. CASE mode' = "task"
    BY <2>1, StillDue DEF SleepInvariant
  <2>2. CASE mode' # "task"
    BY <2>2 DEF NeverForgotten
  <2> QED  BY <2>1, <2>2
<1>2. state[t] = "SUSPENDED" => Len(pc'[t]) = 3
  BY DEF SleepInvariant, SleeperStacks
<1> QED  BY <1>1, <1>2, SleepersUnchanged

----------------------------------------------------------------------------
(* Switches.                                                               *)

(* Once sleep_walk finds nobody to resume, nobody is overdue: the list is  *)
(* in the order of the deadlines, so whoever is before a due task is due.  *)
LEMMA NothingOverdue ==
  ASSUME KernelInvariant, SleepInvariant, ~ SomeToResume
  PROVE  ~ Overdue
<1> DEFINE list == sleep_task_list
           Due(i) == state[list[i]] = "SUSPENDED" /\ left[list[i]] <= 0
           D == {i \in 1 .. Len(list) : Due(i)}
<1>1. list \in Seq(Tasks) /\ Len(list) \in Nat /\ left \in [Tasks -> Int]
  BY DEF KernelInvariant, TypeOK, StateTypeOK
<1> SUFFICES ASSUME Overdue
             PROVE  FALSE
  OBVIOUS
<1>2. PICK i \in D : \A j \in D : i <= j
  <2>1. D \subseteq Nat
    OBVIOUS
  <2>2. D # {}
    <3>1. PICK t \in ToSet(list) : state[t] = "SUSPENDED" /\ left[t] <= 0
      BY DEF Overdue
    <3>2. PICK k \in 1 .. Len(list) : list[k] = t
      BY <1>1, ToSetMember
    <3> QED  BY <3>1, <3>2
  <2> HIDE DEF D
  <2> QED  BY <2>1, <2>2, LeastElement
<1>3. ASSUME NEW j \in 1 .. i
      PROVE  Expired(list[j])
  <2>1. j \in 1 .. Len(list) /\ i \in 1 .. Len(list) /\ Due(i)
    BY <1>1, <1>2
  <2>2. list[j] \in Tasks /\ list[i] \in Tasks
    BY <1>1, <2>1, ElementOfSeq
  <2>3. left[list[j]] <= 0
    <3>1. CASE j = i
      BY <2>1, <3>1
    <3>2. CASE j < i
      <4>1. left[list[j]] <= left[list[i]]
        BY <2>1, <3>2 DEF SleepInvariant, SleepListSorted
      <4> QED  BY <1>1, <2>1, <2>2, <4>1
    <3> QED  BY <2>1, <3>1, <3>2
  <2>4. DeadlineOK(list[j])
    <3>1. list[j] \in ToSet(list)
      BY <1>1, <2>1, ToSetMember
    <3> QED  BY <2>2, <3>1 DEF SleepInvariant, Timed
  <2>5. INT32CMP(current_tick, tick_sleep[list[j]]) = - left[list[j]]
    BY <2>2, <2>4, CmpNow
  <2> QED  BY <1>1, <2>2, <2>3, <2>5 DEF Expired
<1>4. ASSUME NEW j \in 1 .. i - 1
      PROVE  state[list[j]] # "SUSPENDED"
  <2>1. j \in 1 .. Len(list) /\ j \in 1 .. i /\ i \in 1 .. Len(list) /\ Due(i) /\ j < i
    BY <1>1, <1>2
  <2>2. j \notin D
    BY <1>2, <2>1
  <2>3. list[j] \in Tasks /\ list[i] \in Tasks
    BY <1>1, <2>1, ElementOfSeq
  <2>4. left[list[j]] <= left[list[i]]
    BY <2>1 DEF SleepInvariant, SleepListSorted
  <2>5. left[list[j]] <= 0
    BY <1>1, <2>1, <2>3, <2>4
  <2> QED  BY <2>1, <2>2, <2>5
<1>5. sleep_walk(i)
  BY <1>2, <1>3, <1>4 DEF sleep_walk
<1> QED  BY <1>2, <1>5 DEF SomeToResume

(* A task becomes ready that was finished: BootAdd and scheduler_task_add. *)
LEMMA AddSleep ==
  ASSUME KernelInvariant, KernelInvariant', SleepInvariant,
         NEW t \in Tasks, state[t] = "FINISHED", YieldSystem(t),
         UNCHANGED <<lock_count, drift, pc, sleep_task_list, timeVars, current_task,
                     pend_sv, mode>>
  PROVE  SleepInvariant'
<1>1. \A u \in Tasks : state'[u] = IF u = t THEN "RESUME" ELSE state[u]
  BY DEF KernelInvariant, TypeOK, StateTypeOK, YieldSystem
<1>2. NeverForgotten'
  <2>1. SwitchDue => SwitchDue'
    BY DEF SwitchDue
  <2>2. CASE mode = "task"
    BY <1>1, <2>1, <2>2, StillDue DEF SleepInvariant, timeVars
  <2>3. CASE mode # "task"
    BY <2>3 DEF NeverForgotten
  <2> QED  BY <2>2, <2>3
<1>3. pc'[t][1] = "sl_add" => ticks'[t] \in Delays[t]
  BY DEF SleepInvariant, SleeperStacks, timeVars
<1> QED  BY <1>1, <1>2, <1>3, SleepersUnchanged DEF timeVars

(* The first ready task gets the CPU.                                      *)
LEMMA SwitchSleep ==
  ASSUME KernelInvariant, KernelInvariant', SleepInvariant, ~ SomeToResume, SwitchToNext,
         UNCHANGED <<resume_from, lock_count, drift, pc, level, sleep_task_list,
                     timeVars, pend_sv>>
  PROVE  SleepInvariant'
<1>1. \A u \in Tasks : pc'[u][1] = "sl_add" => ticks'[u] \in Delays[u]
  BY DEF SleepInvariant, SleeperStacks, timeVars
<1>2. CASE sch_ready_task_list = <<>>
  <2>1. mode' = "assert" /\ UNCHANGED state
    BY <1>2 DEF SwitchToNext, Halt
  <2>2. NeverForgotten'
    BY <2>1 DEF NeverForgotten
  <2>3. Idle \in Tasks
    BY TaskAssumption
  <2>4. state[Idle] = "SUSPENDED" => Len(pc[Idle]) = 3
    BY <2>3 DEF SleepInvariant, SleeperStacks
  <2> QED  BY <1>1, <2>1, <2>2, <2>3, <2>4, SleepersUnchanged DEF timeVars
<1>3. CASE sch_ready_task_list # <<>>
  <2>1. PICK h : /\ h = Head(sch_ready_task_list)
                 /\ state' = [state EXCEPT ![h] = "RUNNING"]
    BY <1>3 DEF SwitchToNext
  <2>2. h \in Tasks /\ Ready(h)
    <3>1. h \in Tasks /\ h \in ToSet(sch_ready_task_list)
      BY <1>3, <2>1, TailMembers DEF KernelInvariant, ReadyListExact, TypeOK, StateTypeOK
    <3> QED  BY <3>1 DEF KernelInvariant, ReadyListExact
  <2>3. \A u \in Tasks : state'[u] = IF u = h THEN "RUNNING" ELSE state[u]
    BY <2>1, <2>2 DEF KernelInvariant, TypeOK, StateTypeOK
  <2>4. ~ Overdue'
    <3>1. Overdue' => Overdue
      BY <2>3, SleepersAreTasks DEF Overdue, timeVars
    <3> QED  BY <3>1, NothingOverdue
  <2>5. NeverForgotten'
    BY <2>4 DEF NeverForgotten
  <2>6. state[h] \notin {"TO_BE_SUSPENDED", "SUSPENDED"}
    BY <2>2 DEF Ready
  <2> QED  BY <1>1, <2>2, <2>3, <2>5, <2>6, SleepersUnchanged DEF timeVars
<1> QED  BY <1>2, <1>3

(* PendSV saves the current task.                                          *)
LEMMA SaveSleep ==
  ASSUME KernelInvariant, KernelInvariant', SleepInvariant, SaveCurrent
  PROVE  SleepInvariant'
<1>1. /\ mode = "task" /\ mode' = "pendsv" /\ current_task \in Tasks
      /\ UNCHANGED <<pc, sleep_task_list, timeVars>>
  BY DEF KernelInvariant, CurrentOK, SaveCurrent
<1>2. NeverForgotten'
  BY <1>1 DEF NeverForgotten
<1>3. pc'[current_task][1] = "sl_add" => ticks'[current_task] \in Delays[current_task]
  BY <1>1 DEF SleepInvariant, SleeperStacks, timeVars
<1>4. PICK st : /\ \A u \in Tasks : state'[u] = IF u = current_task THEN st ELSE state[u]
                /\ \/ state[current_task] = "RUNNING" /\ st = "RESUME"
                   \/ state[current_task] = "TO_BE_SUSPENDED" /\ st = "SUSPENDED"
                   \/ state[current_task] = "FINISHED" /\ st = state[current_task]
  <2>1. state \in [Tasks -> States]
    BY DEF KernelInvariant, TypeOK, StateTypeOK
  <2>2. state[current_task] \in {"RUNNING", "TO_BE_SUSPENDED", "FINISHED"}
    BY <1>1 DEF KernelInvariant, CurrentOK
  <2>3. CASE state[current_task] = "RUNNING"
    <3>1. state' = [state EXCEPT ![current_task] = "RESUME"]
      BY <2>3 DEF SaveCurrent, YieldSystem
    <3> QED  BY <1>1, <2>1, <2>3, <3>1
  <2>4. CASE state[current_task] = "TO_BE_SUSPENDED"
    <3>1. state' = [state EXCEPT ![current_task] = "SUSPENDED"]
      BY <2>4 DEF SaveCurrent
    <3> QED  BY <1>1, <2>1, <2>4, <3>1
  <2>5. CASE state[current_task] = "FINISHED"
    <3>1. state' = state
      BY <2>5 DEF SaveCurrent
    <3> QED  BY <1>1, <2>5, <3>1
  <2> QED  BY <2>2, <2>3, <2>4, <2>5
<1>5. state'[current_task] = "SUSPENDED" => Len(pc'[current_task]) = 3
  BY <1>1, <1>4 DEF KernelInvariant, CurrentOK
<1> QED  BY <1>1, <1>2, <1>3, <1>4, <1>5, SleepersUnchanged DEF timeVars

----------------------------------------------------------------------------
(* The tick.                                                               *)

(* What changes in a tick.                                                 *)
LEMMA TickChanges ==
  ASSUME KernelInvariant, isr_sysclock_handle
  PROVE  /\ mode = "task" /\ current_task \in Tasks
         /\ UNCHANGED <<state, lock_count, pc, sleep_task_list, tick_sleep, ticks, current_task>>
         /\ \A u \in Tasks : Timed(u)' <=> Timed(u)
         /\ \A u \in Tasks : left'[u] = IF Timed(u) THEN left[u] - 1 ELSE left[u]
         /\ \A u \in Tasks : left[u] \in Int /\ left'[u] \in Int
         /\ \A u \in Tasks : Timed(u) => left[u] > - MaxLate
<1>1. /\ mode = "task" /\ current_task \in Tasks
      /\ UNCHANGED <<state, lock_count, pc, sleep_task_list, tick_sleep, ticks, current_task>>
  BY DEF KernelInvariant, CurrentOK, isr_sysclock_handle, lists
<1>2. \A u \in Tasks : Timed(u)' <=> Timed(u)
  BY <1>1 DEF Timed
<1>3. left' = [u \in Tasks |-> IF Timed(u) THEN left[u] - 1 ELSE left[u]]
  BY DEF isr_sysclock_handle
<1>4. \A u \in Tasks : left[u] \in Int
  BY DEF KernelInvariant, TypeOK, StateTypeOK
<1> QED  BY <1>1, <1>2, <1>3, <1>4 DEF isr_sysclock_handle

(* A tick that makes a sleep due has the handler see it: the first of the  *)
(* list is due too.                                                        *)
LEMMA TickTriggers ==
  ASSUME KernelInvariant, SleepInvariant, isr_sysclock_handle, Overdue'
  PROVE  Triggers(current_tick')
<1> DEFINE list == sleep_task_list
<1>1. list \in Seq(Tasks)
  BY DEF KernelInvariant, TypeOK, StateTypeOK
<1>2. PICK t \in ToSet(list) : left'[t] <= 0
  BY TickChanges DEF Overdue
<1>3. PICK k \in 1 .. Len(list) : list[k] = t
  BY <1>1, <1>2, ToSetMember
<1>4. /\ list # <<>> /\ 1 \in 1 .. Len(list) /\ Head(list) = list[1]
      /\ list[1] \in Tasks /\ t \in Tasks /\ list[1] \in ToSet(list)
  <2>1. Len(list) \in Nat /\ Len(list) >= 1 /\ 1 \in 1 .. Len(list)
    BY <1>1, <1>3
  <2>2. list[1] \in Tasks /\ t \in Tasks
    BY <1>1, <1>3, <2>1, ElementOfSeq
  <2>3. list[1] \in ToSet(list)
    BY <1>1, <2>1, ToSetMember
  <2> QED  BY <1>1, <2>1, <2>2, <2>3
<1>5. Timed(t) /\ Timed(list[1])
  BY <1>2, <1>4 DEF Timed
<1>6. left[list[1]] <= left[t]
  <2>1. CASE k = 1
    BY <1>3, <1>4, <2>1, TickChanges
  <2>2. CASE 1 < k
    BY <1>3, <1>4, <2>2 DEF SleepInvariant, SleepListSorted
  <2> QED  BY <1>3, <2>1, <2>2
<1>7. left[list[1]] \in Int /\ left[list[1]] <= 1
  BY <1>2, <1>4, <1>5, <1>6, TickChanges
<1>8. INT32CMP((current_tick + 1) % TickRange, tick_sleep[list[1]]) = 1 - left[list[1]]
  BY <1>4, <1>5, CmpNow DEF SleepInvariant
<1>9. current_tick' = (current_tick + 1) % TickRange
  BY DEF isr_sysclock_handle
<1> QED  BY <1>4, <1>7, <1>8, <1>9 DEF Triggers

LEMMA TickSleep ==
  ASSUME KernelInvariant, KernelInvariant', SleepInvariant, isr_sysclock_handle
  PROVE  SleepInvariant'
<1>1. SleepListExact'
  BY TickChanges DEF SleepInvariant, SleepListExact, Sleeping
<1>2. SleeperStacks'
  BY TickChanges DEF SleepInvariant, SleeperStacks
<1>3. NeverEarly'
  <2>1. \A u \in Tasks : left'[u] <= left[u]
    BY TickChanges
  <2> QED  BY <2>1, TickChanges DEF SleepInvariant, NeverEarly
<1>4. SleepListSorted'
  <2>1. sleep_task_list \in Seq(Tasks) /\ sleep_task_list' = sleep_task_list
    BY TickChanges DEF KernelInvariant, TypeOK, StateTypeOK
  <2>2. ASSUME NEW i \in 1 .. Len(sleep_task_list)
        PROVE  /\ sleep_task_list[i] \in Tasks
               /\ left[sleep_task_list[i]] \in Int
               /\ left'[sleep_task_list[i]] = left[sleep_task_list[i]] - 1
    <3>1. sleep_task_list[i] \in Tasks /\ sleep_task_list[i] \in ToSet(sleep_task_list)
      BY <2>1, ElementOfSeq, ToSetMember
    <3>2. Timed(sleep_task_list[i])
      BY <3>1 DEF Timed
    <3> QED  BY <3>1, <3>2, TickChanges
  <2> QED  BY <2>1, <2>2 DEF SleepInvariant, SleepListSorted
<1>5. ASSUME NEW u \in Tasks, Timed(u)'
      PROVE  DeadlineOK(u)'
  <2>1. Timed(u) /\ left'[u] = left[u] - 1 /\ left[u] \in Int /\ left[u] > - MaxLate
        /\ tick_sleep'[u] = tick_sleep[u]
    BY <1>5, TickChanges
  <2>2. tick_sleep[u] = (current_tick + left[u]) % TickRange
    BY <2>1 DEF SleepInvariant, DeadlineOK
  <2>3. current_tick' = (current_tick + 1) % TickRange
    BY DEF isr_sysclock_handle
  <2>4. TickRange \in Nat \ {0} /\ current_tick \in Int /\ MaxLate \in Nat
        /\ \A d \in Delays[u] : d \in Int
    BY TickAssumption DEF KernelInvariant, TypeOK, StateTypeOK
  <2>5. (current_tick + left[u]) % TickRange
          = (((current_tick + 1) % TickRange) + (left[u] - 1)) % TickRange
    BY <2>1, <2>4, NextTickDeadline
  <2>6. tick_sleep'[u] = (current_tick' + left'[u]) % TickRange
    BY <2>1, <2>2, <2>3, <2>5
  <2>7. left'[u] >= - MaxLate
    BY <2>1, <2>4
  <2>8. \E d \in Delays[u] : left'[u] <= d
    <3>1. PICK d \in Delays[u] : left[u] <= d
      BY <2>1 DEF SleepInvariant, DeadlineOK
    <3>2. left'[u] <= d
      BY <2>1, <2>4, <3>1
    <3> QED  BY <3>2
  <2> QED  BY <2>6, <2>7, <2>8 DEF DeadlineOK
<1>6. NeverForgotten'
  <2> SUFFICES ASSUME mode' = "task", Overdue'
               PROVE  SwitchDue'
    BY DEF NeverForgotten
  <2>1. Triggers(current_tick')
    BY TickTriggers
  <2>2. Preempt
    BY <2>1 DEF isr_sysclock_handle
  <2>3. lock_count[current_task] \in Nat /\ drift \in [Tasks -> BOOLEAN]
    <3>1. MaxLock \in Nat /\ lock_count \in [Tasks -> 0 .. MaxLock]
          /\ drift \in [Tasks -> BOOLEAN]
      BY LockAssumption DEF KernelInvariant, TypeOK, StateTypeOK
    <3> QED  BY <3>1, TickChanges
  <2>4. CASE lock_count[current_task] = 0
    <3>1. pend_sv' = TRUE
      BY <2>2, <2>4 DEF Preempt, Halt
    <3> QED  BY <3>1 DEF SwitchDue
  <2>5. CASE lock_count[current_task] # 0
    <3>1. drift' = [drift EXCEPT ![current_task] = TRUE]
      BY <2>2, <2>5 DEF Preempt
    <3>2. drift'[current_task'] /\ lock_count'[current_task'] > 0
      BY <2>3, <2>5, <3>1, TickChanges
    <3> QED  BY <3>2 DEF SwitchDue
  <2> QED  BY <2>4, <2>5
<1> QED  BY <1>1, <1>2, <1>3, <1>4, <1>5, <1>6 DEF SleepInvariant

(* A sleep ends.                                                           *)
LEMMA WakeSleep ==
  ASSUME KernelInvariant, KernelInvariant', SleepInvariant, sleep_process_system_tick
  PROVE  SleepInvariant'
<1> DEFINE list == sleep_task_list
<1>1. PICK i \in 1 .. Len(list) :
        /\ sleep_walk(i)
        /\ sleep_task_list' = RemoveAt(list, i)
        /\ tick_sleep' = [tick_sleep EXCEPT ![list[i]] = 0]
        /\ state' = [state EXCEPT ![list[i]] = "SLEEP_RESUME"]
        /\ left' = [left EXCEPT ![list[i]] = IF @ > 0 THEN @ ELSE 0]
  BY DEF sleep_process_system_tick
<1>2. mode' = "pendsv" /\ UNCHANGED <<pc, ticks, current_tick>>
  BY DEF sleep_process_system_tick, cpuVars
<1>3. /\ list \in Seq(Tasks) /\ left \in [Tasks -> Int] /\ state \in [Tasks -> States]
      /\ tick_sleep \in [Tasks -> 0 .. TickRange - 1]
      /\ NoDuplicates(list)
  BY DEF KernelInvariant, TypeOK, StateTypeOK, SleepInvariant, SleepListExact
<1>4. PICK t \in Tasks : t = list[i] /\ t \in ToSet(list)
  BY <1>3, ElementOfSeq, ToSetMember
<1>5. state[t] = "SUSPENDED" /\ Expired(t)
  <2>1. i \in 1 .. i
    BY <1>1
  <2> QED  BY <1>1, <1>4, <2>1 DEF sleep_walk
<1>6. pc[t][1] \in {"pend", "back"}
  <2>1. Len(pc[t]) = 3 /\ StackShape(pc[t])
    BY <1>5 DEF SleepInvariant, SleeperStacks, KernelInvariant, StackOK
  <2> QED  BY <2>1 DEF StackShape
<1>7. left[t] <= 0
  <2>1. DeadlineOK(t)
    BY <1>4 DEF SleepInvariant, Timed
  <2>2. INT32CMP(current_tick, tick_sleep[t]) = - left[t]
    BY <2>1, CmpNow
  <2> QED  BY <1>3, <1>5, <2>2 DEF Expired
<1>8. /\ NoDuplicates(sleep_task_list')
      /\ ToSet(sleep_task_list') = ToSet(list) \ {t}
  BY <1>1, <1>3, <1>4, RemoveAtMembers
<1>9. \A u \in Tasks : /\ state'[u] = IF u = t THEN "SLEEP_RESUME" ELSE state[u]
                       /\ u # t => left'[u] = left[u] /\ tick_sleep'[u] = tick_sleep[u]
                       /\ u = t => left'[u] = 0
  BY <1>1, <1>3, <1>4, <1>7
<1>10. \A u \in Tasks : /\ Head(pc[u]) = pc[u][1] /\ pc[u][1] \in Labels
                        /\ pc'[u] = pc[u]
  BY <1>2, TopOfStack DEF KernelInvariant, StackOK
<1>11. SleepListExact'
  <2>1. \A u \in Tasks : Sleeping(u)' <=> u \in ToSet(sleep_task_list')
    <3> TAKE u \in Tasks
    <3>1. CASE u = t
      BY <1>6, <1>8, <1>9, <1>10, <3>1 DEF Sleeping
    <3>2. CASE u # t
      BY <1>8, <1>9, <1>10, <3>2 DEF Sleeping, SleepInvariant, SleepListExact
    <3> QED  BY <3>1, <3>2
  <2> QED  BY <1>8, <2>1 DEF SleepListExact
<1>12. SleepListSorted'
  <2>1. PICK new : new = sleep_task_list'
    OBVIOUS
  <2>2. \A k, j \in 1 .. Len(new) : k < j => left[new[k]] <= left[new[j]]
    <3>1. \A k, j \in 1 .. Len(list) : k < j => left[list[k]] <= left[list[j]]
      BY DEF SleepInvariant, SleepListSorted
    <3>2. new = RemoveAt(list, i)
      BY <1>1, <2>1
    <3> QED  BY <1>3, <3>1, <3>2, RemoveAtSorted
  <2>3. \A k \in 1 .. Len(new) : left'[new[k]] = left[new[k]]
    <3> TAKE k \in 1 .. Len(new)
    <3>1. new \in Seq(Tasks)
      BY <2>1 DEF KernelInvariant, TypeOK, StateTypeOK
    <3>2. new[k] \in Tasks /\ new[k] \in ToSet(new)
      BY <3>1, ElementOfSeq, ToSetMember
    <3>3. new[k] # t
      BY <1>8, <2>1, <3>2
    <3> QED  BY <1>9, <3>2, <3>3
  <2> QED  BY <2>1, <2>2, <2>3 DEF SleepListSorted
<1>13. NeverEarly'
  BY <1>9 DEF SleepInvariant, NeverEarly
<1>14. NeverForgotten'
  BY <1>2 DEF NeverForgotten
<1>15. SleeperStacks'
  BY <1>2, <1>9 DEF SleepInvariant, SleeperStacks
<1>16. ASSUME NEW u \in Tasks, Timed(u)'
       PROVE  DeadlineOK(u)'
  <2>1. u # t /\ Timed(u)
    BY <1>6, <1>8, <1>10, <1>16 DEF Timed
  <2> QED  BY <1>2, <1>9, <2>1 DEF SleepInvariant, DeadlineOK
<1> QED  BY <1>11, <1>12, <1>13, <1>14, <1>15, <1>16 DEF SleepInvariant

----------------------------------------------------------------------------
(* The timed wait.                                                         *)

(* The innermost program points before and after a step.                   *)
LEMMA Tops ==
  ASSUME KernelInvariant, KernelInvariant', NEW t \in Tasks
  PROVE  /\ Timed(t) <=> t \in ToSet(sleep_task_list) \/ pc[t][1] = "sl_insert"
         /\ Timed(t)' <=> t \in ToSet(sleep_task_list') \/ pc'[t][1] = "sl_insert"
         /\ Sleeping(t) <=> \/ state[t] \in {"TO_BE_SUSPENDED", "SUSPENDED"}
                            \/ pc[t][1] = "sl_suspend"
         /\ Sleeping(t)' <=> \/ state'[t] \in {"TO_BE_SUSPENDED", "SUSPENDED"}
                             \/ pc'[t][1] = "sl_suspend"
         /\ Head(pc[t]) = pc[t][1] /\ Head(pc'[t]) = pc'[t][1]
<1>1. Head(pc[t]) = pc[t][1] /\ pc[t][1] \in Labels
  BY TopOfStack DEF KernelInvariant, StackOK
<1>2. Head(pc'[t]) = pc'[t][1] /\ pc'[t][1] \in Labels
  BY TopOfStack DEF KernelInvariant, StackOK
<1>3. "sc_insert" \notin Labels
  BY DEF Labels
<1> QED  BY <1>1, <1>2, <1>3 DEF Timed, Sleeping

(* sleep_add_to_list computes the deadline; the tick may come before the   *)
(* task is on the list.                                                    *)
LEMMA SleepAddSleep ==
  ASSUME KernelInvariant, KernelInvariant', SleepInvariant, NEW t \in Tasks, SleepAdd(t)
  PROVE  SleepInvariant'
<1>1. /\ mode = "task" /\ current_task = t /\ pc[t][1] = "sl_add" /\ state[t] = "RUNNING"
  BY AtFacts DEF SleepAdd
<1>2. /\ tick_sleep' = [tick_sleep EXCEPT ![t] = (current_tick + ticks[t]) % TickRange]
      /\ left' = [left EXCEPT ![t] = ticks[t]]
      /\ UNCHANGED <<state, lock_count, drift, sleep_task_list, current_tick, ticks,
                     current_task, pend_sv, mode>>
  BY DEF SleepAdd, sleep_add_to_list, lists, cpuVars
<1>3. PICK a \in Labels : a = "sl_insert"
  BY DEF Labels
<1>4. pc'[t][1] = "sl_insert" /\ \A u \in Tasks : u # t => pc'[u] = pc[u]
  BY <1>3, StepTop DEF SleepAdd
<1>5. t \notin ToSet(sleep_task_list)
  BY <1>1, TimedTop DEF SleepInvariant, SleepListExact
<1>6. /\ \A u \in Tasks : u # t => left'[u] = left[u] /\ tick_sleep'[u] = tick_sleep[u]
      /\ left'[t] = ticks[t] /\ tick_sleep'[t] = (current_tick + ticks[t]) % TickRange
  BY <1>2 DEF KernelInvariant, TypeOK, StateTypeOK
<1>7. SleepListExact'
  <2>1. \A u \in Tasks : Sleeping(u)' <=> Sleeping(u)
    <3> TAKE u \in Tasks
    <3>1. CASE u = t
      BY <1>1, <1>2, <1>4, <3>1, Tops
    <3>2. CASE u # t
      BY <1>2, <1>4, <3>2 DEF Sleeping
    <3> QED  BY <3>1, <3>2
  <2> QED  BY <1>2, <2>1 DEF SleepInvariant, SleepListExact
<1>8. SleepListSorted'
  <2>1. \A i \in 1 .. Len(sleep_task_list) :
          left'[sleep_task_list[i]] = left[sleep_task_list[i]]
    <3> TAKE i \in 1 .. Len(sleep_task_list)
    <3>1. sleep_task_list \in Seq(Tasks)
      BY DEF KernelInvariant, TypeOK, StateTypeOK
    <3>2. sleep_task_list[i] \in Tasks /\ sleep_task_list[i] \in ToSet(sleep_task_list)
      BY <3>1, ElementOfSeq, ToSetMember
    <3> QED  BY <1>5, <1>6, <3>2
  <2> QED  BY <1>2, <2>1 DEF SleepInvariant, SleepListSorted
<1>9. NeverEarly'
  BY <1>1, <1>2, <1>6 DEF SleepInvariant, NeverEarly
<1>10. NeverForgotten'
  <2>1. Overdue' => Overdue
    BY <1>2, <1>5, <1>6, SleepersAreTasks DEF Overdue
  <2>2. SwitchDue => SwitchDue'
    BY <1>1, <1>2, Tops DEF SwitchDue
  <2> QED  BY <1>1, <2>1, <2>2 DEF SleepInvariant, NeverForgotten
<1>11. SleeperStacks'
  <2> SUFFICES ASSUME NEW u \in Tasks
               PROVE  /\ pc'[u][1] = "sl_add" => ticks'[u] \in Delays[u]
                      /\ state'[u] = "SUSPENDED" => Len(pc'[u]) = 3
    BY DEF SleeperStacks
  <2>1. CASE u = t
    BY <1>1, <1>2, <1>4, <2>1
  <2>2. CASE u # t
    BY <1>2, <1>4, <2>2 DEF SleepInvariant, SleeperStacks
  <2> QED  BY <2>1, <2>2
<1>12. ASSUME NEW u \in Tasks, Timed(u)'
       PROVE  DeadlineOK(u)'
  <2>1. CASE u = t
    <3>1. ticks[t] \in Delays[t] /\ ticks[t] \in Nat /\ MaxLate \in Nat
      BY <1>1, TickAssumption DEF SleepInvariant, SleeperStacks
    <3>2. ticks[t] >= - MaxLate /\ ticks[t] <= ticks[t]
      BY <3>1
    <3> QED  BY <1>2, <1>6, <2>1, <3>1, <3>2 DEF DeadlineOK
  <2>2. CASE u # t
    <3>1. Timed(u)
      BY <1>2, <1>4, <1>12, <2>2 DEF Timed
    <3> QED  BY <1>2, <1>6, <2>2, <3>1 DEF SleepInvariant, DeadlineOK
  <2> QED  BY <2>1, <2>2
<1> QED  BY <1>7, <1>8, <1>9, <1>10, <1>11, <1>12 DEF SleepInvariant

(* The task joins the sleep list before those with a later deadline.       *)
LEMMA SleepInsertSleep ==
  ASSUME KernelInvariant, KernelInvariant', SleepInvariant, NEW t \in Tasks, SleepInsert(t)
  PROVE  SleepInvariant'
<1> DEFINE list == sleep_task_list
<1>1. /\ mode = "task" /\ current_task = t /\ pc[t][1] = "sl_insert" /\ state[t] = "RUNNING"
  BY AtFacts DEF SleepInsert
<1>2. UNCHANGED <<state, lock_count, drift, timeVars, current_task, pend_sv, mode>>
  BY DEF SleepInsert, cpuVars
<1>3. PICK later : /\ later = sleep_task_sort(list, t)
                   /\ sleep_task_list' = sll_insert(list, t, later)
  BY DEF SleepInsert, SleepInserted
<1>4. PICK a \in Labels : a = "sl_suspend"
  BY DEF Labels
<1>5. pc'[t][1] = "sl_suspend" /\ \A u \in Tasks : u # t => pc'[u] = pc[u]
  BY <1>4, StepTop DEF SleepInsert
<1>6. t \notin ToSet(list) /\ list \in Seq(Tasks) /\ NoDuplicates(list)
      /\ left \in [Tasks -> Int]
  BY <1>1, TimedTop DEF SleepInvariant, SleepListExact, KernelInvariant, TypeOK, StateTypeOK
<1>7. ToSet(sleep_task_list') = ToSet(list) \cup {t} /\ NoDuplicates(sleep_task_list')
  BY <1>3, <1>6, SllInsertMembers
<1>8. SleepListExact'
  <2>1. \A u \in Tasks : Sleeping(u)' <=> u \in ToSet(sleep_task_list')
    <3> TAKE u \in Tasks
    <3>1. CASE u = t
      BY <1>5, <1>7, <3>1, Tops
    <3>2. CASE u # t
      <4>1. Sleeping(u)' <=> Sleeping(u)
        BY <1>2, <1>5, <3>2 DEF Sleeping
      <4> QED  BY <1>7, <3>2, <4>1 DEF SleepInvariant, SleepListExact
    <3> QED  BY <3>1, <3>2
  <2> QED  BY <1>7, <2>1 DEF SleepListExact
<1>9. ASSUME NEW n \in ToSet(list)
      PROVE  IF n \in later THEN left[t] <= left[n] ELSE left[n] <= left[t]
  <2>1. n \in Tasks /\ DeadlineOK(n) /\ DeadlineOK(t)
    BY <1>1, SleepersAreTasks, TimedTop DEF SleepInvariant
  <2>2. /\ INT32CMP(tick_sleep[n], tick_sleep[t]) = left[n] - left[t]
        /\ INT32CMP(tick_sleep[t], tick_sleep[t]) = left[t] - left[t]
    BY <2>1, CmpDeadlines
  <2>3. left[n] \in Int /\ left[t] \in Int
    BY <1>6, <2>1
  <2>4. n \in later <=> \/ left[n] - left[t] > 0
                        \/ tick_sleep[n] = tick_sleep[t] /\ Priority[n] > Priority[t]
    BY <1>3, <2>2 DEF sleep_task_sort
  <2>5. tick_sleep[n] = tick_sleep[t] => left[n] = left[t]
    BY <2>2, <2>3
  <2> QED  BY <2>3, <2>4, <2>5
<1>10. SleepListSorted'
  <2>1. \A i, j \in 1 .. Len(list) : i < j => left[list[i]] <= left[list[j]]
    BY DEF SleepInvariant, SleepListSorted
  <2>2. PICK new : new = sleep_task_list' /\ new = sll_insert(list, t, later)
    BY <1>3
  <2>3. \A i, j \in 1 .. Len(new) : i < j => left[new[i]] <= left[new[j]]
    BY <1>6, <1>9, <2>1, <2>2, SllInsertSorted
  <2> QED  BY <1>2, <2>2, <2>3 DEF SleepListSorted, timeVars
<1>11. NeverEarly'
  BY <1>2 DEF SleepInvariant, NeverEarly, timeVars
<1>12. NeverForgotten'
  <2>1. Overdue' => Overdue
    BY <1>1, <1>2, <1>7 DEF Overdue, timeVars
  <2>2. SwitchDue => SwitchDue'
    BY <1>1, <1>2, Tops DEF SwitchDue
  <2> QED  BY <1>1, <2>1, <2>2 DEF SleepInvariant, NeverForgotten
<1>13. SleeperStacks'
  <2> SUFFICES ASSUME NEW u \in Tasks
               PROVE  /\ pc'[u][1] = "sl_add" => ticks'[u] \in Delays[u]
                      /\ state'[u] = "SUSPENDED" => Len(pc'[u]) = 3
    BY DEF SleeperStacks
  <2>1. CASE u = t
    BY <1>1, <1>2, <1>5, <2>1
  <2>2. CASE u # t
    BY <1>2, <1>5, <2>2 DEF SleepInvariant, SleeperStacks, timeVars
  <2> QED  BY <2>1, <2>2
<1>14. ASSUME NEW u \in Tasks, Timed(u)'
       PROVE  DeadlineOK(u)'
  <2>1. Timed(u)
    <3>1. CASE u = t
      BY <1>1, <3>1, TimedTop
    <3>2. CASE u # t
      BY <1>5, <1>7, <1>14, <3>2 DEF Timed
    <3> QED  BY <3>1, <3>2
  <2> QED  BY <1>2, <2>1 DEF SleepInvariant, DeadlineOK, timeVars
<1> QED  BY <1>8, <1>10, <1>11, <1>12, <1>13, <1>14 DEF SleepInvariant

(* The task suspends: it is about to be switched out.                      *)
LEMMA SleepSuspendSleep ==
  ASSUME KernelInvariant, KernelInvariant', SleepInvariant, NEW t \in Tasks, SleepSuspend(t)
  PROVE  SleepInvariant'
<1>1. /\ mode = "task" /\ current_task = t /\ pc[t][1] = "sl_suspend" /\ state[t] = "RUNNING"
      /\ StackShape(pc[t])
  BY AtFacts DEF SleepSuspend
<1>2. /\ state' = [state EXCEPT ![t] = "TO_BE_SUSPENDED"]
      /\ ticks' = [ticks EXCEPT ![t] = 0]
      /\ UNCHANGED <<sleep_task_list, current_tick, tick_sleep, left, current_task, mode>>
  BY DEF SleepSuspend, lists
<1>3. PICK l : l = <<"pend", "unlock">>
  OBVIOUS
<1>4. StackShape(l \o Tail(pc[t])) /\ (l \o Tail(pc[t]))[1] = "pend"
  <2>1. PICK s : s = pc[t] /\ StackShape(s) /\ s[1] = "sl_suspend"
    BY <1>1
  <2>2. PICK r : r = <<"pend", "unlock">> \o Tail(s)
    OBVIOUS
  <2>3. StackShape(r) /\ r[1] = "pend"
    BY <2>1, <2>2, SuspendShape
  <2> QED  BY <1>3, <2>1, <2>2, <2>3
<1>5. Go(t, l)
  BY <1>3 DEF SleepSuspend
<1>6. pc'[t][1] = "pend" /\ \A u \in Tasks : u # t => pc'[u] = pc[u]
  <2>1. pc'[t] = l \o Tail(pc[t]) /\ \A u \in Tasks : u # t => pc'[u] = pc[u]
    BY <1>4, <1>5, GoFacts
  <2> QED  BY <1>4, <2>1, Zenon
<1>7. /\ state'[t] = "TO_BE_SUSPENDED"
      /\ \A u \in Tasks : u # t => state'[u] = state[u] /\ ticks'[u] = ticks[u]
  BY <1>2 DEF KernelInvariant, TypeOK, StateTypeOK
<1>8. NeverForgotten'
  <2>1. SwitchDue'
    BY <1>1, <1>2, <1>6, Tops DEF SwitchDue
  <2> QED  BY <2>1 DEF NeverForgotten
<1> QED  BY <1>1, <1>2, <1>6, <1>7, <1>8, SleepersUnchanged

----------------------------------------------------------------------------
(* The other calls.                                                        *)

LEMMA LocksAndDrift ==
  ASSUME KernelInvariant
  PROVE  /\ \A t \in Tasks : lock_count[t] \in Nat
         /\ lock_count \in [Tasks -> 0 .. MaxLock] /\ drift \in [Tasks -> BOOLEAN]
BY LockAssumption DEF KernelInvariant, TypeOK, StateTypeOK

(* When the task that runs is about to be switched out.                    *)
LEMMA DueTop ==
  ASSUME KernelInvariant, KernelInvariant', NEW t \in Tasks, current_task = t,
         current_task' = t
  PROVE  /\ SwitchDue <=> \/ pend_sv
                          \/ lock_count[t] > 0 /\ drift[t]
                          \/ pc[t][1] = "drift" /\ drift[t]
                          \/ pc[t][1] = "pend"
         /\ SwitchDue' <=> \/ pend_sv'
                           \/ lock_count'[t] > 0 /\ drift'[t]
                           \/ pc'[t][1] = "drift" /\ drift'[t]
                           \/ pc'[t][1] = "pend"
BY Tops DEF SwitchDue

LEMMA PendSleep ==
  ASSUME KernelInvariant, KernelInvariant', SleepInvariant, NEW t \in Tasks, PEND_SV(t)
  PROVE  SleepInvariant'
<1>1. /\ mode = "task" /\ current_task = t /\ StackShape(pc[t]) /\ pc[t][1] = "pend"
  BY AtFacts DEF PEND_SV
<1>2. /\ UNCHANGED <<state, sleep_task_list, timeVars, current_task, mode>>
      /\ pend_sv' = TRUE
  BY DEF PEND_SV, lists
<1>3. PICK b \in Labels \ {"user"} : b = "back"
  BY DEF Labels
<1>4. StackShape(<<b>> \o Tail(pc[t])) /\ (<<b>> \o Tail(pc[t]))[1] = b
      /\ Len(<<b>> \o Tail(pc[t])) = Len(pc[t])
  BY <1>1, <1>3, StepShape
<1>5. pc'[t] = <<b>> \o Tail(pc[t]) /\ \A u \in Tasks : u # t => pc'[u] = pc[u]
  <2>1. Go(t, <<b>>)
    BY <1>3 DEF PEND_SV
  <2> QED  BY <1>4, <2>1, GoFacts
<1>6. pc'[t][1] = "back" /\ Len(pc'[t]) = Len(pc[t])
  BY <1>3, <1>4, <1>5
<1>7. SwitchDue'
  BY <1>2 DEF SwitchDue
<1> QED  BY <1>1, <1>2, <1>5, <1>6, <1>7, CallSleep DEF timeVars

LEMMA RestoreSleep ==
  ASSUME KernelInvariant, KernelInvariant', SleepInvariant, NEW t \in Tasks, RestoreLevel(t)
  PROVE  SleepInvariant'
<1>1. /\ mode = "task" /\ current_task = t /\ pc[t][1] = "back" /\ state[t] = "RUNNING"
  BY AtFacts DEF RestoreLevel
<1>2. UNCHANGED <<state, lock_count, drift, sleep_task_list, timeVars, current_task,
                  pend_sv, mode>>
  BY DEF RestoreLevel, lists
<1>3. pc'[t][1] \in {"user", "unlock"} /\ \A u \in Tasks : u # t => pc'[u] = pc[u]
  BY <1>1, PopTop DEF RestoreLevel
<1>4. SwitchDue => SwitchDue'
  BY <1>1, <1>2, DueTop
<1> QED  BY <1>1, <1>2, <1>3, <1>4, CallSleep DEF timeVars

LEMMA LockSleep ==
  ASSUME KernelInvariant, KernelInvariant', SleepInvariant, NEW t \in Tasks, scheduler_lock(t)
  PROVE  SleepInvariant'
<1>1. /\ mode = "task" /\ current_task = t /\ pc[t][1] = "user" /\ state[t] = "RUNNING"
  BY AtFacts DEF scheduler_lock, InUser
<1>2. UNCHANGED <<state, drift, pc, sleep_task_list, timeVars, current_task, pend_sv>>
  BY DEF scheduler_lock, lists
<1>3. mode' = "task" => (SwitchDue => SwitchDue')
  <2> SUFFICES ASSUME mode' = "task"
               PROVE  SwitchDue => SwitchDue'
    OBVIOUS
  <2>1. lock_count' = [lock_count EXCEPT ![t] = @ + 1]
    BY DEF scheduler_lock, Halt
  <2>2. lock_count[t] \in Nat /\ lock_count'[t] = lock_count[t] + 1
    BY <2>1, LocksAndDrift
  <2> QED  BY <1>1, <1>2, <2>2, DueTop
<1> QED  BY <1>1, <1>2, <1>3, CallSleep DEF timeVars

LEMMA UserUnlockSleep ==
  ASSUME KernelInvariant, KernelInvariant', SleepInvariant, NEW t \in Tasks, UserUnlock(t)
  PROVE  SleepInvariant'
<1>1. /\ mode = "task" /\ current_task = t /\ pc[t][1] = "user" /\ state[t] = "RUNNING"
  BY AtFacts DEF UserUnlock, InUser
<1>2. UNCHANGED <<state, lock_count, drift, sleep_task_list, timeVars, current_task,
                  pend_sv, mode>>
  BY DEF UserUnlock, lists, cpuVars
<1>3. PICK a \in Labels \ {"user"} : a = "unlock"
  BY DEF Labels
<1>4. pc'[t][1] = "unlock" /\ \A u \in Tasks : u # t => pc'[u] = pc[u]
  <2>1. InUser(t) /\ Go(t, <<a, "user">>)
    BY <1>3 DEF UserUnlock
  <2>2. pc'[t][1] = a /\ \A u \in Tasks : u # t => pc'[u] = pc[u]
    BY <2>1, CallEnters
  <2> QED  BY <1>3, <2>2
<1>5. SwitchDue => SwitchDue'
  BY <1>1, <1>2, DueTop
<1> QED  BY <1>1, <1>2, <1>4, <1>5, CallSleep DEF timeVars

LEMMA UnlockSleep ==
  ASSUME KernelInvariant, KernelInvariant', SleepInvariant, NEW t \in Tasks,
         scheduler_unlock(t)
  PROVE  SleepInvariant'
<1>1. /\ mode = "task" /\ current_task = t /\ pc[t][1] = "unlock" /\ state[t] = "RUNNING"
  BY AtFacts DEF scheduler_unlock
<1>2. UNCHANGED <<state, drift, sleep_task_list, timeVars, current_task, pend_sv>>
  BY DEF scheduler_unlock, lists
<1>3. PICK a \in Labels : a = "drift"
  BY DEF Labels
<1>4. lock_count[t] \in Nat /\ lock_count[t] # 0
  BY <1>1, LocksAndDrift DEF OwesUnlock, KernelInvariant, LocksOK
<1>5. Go(t, <<a>>) /\ UNCHANGED mode
  BY <1>3, <1>4 DEF scheduler_unlock
<1>6. pc'[t][1] = "drift" /\ \A u \in Tasks : u # t => pc'[u] = pc[u]
  BY <1>3, <1>5, StepTop
<1>7. SwitchDue => SwitchDue'
  BY <1>1, <1>2, <1>6, DueTop
<1> QED  BY <1>1, <1>2, <1>6, <1>7, CallSleep DEF timeVars

LEMMA UnlockYieldSleep ==
  ASSUME KernelInvariant, KernelInvariant', SleepInvariant, NEW t \in Tasks, UnlockYield(t)
  PROVE  SleepInvariant'
<1>1. /\ mode = "task" /\ current_task = t /\ pc[t][1] = "drift" /\ state[t] = "RUNNING"
  BY AtFacts DEF UnlockYield
<1>2. UNCHANGED <<state, lock_count, sleep_task_list, timeVars, current_task, pend_sv, mode>>
  BY DEF UnlockYield, lists
<1>3. PICK a \in Labels : a = "pend"
  BY DEF Labels
<1>4. CASE lock_count[t] = 0 /\ drift[t]
  <2>1. Go(t, <<a>>)
    BY <1>3, <1>4 DEF UnlockYield
  <2>2. pc'[t][1] = "pend" /\ \A u \in Tasks : u # t => pc'[u] = pc[u]
    BY <1>3, <2>1, StepTop
  <2>3. SwitchDue'
    BY <1>1, <1>2, <2>2, DueTop
  <2> QED  BY <1>1, <1>2, <2>2, <2>3, CallSleep DEF timeVars
<1>5. CASE ~ (lock_count[t] = 0 /\ drift[t])
  <2>1. Go(t, <<>>) /\ UNCHANGED drift
    BY <1>5 DEF UnlockYield
  <2>2. pc'[t][1] \in {"user", "unlock"} /\ \A u \in Tasks : u # t => pc'[u] = pc[u]
    BY <1>1, <2>1, PopTop
  <2>3. drift[t] => lock_count[t] > 0
    BY <1>5, LocksAndDrift
  <2>4. SwitchDue => SwitchDue'
    BY <1>1, <1>2, <2>1, <2>3, DueTop
  <2> QED  BY <1>1, <1>2, <2>2, <2>4, CallSleep DEF timeVars
<1> QED  BY <1>4, <1>5

LEMMA YieldSleep ==
  ASSUME KernelInvariant, KernelInvariant', SleepInvariant, NEW t \in Tasks, task_yield(t)
  PROVE  SleepInvariant'
<1>1. /\ mode = "task" /\ current_task = t /\ pc[t][1] = "user" /\ state[t] = "RUNNING"
      /\ InUser(t)
  BY AtFacts DEF task_yield, InUser
<1>2. UNCHANGED <<state, lock_count, sleep_task_list, timeVars, current_task, pend_sv, mode>>
  BY DEF task_yield, lists
<1>3. CASE lock_count[t] = 0
  <2>1. PICK a \in Labels \ {"user"} : a = "pend"
    BY DEF Labels
  <2>2. Go(t, <<a, "user">>)
    BY <1>3, <2>1 DEF task_yield
  <2>3. pc'[t][1] = a /\ \A u \in Tasks : u # t => pc'[u] = pc[u]
    BY <1>1, <2>2, CallEnters
  <2>4. SwitchDue'
    BY <1>1, <1>2, <2>1, <2>3, DueTop
  <2> QED  BY <1>1, <1>2, <2>1, <2>3, <2>4, CallSleep DEF timeVars
<1>4. CASE lock_count[t] # 0
  <2>1. UNCHANGED pc /\ drift' = [drift EXCEPT ![t] = TRUE]
    BY <1>4 DEF task_yield
  <2>2. lock_count[t] \in Nat /\ drift'[t]
    BY <2>1, LocksAndDrift
  <2>3. SwitchDue'
    BY <1>1, <1>2, <1>4, <2>2, DueTop
  <2> QED  BY <1>1, <1>2, <2>1, <2>3, CallSleep DEF timeVars
<1> QED  BY <1>3, <1>4

LEMMA SleepTicksSleep ==
  ASSUME KernelInvariant, KernelInvariant', SleepInvariant, NEW t \in Tasks,
         NEW n \in Delays[t], sleep_ticks(t, n)
  PROVE  SleepInvariant'
<1>1. /\ mode = "task" /\ current_task = t /\ pc[t][1] = "user" /\ state[t] = "RUNNING"
      /\ InUser(t)
  BY AtFacts DEF sleep_ticks, InUser
<1>2. UNCHANGED <<state, drift, sleep_task_list, current_tick, tick_sleep, left,
                  current_task, pend_sv>>
  BY DEF sleep_ticks, lists
<1>3. CASE lock_count[t] >= MaxLock
  <2>1. mode' = "assert" /\ UNCHANGED <<pc, ticks>>
    BY <1>3 DEF sleep_ticks, Halt
  <2> QED  BY <1>1, <1>2, <2>1, CallSleep
<1>4. CASE ~ (lock_count[t] >= MaxLock)
  <2>1. /\ lock_count' = [lock_count EXCEPT ![t] = @ + 1]
        /\ ticks' = [ticks EXCEPT ![t] = n] /\ Go(t, <<"sl_add", "user">>)
        /\ UNCHANGED mode
    BY <1>4 DEF sleep_ticks
  <2>2. PICK a \in Labels \ {"user"} : a = "sl_add"
    BY DEF Labels
  <2>3. pc'[t][1] = a /\ \A u \in Tasks : u # t => pc'[u] = pc[u]
    BY <1>1, <2>1, <2>2, CallEnters
  <2>4. /\ ticks'[t] = n
        /\ \A u \in Tasks : u # t => ticks'[u] = ticks[u]
    BY <2>1 DEF KernelInvariant, TypeOK, StateTypeOK
  <2>5. lock_count[t] \in Nat /\ lock_count'[t] = lock_count[t] + 1
    BY <2>1, LocksAndDrift
  <2>6. SwitchDue => SwitchDue'
    BY <1>1, <1>2, <2>5, DueTop
  <2>7. NeverForgotten'
    BY <1>1, <1>2, <2>6, StillDue DEF SleepInvariant
  <2> QED  BY <1>1, <1>2, <2>2, <2>3, <2>4, <2>7, SleepersUnchanged
<1> QED  BY <1>3, <1>4

LEMMA EntryReturnSleep ==
  ASSUME KernelInvariant, KernelInvariant', SleepInvariant, NEW t \in Tasks,
         task_entry_return(t)
  PROVE  SleepInvariant'
<1>1. /\ mode = "task" /\ current_task = t /\ pc[t][1] = "user" /\ state[t] = "RUNNING"
      /\ InUser(t)
  BY AtFacts DEF task_entry_return, InUser
<1>2. /\ state' = [state EXCEPT ![t] = "FINISHED"]
      /\ UNCHANGED <<sleep_task_list, timeVars, current_task, mode>>
  BY DEF task_entry_return, lists
<1>3. PICK a \in Labels \ {"user"} : a = "pend"
  BY DEF Labels
<1>4. Go(t, <<a, "user">>)
  BY <1>3 DEF task_entry_return
<1>5. pc'[t][1] = a /\ \A u \in Tasks : u # t => pc'[u] = pc[u]
  BY <1>1, <1>4, CallEnters
<1>6. /\ state'[t] = "FINISHED"
      /\ \A u \in Tasks : u # t => state'[u] = state[u]
  BY <1>2 DEF KernelInvariant, TypeOK, StateTypeOK
<1>7. NeverForgotten'
  <2>1. SwitchDue'
    BY <1>1, <1>2, <1>3, <1>5, DueTop
  <2> QED  BY <2>1 DEF NeverForgotten
<1> QED  BY <1>1, <1>2, <1>3, <1>5, <1>6, <1>7, SleepersUnchanged DEF timeVars

----------------------------------------------------------------------------
(* The theorems.                                                           *)

LEMMA InitSleep == Init => SleepInvariant
<1> SUFFICES ASSUME Init
             PROVE  SleepInvariant
  OBVIOUS
<1>1. /\ sleep_task_list = <<>> /\ mode = "boot"
      /\ \A t \in Tasks : pc[t] = <<"user">> /\ state[t] \in {"RESUME", "FINISHED"}
  BY DEF Init
<1>2. \A t \in Tasks : Head(pc[t]) = "user" /\ pc[t][1] = "user"
  BY <1>1
<1>3. Len(sleep_task_list) = 0 /\ \A x : x \notin ToSet(sleep_task_list)
  BY <1>1 DEF ToSet
<1>4. SleepListExact
  <2>1. NoDuplicates(sleep_task_list)
    BY <1>3 DEF NoDuplicates
  <2> QED  BY <1>1, <1>2, <1>3, <2>1 DEF SleepListExact, Sleeping
<1>5. SleepListSorted
  BY <1>3 DEF SleepListSorted
<1>6. NeverEarly /\ NeverForgotten /\ SleeperStacks
  BY <1>1, <1>2 DEF NeverEarly, NeverForgotten, SleeperStacks
<1>7. \A t \in Tasks : ~ Timed(t)
  BY <1>2, <1>3 DEF Timed
<1> QED  BY <1>4, <1>5, <1>6, <1>7 DEF SleepInvariant

LEMMA NextSleep ==
  ASSUME KernelInvariant, SleepInvariant, [Next]_kernelVars
  PROVE  SleepInvariant'
<1>0. KernelInvariant'
  BY NextInvariant
<1>1. ASSUME NEW t \in Tasks, BootAdd(t)
      PROVE  SleepInvariant'
  BY <1>0, <1>1, AddSleep DEF BootAdd, cpuVars
<1>2. CASE run_first_task
  BY <1>0, <1>2, SwitchSleep DEF run_first_task
<1>3. CASE SaveCurrent
  BY <1>0, <1>3, SaveSleep
<1>4. CASE sleep_process_system_tick
  BY <1>0, <1>4, WakeSleep
<1>5. CASE LoadNext
  BY <1>0, <1>5, SwitchSleep DEF LoadNext
<1>6. CASE isr_sysclock_handle
  BY <1>0, <1>6, TickSleep
<1>7. UNCHANGED kernelVars => SleepInvariant'
  BY DEF kernelVars, lists, timeVars, cpuVars, SleepInvariant, SleepListExact, Sleeping,
         SleepListSorted, NeverEarly, NeverForgotten, Overdue, SwitchDue, SleeperStacks,
         Timed, DeadlineOK
<1>8. CASE system_assert \/ UNCHANGED kernelVars
  BY <1>7, <1>8 DEF system_assert
<1>9. ASSUME NEW t \in Tasks, KernelCall(t)
      PROVE  SleepInvariant'
  BY <1>0, <1>9, PendSleep, RestoreSleep, UnlockSleep, UnlockYieldSleep, SleepAddSleep,
     SleepInsertSleep, SleepSuspendSleep DEF KernelCall
<1>10. ASSUME NEW t \in Tasks, UserCall(t)
       PROVE  SleepInvariant'
  <2>1. CASE scheduler_lock(t) \/ UserUnlock(t) \/ task_yield(t) \/ task_entry_return(t)
    BY <1>0, <2>1, LockSleep, UserUnlockSleep, YieldSleep, EntryReturnSleep
  <2>2. ASSUME NEW n \in Delays[t], sleep_ticks(t, n)
        PROVE  SleepInvariant'
    BY <1>0, <2>2, SleepTicksSleep
  <2>3. ASSUME NEW new \in Tasks, scheduler_task_add(t, new)
        PROVE  SleepInvariant'
    BY <1>0, <2>3, AddSleep DEF scheduler_task_add, cpuVars
  <2> QED  BY <1>10, <2>1, <2>2, <2>3 DEF UserCall
<1> QED  BY <1>1, <1>2, <1>3, <1>4, <1>5, <1>6, <1>8, <1>9, <1>10 DEF Next, Boot, PendSV

(* The inductive invariant of sleeping holds in every reachable state.     *)
THEOREM SleepInvariantHolds == Spec => []SleepInvariant
<1>1. Init => SleepInvariant
  BY InitSleep
<1>2. KernelInvariant /\ SleepInvariant /\ [Next]_kernelVars => SleepInvariant'
  BY NextSleep
<1> QED  BY <1>1, <1>2, KernelInvariantHolds, PTL DEF Spec

(* The sleep list holds exactly the tasks inside sleep_ticks, each once:   *)
(* sleep_add_to_list and process_system_tick never lose a sleeper, enqueue *)
(* one twice or leave one behind.                                          *)
THEOREM SleepListCorrect == Spec => []SleepListExact
<1>1. SleepInvariant => SleepListExact
  BY DEF SleepInvariant
<1> QED  BY <1>1, SleepInvariantHolds, PTL

(* The sleep list stays in the order of the deadlines, wherever the tick   *)
(* counter wraps between them.                                             *)
THEOREM SleepListInOrder == Spec => []SleepListSorted
<1>1. SleepInvariant => SleepListSorted
  BY DEF SleepInvariant
<1> QED  BY <1>1, SleepInvariantHolds, PTL

(* No task is resumed from sleep before the ticks it asked for are over.   *)
THEOREM SleepNeverEarly == Spec => []NeverEarly
<1>1. SleepInvariant => NeverEarly
  BY DEF SleepInvariant
<1> QED  BY <1>1, SleepInvariantHolds, PTL

(* While a due task is still suspended, a switch is pending or bound to    *)
(* come with the unlock: a tick that finds the scheduler locked is not     *)
(* forgotten.                                                              *)
THEOREM SleepNeverForgotten == Spec => []NeverForgotten
<1>1. SleepInvariant => NeverForgotten
  BY DEF SleepInvariant
<1> QED  BY <1>1, SleepInvariantHolds, PTL
============================================================================
