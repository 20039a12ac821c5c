--------------------------- MODULE SemaphoreControl ---------------------------
(***************************************************************************)
(* What every step of Semaphore leaves of the control of the tasks: their  *)
(* stacks of program points, their scheduler locks and the task that has   *)
(* the CPU.  SemaphoreProofs builds on it.                                 *)
(***************************************************************************)
EXTENDS Semaphore, KernelProofs

----------------------------------------------------------------------------
(* The stack of program points.                                            *)

(* Which program points can be below a given one.                          *)
LEMMA AboveFacts ==
  ASSUME NEW a, NEW b, a \in Above(b)
  PROVE  /\ a \in AllLabels \ {"user"}
         /\ b \in {"user", "unlock", "sd_clear", "so_take", "sc_done", "rc_yield",
                   "sc_woke", "rc_back"}
         /\ b = "user" => a \in (Labels \ {"user"}) \cup SemaphoreLabels
         /\ b = "unlock" => a \in {"pend", "back"} \cup ResumeLabels
         /\ b = "sd_clear" => a \in ResumeLabels
         /\ b = "so_take" => a \in ConditionLabels \ ResumeLabels
         /\ b = "sc_done" => a \in {"unlock", "drift"}
         /\ b = "rc_yield" => a \in {"unlock", "drift", "pend", "back"}
         /\ b \in {"sc_woke", "rc_back"} => a \in {"pend", "back"}
BY DEF Above, AllLabels, Labels, ConditionLabels, SemaphoreLabels, ResumeLabels

(* The points of a stack s, padded with "user" to four.                    *)
PointOf(s, i) == IF i <= Len(s) THEN s[i] ELSE "user"

LEMMA StackPoints ==
  ASSUME NEW s, CallStack(s)
  PROVE  /\ s \in Seq(AllLabels) /\ Len(s) \in 1 .. 4 /\ Head(s) = PointOf(s, 1)
         /\ PointOf(s, 4) = "user"
         /\ PointOf(s, 3) # "user" => PointOf(s, 3) \in Above("user")
         /\ PointOf(s, 2) # "user" => PointOf(s, 2) \in Above(PointOf(s, 3))
         /\ PointOf(s, 1) # "user" => PointOf(s, 1) \in Above(PointOf(s, 2))
         /\ PointOf(s, 2) = "user" => PointOf(s, 3) = "user"
         /\ PointOf(s, 1) = "user" => PointOf(s, 2) = "user"
         /\ PointOf(s, 1) = "user" <=> Len(s) = 1
         /\ PointOf(s, 2) = "user" <=> Len(s) <= 2
         /\ PointOf(s, 3) = "user" <=> Len(s) <= 3
<1>1. PICK n \in 1 .. 4 : /\ n = Len(s) /\ s \in Seq(AllLabels) /\ s[n] = "user"
                          /\ \A i \in 1 .. n - 1 : s[i] \in Above(s[i + 1])
  BY DEF CallStack
<1>2. \A i \in 1 .. n - 1 : s[i] # "user"
  BY <1>1, AboveFacts
<1>3. Head(s) = s[1]
  BY <1>1
<1>4. CASE n = 1
  BY <1>1, <1>3, <1>4 DEF PointOf
<1>5. CASE n = 2
  <2>1. s[1] \in Above("user") /\ s[1] # "user" /\ s[2] = "user"
    BY <1>1, <1>2, <1>5
  <2> QED  BY <1>1, <1>3, <1>5, <2>1 DEF PointOf
<1>6. CASE n = 3
  <2>1. /\ s[1] \in Above(s[2]) /\ s[1] # "user"
        /\ s[2] \in Above("user") /\ s[2] # "user" /\ s[3] = "user"
    BY <1>1, <1>2, <1>6
  <2> QED  BY <1>1, <1>3, <1>6, <2>1 DEF PointOf
<1>7. CASE n = 4
  <2>1. /\ s[1] \in Above(s[2]) /\ s[1] # "user"
        /\ s[2] \in Above(s[3]) /\ s[2] # "user"
        /\ s[3] \in Above("user") /\ s[3] # "user" /\ s[4] = "user"
    BY <1>1, <1>2, <1>7
  <2> QED  BY <1>1, <1>3, <1>7, <2>1 DEF PointOf
<1> QED  BY <1>1, <1>4, <1>5, <1>6, <1>7

(* A function returns.                                                     *)
LEMMA StackPop ==
  ASSUME NEW s, CallStack(s), PointOf(s, 1) # "user", NEW r, r = <<>> \o Tail(s)
  PROVE  /\ CallStack(r)
         /\ PointOf(r, 1) = PointOf(s, 2) /\ PointOf(r, 2) = PointOf(s, 3)
         /\ PointOf(r, 3) = "user"
<1>1. PICK n \in 1 .. 4 : /\ n = Len(s) /\ s \in Seq(AllLabels) /\ s[n] = "user"
                          /\ \A i \in 1 .. n - 1 : s[i] \in Above(s[i + 1])
  BY DEF CallStack
<1>2. n >= 2
  BY <1>1 DEF PointOf
<1> DEFINE l == <<>>
<1>3. l \in Seq(AllLabels) /\ Len(l) = 0
  OBVIOUS
<1>4. r = l \o Tail(s)
  OBVIOUS
<1> HIDE DEF l
<1>5. /\ r \in Seq(AllLabels) /\ Len(r) = n - 1
      /\ \A i \in 2 .. n : r[i - 1] = s[i]
  BY <1>1, <1>2, <1>3, <1>4, ReplaceHead
<1>6. \A i \in 1 .. n - 1 : r[i] = s[i + 1]
  BY <1>5
<1>7. CallStack(r)
  BY <1>1, <1>2, <1>5, <1>6 DEF CallStack
<1> QED  BY <1>1, <1>2, <1>5, <1>6, <1>7 DEF PointOf

Stepped(s, a)   == <<a>> \o Tail(s)
Pushed(s, a, b) == <<a, b>> \o Tail(s)

(* A function goes on.                                                     *)
LEMMA StackStep ==
  ASSUME NEW s, CallStack(s), PointOf(s, 1) # "user", NEW a, a \in Above(PointOf(s, 2)),
         NEW r, r = Stepped(s, a)
  PROVE  /\ CallStack(r)
         /\ PointOf(r, 1) = a /\ PointOf(r, 2) = PointOf(s, 2)
         /\ PointOf(r, 3) = PointOf(s, 3)
<1>1. PICK n \in 1 .. 4 : /\ n = Len(s) /\ s \in Seq(AllLabels) /\ s[n] = "user"
                          /\ \A i \in 1 .. n - 1 : s[i] \in Above(s[i + 1])
  BY DEF CallStack
<1>2. n >= 2 /\ a \in Above(s[2])
  BY <1>1 DEF PointOf
<1>3. a \in AllLabels
  BY AboveFacts
<1>4. /\ r \in Seq(AllLabels) /\ Len(r) = n /\ r[1] = a
      /\ \A i \in 2 .. n : r[i] = s[i]
  BY <1>1, <1>2, <1>3, ReplaceByOne DEF Stepped
<1>5. CallStack(r)
  BY <1>1, <1>2, <1>4 DEF CallStack
<1> QED  BY <1>1, <1>2, <1>4, <1>5 DEF PointOf

(* A function calls another one and will go on at b.                       *)
LEMMA StackPush ==
  ASSUME NEW s, CallStack(s), PointOf(s, 1) # "user", PointOf(s, 3) = "user",
         NEW a, NEW b, b \in Above(PointOf(s, 2)), a \in Above(b),
         NEW r, r = Pushed(s, a, b)
  PROVE  /\ CallStack(r)
         /\ PointOf(r, 1) = a /\ PointOf(r, 2) = b /\ PointOf(r, 3) = PointOf(s, 2)
<1>1. PICK n \in 1 .. 4 : /\ n = Len(s) /\ s \in Seq(AllLabels) /\ s[n] = "user"
                          /\ \A i \in 1 .. n - 1 : s[i] \in Above(s[i + 1])
  BY DEF CallStack
<1>2. n >= 2 /\ n <= 3 /\ b \in Above(s[2])
  <2>1. n <= 3
    BY <1>1, StackPoints
  <2> QED  BY <1>1, <2>1 DEF PointOf
<1>3. a \in AllLabels /\ b \in AllLabels
  BY AboveFacts
<1>4. PICK l \in Seq(AllLabels) : Len(l) = 2 /\ l[1] = a /\ l[2] = b /\ r = l \o Tail(s)
  <2>1. PICK l : l = <<a, b>>
    OBVIOUS
  <2>2. r = l \o Tail(s)
    BY <2>1 DEF Pushed
  <2>3. l \in Seq(AllLabels) /\ Len(l) = 2 /\ l[1] = a /\ l[2] = b
    BY <1>3, <2>1, PairSeq
  <2> QED  BY <2>2, <2>3, Zenon
<1>5. /\ r \in Seq(AllLabels) /\ Len(r) = n + 1 /\ r[1] = a /\ r[2] = b
      /\ \A i \in 2 .. n : r[i + 1] = s[i]
  <2>1. s \in Seq(AllLabels) /\ Len(s) >= 1
    BY <1>1, <1>2
  <2>2. l \in Seq(AllLabels) /\ Len(l) = 2 /\ r = l \o Tail(s)
    BY <1>4
  <2>3. /\ l \o Tail(s) \in Seq(AllLabels)
        /\ Len(l \o Tail(s)) = Len(l) + Len(s) - 1
        /\ \A i \in 1 .. Len(l) : (l \o Tail(s))[i] = l[i]
        /\ \A i \in 2 .. Len(s) : (l \o Tail(s))[Len(l) + i - 1] = s[i]
    BY <2>1, ReplaceHead
  <2>4. /\ r \in Seq(AllLabels) /\ Len(r) = n + 1 /\ r[1] = a /\ r[2] = b
        /\ \A i \in 2 .. n : r[2 + i - 1] = s[i]
    BY <1>1, <1>4, <2>2, <2>3
  <2> QED  BY <2>4
<1>6. r[3] = s[2] /\ (n = 3 => r[4] = s[3])
  BY <1>2, <1>5
<1>7. CallStack(r)
  <2>1. CASE n = 2
    BY <1>1, <1>2, <1>5, <1>6, <2>1 DEF CallStack
  <2>2. CASE n = 3
    BY <1>1, <1>2, <1>5, <1>6, <2>2 DEF CallStack
  <2> QED  BY <1>1, <1>2, <2>1, <2>2
<1> QED  BY <1>1, <1>2, <1>5, <1>6, <1>7 DEF PointOf

LEMMA StackOfTwo ==
  ASSUME NEW S, NEW s \in Seq(S), Len(s) >= 1, NEW a \in S, NEW b \in S,
         NEW r, r = <<a, b>> \o Tail(s)
  PROVE  r \in Seq(S) /\ Len(r) = Len(s) + 1 /\ r[1] = a /\ r[2] = b
<1>1. PICK l \in Seq(S) : Len(l) = 2 /\ l[1] = a /\ l[2] = b /\ r = l \o Tail(s)
  BY PairSeq
<1> QED  BY <1>1, ReplaceByTwo

(* The application calls a function.                                       *)
LEMMA StackCall ==
  ASSUME NEW s, CallStack(s), PointOf(s, 1) = "user", NEW a \in Above("user"),
         NEW r, r = <<a, "user">> \o Tail(s)
  PROVE  /\ CallStack(r)
         /\ PointOf(r, 1) = a /\ PointOf(r, 2) = "user" /\ PointOf(r, 3) = "user"
<1>1. PICK b : b = "user"
  OBVIOUS
<1>2. r = <<a, b>> \o Tail(s)
  BY <1>1
<1>3. s \in Seq(AllLabels) /\ Len(s) = 1
  BY StackPoints
<1>4. a \in AllLabels /\ b \in AllLabels
  BY <1>1, AboveFacts DEF AllLabels, Labels
<1>5. /\ r \in Seq(AllLabels) /\ Len(r) = 2 /\ r[1] = a /\ r[2] = b
  <2>1. s \in Seq(AllLabels) /\ Len(s) >= 1
    BY <1>3
  <2>2. r \in Seq(AllLabels) /\ Len(r) = Len(s) + 1 /\ r[1] = a /\ r[2] = b
    BY <1>2, <1>4, <2>1, StackOfTwo
  <2> QED  BY <1>3, <2>2
<1>6. CallStack(r)
  BY <1>1, <1>5 DEF CallStack
<1>7. PointOf(r, 1) = a /\ PointOf(r, 2) = b
  BY <1>5 DEF PointOf
<1>8. PointOf(r, 3) = "user"
  BY <1>5 DEF PointOf
<1> QED  BY <1>1, <1>6, <1>7, <1>8

(* semaphore_destroy calls resume_condition with interrupts disabled.      *)
LEMMA StackOfThree ==
  ASSUME NEW S, NEW s \in Seq(S), Len(s) >= 1, NEW a \in S, NEW b \in S, NEW c \in S,
         NEW r, r = <<a, b, c>> \o Tail(s)
  PROVE  r \in Seq(S) /\ Len(r) = Len(s) + 2 /\ r[1] = a /\ r[2] = b /\ r[3] = c
<1>1. PICK l : l = <<a, b, c>>
  OBVIOUS
<1>2. l \in Seq(S) /\ Len(l) = 3 /\ l[1] = a /\ l[2] = b /\ l[3] = c
  BY <1>1
<1>3. PICK q : q = l \o Tail(s)
  OBVIOUS
<1>4. /\ q \in Seq(S) /\ Len(q) = Len(l) + Len(s) - 1
      /\ \A i \in 1 .. Len(l) : q[i] = l[i]
  <2>1. /\ l \o Tail(s) \in Seq(S) /\ Len(l \o Tail(s)) = Len(l) + Len(s) - 1
        /\ \A i \in 1 .. Len(l) : (l \o Tail(s))[i] = l[i]
    <3>1. l \in Seq(S)
      BY <1>2
    <3> QED  BY <3>1, ReplaceHead
  <2> QED  BY <1>3, <2>1
<1>5. q = r
  BY <1>1, <1>3
<1>6. Len(s) \in Nat
  OBVIOUS
<1>7. r \in Seq(S) /\ Len(r) = Len(s) + 2
  BY <1>2, <1>4, <1>5, <1>6
<1>8. r[1] = a /\ r[2] = b /\ r[3] = c
  BY <1>2, <1>4, <1>5
<1> QED  BY <1>7, <1>8

LEMMA StackDestroy ==
  ASSUME NEW s, CallStack(s), PointOf(s, 1) = "user",
         NEW r, r = <<"rc_lock", "sd_clear", "user">> \o Tail(s)
  PROVE  /\ CallStack(r)
         /\ PointOf(r, 1) = "rc_lock" /\ PointOf(r, 2) = "sd_clear" /\ PointOf(r, 3) = "user"
<1>1. s \in Seq(AllLabels) /\ Len(s) = 1
  BY StackPoints
<1>2. PICK a \in AllLabels, b \in AllLabels, c \in AllLabels :
         a = "rc_lock" /\ b = "sd_clear" /\ c = "user"
  BY DEF AllLabels, Labels, ConditionLabels, SemaphoreLabels
<1>3. r = <<a, b, c>> \o Tail(s)
  BY <1>2
<1>4. r \in Seq(AllLabels) /\ Len(r) = 3 /\ r[1] = a /\ r[2] = b /\ r[3] = c
  <2>1. s \in Seq(AllLabels) /\ Len(s) >= 1
    BY <1>1
  <2>2. r \in Seq(AllLabels) /\ Len(r) = Len(s) + 2 /\ r[1] = a /\ r[2] = b /\ r[3] = c
    BY <1>3, <2>1, StackOfThree
  <2> QED  BY <1>1, <2>2
<1>5. a \in Above(b) /\ b \in Above(c)
  BY <1>2 DEF Above, ResumeLabels, SemaphoreLabels
<1>6. CallStack(r)
  BY <1>2, <1>4, <1>5 DEF CallStack
<1> QED  BY <1>2, <1>4, <1>6 DEF PointOf

(* The stacks there are, by their three topmost points.                    *)
SuspendLabels == ConditionLabels \ ResumeLabels

StackForm(p1, p2, p3) ==
  \/ p1 = "user" /\ p2 = "user" /\ p3 = "user"
  \/ p1 \in (Labels \ {"user"}) \cup SemaphoreLabels /\ p2 = "user" /\ p3 = "user"
  \/ p1 \in {"pend", "back"} /\ p2 = "unlock" /\ p3 = "user"
  \/ p1 \in ResumeLabels /\ p2 \in {"unlock", "sd_clear"} /\ p3 = "user"
  \/ p1 \in SuspendLabels /\ p2 = "so_take" /\ p3 = "user"
  \/ p1 \in {"pend", "back"} /\ p2 = "sc_woke" /\ p3 = "so_take"
  \/ p1 \in {"unlock", "drift"} /\ p2 = "sc_done" /\ p3 = "so_take"
  \/ /\ p1 \in {"unlock", "drift", "pend", "back"}
     /\ p2 = "rc_yield" /\ p3 \in {"unlock", "sd_clear"}
  \/ p1 \in {"pend", "back"} /\ p2 = "rc_back" /\ p3 \in {"unlock", "sd_clear"}

LEMMA StackForms ==
  ASSUME NEW p1, NEW p2, NEW p3,
         p3 # "user" => p3 \in Above("user"),
         p2 # "user" => p2 \in Above(p3),
         p1 # "user" => p1 \in Above(p2),
         p2 = "user" => p3 = "user", p1 = "user" => p2 = "user"
  PROVE  StackForm(p1, p2, p3)
<1>1. CASE p1 = "user"
  BY <1>1 DEF StackForm
<1>2. CASE p1 # "user" /\ p2 = "user"
  BY <1>2, AboveFacts DEF StackForm
<1>3. CASE p2 # "user" /\ p3 = "user"
  <2>1. p2 \in (Labels \ {"user"}) \cup SemaphoreLabels /\ p1 \in Above(p2)
    BY <1>3, AboveFacts
  <2>2. p2 \in {"unlock", "sd_clear", "so_take", "sc_done", "rc_yield", "sc_woke", "rc_back"}
    BY <1>3, <2>1, AboveFacts
  <2>3. p2 \in {"unlock", "sd_clear", "so_take"}
    BY <2>1, <2>2 DEF Labels, SemaphoreLabels
  <2>4. CASE p2 = "unlock"
    <3>1. p1 \in {"pend", "back"} \cup ResumeLabels
      BY <2>1, <2>4, AboveFacts
    <3> QED  BY <1>3, <2>4, <3>1 DEF StackForm
  <2>5. CASE p2 = "sd_clear"
    <3>1. p1 \in ResumeLabels
      BY <2>1, <2>5, AboveFacts
    <3> QED  BY <1>3, <2>5, <3>1 DEF StackForm
  <2>6. CASE p2 = "so_take"
    <3>1. p1 \in SuspendLabels
      BY <2>1, <2>6, AboveFacts DEF SuspendLabels
    <3> QED  BY <1>3, <2>6, <3>1 DEF StackForm
  <2> QED  BY <2>3, <2>4, <2>5, <2>6
<1>4. CASE p3 # "user"
  <2>1. /\ p3 \in (Labels \ {"user"}) \cup SemaphoreLabels
        /\ p2 # "user" /\ p1 # "user" /\ p2 \in Above(p3) /\ p1 \in Above(p2)
    BY <1>4, AboveFacts
  <2>2. p3 \in {"unlock", "sd_clear", "so_take"}
    <3>1. p3 \in {"unlock", "sd_clear", "so_take", "sc_done", "rc_yield", "sc_woke", "rc_back"}
      BY <1>4, <2>1, AboveFacts
    <3> QED  BY <2>1, <3>1 DEF Labels, SemaphoreLabels
  <2>3. p2 \in {"unlock", "sd_clear", "so_take", "sc_done", "rc_yield", "sc_woke", "rc_back"}
    BY <2>1, AboveFacts
  <2>4. CASE p3 \in {"unlock", "sd_clear"}
    <3>1. p2 \in {"pend", "back"} \cup ResumeLabels
      BY <2>1, <2>4, AboveFacts
    <3>2. p2 \in {"rc_yield", "rc_back"}
      BY <2>3, <3>1 DEF ResumeLabels
    <3>3. /\ p2 = "rc_yield" => p1 \in {"unlock", "drift", "pend", "back"}
          /\ p2 = "rc_back" => p1 \in {"pend", "back"}
      BY <2>1, AboveFacts
    <3> QED  BY <2>4, <3>2, <3>3 DEF StackForm
  <2>5. CASE p3 = "so_take"
    <3>1. p2 \in ConditionLabels \ ResumeLabels
      BY <2>1, <2>5, AboveFacts
    <3>2. p2 \in {"sc_done", "sc_woke"}
      BY <2>3, <3>1 DEF ResumeLabels, ConditionLabels
    <3>3. /\ p2 = "sc_done" => p1 \in {"unlock", "drift"}
          /\ p2 = "sc_woke" => p1 \in {"pend", "back"}
      BY <2>1, AboveFacts
    <3> QED  BY <2>5, <3>2, <3>3 DEF StackForm
  <2> QED  BY <2>2, <2>4, <2>5
<1> QED  BY <1>1, <1>2, <1>3, <1>4

----------------------------------------------------------------------------
(* The points of a task.                                                   *)

Stacks == pc \in [Tasks -> Seq(AllLabels)] /\ \A t \in Tasks : CallStack(pc[t])

LEMMA PointIs ==
  ASSUME NEW t, NEW i
  PROVE  Point(t, i) = PointOf(pc[t], i)
BY DEF Point, PointOf

LEMMA TaskStack ==
  ASSUME Stacks, NEW t \in Tasks
  PROVE  /\ StackForm(Point(t, 1), Point(t, 2), Point(t, 3))
         /\ Head(pc[t]) = Point(t, 1)
<1>1. CallStack(pc[t])
  BY DEF Stacks
<1> QED  BY <1>1, StackPoints, StackForms, PointIs

(* Only the stack of t changes, to one with the given points.              *)
NewStack(t, a, b, c) ==
  /\ Stacks'
  /\ Point(t, 1)' = a /\ Point(t, 2)' = b /\ Point(t, 3)' = c
  /\ \A u \in Tasks : u # t =>
       /\ Point(u, 1)' = Point(u, 1) /\ Point(u, 2)' = Point(u, 2)
       /\ Point(u, 3)' = Point(u, 3)

LEMMA GoAnywhere ==
  ASSUME Stacks, NEW t \in Tasks, NEW r, CallStack(r),
         pc' = [pc EXCEPT ![t] = r]
  PROVE  NewStack(t, PointOf(r, 1), PointOf(r, 2), PointOf(r, 3))
<1> HIDE DEF CallStack
<1>1. pc \in [Tasks -> Seq(AllLabels)] /\ r \in Seq(AllLabels)
  BY StackPoints DEF Stacks
<1>3. pc' \in [Tasks -> Seq(AllLabels)] /\ pc'[t] = r /\ \A u \in Tasks : u # t => pc'[u] = pc[u]
  BY <1>1
<1>4. \A u \in Tasks : CallStack(pc'[u])
  BY <1>3 DEF Stacks
<1>5. Stacks'
  BY <1>3, <1>4 DEF Stacks
<1>6. Point(t, 1)' = PointOf(r, 1) /\ Point(t, 2)' = PointOf(r, 2) /\ Point(t, 3)' = PointOf(r, 3)
  BY <1>3 DEF Point, PointOf
<1>7. ASSUME NEW u \in Tasks, u # t
      PROVE  /\ Point(u, 1)' = Point(u, 1) /\ Point(u, 2)' = Point(u, 2)
             /\ Point(u, 3)' = Point(u, 3)
  BY <1>3, <1>7 DEF Point
<1> QED  BY <1>5, <1>6, <1>7 DEF NewStack

LEMMA GoPop ==
  ASSUME Stacks, NEW t \in Tasks, Point(t, 1) # "user", Go(t, <<>>)
  PROVE  NewStack(t, Point(t, 2), Point(t, 3), "user")
<1>1. PICK r : r = <<>> \o Tail(pc[t])
  OBVIOUS
<1>2. pc' = [pc EXCEPT ![t] = r]
  BY <1>1, Zenon DEF Go
<1>4. CallStack(pc[t]) /\ PointOf(pc[t], 1) # "user"
  BY PointIs DEF Stacks
<1>5. /\ CallStack(r) /\ PointOf(r, 1) = PointOf(pc[t], 2)
      /\ PointOf(r, 2) = PointOf(pc[t], 3) /\ PointOf(r, 3) = "user"
  BY <1>1, <1>4, StackPop
<1>6. NewStack(t, PointOf(r, 1), PointOf(r, 2), PointOf(r, 3))
  BY <1>2, <1>5, GoAnywhere
<1> QED  BY <1>5, <1>6, PointIs

LEMMA GoStep ==
  ASSUME Stacks, NEW t \in Tasks, Point(t, 1) # "user",
         NEW a, a \in Above(Point(t, 2)), Go(t, <<a>>)
  PROVE  NewStack(t, a, Point(t, 2), Point(t, 3))
<1>1. PICK r : r = Stepped(pc[t], a)
  OBVIOUS
<1>2. pc' = [pc EXCEPT ![t] = r]
  BY <1>1 DEF Go, Stepped
<1>4. /\ CallStack(pc[t]) /\ PointOf(pc[t], 1) # "user"
      /\ a \in Above(PointOf(pc[t], 2))
  BY PointIs DEF Stacks
<1>5. /\ CallStack(r) /\ PointOf(r, 1) = a
      /\ PointOf(r, 2) = PointOf(pc[t], 2) /\ PointOf(r, 3) = PointOf(pc[t], 3)
  BY <1>1, <1>4, StackStep
<1>6. NewStack(t, PointOf(r, 1), PointOf(r, 2), PointOf(r, 3))
  BY <1>2, <1>5, GoAnywhere
<1> QED  BY <1>5, <1>6, PointIs

LEMMA GoPush ==
  ASSUME Stacks, NEW t \in Tasks, Point(t, 1) # "user", Point(t, 3) = "user",
         NEW a, NEW b, b \in Above(Point(t, 2)), a \in Above(b), Go(t, <<a, b>>)
  PROVE  NewStack(t, a, b, Point(t, 2))
<1>1. PICK r : r = Pushed(pc[t], a, b)
  OBVIOUS
<1>2. pc' = [pc EXCEPT ![t] = r]
  BY <1>1 DEF Go, Pushed
<1>4. /\ CallStack(pc[t]) /\ PointOf(pc[t], 1) # "user" /\ PointOf(pc[t], 3) = "user"
      /\ b \in Above(PointOf(pc[t], 2))
  BY PointIs DEF Stacks
<1>5. /\ CallStack(r) /\ PointOf(r, 1) = a
      /\ PointOf(r, 2) = b /\ PointOf(r, 3) = PointOf(pc[t], 2)
  BY <1>1, <1>4, StackPush
<1>6. NewStack(t, PointOf(r, 1), PointOf(r, 2), PointOf(r, 3))
  BY <1>2, <1>5, GoAnywhere
<1> QED  BY <1>5, <1>6, PointIs

LEMMA GoCall ==
  ASSUME Stacks, NEW t \in Tasks, Point(t, 1) = "user",
         NEW a, a \in Above("user"), Go(t, <<a, "user">>)
  PROVE  NewStack(t, a, "user", "user")
<1>1. PICK r : r = <<a, "user">> \o Tail(pc[t])
  OBVIOUS
<1>2. pc' = [pc EXCEPT ![t] = r]
  BY <1>1, Zenon DEF Go
<1>4. CallStack(pc[t]) /\ PointOf(pc[t], 1) = "user"
  BY PointIs DEF Stacks
<1>5. CallStack(r) /\ PointOf(r, 1) = a /\ PointOf(r, 2) = "user" /\ PointOf(r, 3) = "user"
  BY <1>1, <1>4, StackCall
<1>6. NewStack(t, PointOf(r, 1), PointOf(r, 2), PointOf(r, 3))
  BY <1>2, <1>5, GoAnywhere
<1> QED  BY <1>5, <1>6

LEMMA GoDestroy ==
  ASSUME Stacks, NEW t \in Tasks, Point(t, 1) = "user",
         Go(t, <<"rc_lock", "sd_clear", "user">>)
  PROVE  NewStack(t, "rc_lock", "sd_clear", "user")
<1>1. PICK r : r = <<"rc_lock", "sd_clear", "user">> \o Tail(pc[t])
  OBVIOUS
<1>2. pc' = [pc EXCEPT ![t] = r]
  BY <1>1, Zenon DEF Go
<1>4. CallStack(pc[t]) /\ PointOf(pc[t], 1) = "user"
  BY PointIs DEF Stacks
<1>5. /\ CallStack(r) /\ PointOf(r, 1) = "rc_lock"
      /\ PointOf(r, 2) = "sd_clear" /\ PointOf(r, 3) = "user"
  BY <1>1, <1>4, StackDestroy
<1>6. NewStack(t, PointOf(r, 1), PointOf(r, 2), PointOf(r, 3))
  BY <1>2, <1>5, GoAnywhere
<1> QED  BY <1>5, <1>6

(* The stacks do not change.                                               *)
LEMMA StacksUnchanged ==
  ASSUME Stacks, UNCHANGED pc
  PROVE  /\ Stacks'
         /\ \A u \in Tasks : /\ Point(u, 1)' = Point(u, 1) /\ Point(u, 2)' = Point(u, 2)
                              /\ Point(u, 3)' = Point(u, 3)
BY DEF Stacks, Point

LEMMA AboveIs ==
  /\ Above("user") = (Labels \ {"user"}) \cup SemaphoreLabels
  /\ Above("unlock") = {"pend", "back"} \cup ResumeLabels
  /\ Above("sd_clear") = ResumeLabels
  /\ Above("so_take") = ConditionLabels \ ResumeLabels
  /\ Above("sc_done") = {"unlock", "drift"}
  /\ Above("rc_yield") = {"unlock", "drift", "pend", "back"}
  /\ Above("sc_woke") = {"pend", "back"}
  /\ Above("rc_back") = {"pend", "back"}
BY DEF Above

----------------------------------------------------------------------------
(* Control: the types, the stacks, the scheduler lock and the CPU.         *)

Control == StateTypeOK /\ Stacks /\ SemLocks /\ LockKeepsCPU /\ SemCurrent

(* What holds of the task that executes.                                   *)
LEMMA ExecFacts ==
  ASSUME Control, NEW t \in Tasks, NEW label, At(t, label)
  PROVE  /\ mode = "task" /\ current_task = t /\ ~ pend_sv
         /\ Point(t, 1) = label /\ StackForm(label, Point(t, 2), Point(t, 3))
         /\ state[t] \in {"RUNNING", "TO_BE_SUSPENDED", "FINISHED"}
         /\ label # "pend" => state[t] = "RUNNING"
         /\ state[t] # "RUNNING" => interrupts
         /\ Stacks /\ StateTypeOK
<1>1. mode = "task" /\ current_task = t /\ ~ (pend_sv /\ interrupts) /\ Head(pc[t]) = label
  BY DEF At, Executes
<1>2. Stacks /\ StateTypeOK
  BY DEF Control
<1>3. Point(t, 1) = label /\ StackForm(label, Point(t, 2), Point(t, 3))
  BY <1>1, <1>2, TaskStack
<1>4. pend_sv => interrupts
  BY <1>1 DEF Control, LockKeepsCPU
<1>5. ~ pend_sv
  BY <1>1, <1>4
<1>6. /\ state[t] \in {"RUNNING", "TO_BE_SUSPENDED", "FINISHED"}
      /\ state[t] # "RUNNING" => /\ interrupts
                                 /\ \/ Point(t, 1) = "pend"
                                    \/ Point(t, 1) = "back" /\ pend_sv
  BY <1>1 DEF Control, SemCurrent
<1> QED  BY <1>1, <1>2, <1>3, <1>5, <1>6

(* A step of the running task t that leaves the CPU to it.                 *)
LEMMA TaskControl ==
  ASSUME Control, NEW t \in Tasks, mode = "task", current_task = t, ~ pend_sv,
         state[t] = "RUNNING",
         StateTypeOK', Stacks',
         \A u \in Tasks : u # t =>
           /\ Point(u, 1)' = Point(u, 1) /\ Point(u, 2)' = Point(u, 2)
           /\ Point(u, 3)' = Point(u, 3)
           /\ lock_count'[u] = lock_count[u]
           /\ state'[u] = state[u] \/ state'[u] = "RESUME",
         lock_count'[t] \in Owed(t)' .. Owed(t)' + MaxUserLock,
         current_task' = current_task, pend_sv' = pend_sv, mode' \in {"task", "assert"},
         Point(t, 1)' = "pend" => interrupts',
         \/ state'[t] = "RUNNING"
         \/ state'[t] \in {"TO_BE_SUSPENDED", "FINISHED"} /\ Point(t, 1)' = "pend"
  PROVE  Control'
<1>1. SemLocks'
  <2> SUFFICES ASSUME NEW u \in Tasks
               PROVE  lock_count'[u] \in Owed(u)' .. Owed(u)' + MaxUserLock
    BY DEF SemLocks
  <2>1. CASE u = t
    BY <2>1
  <2>2. CASE u # t
    <3>1. Owed(u)' = Owed(u)
      BY <2>2 DEF Owed
    <3> QED  BY <2>2, <3>1 DEF Control, SemLocks
  <2> QED  BY <2>1, <2>2
<1>2. LockKeepsCPU'
  <2>1. \A u \in Tasks : Away(u)' => u # t /\ Away(u)
    BY DEF Away
  <2>2. \A u \in Tasks : Away(u)' => lock_count'[u] = 0 \/ Point(u, 1)' = "back"
    BY <2>1 DEF Control, LockKeepsCPU
  <2> QED  BY <2>2 DEF LockKeepsCPU
<1>3. SemCurrent'
  <2>1. \A u \in Tasks : state'[u] = "TO_BE_SUSPENDED" => u = t
    BY DEF Control, SemCurrent
  <2>2. ~ Away(t)'
    BY DEF Away
  <2> QED  BY <2>1, <2>2 DEF SemCurrent
<1> QED  BY <1>1, <1>2, <1>3 DEF Control

(* The same when t changes only its stack.                                 *)
LEMMA StackControl ==
  ASSUME Control, NEW t \in Tasks, mode = "task", current_task = t, ~ pend_sv,
         state[t] = "RUNNING", NEW a, NEW b, NEW c, NewStack(t, a, b, c),
         StateTypeOK', UNCHANGED <<state, current_task, pend_sv, mode>>,
         a = "pend" => interrupts',
         \A u \in Tasks : u # t => lock_count'[u] = lock_count[u],
         lock_count'[t] \in Owes(a) + Owes(b) + Owes(c) .. Owes(a) + Owes(b) + Owes(c) + MaxUserLock
  PROVE  Control'
<1>1. Owed(t)' = Owes(a) + Owes(b) + Owes(c)
  BY DEF NewStack, Owed
<1>2. /\ Stacks'
      /\ \A u \in Tasks : u # t =>
           /\ Point(u, 1)' = Point(u, 1) /\ Point(u, 2)' = Point(u, 2)
           /\ Point(u, 3)' = Point(u, 3)
  BY DEF NewStack
<1>3. Point(t, 1)' = "pend" => interrupts'
  BY DEF NewStack
<1> QED  BY <1>1, <1>2, <1>3, TaskControl

(* What a task owes, and has locked.                                       *)
LEMMA LockFacts ==
  ASSUME Control, NEW t \in Tasks
  PROVE  /\ lock_count[t] \in 0 .. MaxLock
         /\ lock_count[t] >= Owes(Point(t, 1)) + Owes(Point(t, 2)) + Owes(Point(t, 3))
         /\ lock_count[t] <= Owes(Point(t, 1)) + Owes(Point(t, 2)) + Owes(Point(t, 3)) + MaxUserLock
         /\ \A label : Owes(label) \in {0, 1}
         /\ MaxUserLock \in Nat /\ MaxLock \in Nat /\ MaxUserLock + 2 <= MaxLock
<1>1. \A label : Owes(label) \in {0, 1}
  BY DEF Owes
<1>2. MaxUserLock \in Nat /\ MaxLock \in Nat /\ MaxUserLock + 2 <= MaxLock
  BY LockAssumption
<1>3. lock_count[t] \in 0 .. MaxLock
  BY DEF Control, StateTypeOK
<1>4. lock_count[t] \in Owed(t) .. Owed(t) + MaxUserLock
  BY DEF Control, SemLocks
<1> QED  BY <1>1, <1>2, <1>3, <1>4 DEF Owed

(* An assertion of the code fails: everything stays as it is.              *)
LEMMA HaltControl ==
  ASSUME Control, mode' = "assert", StateTypeOK',
         UNCHANGED <<lock_count, pc>>, \A u \in Tasks : state'[u] # "TO_BE_SUSPENDED" \/ state'[u] = state[u],
         current_task' = current_task, mode = "task"
  PROVE  Control'
<1>1. Stacks' /\ \A u \in Tasks : /\ Point(u, 1)' = Point(u, 1) /\ Point(u, 2)' = Point(u, 2)
                                   /\ Point(u, 3)' = Point(u, 3)
  BY StacksUnchanged DEF Control
<1>2. SemLocks'
  <2> SUFFICES ASSUME NEW u \in Tasks
               PROVE  lock_count'[u] \in Owed(u)' .. Owed(u)' + MaxUserLock
    BY DEF SemLocks
  <2>1. Owed(u)' = Owed(u)
    BY <1>1 DEF Owed
  <2> QED  BY <2>1 DEF Control, SemLocks
<1>3. \A u \in Tasks : ~ Away(u)'
  BY DEF Away
<1>4. LockKeepsCPU'
  BY <1>3 DEF LockKeepsCPU
<1>5. SemCurrent'
  BY <1>3 DEF SemCurrent, Control
<1> QED  BY <1>1, <1>2, <1>4, <1>5 DEF Control

----------------------------------------------------------------------------
(* Control in the kernel's own calls.                                      *)

LEMMA PendControl ==
  ASSUME Control, NEW t \in Tasks, PEND_SV(t)
  PROVE  Control' /\ NewStack(t, "back", Point(t, 2), Point(t, 3))
<1>1. At(t, "pend")
  BY DEF PEND_SV
<1>2. /\ mode = "task" /\ current_task = t /\ ~ pend_sv
      /\ Point(t, 1) = "pend" /\ StackForm("pend", Point(t, 2), Point(t, 3))
      /\ state[t] \in {"RUNNING", "TO_BE_SUSPENDED", "FINISHED"}
      /\ Stacks /\ StateTypeOK
  BY <1>1, ExecFacts
<1>3. "back" \in Above(Point(t, 2))
  BY <1>2, AboveIs DEF StackForm, Labels, SuspendLabels, ConditionLabels, ResumeLabels
<1>4. NewStack(t, "back", Point(t, 2), Point(t, 3))
  BY <1>2, <1>3, GoStep DEF PEND_SV
<1>5. StateTypeOK'
  BY <1>2 DEF StateTypeOK, PEND_SV, lists, timeVars
<1>6. /\ Stacks' /\ Point(t, 1)' = "back"
      /\ \A u \in Tasks : u # t => Point(u, 1)' = Point(u, 1)
      /\ \A u \in Tasks : Owed(u)' = Owed(u)
  BY <1>2, <1>4 DEF NewStack, Owed, Owes, Owing
<1>7. /\ UNCHANGED <<lock_count, state, mode, current_task, interrupts>>
      /\ pend_sv'
  BY DEF PEND_SV
<1>8. SemLocks'
  BY <1>6, <1>7 DEF Control, SemLocks
<1>9. interrupts
  BY <1>2 DEF Control, LockKeepsCPU
<1>10. LockKeepsCPU'
  <2>1. \A u \in Tasks : Away(u)' => u # t /\ Away(u)
    BY <1>2, <1>7 DEF Away
  <2>2. \A u \in Tasks : Away(u)' => lock_count'[u] = 0 \/ Point(u, 1)' = "back"
    BY <1>6, <1>7, <2>1 DEF Control, LockKeepsCPU
  <2> QED  BY <1>2, <1>6, <1>7, <1>9, <2>2 DEF LockKeepsCPU
<1>11. SemCurrent'
  <2>1. \A u \in Tasks : Away(u)' <=> Away(u)
    BY <1>7 DEF Away
  <2> QED  BY <1>2, <1>6, <1>7, <1>9, <2>1 DEF Control, SemCurrent
<1> QED  BY <1>4, <1>5, <1>6, <1>8, <1>10, <1>11 DEF Control

LEMMA RestoreControl ==
  ASSUME Control, NEW t \in Tasks, RestoreLevel(t)
  PROVE  Control' /\ NewStack(t, Point(t, 2), Point(t, 3), "user")
<1>1. At(t, "back")
  BY DEF RestoreLevel
<1>2. /\ mode = "task" /\ current_task = t /\ ~ pend_sv
      /\ Point(t, 1) = "back" /\ StackForm("back", Point(t, 2), Point(t, 3))
      /\ state[t] = "RUNNING" /\ Stacks /\ StateTypeOK
  BY <1>1, ExecFacts
<1>4. NewStack(t, Point(t, 2), Point(t, 3), "user")
  BY <1>2, GoPop DEF RestoreLevel
<1>5. StateTypeOK'
  BY <1>2 DEF StateTypeOK, RestoreLevel, lists, timeVars
<1>6. UNCHANGED <<state, current_task, pend_sv, mode, lock_count>>
  BY DEF RestoreLevel
<1>7. Point(t, 2) # "pend"
  BY <1>2 DEF StackForm
<1>8. lock_count[t] \in Owes(Point(t, 2)) + Owes(Point(t, 3)) + Owes("user") ..
                         Owes(Point(t, 2)) + Owes(Point(t, 3)) + Owes("user") + MaxUserLock
  BY <1>2, LockFacts DEF Owes, Owing
<1> QED  BY <1>2, <1>4, <1>5, <1>6, <1>7, <1>8, StackControl

LEMMA UnlockControl ==
  ASSUME Control, NEW t \in Tasks, scheduler_unlock(t)
  PROVE  Control' /\ NewStack(t, "drift", Point(t, 2), Point(t, 3))
<1>1. At(t, "unlock")
  BY DEF scheduler_unlock
<1>2. /\ mode = "task" /\ current_task = t /\ ~ pend_sv
      /\ Point(t, 1) = "unlock" /\ StackForm("unlock", Point(t, 2), Point(t, 3))
      /\ state[t] = "RUNNING" /\ Stacks /\ StateTypeOK
  BY <1>1, ExecFacts
<1>3. "drift" \in Above(Point(t, 2))
  BY <1>2, AboveIs DEF StackForm, Labels, SuspendLabels, ConditionLabels, ResumeLabels
<1>4. lock_count[t] # 0
  BY <1>2, LockFacts DEF Owes, Owing
<1>5. /\ lock_count' = [lock_count EXCEPT ![t] = @ - 1]
      /\ Go(t, <<"drift">>) /\ UNCHANGED <<mode, interrupts>>
      /\ UNCHANGED <<state, resume_from, drift, level, lists, timeVars, current_task, pend_sv>>
  BY <1>4 DEF scheduler_unlock
<1>6. NewStack(t, "drift", Point(t, 2), Point(t, 3))
  BY <1>2, <1>3, <1>5, GoStep
<1>7. /\ lock_count' \in [Tasks -> 0 .. MaxLock] /\ lock_count'[t] = lock_count[t] - 1
      /\ \A u \in Tasks : u # t => lock_count'[u] = lock_count[u]
  <2>1. lock_count[t] - 1 \in 0 .. MaxLock
    BY <1>4, LockFacts
  <2> QED  BY <1>2, <1>5, <2>1 DEF StateTypeOK
<1>8. StateTypeOK'
  BY <1>2, <1>5, <1>7 DEF StateTypeOK, lists, timeVars
<1>9. lock_count'[t] \in Owes("drift") + Owes(Point(t, 2)) + Owes(Point(t, 3)) ..
                         Owes("drift") + Owes(Point(t, 2)) + Owes(Point(t, 3)) + MaxUserLock
  BY <1>2, <1>7, LockFacts DEF Owes, Owing
<1> QED  BY <1>2, <1>5, <1>6, <1>7, <1>8, <1>9, StackControl

LEMMA UnlockYieldControl ==
  ASSUME Control, NEW t \in Tasks, UnlockYield(t)
  PROVE  /\ Control'
         /\ \/ NewStack(t, "pend", Point(t, 2), Point(t, 3))
            \/ NewStack(t, Point(t, 2), Point(t, 3), "user")
<1>1. At(t, "drift")
  BY DEF UnlockYield
<1>2. /\ mode = "task" /\ current_task = t /\ ~ pend_sv
      /\ Point(t, 1) = "drift" /\ StackForm("drift", Point(t, 2), Point(t, 3))
      /\ state[t] = "RUNNING" /\ Stacks /\ StateTypeOK
  BY <1>1, ExecFacts
<1>3. UNCHANGED <<state, current_task, pend_sv, mode, lock_count>>
  BY DEF UnlockYield
<1>4. CASE lock_count[t] = 0 /\ drift[t]
  <2>1. /\ drift' = [drift EXCEPT ![t] = FALSE] /\ Go(t, <<"pend">>)
        /\ interrupts' /\ level' = [level EXCEPT ![t] = interrupts]
    BY <1>4 DEF UnlockYield, ControlToSystem
  <2>2. "pend" \in Above(Point(t, 2))
    <3>1. Point(t, 3) # "so_take"
      BY <1>4, LockFacts DEF Owes, Owing
    <3> QED  BY <1>2, <3>1, AboveIs DEF StackForm, Labels, SuspendLabels, ConditionLabels, ResumeLabels
  <2>3. NewStack(t, "pend", Point(t, 2), Point(t, 3))
    BY <1>2, <2>1, <2>2, GoStep
  <2>4. StateTypeOK'
    <3>1. drift' \in [Tasks -> BOOLEAN] /\ level' \in [Tasks -> BOOLEAN] /\ interrupts' \in BOOLEAN
      BY <1>2, <2>1 DEF StateTypeOK
    <3> QED  BY <1>2, <3>1 DEF StateTypeOK, UnlockYield, ControlToSystem, lists, timeVars
  <2>5. lock_count[t] \in Owes("pend") + Owes(Point(t, 2)) + Owes(Point(t, 3)) ..
                          Owes("pend") + Owes(Point(t, 2)) + Owes(Point(t, 3)) + MaxUserLock
    BY <1>2, LockFacts DEF Owes, Owing
  <2>6. Control'
    BY <1>2, <1>3, <2>1, <2>3, <2>4, <2>5, StackControl
  <2> QED  BY <2>3, <2>6
<1>5. CASE ~ (lock_count[t] = 0 /\ drift[t])
  <2>1. Go(t, <<>>) /\ UNCHANGED <<drift, interrupts, level>>
    BY <1>5 DEF UnlockYield
  <2>2. NewStack(t, Point(t, 2), Point(t, 3), "user")
    BY <1>2, <2>1, GoPop
  <2>3. StateTypeOK'
    BY <1>2, <2>1 DEF StateTypeOK, UnlockYield, lists, timeVars
  <2>4. Point(t, 2) # "pend"
    BY <1>2 DEF StackForm
  <2>5. lock_count[t] \in Owes(Point(t, 2)) + Owes(Point(t, 3)) + Owes("user") ..
                          Owes(Point(t, 2)) + Owes(Point(t, 3)) + Owes("user") + MaxUserLock
    BY <1>2, LockFacts DEF Owes, Owing
  <2>6. Control'
    BY <1>2, <1>3, <2>2, <2>3, <2>4, <2>5, StackControl
  <2> QED  BY <2>2, <2>6
<1> QED  BY <1>4, <1>5

LEMMA SleepInsertType ==
  ASSUME StateTypeOK, NEW t \in Tasks, sleep_task_list' = SleepInserted(t)
  PROVE  sleep_task_list' \in Seq(Tasks)
<1>1. PICK later : sleep_task_list' = sll_insert(sleep_task_list, t, later)
  BY DEF SleepInserted
<1>2. sleep_task_list \in Seq(Tasks)
  BY DEF StateTypeOK
<1>3. sll_insert(sleep_task_list, t, later) \in Seq(Tasks)
  BY <1>2, SllInsertMembers
<1> QED  BY <1>1, <1>3

(* sleep_ticks up to the switch: from one point to the next.               *)
LEMMA SleepStepControl ==
  ASSUME Control, NEW t \in Tasks, SleepAdd(t) \/ SleepInsert(t)
  PROVE  /\ Control'
         /\ \E a \in {"sl_insert", "sl_suspend"} : NewStack(t, a, Point(t, 2), Point(t, 3))
<1>1. PICK label \in {"sl_add", "sl_insert"} : At(t, label)
  BY DEF SleepAdd, SleepInsert
<1>2. /\ mode = "task" /\ current_task = t /\ ~ pend_sv
      /\ Point(t, 1) = label /\ StackForm(label, Point(t, 2), Point(t, 3))
      /\ state[t] = "RUNNING" /\ Stacks /\ StateTypeOK
  BY <1>1, ExecFacts
<1>3. Point(t, 2) = "user" /\ Point(t, 3) = "user"
  BY <1>2 DEF StackForm, SuspendLabels, ConditionLabels, ResumeLabels
<1>4. PICK a \in {"sl_insert", "sl_suspend"} : Go(t, <<a>>)
  BY DEF SleepAdd, SleepInsert
<1>5. a \in Above(Point(t, 2))
  BY <1>3, AboveIs DEF Labels
<1>6. NewStack(t, a, Point(t, 2), Point(t, 3))
  BY <1>2, <1>4, <1>5, GoStep
<1>7. StateTypeOK'
  <2>1. CASE SleepAdd(t)
    <3>1. tick_sleep' \in [Tasks -> 0 .. TickRange - 1] /\ left' \in [Tasks -> Int]
      <4>1. /\ (current_tick + ticks[t]) % TickRange \in 0 .. TickRange - 1
            /\ ticks[t] \in Int
        BY <1>2, TickAssumption DEF StateTypeOK
      <4> QED  BY <1>2, <2>1, <4>1 DEF StateTypeOK, SleepAdd, sleep_add_to_list
    <3> QED  BY <1>2, <2>1, <3>1 DEF StateTypeOK, SleepAdd, lists, cpuVars
  <2>2. CASE SleepInsert(t)
    <3>1. sleep_task_list' \in Seq(Tasks)
      BY <1>2, <2>2, SleepInsertType DEF SleepInsert
    <3> QED  BY <1>2, <2>2, <3>1 DEF StateTypeOK, SleepInsert, timeVars, cpuVars
  <2> QED  BY <2>1, <2>2
<1>8. UNCHANGED <<state, current_task, pend_sv, mode, lock_count>>
  BY DEF SleepAdd, SleepInsert, cpuVars
<1>9. lock_count[t] \in Owes(a) + Owes(Point(t, 2)) + Owes(Point(t, 3)) ..
                        Owes(a) + Owes(Point(t, 2)) + Owes(Point(t, 3)) + MaxUserLock
  BY <1>2, LockFacts DEF Owes, Owing
<1> QED  BY <1>2, <1>6, <1>7, <1>8, <1>9, StackControl

(* sleep_ticks and suspend_condition suspend the task.                     *)
LEMMA SwitchAwayControl ==
  ASSUME Control, NEW t \in Tasks, mode = "task", current_task = t, ~ pend_sv,
         state[t] = "RUNNING", NEW b, NEW c, NEW d, NewStack(t, "pend", b, c),
         StateTypeOK', NEW st \in {"TO_BE_SUSPENDED", "FINISHED"},
         state' = [state EXCEPT ![t] = st], interrupts',
         UNCHANGED <<current_task, pend_sv, mode, lock_count>>,
         lock_count[t] \in Owes(b) + Owes(c) .. Owes(b) + Owes(c) + MaxUserLock
  PROVE  Control'
<1>1. Owed(t)' = Owes(b) + Owes(c)
  BY DEF NewStack, Owed, Owes, Owing
<1>2. /\ Stacks' /\ Point(t, 1)' = "pend"
      /\ \A u \in Tasks : u # t =>
           /\ Point(u, 1)' = Point(u, 1) /\ Point(u, 2)' = Point(u, 2)
           /\ Point(u, 3)' = Point(u, 3)
  BY DEF NewStack
<1>3. state'[t] = st /\ \A u \in Tasks : u # t => state'[u] = state[u]
  BY DEF Control, StateTypeOK
<1> QED  BY <1>1, <1>2, <1>3, TaskControl

LEMMA SleepSuspendControl ==
  ASSUME Control, NEW t \in Tasks, SleepSuspend(t)
  PROVE  Control' /\ NewStack(t, "pend", "unlock", "user")
<1>1. At(t, "sl_suspend")
  BY DEF SleepSuspend
<1>2. /\ mode = "task" /\ current_task = t /\ ~ pend_sv
      /\ Point(t, 1) = "sl_suspend" /\ StackForm("sl_suspend", Point(t, 2), Point(t, 3))
      /\ state[t] = "RUNNING" /\ Stacks /\ StateTypeOK
  BY <1>1, ExecFacts
<1>3. Point(t, 2) = "user" /\ Point(t, 3) = "user"
  BY <1>2 DEF StackForm, SuspendLabels, ConditionLabels, ResumeLabels
<1>4. "unlock" \in Above("user") /\ "pend" \in Above("unlock")
  BY AboveIs DEF Labels
<1>5. NewStack(t, "pend", "unlock", "user")
  <2>1. Point(t, 1) # "user" /\ "unlock" \in Above(Point(t, 2))
    BY <1>2, <1>3, <1>4
  <2> QED  BY <1>2, <1>3, <1>4, <2>1, GoPush DEF SleepSuspend
<1>6. /\ state' = [state EXCEPT ![t] = "TO_BE_SUSPENDED"] /\ interrupts'
      /\ level' = [level EXCEPT ![t] = interrupts] /\ ticks' = [ticks EXCEPT ![t] = 0]
      /\ UNCHANGED <<resume_from, lock_count, drift, lists, current_tick, tick_sleep, left,
                     current_task, pend_sv, mode>>
  BY DEF SleepSuspend, ControlToSystem
<1>7. StateTypeOK'
  <2>1. state' \in [Tasks -> States]
    BY <1>2, <1>6 DEF StateTypeOK, States
  <2>2. level' \in [Tasks -> BOOLEAN] /\ interrupts' \in BOOLEAN
    BY <1>2, <1>6 DEF StateTypeOK
  <2>3. ticks' \in [Tasks -> Nat]
    BY <1>2, <1>6 DEF StateTypeOK
  <2> QED  BY <1>2, <1>6, <2>1, <2>2, <2>3 DEF StateTypeOK, lists
<1>8. lock_count[t] \in Owes("unlock") + Owes("user") .. Owes("unlock") + Owes("user") + MaxUserLock
  BY <1>2, <1>3, LockFacts DEF Owes, Owing
<1> QED  BY <1>2, <1>5, <1>6, <1>7, <1>8, SwitchAwayControl

(* What holds of an application that calls the kernel.                     *)
LEMMA UserFacts ==
  ASSUME Control, NEW t \in Tasks, InUser(t)
  PROVE  /\ mode = "task" /\ current_task = t /\ ~ pend_sv
         /\ Point(t, 1) = "user" /\ Point(t, 2) = "user" /\ Point(t, 3) = "user"
         /\ state[t] = "RUNNING" /\ Stacks /\ StateTypeOK
         /\ lock_count[t] \in 0 .. MaxUserLock
<1>1. At(t, "user")
  BY DEF InUser
<1>2. /\ mode = "task" /\ current_task = t /\ ~ pend_sv
      /\ Point(t, 1) = "user" /\ StackForm("user", Point(t, 2), Point(t, 3))
      /\ state[t] = "RUNNING" /\ Stacks /\ StateTypeOK
  BY <1>1, ExecFacts
<1>3. Point(t, 2) = "user" /\ Point(t, 3) = "user"
  BY <1>2 DEF StackForm, Labels, SemaphoreLabels, SuspendLabels, ConditionLabels, ResumeLabels
<1>4. lock_count[t] \in 0 .. MaxUserLock
  BY <1>2, <1>3, LockFacts DEF Owes, Owing
<1> QED  BY <1>2, <1>3, <1>4

(* A function that locks the scheduler.                                    *)
LEMMA LockTypes ==
  ASSUME StateTypeOK, NEW t \in Tasks, lock_count[t] < MaxLock,
         lock_count' = [lock_count EXCEPT ![t] = @ + 1]
  PROVE  /\ lock_count' \in [Tasks -> 0 .. MaxLock]
         /\ lock_count'[t] = lock_count[t] + 1
         /\ \A u \in Tasks : u # t => lock_count'[u] = lock_count[u]
<1>1. lock_count \in [Tasks -> 0 .. MaxLock] /\ MaxLock \in Nat
  BY LockAssumption DEF StateTypeOK
<1>2. lock_count[t] + 1 \in 0 .. MaxLock
  BY <1>1
<1> QED  BY <1>1, <1>2

LEMMA LockControl ==
  ASSUME Control, NEW t \in Tasks, scheduler_lock(t)
  PROVE  Control' /\ UNCHANGED pc
<1>1. /\ mode = "task" /\ current_task = t /\ ~ pend_sv
      /\ Point(t, 1) = "user" /\ Point(t, 2) = "user" /\ Point(t, 3) = "user"
      /\ state[t] = "RUNNING" /\ Stacks /\ StateTypeOK
  BY UserFacts DEF scheduler_lock
<1>2. lock_count[t] < MaxUserLock /\ MaxUserLock \in Nat /\ lock_count[t] \in Nat /\ lock_count[t] < MaxLock
  <2>1. lock_count[t] < MaxUserLock
    BY DEF scheduler_lock
  <2> QED  BY <2>1, LockFacts
<1>3. /\ lock_count' = [lock_count EXCEPT ![t] = @ + 1] /\ UNCHANGED <<mode, interrupts>>
      /\ UNCHANGED <<state, resume_from, drift, pc, level, lists, timeVars, current_task, pend_sv>>
  <2>1. ~ (lock_count[t] >= MaxLock)
    BY <1>2, LockAssumption
  <2> QED  BY <2>1 DEF scheduler_lock
<1>4. /\ lock_count' \in [Tasks -> 0 .. MaxLock]
      /\ lock_count'[t] = lock_count[t] + 1
      /\ \A u \in Tasks : u # t => lock_count'[u] = lock_count[u]
  BY <1>1, <1>2, <1>3, LockTypes
<1>5. StateTypeOK'
  BY <1>1, <1>3, <1>4 DEF StateTypeOK, lists, timeVars
<1>6. /\ Stacks'
      /\ \A u \in Tasks : /\ Point(u, 1)' = Point(u, 1) /\ Point(u, 2)' = Point(u, 2)
                          /\ Point(u, 3)' = Point(u, 3)
  BY <1>1, <1>3, StacksUnchanged
<1>7. NewStack(t, "user", "user", "user")
  BY <1>1, <1>6 DEF NewStack
<1>8. lock_count'[t] \in Owes("user") + Owes("user") + Owes("user") ..
                         Owes("user") + Owes("user") + Owes("user") + MaxUserLock
  BY <1>2, <1>4 DEF Owes, Owing
<1> QED  BY <1>1, <1>3, <1>4, <1>5, <1>7, <1>8, StackControl

LEMMA UserUnlockControl ==
  ASSUME Control, NEW t \in Tasks, UserUnlock(t)
  PROVE  Control' /\ NewStack(t, "unlock", "user", "user")
<1>1. /\ mode = "task" /\ current_task = t /\ ~ pend_sv
      /\ Point(t, 1) = "user" /\ state[t] = "RUNNING" /\ Stacks /\ StateTypeOK
      /\ lock_count[t] \in 0 .. MaxUserLock /\ lock_count[t] > 0
  BY UserFacts DEF UserUnlock
<1>2. "unlock" \in Above("user")
  BY AboveIs DEF Labels
<1>3. NewStack(t, "unlock", "user", "user")
  BY <1>1, <1>2, GoCall DEF UserUnlock
<1>4. StateTypeOK'
  BY <1>1 DEF StateTypeOK, UserUnlock, lists, timeVars, cpuVars
<1>5. UNCHANGED <<state, current_task, pend_sv, mode, lock_count>>
  BY DEF UserUnlock, cpuVars
<1>6. lock_count[t] \in Owes("unlock") + Owes("user") + Owes("user") ..
                        Owes("unlock") + Owes("user") + Owes("user") + MaxUserLock
  BY <1>1, LockFacts DEF Owes, Owing
<1> QED  BY <1>1, <1>3, <1>4, <1>5, <1>6, StackControl

LEMMA YieldControl ==
  ASSUME Control, NEW t \in Tasks, task_yield(t)
  PROVE  Control' /\ (UNCHANGED pc \/ NewStack(t, "pend", "user", "user"))
<1>1. /\ mode = "task" /\ current_task = t /\ ~ pend_sv
      /\ Point(t, 1) = "user" /\ Point(t, 2) = "user" /\ Point(t, 3) = "user"
      /\ state[t] = "RUNNING" /\ Stacks /\ StateTypeOK
      /\ lock_count[t] \in 0 .. MaxUserLock
  BY UserFacts DEF task_yield
<1>2. UNCHANGED <<state, current_task, pend_sv, mode, lock_count>>
  BY DEF task_yield
<1>3. CASE lock_count[t] = 0
  <2>1. /\ Go(t, <<"pend", "user">>) /\ interrupts' /\ level' = [level EXCEPT ![t] = interrupts]
        /\ UNCHANGED <<state, resume_from, lock_count, drift, lists, timeVars, current_task, pend_sv, mode>>
    BY <1>3 DEF task_yield, ControlToSystem
  <2>2. "pend" \in Above("user")
    BY AboveIs DEF Labels
  <2>3. NewStack(t, "pend", "user", "user")
    BY <1>1, <2>1, <2>2, GoCall
  <2>4. StateTypeOK'
    <3>1. level' \in [Tasks -> BOOLEAN] /\ interrupts' \in BOOLEAN
      BY <1>1, <2>1 DEF StateTypeOK, task_yield, ControlToSystem
    <3> QED  BY <1>1, <2>1, <3>1 DEF StateTypeOK, lists, timeVars
  <2>5. lock_count[t] \in Owes("pend") + Owes("user") + Owes("user") ..
                          Owes("pend") + Owes("user") + Owes("user") + MaxUserLock
    BY <1>1, LockFacts DEF Owes, Owing
  <2>6. Control'
    BY <1>1, <1>2, <2>1, <2>3, <2>4, <2>5, StackControl
  <2> QED  BY <2>3, <2>6
<1>4. CASE lock_count[t] # 0
  <2>1. /\ drift' = [drift EXCEPT ![t] = TRUE] /\ UNCHANGED <<pc, interrupts, level>>
    BY <1>4 DEF task_yield
  <2>2. /\ Stacks'
        /\ \A u \in Tasks : /\ Point(u, 1)' = Point(u, 1) /\ Point(u, 2)' = Point(u, 2)
                            /\ Point(u, 3)' = Point(u, 3)
    BY <1>1, <2>1, StacksUnchanged
  <2>3. NewStack(t, "user", "user", "user")
    BY <1>1, <2>2 DEF NewStack
  <2>4. StateTypeOK'
    <3>1. drift' \in [Tasks -> BOOLEAN]
      BY <1>1, <2>1 DEF StateTypeOK
    <3> QED  BY <1>1, <2>1, <3>1 DEF StateTypeOK, task_yield, lists, timeVars
  <2>5. lock_count[t] \in Owes("user") + Owes("user") + Owes("user") ..
                          Owes("user") + Owes("user") + Owes("user") + MaxUserLock
    BY <1>1, LockFacts DEF Owes, Owing
  <2>6. Control'
    BY <1>1, <1>2, <2>1, <2>3, <2>4, <2>5, StackControl
  <2> QED  BY <2>1, <2>6
<1> QED  BY <1>3, <1>4

LEMMA SleepTicksControl ==
  ASSUME Control, NEW t \in Tasks, NEW n \in Delays[t], sleep_ticks(t, n)
  PROVE  Control' /\ NewStack(t, "sl_add", "user", "user")
<1>1. /\ mode = "task" /\ current_task = t /\ ~ pend_sv
      /\ Point(t, 1) = "user" /\ state[t] = "RUNNING" /\ Stacks /\ StateTypeOK
      /\ lock_count[t] \in 0 .. MaxUserLock
  BY UserFacts DEF sleep_ticks
<1>2. lock_count[t] < MaxLock /\ lock_count[t] \in Nat /\ MaxUserLock \in Nat
  BY <1>1, LockFacts
<1>3. /\ lock_count' = [lock_count EXCEPT ![t] = @ + 1] /\ UNCHANGED <<mode, interrupts>>
      /\ ticks' = [ticks EXCEPT ![t] = n] /\ Go(t, <<"sl_add", "user">>)
      /\ UNCHANGED <<state, resume_from, drift, level, lists, current_tick,
                     tick_sleep, left, current_task, pend_sv>>
  <2>1. ~ (lock_count[t] >= MaxLock)
    BY <1>2, LockAssumption
  <2> QED  BY <2>1 DEF sleep_ticks
<1>4. "sl_add" \in Above("user")
  BY AboveIs DEF Labels
<1>5. NewStack(t, "sl_add", "user", "user")
  BY <1>1, <1>3, <1>4, GoCall
<1>6. /\ lock_count' \in [Tasks -> 0 .. MaxLock]
      /\ lock_count'[t] = lock_count[t] + 1
      /\ \A u \in Tasks : u # t => lock_count'[u] = lock_count[u]
  BY <1>1, <1>2, <1>3, LockTypes
<1>7. StateTypeOK'
  <2>1. n \in Nat
    BY TickAssumption
  <2>2. ticks' \in [Tasks -> Nat]
    BY <1>1, <1>3, <2>1 DEF StateTypeOK
  <2> QED  BY <1>1, <1>3, <1>6, <2>2 DEF StateTypeOK, lists
<1>8. lock_count'[t] \in Owes("sl_add") + Owes("user") + Owes("user") ..
                         Owes("sl_add") + Owes("user") + Owes("user") + MaxUserLock
  BY <1>1, <1>2, <1>6 DEF Owes, Owing
<1> QED  BY <1>1, <1>3, <1>5, <1>6, <1>7, <1>8, StackControl

LEMMA EntryReturnControl ==
  ASSUME Control, NEW t \in Tasks, task_entry_return(t)
  PROVE  Control' /\ NewStack(t, "pend", "user", "user")
<1>1. /\ mode = "task" /\ current_task = t /\ ~ pend_sv
      /\ Point(t, 1) = "user" /\ state[t] = "RUNNING" /\ Stacks /\ StateTypeOK
      /\ lock_count[t] \in 0 .. MaxUserLock
  BY UserFacts DEF task_entry_return
<1>2. /\ state' = [state EXCEPT ![t] = "FINISHED"] /\ interrupts'
      /\ level' = [level EXCEPT ![t] = FALSE] /\ Go(t, <<"pend", "user">>)
      /\ UNCHANGED <<resume_from, lock_count, drift, lists, timeVars, current_task, pend_sv, mode>>
  BY DEF task_entry_return, ControlToSystem
<1>3. "pend" \in Above("user")
  BY AboveIs DEF Labels
<1>4. NewStack(t, "pend", "user", "user")
  BY <1>1, <1>2, <1>3, GoCall
<1>5. StateTypeOK'
  <2>1. state' \in [Tasks -> States]
    BY <1>1, <1>2 DEF StateTypeOK, States
  <2>2. level' \in [Tasks -> BOOLEAN] /\ interrupts' \in BOOLEAN
    BY <1>1, <1>2 DEF StateTypeOK, task_entry_return, ControlToSystem
  <2> QED  BY <1>1, <1>2, <2>1, <2>2 DEF StateTypeOK, lists, timeVars
<1>6. lock_count[t] \in Owes("user") + Owes("user") .. Owes("user") + Owes("user") + MaxUserLock
  BY <1>1, LockFacts DEF Owes, Owing
<1> QED  BY <1>1, <1>2, <1>4, <1>5, <1>6, SwitchAwayControl

(* scheduler_task_yield(u, YIELD_SYSTEM).                                  *)
LEMMA YieldSystemTypes ==
  ASSUME StateTypeOK, NEW u \in Tasks, YieldSystem(u)
  PROVE  /\ state' \in [Tasks -> States] /\ resume_from' \in [Tasks -> {"SYSTEM", "SLEEP"}]
         /\ sch_ready_task_list' \in Seq(Tasks)
         /\ state'[u] = "RESUME" /\ resume_from'[u] = "SYSTEM"
         /\ \A v \in Tasks : v # u => state'[v] = state[v] /\ resume_from'[v] = resume_from[v]
<1>1. /\ state \in [Tasks -> States] /\ resume_from \in [Tasks -> {"SYSTEM", "SLEEP"}]
      /\ sch_ready_task_list \in Seq(Tasks)
  BY DEF StateTypeOK
<1>2. PICK later : sch_ready_task_list' = sll_insert(sch_ready_task_list, u, later)
  BY DEF YieldSystem, Enqueued
<1>3. sll_insert(sch_ready_task_list, u, later) \in Seq(Tasks)
  BY <1>1, SllInsertMembers
<1>4. state' = [state EXCEPT ![u] = "RESUME"] /\ resume_from' = [resume_from EXCEPT ![u] = "SYSTEM"]
  BY DEF YieldSystem
<1>5. "RESUME" \in States
  BY DEF States
<1> QED  BY <1>1, <1>2, <1>3, <1>4, <1>5

LEMMA TaskAddControl ==
  ASSUME Control, NEW t \in Tasks, NEW new \in Tasks, scheduler_task_add(t, new)
  PROVE  Control' /\ UNCHANGED pc
<1>1. /\ mode = "task" /\ current_task = t /\ ~ pend_sv
      /\ Point(t, 1) = "user" /\ Point(t, 2) = "user" /\ Point(t, 3) = "user"
      /\ state[t] = "RUNNING" /\ Stacks /\ StateTypeOK
      /\ lock_count[t] \in 0 .. MaxUserLock
  BY UserFacts DEF scheduler_task_add
<1>2. /\ state[new] = "FINISHED" /\ YieldSystem(new)
      /\ UNCHANGED <<lock_count, drift, pc, level, sleep_task_list, timeVars, cpuVars>>
  BY DEF scheduler_task_add
<1>3. /\ state' \in [Tasks -> States] /\ resume_from' \in [Tasks -> {"SYSTEM", "SLEEP"}]
      /\ sch_ready_task_list' \in Seq(Tasks)
      /\ state'[new] = "RESUME"
      /\ \A v \in Tasks : v # new => state'[v] = state[v]
  BY <1>1, <1>2, YieldSystemTypes
<1>4. StateTypeOK'
  BY <1>1, <1>2, <1>3 DEF StateTypeOK, timeVars, cpuVars
<1>5. /\ Stacks'
      /\ \A u \in Tasks : /\ Point(u, 1)' = Point(u, 1) /\ Point(u, 2)' = Point(u, 2)
                          /\ Point(u, 3)' = Point(u, 3)
  BY <1>1, <1>2, StacksUnchanged
<1>6. Owed(t)' = 0 /\ Point(t, 1)' = "user"
  BY <1>1, <1>5 DEF Owed, Owes, Owing
<1>7. lock_count'[t] \in Owed(t)' .. Owed(t)' + MaxUserLock
  BY <1>1, <1>2, <1>6, LockFacts
<1>8. state'[t] = "RUNNING"
  BY <1>1, <1>2, <1>3
<1>9. UNCHANGED <<current_task, pend_sv, mode, lock_count>>
  BY <1>2 DEF cpuVars
<1> QED  BY <1>1, <1>2, <1>3, <1>4, <1>5, <1>6, <1>7, <1>8, <1>9, TaskControl

----------------------------------------------------------------------------
(* Control when no task executes.                                          *)

(* Only what the system does to the states of tasks and to the CPU.        *)
LEMMA SystemControl ==
  ASSUME Control, StateTypeOK', UNCHANGED <<lock_count, pc>>,
         \A u \in Tasks : Away(u)' => lock_count[u] = 0 \/ Point(u, 1) = "back",
         mode' = "task" /\ pend_sv' =>
           /\ interrupts'
           /\ lock_count[current_task'] = 0 \/ Point(current_task', 1) = "back",
         mode' = "task" /\ Point(current_task', 1) = "pend" => interrupts',
         SemCurrent'
  PROVE  Control' /\ UNCHANGED pc
<1>1. /\ Stacks'
      /\ \A u \in Tasks : /\ Point(u, 1)' = Point(u, 1) /\ Point(u, 2)' = Point(u, 2)
                          /\ Point(u, 3)' = Point(u, 3)
  BY StacksUnchanged DEF Control
<1>2. SemLocks'
  <2> SUFFICES ASSUME NEW u \in Tasks
               PROVE  lock_count'[u] \in Owed(u)' .. Owed(u)' + MaxUserLock
    BY DEF SemLocks
  <2>1. Owed(u)' = Owed(u)
    BY <1>1 DEF Owed
  <2> QED  BY <2>1 DEF Control, SemLocks
<1>3. LockKeepsCPU'
  <2>1. \A u \in Tasks : Away(u)' => lock_count'[u] = 0 \/ Point(u, 1)' = "back"
    BY <1>1
  <2>2. Point(current_task, 1)' = Point(current_task', 1)
    BY DEF Point
  <2> QED  BY <2>1, <2>2 DEF LockKeepsCPU
<1> QED  BY <1>1, <1>2, <1>3 DEF Control

LEMMA BootAddControl ==
  ASSUME Control, NEW t \in Tasks, BootAdd(t)
  PROVE  Control' /\ UNCHANGED pc
<1>1. /\ mode = "boot" /\ state[t] = "FINISHED" /\ YieldSystem(t)
      /\ UNCHANGED <<lock_count, drift, pc, level, sleep_task_list, timeVars, cpuVars>>
  BY DEF BootAdd
<1>2. StateTypeOK
  BY DEF Control
<1>3. /\ state' \in [Tasks -> States] /\ resume_from' \in [Tasks -> {"SYSTEM", "SLEEP"}]
      /\ sch_ready_task_list' \in Seq(Tasks)
      /\ state'[t] = "RESUME"
      /\ \A v \in Tasks : v # t => state'[v] = state[v]
  BY <1>1, <1>2, YieldSystemTypes
<1>4. StateTypeOK'
  BY <1>1, <1>2, <1>3 DEF StateTypeOK, timeVars, cpuVars
<1>5. mode' = "boot" /\ current_task' = current_task
  BY <1>1 DEF cpuVars
<1>6. \A u \in Tasks : Away(u)' => lock_count[u] = 0 \/ Point(u, 1) = "back"
  BY <1>1 DEF Control, LockKeepsCPU, Away
<1>7. SemCurrent'
  BY <1>1, <1>3, <1>5 DEF Control, SemCurrent, Away
<1> QED  BY <1>1, <1>4, <1>5, <1>6, <1>7, SystemControl

LEMMA SwitchControl ==
  ASSUME Control, mode \in {"boot", "pendsv"}, SwitchToNext,
         UNCHANGED <<resume_from, lock_count, drift, pc, level, sleep_task_list,
                     timeVars, pend_sv>>
  PROVE  Control' /\ UNCHANGED pc
<1>1. StateTypeOK
  BY DEF Control
<1>2. \A u \in Tasks : Away(u) /\ state[u] # "TO_BE_SUSPENDED"
  BY DEF Control, SemCurrent, Away
<1>3. \A u \in Tasks : lock_count[u] = 0 \/ Point(u, 1) = "back"
  BY <1>2 DEF Control, LockKeepsCPU
<1>4. CASE sch_ready_task_list = <<>>
  <2>1. /\ mode' = "assert" /\ interrupts' = FALSE
        /\ UNCHANGED <<current_task, state, sch_ready_task_list>>
    BY <1>4 DEF SwitchToNext, Halt
  <2>2. StateTypeOK'
    BY <1>1, <2>1 DEF StateTypeOK, timeVars, Modes
  <2>3. SemCurrent'
    BY <1>2, <2>1 DEF SemCurrent
  <2> QED  BY <1>3, <2>1, <2>2, <2>3, SystemControl
<1>5. CASE sch_ready_task_list # <<>>
  <2>1. PICK t : t = Head(sch_ready_task_list)
    OBVIOUS
  <2>2. /\ current_task' = t /\ state' = [state EXCEPT ![t] = "RUNNING"]
        /\ sch_ready_task_list' = Tail(sch_ready_task_list)
        /\ interrupts' = TRUE /\ mode' = "task"
    BY <1>5, <2>1 DEF SwitchToNext
  <2>3. t \in Tasks /\ sch_ready_task_list' \in Seq(Tasks)
    <3>1. sch_ready_task_list \in Seq(Tasks)
      BY <1>1 DEF StateTypeOK
    <3> QED  BY <1>5, <2>1, <2>2, <3>1, HeadTailProperties
  <2>4. /\ state' \in [Tasks -> States] /\ state'[t] = "RUNNING"
        /\ \A u \in Tasks : state'[u] # "TO_BE_SUSPENDED"
    <3>1. state \in [Tasks -> States] /\ "RUNNING" \in States
      BY <1>1 DEF StateTypeOK, States
    <3> QED  BY <1>2, <2>2, <2>3, <3>1
  <2>5. StateTypeOK'
    BY <1>1, <2>2, <2>3, <2>4 DEF StateTypeOK, timeVars, Modes
  <2>6. SemCurrent'
    BY <2>2, <2>3, <2>4 DEF SemCurrent
  <2> QED  BY <1>3, <2>2, <2>3, <2>5, <2>6, SystemControl
<1> QED  BY <1>4, <1>5

LEMMA SaveControl ==
  ASSUME Control, SaveCurrent
  PROVE  Control' /\ UNCHANGED pc
<1>1. /\ mode = "task" /\ interrupts /\ pend_sv /\ pend_sv' = FALSE /\ mode' = "pendsv"
      /\ UNCHANGED <<lock_count, drift, pc, level, sleep_task_list, timeVars,
                     current_task, interrupts>>
  BY DEF SaveCurrent
<1>2. StateTypeOK /\ current_task \in Tasks
  BY <1>1 DEF Control, SemCurrent
<1>3. \A u \in Tasks : lock_count[u] = 0 \/ Point(u, 1) = "back"
  <2> TAKE u \in Tasks
  <2>1. CASE u = current_task
    BY <1>1, <2>1 DEF Control, LockKeepsCPU
  <2>2. CASE u # current_task
    <3>1. Away(u)
      BY <1>1, <2>2 DEF Away
    <3> QED  BY <3>1 DEF Control, LockKeepsCPU
  <2> QED  BY <2>1, <2>2
<1>4. \A u \in Tasks : state[u] = "TO_BE_SUSPENDED" => u = current_task
  BY DEF Control, SemCurrent
<1>5. /\ state' \in [Tasks -> States] /\ resume_from' \in [Tasks -> {"SYSTEM", "SLEEP"}]
      /\ sch_ready_task_list' \in Seq(Tasks)
      /\ \A u \in Tasks : state'[u] # "TO_BE_SUSPENDED"
  <2>1. CASE state[current_task] = "RUNNING" /\ YieldSystem(current_task)
    BY <1>2, <1>4, <2>1, YieldSystemTypes
  <2>2. CASE /\ state[current_task] = "TO_BE_SUSPENDED"
             /\ state' = [state EXCEPT ![current_task] = "SUSPENDED"]
             /\ UNCHANGED <<resume_from, sch_ready_task_list>>
    BY <1>2, <1>4, <2>2 DEF StateTypeOK, States
  <2>3. CASE /\ state[current_task] \notin {"RUNNING", "TO_BE_SUSPENDED"}
             /\ UNCHANGED <<state, resume_from, sch_ready_task_list>>
    BY <1>2, <1>4, <2>3 DEF StateTypeOK
  <2> QED  BY <2>1, <2>2, <2>3 DEF SaveCurrent
<1>6. StateTypeOK'
  BY <1>1, <1>2, <1>5 DEF StateTypeOK, timeVars, Modes
<1>7. SemCurrent'
  BY <1>1, <1>2, <1>5 DEF SemCurrent
<1> QED  BY <1>1, <1>3, <1>6, <1>7, SystemControl

LEMMA WakeControl ==
  ASSUME Control, sleep_process_system_tick
  PROVE  Control' /\ UNCHANGED pc
<1>1. /\ mode = "pendsv"
      /\ UNCHANGED <<lock_count, drift, pc, level, ticks, current_tick, cpuVars>>
  BY DEF sleep_process_system_tick
<1>2. StateTypeOK
  BY DEF Control
<1>3. PICK i, t :
        /\ i \in 1 .. Len(sleep_task_list)
        /\ t = sleep_task_list[i]
        /\ sleep_task_list' = RemoveAt(sleep_task_list, i)
        /\ tick_sleep' = [tick_sleep EXCEPT ![t] = 0]
        /\ state' = [state EXCEPT ![t] = "SLEEP_RESUME"]
        /\ resume_from' = [resume_from EXCEPT ![t] = "SLEEP"]
        /\ sch_ready_task_list' = Enqueued(sch_ready_task_list, t)
        /\ left' = [left EXCEPT ![t] = IF @ > 0 THEN @ ELSE 0]
  BY DEF sleep_process_system_tick
<1>4. t \in Tasks
  BY <1>2, <1>3 DEF StateTypeOK
<1>5. \A u \in Tasks : Away(u) /\ state[u] # "TO_BE_SUSPENDED"
  BY <1>1 DEF Control, SemCurrent, Away
<1>6. /\ state' \in [Tasks -> States] /\ resume_from' \in [Tasks -> {"SYSTEM", "SLEEP"}]
      /\ \A u \in Tasks : state'[u] # "TO_BE_SUSPENDED"
  <2>1. state \in [Tasks -> States] /\ "SLEEP_RESUME" \in States
    BY <1>2 DEF StateTypeOK, States
  <2>2. resume_from \in [Tasks -> {"SYSTEM", "SLEEP"}]
    BY <1>2 DEF StateTypeOK
  <2> QED  BY <1>3, <1>4, <1>5, <2>1, <2>2
<1>7. sch_ready_task_list' \in Seq(Tasks)
  <2>1. PICK later : sch_ready_task_list' = sll_insert(sch_ready_task_list, t, later)
    BY <1>3 DEF Enqueued
  <2>2. sch_ready_task_list \in Seq(Tasks)
    BY <1>2 DEF StateTypeOK
  <2>3. sll_insert(sch_ready_task_list, t, later) \in Seq(Tasks)
    BY <1>4, <2>2, SllInsertMembers
  <2> QED  BY <2>1, <2>3
<1>8. sleep_task_list' \in Seq(Tasks)
  BY <1>2, <1>3, RemoveAtProperties DEF StateTypeOK
<1>9. tick_sleep' \in [Tasks -> 0 .. TickRange - 1] /\ left' \in [Tasks -> Int]
  <2>1. 0 \in 0 .. TickRange - 1
    BY TickAssumption
  <2>2. \A x \in Int : (IF x > 0 THEN x ELSE 0) \in Int
    OBVIOUS
  <2> QED  BY <1>2, <1>3, <1>4, <2>1, <2>2 DEF StateTypeOK
<1>10. StateTypeOK'
  BY <1>1, <1>2, <1>6, <1>7, <1>8, <1>9 DEF StateTypeOK, cpuVars
<1>11. mode' = "pendsv" /\ UNCHANGED <<pc, lock_count, current_task>>
  BY <1>1 DEF cpuVars
<1>12. SemCurrent'
  BY <1>1, <1>6, <1>11 DEF Control, SemCurrent
<1>13. \A u \in Tasks : lock_count[u] = 0 \/ Point(u, 1) = "back"
  BY <1>5 DEF Control, LockKeepsCPU
<1> QED  BY <1>10, <1>11, <1>12, <1>13, SystemControl

LEMMA TickControl ==
  ASSUME Control, isr_sysclock_handle
  PROVE  Control' /\ UNCHANGED pc
<1>1. /\ mode = "task" /\ interrupts
      /\ UNCHANGED <<state, resume_from, lock_count, pc, level, lists, tick_sleep,
                     ticks, current_task>>
  BY DEF isr_sysclock_handle
<1>2. StateTypeOK /\ current_task \in Tasks
  BY <1>1 DEF Control, SemCurrent
<1>3. current_tick' \in 0 .. TickRange - 1 /\ left' \in [Tasks -> Int]
  <2>1. current_tick' \in 0 .. TickRange - 1
    BY <1>2, TickAssumption DEF isr_sysclock_handle, StateTypeOK
  <2>2. left' = [u \in Tasks |-> IF Timed(u) THEN left[u] - 1 ELSE left[u]]
    BY DEF isr_sysclock_handle
  <2>3. \A u \in Tasks : (IF Timed(u) THEN left[u] - 1 ELSE left[u]) \in Int
    BY <1>2 DEF StateTypeOK
  <2> HIDE DEF Timed
  <2> QED  BY <2>1, <2>2, <2>3
<1>4. \/ UNCHANGED <<pend_sv, drift, mode, interrupts>>
      \/ /\ lock_count[current_task] = 0 /\ UNCHANGED <<drift, mode, interrupts>> /\ pend_sv' = TRUE
      \/ mode' = "assert" /\ interrupts' = FALSE /\ UNCHANGED <<pend_sv, drift>>
      \/ drift' = [drift EXCEPT ![current_task] = TRUE] /\ UNCHANGED <<pend_sv, mode, interrupts>>
  BY DEF isr_sysclock_handle, Preempt, Halt
<1>5. /\ drift' \in [Tasks -> BOOLEAN] /\ interrupts' \in BOOLEAN /\ pend_sv' \in BOOLEAN
      /\ mode' \in Modes
  BY <1>2, <1>4 DEF StateTypeOK, Modes
<1>6. StateTypeOK'
  BY <1>1, <1>2, <1>3, <1>5 DEF StateTypeOK, lists
<1>7. \A u \in Tasks : Away(u)' => Away(u)
  BY <1>1, <1>4 DEF Away
<1>8. \A u \in Tasks : Away(u)' => lock_count[u] = 0 \/ Point(u, 1) = "back"
  BY <1>7 DEF Control, LockKeepsCPU
<1>9. mode' = "task" /\ pend_sv' =>
        interrupts' /\ (lock_count[current_task'] = 0 \/ Point(current_task', 1) = "back")
  BY <1>1, <1>4 DEF Control, LockKeepsCPU
<1>10. mode' = "task" => interrupts'
  BY <1>1, <1>4
<1>11. SemCurrent'
  <2>1. \A i : Point(current_task, i)' = Point(current_task, i)
    BY <1>1 DEF Point
  <2>2. mode' = "task" \/ mode' = "assert"
    BY <1>1, <1>4
  <2>3. pend_sv => pend_sv'
    BY <1>4
  <2>4. \A u \in Tasks : state'[u] = "TO_BE_SUSPENDED" => ~ Away(u)' /\ current_task' = u
    BY <1>1, <1>7 DEF Control, SemCurrent
  <2>5. mode' = "task" =>
          /\ state[current_task] \in {"RUNNING", "TO_BE_SUSPENDED", "FINISHED"}
          /\ state[current_task] # "RUNNING" =>
               \/ Point(current_task, 1) = "pend"
               \/ Point(current_task, 1) = "back" /\ pend_sv
    BY <1>1 DEF Control, SemCurrent
  <2> QED  BY <1>1, <1>2, <1>10, <2>1, <2>2, <2>3, <2>4, <2>5 DEF SemCurrent
<1> QED  BY <1>1, <1>6, <1>8, <1>9, <1>10, <1>11, SystemControl

----------------------------------------------------------------------------
(* Control in suspend_condition.                                           *)

LEMMA SuspendPoint ==
  ASSUME Control, NEW t \in Tasks, NEW label \in SuspendLabels, At(t, label)
  PROVE  /\ mode = "task" /\ current_task = t /\ ~ pend_sv
         /\ Point(t, 1) = label /\ Point(t, 2) = "so_take" /\ Point(t, 3) = "user"
         /\ state[t] = "RUNNING" /\ Stacks /\ StateTypeOK
         /\ lock_count[t] \in Nat
         /\ lock_count[t] \in Owes(label) + 1 .. Owes(label) + 1 + MaxUserLock
<1>1. /\ mode = "task" /\ current_task = t /\ ~ pend_sv
      /\ Point(t, 1) = label /\ StackForm(label, Point(t, 2), Point(t, 3))
      /\ label # "pend" => state[t] = "RUNNING"
      /\ Stacks /\ StateTypeOK
  BY ExecFacts
<1>2. label # "pend" /\ Point(t, 2) = "so_take" /\ Point(t, 3) = "user"
  BY <1>1 DEF StackForm, SuspendLabels, ConditionLabels, ResumeLabels, Labels, SemaphoreLabels
<1>3. Owes("so_take") = 1 /\ Owes("user") = 0 /\ Owes(label) \in {0, 1}
  BY DEF Owes, Owing
<1>4. lock_count[t] \in Nat /\ lock_count[t] \in Owes(label) + 1 .. Owes(label) + 1 + MaxUserLock
  BY <1>1, <1>2, <1>3, LockFacts
<1> QED  BY <1>1, <1>2, <1>4

(* suspend_condition goes on, still inside semaphore_obtain.               *)
LEMMA SuspendStep ==
  ASSUME Control, NEW t \in Tasks, NEW label \in SuspendLabels, At(t, label),
         NEW a \in SuspendLabels, Go(t, <<a>>), StateTypeOK',
         UNCHANGED <<state, current_task, pend_sv, mode>>,
         \A u \in Tasks : u # t => lock_count'[u] = lock_count[u],
         lock_count'[t] = lock_count[t] + Owes(a) - Owes(label)
  PROVE  Control' /\ NewStack(t, a, "so_take", "user")
<1>1. /\ mode = "task" /\ current_task = t /\ ~ pend_sv
      /\ Point(t, 1) = label /\ Point(t, 2) = "so_take" /\ Point(t, 3) = "user"
      /\ state[t] = "RUNNING" /\ Stacks
      /\ lock_count[t] \in Nat
      /\ lock_count[t] \in Owes(label) + 1 .. Owes(label) + 1 + MaxUserLock
  BY SuspendPoint
<1>2. a \in Above("so_take") /\ a # "pend" /\ label # "user"
  BY AboveIs DEF SuspendLabels, ConditionLabels
<1>3. NewStack(t, a, "so_take", "user")
  <2>1. Point(t, 1) # "user" /\ a \in Above(Point(t, 2))
    BY <1>1, <1>2
  <2>2. NewStack(t, a, Point(t, 2), Point(t, 3))
    BY <1>1, <2>1, GoStep
  <2> QED  BY <1>1, <2>2
<1>4. /\ Owes("so_take") = 1 /\ Owes("user") = 0 /\ Owes(label) \in {0, 1} /\ Owes(a) \in {0, 1}
      /\ MaxUserLock \in Nat
  BY LockFacts DEF Owes, Owing
<1>5. lock_count'[t] \in Owes(a) + Owes("so_take") + Owes("user") ..
                         Owes(a) + Owes("so_take") + Owes("user") + MaxUserLock
  BY <1>1, <1>4
<1> QED  BY <1>1, <1>2, <1>3, <1>5, StackControl

LEMMA GetMinControl ==
  ASSUME Control, NEW t \in Tasks, suspend_timeout_get_min(t)
  PROVE  Control' /\ NewStack(t, "sc_check", "so_take", "user")
<1>1. /\ At(t, "sc_timeout") /\ Go(t, <<"sc_check">>)
      /\ UNCHANGED <<state, resume_from, lock_count, drift, level, lists, timeVars, cpuVars>>
  BY DEF suspend_timeout_get_min
<1>2. StateTypeOK'
  BY <1>1 DEF Control, StateTypeOK, lists, timeVars, cpuVars
<1>3. "sc_timeout" \in SuspendLabels /\ "sc_check" \in SuspendLabels
  BY DEF SuspendLabels, ConditionLabels, ResumeLabels
<1>4. /\ UNCHANGED <<state, current_task, pend_sv, mode, lock_count>>
      /\ lock_count'[t] = lock_count[t] + Owes("sc_check") - Owes("sc_timeout")
  <2>1. lock_count[t] \in Nat
    BY LockFacts
  <2> QED  BY <1>1, <2>1 DEF cpuVars, Owes, Owing
<1> QED  BY <1>1, <1>2, <1>3, <1>4, SuspendStep

LEMMA DoSuspendControl ==
  ASSUME Control, NEW t \in Tasks, suspend_do_suspend(t)
  PROVE  /\ Control'
         /\ \/ Go(t, <<"sc_append">>) /\ NewStack(t, "sc_append", "so_take", "user")
            \/ Go(t, <<"sc_end">>) /\ NewStack(t, "sc_end", "so_take", "user")
<1>1. /\ At(t, "sc_check")
      /\ UNCHANGED <<state, resume_from, lock_count, drift, level, lists, timeVars, cpuVars>>
  BY DEF suspend_do_suspend
<1>2. StateTypeOK'
  BY <1>1 DEF Control, StateTypeOK, lists, timeVars, cpuVars
<1>3. PICK a \in {"sc_append", "sc_end"} : Go(t, <<a>>)
  BY DEF suspend_do_suspend
<1>4. "sc_check" \in SuspendLabels /\ a \in SuspendLabels
  BY DEF SuspendLabels, ConditionLabels, ResumeLabels
<1>5. /\ UNCHANGED <<state, current_task, pend_sv, mode, lock_count>>
      /\ lock_count'[t] = lock_count[t] + Owes(a) - Owes("sc_check")
  <2>1. lock_count[t] \in Nat
    BY LockFacts
  <2> QED  BY <1>1, <2>1 DEF cpuVars, Owes, Owing
<1>6. Control' /\ NewStack(t, a, "so_take", "user")
  BY <1>1, <1>2, <1>3, <1>4, <1>5, SuspendStep
<1> QED  BY <1>3, <1>6

LEMMA AddTaskControl ==
  ASSUME Control, NEW t \in Tasks, suspend_condition_add_task(t)
  PROVE  Control' /\ NewStack(t, "sc_lock", "so_take", "user")
<1>1. /\ At(t, "sc_append") /\ Go(t, <<"sc_lock">>)
      /\ UNCHANGED <<state, resume_from, lock_count, drift, level, lists, timeVars, cpuVars>>
  BY DEF suspend_condition_add_task
<1>2. StateTypeOK'
  BY <1>1 DEF Control, StateTypeOK, lists, timeVars, cpuVars
<1>3. "sc_append" \in SuspendLabels /\ "sc_lock" \in SuspendLabels
  BY DEF SuspendLabels, ConditionLabels, ResumeLabels
<1>4. /\ UNCHANGED <<state, current_task, pend_sv, mode, lock_count>>
      /\ lock_count'[t] = lock_count[t] + Owes("sc_lock") - Owes("sc_append")
  <2>1. lock_count[t] \in Nat
    BY LockFacts
  <2> QED  BY <1>1, <2>1 DEF cpuVars, Owes, Owing
<1> QED  BY <1>1, <1>2, <1>3, <1>4, SuspendStep

LEMMA SuspendLockControl ==
  ASSUME Control, NEW t \in Tasks, SuspendLock(t)
  PROVE  Control' /\ NewStack(t, "sc_sleep", "so_take", "user")
<1>1. At(t, "sc_lock")
  BY DEF SuspendLock
<1>2. "sc_lock" \in SuspendLabels /\ "sc_sleep" \in SuspendLabels
  BY DEF SuspendLabels, ConditionLabels, ResumeLabels
<1>3. /\ StateTypeOK /\ lock_count[t] \in Nat
      /\ lock_count[t] \in Owes("sc_lock") + 1 .. Owes("sc_lock") + 1 + MaxUserLock
  BY <1>1, <1>2, SuspendPoint
<1>4. lock_count[t] < MaxLock
  BY <1>3, LockAssumption DEF Owes, Owing
<1>5. /\ lock_count' = [lock_count EXCEPT ![t] = @ + 1] /\ Go(t, <<"sc_sleep">>)
      /\ UNCHANGED <<mode, interrupts>>
      /\ UNCHANGED <<state, resume_from, drift, level, lists, timeVars, current_task, pend_sv>>
  <2>1. ~ (lock_count[t] >= MaxLock)
    BY <1>3, <1>4, LockAssumption
  <2> QED  BY <2>1 DEF SuspendLock
<1>6. /\ lock_count' \in [Tasks -> 0 .. MaxLock]
      /\ lock_count'[t] = lock_count[t] + 1
      /\ \A u \in Tasks : u # t => lock_count'[u] = lock_count[u]
  BY <1>3, <1>4, <1>5, LockTypes
<1>7. StateTypeOK'
  BY <1>3, <1>5, <1>6 DEF StateTypeOK, lists, timeVars
<1>8. lock_count'[t] = lock_count[t] + Owes("sc_sleep") - Owes("sc_lock")
  BY <1>3, <1>6 DEF Owes, Owing
<1> QED  BY <1>1, <1>2, <1>5, <1>6, <1>7, <1>8, SuspendStep

LEMMA SuspendSleepControl ==
  ASSUME Control, timeout \in [Tasks -> 0 .. MAX_WAIT], NEW t \in Tasks, SuspendSleep(t)
  PROVE  /\ Control'
         /\ \E a \in {"sc_insert", "sc_suspend"} : NewStack(t, a, "so_take", "user")
<1>1. /\ At(t, "sc_sleep")
      /\ UNCHANGED <<state, resume_from, lock_count, drift, level, lists,
                     current_tick, ticks, cpuVars>>
  BY DEF SuspendSleep
<1>2. StateTypeOK
  BY DEF Control
<1>3. PICK a \in {"sc_insert", "sc_suspend"} :
        /\ Go(t, <<a>>)
        /\ sleep_add_to_list(t, timeout[t]) \/ UNCHANGED <<tick_sleep, left>>
  BY DEF SuspendSleep
<1>4. tick_sleep' \in [Tasks -> 0 .. TickRange - 1] /\ left' \in [Tasks -> Int]
  <2>1. timeout[t] \in Int
    BY TickAssumption DEF MAX_WAIT
  <2>2. (current_tick + timeout[t]) % TickRange \in 0 .. TickRange - 1
    <3>1. \A n \in Int : n % TickRange \in 0 .. TickRange - 1
      BY TickAssumption
    <3>2. current_tick + timeout[t] \in Int
      BY <1>2, <2>1, TickAssumption DEF StateTypeOK
    <3> QED  BY <3>1, <3>2
  <2> QED  BY <1>2, <1>3, <2>1, <2>2 DEF StateTypeOK, sleep_add_to_list
<1>5. StateTypeOK'
  BY <1>1, <1>2, <1>4 DEF StateTypeOK, lists, cpuVars
<1>6. "sc_sleep" \in SuspendLabels /\ a \in SuspendLabels
  BY DEF SuspendLabels, ConditionLabels, ResumeLabels
<1>7. /\ UNCHANGED <<state, current_task, pend_sv, mode, lock_count>>
      /\ lock_count'[t] = lock_count[t] + Owes(a) - Owes("sc_sleep")
  <2>1. lock_count[t] \in Nat
    BY LockFacts
  <2> QED  BY <1>1, <2>1 DEF cpuVars, Owes, Owing
<1>8. Control' /\ NewStack(t, a, "so_take", "user")
  BY <1>1, <1>3, <1>5, <1>6, <1>7, SuspendStep
<1> QED  BY <1>8

LEMMA SuspendInsertControl ==
  ASSUME Control, NEW t \in Tasks, SuspendInsert(t)
  PROVE  Control' /\ NewStack(t, "sc_suspend", "so_take", "user")
<1>1. /\ At(t, "sc_insert") /\ Go(t, <<"sc_suspend">>)
      /\ sleep_task_list' = SleepInserted(t)
      /\ UNCHANGED <<state, resume_from, lock_count, drift, level, sch_ready_task_list,
                     timeVars, cpuVars>>
  BY DEF SuspendInsert
<1>2. StateTypeOK
  BY DEF Control
<1>3. sleep_task_list' \in Seq(Tasks)
  BY <1>1, <1>2, SleepInsertType
<1>4. StateTypeOK'
  BY <1>1, <1>2, <1>3 DEF StateTypeOK, timeVars, cpuVars
<1>5. "sc_insert" \in SuspendLabels /\ "sc_suspend" \in SuspendLabels
  BY DEF SuspendLabels, ConditionLabels, ResumeLabels
<1>6. /\ UNCHANGED <<state, current_task, pend_sv, mode, lock_count>>
      /\ lock_count'[t] = lock_count[t] + Owes("sc_suspend") - Owes("sc_insert")
  <2>1. lock_count[t] \in Nat
    BY LockFacts
  <2> QED  BY <1>1, <2>1 DEF cpuVars, Owes, Owing
<1> QED  BY <1>1, <1>4, <1>5, <1>6, SuspendStep

LEMMA SuspendSwitchControl ==
  ASSUME Control, NEW t \in Tasks, SuspendSwitch(t)
  PROVE  Control' /\ NewStack(t, "pend", "sc_woke", "so_take")
<1>1. At(t, "sc_suspend") /\ "sc_suspend" \in SuspendLabels
  BY DEF SuspendSwitch, SuspendLabels, ConditionLabels, ResumeLabels
<1>2. /\ mode = "task" /\ current_task = t /\ ~ pend_sv
      /\ Point(t, 1) = "sc_suspend" /\ Point(t, 2) = "so_take" /\ Point(t, 3) = "user"
      /\ state[t] = "RUNNING" /\ Stacks /\ StateTypeOK
      /\ lock_count[t] \in Owes("sc_suspend") + 1 .. Owes("sc_suspend") + 1 + MaxUserLock
  BY <1>1, SuspendPoint
<1>3. /\ state' = [state EXCEPT ![t] = "TO_BE_SUSPENDED"] /\ interrupts'
      /\ level' = [level EXCEPT ![t] = interrupts] /\ Go(t, <<"pend", "sc_woke">>)
      /\ UNCHANGED <<resume_from, lock_count, drift, lists, timeVars, current_task, pend_sv, mode>>
  BY DEF SuspendSwitch, ControlToSystem
<1>4. "sc_woke" \in Above("so_take") /\ "pend" \in Above("sc_woke")
  BY AboveIs DEF ConditionLabels, ResumeLabels
<1>5. NewStack(t, "pend", "sc_woke", "so_take")
  <2>1. Point(t, 1) # "user" /\ "sc_woke" \in Above(Point(t, 2))
    BY <1>2, <1>4
  <2>2. NewStack(t, "pend", "sc_woke", Point(t, 2))
    BY <1>2, <1>3, <1>4, <2>1, GoPush
  <2> QED  BY <1>2, <2>2
<1>6. StateTypeOK'
  <2>1. state' \in [Tasks -> States]
    BY <1>2, <1>3 DEF StateTypeOK, States
  <2>2. level' \in [Tasks -> BOOLEAN] /\ interrupts' \in BOOLEAN
    BY <1>2, <1>3 DEF StateTypeOK, SuspendSwitch, ControlToSystem
  <2> QED  BY <1>2, <1>3, <2>1, <2>2 DEF StateTypeOK, lists, timeVars
<1>7. lock_count[t] \in Owes("sc_woke") + Owes("so_take") .. Owes("sc_woke") + Owes("so_take") + MaxUserLock
  BY <1>2 DEF Owes, Owing
<1> QED  BY <1>2, <1>3, <1>5, <1>6, <1>7, SwitchAwayControl

(* A step that only moves the program point and touches no kernel state,   *)
(* or at which an assertion fails.                                         *)
LEMMA SuspendMove ==
  ASSUME Control, NEW t \in Tasks, NEW label \in SuspendLabels, At(t, label),
         NEW a \in SuspendLabels, Owes(a) = Owes(label),
         UNCHANGED <<state, resume_from, lock_count, drift, level, lists, timeVars,
                     current_task, pend_sv>>,
         \/ Go(t, <<a>>) /\ UNCHANGED <<mode, interrupts>>
         \/ Halt /\ UNCHANGED pc
  PROVE  /\ Control'
         /\ \/ Go(t, <<a>>) /\ UNCHANGED mode /\ NewStack(t, a, "so_take", "user")
            \/ mode' = "assert" /\ UNCHANGED pc
<1>1. mode = "task" /\ StateTypeOK /\ lock_count[t] \in Nat
  BY SuspendPoint
<1>2. StateTypeOK'
  BY <1>1 DEF StateTypeOK, lists, timeVars, Halt, Modes
<1>3. CASE Go(t, <<a>>) /\ UNCHANGED <<mode, interrupts>>
  <2>1. lock_count'[t] = lock_count[t] + Owes(a) - Owes(label)
    <3>1. Owes(a) \in {0, 1}
      BY DEF Owes
    <3> QED  BY <1>1, <3>1
  <2>2. Control' /\ NewStack(t, a, "so_take", "user")
    BY <1>2, <1>3, <2>1, SuspendStep
  <2> QED  BY <1>3, <2>2
<1>4. CASE Halt /\ UNCHANGED pc
  <2>1. mode' = "assert"
    BY <1>4 DEF Halt
  <2> QED  BY <1>1, <1>2, <1>4, <2>1, HaltControl
<1> QED  BY <1>3, <1>4

LEMMA RemoveAllControl ==
  ASSUME Control, NEW t \in Tasks, suspend_condition_remove_all(t)
  PROVE  /\ Control'
         /\ \/ Go(t, <<"sc_end">>) /\ UNCHANGED mode /\ NewStack(t, "sc_end", "so_take", "user")
            \/ mode' = "assert" /\ UNCHANGED pc
<1>1. /\ At(t, "sc_done")
      /\ UNCHANGED <<state, resume_from, lock_count, drift, level, lists, timeVars,
                     current_task, pend_sv>>
      /\ \/ Go(t, <<"sc_end">>) /\ UNCHANGED <<mode, interrupts>>
         \/ Halt /\ UNCHANGED pc
  BY DEF suspend_condition_remove_all
<1>2. "sc_done" \in SuspendLabels /\ "sc_end" \in SuspendLabels /\ Owes("sc_end") = Owes("sc_done")
  BY DEF SuspendLabels, ConditionLabels, ResumeLabels, Owes, Owing
<1> QED  BY <1>1, <1>2, SuspendMove

LEMMA RemoveControl ==
  ASSUME Control, NEW t \in Tasks, suspend_condition_remove(t)
  PROVE  /\ Control'
         /\ \/ Go(t, <<"sc_end">>) /\ UNCHANGED mode /\ NewStack(t, "sc_end", "so_take", "user")
            \/ Go(t, <<"sc_check">>) /\ UNCHANGED mode /\ NewStack(t, "sc_check", "so_take", "user")
            \/ mode' = "assert" /\ UNCHANGED pc
<1>1. /\ At(t, "sc_done")
      /\ UNCHANGED <<state, resume_from, lock_count, drift, level, lists, timeVars,
                     current_task, pend_sv>>
  BY DEF suspend_condition_remove
<1>5. \/ Go(t, <<"sc_end">>) /\ UNCHANGED <<mode, interrupts>>
      \/ Go(t, <<"sc_check">>) /\ UNCHANGED <<mode, interrupts>>
      \/ Halt /\ UNCHANGED pc
  BY DEF suspend_condition_remove
<1>2. /\ "sc_done" \in SuspendLabels /\ "sc_end" \in SuspendLabels /\ "sc_check" \in SuspendLabels
      /\ Owes("sc_end") = Owes("sc_done") /\ Owes("sc_check") = Owes("sc_done")
  BY DEF SuspendLabels, ConditionLabels, ResumeLabels, Owes, Owing
<1>3. CASE \/ Go(t, <<"sc_end">>) /\ UNCHANGED <<mode, interrupts>>
           \/ Halt /\ UNCHANGED pc
  BY <1>1, <1>2, <1>3, SuspendMove
<1>4. CASE Go(t, <<"sc_check">>) /\ UNCHANGED <<mode, interrupts>>
  BY <1>1, <1>2, <1>4, SuspendMove
<1> QED  BY <1>3, <1>4, <1>5

LEMMA WokeControl ==
  ASSUME Control, NEW t \in Tasks, SuspendWoke(t)
  PROVE  /\ Control'
         /\ \/ UNCHANGED mode /\ NewStack(t, "unlock", "sc_done", "so_take")
            \/ mode' = "assert" /\ UNCHANGED pc
<1>1. At(t, "sc_woke") /\ "sc_woke" \in SuspendLabels
  BY DEF SuspendWoke, SuspendLabels, ConditionLabels, ResumeLabels
<1>2. /\ mode = "task" /\ current_task = t /\ ~ pend_sv
      /\ Point(t, 1) = "sc_woke" /\ Point(t, 2) = "so_take" /\ Point(t, 3) = "user"
      /\ state[t] = "RUNNING" /\ Stacks /\ StateTypeOK
      /\ lock_count[t] \in Owes("sc_woke") + 1 .. Owes("sc_woke") + 1 + MaxUserLock
  BY <1>1, SuspendPoint
<1>3. UNCHANGED <<state, resume_from, lock_count, drift, level, sch_ready_task_list,
                  current_tick, ticks, current_task, pend_sv>>
  BY DEF SuspendWoke
<1>4. \/ Halt /\ UNCHANGED <<sleep_task_list, tick_sleep, left, pc>>
      \/ /\ Go(t, <<"unlock", "sc_done">>) /\ UNCHANGED <<mode, interrupts>>
         /\ \/ UNCHANGED <<sleep_task_list, tick_sleep, left>>
            \/ /\ sleep_task_list' = sll_remove(sleep_task_list, t)
               /\ tick_sleep' = [tick_sleep EXCEPT ![t] = 0]
               /\ left' = [left EXCEPT ![t] = 0]
  BY Zenon DEF SuspendWoke
<1>5. sleep_task_list' \in Seq(Tasks)
  <2>1. sleep_task_list \in Seq(Tasks)
    BY <1>2 DEF StateTypeOK
  <2> QED  BY <1>4, <2>1, SllRemoveMembers
<1>6. tick_sleep' \in [Tasks -> 0 .. TickRange - 1] /\ left' \in [Tasks -> Int]
  <2>1. 0 \in 0 .. TickRange - 1 /\ 0 \in Int
    BY TickAssumption
  <2> QED  BY <1>2, <1>4, <2>1 DEF StateTypeOK
<1>7. mode' \in Modes /\ interrupts' \in BOOLEAN
  BY <1>2, <1>4 DEF Halt, StateTypeOK, Modes
<1>8. StateTypeOK'
  BY <1>2, <1>3, <1>5, <1>6, <1>7 DEF StateTypeOK
<1>9. CASE Halt /\ UNCHANGED <<sleep_task_list, tick_sleep, left, pc>>
  <2>1. mode' = "assert"
    BY <1>9 DEF Halt
  <2> QED  BY <1>2, <1>3, <1>8, <1>9, <2>1, HaltControl
<1>10. CASE Go(t, <<"unlock", "sc_done">>) /\ UNCHANGED <<mode, interrupts>>
  <2>1. "sc_done" \in Above("so_take") /\ "unlock" \in Above("sc_done")
    BY AboveIs DEF ConditionLabels, ResumeLabels
  <2>2. NewStack(t, "unlock", "sc_done", "so_take")
    <3>1. Point(t, 1) # "user" /\ "sc_done" \in Above(Point(t, 2))
      BY <1>2, <2>1
    <3>2. NewStack(t, "unlock", "sc_done", Point(t, 2))
      BY <1>2, <1>10, <2>1, <3>1, GoPush
    <3> QED  BY <1>2, <3>2
  <2>3. lock_count'[t] \in Owes("unlock") + Owes("sc_done") + Owes("so_take") ..
                           Owes("unlock") + Owes("sc_done") + Owes("so_take") + MaxUserLock
    BY <1>2, <1>3 DEF Owes, Owing
  <2>4. Control'
    BY <1>2, <1>3, <1>8, <1>10, <2>2, <2>3, StackControl
  <2> QED  BY <1>10, <2>2, <2>4
<1> QED  BY <1>4, <1>9, <1>10

LEMMA ReturnControl ==
  ASSUME Control, NEW t \in Tasks, SuspendReturn(t)
  PROVE  Control' /\ NewStack(t, "so_take", "user", "user")
<1>1. At(t, "sc_end") /\ "sc_end" \in SuspendLabels
  BY DEF SuspendReturn, SuspendLabels, ConditionLabels, ResumeLabels
<1>2. /\ mode = "task" /\ current_task = t /\ ~ pend_sv
      /\ Point(t, 1) = "sc_end" /\ Point(t, 2) = "so_take" /\ Point(t, 3) = "user"
      /\ state[t] = "RUNNING" /\ Stacks /\ StateTypeOK
      /\ lock_count[t] \in Owes("sc_end") + 1 .. Owes("sc_end") + 1 + MaxUserLock
  BY <1>1, SuspendPoint
<1>3. /\ Go(t, <<>>)
      /\ UNCHANGED <<state, resume_from, lock_count, drift, level, lists, timeVars, cpuVars>>
  BY DEF SuspendReturn
<1>4. StateTypeOK'
  BY <1>2, <1>3 DEF StateTypeOK, lists, timeVars, cpuVars
<1>5. NewStack(t, "so_take", "user", "user")
  <2>1. NewStack(t, Point(t, 2), Point(t, 3), "user")
    BY <1>2, <1>3, GoPop
  <2> QED  BY <1>2, <2>1
<1>6. lock_count'[t] \in Owes("so_take") + Owes("user") + Owes("user") ..
                         Owes("so_take") + Owes("user") + Owes("user") + MaxUserLock
  BY <1>2, <1>3 DEF Owes, Owing
<1>7. UNCHANGED <<state, current_task, pend_sv, mode, lock_count>>
  BY <1>3 DEF cpuVars
<1> QED  BY <1>2, <1>4, <1>5, <1>6, <1>7, StackControl

----------------------------------------------------------------------------
(* Control in resume_condition.                                            *)

LEMMA ResumePoint ==
  ASSUME Control, NEW t \in Tasks, NEW label \in ResumeLabels, At(t, label)
  PROVE  /\ mode = "task" /\ current_task = t /\ ~ pend_sv
         /\ Point(t, 1) = label /\ Point(t, 2) \in {"unlock", "sd_clear"}
         /\ Point(t, 3) = "user"
         /\ state[t] = "RUNNING" /\ Stacks /\ StateTypeOK
         /\ lock_count[t] \in Nat
         /\ lock_count[t] \in Owes(label) + Owes(Point(t, 2)) ..
                              Owes(label) + Owes(Point(t, 2)) + MaxUserLock
<1>1. /\ mode = "task" /\ current_task = t /\ ~ pend_sv
      /\ Point(t, 1) = label /\ StackForm(label, Point(t, 2), Point(t, 3))
      /\ label # "pend" => state[t] = "RUNNING"
      /\ Stacks /\ StateTypeOK
  BY ExecFacts
<1>2. label # "pend" /\ Point(t, 2) \in {"unlock", "sd_clear"} /\ Point(t, 3) = "user"
  BY <1>1 DEF StackForm, SuspendLabels, ConditionLabels, ResumeLabels, Labels, SemaphoreLabels
<1>3. Owes("user") = 0 /\ Owes(Point(t, 2)) \in {0, 1} /\ Owes(label) \in {0, 1}
  BY DEF Owes, Owing
<1>4. /\ lock_count[t] \in Nat
      /\ lock_count[t] \in Owes(label) + Owes(Point(t, 2)) ..
                           Owes(label) + Owes(Point(t, 2)) + MaxUserLock
  BY <1>1, <1>2, <1>3, LockFacts
<1> QED  BY <1>1, <1>2, <1>4

LEMMA ResumeLockControl ==
  ASSUME Control, NEW t \in Tasks, ResumeLock(t)
  PROVE  Control' /\ NewStack(t, "rc_loop", Point(t, 2), "user")
<1>1. At(t, "rc_lock") /\ "rc_lock" \in ResumeLabels
  BY DEF ResumeLock, ResumeLabels
<1>2. /\ mode = "task" /\ current_task = t /\ ~ pend_sv
      /\ Point(t, 1) = "rc_lock" /\ Point(t, 2) \in {"unlock", "sd_clear"}
      /\ Point(t, 3) = "user"
      /\ state[t] = "RUNNING" /\ Stacks /\ StateTypeOK
      /\ lock_count[t] \in Nat
      /\ lock_count[t] \in Owes("rc_lock") + Owes(Point(t, 2)) ..
                           Owes("rc_lock") + Owes(Point(t, 2)) + MaxUserLock
  BY <1>1, ResumePoint
<1>3. /\ Owes("rc_lock") = 0 /\ Owes("rc_loop") = 1 /\ Owes("user") = 0
      /\ Owes(Point(t, 2)) \in {0, 1}
  BY DEF Owes, Owing
<1>4. lock_count[t] < MaxLock
  BY <1>2, <1>3, LockAssumption
<1>5. /\ lock_count' = [lock_count EXCEPT ![t] = @ + 1] /\ Go(t, <<"rc_loop">>)
      /\ UNCHANGED <<mode, interrupts>>
      /\ UNCHANGED <<state, resume_from, drift, level, lists, timeVars, current_task, pend_sv>>
  <2>1. ~ (lock_count[t] >= MaxLock)
    BY <1>2, <1>4, LockAssumption
  <2> QED  BY <2>1 DEF ResumeLock
<1>6. /\ lock_count' \in [Tasks -> 0 .. MaxLock]
      /\ lock_count'[t] = lock_count[t] + 1
      /\ \A u \in Tasks : u # t => lock_count'[u] = lock_count[u]
  BY <1>2, <1>4, <1>5, LockTypes
<1>7. StateTypeOK'
  BY <1>2, <1>5, <1>6 DEF StateTypeOK, lists, timeVars
<1>8. NewStack(t, "rc_loop", Point(t, 2), "user")
  <2>1. "rc_loop" \in Above(Point(t, 2))
    BY <1>2, AboveIs DEF ResumeLabels
  <2>2. NewStack(t, "rc_loop", Point(t, 2), Point(t, 3))
    BY <1>2, <1>5, <2>1, GoStep
  <2> QED  BY <1>2, <2>2
<1>9. lock_count'[t] \in Owes("rc_loop") + Owes(Point(t, 2)) + Owes("user") ..
                         Owes("rc_loop") + Owes(Point(t, 2)) + Owes("user") + MaxUserLock
  BY <1>2, <1>3, <1>6, LockAssumption
<1> QED  BY <1>2, <1>5, <1>6, <1>7, <1>8, <1>9, StackControl

LEMMA ResumeUnlockControl ==
  ASSUME Control, NEW t \in Tasks, ResumeUnlock(t)
  PROVE  Control' /\ NewStack(t, "unlock", "rc_yield", Point(t, 2))
<1>1. At(t, "rc_loop") /\ "rc_loop" \in ResumeLabels
  BY DEF ResumeUnlock, ResumeLabels
<1>2. /\ mode = "task" /\ current_task = t /\ ~ pend_sv
      /\ Point(t, 1) = "rc_loop" /\ Point(t, 2) \in {"unlock", "sd_clear"}
      /\ Point(t, 3) = "user"
      /\ state[t] = "RUNNING" /\ Stacks /\ StateTypeOK
      /\ lock_count[t] \in Nat
      /\ lock_count[t] \in Owes("rc_loop") + Owes(Point(t, 2)) ..
                           Owes("rc_loop") + Owes(Point(t, 2)) + MaxUserLock
  BY <1>1, ResumePoint
<1>3. /\ Go(t, <<"unlock", "rc_yield">>)
      /\ UNCHANGED <<state, resume_from, lock_count, drift, level, lists, timeVars, cpuVars>>
  BY DEF ResumeUnlock
<1>4. StateTypeOK'
  BY <1>2, <1>3 DEF StateTypeOK, lists, timeVars, cpuVars
<1>5. NewStack(t, "unlock", "rc_yield", Point(t, 2))
  <2>1. "rc_yield" \in Above(Point(t, 2)) /\ "unlock" \in Above("rc_yield")
    BY <1>2, AboveIs DEF ResumeLabels
  <2> QED  BY <1>2, <1>3, <2>1, GoPush
<1>6. /\ Owes("rc_loop") = 1 /\ Owes("unlock") = 1 /\ Owes("rc_yield") = 0
      /\ Owes(Point(t, 2)) \in {0, 1}
  BY DEF Owes, Owing
<1>7. lock_count'[t] \in Owes("unlock") + Owes("rc_yield") + Owes(Point(t, 2)) ..
                         Owes("unlock") + Owes("rc_yield") + Owes(Point(t, 2)) + MaxUserLock
  BY <1>2, <1>3, <1>6
<1>8. UNCHANGED <<state, current_task, pend_sv, mode, lock_count>>
  BY <1>3 DEF cpuVars
<1> QED  BY <1>2, <1>4, <1>5, <1>7, <1>8, StackControl

LEMMA ResumeYieldControl ==
  ASSUME Control, NEW t \in Tasks, ResumeYield(t)
  PROVE  /\ Control'
         /\ \/ NewStack(t, "pend", "rc_back", Point(t, 2))
            \/ NewStack(t, "rc_back", Point(t, 2), "user")
<1>1. At(t, "rc_yield") /\ "rc_yield" \in ResumeLabels
  BY DEF ResumeYield, ResumeLabels
<1>2. /\ mode = "task" /\ current_task = t /\ ~ pend_sv
      /\ Point(t, 1) = "rc_yield" /\ Point(t, 2) \in {"unlock", "sd_clear"}
      /\ Point(t, 3) = "user"
      /\ state[t] = "RUNNING" /\ Stacks /\ StateTypeOK
      /\ lock_count[t] \in Nat
      /\ lock_count[t] \in Owes("rc_yield") + Owes(Point(t, 2)) ..
                           Owes("rc_yield") + Owes(Point(t, 2)) + MaxUserLock
  BY <1>1, ResumePoint
<1>3. /\ drift' = [drift EXCEPT ![t] = @ \/ (resuming[t].yield /\ lock_count[t] > 0)]
      /\ UNCHANGED <<state, resume_from, lock_count, lists, timeVars, current_task,
                     pend_sv, mode>>
  BY DEF ResumeYield
<1>4. /\ Owes("rc_yield") = 0 /\ Owes("rc_back") = 0 /\ Owes("pend") = 0 /\ Owes("user") = 0
      /\ Owes(Point(t, 2)) \in {0, 1}
  BY DEF Owes, Owing
<1>5. drift' \in [Tasks -> BOOLEAN]
  <2>1. drift \in [Tasks -> BOOLEAN]
    BY <1>2 DEF StateTypeOK
  <2>2. (drift[t] \/ (resuming[t].yield /\ lock_count[t] > 0)) \in BOOLEAN
    OBVIOUS
  <2> QED  BY <1>3, <2>1, <2>2
<1>6. CASE Go(t, <<"pend", "rc_back">>) /\ ControlToSystem(t, interrupts)
  <2>1. interrupts' /\ level' \in [Tasks -> BOOLEAN] /\ interrupts' \in BOOLEAN
    BY <1>2, <1>6 DEF ControlToSystem, StateTypeOK
  <2>2. StateTypeOK'
    BY <1>2, <1>3, <1>5, <2>1 DEF StateTypeOK, lists, timeVars
  <2>3. NewStack(t, "pend", "rc_back", Point(t, 2))
    <3>1. "rc_back" \in Above(Point(t, 2)) /\ "pend" \in Above("rc_back")
      BY <1>2, AboveIs DEF ResumeLabels
    <3> QED  BY <1>2, <1>6, <3>1, GoPush
  <2>4. lock_count'[t] \in Owes("pend") + Owes("rc_back") + Owes(Point(t, 2)) ..
                           Owes("pend") + Owes("rc_back") + Owes(Point(t, 2)) + MaxUserLock
    BY <1>2, <1>3, <1>4
  <2> QED  BY <1>2, <1>3, <2>1, <2>2, <2>3, <2>4, StackControl
<1>7. CASE Go(t, <<"rc_back">>) /\ UNCHANGED <<interrupts, level>>
  <2>1. StateTypeOK'
    BY <1>2, <1>3, <1>5, <1>7 DEF StateTypeOK, lists, timeVars
  <2>2. NewStack(t, "rc_back", Point(t, 2), "user")
    <3>1. "rc_back" \in Above(Point(t, 2))
      BY <1>2, AboveIs DEF ResumeLabels
    <3>2. NewStack(t, "rc_back", Point(t, 2), Point(t, 3))
      BY <1>2, <1>7, <3>1, GoStep
    <3> QED  BY <1>2, <3>2
  <2>3. lock_count'[t] \in Owes("rc_back") + Owes(Point(t, 2)) + Owes("user") ..
                           Owes("rc_back") + Owes(Point(t, 2)) + Owes("user") + MaxUserLock
    BY <1>2, <1>3, <1>4
  <2> QED  BY <1>2, <1>3, <2>1, <2>2, <2>3, StackControl
<1> QED  BY <1>6, <1>7 DEF ResumeYield

LEMMA ResumeReturnControl ==
  ASSUME Control, NEW t \in Tasks, ResumeReturn(t)
  PROVE  Control' /\ NewStack(t, Point(t, 2), "user", "user")
<1>1. At(t, "rc_back") /\ "rc_back" \in ResumeLabels
  BY DEF ResumeReturn, ResumeLabels
<1>2. /\ mode = "task" /\ current_task = t /\ ~ pend_sv
      /\ Point(t, 1) = "rc_back" /\ Point(t, 2) \in {"unlock", "sd_clear"}
      /\ Point(t, 3) = "user"
      /\ state[t] = "RUNNING" /\ Stacks /\ StateTypeOK
      /\ lock_count[t] \in Nat
      /\ lock_count[t] \in Owes("rc_back") + Owes(Point(t, 2)) ..
                           Owes("rc_back") + Owes(Point(t, 2)) + MaxUserLock
  BY <1>1, ResumePoint
<1>3. /\ Go(t, <<>>)
      /\ UNCHANGED <<state, resume_from, lock_count, drift, level, lists, timeVars, cpuVars>>
  BY DEF ResumeReturn
<1>4. StateTypeOK'
  BY <1>2, <1>3 DEF StateTypeOK, lists, timeVars, cpuVars
<1>5. NewStack(t, Point(t, 2), "user", "user")
  <2>1. NewStack(t, Point(t, 2), Point(t, 3), "user")
    BY <1>2, <1>3, GoPop
  <2> QED  BY <1>2, <2>1
<1>6. Owes("rc_back") = 0 /\ Owes("user") = 0 /\ Owes(Point(t, 2)) \in {0, 1}
  BY DEF Owes, Owing
<1>7. lock_count'[t] \in Owes(Point(t, 2)) + Owes("user") + Owes("user") ..
                         Owes(Point(t, 2)) + Owes("user") + Owes("user") + MaxUserLock
  BY <1>2, <1>3, <1>6
<1>8. UNCHANGED <<state, current_task, pend_sv, mode, lock_count>> /\ Point(t, 2) # "pend"
  BY <1>2, <1>3 DEF cpuVars
<1> QED  BY <1>2, <1>4, <1>5, <1>7, <1>8, StackControl

(* The condition a task resumes waiting tasks of.                          *)
Resuming == \A t \in Tasks : Resumes(t) => resuming[t].cond \in Conditions

LEMMA ResumedTask ==
  ASSUME Control, Resuming, suspend_list \in [Conditions -> Seq(Tasks)],
         NEW t \in Tasks, ResumeOne(t)
  PROVE  /\ resuming[t].cond \in Conditions
         /\ Head(suspend_list[resuming[t].cond]) \in Tasks
         /\ suspend_list[resuming[t].cond] # <<>>
<1>1. At(t, "rc_loop") /\ suspend_list[resuming[t].cond] # <<>> /\ "rc_loop" \in ResumeLabels
  BY DEF ResumeOne, ResumeLabels
<1>2. Point(t, 1) = "rc_loop"
  BY <1>1, ResumePoint
<1>3. Resumes(t)
  BY <1>1, <1>2 DEF Resumes, Calling
<1>4. resuming[t].cond \in Conditions
  BY <1>3 DEF Resuming
<1> QED  BY <1>1, <1>4, HeadTailProperties

LEMMA ResumeOneControl ==
  ASSUME Control, Resuming, suspend_list \in [Conditions -> Seq(Tasks)],
         NEW t \in Tasks, ResumeOne(t)
  PROVE  Control' /\ UNCHANGED pc
<1>1. At(t, "rc_loop") /\ "rc_loop" \in ResumeLabels
  BY DEF ResumeOne, ResumeLabels
<1>2. /\ mode = "task" /\ current_task = t /\ ~ pend_sv
      /\ Point(t, 1) = "rc_loop" /\ Point(t, 2) \in {"unlock", "sd_clear"}
      /\ Point(t, 3) = "user"
      /\ state[t] = "RUNNING" /\ Stacks /\ StateTypeOK
  BY <1>1, ResumePoint
<1>3. PICK w \in Tasks : w = Head(suspend_list[resuming[t].cond])
  BY ResumedTask
<1>4. UNCHANGED <<lock_count, drift, pc, level, sleep_task_list, timeVars, cpuVars>>
  BY DEF ResumeOne
<1>5. \/ /\ state[w] \in {"SUSPENDED", "TO_BE_SUSPENDED"} /\ YieldSystem(w)
      \/ UNCHANGED <<state, resume_from, sch_ready_task_list>>
  BY <1>3 DEF ResumeOne, IsWaiting
<1>6. /\ state' \in [Tasks -> States] /\ resume_from' \in [Tasks -> {"SYSTEM", "SLEEP"}]
      /\ sch_ready_task_list' \in Seq(Tasks)
      /\ state'[t] = "RUNNING"
      /\ \A v \in Tasks : v # t => state'[v] = state[v] \/ state'[v] = "RESUME"
  <2>1. CASE /\ state[w] \in {"SUSPENDED", "TO_BE_SUSPENDED"} /\ YieldSystem(w)
    <3>1. w # t
      BY <1>2, <2>1
    <3> QED  BY <1>2, <2>1, <3>1, YieldSystemTypes
  <2>2. CASE UNCHANGED <<state, resume_from, sch_ready_task_list>>
    BY <1>2, <2>2 DEF StateTypeOK
  <2> QED  BY <1>5, <2>1, <2>2
<1>7. StateTypeOK'
  BY <1>2, <1>4, <1>6 DEF StateTypeOK, timeVars, cpuVars
<1>8. /\ Stacks'
      /\ \A u \in Tasks : /\ Point(u, 1)' = Point(u, 1) /\ Point(u, 2)' = Point(u, 2)
                          /\ Point(u, 3)' = Point(u, 3)
  BY <1>2, <1>4, StacksUnchanged
<1>9. lock_count'[t] \in Owed(t)' .. Owed(t)' + MaxUserLock
  <2>1. Owed(t)' = Owed(t)
    BY <1>8 DEF Owed
  <2> QED  BY <1>4, <2>1 DEF Control, SemLocks
<1>10. UNCHANGED <<current_task, pend_sv, mode, lock_count>>
  BY <1>4 DEF cpuVars
<1>11. Point(t, 1)' # "pend"
  BY <1>2, <1>8
<1> QED  BY <1>2, <1>4, <1>6, <1>7, <1>8, <1>9, <1>10, <1>11, TaskControl

----------------------------------------------------------------------------
(* Control in the semaphore functions.                                     *)

LEMMA SemaphorePoint ==
  ASSUME Control, NEW t \in Tasks, NEW label \in SemaphoreLabels, At(t, label)
  PROVE  /\ mode = "task" /\ current_task = t /\ ~ pend_sv
         /\ Point(t, 1) = label /\ Point(t, 2) = "user" /\ Point(t, 3) = "user"
         /\ state[t] = "RUNNING" /\ Stacks /\ StateTypeOK
         /\ lock_count[t] \in Nat
         /\ lock_count[t] \in Owes(label) .. Owes(label) + MaxUserLock
<1>1. /\ mode = "task" /\ current_task = t /\ ~ pend_sv
      /\ Point(t, 1) = label /\ StackForm(label, Point(t, 2), Point(t, 3))
      /\ label # "pend" => state[t] = "RUNNING"
      /\ Stacks /\ StateTypeOK
  BY ExecFacts
<1>2. label # "pend" /\ Point(t, 2) = "user" /\ Point(t, 3) = "user"
  BY <1>1 DEF StackForm, SuspendLabels, ConditionLabels, ResumeLabels, Labels, SemaphoreLabels
<1>3. Owes("user") = 0 /\ Owes(label) \in {0, 1}
  BY DEF Owes, Owing
<1>4. lock_count[t] \in Nat /\ lock_count[t] \in Owes(label) .. Owes(label) + MaxUserLock
  BY <1>1, <1>2, <1>3, LockFacts
<1> QED  BY <1>1, <1>2, <1>4

LEMMA EnterControl ==
  ASSUME Control, NEW t \in Tasks, NEW s, NEW label \in {"so_test", "sr_inc"},
         EnterLocked(t, s, label)
  PROVE  Control' /\ NewStack(t, label, "user", "user")
<1>1. /\ mode = "task" /\ current_task = t /\ ~ pend_sv
      /\ Point(t, 1) = "user" /\ state[t] = "RUNNING" /\ Stacks /\ StateTypeOK
      /\ lock_count[t] \in 0 .. MaxUserLock
  BY UserFacts DEF EnterLocked
<1>2. lock_count[t] < MaxLock /\ lock_count[t] \in Nat /\ MaxUserLock \in Nat
  BY <1>1, LockAssumption
<1>3. /\ lock_count' = [lock_count EXCEPT ![t] = @ + 1] /\ Go(t, <<label, "user">>)
      /\ UNCHANGED <<mode, interrupts>>
      /\ UNCHANGED <<state, resume_from, drift, level, lists, timeVars,
                     current_task, pend_sv>>
  <2>1. ~ (lock_count[t] >= MaxLock)
    BY <1>2, LockAssumption
  <2> QED  BY <2>1 DEF EnterLocked
<1>4. label \in Above("user")
  BY AboveIs DEF SemaphoreLabels
<1>5. NewStack(t, label, "user", "user")
  BY <1>1, <1>3, <1>4, GoCall
<1>6. /\ lock_count' \in [Tasks -> 0 .. MaxLock]
      /\ lock_count'[t] = lock_count[t] + 1
      /\ \A u \in Tasks : u # t => lock_count'[u] = lock_count[u]
  BY <1>1, <1>2, <1>3, LockTypes
<1>7. StateTypeOK'
  BY <1>1, <1>3, <1>6 DEF StateTypeOK, lists, timeVars
<1>8. lock_count'[t] \in Owes(label) + Owes("user") + Owes("user") ..
                         Owes(label) + Owes("user") + Owes("user") + MaxUserLock
  BY <1>1, <1>2, <1>6 DEF Owes, Owing
<1> QED  BY <1>1, <1>3, <1>5, <1>6, <1>7, <1>8, StackControl

LEMMA ObtainTestControl ==
  ASSUME Control, NEW t \in Tasks, ObtainTest(t)
  PROVE  /\ Control'
         /\ \/ Go(t, <<"so_take">>) /\ NewStack(t, "so_take", "user", "user")
            \/ Go(t, <<"sc_timeout", "so_take">>) /\ NewStack(t, "sc_timeout", "so_take", "user")
<1>1. At(t, "so_test") /\ "so_test" \in SemaphoreLabels
  BY DEF ObtainTest, SemaphoreLabels
<1>2. /\ mode = "task" /\ current_task = t /\ ~ pend_sv
      /\ Point(t, 1) = "so_test" /\ Point(t, 2) = "user" /\ Point(t, 3) = "user"
      /\ state[t] = "RUNNING" /\ Stacks /\ StateTypeOK
      /\ lock_count[t] \in Owes("so_test") .. Owes("so_test") + MaxUserLock
  BY <1>1, SemaphorePoint
<1>3. UNCHANGED <<state, resume_from, lock_count, drift, level, lists, timeVars, cpuVars>>
  BY DEF ObtainTest
<1>4. StateTypeOK'
  BY <1>2, <1>3 DEF StateTypeOK, lists, timeVars, cpuVars
<1>5. UNCHANGED <<state, current_task, pend_sv, mode, lock_count>>
  BY <1>3 DEF cpuVars
<1>6. CASE Go(t, <<"so_take">>)
  <2>1. "so_take" \in Above("user") /\ Point(t, 1) # "user"
    BY <1>2, AboveIs DEF SemaphoreLabels
  <2>2. NewStack(t, "so_take", "user", "user")
    <3>1. NewStack(t, "so_take", Point(t, 2), Point(t, 3))
      BY <1>2, <1>6, <2>1, GoStep
    <3> QED  BY <1>2, <3>1
  <2>3. lock_count'[t] \in Owes("so_take") + Owes("user") + Owes("user") ..
                           Owes("so_take") + Owes("user") + Owes("user") + MaxUserLock
    BY <1>2, <1>3 DEF Owes, Owing
  <2> QED  BY <1>2, <1>4, <1>5, <1>6, <2>2, <2>3, StackControl
<1>7. CASE Go(t, <<"sc_timeout", "so_take">>)
  <2>1. "so_take" \in Above(Point(t, 2)) /\ Point(t, 1) # "user" /\ "sc_timeout" \in Above("so_take")
    BY <1>2, AboveIs DEF SemaphoreLabels, ConditionLabels, ResumeLabels
  <2>2. NewStack(t, "sc_timeout", "so_take", "user")
    <3>1. NewStack(t, "sc_timeout", "so_take", Point(t, 2))
      BY <1>2, <1>7, <2>1, GoPush
    <3> QED  BY <1>2, <3>1
  <2>3. lock_count'[t] \in Owes("sc_timeout") + Owes("so_take") + Owes("user") ..
                           Owes("sc_timeout") + Owes("so_take") + Owes("user") + MaxUserLock
    BY <1>2, <1>3 DEF Owes, Owing
  <2> QED  BY <1>2, <1>4, <1>5, <1>7, <2>2, <2>3, StackControl
<1> QED  BY <1>6, <1>7 DEF ObtainTest

LEMMA ObtainTakeControl ==
  ASSUME Control, NEW t \in Tasks, ObtainTake(t)
  PROVE  /\ Control'
         /\ \/ UNCHANGED mode /\ NewStack(t, "unlock", "user", "user")
            \/ mode' = "assert" /\ UNCHANGED pc
<1>1. At(t, "so_take") /\ "so_take" \in SemaphoreLabels
  BY DEF ObtainTake, SemaphoreLabels
<1>2. /\ mode = "task" /\ current_task = t /\ ~ pend_sv
      /\ Point(t, 1) = "so_take" /\ Point(t, 2) = "user" /\ Point(t, 3) = "user"
      /\ state[t] = "RUNNING" /\ Stacks /\ StateTypeOK
      /\ lock_count[t] \in Owes("so_take") .. Owes("so_take") + MaxUserLock
  BY <1>1, SemaphorePoint
<1>3. UNCHANGED <<state, resume_from, lock_count, drift, level, lists, timeVars,
                  current_task, pend_sv>>
  BY DEF ObtainTake
<1>4. \/ Go(t, <<"unlock">>) /\ UNCHANGED <<mode, interrupts>>
      \/ Halt /\ UNCHANGED pc
  BY DEF ObtainTake
<1>5. StateTypeOK'
  BY <1>2, <1>3, <1>4 DEF StateTypeOK, lists, timeVars, Halt, Modes
<1>6. CASE Go(t, <<"unlock">>) /\ UNCHANGED <<mode, interrupts>>
  <2>1. "unlock" \in Above(Point(t, 2)) /\ Point(t, 1) # "user"
    BY <1>2, AboveIs DEF Labels
  <2>2. NewStack(t, "unlock", "user", "user")
    <3>1. NewStack(t, "unlock", Point(t, 2), Point(t, 3))
      BY <1>2, <1>6, <2>1, GoStep
    <3> QED  BY <1>2, <3>1
  <2>3. lock_count'[t] \in Owes("unlock") + Owes("user") + Owes("user") ..
                           Owes("unlock") + Owes("user") + Owes("user") + MaxUserLock
    BY <1>2, <1>3 DEF Owes, Owing
  <2>4. Control'
    BY <1>2, <1>3, <1>5, <1>6, <2>2, <2>3, StackControl
  <2> QED  BY <1>6, <2>2, <2>4
<1>7. CASE Halt /\ UNCHANGED pc
  <2>1. mode' = "assert"
    BY <1>7 DEF Halt
  <2> QED  BY <1>2, <1>3, <1>5, <1>7, <2>1, HaltControl
<1> QED  BY <1>4, <1>6, <1>7

LEMMA ReleaseControl ==
  ASSUME Control, NEW t \in Tasks, NEW s, semaphore_release(t, s)
  PROVE  /\ Control'
         /\ \/ EnterLocked(t, s, "sr_inc") /\ NewStack(t, "sr_inc", "user", "user")
            \/ mode' = "assert" /\ UNCHANGED <<pc, sem>>
<1>1. CASE count[s] >= MaxCount[s]
  <2>1. /\ InUser(t) /\ Halt
        /\ UNCHANGED <<state, resume_from, drift, level, lists, timeVars, current_task,
                       pend_sv, lock_count, pc, sem>>
    BY <1>1 DEF semaphore_release
  <2>2. StateTypeOK /\ mode = "task"
    BY <2>1, UserFacts
  <2>3. StateTypeOK' /\ mode' = "assert"
    BY <2>1, <2>2 DEF StateTypeOK, lists, timeVars, Halt, Modes
  <2> QED  BY <2>1, <2>2, <2>3, HaltControl
<1>2. CASE ~ (count[s] >= MaxCount[s])
  <2>1. EnterLocked(t, s, "sr_inc")
    BY <1>2 DEF semaphore_release
  <2> QED  BY <2>1, EnterControl
<1> QED  BY <1>1, <1>2

LEMMA IncrementControl ==
  ASSUME Control, NEW t \in Tasks, ReleaseIncrement(t)
  PROVE  Control' /\ NewStack(t, "rc_lock", "unlock", "user")
<1>1. At(t, "sr_inc") /\ "sr_inc" \in SemaphoreLabels
  BY DEF ReleaseIncrement, SemaphoreLabels
<1>2. /\ mode = "task" /\ current_task = t /\ ~ pend_sv
      /\ Point(t, 1) = "sr_inc" /\ Point(t, 2) = "user" /\ Point(t, 3) = "user"
      /\ state[t] = "RUNNING" /\ Stacks /\ StateTypeOK
      /\ lock_count[t] \in Owes("sr_inc") .. Owes("sr_inc") + MaxUserLock
  BY <1>1, SemaphorePoint
<1>3. /\ Go(t, <<"rc_lock", "unlock">>)
      /\ UNCHANGED <<state, resume_from, lock_count, drift, level, lists, timeVars, cpuVars>>
  BY DEF ReleaseIncrement
<1>4. StateTypeOK'
  BY <1>2, <1>3 DEF StateTypeOK, lists, timeVars, cpuVars
<1>5. NewStack(t, "rc_lock", "unlock", "user")
  <2>1. "unlock" \in Above(Point(t, 2)) /\ Point(t, 1) # "user" /\ "rc_lock" \in Above("unlock")
    BY <1>2, AboveIs DEF Labels, ResumeLabels
  <2>2. NewStack(t, "rc_lock", "unlock", Point(t, 2))
    BY <1>2, <1>3, <2>1, GoPush
  <2> QED  BY <1>2, <2>2
<1>6. lock_count'[t] \in Owes("rc_lock") + Owes("unlock") + Owes("user") ..
                         Owes("rc_lock") + Owes("unlock") + Owes("user") + MaxUserLock
  BY <1>2, <1>3 DEF Owes, Owing
<1>7. UNCHANGED <<state, current_task, pend_sv, mode, lock_count>>
  BY <1>3 DEF cpuVars
<1> QED  BY <1>2, <1>4, <1>5, <1>6, <1>7, StackControl

LEMMA DestroyControl ==
  ASSUME Control, NEW t \in Tasks, NEW s, semaphore_destroy(t, s)
  PROVE  Control' /\ NewStack(t, "rc_lock", "sd_clear", "user")
<1>1. /\ mode = "task" /\ current_task = t /\ ~ pend_sv
      /\ Point(t, 1) = "user" /\ state[t] = "RUNNING" /\ Stacks /\ StateTypeOK
      /\ lock_count[t] \in 0 .. MaxUserLock
  BY UserFacts DEF semaphore_destroy
<1>2. /\ interrupts' = FALSE /\ Go(t, <<"rc_lock", "sd_clear", "user">>)
      /\ UNCHANGED <<state, resume_from, lock_count, drift, level, lists, timeVars,
                     current_task, pend_sv, mode>>
  BY DEF semaphore_destroy
<1>3. StateTypeOK'
  BY <1>1, <1>2 DEF StateTypeOK, lists, timeVars
<1>4. NewStack(t, "rc_lock", "sd_clear", "user")
  BY <1>1, <1>2, GoDestroy
<1>5. lock_count'[t] \in Owes("rc_lock") + Owes("sd_clear") + Owes("user") ..
                         Owes("rc_lock") + Owes("sd_clear") + Owes("user") + MaxUserLock
  BY <1>1, <1>2, LockAssumption DEF Owes, Owing
<1> QED  BY <1>1, <1>2, <1>3, <1>4, <1>5, StackControl

LEMMA ClearControl ==
  ASSUME Control, NEW t \in Tasks, DestroyClear(t)
  PROVE  Control' /\ NewStack(t, "user", "user", "user")
<1>1. At(t, "sd_clear") /\ "sd_clear" \in SemaphoreLabels
  BY DEF DestroyClear, SemaphoreLabels
<1>2. /\ mode = "task" /\ current_task = t /\ ~ pend_sv
      /\ Point(t, 1) = "sd_clear" /\ Point(t, 2) = "user" /\ Point(t, 3) = "user"
      /\ state[t] = "RUNNING" /\ Stacks /\ StateTypeOK
      /\ lock_count[t] \in Owes("sd_clear") .. Owes("sd_clear") + MaxUserLock
  BY <1>1, SemaphorePoint
<1>3. /\ Go(t, <<>>) /\ interrupts' = TRUE
      /\ UNCHANGED <<state, resume_from, lock_count, drift, level, lists, timeVars,
                     current_task, pend_sv, mode>>
  BY DEF DestroyClear
<1>4. StateTypeOK'
  BY <1>2, <1>3 DEF StateTypeOK, lists, timeVars
<1>5. NewStack(t, "user", "user", "user")
  <2>1. NewStack(t, Point(t, 2), Point(t, 3), "user")
    BY <1>2, <1>3, GoPop
  <2> QED  BY <1>2, <2>1
<1>6. lock_count'[t] \in Owes("user") + Owes("user") + Owes("user") ..
                         Owes("user") + Owes("user") + Owes("user") + MaxUserLock
  BY <1>2, <1>3 DEF Owes, Owing
<1> QED  BY <1>2, <1>3, <1>4, <1>5, <1>6, StackControl
===============================================================================
