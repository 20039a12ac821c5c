------------------------------ MODULE NetTask ------------------------------
(***************************************************************************)
(* rtos/net/net_condition.c, net_work.c and net_buffer.c: the task of the  *)
(* network stack.  It waits for an array of conditions: the queue of       *)
(* received buffers, the work queue, and the timer of every TCP port.      *)
(* Other tasks own ports: they register them, set their timers and         *)
(* unregister them, and wake the network task when what it waits for has   *)
(* changed.                                                                *)
(*                                                                         *)
(* A wait of the network task is one step for the check of the conditions  *)
(* and one for the computation of its timeout, with the locks of the       *)
(* conditions held in between; Condition has it step by step.              *)
(***************************************************************************)
EXTENDS Integers, Sequences, FiniteSets, SequencesExt, FiniteSetsExt

CONSTANTS
  Ports,           \* TCP ports, each owned by one task
  BUFFERS, WORK,   \* conditions of the received buffers and of the work queue
  NONE, OFF,
  Timeouts,        \* ticks that a timer is set to
  Duties,          \* which owners register and unregister their ports
  MaxRx            \* received buffers in the queue

ASSUME NetTaskAssumption ==
  /\ IsFiniteSet(Ports) /\ {BUFFERS, WORK, NONE, "SLEEP"} \cap Ports = {}
  /\ BUFFERS # WORK /\ NONE \notin {BUFFERS, WORK} /\ "SLEEP" \notin {BUFFERS, WORK}
  /\ Timeouts \subseteq Nat \ {0} /\ OFF \notin Nat
  /\ \A d \in Duties : d.register \subseteq Ports /\ d.unregister \subseteq Ports

VARIABLES
  duty,          \* the duties in this behaviour
  net_array,     \* net_condition_data.condition
  net_num,       \* net_condition_data.num
  net_task,      \* the network task: where it is, and its wait
  port_timer,    \* SUSPEND of each port: ticks left, or OFF
  rx_queue,      \* buffers on the buffer_list
  rx_flag,       \* FS_DATA_AVAILABLE of net_buff_fd
  work_list,
  work_ping,     \* CONDITION_PING of the work queue
  done_ping,     \* CONDITION_PING of the work of each owner
  owner,         \* where the owner of each port is
  port_lock      \* who holds the lock of each port

netTaskVars == <<duty, net_array, net_num, net_task, port_timer, rx_queue, rx_flag,
                 work_list, work_ping, done_ping, owner, port_lock>>

Indices == 1 .. Cardinality(Ports) + 2

(* The network task: where it is, the number of conditions it waits for,   *)
(* the ticks to wait and the index of their timer, the ticks left and the  *)
(* ticks that passed before it slept, what resumed it, all that has        *)
(* resumed it since, and the port it works for.                            *)
Running == [at |-> "loop", num |-> 0, timeout |-> OFF, index |-> 1, left |-> OFF,
            late |-> 0, from |-> NONE, may |-> {}, port |-> NONE]

NetTaskInit ==
  /\ duty \in Duties
  /\ \E order \in SetToSeqs(Ports \ duty.register) :
       LET first == <<BUFFERS, WORK>> \o order
       IN  /\ net_num = Len(first)
           /\ net_array = [i \in Indices |-> IF i <= Len(first) THEN first[i] ELSE NONE]
  /\ net_task = Running
  /\ port_timer = [p \in Ports |-> OFF]
  /\ rx_queue = 0 /\ rx_flag = FALSE
  /\ work_list = <<>> /\ work_ping = FALSE
  /\ done_ping = [p \in Ports |-> FALSE]
  /\ owner = [p \in Ports |-> IF p \in duty.register THEN "out" ELSE "in"]
  /\ port_lock = [p \in Ports |-> "free"]

(* suspend_condition holds the locks of all conditions.                    *)
Locked == net_task.at = "check"

(* The network task as resume_condition leaves it: only a task that waits  *)
(* for c is made ready; once it is, a further resume is remembered.        *)
Roused(c) ==
  IF \E i \in 1 .. net_task.num : net_array[i] = c
  THEN CASE net_task.at = "asleep" ->
              [net_task EXCEPT !.at = "woken", !.from = c, !.may = {c}]
         [] net_task.at = "woken" -> [net_task EXCEPT !.may = @ \cup {c}]
         [] OTHER -> net_task
  ELSE net_task

----------------------------------------------------------------------------
(* The tasks that own ports.                                               *)

(* The lock of the TCP data: tcp_register holds it until its port is       *)
(* added, net_process_tcp until it has the lock of the port it found.      *)
DataFree ==
  /\ net_task.at # "input"
  /\ \A p \in Ports : owner[p] \notin {"counting", "registered"}

(* net_condition_add: the entry, then the count, then the update.          *)
net_condition_add(p) ==
  /\ owner[p] = "out" /\ p \in duty.register
  /\ DataFree
  /\ net_num < Cardinality(Indices)
  /\ net_array' = [net_array EXCEPT ![net_num + 1] = p]
  /\ port_timer' = [port_timer EXCEPT ![p] = OFF]
  /\ owner' = [owner EXCEPT ![p] = "counting"]
  /\ UNCHANGED <<duty, net_num, net_task, rx_queue, rx_flag, work_list, work_ping,
                 done_ping, port_lock>>

AddCount(p) ==
  /\ owner[p] = "counting"
  /\ net_num' = net_num + 1
  /\ owner' = [owner EXCEPT ![p] = "registered"]
  /\ UNCHANGED <<duty, net_array, net_task, port_timer, rx_queue, rx_flag, work_list,
                 work_ping, done_ping, port_lock>>

(* Mutant: the flag is set but nobody is resumed.                          *)
UpdateQuietly(p) ==
  /\ owner[p] \in {"registered", "armed", "freed"} /\ ~ Locked
  /\ rx_flag' = TRUE
  /\ owner' = [owner EXCEPT ![p] = IF @ = "freed" THEN "removing" ELSE "in"]
  /\ port_lock' = [port_lock EXCEPT ![p] = IF owner[p] = "armed" THEN "free" ELSE @]
  /\ UNCHANGED <<duty, net_array, net_num, net_task, port_timer, rx_queue, work_list,
                 work_ping, done_ping>>

(* The received buffers are said to be there: the network task looks at    *)
(* its conditions and timers again.                                        *)
net_condition_updated(p) ==
  /\ owner[p] \in {"registered", "armed", "freed"} /\ ~ Locked
  /\ rx_flag' = TRUE
  /\ net_task' = Roused(BUFFERS)
  /\ owner' = [owner EXCEPT ![p] = IF @ = "freed" THEN "removing" ELSE "in"]
  /\ port_lock' = [port_lock EXCEPT ![p] = IF owner[p] = "armed" THEN "free" ELSE @]
  /\ UNCHANGED <<duty, net_array, net_num, port_timer, rx_queue, work_list,
                 work_ping, done_ping>>

(* A call of the owner sets the timer of its port, with the port locked.   *)
tcp_timeout_update(p) ==
  /\ owner[p] = "in" /\ port_lock[p] = "free"
  /\ port_lock' = [port_lock EXCEPT ![p] = "owner"]
  /\ \E t \in Timeouts \cup {OFF} : port_timer' = [port_timer EXCEPT ![p] = t]
  /\ owner' = [owner EXCEPT ![p] = "armed"]
  /\ UNCHANGED <<duty, net_array, net_num, net_task, rx_queue, rx_flag, work_list,
                 work_ping, done_ping>>

(* The port leaves the list of ports, then its lock is taken.              *)
tcp_unregister(p) ==
  /\ owner[p] = "in" /\ p \in duty.unregister
  /\ DataFree
  /\ owner' = [owner EXCEPT ![p] = "unlisted"]
  /\ UNCHANGED <<duty, net_array, net_num, net_task, port_timer, rx_queue, rx_flag,
                 work_list, work_ping, done_ping, port_lock>>

(* tcp_rtx_free_all: a timer for events is left as it is.                  *)
tcp_timer_unregister(p) ==
  /\ owner[p] = "unlisted" /\ port_lock[p] = "free"
  /\ port_lock' = [port_lock EXCEPT ![p] = "owner"]
  /\ \E t \in {port_timer[p], OFF} : port_timer' = [port_timer EXCEPT ![p] = t]
  /\ owner' = [owner EXCEPT ![p] = "freed"]
  /\ UNCHANGED <<duty, net_array, net_num, net_task, rx_queue, rx_flag, work_list,
                 work_ping, done_ping>>

(* net_condition_remove asks the network task to do it.                    *)
net_work_add(p) ==
  /\ owner[p] = "removing" /\ ~ Locked
  /\ work_list' = <<p>> \o work_list
  /\ work_ping' = TRUE
  /\ net_task' = Roused(WORK)
  /\ done_ping' = [done_ping EXCEPT ![p] = FALSE]
  /\ owner' = [owner EXCEPT ![p] = "added"]
  /\ UNCHANGED <<duty, net_array, net_num, port_timer, rx_queue, rx_flag, port_lock>>

(* The work may be done before its owner comes to wait for it.             *)
WorkWait(p) ==
  /\ owner[p] = "added" /\ ~ done_ping[p]
  /\ owner' = [owner EXCEPT ![p] = "waiting"]
  /\ UNCHANGED <<duty, net_array, net_num, net_task, port_timer, rx_queue, rx_flag,
                 work_list, work_ping, done_ping, port_lock>>

(* The lock is released and the port is cleared.                           *)
WorkReturn(p) ==
  /\ \/ owner[p] = "added" /\ done_ping[p]
     \/ owner[p] = "resumed"
  /\ done_ping' = [done_ping EXCEPT ![p] = FALSE]
  /\ port_lock' = [port_lock EXCEPT ![p] = "free"]
  /\ port_timer' = [port_timer EXCEPT ![p] = OFF]
  /\ owner' = [owner EXCEPT ![p] = "out"]
  /\ UNCHANGED <<duty, net_array, net_num, net_task, rx_queue, rx_flag, work_list,
                 work_ping>>

(* A device hands a received buffer to the network task.                   *)
net_buffer_write ==
  /\ rx_queue < MaxRx /\ ~ Locked
  /\ rx_queue' = rx_queue + 1
  /\ rx_flag' = TRUE
  /\ net_task' = Roused(BUFFERS)
  /\ UNCHANGED <<duty, net_array, net_num, port_timer, work_list, work_ping, done_ping,
                 owner, port_lock>>

----------------------------------------------------------------------------
(* The network task.                                                       *)

Go(at, p) == net_task' = [net_task EXCEPT !.at = at, !.port = p]

(* Ticks until the timer of the condition at index i.                      *)
TicksTo(i) == IF net_array[i] \in Ports THEN port_timer[net_array[i]] ELSE OFF

(* The number of conditions is read, then suspend_condition locks them;    *)
(* one that is added in between is not in this wait.                       *)
net_condition_task_entry ==
  /\ net_task.at = "loop"
  /\ net_task' = [net_task EXCEPT !.at = "entry", !.num = net_num]
  /\ UNCHANGED <<duty, net_array, net_num, port_timer, rx_queue, rx_flag, work_list,
                 work_ping, done_ping, owner, port_lock>>

(* The first of the shortest timers is the one to wait for.                *)
suspend_timeout_get_min ==
  LET on    == {i \in 1 .. net_task.num : TicksTo(i) # OFF}
      first == CHOOSE i \in on : \A j \in on :
                 \/ TicksTo(i) < TicksTo(j)
                 \/ TicksTo(i) = TicksTo(j) /\ i <= j
  IN  /\ net_task.at = "entry"
      /\ net_task' = [net_task EXCEPT !.at = "check",
                        !.timeout = IF on = {} THEN OFF ELSE TicksTo(first),
                        !.index = IF on = {} THEN 1 ELSE first]
      /\ UNCHANGED <<duty, net_array, net_num, port_timer, rx_queue, rx_flag, work_list,
                     work_ping, done_ping, owner, port_lock>>

Ready(c) == (c = BUFFERS /\ rx_flag) \/ (c = WORK /\ work_ping)

(* The callback of the condition at index n; a ping of it is consumed.     *)
Process(n) ==
  LET c == net_array[n]
  IN  /\ net_task' = [Running EXCEPT
           !.at = CASE n > net_num -> "loop"
                    [] c = BUFFERS -> "rx"
                    [] c = WORK -> "work"
                    [] OTHER -> "timer",
           !.port = IF c \in Ports THEN c ELSE NONE]
      /\ work_ping' = (work_ping /\ c # WORK)

(* The buffers have the higher priority of the two that can be ready.      *)
NetCheck ==
  LET ready == {i \in 1 .. net_task.num : Ready(net_array[i])}
  IN  /\ net_task.at = "check"
      /\ IF ready # {}
         THEN Process(CHOOSE i \in ready : net_array[i] = BUFFERS \/ Cardinality(ready) = 1)
         ELSE /\ net_task' = [net_task EXCEPT !.at = "asleep", !.left = net_task.timeout]
              /\ UNCHANGED work_ping
      /\ UNCHANGED <<duty, net_array, net_num, port_timer, rx_queue, rx_flag, work_list,
                     done_ping, owner, port_lock>>

(* The wait ends: by the timer, or for the last condition that resumed it  *)
(* and is still satisfied; else the conditions are checked again.          *)
NetWoke ==
  LET n == Max({i \in 1 .. net_task.num : net_array[i] \in net_task.may})
  IN  /\ net_task.at = "woken"
      /\ CASE net_task.from = "SLEEP" -> Process(net_task.index)
           [] net_task.from # "SLEEP" /\ Ready(net_array[n]) -> Process(n)
           [] OTHER -> Go("check", NONE) /\ UNCHANGED work_ping
      /\ UNCHANGED <<duty, net_array, net_num, port_timer, rx_queue, rx_flag, work_list,
                     done_ping, owner, port_lock>>

(* The first buffer is taken; it is for a listed port, whose lock the task *)
(* waits for, or for none.  The flag goes with the last buffer.            *)
net_buffer_condition_callback ==
  /\ net_task.at = "rx"
  /\ DataFree
  /\ rx_queue' = IF rx_queue > 0 THEN rx_queue - 1 ELSE 0
  /\ rx_flag' = (rx_queue > 1)
  /\ \/ Go("loop", NONE)
     \/ \E p \in Ports : rx_queue > 0 /\ owner[p] \in {"in", "armed"} /\ Go("input", p)
  /\ UNCHANGED <<duty, net_array, net_num, port_timer, work_list, work_ping, done_ping,
                 owner, port_lock>>

(* net_process_tcp sets the timer of its port; the callback of a timer     *)
(* sets it again or turns it off once it is due.                           *)
NetPort ==
  LET p == net_task.port
  IN  /\ net_task.at \in {"input", "timer"} /\ port_lock[p] = "free"
      /\ IF net_task.at = "input" \/ port_timer[p] = 0
         THEN \E t \in Timeouts \cup {OFF} : port_timer' = [port_timer EXCEPT ![p] = t]
         ELSE UNCHANGED port_timer
      /\ Go("loop", NONE)
      /\ UNCHANGED <<duty, net_array, net_num, rx_queue, rx_flag, work_list, work_ping,
                     done_ping, owner, port_lock>>

(* net_condition_do_remove: the conditions behind it move down.            *)
net_condition_do_remove(p) ==
  LET i == CHOOSE k \in 1 .. net_num : net_array[k] = p
  IN  /\ net_array' = [k \in Indices |->
           IF k \in i .. net_num - 1 THEN net_array[k + 1]
           ELSE IF k = net_num THEN NONE ELSE net_array[k]]
      /\ net_num' = net_num - 1

(* net_work_condition_process: a work is taken from the queue and done,    *)
WorkPop ==
  /\ net_task.at = "work"
  /\ IF work_list = <<>>
     THEN Go("loop", NONE) /\ UNCHANGED <<work_list, net_array, net_num>>
     ELSE /\ Go("answer", Head(work_list))
          /\ work_list' = Tail(work_list)
          /\ net_condition_do_remove(Head(work_list))
  /\ UNCHANGED <<duty, port_timer, rx_queue, rx_flag, work_ping, done_ping, owner,
                 port_lock>>

(* and its owner is resumed; the task goes on with the next work.          *)
WorkAnswer ==
  LET p == net_task.port
  IN  /\ net_task.at = "answer"
      /\ done_ping' = [done_ping EXCEPT ![p] = TRUE]
      /\ owner' = [owner EXCEPT ![p] = IF @ = "waiting" THEN "resumed" ELSE @]
      /\ Go("work", NONE)
      /\ UNCHANGED <<duty, net_array, net_num, port_timer, rx_queue, rx_flag, work_list,
                     work_ping, port_lock>>

(* The tick; a timer that is due stays at zero.                            *)
NetTick ==
  LET less(t) == IF t \in {OFF, 0} THEN t ELSE t - 1
  IN  /\ \/ net_task.at = "asleep" /\ net_task.left # OFF
         \/ \E p \in Ports : port_timer[p] \notin {OFF, 0}
      /\ port_timer' = [p \in Ports |-> less(port_timer[p])]
      /\ net_task' =
           IF Locked THEN [net_task EXCEPT !.late = @ + 1]
           ELSE IF net_task.at # "asleep" THEN net_task
           ELSE IF net_task.left \in {0, 1}
           THEN [net_task EXCEPT !.at = "woken", !.from = "SLEEP", !.left = 0]
           ELSE [net_task EXCEPT !.left = less(@)]
      /\ UNCHANGED <<duty, net_array, net_num, rx_queue, rx_flag, work_list, work_ping,
                     done_ping, owner, port_lock>>

----------------------------------------------------------------------------
NetTaskNext ==
  \/ \E p \in Ports :
       \/ net_condition_add(p) \/ AddCount(p) \/ net_condition_updated(p)
       \/ tcp_timeout_update(p) \/ tcp_unregister(p) \/ tcp_timer_unregister(p)
       \/ net_work_add(p) \/ WorkWait(p) \/ WorkReturn(p)
  \/ net_buffer_write
  \/ net_condition_task_entry \/ suspend_timeout_get_min \/ NetCheck \/ NetWoke
  \/ net_buffer_condition_callback \/ NetPort \/ WorkPop \/ WorkAnswer
  \/ NetTick

NetTaskSpec == NetTaskInit /\ [][NetTaskNext]_netTaskVars

----------------------------------------------------------------------------
(* Properties.                                                             *)

Asleep == net_task.at = "asleep"

(* Nothing that is queued waits for a task that sleeps.                    *)
NothingQueued == Asleep => rx_queue = 0 /\ ~ rx_flag /\ work_list = <<>>

(* Owners that have changed the array or a timer and will say so.          *)
WillUpdate == \E p \in Ports : owner[p] \in {"registered", "armed", "freed"}

(* A task that sleeps watches every registered port and wakes for the      *)
(* first of their timers, late by the ticks that it took to fall asleep.   *)
TimersWatched ==
  Asleep /\ ~ WillUpdate =>
    \A i \in 1 .. net_num :
      /\ i <= net_task.num
      /\ TicksTo(i) # OFF => net_task.left # OFF /\ net_task.left <= TicksTo(i) + net_task.late

Answering(p) == net_task.at = "answer" /\ net_task.port = p

(* The array holds every registered port, once.                            *)
PortsRegistered ==
  \A p \in Ports :
    Cardinality({i \in 1 .. net_num : net_array[i] = p})
      = IF owner[p] \in {"out", "counting"} \/ done_ping[p] \/ Answering(p) THEN 0 ELSE 1

(* A work is on the queue while its owner waits, and nowhere when the      *)
(* owner, on whose stack it is, has gone on.                               *)
WorkAnswered ==
  \A p \in Ports :
    /\ owner[p] = "waiting" => p \in ToSet(work_list) \/ Answering(p)
    /\ p \in ToSet(work_list) => owner[p] \in {"added", "waiting"}
    /\ IsInjective(work_list)

(* The network task misses nothing of what is queued for it or registered  *)
(* with it, and no timer of a TCP port: each finds it awake or wakes it in *)
(* time, and who asks it for work gets an answer (net_condition_updated,   *)
(* net_work_add, suspend_condition).  The timer of the ARP cache, which    *)
(* other tasks set without net_condition_updated, is in Arp.               *)
NetTaskListens == NothingQueued /\ TimersWatched /\ PortsRegistered /\ WorkAnswered

(* The network task never waits for the lock of a port whose owner waits   *)
(* for the network task (tcp_unregister, tcp_timeout_callback).            *)
NoCircularWait ==
  ~ (/\ net_task.at \in {"input", "timer"}
     /\ port_lock[net_task.port] = "owner"
     /\ owner[net_task.port] = "waiting")
============================================================================
