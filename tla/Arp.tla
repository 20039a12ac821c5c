-------------------------------- MODULE Arp --------------------------------
(***************************************************************************)
(* The ARP cache of an Ethernet device (net_arp.c) and the packets that    *)
(* wait in it for the address of their next hop.  Replies are lost,        *)
(* delayed and overtaken; the link goes down and up.  The MAC address of   *)
(* host h is h.  Each handler runs to its end with the device locked.      *)
(*                                                                         *)
(* Packets are sent by any task, but replies and the timer of the cache    *)
(* are processed by the network task, which computes how long it will wait *)
(* from the timers it finds when it goes to sleep.  It holds the locks of  *)
(* its conditions, the device's among them, from then until it sleeps, so  *)
(* this is one step here.  What else the network task waits for may wake   *)
(* it at any time.                                                         *)
(*                                                                         *)
(* Timeouts are kept as the ticks that are left until they are due.        *)
(***************************************************************************)
EXTENDS Integers, FiniteSets, FiniteSetsExt, Sequences, SequencesExt

CONSTANTS
  Hosts,            \* next hops
  NoHost,           \* the address of an entry that was never used
  NumEntries,       \* num_entries
  ARP_TIMEOUT, ARP_UPDATE_TIME, ARP_RETRY_COUNT,
  MaxPending,       \* packets that wait in one entry
  MaxReplies        \* replies of one host on their way

ASSUME ArpAssumption ==
  /\ NoHost \notin Hosts /\ NumEntries \in Nat /\ MaxPending \in Nat /\ MaxReplies \in Nat
  /\ ARP_TIMEOUT \in Nat \ {0} /\ ARP_UPDATE_TIME \in Nat \ {0} /\ ARP_RETRY_COUNT \in Nat \ {0}

VARIABLES
  arp_entries,  \* entries: the flags, ip, mac, next_timeout, retry_count, buffer_list
  arp_timer,    \* suspend: enabled, and ticks left
  arp_link,     \* NET_DEVICE_UP
  replies,      \* replies of each host on their way to the device
  arp_wait,     \* the network task: where it is, and the wait for the ARP timer
  unheard       \* entries changed while it sleeps that it was not told of

arpVars   == <<arp_entries, arp_timer, arp_link, replies, arp_wait, unheard>>

Entries == 1 .. NumEntries
Cleared == [flags |-> {}, ip |-> NoHost, mac |-> NoHost, left |-> 0, retry |-> 0, list |-> <<>>]
TimerOff == [enabled |-> FALSE, left |-> 0]
NoWait(at) == [at |-> at, enabled |-> FALSE, left |-> 0]

ArpInit ==
  /\ arp_entries = [i \in Entries |-> Cleared]
  /\ arp_timer = TimerOff
  /\ arp_link = TRUE
  /\ replies = [h \in Hosts |-> 0]
  /\ arp_wait = NoWait("awake")
  /\ unheard = {}

(* An entry that asks for an address, or renews one that is in use.        *)
Routed(e) == "VALID" \in e.flags /\ ("UP" \notin e.flags \/ "IN_USE" \in e.flags)

(* arp_update_timers for the entries es.                                   *)
arp_update_timers(es) ==
  LET routed == {i \in Entries : Routed(es[i])}
  IN IF routed = {} THEN TimerOff
     ELSE [enabled |-> TRUE, left |-> Min({es[i].left : i \in routed})]

(* arp_free_entry: the addresses stay.  The timeout and the retries stay   *)
(* too, but are not read before the entry is used again, and cleared.      *)
arp_free_entry(e) == [Cleared EXCEPT !.ip = e.ip, !.mac = e.mac]

(* arp_find_entry: the entry with the address, or the first one that is    *)
(* free or may be used again.  0 when there is none.                       *)
arp_find_entry(ip) ==
  LET known == {i \in Entries : arp_entries[i].ip = ip}
      free  == {i \in Entries : ~({"VALID", "IN_USE"} \subseteq arp_entries[i].flags)}
  IN IF known # {} THEN Min(known) ELSE IF free # {} THEN Min(free) ELSE 0

----------------------------------------------------------------------------
(* The wait of the network task.                                           *)

(* suspend_condition with suspend_timeout_get_min.                         *)
ArpSleep ==
  /\ arp_wait.at = "awake"
  /\ arp_wait' = [at |-> "asleep", enabled |-> arp_timer.enabled, left |-> arp_timer.left]
  /\ UNCHANGED <<arp_entries, arp_timer, arp_link, replies, unheard>>

(* The network task as a resume of one of its conditions leaves it.        *)
Told ==
  /\ arp_wait' = IF arp_wait.at = "asleep" THEN NoWait("awake") ELSE arp_wait
  /\ unheard' = {}

(* The entries is have changed, but nobody resumes the network task.       *)
Untold(is) ==
  /\ UNCHANGED arp_wait
  /\ unheard' = IF arp_wait.at = "asleep" THEN unheard \cup is ELSE unheard

(* Another condition or timer ends the wait.                               *)
ArpWoken ==
  /\ arp_wait.at = "asleep" /\ Told
  /\ UNCHANGED <<arp_entries, arp_timer, arp_link, replies>>

----------------------------------------------------------------------------
(* Mutant: an entry that starts to resolve does not arm the timer.         *)
NewEntryNoTimer(i, dst) ==
  /\ arp_entries' = [arp_entries EXCEPT
       ![i] = [Cleared EXCEPT !.flags = {"VALID"}, !.ip = dst, !.list = <<dst>>]]
  /\ UNCHANGED arp_timer
  /\ Untold({i})

(* The entry starts to resolve dst for a first packet, which is consumed:  *)
(* the timer of the cache is armed, and that is all.                       *)
NewEntry(i, dst) ==
  /\ arp_entries' = [arp_entries EXCEPT
       ![i] = [Cleared EXCEPT !.flags = {"VALID"}, !.ip = dst, !.list = <<dst>>]]
  /\ arp_timer' = arp_update_timers(arp_entries')
  /\ Untold({i})

(* The address in the entry is used for the packet, which goes out through *)
(* fd_data_available, or is freed for want of a buffer for its header.     *)
UseEntry(i, dst) ==
  LET e == arp_entries[i]
  IN /\ arp_entries' = IF "IN_USE" \in e.flags THEN arp_entries
                       ELSE [arp_entries EXCEPT ![i] =
                              [e EXCEPT !.flags = @ \cup {"IN_USE"}, !.left = ARP_UPDATE_TIME]]
     /\ arp_timer' = IF "IN_USE" \in e.flags THEN arp_timer ELSE arp_update_timers(arp_entries')
     /\ Told \/ Untold(IF "IN_USE" \in e.flags THEN {} ELSE {i})

(* arp_resolve for a packet to dst.  A valid entry of another host is      *)
(* freed, and is then new.                                                 *)
arp_resolve(i, dst) ==
  LET e == arp_entries[i]
      taken == "VALID" \in e.flags /\ e.ip # dst
  IN \/ ~taken /\ "UP" \in e.flags /\ UseEntry(i, dst)
     \/ (taken \/ e.flags \cap {"UP", "VALID"} = {}) /\ NewEntry(i, dst)
     \/ /\ ~taken /\ "UP" \notin e.flags /\ "VALID" \in e.flags /\ Len(e.list) < MaxPending
        /\ arp_entries' = [arp_entries EXCEPT ![i].list = Append(@, dst)]
        /\ UNCHANGED arp_timer
        /\ Untold({})

(* ethernet_buffer_transmit for an IPv4 packet with next hop dst, by the   *)
(* network task or any other; without an entry the packet is freed.        *)
ethernet_buffer_transmit(dst) ==
  LET i == arp_find_entry(dst)
  IN /\ arp_link /\ i # 0 /\ arp_resolve(i, dst)
     /\ UNCHANGED <<arp_link, replies>>

----------------------------------------------------------------------------
(* What arp_route returns: the request was sent, there was no buffer for   *)
(* it, or the link is down.                                                *)
arp_route == {"NO_SPACE"} \cup (IF arp_link THEN {"SUCCESS"} ELSE {"LINK_DOWN"})

(* What arp_event does to an entry when arp_route returns status.          *)
GivesUp(e) == "UP" \notin e.flags /\ e.retry = ARP_RETRY_COUNT
Asks(e) == "VALID" \in e.flags /\ ~GivesUp(e) /\ e.left = 0
EntryEvent(e, status) ==
  CASE "VALID" \in e.flags /\ GivesUp(e) -> arp_free_entry(e)
    [] Asks(e) /\ status = "SUCCESS" /\ "UP" \notin e.flags ->
         [e EXCEPT !.left = ARP_TIMEOUT, !.retry = @ + 1]
    [] Asks(e) /\ status = "SUCCESS" /\ {"UP", "IN_USE"} \subseteq e.flags ->
         [e EXCEPT !.left = ARP_UPDATE_TIME]
    [] Asks(e) /\ status = "LINK_DOWN" -> arp_free_entry(e)
    [] Asks(e) /\ status = "NO_SPACE" ->
         [e EXCEPT !.left = ARP_UPDATE_TIME, !.retry = IF "UP" \in e.flags THEN 0 ELSE @ + 1]
    [] OTHER -> e

(* arp_event: the wait of the network task ended with the timer it had     *)
(* found, whatever the timer is by now.                                    *)
arp_event ==
  /\ arp_wait.at = "due" /\ arp_wait' = NoWait("awake")
  /\ \E status \in [Entries -> arp_route] :
       /\ arp_entries' = [i \in Entries |-> EntryEvent(arp_entries[i], status[i])]
       /\ replies' = [h \in Hosts |->
            IF /\ replies[h] < MaxReplies
               /\ \E i \in Entries : Asks(arp_entries[i]) /\ arp_entries[i].ip = h
                                     /\ status[i] = "SUCCESS"
            THEN replies[h] + 1 ELSE replies[h]]
  /\ arp_timer' = arp_update_timers(arp_entries')
  /\ UNCHANGED <<arp_link, unheard>>

(* The packets that waited go through ethernet_buffer_transmit again, and  *)
(* the first one puts the entry in use, unless there is no buffer for its  *)
(* protocol.  With the link down net_device_buffer_transmit leaves them,   *)
(* and nobody frees them.                                                  *)
SendPending(i, e) ==
  \E used \in IF arp_link THEN BOOLEAN ELSE {FALSE} :
    /\ arp_entries' = [arp_entries EXCEPT
         ![i] = [e EXCEPT !.flags = @ \cup {"IN_USE"}, !.list = <<>>,
                          !.left = IF used THEN ARP_UPDATE_TIME ELSE @]]
    /\ arp_timer' = IF used THEN arp_update_timers(arp_entries') ELSE arp_timer

(* arp_process_response: a reply of host h comes.  The entry is looked up  *)
(* by its address alone.  Retries of an entry that is up are never read.   *)
arp_process_response(h) ==
  LET known == {i \in Entries : arp_entries[i].ip = h}
      i == Min(known)
      e == [arp_entries[i] EXCEPT !.mac = h, !.flags = @ \cup {"UP"}, !.retry = 0]
  IN /\ replies[h] > 0 /\ arp_wait.at = "awake"
     /\ replies' = [replies EXCEPT ![h] = @ - 1]
     /\ \/ known = {} /\ UNCHANGED <<arp_entries, arp_timer>>
        \/ known # {} /\ e.list # <<>> /\ SendPending(i, e)
        \/ /\ known # {} /\ e.list = <<>>
           /\ arp_entries' = [arp_entries EXCEPT ![i] = [e EXCEPT !.flags = @ \ {"IN_USE"}]]
           /\ UNCHANGED arp_timer
     /\ UNCHANGED <<arp_link, arp_wait, unheard>>

(* A reply is lost.                                                        *)
ReplyLost(h) ==
  /\ replies[h] > 0
  /\ replies' = [replies EXCEPT ![h] = @ - 1]
  /\ UNCHANGED <<arp_entries, arp_timer, arp_link, arp_wait, unheard>>

LinkChange ==
  /\ arp_link' = ~arp_link
  /\ UNCHANGED <<arp_entries, arp_timer, replies, arp_wait, unheard>>

(* A tick passes; what is due stays due until the network task runs.  The  *)
(* tick wakes it when its wait is over.                                    *)
TickDown(n) == IF n > 0 THEN n - 1 ELSE 0
ArpTick ==
  /\ arp_entries' = [i \in Entries |-> [arp_entries[i] EXCEPT !.left = TickDown(@)]]
  /\ arp_timer' = [arp_timer EXCEPT !.left = TickDown(@)]
  /\ IF arp_wait.enabled /\ arp_wait.left <= 1
     THEN arp_wait' = NoWait("due") /\ unheard' = {}
     ELSE arp_wait' = [arp_wait EXCEPT !.left = TickDown(@)] /\ UNCHANGED unheard
  /\ UNCHANGED <<arp_link, replies>>

ArpNext ==
  \/ \E h \in Hosts : ethernet_buffer_transmit(h) \/ arp_process_response(h) \/ ReplyLost(h)
  \/ ArpSleep \/ ArpWoken \/ arp_event \/ LinkChange \/ ArpTick

ArpSpec == ArpInit /\ [][ArpNext]_arpVars

----------------------------------------------------------------------------
(* A packet that waits is in an entry that asks for the packet's own next  *)
(* hop and has requests left; the timer is never later than an entry that  *)
(* is routed.                                                              *)
CacheWatched ==
  \A i \in Entries :
    LET e == arp_entries[i]
    IN /\ e.list # <<>> =>
            /\ "VALID" \in e.flags /\ "UP" \notin e.flags
            /\ e.retry <= ARP_RETRY_COUNT
            /\ ToSet(e.list) = {e.ip}
       /\ Routed(e) => arp_timer.enabled /\ arp_timer.left <= e.left

(* A network task that sleeps wakes in time for the entry i, or knows      *)
(* nothing of what another task has made of it since.                      *)
SleepReaches(i) ==
  arp_wait.at = "asleep" =>
    \/ i \in unheard
    \/ arp_wait.enabled /\ arp_wait.left <= arp_entries[i].left

(* A packet that waits in the cache is in an entry that asks for the       *)
(* packet's own next hop and has requests left before it gives the packet  *)
(* up.  The timer of the cache reaches such an entry in time, as it does   *)
(* every address in use, and so does the wait of a network task that       *)
(* sleeps.  An entry that another task has changed meanwhile is left out   *)
(* of the last part: arp_resolve tells nobody, and the network task learns *)
(* of it only when something else wakes it (EventOnTime).                  *)
PendingWatched ==
  CacheWatched /\ \A i \in Entries : Routed(arp_entries[i]) => SleepReaches(i)

(* The timer that arp_update_timers saves is the one at which the next ARP *)
(* event is processed: a network task that sleeps wakes for it.  It does   *)
(* not when the entry was made by another task (net_arp.c:580-591).        *)
EventOnTime ==
  arp_wait.at = "asleep" /\ arp_timer.enabled =>
    arp_wait.enabled /\ arp_wait.left <= arp_timer.left

----------------------------------------------------------------------------
(* The inductive invariant behind PendingWatched.                          *)

EntrySet == [flags : SUBSET {"VALID", "UP", "IN_USE"}, ip : Hosts \cup {NoHost},
             mac : Hosts \cup {NoHost}, left : Nat, retry : Nat, list : Seq(Hosts)]

(* An entry whose address is not known yet has not asked too often: it is  *)
(* freed when its last request was not answered.                           *)
RetriesBounded ==
  \A i \in Entries :
    "UP" \notin arp_entries[i].flags => arp_entries[i].retry <= ARP_RETRY_COUNT

CacheInvariant ==
  /\ arp_entries \in [Entries -> EntrySet]
  /\ arp_timer \in [enabled : BOOLEAN, left : Nat]
  /\ CacheWatched /\ RetriesBounded

WaitInvariant ==
  /\ arp_wait \in [at : {"awake", "asleep", "due"}, enabled : BOOLEAN, left : Nat]
  /\ arp_wait.enabled => arp_wait.at = "asleep"
  /\ \A i \in Entries : Routed(arp_entries[i]) => SleepReaches(i)

ArpInvariant == CacheInvariant /\ WaitInvariant
============================================================================
