----------------------------- MODULE NetProofs -----------------------------
(***************************************************************************)
(* The theorems about the ARP cache, the network task and IPv4 fragments.  *)
(*                                                                         *)
(* Packets that wait in the ARP cache are watched by its timer, and by a   *)
(* network task that sleeps unless they came behind its back, for any      *)
(* number of hosts, entries and packets, and any timeouts.                 *)
(*                                                                         *)
(* The network task misses nothing that is queued for it, registered with  *)
(* it or timed by a port it has, for any number of ports.                  *)
(*                                                                         *)
(* IPv4 reassembly loses no buffer list and forgets no timeout, and when   *)
(* no fragment comes twice it gives out whole datagrams only, for any      *)
(* datagrams, sizes of fragments, fragment lists and buffer lists.         *)
(***************************************************************************)
EXTENDS Arp, NetTask, Ipv4Frag, SllProofs, FiniteSetTheorems

----------------------------------------------------------------------------
(* The ARP cache.                                                          *)

(* Min of natural numbers is one of them, and none is less.                *)
LEMMA MinNat ==
  ASSUME NEW S, S \subseteq Nat, S # {}
  PROVE  Min(S) \in S /\ \A n \in S : Min(S) <= n
<1>1. \E n \in S : \A m \in S : n <= m
  BY LeastElement
<1> QED  BY <1>1 DEF Min

(* The member Append adds.                                                 *)
LEMMA AppendMembers ==
  ASSUME NEW S, NEW list \in Seq(S), NEW x \in S
  PROVE  Append(list, x) \in Seq(S) /\ ToSet(Append(list, x)) = ToSet(list) \cup {x}
<1>1. PICK new : new = Append(list, x)
  OBVIOUS
<1>2. /\ new \in Seq(S) /\ Len(new) = Len(list) + 1 /\ Len(list) \in Nat
      /\ \A i \in 1 .. Len(list) : new[i] = list[i]
      /\ new[Len(list) + 1] = x
  BY <1>1, AppendProperties
<1>3. ASSUME NEW y \in ToSet(list) \cup {x}
      PROVE  y \in ToSet(new)
  <2>1. CASE y = x
    BY <1>2, <2>1, ToSetMember
  <2>2. CASE y \in ToSet(list)
    <3>1. PICK i \in 1 .. Len(list) : list[i] = y
      BY <2>2, ToSetMember
    <3>2. i \in 1 .. Len(new) /\ new[i] = y
      BY <1>2, <3>1
    <3> QED  BY <1>2, <3>2, ToSetMember
  <2> QED  BY <2>1, <2>2
<1>4. ASSUME NEW y \in ToSet(new)
      PROVE  y \in ToSet(list) \cup {x}
  <2>1. PICK i \in 1 .. Len(new) : new[i] = y
    BY <1>2, <1>4, ToSetMember
  <2>2. CASE i = Len(list) + 1
    BY <1>2, <2>1, <2>2
  <2>3. CASE i \in 1 .. Len(list)
    <3>1. list[i] = y
      BY <1>2, <2>1, <2>3
    <3> QED  BY <2>3, <3>1, ToSetMember
  <2> QED  BY <1>2, <2>1, <2>2, <2>3
<1> QED  BY <1>1, <1>2, <1>3, <1>4

----------------------------------------------------------------------------
(* What CacheWatched and RetriesBounded say of one entry.                *)
EntryWaits(e) ==
  e.list # <<>> => /\ "VALID" \in e.flags /\ "UP" \notin e.flags
                   /\ ToSet(e.list) = {e.ip}
FewRetries(e) == "UP" \notin e.flags => e.retry <= ARP_RETRY_COUNT
Reached(timer, e) == Routed(e) => timer.enabled /\ timer.left <= e.left

LEMMA EntryByEntry ==
  CacheInvariant <=> /\ arp_entries \in [Entries -> EntrySet]
                   /\ arp_timer \in [enabled : BOOLEAN, left : Nat]
                   /\ \A i \in Entries : /\ EntryWaits(arp_entries[i])
                                         /\ FewRetries(arp_entries[i])
                                         /\ Reached(arp_timer, arp_entries[i])
BY DEF CacheInvariant, CacheWatched, RetriesBounded, EntryWaits, FewRetries, Reached

(* arp_update_timers sets the timer to the first entry that is routed.     *)
LEMMA TimerReaches ==
  ASSUME NEW es \in [Entries -> EntrySet]
  PROVE  /\ arp_update_timers(es) \in [enabled : BOOLEAN, left : Nat]
         /\ \A i \in Entries : Reached(arp_update_timers(es), es[i])
<1> DEFINE routed == {i \in Entries : Routed(es[i])}
           due == {es[i].left : i \in routed}
<1>1. due \subseteq Nat
  BY DEF EntrySet
<1>2. CASE routed = {}
  <2>1. arp_update_timers(es) = TimerOff
    BY <1>2 DEF arp_update_timers
  <2> QED  BY <1>2, <2>1 DEF TimerOff, Reached
<1>3. CASE routed # {}
  <2>1. arp_update_timers(es) = [enabled |-> TRUE, left |-> Min(due)]
    BY <1>3 DEF arp_update_timers
  <2>2. Min(due) \in due /\ \A n \in due : Min(due) <= n
    <3>1. due # {}
      BY <1>3
    <3> HIDE DEF due
    <3> QED  BY <1>1, <3>1, MinNat
  <2>3. \A i \in Entries : Routed(es[i]) => es[i].left \in due
    OBVIOUS
  <2> HIDE DEF due
  <2>4. \A i \in Entries : Routed(es[i]) => Min(due) <= es[i].left
    BY <2>2, <2>3
  <2>5. PICK m \in Nat : m = Min(due)
    BY <1>1, <2>2
  <2>6. PICK timer : timer = arp_update_timers(es) /\ timer = [enabled |-> TRUE, left |-> m]
    BY <2>1, <2>5
  <2>7. timer \in [enabled : BOOLEAN, left : Nat] /\ timer.enabled /\ timer.left = m
    BY <2>6
  <2>8. \A i \in Entries : Reached(timer, es[i])
    BY <2>4, <2>5, <2>7 DEF Reached
  <2> QED  BY <2>6, <2>7, <2>8
<1> QED  BY <1>2, <1>3

(* The entries change and the timer is set anew.                           *)
LEMMA TimerSet ==
  ASSUME arp_entries' \in [Entries -> EntrySet],
         arp_timer' = arp_update_timers(arp_entries'),
         \A i \in Entries : EntryWaits(arp_entries'[i]) /\ FewRetries(arp_entries'[i])
  PROVE  CacheInvariant'
<1>1. PICK es : es = arp_entries'
  OBVIOUS
<1>2. /\ arp_update_timers(es) \in [enabled : BOOLEAN, left : Nat]
      /\ \A i \in Entries : Reached(arp_update_timers(es), es[i])
  BY <1>1, TimerReaches
<1>3. /\ arp_timer' \in [enabled : BOOLEAN, left : Nat]
      /\ \A i \in Entries : Reached(arp_timer', arp_entries'[i])
  BY <1>1, <1>2
<1> QED  BY <1>3 DEF CacheInvariant, CacheWatched, RetriesBounded, EntryWaits, FewRetries, Reached

(* One entry changes, and the timer is set anew if it has to be.           *)
LEMMA EntrySetTo ==
  ASSUME CacheInvariant, NEW i \in Entries, NEW e \in EntrySet,
         arp_entries' = [arp_entries EXCEPT ![i] = e],
         EntryWaits(e), FewRetries(e),
         \/ arp_timer' = arp_update_timers(arp_entries')
         \/ UNCHANGED arp_timer /\ Reached(arp_timer, e)
  PROVE  CacheInvariant'
<1>1. \A j \in Entries : arp_entries'[j] = IF j = i THEN e ELSE arp_entries[j]
  BY EntryByEntry
<1>2. arp_entries' \in [Entries -> EntrySet]
  BY EntryByEntry
<1>3. \A j \in Entries : EntryWaits(arp_entries'[j]) /\ FewRetries(arp_entries'[j])
  BY <1>1, EntryByEntry
<1>4. CASE UNCHANGED arp_timer /\ Reached(arp_timer, e)
  <2>1. \A j \in Entries : Reached(arp_timer', arp_entries'[j])
    BY <1>1, <1>4, EntryByEntry
  <2>2. arp_timer' \in [enabled : BOOLEAN, left : Nat]
    BY <1>4, EntryByEntry
  <2> QED  BY <1>2, <1>3, <2>1, <2>2
           DEF CacheInvariant, CacheWatched, RetriesBounded, EntryWaits, FewRetries, Reached
<1> QED  BY <1>2, <1>3, <1>4, TimerSet

----------------------------------------------------------------------------
(* Packets.                                                                *)

(* An entry that is found is one of the cache.                             *)
LEMMA FindEntry ==
  ASSUME NEW ip, arp_find_entry(ip) # 0
  PROVE  arp_find_entry(ip) \in Entries
<1> DEFINE known == {i \in Entries : arp_entries[i].ip = ip}
           free  == {i \in Entries : ~({"VALID", "IN_USE"} \subseteq arp_entries[i].flags)}
<1>1. known \subseteq Nat /\ free \subseteq Nat
  BY ArpAssumption DEF Entries
<1>2. known \subseteq Entries /\ free \subseteq Entries
  OBVIOUS
<1>3. arp_find_entry(ip) =
        IF known # {} THEN Min(known) ELSE IF free # {} THEN Min(free) ELSE 0
  BY DEF arp_find_entry
<1> HIDE DEF known, free
<1>4. (known # {} => Min(known) \in known) /\ (free # {} => Min(free) \in free)
  BY <1>1, MinNat
<1> QED  BY <1>2, <1>3, <1>4

LEMMA NewEntryInvariant ==
  ASSUME CacheInvariant, NEW i \in Entries, NEW dst \in Hosts, NewEntry(i, dst)
  PROVE  CacheInvariant'
<1>1. PICK e : e = [Cleared EXCEPT !.flags = {"VALID"}, !.ip = dst, !.list = <<dst>>]
  OBVIOUS
<1>2. e = [flags |-> {"VALID"}, ip |-> dst, mac |-> NoHost, left |-> 0, retry |-> 0,
           list |-> <<dst>>]
  BY <1>1 DEF Cleared
<1>3. <<dst>> \in Seq(Hosts) /\ ToSet(<<dst>>) = {dst}
  <2>1. PICK l : l = <<dst>>
    OBVIOUS
  <2>2. l \in Seq(Hosts) /\ Len(l) = 1 /\ l[1] = dst
    BY <2>1
  <2>3. ToSet(l) = {l[k] : k \in 1 .. 1}
    BY <2>2 DEF ToSet
  <2>4. ToSet(l) = {dst}
    BY <2>2, <2>3
  <2> QED  BY <2>1, <2>2, <2>4
<1>4. e \in EntrySet /\ EntryWaits(e) /\ FewRetries(e)
  BY <1>2, <1>3, ArpAssumption DEF EntrySet, EntryWaits, FewRetries
<1>5. arp_entries' = [arp_entries EXCEPT ![i] = e]
      /\ arp_timer' = arp_update_timers(arp_entries')
  BY <1>1 DEF NewEntry
<1> QED  BY <1>4, <1>5, EntrySetTo

LEMMA ResolveInvariant ==
  ASSUME CacheInvariant, NEW i \in Entries, NEW dst \in Hosts, arp_resolve(i, dst)
  PROVE  CacheInvariant'
<1> DEFINE e == arp_entries[i]
           taken == "VALID" \in e.flags /\ e.ip # dst
<1>1. e \in EntrySet /\ EntryWaits(e) /\ FewRetries(e) /\ Reached(arp_timer, e)
  BY EntryByEntry
<1>2. CASE ~taken /\ "UP" \in e.flags /\ UseEntry(i, dst)
  <2>1. CASE "IN_USE" \in e.flags
    <3>1. UNCHANGED <<arp_entries, arp_timer>>
      BY <1>2, <2>1 DEF UseEntry
    <3> QED  BY <3>1 DEF CacheInvariant, CacheWatched, RetriesBounded
  <2>2. CASE "IN_USE" \notin e.flags
    <3>1. PICK f : f = [e EXCEPT !.flags = @ \cup {"IN_USE"}, !.left = ARP_UPDATE_TIME]
      OBVIOUS
    <3>2. f \in EntrySet /\ EntryWaits(f) /\ FewRetries(f)
      BY <1>1, <1>2, <3>1, ArpAssumption DEF EntrySet, EntryWaits, FewRetries
    <3>3. arp_entries' = [arp_entries EXCEPT ![i] = f]
          /\ arp_timer' = arp_update_timers(arp_entries')
      BY <1>2, <2>2, <3>1 DEF UseEntry
    <3> QED  BY <3>2, <3>3, EntrySetTo
  <2> QED  BY <2>1, <2>2
<1>3. CASE NewEntry(i, dst)
  BY <1>3, NewEntryInvariant
<1>4. CASE /\ ~taken /\ "UP" \notin e.flags /\ "VALID" \in e.flags
           /\ arp_entries' = [arp_entries EXCEPT ![i].list = Append(@, dst)]
           /\ UNCHANGED arp_timer
  <2>1. PICK f : f = [e EXCEPT !.list = Append(@, dst)]
    OBVIOUS
  <2>2. e.list \in Seq(Hosts) /\ e.ip = dst
    BY <1>1, <1>4 DEF EntrySet
  <2>3. /\ Append(e.list, dst) \in Seq(Hosts)
        /\ ToSet(Append(e.list, dst)) = ToSet(e.list) \cup {dst}
    BY <2>2, AppendMembers
  <2>4. ToSet(e.list) \subseteq {dst}
    <3>1. CASE e.list = <<>>
      BY <3>1 DEF ToSet
    <3>2. CASE e.list # <<>>
      BY <1>1, <2>2, <3>2 DEF EntryWaits
    <3> QED  BY <3>1, <3>2
  <2>5. f \in EntrySet /\ f.ip = dst /\ f.flags = e.flags /\ f.left = e.left
        /\ f.retry = e.retry /\ f.list = Append(e.list, dst)
    BY <1>1, <2>1, <2>2, <2>3 DEF EntrySet
  <2>6. EntryWaits(f)
    BY <1>4, <2>3, <2>4, <2>5 DEF EntryWaits
  <2>7. FewRetries(f) /\ Reached(arp_timer, f)
    BY <1>1, <2>5 DEF FewRetries, Reached, Routed
  <2>8. arp_entries' = [arp_entries EXCEPT ![i] = f]
    BY <1>4, <2>1
  <2> QED  BY <1>4, <2>5, <2>6, <2>7, <2>8, EntrySetTo
<1> QED  BY <1>2, <1>3, <1>4 DEF arp_resolve

----------------------------------------------------------------------------
(* The timer and the replies.                                              *)

(* What arp_event leaves of an entry.                                      *)
LEMMA EntryEventKeeps ==
  ASSUME NEW e \in EntrySet, EntryWaits(e), FewRetries(e), NEW status
  PROVE  /\ EntryEvent(e, status) \in EntrySet
         /\ EntryWaits(EntryEvent(e, status)) /\ FewRetries(EntryEvent(e, status))
<1>1. PICK f : f = EntryEvent(e, status)
  OBVIOUS
<1>2. /\ e.retry \in Nat /\ e.left \in Nat /\ ARP_RETRY_COUNT \in Nat
      /\ ARP_TIMEOUT \in Nat /\ ARP_UPDATE_TIME \in Nat
  BY ArpAssumption DEF EntrySet
<1>3. CASE f = arp_free_entry(e)
  <2>1. f = [flags |-> {}, ip |-> e.ip, mac |-> e.mac, left |-> 0, retry |-> 0, list |-> <<>>]
    BY <1>3 DEF arp_free_entry, Cleared
  <2> QED  BY <1>1, <1>2, <2>1 DEF EntrySet, EntryWaits, FewRetries
<1>4. CASE Asks(e) /\ "UP" \notin e.flags /\ \E n \in Nat : f = [e EXCEPT !.left = n, !.retry = @ + 1]
  <2>1. e.retry < ARP_RETRY_COUNT
    BY <1>2, <1>4 DEF Asks, GivesUp, FewRetries
  <2>2. PICK n \in Nat : f = [e EXCEPT !.left = n, !.retry = @ + 1]
    BY <1>4
  <2>3. /\ f \in EntrySet /\ f.retry = e.retry + 1
        /\ f.flags = e.flags /\ f.ip = e.ip /\ f.list = e.list
    <3>1. PICK r \in Nat : r = e.retry + 1
      BY <1>2
    <3>2. f = [e EXCEPT !.left = n, !.retry = r]
      BY <2>2, <3>1
    <3>3. f \in EntrySet /\ f.retry = r
          /\ f.flags = e.flags /\ f.ip = e.ip /\ f.list = e.list
      BY <3>2 DEF EntrySet
    <3> QED  BY <3>1, <3>3
  <2>4. f.retry <= ARP_RETRY_COUNT
    BY <1>2, <2>1, <2>3
  <2>5. EntryWaits(f) /\ FewRetries(f)
    BY <2>3, <2>4 DEF EntryWaits, FewRetries
  <2> QED  BY <1>1, <2>3, <2>5
<1>5. CASE "UP" \in e.flags /\ \E n, r \in Nat : f = [e EXCEPT !.left = n, !.retry = r]
  BY <1>1, <1>2, <1>5 DEF EntrySet, EntryWaits, FewRetries
<1>6. CASE f = e
  BY <1>1, <1>6
<1>7. \/ f = arp_free_entry(e)
      \/ Asks(e) /\ "UP" \notin e.flags /\ \E n \in Nat : f = [e EXCEPT !.left = n, !.retry = @ + 1]
      \/ "UP" \in e.flags /\ \E n, r \in Nat : f = [e EXCEPT !.left = n, !.retry = r]
      \/ f = e
  <2>1. CASE Asks(e) /\ "UP" \notin e.flags
    BY <1>1, <1>2, <2>1 DEF EntryEvent, Asks
  <2>2. CASE Asks(e) /\ "UP" \in e.flags
    <3>1. \/ f = arp_free_entry(e) \/ f = e
          \/ f = [e EXCEPT !.left = ARP_UPDATE_TIME]
          \/ f = [e EXCEPT !.left = ARP_UPDATE_TIME, !.retry = 0]
      BY <1>1, <2>2 DEF EntryEvent, Asks
    <3>2. [e EXCEPT !.left = ARP_UPDATE_TIME] =
            [e EXCEPT !.left = ARP_UPDATE_TIME, !.retry = e.retry]
      BY DEF EntrySet
    <3> QED  BY <1>2, <2>2, <3>1, <3>2
  <2>3. CASE ~ Asks(e)
    BY <1>1, <2>3 DEF EntryEvent
  <2> QED  BY <2>1, <2>2, <2>3
<1> QED  BY <1>3, <1>4, <1>5, <1>6, <1>7

LEMMA EventInvariant ==
  ASSUME CacheInvariant, arp_event
  PROVE  CacheInvariant'
<1>1. PICK status : arp_entries' = [i \in Entries |-> EntryEvent(arp_entries[i], status[i])]
  BY DEF arp_event
<1>2. \A i \in Entries : /\ EntryEvent(arp_entries[i], status[i]) \in EntrySet
                         /\ EntryWaits(EntryEvent(arp_entries[i], status[i]))
                         /\ FewRetries(EntryEvent(arp_entries[i], status[i]))
  BY EntryByEntry, EntryEventKeeps
<1>3. arp_entries' \in [Entries -> EntrySet]
  BY <1>1, <1>2
<1>4. \A i \in Entries : EntryWaits(arp_entries'[i]) /\ FewRetries(arp_entries'[i])
  BY <1>1, <1>2
<1>5. arp_timer' = arp_update_timers(arp_entries')
  BY DEF arp_event
<1> QED  BY <1>3, <1>4, <1>5, TimerSet

LEMMA ResponseInvariant ==
  ASSUME CacheInvariant, NEW h \in Hosts, arp_process_response(h)
  PROVE  CacheInvariant'
<1> DEFINE known == {j \in Entries : arp_entries[j].ip = h}
           i == Min(known)
           e == arp_entries[i]
<1>1. CASE UNCHANGED <<arp_entries, arp_timer>>
  BY <1>1 DEF CacheInvariant, CacheWatched, RetriesBounded
<1>2. CASE known # {}
  <2>1. i \in Entries /\ e \in EntrySet /\ EntryWaits(e) /\ FewRetries(e) /\ Reached(arp_timer, e)
    <3>1. known \subseteq Nat /\ known \subseteq Entries
      BY ArpAssumption DEF Entries
    <3> HIDE DEF known
    <3>2. i \in Entries
      BY <1>2, <3>1, MinNat
    <3> QED  BY <3>2, EntryByEntry
  <2> HIDE DEF i, known
  <2>2. PICK f : f = [e EXCEPT !.mac = h, !.flags = @ \cup {"UP"}, !.retry = 0]
    OBVIOUS
  <2>3. CASE e.list # <<>> /\ SendPending(i, f)
    <3>0. PICK used \in BOOLEAN :
            /\ arp_entries' = [arp_entries EXCEPT
                 ![i] = [f EXCEPT !.flags = @ \cup {"IN_USE"}, !.list = <<>>,
                                  !.left = IF used THEN ARP_UPDATE_TIME ELSE @]]
            /\ arp_timer' = IF used THEN arp_update_timers(arp_entries') ELSE arp_timer
      BY <2>3 DEF SendPending
    <3>1. PICK n \in Nat : n = IF used THEN ARP_UPDATE_TIME ELSE e.left
      BY <2>1, ArpAssumption DEF EntrySet
    <3>2. PICK g : g = [f EXCEPT !.flags = @ \cup {"IN_USE"}, !.list = <<>>,
                                 !.left = IF used THEN ARP_UPDATE_TIME ELSE @]
      OBVIOUS
    <3>3. g = [flags |-> e.flags \cup {"UP", "IN_USE"}, ip |-> e.ip, mac |-> h, left |-> n,
               retry |-> 0, list |-> <<>>]
      BY <2>1, <2>2, <3>1, <3>2 DEF EntrySet
    <3>4. g \in EntrySet /\ EntryWaits(g) /\ FewRetries(g)
      BY <2>1, <3>1, <3>3, ArpAssumption DEF EntrySet, EntryWaits, FewRetries
    <3>5. arp_entries' = [arp_entries EXCEPT ![i] = g]
      BY <3>0, <3>2
    <3>6. CASE used
      <4>1. arp_timer' = arp_update_timers(arp_entries')
        BY <3>0, <3>6
      <4> QED  BY <2>1, <3>4, <3>5, <4>1, EntrySetTo
    <3>7. CASE ~ used
      <4>1. Reached(arp_timer, g)
        BY <2>1, <2>3, <3>1, <3>3, <3>7 DEF Reached, Routed, EntryWaits
      <4>2. UNCHANGED arp_timer
        BY <3>0, <3>7
      <4> QED  BY <2>1, <3>4, <3>5, <4>1, <4>2, EntrySetTo
    <3> QED  BY <3>6, <3>7
  <2>4. CASE /\ e.list = <<>> /\ UNCHANGED arp_timer
             /\ arp_entries' = [arp_entries EXCEPT ![i] = [f EXCEPT !.flags = @ \ {"IN_USE"}]]
    <3>1. PICK g : g = [f EXCEPT !.flags = @ \ {"IN_USE"}]
      OBVIOUS
    <3>2. g = [flags |-> (e.flags \cup {"UP"}) \ {"IN_USE"}, ip |-> e.ip, mac |-> h,
               left |-> e.left, retry |-> 0, list |-> <<>>]
      BY <2>1, <2>2, <2>4, <3>1 DEF EntrySet
    <3>3. g \in EntrySet /\ EntryWaits(g) /\ FewRetries(g) /\ Reached(arp_timer, g)
      BY <2>1, <3>2, ArpAssumption DEF EntrySet, EntryWaits, FewRetries, Reached, Routed
    <3>4. arp_entries' = [arp_entries EXCEPT ![i] = g]
      BY <2>4, <3>1
    <3> QED  BY <2>1, <2>4, <3>3, <3>4, EntrySetTo
  <2>5. f.list = e.list
    BY <2>1, <2>2 DEF EntrySet
  <2>6. \/ known = {} /\ UNCHANGED <<arp_entries, arp_timer>>
        \/ known # {} /\ f.list # <<>> /\ SendPending(i, f)
        \/ /\ known # {} /\ f.list = <<>>
           /\ arp_entries' = [arp_entries EXCEPT ![i] = [f EXCEPT !.flags = @ \ {"IN_USE"}]]
           /\ UNCHANGED arp_timer
    BY <2>2 DEF arp_process_response, i, known
  <2> QED  BY <1>2, <2>3, <2>4, <2>5, <2>6
<1> QED  BY <1>1, <1>2 DEF arp_process_response

LEMMA TickArp ==
  ASSUME CacheInvariant, ArpTick
  PROVE  CacheInvariant'
<1>1. /\ arp_entries \in [Entries -> EntrySet]
      /\ arp_timer.enabled \in BOOLEAN /\ arp_timer.left \in Nat
      /\ arp_timer \in [enabled : BOOLEAN, left : Nat]
  BY EntryByEntry
<1>2. /\ arp_entries' = [j \in Entries |-> [arp_entries[j] EXCEPT !.left = TickDown(@)]]
      /\ arp_timer' = [arp_timer EXCEPT !.left = TickDown(@)]
  BY DEF ArpTick
<1>3. \A n \in Nat : TickDown(n) \in Nat
  BY DEF TickDown
<1>4. \A m, n \in Nat : m <= n => TickDown(m) <= TickDown(n)
  BY DEF TickDown
<1>5. arp_timer' \in [enabled : BOOLEAN, left : Nat]
      /\ arp_timer'.enabled = arp_timer.enabled /\ arp_timer'.left = TickDown(arp_timer.left)
  BY <1>1, <1>2, <1>3
<1>6. ASSUME NEW j \in Entries
      PROVE  /\ arp_entries'[j] \in EntrySet
             /\ EntryWaits(arp_entries'[j]) /\ FewRetries(arp_entries'[j])
             /\ Reached(arp_timer', arp_entries'[j])
  <2>1. PICK e \in EntrySet : e = arp_entries[j]
    BY <1>1
  <2>2. PICK f : f = arp_entries'[j] /\ f = [e EXCEPT !.left = TickDown(@)]
    BY <1>2, <2>1
  <2>3. /\ f \in EntrySet /\ f.flags = e.flags /\ f.ip = e.ip /\ f.retry = e.retry
        /\ f.list = e.list /\ f.left = TickDown(e.left) /\ e.left \in Nat
    BY <1>3, <2>2 DEF EntrySet
  <2>4. EntryWaits(e) /\ FewRetries(e) /\ Reached(arp_timer, e)
    BY <2>1, EntryByEntry
  <2>5. EntryWaits(f) /\ FewRetries(f)
    BY <2>3, <2>4 DEF EntryWaits, FewRetries
  <2>6. Reached(arp_timer', f)
    BY <1>1, <1>4, <1>5, <2>3, <2>4 DEF Reached, Routed
  <2> QED  BY <2>2, <2>3, <2>5, <2>6
<1>7. arp_entries' \in [Entries -> EntrySet]
  <2>1. PICK es : es = arp_entries' /\ DOMAIN es = Entries
                  /\ es = [j \in Entries |-> es[j]]
    BY <1>2
  <2>2. \A j \in Entries : es[j] \in EntrySet
    BY <1>6, <2>1
  <2> QED  BY <2>1, <2>2
<1> QED  BY <1>5, <1>6, <1>7
         DEF CacheInvariant, CacheWatched, RetriesBounded, EntryWaits, FewRetries, Reached

----------------------------------------------------------------------------
LEMMA InitArp == ArpInit => ArpInvariant
<1> SUFFICES ASSUME ArpInit
             PROVE  ArpInvariant
  OBVIOUS
<1>1. Cleared \in EntrySet /\ EntryWaits(Cleared) /\ FewRetries(Cleared) /\ ~ Routed(Cleared)
  BY ArpAssumption DEF Cleared, EntrySet, EntryWaits, FewRetries, Routed
<1>2. arp_entries = [i \in Entries |-> Cleared] /\ arp_timer = [enabled |-> FALSE, left |-> 0]
  BY DEF ArpInit, TimerOff
<1>3. CacheInvariant
  BY <1>1, <1>2, EntryByEntry DEF Reached
<1>4. WaitInvariant
  BY DEF ArpInit, NoWait, WaitInvariant, SleepReaches
<1> QED  BY <1>3, <1>4 DEF ArpInvariant

----------------------------------------------------------------------------
(* The wait of the network task.                                           *)

(* What WaitInvariant says of one entry.                                   *)
Covered(wait, heard, e) ==
  Routed(e) /\ wait.at = "asleep" /\ heard => wait.enabled /\ wait.left <= e.left

WaitSet == [at : {"awake", "asleep", "due"}, enabled : BOOLEAN, left : Nat]

LEMMA WaitByEntry ==
  WaitInvariant <=> /\ arp_wait \in WaitSet
                    /\ arp_wait.enabled => arp_wait.at = "asleep"
                    /\ \A i \in Entries : Covered(arp_wait, i \notin unheard, arp_entries[i])
BY DEF WaitInvariant, SleepReaches, Covered, WaitSet

(* A network task that does not sleep covers everything.                   *)
LEMMA NotAsleep ==
  ASSUME NEW at \in {"awake", "due"}, arp_wait' = NoWait(at)
  PROVE  WaitInvariant'
<1>1. arp_wait' \in WaitSet /\ ~ arp_wait'.enabled /\ arp_wait'.at # "asleep"
  BY DEF NoWait, WaitSet
<1> QED  BY <1>1 DEF WaitInvariant, SleepReaches, WaitSet

(* Only entries of is have changed, and the network task is told or not.   *)
LEMMA ChangeKept ==
  ASSUME WaitInvariant, NEW is,
         \A j \in Entries \ is :
           /\ Routed(arp_entries'[j]) => Routed(arp_entries[j])
           /\ arp_entries'[j].left = arp_entries[j].left,
         Told \/ Untold(is)
  PROVE  WaitInvariant'
<1>1. CASE arp_wait.at = "asleep" /\ Told
  BY <1>1, NotAsleep DEF Told
<1>2. CASE arp_wait.at # "asleep"
  <2>1. UNCHANGED arp_wait
    BY <1>2 DEF Told, Untold
  <2> QED  BY <1>2, <2>1 DEF WaitInvariant, SleepReaches
<1>3. CASE arp_wait.at = "asleep" /\ Untold(is)
  <2>1. UNCHANGED arp_wait /\ unheard' = unheard \cup is
    BY <1>3 DEF Untold
  <2>2. ASSUME NEW j \in Entries
        PROVE  Covered(arp_wait', j \notin unheard', arp_entries'[j])
    <3>1. Covered(arp_wait, j \notin unheard, arp_entries[j])
      BY WaitByEntry
    <3>2. CASE j \in is
      BY <2>1, <3>2 DEF Covered
    <3>3. CASE j \notin is
      BY <2>1, <3>1, <3>3 DEF Covered
    <3> QED  BY <3>2, <3>3
  <2> QED  BY <2>1, <2>2 DEF WaitInvariant, SleepReaches, Covered
<1> QED  BY <1>1, <1>2, <1>3

LEMMA ResolveWait ==
  ASSUME CacheInvariant, WaitInvariant, NEW i \in Entries, NEW dst \in Hosts,
         arp_resolve(i, dst)
  PROVE  WaitInvariant'
<1> DEFINE e == arp_entries[i]
<1>1. arp_entries \in [Entries -> EntrySet]
  BY DEF CacheInvariant
<1>2. CASE NewEntry(i, dst) \/ (UseEntry(i, dst) /\ "IN_USE" \notin e.flags)
  <2>1. \A j \in Entries \ {i} : arp_entries'[j] = arp_entries[j]
    BY <1>1, <1>2 DEF NewEntry, UseEntry
  <2>2. Told \/ Untold({i})
    BY <1>2 DEF NewEntry, UseEntry
  <2> QED  BY <2>1, <2>2, ChangeKept
<1>3. CASE UseEntry(i, dst) /\ "IN_USE" \in e.flags
  <2>1. arp_entries' = arp_entries /\ (Told \/ Untold({}))
    BY <1>3 DEF UseEntry
  <2> QED  BY <2>1, ChangeKept
<1>4. CASE arp_entries' = [arp_entries EXCEPT ![i].list = Append(@, dst)] /\ Untold({})
  <2>1. PICK l : l = Append(arp_entries[i].list, dst)
    OBVIOUS
  <2>2. arp_entries' = [arp_entries EXCEPT ![i] = [arp_entries[i] EXCEPT !.list = l]]
    BY <1>4, <2>1
  <2>3. \A j \in Entries : /\ arp_entries'[j].flags = arp_entries[j].flags
                           /\ arp_entries'[j].left = arp_entries[j].left
    BY <1>1, <2>2 DEF EntrySet
  <2> QED  BY <1>4, <2>3, ChangeKept DEF Routed
<1> QED  BY <1>2, <1>3, <1>4 DEF arp_resolve

(* The network task sleeps until the timer, which is never late.           *)
LEMMA SleepWait ==
  ASSUME CacheInvariant, ArpSleep
  PROVE  WaitInvariant'
<1>1. /\ arp_timer \in [enabled : BOOLEAN, left : Nat]
      /\ \A i \in Entries : Reached(arp_timer, arp_entries[i])
  BY EntryByEntry
<1>2. arp_wait' = [at |-> "asleep", enabled |-> arp_timer.enabled, left |-> arp_timer.left]
      /\ arp_entries' = arp_entries
  BY DEF ArpSleep
<1>3. /\ arp_wait' \in WaitSet /\ arp_wait'.at = "asleep"
      /\ arp_wait'.enabled = arp_timer.enabled /\ arp_wait'.left = arp_timer.left
  BY <1>1, <1>2 DEF WaitSet
<1>4. \A i \in Entries : Routed(arp_entries'[i]) =>
                           arp_wait'.enabled /\ arp_wait'.left <= arp_entries'[i].left
  BY <1>1, <1>2, <1>3 DEF Reached
<1> QED  BY <1>3, <1>4 DEF WaitInvariant, SleepReaches, WaitSet

LEMMA TickWait ==
  ASSUME CacheInvariant, WaitInvariant, ArpTick
  PROVE  WaitInvariant'
<1>1. CASE arp_wait.enabled /\ arp_wait.left <= 1
  BY <1>1, NotAsleep DEF ArpTick
<1>2. CASE ~ (arp_wait.enabled /\ arp_wait.left <= 1)
  <2>1. /\ arp_wait' = [arp_wait EXCEPT !.left = TickDown(@)] /\ unheard' = unheard
        /\ arp_entries' = [j \in Entries |-> [arp_entries[j] EXCEPT !.left = TickDown(@)]]
    BY <1>2 DEF ArpTick
  <2>2. arp_wait \in WaitSet /\ (arp_wait.enabled => arp_wait.at = "asleep")
    BY WaitByEntry
  <2>3. \A m, n \in Nat : TickDown(n) \in Nat /\ (m <= n => TickDown(m) <= TickDown(n))
    BY DEF TickDown
  <2>4. /\ arp_wait' \in WaitSet /\ arp_wait.left \in Nat
        /\ arp_wait'.at = arp_wait.at /\ arp_wait'.enabled = arp_wait.enabled
        /\ arp_wait'.left = TickDown(arp_wait.left)
    BY <2>1, <2>2, <2>3 DEF WaitSet
  <2>5. ASSUME NEW j \in Entries
        PROVE  Covered(arp_wait', j \notin unheard', arp_entries'[j])
    <3>1. PICK e \in EntrySet : e = arp_entries[j]
      BY DEF CacheInvariant
    <3>2. PICK f : f = arp_entries'[j] /\ f = [e EXCEPT !.left = TickDown(@)]
      BY <2>1, <3>1
    <3>3. f.flags = e.flags /\ f.left = TickDown(e.left) /\ e.left \in Nat
      BY <3>2 DEF EntrySet
    <3>4. Covered(arp_wait, j \notin unheard, e)
      BY <3>1, WaitByEntry
    <3>5. Covered(arp_wait', j \notin unheard', f)
      BY <2>1, <2>3, <2>4, <3>3, <3>4 DEF Covered, Routed
    <3> QED  BY <3>2, <3>5
  <2> QED  BY <2>2, <2>4, <2>5 DEF WaitInvariant, SleepReaches, Covered, WaitSet
<1> QED  BY <1>1, <1>2

----------------------------------------------------------------------------
(* A packet that waits in the ARP cache is in an entry that asks for the   *)
(* packet's next hop and has requests left; the timer of the cache, and    *)
(* the wait of a network task that sleeps, reach the entry in time,        *)
(* whatever replies come and wherever entries are taken over.  The wait    *)
(* does not reach an entry that another task has changed since it began:   *)
(* arp_resolve does not wake the network task (net_arp.c:580-591).         *)
THEOREM PendingAlwaysWatched == ArpSpec => []PendingWatched
<1>1. ArpInit => ArpInvariant
  BY InitArp
<1>2. ArpInvariant /\ [ArpNext]_arpVars => ArpInvariant'
  <2> SUFFICES ASSUME CacheInvariant, WaitInvariant, [ArpNext]_arpVars
               PROVE  CacheInvariant' /\ WaitInvariant'
    BY DEF ArpInvariant
  <2>1. ASSUME NEW h \in Hosts, ethernet_buffer_transmit(h)
        PROVE  CacheInvariant' /\ WaitInvariant'
    BY <2>1, FindEntry, ResolveInvariant, ResolveWait DEF ethernet_buffer_transmit
  <2>2. ASSUME NEW h \in Hosts, arp_process_response(h)
        PROVE  CacheInvariant' /\ WaitInvariant'
    <3>1. arp_wait.at = "awake" /\ UNCHANGED <<arp_wait, unheard>>
      BY <2>2 DEF arp_process_response
    <3>2. WaitInvariant'
      BY <3>1 DEF WaitInvariant, SleepReaches
    <3> QED  BY <2>2, <3>2, ResponseInvariant
  <2>3. CASE arp_event
    <3>1. WaitInvariant'
      BY <2>3, NotAsleep DEF arp_event
    <3> QED  BY <2>3, <3>1, EventInvariant
  <2>4. CASE ArpTick
    BY <2>4, TickArp, TickWait
  <2>5. CASE ArpSleep
    <3>1. CacheInvariant'
      BY <2>5 DEF ArpSleep, CacheInvariant, CacheWatched, RetriesBounded
    <3> QED  BY <2>5, <3>1, SleepWait
  <2>6. CASE ArpWoken
    <3>1. CacheInvariant'
      BY <2>6 DEF ArpWoken, CacheInvariant, CacheWatched, RetriesBounded
    <3>2. WaitInvariant'
      BY <2>6, NotAsleep DEF ArpWoken, Told
    <3> QED  BY <3>1, <3>2
  <2>7. CASE LinkChange \/ (\E h \in Hosts : ReplyLost(h)) \/ UNCHANGED arpVars
    <3>1. UNCHANGED <<arp_entries, arp_timer, arp_wait, unheard>>
      BY <2>7 DEF LinkChange, ReplyLost, arpVars
    <3> QED  BY <3>1 DEF CacheInvariant, CacheWatched, RetriesBounded, WaitInvariant, SleepReaches
  <2> QED  BY <2>1, <2>2, <2>3, <2>4, <2>5, <2>6, <2>7 DEF ArpNext
<1>3. ArpInvariant => PendingWatched
  BY DEF ArpInvariant, CacheInvariant, WaitInvariant, PendingWatched
<1> QED  BY <1>1, <1>2, <1>3, PTL DEF ArpSpec

----------------------------------------------------------------------------
(* The network task.                                                       *)

(* What the network task knows at each point.                              *)

Sources == {BUFFERS, WORK}
Ticks == Nat \cup {OFF}

NetTaskSet ==
  [at : {"loop", "entry", "check", "asleep", "woken", "rx", "work", "answer", "input", "timer"},
   num : Nat, timeout : Ticks, index : Nat, left : Ticks, late : Nat,
   from : Sources \cup {NONE, "SLEEP"}, may : SUBSET Sources, port : Ports \cup {NONE}]

OwnerSet == {"out", "counting", "registered", "in", "armed", "unlisted", "freed", "removing",
             "added", "waiting", "resumed"}

NetTaskTypes ==
  /\ duty \in Duties
  /\ net_num \in Nat /\ 2 <= net_num /\ net_num <= Cardinality(Ports) + 2
  /\ net_array \in [Indices -> Ports \cup Sources \cup {NONE}]
  /\ net_task \in NetTaskSet
  /\ port_timer \in [Ports -> Ticks]
  /\ rx_queue \in Nat /\ rx_flag \in BOOLEAN
  /\ work_list \in Seq(Ports) /\ work_ping \in BOOLEAN
  /\ done_ping \in [Ports -> BOOLEAN]
  /\ owner \in [Ports -> OwnerSet]

(* A port that the network task should watch.                              *)
Registered(p) == ~ (owner[p] \in {"out", "counting"} \/ done_ping[p] \/ Answering(p))

(* The array: the two queues, then every registered port, once.            *)
ArrayExact ==
  /\ net_array[1] = BUFFERS /\ net_array[2] = WORK
  /\ \A i \in 3 .. net_num : net_array[i] \in Ports
  /\ \A i, j \in 1 .. net_num : net_array[i] = net_array[j] => i = j
  /\ \A p \in Ports : Registered(p) <=> \E i \in 1 .. net_num : net_array[i] = p

(* An entry that is not counted yet is the only one, behind the others.    *)
Adding ==
  \A p \in Ports : owner[p] = "counting" =>
    /\ net_num < Cardinality(Ports) + 2 /\ net_array[net_num + 1] = p
    /\ \A q \in Ports : owner[q] = "counting" => q = p

(* Who registers and who unregisters.                                      *)
Leaving == {"unlisted", "freed", "removing", "added", "waiting", "resumed"}
OnDuty ==
  \A p \in Ports : /\ owner[p] = "counting" => p \in duty.register
                   /\ owner[p] \in Leaving => p \in duty.unregister

(* The work of an owner is on the queue, in the hands of the network task  *)
(* or done.                                                                *)
Works ==
  /\ IsInjective(work_list)
  /\ \A p \in Ports :
       /\ p \in ToSet(work_list) => owner[p] \in {"added", "waiting"}
       /\ p \in ToSet(work_list) => ~ done_ping[p] /\ ~ Answering(p)
       /\ Answering(p) => owner[p] \in {"added", "waiting"} /\ ~ done_ping[p]
       /\ done_ping[p] => owner[p] \in {"added", "resumed"}
       /\ owner[p] \in {"added", "waiting"} =>
            p \in ToSet(work_list) \/ Answering(p) \/ done_ping[p]
       /\ owner[p] = "resumed" => done_ping[p]

(* What is queued is said to be there, or is being worked on.              *)
Queues ==
  /\ rx_queue > 0 => rx_flag
  /\ work_list # <<>> => work_ping \/ net_task.at \in {"work", "answer"}

(* The wait of the network task.                                           *)
Waits ==
  /\ net_task.at \in {"entry", "check", "asleep", "woken"} =>
       2 <= net_task.num /\ net_task.num <= net_num
  /\ net_task.at \in {"check", "asleep", "woken"} => net_task.index \in 1 .. net_task.num
  /\ net_task.at = "asleep" => ~ rx_flag /\ ~ work_ping
  /\ net_task.at = "woken" =>
       \/ net_task.from = "SLEEP"
       \/ /\ net_task.from # "SLEEP" /\ net_task.may # {}
          /\ BUFFERS \in net_task.may => rx_flag
          /\ WORK \in net_task.may => work_ping
  /\ net_task.at \in {"input", "timer", "answer"} => net_task.port \in Ports

(* What a wait of ticks from now, late by late, makes of the timers.       *)
Covers(ticks, late) ==
  \A i \in 1 .. net_num :
    TicksTo(i) # OFF => ticks # OFF /\ ticks <= TicksTo(i) + late

(* No change of the array or a timer is still to be told of.               *)
Settled == ~ WillUpdate /\ ~ rx_flag
Timed ==
  Settled => /\ net_task.at \in {"entry", "check", "asleep"} => net_num <= net_task.num
             /\ net_task.at = "check" => Covers(net_task.timeout, net_task.late)
             /\ net_task.at = "asleep" => Covers(net_task.left, net_task.late)

NetTaskInvariant ==
  /\ NetTaskTypes /\ ArrayExact /\ Adding /\ OnDuty /\ Works /\ Queues /\ Waits /\ Timed

(* The entries of the array.                                               *)
LEMMA IndexCount ==
  Cardinality(Ports) \in Nat /\ Cardinality(Indices) = Cardinality(Ports) + 2
<1>1. Cardinality(Ports) \in Nat
  BY FS_CardinalityType, NetTaskAssumption
<1>2. Cardinality(1 .. Cardinality(Ports) + 2) = Cardinality(Ports) + 2 - 1 + 1
  BY <1>1, FS_Interval
<1> QED  BY <1>1, <1>2 DEF Indices

(* Max of some indices of a list is one of them.                           *)
LEMMA MaxOfIndices ==
  ASSUME NEW n \in Nat, NEW S, S \subseteq 1 .. n, S # {}
  PROVE  Max(S) \in S
<1> DEFINE D == {n - i : i \in S}
<1>1. D \subseteq Nat /\ D # {}
  <2>1. \A i \in S : i \in Int /\ n - i \in Nat
    OBVIOUS
  <2>2. PICK i \in S : TRUE
    OBVIOUS
  <2> QED  BY <2>1, <2>2
<1>2. \E d \in D : \A e \in D : d <= e
  <2> HIDE DEF D
  <2> QED  BY <1>1, LeastElement
<1>3. PICK m \in S : \A i \in S : n - m <= n - i
  BY <1>2
<1>4. \A i \in S : m >= i
  <2> TAKE i \in S
  <2>1. i \in Int /\ m \in Int
    OBVIOUS
  <2> QED  BY <1>3, <2>1
<1>5. \E x \in S : \A y \in S : x >= y
  BY <1>4
<1> QED  BY <1>5 DEF Max

----------------------------------------------------------------------------
(* The owners.                                                             *)

LEMMA TimeoutUpdateStep ==
  ASSUME NetTaskInvariant, NEW p \in Ports, tcp_timeout_update(p)
  PROVE  NetTaskInvariant'
<1> USE NetTaskAssumption DEF NetTaskInvariant, tcp_timeout_update
<1>1. NetTaskTypes'
  BY DEF NetTaskTypes, OwnerSet, Ticks
<1>2. ArrayExact'
  BY DEF ArrayExact, Registered, Answering, NetTaskTypes
<1>3. Adding' /\ OnDuty'
  BY DEF Adding, OnDuty, Leaving, NetTaskTypes
<1>4. Works'
  BY DEF Works, Answering, NetTaskTypes
<1>5. Queues' /\ Waits'
  BY DEF Queues, Waits
<1>6. Timed'
  BY DEF Timed, Settled, WillUpdate, NetTaskTypes
<1> QED  BY <1>1, <1>2, <1>3, <1>4, <1>5, <1>6

LEMMA UnregisterStep ==
  ASSUME NetTaskInvariant, NEW p \in Ports, tcp_unregister(p)
  PROVE  NetTaskInvariant'
<1> USE NetTaskAssumption DEF NetTaskInvariant, tcp_unregister
<1>1. NetTaskTypes'
  BY DEF NetTaskTypes, OwnerSet, Ticks
<1>2. ArrayExact'
  BY DEF ArrayExact, Registered, Answering, NetTaskTypes
<1>3. Adding' /\ OnDuty'
  BY DEF Adding, OnDuty, Leaving, NetTaskTypes
<1>4. Works'
  BY DEF Works, Answering, NetTaskTypes
<1>5. Queues' /\ Waits'
  BY DEF Queues, Waits
<1>6. Timed'
  BY DEF Timed, Settled, WillUpdate, Covers, TicksTo, NetTaskTypes
<1> QED  BY <1>1, <1>2, <1>3, <1>4, <1>5, <1>6

LEMMA TimerUnregisterStep ==
  ASSUME NetTaskInvariant, NEW p \in Ports, tcp_timer_unregister(p)
  PROVE  NetTaskInvariant'
<1> USE NetTaskAssumption DEF NetTaskInvariant, tcp_timer_unregister
<1>1. NetTaskTypes'
  BY DEF NetTaskTypes, OwnerSet, Ticks
<1>2. ArrayExact'
  BY DEF ArrayExact, Registered, Answering, NetTaskTypes
<1>3. Adding' /\ OnDuty'
  BY DEF Adding, OnDuty, Leaving, NetTaskTypes
<1>4. Works'
  BY DEF Works, Answering, NetTaskTypes
<1>5. Queues' /\ Waits'
  BY DEF Queues, Waits
<1>6. Timed'
  BY DEF Timed, Settled, WillUpdate, NetTaskTypes
<1> QED  BY <1>1, <1>2, <1>3, <1>4, <1>5, <1>6

LEMMA AddStep ==
  ASSUME NetTaskInvariant, NEW p \in Ports, net_condition_add(p)
  PROVE  NetTaskInvariant'
<1> USE NetTaskAssumption DEF NetTaskInvariant, net_condition_add
<1>1. NetTaskTypes'
  BY DEF NetTaskTypes, OwnerSet, Ticks
<1>2. ArrayExact'
  BY DEF ArrayExact, Registered, Answering, NetTaskTypes, Indices
<1>3. Adding' /\ OnDuty'
  BY IndexCount DEF Adding, OnDuty, Leaving, NetTaskTypes, Indices, DataFree
<1>4. Works'
  BY DEF Works, Answering, NetTaskTypes
<1>5. Queues' /\ Waits'
  BY DEF Queues, Waits
<1>6. Timed'
  BY DEF Timed, Settled, WillUpdate, Covers, TicksTo, NetTaskTypes, ArrayExact, Registered
<1> QED  BY <1>1, <1>2, <1>3, <1>4, <1>5, <1>6

LEMMA AddCountStep ==
  ASSUME NetTaskInvariant, NEW p \in Ports, AddCount(p)
  PROVE  NetTaskInvariant'
<1> USE NetTaskAssumption DEF NetTaskInvariant, AddCount
<1>1. NetTaskTypes'
  BY IndexCount DEF NetTaskTypes, OwnerSet, Ticks, Adding
<1>2. ArrayExact'
  BY DEF ArrayExact, Registered, Answering, NetTaskTypes, Indices, Adding, Works
<1>3. Adding' /\ OnDuty'
  BY DEF Adding, OnDuty, Leaving, NetTaskTypes, Indices
<1>4. Works'
  BY DEF Works, Answering, NetTaskTypes
<1>5. Queues' /\ Waits'
  BY DEF Queues, Waits, NetTaskTypes, NetTaskSet
<1>6. Timed'
  BY DEF Timed, Settled, WillUpdate, NetTaskTypes
<1> QED  BY <1>1, <1>2, <1>3, <1>4, <1>5, <1>6

LEMMA WorkWaitStep ==
  ASSUME NetTaskInvariant, NEW p \in Ports, WorkWait(p)
  PROVE  NetTaskInvariant'
<1> USE NetTaskAssumption DEF NetTaskInvariant, WorkWait
<1>1. NetTaskTypes'
  BY DEF NetTaskTypes, OwnerSet, Ticks
<1>2. ArrayExact'
  BY DEF ArrayExact, Registered, Answering, NetTaskTypes
<1>3. Adding' /\ OnDuty'
  BY DEF Adding, OnDuty, Leaving, NetTaskTypes
<1>4. Works'
  BY DEF Works, Answering, NetTaskTypes, ArrayExact, Registered
<1>5. Queues' /\ Waits'
  BY DEF Queues, Waits
<1>6. Timed'
  BY DEF Timed, Settled, WillUpdate, Covers, TicksTo, NetTaskTypes
<1> QED  BY <1>1, <1>2, <1>3, <1>4, <1>5, <1>6

LEMMA WorkReturnStep ==
  ASSUME NetTaskInvariant, NEW p \in Ports, WorkReturn(p)
  PROVE  NetTaskInvariant'
<1> USE NetTaskAssumption DEF NetTaskInvariant, WorkReturn
<1>1. NetTaskTypes'
  BY DEF NetTaskTypes, OwnerSet, Ticks
<1>2. ArrayExact'
  BY DEF ArrayExact, Registered, Answering, NetTaskTypes, Works
<1>3. Adding' /\ OnDuty'
  BY DEF Adding, OnDuty, Leaving, NetTaskTypes
<1>4. Works'
  BY DEF Works, Answering, NetTaskTypes
<1>5. Queues' /\ Waits'
  BY DEF Queues, Waits
<1>6. Timed'
  BY DEF Timed, Settled, WillUpdate, Covers, TicksTo, NetTaskTypes, ArrayExact, Registered, Works
<1> QED  BY <1>1, <1>2, <1>3, <1>4, <1>5, <1>6

(* A resume reaches the network task: it waits for both queues.            *)
LEMMA RousedTask ==
  ASSUME NetTaskInvariant, NEW c \in Sources
  PROVE  /\ net_task.at = "asleep" =>
              Roused(c) = [net_task EXCEPT !.at = "woken", !.from = c, !.may = {c}]
         /\ net_task.at = "woken" => Roused(c) = [net_task EXCEPT !.may = @ \cup {c}]
         /\ net_task.at \notin {"asleep", "woken"} => Roused(c) = net_task
<1>1. net_task.at \in {"asleep", "woken"} => \E i \in 1 .. net_task.num : net_array[i] = c
  <2> SUFFICES ASSUME net_task.at \in {"asleep", "woken"}
               PROVE  \E i \in 1 .. net_task.num : net_array[i] = c
    OBVIOUS
  <2>1. net_task.num \in Nat /\ net_task.num >= 2
    BY DEF NetTaskInvariant, NetTaskTypes, NetTaskSet, Waits
  <2>2. net_array[1] = BUFFERS /\ net_array[2] = WORK
    BY DEF NetTaskInvariant, ArrayExact
  <2>3. 1 \in 1 .. net_task.num /\ 2 \in 1 .. net_task.num
    BY <2>1
  <2> QED  BY <2>2, <2>3 DEF Sources
<1> QED  BY <1>1 DEF Roused

(* What a resume leaves of the network task.                               *)
LEMMA RousedFrame ==
  ASSUME NetTaskInvariant, NEW c \in Sources, net_task' = Roused(c)
  PROVE  /\ net_task' \in NetTaskSet
         /\ net_task'.at = IF net_task.at = "asleep" THEN "woken" ELSE net_task.at
         /\ net_task'.num = net_task.num /\ net_task'.index = net_task.index
         /\ net_task'.port = net_task.port /\ net_task'.timeout = net_task.timeout
         /\ net_task'.late = net_task.late
         /\ net_task.at = "asleep" => net_task'.from = c /\ net_task'.may = {c}
         /\ net_task.at = "woken" => /\ net_task'.from = net_task.from
                                     /\ net_task'.may = net_task.may \cup {c}
<1>1. net_task \in NetTaskSet
  BY DEF NetTaskInvariant, NetTaskTypes
<1>2. CASE net_task.at = "asleep"
  <2>1. net_task' = [net_task EXCEPT !.at = "woken", !.from = c, !.may = {c}]
    BY <1>2, RousedTask
  <2>2. {c} \in SUBSET Sources /\ c \in Sources \cup {NONE, "SLEEP"}
    OBVIOUS
  <2>3. net_task' \in NetTaskSet
    BY <1>1, <2>1, <2>2 DEF NetTaskSet
  <2> QED  BY <1>1, <1>2, <2>1, <2>3 DEF NetTaskSet
<1>3. CASE net_task.at = "woken"
  <2>1. net_task' = [net_task EXCEPT !.may = net_task.may \cup {c}]
    BY <1>3, RousedTask
  <2> QED  BY <1>1, <1>3, <2>1 DEF NetTaskSet
<1>4. CASE net_task.at \notin {"asleep", "woken"}
  <2>1. net_task' = net_task
    BY <1>4, RousedTask
  <2> QED  BY <1>1, <1>4, <2>1
<1> QED  BY <1>2, <1>3, <1>4

LEMMA UpdatedStep ==
  ASSUME NetTaskInvariant, NEW p \in Ports, net_condition_updated(p)
  PROVE  NetTaskInvariant'
<1> USE NetTaskAssumption DEF NetTaskInvariant, net_condition_updated
<1> USE RousedFrame DEF Sources
<1>1. NetTaskTypes'
  BY DEF NetTaskTypes, OwnerSet, Ticks
<1>2. ArrayExact'
  BY DEF ArrayExact, Registered, Answering, NetTaskTypes
<1>3. Adding' /\ OnDuty'
  BY DEF Adding, OnDuty, Leaving, NetTaskTypes
<1>4. Works'
  BY DEF Works, Answering, NetTaskTypes
<1>5. Queues' /\ Waits'
  BY DEF Queues, Waits
<1>6. Timed'
  BY DEF Timed, Settled
<1> QED  BY <1>1, <1>2, <1>3, <1>4, <1>5, <1>6

LEMMA BufferWriteStep ==
  ASSUME NetTaskInvariant, net_buffer_write
  PROVE  NetTaskInvariant'
<1> USE NetTaskAssumption DEF NetTaskInvariant, net_buffer_write
<1> USE RousedFrame DEF Sources
<1>1. NetTaskTypes'
  BY DEF NetTaskTypes, OwnerSet, Ticks
<1>2. ArrayExact'
  BY DEF ArrayExact, Registered, Answering, NetTaskTypes
<1>3. Adding' /\ OnDuty'
  BY DEF Adding, OnDuty, Leaving, NetTaskTypes
<1>4. Works'
  BY DEF Works, Answering, NetTaskTypes
<1>5. Queues' /\ Waits'
  BY DEF Queues, Waits
<1>6. Timed'
  BY DEF Timed, Settled
<1> QED  BY <1>1, <1>2, <1>3, <1>4, <1>5, <1>6

(* A work that is put before the others.                                   *)
LEMMA PushedWork ==
  ASSUME NEW S, NEW list \in Seq(S), NEW x \in S,
         x \notin ToSet(list), IsInjective(list)
  PROVE  /\ ToSet(<<x>> \o list) = {x} \cup ToSet(list)
         /\ IsInjective(<<x>> \o list)
<1>1. PICK new : new = <<x>> \o list
  OBVIOUS
<1>2. /\ new \in Seq(S) /\ Len(list) \in Nat /\ Len(new) = Len(list) + 1
      /\ new[1] = x /\ \A i \in 1 .. Len(list) : new[i + 1] = list[i]
  BY <1>1
<1>3. \A i \in 1 .. Len(new) : i = 1 \/ (i - 1 \in 1 .. Len(list) /\ new[i] = list[i - 1])
  <2> TAKE i \in 1 .. Len(new)
  <2>1. CASE i # 1
    <3>1. i - 1 \in 1 .. Len(list)
      BY <1>2, <2>1
    <3>2. new[(i - 1) + 1] = list[i - 1]
      BY <1>2, <3>1
    <3> QED  BY <3>1, <3>2
  <2> QED  BY <2>1
<1>4. ToSet(new) = {x} \cup ToSet(list)
  <2>1. \A y : y \in ToSet(list) <=> \E i \in 1 .. Len(list) : list[i] = y
    BY DEF ToSet
  <2>2. \A y : y \in ToSet(new) <=> \E i \in 1 .. Len(new) : new[i] = y
    BY <1>2 DEF ToSet
  <2>3. ASSUME NEW y \in ToSet(new) PROVE y \in {x} \cup ToSet(list)
    BY <1>2, <1>3, <2>1, <2>2, <2>3
  <2>4. ASSUME NEW y \in ToSet(list) PROVE y \in ToSet(new)
    <3>1. PICK i \in 1 .. Len(list) : list[i] = y
      BY <2>1, <2>4
    <3>2. i + 1 \in 1 .. Len(new) /\ new[i + 1] = y
      BY <1>2, <3>1
    <3> QED  BY <2>2, <3>2
  <2>5. x \in ToSet(new)
    BY <1>2, <2>2
  <2> QED  BY <2>3, <2>4, <2>5
<1>5. IsInjective(new)
  <2> SUFFICES ASSUME NEW i \in 1 .. Len(new), NEW j \in 1 .. Len(new), new[i] = new[j]
               PROVE  i = j
    BY <1>2 DEF IsInjective
  <2>1. \A k \in 1 .. Len(list) : list[k] # x
    BY DEF ToSet
  <2>2. \A k, m \in 1 .. Len(list) : list[k] = list[m] => k = m
    BY DEF IsInjective
  <2> QED  BY <1>2, <1>3, <2>1, <2>2
<1> QED  BY <1>1, <1>4, <1>5

LEMMA WorkAddStep ==
  ASSUME NetTaskInvariant, NEW p \in Ports, net_work_add(p)
  PROVE  NetTaskInvariant'
<1> USE NetTaskAssumption DEF NetTaskInvariant, net_work_add
<1> USE RousedFrame DEF Sources
<1>0. PICK list : list = work_list /\ list \in Seq(Ports) /\ work_list' = <<p>> \o list
  BY DEF NetTaskTypes
<1>1. NetTaskTypes'
  BY <1>0 DEF NetTaskTypes, OwnerSet, Ticks
<1>2. ArrayExact'
  BY DEF ArrayExact, Registered, Answering, NetTaskTypes, Works
<1>3. Adding' /\ OnDuty'
  BY DEF Adding, OnDuty, Leaving, NetTaskTypes
<1>4. Works'
  <2>1. p \notin ToSet(list) /\ IsInjective(list)
    BY <1>0 DEF Works
  <2>2. ToSet(work_list') = {p} \cup ToSet(list) /\ IsInjective(work_list')
    BY <1>0, <2>1, PushedWork
  <2> QED  BY <1>0, <2>1, <2>2 DEF Works, Answering, NetTaskTypes
<1>5. Queues' /\ Waits'
  BY DEF Queues, Waits
<1>6. Timed'
  BY DEF Timed, Settled, WillUpdate, Covers, TicksTo, NetTaskTypes
<1> QED  BY <1>1, <1>2, <1>3, <1>4, <1>5, <1>6

----------------------------------------------------------------------------
(* The network task.                                                       *)

LEMMA EntryStep ==
  ASSUME NetTaskInvariant, net_condition_task_entry
  PROVE  NetTaskInvariant'
<1> USE NetTaskAssumption DEF NetTaskInvariant, net_condition_task_entry
<1>0. /\ net_task' \in NetTaskSet
      /\ net_task'.at = "entry" /\ net_task'.num = net_num
  BY DEF NetTaskTypes, NetTaskSet
<1>1. NetTaskTypes'
  BY <1>0 DEF NetTaskTypes, OwnerSet, Ticks
<1>2. ArrayExact'
  BY <1>0 DEF ArrayExact, Registered, Answering, NetTaskTypes
<1>3. Adding' /\ OnDuty'
  BY DEF Adding, OnDuty
<1>4. Works'
  BY <1>0 DEF Works, Answering, NetTaskTypes
<1>5. Queues' /\ Waits'
  BY <1>0 DEF Queues, Waits, NetTaskTypes
<1>6. Timed'
  BY <1>0 DEF Timed, Settled, NetTaskTypes
<1> QED  BY <1>1, <1>2, <1>3, <1>4, <1>5, <1>6

(* A timer that is on counts ticks.                                        *)
LEMMA TimerTicks ==
  ASSUME NetTaskInvariant, NEW i
  PROVE  TicksTo(i) \in Ticks
BY DEF NetTaskInvariant, NetTaskTypes, TicksTo, Ticks

(* The first of the shortest timers.                                       *)
LEMMA FirstTimer ==
  ASSUME NetTaskInvariant, NEW on, on \subseteq Nat, on # {},
         \A i \in on : TicksTo(i) # OFF
  PROVE  LET first == CHOOSE i \in on : \A j \in on :
                        \/ TicksTo(i) < TicksTo(j)
                        \/ TicksTo(i) = TicksTo(j) /\ i <= j
         IN  first \in on /\ \A j \in on : TicksTo(first) <= TicksTo(j)
<1> DEFINE Sooner(i, j) == \/ TicksTo(i) < TicksTo(j)
                           \/ TicksTo(i) = TicksTo(j) /\ i <= j
           ticks == {TicksTo(i) : i \in on}
<1>1. \A i \in on : TicksTo(i) \in Nat
  BY TimerTicks DEF Ticks
<1>2. \E m \in ticks : \A n \in ticks : m <= n
  <2>1. ticks \subseteq Nat /\ ticks # {}
    BY <1>1
  <2> QED  BY <2>1, LeastElement
<1>3. PICK k \in on : \A j \in on : TicksTo(k) <= TicksTo(j)
  BY <1>2
<1> DEFINE same == {i \in on : TicksTo(i) = TicksTo(k)}
<1>4. \E i \in same : \A j \in same : i <= j
  <2>1. same \subseteq Nat /\ same # {}
    OBVIOUS
  <2> QED  BY <2>1, LeastElement
<1>5. PICK f \in same : \A j \in same : f <= j
  BY <1>4
<1>6. \A j \in on : Sooner(f, j)
  BY <1>1, <1>3, <1>5
<1>7. \E i \in on : \A j \in on : Sooner(i, j)
  BY <1>5, <1>6
<1>8. PICK g \in on : /\ g = CHOOSE i \in on : \A j \in on : Sooner(i, j)
                      /\ \A j \in on : Sooner(g, j)
  BY <1>7
<1>9. \A j \in on : TicksTo(g) <= TicksTo(j)
  <2> TAKE j \in on
  <2>1. Sooner(g, j)
    BY <1>8
  <2>2. TicksTo(g) \in Nat /\ TicksTo(j) \in Nat
    BY <1>1
  <2> QED  BY <2>1, <2>2
<1> QED  BY <1>8, <1>9

LEMMA GetMinStep ==
  ASSUME NetTaskInvariant, suspend_timeout_get_min
  PROVE  NetTaskInvariant'
<1> DEFINE on == {i \in 1 .. net_task.num : TicksTo(i) # OFF}
           first == CHOOSE i \in on : \A j \in on :
                      \/ TicksTo(i) < TicksTo(j)
                      \/ TicksTo(i) = TicksTo(j) /\ i <= j
           ticks == IF on = {} THEN OFF ELSE TicksTo(first)
           index == IF on = {} THEN 1 ELSE first
<1>1. /\ net_task.at = "entry"
      /\ net_task' = [net_task EXCEPT !.at = "check", !.timeout = ticks, !.index = index]
      /\ UNCHANGED <<duty, net_array, net_num, port_timer, rx_queue, rx_flag, work_list,
                     work_ping, done_ping, owner>>
  BY DEF suspend_timeout_get_min
<1>2. net_task \in NetTaskSet /\ net_task.num \in Nat /\ 2 <= net_task.num /\ net_task.late \in Nat
      /\ net_task.num <= net_num
  BY <1>1 DEF NetTaskInvariant, NetTaskTypes, NetTaskSet, Waits
<1>3. /\ index \in 1 .. net_task.num /\ ticks \in Ticks
      /\ \A i \in 1 .. net_task.num : TicksTo(i) # OFF => ticks # OFF /\ ticks <= TicksTo(i)
  <2>1. CASE on = {}
    BY <1>2, <2>1 DEF Ticks
  <2>2. CASE on # {}
    <3>1. on \subseteq Nat /\ \A i \in on : TicksTo(i) # OFF
      BY <1>2
    <3>2. first \in on /\ \A j \in on : TicksTo(first) <= TicksTo(j)
      <4> HIDE DEF on
      <4> QED  BY <2>2, <3>1, FirstTimer
    <3>3. index = first /\ ticks = TicksTo(first) /\ TicksTo(first) \in Ticks
      BY <2>2, TimerTicks
    <3> HIDE DEF first, index, ticks
    <3> QED  BY <3>2, <3>3
  <2> QED  BY <2>1, <2>2
<1> HIDE DEF on, first, ticks, index
<1>11. index \in Nat /\ ticks \in Ticks
  BY <1>2, <1>3
<1>4. /\ net_task' \in NetTaskSet
      /\ net_task'.at = "check" /\ net_task'.num = net_task.num /\ net_task'.late = net_task.late
      /\ net_task'.timeout = ticks /\ net_task'.index = index
  BY <1>1, <1>2, <1>11 DEF NetTaskSet
<1> USE NetTaskAssumption DEF NetTaskInvariant
<1>5. NetTaskTypes'
  BY <1>1, <1>4 DEF NetTaskTypes
<1>6. ArrayExact'
  BY <1>1, <1>4 DEF ArrayExact, Registered, Answering
<1>7. Adding' /\ OnDuty'
  BY <1>1 DEF Adding, OnDuty
<1>8. Works'
  BY <1>1, <1>4 DEF Works, Answering
<1>9. Queues' /\ Waits'
  BY <1>1, <1>2, <1>3, <1>4 DEF Queues, Waits
<1>10. Timed'
  <2> SUFFICES ASSUME Settled'
               PROVE  net_num' <= net_task'.num /\ Covers(net_task.timeout, net_task.late)'
    BY <1>4 DEF Timed
  <2>1. net_num <= net_task.num
    BY <1>1 DEF Timed, Settled, WillUpdate
  <2>2. \A i : TicksTo(i)' = TicksTo(i)
    BY <1>1 DEF TicksTo
  <2>3. \A i \in 1 .. net_num : TicksTo(i) # OFF => ticks # OFF /\ ticks <= TicksTo(i) + net_task.late
    <3> TAKE i \in 1 .. net_num
    <3> HAVE TicksTo(i) # OFF
    <3>1. i \in 1 .. net_task.num
      BY <1>2, <2>1 DEF NetTaskTypes
    <3>2. TicksTo(i) \in Nat /\ ticks \in Nat /\ ticks <= TicksTo(i) /\ ticks # OFF
      BY <1>3, <3>1, TimerTicks DEF Ticks
    <3> QED  BY <1>2, <3>2
  <2> QED  BY <1>1, <1>4, <2>1, <2>2, <2>3 DEF Covers
<1> QED  BY <1>5, <1>6, <1>7, <1>8, <1>9, <1>10

(* The callback of a condition that the array holds.                       *)
LEMMA ProcessTask ==
  ASSUME NetTaskInvariant, NEW n \in 1 .. net_num, Process(n)
  PROVE  /\ net_task' \in NetTaskSet
         /\ \/ net_array[n] = BUFFERS /\ net_task'.at = "rx" /\ work_ping' = work_ping
            \/ net_array[n] = WORK /\ net_task'.at = "work" /\ work_ping' = FALSE
            \/ /\ net_array[n] \in Ports /\ net_task'.at = "timer" /\ work_ping' = work_ping
               /\ net_task'.port \in Ports
<1>1. net_num \in Nat /\ ~ (n > net_num) /\ work_ping \in BOOLEAN
  BY DEF NetTaskInvariant, NetTaskTypes
<1>2. net_array[n] \in Ports \/ net_array[n] \in {BUFFERS, WORK}
  BY <1>1 DEF NetTaskInvariant, ArrayExact
<1>3. Running \in NetTaskSet
  BY DEF Running, NetTaskSet, Ticks
<1>4. PICK c : c = net_array[n]
  OBVIOUS
<1>5. /\ net_task' = [Running EXCEPT
           !.at = CASE n > net_num -> "loop" [] c = BUFFERS -> "rx" [] c = WORK -> "work"
                    [] OTHER -> "timer",
           !.port = IF c \in Ports THEN c ELSE NONE]
      /\ work_ping' = (work_ping /\ c # WORK)
  BY <1>4 DEF Process
<1>6. CASE c = BUFFERS
  <2>1. net_task' = [Running EXCEPT !.at = "rx", !.port = NONE] /\ work_ping' = work_ping
    BY <1>1, <1>5, <1>6, NetTaskAssumption
  <2> QED  BY <1>3, <1>4, <1>6, <2>1 DEF NetTaskSet
<1>7. CASE c = WORK
  <2>1. net_task' = [Running EXCEPT !.at = "work", !.port = NONE] /\ work_ping' = FALSE
    BY <1>1, <1>5, <1>7, NetTaskAssumption
  <2> QED  BY <1>3, <1>4, <1>7, <2>1 DEF NetTaskSet
<1>8. CASE c \in Ports
  <2>1. net_task' = [Running EXCEPT !.at = "timer", !.port = c] /\ work_ping' = work_ping
    BY <1>1, <1>5, <1>8, NetTaskAssumption
  <2> QED  BY <1>3, <1>4, <1>8, <2>1 DEF NetTaskSet
<1> QED  BY <1>2, <1>4, <1>6, <1>7, <1>8

(* The wait ends and a callback runs.                                      *)
LEMMA ProcessStep ==
  ASSUME NetTaskInvariant, NEW n \in 1 .. net_num, Process(n),
         net_task.at \in {"check", "woken"},
         UNCHANGED <<duty, net_array, net_num, port_timer, rx_queue, rx_flag, work_list,
                     done_ping, owner>>
  PROVE  NetTaskInvariant'
<1>1. /\ net_task' \in NetTaskSet
      /\ \/ net_task'.at = "rx" /\ work_ping' = work_ping
         \/ net_task'.at = "work" /\ work_ping' = FALSE
         \/ net_task'.at = "timer" /\ work_ping' = work_ping /\ net_task'.port \in Ports
  BY ProcessTask
<1> USE NetTaskAssumption DEF NetTaskInvariant
<1>2. NetTaskTypes'
  BY <1>1 DEF NetTaskTypes
<1>3. ArrayExact'
  BY <1>1 DEF ArrayExact, Registered, Answering
<1>4. Adding' /\ OnDuty'
  BY DEF Adding, OnDuty
<1>5. Works'
  BY <1>1 DEF Works, Answering
<1>6. Queues' /\ Waits'
  BY <1>1 DEF Queues, Waits
<1>7. Timed'
  BY <1>1 DEF Timed
<1> QED  BY <1>2, <1>3, <1>4, <1>5, <1>6, <1>7

LEMMA CheckStep ==
  ASSUME NetTaskInvariant, NetCheck
  PROVE  NetTaskInvariant'
<1> DEFINE ready == {i \in 1 .. net_task.num : Ready(net_array[i])}
           chosen == CHOOSE i \in ready : net_array[i] = BUFFERS \/ Cardinality(ready) = 1
<1>1. /\ net_task.at = "check"
      /\ UNCHANGED <<duty, net_array, net_num, port_timer, rx_queue, rx_flag, work_list,
                     done_ping, owner>>
      /\ IF ready # {} THEN Process(chosen)
         ELSE /\ net_task' = [net_task EXCEPT !.at = "asleep", !.left = net_task.timeout]
              /\ UNCHANGED work_ping
  BY DEF NetCheck
<1>2. /\ net_task \in NetTaskSet /\ net_task.num \in Nat /\ net_num \in Nat
      /\ 2 <= net_task.num /\ net_task.num <= net_num /\ net_task.timeout \in Ticks
  BY <1>1 DEF NetTaskInvariant, NetTaskTypes, NetTaskSet, Waits
<1>3. net_array[1] = BUFFERS /\ net_array[2] = WORK
  BY DEF NetTaskInvariant, ArrayExact
<1>4. CASE ready # {}
  <2>1. \E i \in ready : net_array[i] = BUFFERS \/ Cardinality(ready) = 1
    <3>1. CASE rx_flag
      <4>1. 1 \in ready
        BY <1>2, <1>3, <3>1 DEF Ready
      <4> QED  BY <1>3, <4>1
    <3>2. CASE ~ rx_flag
      <4>1. \A i \in ready : i \in 1 .. net_num /\ net_array[i] = WORK
        BY <1>2, <3>2 DEF Ready
      <4>2. \A i \in ready : i = 2
        BY <1>2, <1>3, <4>1 DEF NetTaskInvariant, ArrayExact
      <4>3. ready = {2}
        BY <1>4, <4>2
      <4>4. Cardinality({2}) = 1
        BY FS_Singleton
      <4> HIDE DEF ready
      <4> QED  BY <4>3, <4>4
    <3> QED  BY <3>1, <3>2
  <2>2. chosen \in ready
    <3> HIDE DEF ready
    <3> QED  BY <2>1
  <2>3. chosen \in 1 .. net_num
    <3> HIDE DEF chosen
    <3> QED  BY <1>2, <2>2
  <2>4. Process(chosen)
    BY <1>1, <1>4
  <2> HIDE DEF chosen
  <2> QED  BY <1>1, <2>3, <2>4, ProcessStep
<1>5. CASE ready = {}
  <2>1. ~ rx_flag /\ ~ work_ping
    <3>1. 1 \notin ready /\ 2 \notin ready
      BY <1>5
    <3>2. 1 \in 1 .. net_task.num /\ 2 \in 1 .. net_task.num
      BY <1>2
    <3> QED  BY <1>3, <3>1, <3>2 DEF Ready
  <2>2. /\ net_task' \in NetTaskSet /\ net_task'.at = "asleep" /\ net_task'.num = net_task.num
        /\ net_task'.index = net_task.index /\ net_task'.left = net_task.timeout
        /\ net_task'.late = net_task.late
    BY <1>1, <1>2, <1>5 DEF NetTaskSet
  <2>3. work_ping' = work_ping
    BY <1>1, <1>5
  <2> HIDE DEF ready, chosen
  <2> USE NetTaskAssumption DEF NetTaskInvariant
  <2>4. NetTaskTypes'
    BY <1>1, <2>2, <2>3 DEF NetTaskTypes
  <2>5. ArrayExact'
    BY <1>1, <2>2 DEF ArrayExact, Registered, Answering
  <2>6. Adding' /\ OnDuty'
    BY <1>1 DEF Adding, OnDuty
  <2>7. Works'
    BY <1>1, <2>2 DEF Works, Answering
  <2>8. Queues' /\ Waits'
    BY <1>1, <2>1, <2>2, <2>3 DEF Queues, Waits
  <2>9. Timed'
    BY <1>1, <2>2 DEF Timed, Settled, WillUpdate, Covers, TicksTo
  <2> QED  BY <2>4, <2>5, <2>6, <2>7, <2>8, <2>9
<1> QED  BY <1>4, <1>5

(* What has resumed the task is still there.                               *)
LEMMA WokeStep ==
  ASSUME NetTaskInvariant, NetWoke
  PROVE  NetTaskInvariant'
<1> DEFINE may == {i \in 1 .. net_task.num : net_array[i] \in net_task.may}
           n == Max(may)
<1>1. /\ net_task.at = "woken"
      /\ UNCHANGED <<duty, net_array, net_num, port_timer, rx_queue, rx_flag, work_list,
                     done_ping, owner>>
  BY DEF NetWoke
<1>2. /\ net_task.num \in Nat /\ net_num \in Nat /\ net_task.may \subseteq Sources
      /\ 2 <= net_task.num /\ net_task.num <= net_num /\ net_task.index \in 1 .. net_task.num
  BY <1>1 DEF NetTaskInvariant, NetTaskTypes, NetTaskSet, Waits
<1>3. CASE net_task.from = "SLEEP"
  <2>1. Process(net_task.index)
    BY <1>3 DEF NetWoke
  <2>2. net_task.index \in 1 .. net_num
    BY <1>2
  <2> QED  BY <1>1, <2>1, <2>2, ProcessStep
<1>4. CASE net_task.from # "SLEEP"
  <2>1. /\ net_task.may # {}
        /\ BUFFERS \in net_task.may => rx_flag
        /\ WORK \in net_task.may => work_ping
    BY <1>1, <1>4 DEF NetTaskInvariant, Waits
  <2>2. may # {} /\ may \subseteq 1 .. net_task.num
    <3>1. net_array[1] = BUFFERS /\ net_array[2] = WORK
      BY DEF NetTaskInvariant, ArrayExact
    <3>2. 1 \in 1 .. net_task.num /\ 2 \in 1 .. net_task.num
      BY <1>2
    <3> QED  BY <1>2, <2>1, <3>1, <3>2 DEF Sources
  <2>3. n \in may
    <3> HIDE DEF may
    <3> QED  BY <1>2, <2>2, MaxOfIndices
  <2>4. net_array[n] \in net_task.may /\ n \in 1 .. net_task.num
    <3> HIDE DEF n
    <3> QED  BY <2>3
  <2>5. Ready(net_array[n])
    BY <1>2, <2>1, <2>4 DEF Ready, Sources
  <2>6. Process(n)
    BY <1>4, <2>5 DEF NetWoke
  <2>7. n \in 1 .. net_num
    <3> HIDE DEF n
    <3> QED  BY <1>2, <2>4
  <2> HIDE DEF n
  <2> QED  BY <1>1, <2>6, <2>7, ProcessStep
<1> QED  BY <1>3, <1>4

LEMMA BufferStep ==
  ASSUME NetTaskInvariant, net_buffer_condition_callback
  PROVE  NetTaskInvariant'
<1> USE NetTaskAssumption DEF NetTaskInvariant, net_buffer_condition_callback
<1>0. /\ net_task' \in NetTaskSet /\ net_task.at = "rx"
      /\ \/ net_task'.at = "loop"
         \/ net_task'.at = "input" /\ net_task'.port \in Ports
  <2>1. net_task \in NetTaskSet
    BY DEF NetTaskTypes
  <2>2. CASE Go("loop", NONE)
    <3>1. net_task' = [net_task EXCEPT !.at = "loop", !.port = NONE]
      BY <2>2 DEF Go
    <3> QED  BY <2>1, <3>1 DEF NetTaskSet
  <2>3. ASSUME NEW p \in Ports, Go("input", p)
        PROVE  net_task' \in NetTaskSet /\ net_task'.at = "input" /\ net_task'.port \in Ports
    <3>1. net_task' = [net_task EXCEPT !.at = "input", !.port = p]
      BY <2>3 DEF Go
    <3> QED  BY <2>1, <3>1 DEF NetTaskSet
  <2> QED  BY <2>2, <2>3
<1>1. NetTaskTypes'
  BY <1>0 DEF NetTaskTypes
<1>2. ArrayExact'
  BY <1>0 DEF ArrayExact, Registered, Answering
<1>3. Adding' /\ OnDuty'
  BY DEF Adding, OnDuty
<1>4. Works'
  BY <1>0 DEF Works, Answering
<1>5. Queues' /\ Waits'
  BY <1>0 DEF Queues, Waits, NetTaskTypes
<1>6. Timed'
  BY <1>0 DEF Timed
<1> QED  BY <1>1, <1>2, <1>3, <1>4, <1>5, <1>6

LEMMA PortStep ==
  ASSUME NetTaskInvariant, NetPort
  PROVE  NetTaskInvariant'
<1> USE NetTaskAssumption DEF NetTaskInvariant, NetPort
<1>0. net_task' \in NetTaskSet /\ net_task.at \in {"input", "timer"} /\ net_task'.at = "loop"
  BY DEF NetTaskTypes, NetTaskSet, Go
<1>1. NetTaskTypes'
  BY <1>0 DEF NetTaskTypes, Ticks
<1>2. ArrayExact'
  BY <1>0 DEF ArrayExact, Registered, Answering
<1>3. Adding' /\ OnDuty'
  BY DEF Adding, OnDuty
<1>4. Works'
  BY <1>0 DEF Works, Answering
<1>5. Queues' /\ Waits'
  BY <1>0 DEF Queues, Waits
<1>6. Timed'
  BY <1>0 DEF Timed
<1> QED  BY <1>1, <1>2, <1>3, <1>4, <1>5, <1>6

LEMMA AnswerStep ==
  ASSUME NetTaskInvariant, WorkAnswer
  PROVE  NetTaskInvariant'
<1> USE NetTaskAssumption DEF NetTaskInvariant, WorkAnswer
<1>0. /\ net_task' \in NetTaskSet /\ net_task'.at = "work"
      /\ net_task.at = "answer" /\ net_task.port \in Ports
  BY DEF NetTaskTypes, NetTaskSet, Go, Waits
<1>1. NetTaskTypes'
  BY <1>0 DEF NetTaskTypes, OwnerSet
<1>2. ArrayExact'
  BY <1>0 DEF ArrayExact, Registered, Answering, NetTaskTypes
<1>3. Adding' /\ OnDuty'
  BY <1>0 DEF Adding, OnDuty, Leaving, NetTaskTypes
<1>4. Works'
  BY <1>0 DEF Works, Answering, NetTaskTypes
<1>5. Queues' /\ Waits'
  BY <1>0 DEF Queues, Waits
<1>6. Timed'
  BY <1>0 DEF Timed
<1> QED  BY <1>1, <1>2, <1>3, <1>4, <1>5, <1>6

(* The first work is taken.                                                *)
LEMMA PoppedWork ==
  ASSUME NEW S, NEW list \in Seq(S), list # <<>>
  PROVE  /\ Head(list) \in S /\ Head(list) \in ToSet(list) /\ Tail(list) \in Seq(S)
         /\ IsInjective(list) =>
              ToSet(Tail(list)) = ToSet(list) \ {Head(list)} /\ IsInjective(Tail(list))
<1>1. /\ Head(list) \in S /\ Tail(list) \in Seq(S) /\ Len(list) \in Nat /\ Len(list) >= 1
      /\ Head(list) = list[1]
  BY HeadTailProperties
<1>2. IsInjective(list) => NoDuplicates(list)
  BY DEF IsInjective, NoDuplicates
<1>3. NoDuplicates(Tail(list)) => IsInjective(Tail(list))
  BY <1>1 DEF IsInjective, NoDuplicates
<1>4. Head(list) \in ToSet(list)
  BY <1>1 DEF ToSet
<1> QED  BY <1>1, <1>2, <1>3, <1>4, TailMembers

(* The conditions behind the one that is removed move down.                *)
LEMMA RemovedEntry ==
  ASSUME NetTaskInvariant, NEW p \in Ports, Registered(p), net_condition_do_remove(p)
  PROVE  /\ net_num' \in Nat /\ 2 <= net_num' /\ net_num' <= Cardinality(Ports) + 2
         /\ net_array' \in [Indices -> Ports \cup Sources \cup {NONE}]
         /\ net_array'[1] = BUFFERS /\ net_array'[2] = WORK
         /\ \A k \in 3 .. net_num' : net_array'[k] \in Ports
         /\ \A k, m \in 1 .. net_num' : net_array'[k] = net_array'[m] => k = m
         /\ \A q \in Ports : (\E k \in 1 .. net_num' : net_array'[k] = q)
                               <=> (q # p /\ \E k \in 1 .. net_num : net_array[k] = q)
<1> USE NetTaskAssumption
<1>1. \E k \in 1 .. net_num : net_array[k] = p
  BY DEF NetTaskInvariant, ArrayExact
<1>2. PICK i \in 1 .. net_num : i = CHOOSE k \in 1 .. net_num : net_array[k] = p
  BY <1>1
<1>3. net_array[i] = p
  BY <1>1, <1>2
<1>4. PICK n : n = net_num
  OBVIOUS
<1>5. PICK c \in Nat : c = Cardinality(Ports)
  BY IndexCount
<1>6. /\ n \in Nat /\ 2 <= n /\ n <= c + 2 /\ i \in 1 .. n
      /\ net_array \in [1 .. c + 2 -> Ports \cup Sources \cup {NONE}]
      /\ net_array[1] = BUFFERS /\ net_array[2] = WORK
      /\ \A k \in 3 .. n : net_array[k] \in Ports
      /\ \A k, m \in 1 .. n : net_array[k] = net_array[m] => k = m
  BY <1>2, <1>4, <1>5 DEF NetTaskInvariant, NetTaskTypes, ArrayExact, Indices
<1>7. 3 <= i
  BY <1>3, <1>6
<1>8. /\ net_array' = [k \in 1 .. c + 2 |->
           IF k \in i .. n - 1 THEN net_array[k + 1] ELSE IF k = n THEN NONE ELSE net_array[k]]
      /\ net_num' = n - 1
  BY <1>2, <1>4, <1>5 DEF net_condition_do_remove, Indices
<1>9. /\ \A k \in 1 .. i - 1 : net_array'[k] = net_array[k]
      /\ \A k \in i .. n - 1 : net_array'[k] = net_array[k + 1]
  BY <1>6, <1>7, <1>8
<1>10. net_num' \in Nat /\ 2 <= net_num' /\ net_num' <= c + 2
  BY <1>6, <1>7, <1>8
<1>11. net_array' \in [1 .. c + 2 -> Ports \cup Sources \cup {NONE}]
  <2>1. \A k \in i .. n - 1 : k + 1 \in 1 .. c + 2
    BY <1>6
  <2>2. \A k \in 1 .. c + 2 : net_array'[k] \in Ports \cup Sources \cup {NONE}
    BY <1>6, <1>8, <2>1
  <2> QED  BY <1>8, <2>2
<1>12. net_array'[1] = BUFFERS /\ net_array'[2] = WORK
  BY <1>6, <1>7, <1>9
<1>13. \A k \in 3 .. net_num' : net_array'[k] \in Ports
  BY <1>6, <1>7, <1>8, <1>9
<1>14. \A k, m \in 1 .. net_num' : net_array'[k] = net_array'[m] => k = m
  BY <1>6, <1>7, <1>8, <1>9
<1>15. ASSUME NEW q \in Ports
       PROVE  (\E k \in 1 .. net_num' : net_array'[k] = q)
                <=> (q # p /\ \E k \in 1 .. net_num : net_array[k] = q)
  <2>1. ASSUME NEW k \in 1 .. net_num', net_array'[k] = q
        PROVE  q # p /\ \E m \in 1 .. net_num : net_array[m] = q
    BY <1>3, <1>4, <1>6, <1>7, <1>8, <1>9, <2>1
  <2>2. ASSUME NEW m \in 1 .. net_num, net_array[m] = q, q # p
        PROVE  \E k \in 1 .. net_num' : net_array'[k] = q
    <3>1. m # i
      BY <1>3, <2>2
    <3>2. CASE m < i
      BY <1>4, <1>6, <1>8, <1>9, <2>2, <3>2
    <3>3. CASE m > i
      <4>1. m - 1 \in i .. n - 1 /\ m - 1 \in 1 .. net_num'
        BY <1>4, <1>6, <1>8, <3>3
      <4>2. net_array'[m - 1] = net_array[(m - 1) + 1]
        BY <1>9, <4>1
      <4>3. (m - 1) + 1 = m
        BY <1>4, <1>6
      <4> QED  BY <2>2, <4>1, <4>2, <4>3
    <3> QED  BY <1>4, <1>6, <3>1, <3>2, <3>3
  <2> QED  BY <2>1, <2>2
<1> QED  BY <1>5, <1>10, <1>11, <1>12, <1>13, <1>14, <1>15 DEF Indices

(* No port is both added and removed while another one is.                 *)
OneAtATime == \A d \in Duties : \A p \in d.register, q \in d.unregister : p = q

LEMMA PopStep ==
  ASSUME NetTaskInvariant, OneAtATime, WorkPop
  PROVE  NetTaskInvariant'
<1> USE NetTaskAssumption
<1>1. /\ net_task.at = "work" /\ net_task \in NetTaskSet
      /\ UNCHANGED <<duty, port_timer, rx_queue, rx_flag, work_ping, done_ping, owner>>
  BY DEF WorkPop, NetTaskInvariant, NetTaskTypes
<1>2. CASE work_list = <<>>
  <2>1. /\ net_task' = [net_task EXCEPT !.at = "loop", !.port = NONE]
        /\ UNCHANGED <<work_list, net_array, net_num>>
    BY <1>2 DEF WorkPop, Go
  <2>2. net_task' \in NetTaskSet /\ net_task'.at = "loop"
    BY <1>1, <2>1 DEF NetTaskSet
  <2> USE DEF NetTaskInvariant
  <2>3. NetTaskTypes'
    BY <1>1, <2>1, <2>2 DEF NetTaskTypes
  <2>4. ArrayExact'
    BY <1>1, <2>1, <2>2 DEF ArrayExact, Registered, Answering
  <2>5. Adding' /\ OnDuty'
    BY <1>1, <2>1 DEF Adding, OnDuty
  <2>6. Works'
    BY <1>1, <2>1, <2>2 DEF Works, Answering
  <2>7. Queues' /\ Waits'
    BY <1>1, <1>2, <2>1, <2>2 DEF Queues, Waits
  <2>8. Timed'
    BY <2>2 DEF Timed
  <2> QED  BY <2>3, <2>4, <2>5, <2>6, <2>7, <2>8
<1>3. CASE work_list # <<>>
  <2>1. PICK list \in Seq(Ports) : list = work_list /\ list # <<>>
    BY <1>3 DEF NetTaskInvariant, NetTaskTypes
  <2>2. /\ Head(list) \in Ports /\ Head(list) \in ToSet(list) /\ Tail(list) \in Seq(Ports)
        /\ IsInjective(list) =>
             ToSet(Tail(list)) = ToSet(list) \ {Head(list)} /\ IsInjective(Tail(list))
    BY <2>1, PoppedWork
  <2>3. PICK p \in Ports : p = Head(list)
    BY <2>2
  <2>4. /\ net_task' = [net_task EXCEPT !.at = "answer", !.port = p]
        /\ work_list' = Tail(list)
        /\ net_condition_do_remove(p)
    BY <1>3, <2>1, <2>3 DEF WorkPop, Go
  <2>5. net_task' \in NetTaskSet /\ net_task'.at = "answer" /\ net_task'.port = p
    BY <1>1, <2>4 DEF NetTaskSet
  <2>6. /\ p \in ToSet(list) /\ owner[p] \in {"added", "waiting"} /\ ~ done_ping[p]
        /\ ToSet(work_list') = ToSet(list) \ {p} /\ IsInjective(work_list')
        /\ work_list' \in Seq(Ports)
    BY <2>1, <2>2, <2>3, <2>4 DEF NetTaskInvariant, Works
  <2>7. \A q : ~ Answering(q)
    BY <1>1 DEF Answering
  <2>8. Registered(p)
    BY <2>6, <2>7 DEF Registered
  <2>9. /\ net_num' \in Nat /\ 2 <= net_num' /\ net_num' <= Cardinality(Ports) + 2
        /\ net_array' \in [Indices -> Ports \cup Sources \cup {NONE}]
        /\ net_array'[1] = BUFFERS /\ net_array'[2] = WORK
        /\ \A k \in 3 .. net_num' : net_array'[k] \in Ports
        /\ \A k, m \in 1 .. net_num' : net_array'[k] = net_array'[m] => k = m
        /\ \A q \in Ports : (\E k \in 1 .. net_num' : net_array'[k] = q)
                              <=> (q # p /\ \E k \in 1 .. net_num : net_array[k] = q)
    BY <2>4, <2>8, RemovedEntry
  <2>10. \A q \in Ports : owner[q] # "counting"
    <3>1. p \in duty.unregister /\ duty \in Duties
      BY <2>6 DEF NetTaskInvariant, NetTaskTypes, OnDuty, Leaving
    <3>2. ASSUME NEW q \in Ports, owner[q] = "counting" PROVE FALSE
      <4>1. q \in duty.register
        BY <3>2 DEF NetTaskInvariant, OnDuty
      <4>2. q = p
        BY <3>1, <4>1 DEF OneAtATime
      <4> QED  BY <2>6, <3>2, <4>2
    <3> QED  BY <3>2
  <2>11. \A q \in Ports : Answering(q)' <=> q = p
    BY <2>5 DEF Answering
  <2>12. NetTaskTypes'
    BY <1>1, <2>5, <2>6, <2>9 DEF NetTaskInvariant, NetTaskTypes
  <2>13. ArrayExact'
    <3>1. \A q \in Ports : Registered(q)' <=> Registered(q) /\ q # p
      BY <1>1, <2>7, <2>11 DEF Registered
    <3>2. \A q \in Ports : Registered(q) <=> \E k \in 1 .. net_num : net_array[k] = q
      BY DEF NetTaskInvariant, ArrayExact
    <3> QED  BY <2>9, <3>1, <3>2 DEF ArrayExact
  <2>14. Adding' /\ OnDuty'
    BY <1>1, <2>10 DEF NetTaskInvariant, Adding, OnDuty
  <2>15. Works'
    BY <1>1, <2>1, <2>6, <2>7, <2>11 DEF NetTaskInvariant, Works
  <2>16. Queues' /\ Waits'
    BY <1>1, <2>5 DEF NetTaskInvariant, Queues, Waits
  <2>17. Timed'
    BY <2>5 DEF Timed
  <2> QED  BY <2>12, <2>13, <2>14, <2>15, <2>16, <2>17 DEF NetTaskInvariant
<1> QED  BY <1>2, <1>3

(* A tick counts down the timers of the ports and the wait alike.          *)
LEMMA TickStep ==
  ASSUME NetTaskInvariant, NetTick
  PROVE  NetTaskInvariant'
<1> DEFINE less(t) == IF t \in {OFF, 0} THEN t ELSE t - 1
<1>1. /\ port_timer' = [p \in Ports |-> less(port_timer[p])]
      /\ net_task' =
           IF Locked THEN [net_task EXCEPT !.late = net_task.late + 1]
           ELSE IF net_task.at # "asleep" THEN net_task
           ELSE IF net_task.left \in {0, 1}
           THEN [net_task EXCEPT !.at = "woken", !.from = "SLEEP", !.left = 0]
           ELSE [net_task EXCEPT !.left = less(net_task.left)]
      /\ UNCHANGED <<duty, net_array, net_num, rx_queue, rx_flag, work_list, work_ping,
                     done_ping, owner>>
  BY DEF NetTick
<1>2. /\ OFF \notin Nat /\ net_task \in NetTaskSet /\ net_task.late \in Nat
      /\ net_task.left \in Ticks /\ net_task.timeout \in Ticks
      /\ port_timer \in [Ports -> Ticks]
  BY NetTaskAssumption DEF NetTaskInvariant, NetTaskTypes, NetTaskSet
<1>3. \A t \in Ticks : less(t) \in Ticks
  BY <1>2 DEF Ticks
<1>4. port_timer' \in [Ports -> Ticks]
  BY <1>1, <1>2, <1>3
<1>5. \A i : /\ TicksTo(i) \in Ticks
             /\ TicksTo(i)' = less(TicksTo(i))
  <2> TAKE i
  <2>1. TicksTo(i) \in Ticks
    BY TimerTicks
  <2>2. TicksTo(i)' = less(TicksTo(i))
    BY <1>1 DEF TicksTo
  <2> QED  BY <2>1, <2>2
(* Whether the conditions are locked, the task sleeps or neither, its wait *)
(* covers the timers as before.                                            *)
<1>6. /\ net_task' \in NetTaskSet
      /\ net_task'.num = net_task.num /\ net_task'.index = net_task.index
      /\ net_task'.port = net_task.port /\ net_task'.timeout = net_task.timeout
      /\ net_task'.may = net_task.may
      /\ \/ /\ net_task.at = "check" /\ net_task'.at = "check"
            /\ net_task'.late = net_task.late + 1
         \/ /\ net_task.at \notin {"check", "asleep"} /\ net_task' = net_task
         \/ /\ net_task.at = "asleep" /\ net_task'.at = "woken" /\ net_task'.from = "SLEEP"
         \/ /\ net_task.at = "asleep" /\ net_task'.at = "asleep"
            /\ net_task.left \notin {0, 1}
            /\ net_task'.left = less(net_task.left) /\ net_task'.late = net_task.late
  <2>1. CASE Locked
    <3>1. net_task' = [net_task EXCEPT !.late = net_task.late + 1]
      BY <1>1, <2>1
    <3> QED  BY <1>2, <2>1, <3>1 DEF NetTaskSet, Locked
  <2>2. CASE ~ Locked /\ net_task.at # "asleep"
    BY <1>1, <1>2, <2>2 DEF Locked
  <2>3. CASE net_task.at = "asleep" /\ net_task.left \in {0, 1}
    <3>1. net_task' = [net_task EXCEPT !.at = "woken", !.from = "SLEEP", !.left = 0]
      BY <1>1, <2>3 DEF Locked
    <3>2. 0 \in Ticks
      BY DEF Ticks
    <3> QED  BY <1>2, <2>3, <3>1, <3>2 DEF NetTaskSet
  <2>4. CASE net_task.at = "asleep" /\ net_task.left \notin {0, 1}
    <3>1. PICK left \in Ticks : left = less(net_task.left)
      BY <1>2, <1>3
    <3>2. net_task' = [net_task EXCEPT !.left = left]
      BY <1>1, <2>4, <3>1 DEF Locked
    <3> HIDE DEF less
    <3> QED  BY <1>2, <2>4, <3>1, <3>2 DEF NetTaskSet
  <2> QED  BY <2>1, <2>2, <2>3, <2>4
<1>7. NetTaskTypes'
  BY <1>1, <1>4, <1>6 DEF NetTaskInvariant, NetTaskTypes
<1>8. ArrayExact'
  BY <1>1, <1>6 DEF NetTaskInvariant, ArrayExact, Registered, Answering
<1>9. Adding' /\ OnDuty'
  BY <1>1 DEF NetTaskInvariant, Adding, OnDuty
<1>10. Works'
  BY <1>1, <1>6 DEF NetTaskInvariant, Works, Answering
<1>11. Queues' /\ Waits'
  BY <1>1, <1>6 DEF NetTaskInvariant, Queues, Waits
<1>12. Timed'
  <2>1. Settled' => Settled
    BY <1>1 DEF Settled, WillUpdate
  <2>2. ASSUME NEW i \in 1 .. net_num, TicksTo(i)' # OFF
        PROVE  /\ TicksTo(i) \in Nat /\ TicksTo(i)' \in Nat
               /\ TicksTo(i) <= TicksTo(i)' + 1
               /\ TicksTo(i)' = TicksTo(i) \/ TicksTo(i)' = TicksTo(i) - 1
    <3>1. PICK t \in Ticks : t = TicksTo(i)
      BY <1>5
    <3>2. TicksTo(i)' = less(t)
      BY <1>5, <3>1
    <3>3. t # OFF
      BY <2>2, <3>2
    <3> QED  BY <3>1, <3>2, <3>3 DEF Ticks
  <2>3. CASE net_task.at = "check"
    <3> SUFFICES ASSUME Settled'
                 PROVE  net_num' <= net_task'.num /\ Covers(net_task.timeout, net_task.late)'
      BY <1>6, <2>3 DEF Timed
    <3>1. net_num <= net_task.num /\ Covers(net_task.timeout, net_task.late)
      BY <2>1, <2>3 DEF NetTaskInvariant, Timed
    <3>2. ASSUME NEW i \in 1 .. net_num, TicksTo(i)' # OFF
          PROVE  net_task.timeout # OFF /\ net_task.timeout <= TicksTo(i)' + (net_task.late + 1)
      <4>1. /\ TicksTo(i) \in Nat /\ TicksTo(i)' \in Nat /\ TicksTo(i) <= TicksTo(i)' + 1
        BY <2>2, <3>2
      <4>2. net_task.timeout # OFF /\ net_task.timeout <= TicksTo(i) + net_task.late
        BY <1>2, <3>1, <4>1 DEF Covers
      <4>3. net_task.timeout \in Nat
        BY <1>2, <4>2 DEF Ticks
      <4> QED  BY <1>2, <4>1, <4>2, <4>3
    <3> QED  BY <1>1, <1>6, <2>3, <3>1, <3>2 DEF Covers
  <2>4. CASE net_task'.at = "asleep"
    <3> SUFFICES ASSUME Settled'
                 PROVE  net_num' <= net_task'.num /\ Covers(net_task.left, net_task.late)'
      BY <2>4 DEF Timed
    <3>0. /\ net_task.at = "asleep" /\ net_task.left \notin {0, 1}
          /\ net_task'.left = less(net_task.left) /\ net_task'.late = net_task.late
      BY <1>6, <2>4
    <3>1. net_num <= net_task.num /\ Covers(net_task.left, net_task.late)
      BY <2>1, <3>0 DEF NetTaskInvariant, Timed
    <3>2. ASSUME NEW i \in 1 .. net_num, TicksTo(i)' # OFF
          PROVE  net_task'.left # OFF /\ net_task'.left <= TicksTo(i)' + net_task.late
      <4>1. /\ TicksTo(i) \in Nat /\ TicksTo(i)' \in Nat /\ TicksTo(i) <= TicksTo(i)' + 1
        BY <2>2, <3>2
      <4>2. net_task.left # OFF /\ net_task.left <= TicksTo(i) + net_task.late
        BY <1>2, <3>1, <4>1 DEF Covers
      <4>3. net_task.left \in Nat
        BY <1>2, <4>2 DEF Ticks
      <4>4. net_task'.left = net_task.left - 1 /\ net_task'.left \in Nat
        BY <1>2, <3>0, <4>3
      <4> QED  BY <1>2, <4>1, <4>2, <4>3, <4>4
    <3> QED  BY <1>1, <1>6, <3>0, <3>1, <3>2 DEF Covers
  <2>5. CASE net_task.at = "entry"
    BY <1>1, <1>6, <2>1, <2>5 DEF NetTaskInvariant, Timed
  <2>6. CASE net_task.at \notin {"check", "entry"} /\ net_task'.at # "asleep"
    BY <1>6, <2>6 DEF Timed
  <2> QED  BY <2>3, <2>4, <2>5, <2>6
<1> QED  BY <1>7, <1>8, <1>9, <1>10, <1>11, <1>12 DEF NetTaskInvariant

(* The theorem about the network task.                                     *)

(* Some sequence of a set holds each member of it once.                    *)
LEMMA OrderExact ==
  ASSUME NEW S, IsFiniteSet(S), NEW order \in SetToSeqs(S)
  PROVE  /\ order \in Seq(S) /\ Len(order) = Cardinality(S)
         /\ \A i, j \in 1 .. Len(order) : order[i] = order[j] => i = j
         /\ \A x \in S : \E i \in 1 .. Len(order) : order[i] = x
<1> DEFINE D == 1 .. Cardinality(S)
<1>1. Cardinality(S) \in Nat
  BY FS_CardinalityType
<1>2. order \in [D -> S] /\ \A i, j \in D : i # j => order[i] # order[j]
  BY DEF SetToSeqs
<1>3. order \in Seq(S) /\ Len(order) = Cardinality(S)
  BY <1>1, <1>2
<1>4. order \in Injection(D, S)
  BY <1>2 DEF Injection, IsInjective
<1>5. Cardinality(D) = Cardinality(S)
  <2>1. Cardinality(D) = Cardinality(S) - 1 + 1
    BY <1>1, FS_Interval
  <2> QED  BY <1>1, <2>1
<1>6. order \in Surjection(D, S)
  BY <1>4, <1>5, FS_Injection
<1>7. \A x \in S : \E i \in D : order[i] = x
  BY <1>6 DEF Surjection
<1> QED  BY <1>2, <1>3, <1>7

LEMMA NetTaskInitial ==
  NetTaskInit => NetTaskInvariant
<1> SUFFICES ASSUME NetTaskInit PROVE NetTaskInvariant
  OBVIOUS
<1> USE NetTaskAssumption
<1> DEFINE in == Ports \ duty.register
<1>1. PICK order \in SetToSeqs(in) :
        LET first == <<BUFFERS, WORK>> \o order
        IN  /\ net_num = Len(first)
            /\ net_array = [i \in Indices |-> IF i <= Len(first) THEN first[i] ELSE NONE]
  BY DEF NetTaskInit
<1>2. IsFiniteSet(in) /\ Cardinality(in) \in Nat /\ Cardinality(in) <= Cardinality(Ports)
  BY FS_Subset, FS_CardinalityType
<1>3. /\ order \in Seq(in) /\ Len(order) = Cardinality(in)
      /\ \A i, j \in 1 .. Len(order) : order[i] = order[j] => i = j
      /\ \A p \in in : \E i \in 1 .. Len(order) : order[i] = p
  <2> HIDE DEF in
  <2> QED  BY <1>2, OrderExact
<1>4. PICK n \in Nat : n = Len(order) /\ n <= Cardinality(Ports)
  BY <1>2, <1>3
<1>5. PICK c \in Nat : c = Cardinality(Ports)
  BY IndexCount
<1>6. /\ duty \in Duties
      /\ net_task = Running /\ port_timer = [p \in Ports |-> OFF]
      /\ rx_queue = 0 /\ rx_flag = FALSE /\ work_list = <<>> /\ work_ping = FALSE
      /\ done_ping = [p \in Ports |-> FALSE]
      /\ owner = [p \in Ports |-> IF p \in duty.register THEN "out" ELSE "in"]
  BY DEF NetTaskInit
<1>7. PICK first : first = <<BUFFERS, WORK>> \o order
  OBVIOUS
<1>8. /\ Len(first) = n + 2 /\ first[1] = BUFFERS /\ first[2] = WORK
      /\ \A i \in 1 .. n : first[i + 2] = order[i] /\ order[i] \in in
  <2>1. \A i \in 1 .. n : order[i] \in in
    BY <1>3, <1>4
  <2>2. <<BUFFERS, WORK>> \in Seq(Sources) /\ Len(<<BUFFERS, WORK>>) = 2
    BY DEF Sources
  <2>3. PICK two : two = <<BUFFERS, WORK>>
    OBVIOUS
  <2>4. two \in Seq(Sources \cup in) /\ order \in Seq(Sources \cup in) /\ Len(two) = 2
    BY <1>3, <2>3 DEF Sources
  <2>5. /\ Len(first) = n + 2 /\ first[1] = two[1] /\ first[2] = two[2]
        /\ \A i \in 1 .. n : first[i + 2] = order[i]
    BY <1>4, <1>7, <2>3, <2>4
  <2>6. two[1] = BUFFERS /\ two[2] = WORK
    BY <2>3
  <2> QED  BY <2>1, <2>5, <2>6
<1>9. \A i \in 3 .. n + 2 : i - 2 \in 1 .. n /\ first[i] = order[i - 2] /\ order[i - 2] \in in
  <2> TAKE i \in 3 .. n + 2
  <2>1. i - 2 \in 1 .. n /\ (i - 2) + 2 = i
    OBVIOUS
  <2>2. first[(i - 2) + 2] = order[i - 2] /\ order[i - 2] \in in
    BY <1>8, <2>1
  <2> QED  BY <2>1, <2>2
<1>10. /\ net_num = n + 2 /\ \A i \in 1 .. n + 2 : net_array[i] = first[i]
       /\ net_array = [i \in 1 .. c + 2 |-> IF i <= n + 2 THEN first[i] ELSE NONE]
  BY <1>1, <1>4, <1>5, <1>7, <1>8 DEF Indices
<1>11. NetTaskTypes
  <2>1. Running \in NetTaskSet
    BY DEF Running, NetTaskSet, Ticks
  <2>2. net_array \in [Indices -> Ports \cup Sources \cup {NONE}]
    <3>1. \A i \in 1 .. c + 2 : i <= n + 2 => i = 1 \/ i = 2 \/ i \in 3 .. n + 2
      OBVIOUS
    <3>2. \A i \in 1 .. c + 2 : net_array[i] \in Ports \cup Sources \cup {NONE}
      BY <1>8, <1>9, <1>10, <3>1 DEF Sources
    <3> QED  BY <1>5, <1>10, <3>2 DEF Indices
  <2>3. owner \in [Ports -> OwnerSet]
    BY <1>6 DEF OwnerSet
  <2>4. net_num \in Nat /\ 2 <= net_num /\ net_num <= Cardinality(Ports) + 2
    BY <1>4, <1>5, <1>10
  <2>5. /\ port_timer \in [Ports -> Ticks] /\ done_ping \in [Ports -> BOOLEAN]
        /\ work_list \in Seq(Ports)
    BY <1>6 DEF Ticks
  <2> QED  BY <1>6, <2>1, <2>2, <2>3, <2>4, <2>5 DEF NetTaskTypes
<1>12. \A p \in Ports : Registered(p) <=> p \in in
  BY <1>6 DEF Registered, Answering, Running
<1>13. ArrayExact
  <2>1. net_array[1] = BUFFERS /\ net_array[2] = WORK
    BY <1>8, <1>10
  <2>2. \A i \in 3 .. net_num : net_array[i] \in Ports
    BY <1>9, <1>10
  <2>3. \A i, j \in 1 .. net_num : net_array[i] = net_array[j] => i = j
    <3> TAKE i, j \in 1 .. net_num
    <3> HAVE net_array[i] = net_array[j]
    <3>1. /\ i = 1 \/ i = 2 \/ i \in 3 .. n + 2
          /\ j = 1 \/ j = 2 \/ j \in 3 .. n + 2
      BY <1>10
    <3>2. CASE i \in 3 .. n + 2 /\ j \in 3 .. n + 2
      <4>1. /\ i - 2 \in 1 .. n /\ j - 2 \in 1 .. n /\ order[i - 2] = order[j - 2]
        BY <1>9, <1>10, <3>2
      <4>2. i - 2 = j - 2
        BY <1>3, <1>4, <4>1
      <4> QED  BY <3>2, <4>2
    <3>3. \A k \in 3 .. n + 2 : net_array[k] \in Ports
      BY <1>9, <1>10
    <3> QED  BY <2>1, <3>1, <3>2, <3>3
  <2>4. ASSUME NEW p \in Ports
        PROVE  Registered(p) <=> \E i \in 1 .. net_num : net_array[i] = p
    <3>1. ASSUME p \in in PROVE \E i \in 1 .. net_num : net_array[i] = p
      <4>1. PICK i \in 1 .. n : order[i] = p
        BY <1>3, <1>4, <3>1
      <4>2. i + 2 \in 1 .. n + 2 /\ first[i + 2] = p
        BY <1>8, <4>1
      <4> QED  BY <1>10, <4>2
    <3>2. ASSUME NEW i \in 1 .. net_num, net_array[i] = p PROVE p \in in
      <4>1. i = 1 \/ i = 2 \/ i \in 3 .. n + 2
        BY <1>10
      <4>2. i # 1 /\ i # 2
        BY <2>1, <3>2
      <4> QED  BY <1>9, <1>10, <3>2, <4>1, <4>2
    <3> QED  BY <1>12, <3>1, <3>2
  <2> QED  BY <2>1, <2>2, <2>3, <2>4 DEF ArrayExact
<1>14. Adding /\ OnDuty
  BY <1>6 DEF Adding, OnDuty, Leaving
<1>15. Works
  <2>1. IsInjective(<<>>) /\ ToSet(<<>>) = {}
    BY DEF IsInjective, ToSet
  <2> QED  BY <1>6, <2>1 DEF Works, Answering, Running
<1>16. Queues /\ Waits /\ Timed
  BY <1>6 DEF Queues, Waits, Timed, Running
<1> QED  BY <1>11, <1>13, <1>14, <1>15, <1>16 DEF NetTaskInvariant

LEMMA NetTaskSteps ==
  NetTaskInvariant /\ OneAtATime /\ [NetTaskNext]_netTaskVars => NetTaskInvariant'
<1> SUFFICES ASSUME NetTaskInvariant, OneAtATime, [NetTaskNext]_netTaskVars
             PROVE  NetTaskInvariant'
  OBVIOUS
<1>1. CASE UNCHANGED netTaskVars
  <2> USE <1>1 DEF netTaskVars
  <2>1. NetTaskTypes' /\ ArrayExact' /\ Adding' /\ OnDuty' /\ Works'
    BY DEF NetTaskInvariant, NetTaskTypes, ArrayExact, Adding, OnDuty, Works, Registered,
           Answering
  <2>2. Queues' /\ Waits' /\ Timed'
    BY DEF NetTaskInvariant, Queues, Waits, Timed, Settled, WillUpdate, Covers, TicksTo
  <2> QED  BY <2>1, <2>2 DEF NetTaskInvariant
<1>2. ASSUME NEW p \in Ports,
             \/ net_condition_add(p) \/ AddCount(p) \/ net_condition_updated(p)
             \/ tcp_timeout_update(p) \/ tcp_unregister(p) \/ tcp_timer_unregister(p)
             \/ net_work_add(p) \/ WorkWait(p) \/ WorkReturn(p)
      PROVE  NetTaskInvariant'
  BY <1>2, AddStep, AddCountStep, UpdatedStep, TimeoutUpdateStep, UnregisterStep,
     TimerUnregisterStep, WorkAddStep, WorkWaitStep, WorkReturnStep
<1>3. CASE net_buffer_write \/ net_condition_task_entry \/ suspend_timeout_get_min \/ NetCheck
  BY <1>3, BufferWriteStep, EntryStep, GetMinStep, CheckStep
<1>4. CASE NetWoke \/ net_buffer_condition_callback \/ NetPort \/ WorkPop \/ WorkAnswer \/ NetTick
  BY <1>4, WokeStep, BufferStep, PortStep, PopStep, AnswerStep, TickStep
<1> QED  BY <1>1, <1>2, <1>3, <1>4 DEF NetTaskNext

(* The invariant says all that the run checks.                             *)
LEMMA NetTaskInvariantListens ==
  NetTaskInvariant => NetTaskListens
<1> SUFFICES ASSUME NetTaskInvariant PROVE NetTaskListens
  OBVIOUS
<1> USE NetTaskAssumption
<1>1. NothingQueued
  <2> SUFFICES ASSUME Asleep PROVE rx_queue = 0 /\ ~ rx_flag /\ work_list = <<>>
    BY DEF NothingQueued
  <2> QED  BY DEF NetTaskInvariant, NetTaskTypes, Queues, Waits, Asleep
<1>2. TimersWatched
  <2> SUFFICES ASSUME Asleep, ~ WillUpdate, NEW i \in 1 .. net_num
               PROVE  /\ i <= net_task.num
                      /\ TicksTo(i) # OFF => /\ net_task.left # OFF
                                             /\ net_task.left <= TicksTo(i) + net_task.late
    BY DEF TimersWatched
  <2>1. Settled
    BY DEF Settled, Asleep, NetTaskInvariant, Waits
  <2>2. net_num <= net_task.num /\ Covers(net_task.left, net_task.late)
    BY <2>1 DEF Asleep, NetTaskInvariant, Timed
  <2>3. net_num \in Nat /\ net_task.num \in Nat
    BY DEF NetTaskInvariant, NetTaskTypes, NetTaskSet
  <2> QED  BY <2>2, <2>3 DEF Covers
<1>3. PortsRegistered
  <2> SUFFICES ASSUME NEW p \in Ports
               PROVE  Cardinality({i \in 1 .. net_num : net_array[i] = p})
                        = IF Registered(p) THEN 1 ELSE 0
    BY DEF PortsRegistered, Registered
  <2> DEFINE at == {i \in 1 .. net_num : net_array[i] = p}
  <2>1. Registered(p) <=> \E i \in 1 .. net_num : net_array[i] = p
    BY DEF NetTaskInvariant, ArrayExact
  <2>2. CASE ~ Registered(p)
    <3>1. at = {}
      BY <2>1, <2>2
    <3> QED  BY <2>2, <3>1, FS_EmptySet
  <2>3. CASE Registered(p)
    <3>1. PICK i \in 1 .. net_num : net_array[i] = p
      BY <2>1, <2>3
    <3>2. at = {i}
      BY <3>1 DEF NetTaskInvariant, ArrayExact
    <3>3. Cardinality({i}) = 1
      BY FS_Singleton
    <3> QED  BY <2>3, <3>2, <3>3
  <2> QED  BY <2>2, <2>3
<1>4. WorkAnswered
  BY DEF WorkAnswered, NetTaskInvariant, Works
<1> QED  BY <1>1, <1>2, <1>3, <1>4 DEF NetTaskListens

(* The network task misses nothing of what is queued for it or registered  *)
(* with it, and no timer of a TCP port: each finds it awake or wakes it in *)
(* time, and a work that an owner waits for is on the queue or in its      *)
(* hands.  This holds for any ports, as long as no port is added while     *)
(* another one is removed (net_condition_add, net_condition_do_remove,     *)
(* suspend_condition).                                                     *)
THEOREM NetTaskHears ==
  ASSUME OneAtATime
  PROVE  NetTaskSpec => []NetTaskListens
<1>1. NetTaskInvariant /\ [NetTaskNext]_netTaskVars => NetTaskInvariant'
  BY NetTaskSteps
<1>2. NetTaskSpec => []NetTaskInvariant
  BY <1>1, NetTaskInitial, PTL DEF NetTaskSpec
<1> QED  BY <1>2, NetTaskInvariantListens, PTL

----------------------------------------------------------------------------
(* Fragments: the buffer lists that are held, and the merge.               *)

(* One slot of the walk of ListsIn.                                        *)
ListsTurn(n, s, fs, used) == n + (IF s \in used THEN Len(fs[s].list) ELSE 0)
Walk == [s \in Slots |-> s]
Held(fs, used) == [s \in Slots |-> IF s \in used THEN Len(fs[s].list) ELSE 0]

LEMMA WalkList ==
  Walk \in Seq(Slots) /\ Len(Walk) = NumFragments /\ NoDuplicates(Walk) /\ ToSet(Walk) = Slots
  /\ \A s \in Slots : Walk[s] = s
<1>1. NumFragments \in Nat /\ Slots = 1 .. NumFragments
  BY FragAssumption DEF Slots
<1>2. Walk = [s \in 1 .. NumFragments |-> s]
  BY <1>1 DEF Walk
<1>3. Walk \in Seq(Slots) /\ Len(Walk) = NumFragments /\ \A s \in Slots : Walk[s] = s
  BY <1>1, <1>2
<1>4. NoDuplicates(Walk)
  BY <1>1, <1>3 DEF NoDuplicates
<1>5. \A x : x \in ToSet(Walk) <=> x \in Slots
  BY <1>1, <1>3, ToSetMember
<1> QED  BY <1>3, <1>4, <1>5

LEMMA ListsStages ==
  ASSUME NEW T, 0 \in T, NEW fs, NEW used,
         \A s \in T, x \in Slots : ListsTurn(s, x, fs, used) \in T
  PROVE  \E stage \in [0 .. NumFragments -> T] :
           /\ stage[0] = 0 /\ stage[NumFragments] = ListsIn(fs, used)
           /\ \A i \in 1 .. NumFragments : stage[i] = ListsTurn(stage[i - 1], i, fs, used)
<1> DEFINE Body(n, f) == [s \in SUBSET (1 .. n) |->
             IF s = {} THEN 0 ELSE ListsTurn(f[s \ {Max(s)}], Walk[Max(s)], fs, used)]
<1>1. PICK n \in Nat : /\ n = NumFragments /\ Walk \in [1 .. n -> Slots] /\ DOMAIN Walk = 1 .. n
                       /\ \A s \in 1 .. n : Walk[s] = s
  <2>1. NumFragments \in Nat /\ Slots = 1 .. NumFragments
    BY FragAssumption DEF Slots
  <2>2. Walk \in [1 .. NumFragments -> Slots] /\ \A s \in 1 .. NumFragments : Walk[s] = s
    BY <2>1 DEF Walk
  <2> QED  BY <2>1, <2>2
<1>2. PICK iter : /\ ListsIn(fs, used) = iter[1 .. n]
                  /\ iter = CHOOSE f : f = Body(n, f)
  BY <1>1, Zenon DEF ListsIn, ListsTurn, Walk, FoldLeft, MapThenFoldSet
<1>3. PICK G \in [T \X Slots -> T] : \A s \in T, x \in Slots : G[<<s, x>>] = ListsTurn(s, x, fs, used)
  <2>1. PICK G : G = [p \in T \X Slots |-> ListsTurn(p[1], p[2], fs, used)]
    OBVIOUS
  <2> QED  BY <2>1
<1>4. ASSUME NEW f, NEW s \in SUBSET (1 .. n), s # {}, f[s \ {Max(s)}] \in T
      PROVE  G[<<f[s \ {Max(s)}], Walk[Max(s)]>>] = ListsTurn(f[s \ {Max(s)}], Walk[Max(s)], fs, used)
  <2>1. Walk[Max(s)] \in Slots
    BY <1>1, <1>4, MaxInSet
  <2> QED  BY <1>3, <1>4, <2>1
<1>5. \E f : f = Body(n, f)
  <2>1. PICK f : IsFold(f, T, n, Walk, 0, G)
    BY <1>1, <1>3, FoldExists
  <2>2. \A s \in SUBSET (1 .. n) : f[s] = Body(n, f)[s]
    BY <1>4, <2>1 DEF IsFold
  <2> QED  BY <2>1, <2>2 DEF IsFold
<1>6. iter = Body(n, iter)
  <2> HIDE DEF Body
  <2> QED  BY <1>2, <1>5
<1>7. MayFold(iter, T, n, Walk, 0, G)
  BY <1>4, <1>6 DEF MayFold
<1>8. PICK stage : AreStages(stage, T, n, Walk, 0, G, iter[1 .. n])
  BY <1>1, <1>3, <1>7, FoldStages
<1>9. \A i \in 1 .. n : stage[i] = ListsTurn(stage[i - 1], i, fs, used)
  <2> TAKE i \in 1 .. n
  <2>1. i - 1 \in 0 .. n
    OBVIOUS
  <2>2. stage[i - 1] \in T /\ Walk[i] = i /\ i \in Slots
    BY <1>1, <1>8, <2>1 DEF AreStages, Slots
  <2> QED  BY <1>3, <1>8, <2>2 DEF AreStages
<1> QED  BY <1>1, <1>2, <1>8, <1>9 DEF AreStages

(* ListsIn is the sum of the lengths.                                      *)
LEMMA ListsAdd ==
  ASSUME NEW fs, NEW used, \A s \in Slots : Len(fs[s].list) \in Nat
  PROVE  /\ Held(fs, used) \in [Slots -> Nat]
         /\ Adds(Held(fs, used), Walk, ListsIn(fs, used))
<1>1. PICK w : w = Held(fs, used)
  OBVIOUS
<1>2. w \in [Slots -> Nat]
  <2>1. \A s \in Slots : (IF s \in used THEN Len(fs[s].list) ELSE 0) \in Nat
    OBVIOUS
  <2> QED  BY <1>1, <2>1 DEF Held
<1>3. \A s \in Int, x \in Slots : ListsTurn(s, x, fs, used) = s + w[x]
  BY <1>1 DEF ListsTurn, Held
<1>4. \A s \in Int, x \in Slots : ListsTurn(s, x, fs, used) \in Int
  <2> TAKE s \in Int, x \in Slots
  <2>1. PICK m \in Nat : m = w[x]
    BY <1>2
  <2> QED  BY <1>3, <2>1
<1>5. PICK n \in Nat : n = NumFragments
  BY FragAssumption
<1>6. PICK stage \in [0 .. n -> Int] :
           /\ stage[0] = 0 /\ stage[n] = ListsIn(fs, used)
           /\ \A i \in 1 .. n : stage[i] = ListsTurn(stage[i - 1], i, fs, used)
  <2>1. PICK T : T = Int
    OBVIOUS
  <2>2. 0 \in T /\ \A s \in T, x \in Slots : ListsTurn(s, x, fs, used) \in T
    BY <1>4, <2>1
  <2>3. \E stage \in [0 .. NumFragments -> T] :
           /\ stage[0] = 0 /\ stage[NumFragments] = ListsIn(fs, used)
           /\ \A i \in 1 .. NumFragments : stage[i] = ListsTurn(stage[i - 1], i, fs, used)
    BY <2>2, ListsStages
  <2> QED  BY <1>5, <2>1, <2>3
<1>7. \A i \in 1 .. n : stage[i] = stage[i - 1] + w[Walk[i]]
  <2> TAKE i \in 1 .. n
  <2>1. i - 1 \in 0 .. n /\ i \in Slots
    BY <1>5 DEF Slots
  <2>2. stage[i - 1] \in Int /\ Walk[i] = i
    BY <2>1, WalkList
  <2> QED  BY <1>3, <1>6, <2>1, <2>2
<1>8. IsSum(stage, w, Walk, n, ListsIn(fs, used))
  BY <1>6, <1>7 DEF IsSum
<1> QED  BY <1>1, <1>2, <1>5, <1>8, WalkList DEF Adds

(* The sum of two weights.                                                 *)
LEMMA AddsPlus ==
  ASSUME NEW S, NEW w \in [S -> Nat], NEW v \in [S -> Nat], NEW list \in Seq(S),
         NEW n, NEW m, Adds(w, list, n), Adds(v, list, m), NEW u, \A x \in S : u[x] = w[x] + v[x]
  PROVE  Adds(u, list, n + m)
<1>1. PICK k \in Nat : k = Len(list)
  OBVIOUS
<1>2. PICK e : /\ e \in [0 .. k -> Int] /\ e[0] = 0 /\ e[k] = n
              /\ \A j \in 1 .. k : e[j] = e[j - 1] + w[list[j]]
  <2>1. PICK e : IsSum(e, w, list, k, n)
    BY <1>1 DEF Adds
  <2> QED  BY <2>1 DEF IsSum
<1>3. PICK f : /\ f \in [0 .. k -> Int] /\ f[0] = 0 /\ f[k] = m
              /\ \A j \in 1 .. k : f[j] = f[j - 1] + v[list[j]]
  <2>1. PICK f : IsSum(f, v, list, k, m)
    BY <1>1 DEF Adds
  <2> QED  BY <2>1 DEF IsSum
<1>4. PICK g : g = [j \in 0 .. k |-> e[j] + f[j]]
  OBVIOUS
<1>5. g \in [0 .. k -> Int]
  <2>1. \A j \in 0 .. k : e[j] + f[j] \in Int
    BY <1>2, <1>3
  <2> QED  BY <1>4, <2>1
<1>6. g[0] = 0 /\ g[k] = n + m
  BY <1>2, <1>3, <1>4
<1>7. \A j \in 1 .. k : g[j] = g[j - 1] + u[list[j]]
  <2> TAKE j \in 1 .. k
  <2>1. j \in 0 .. k /\ j - 1 \in 0 .. k /\ list[j] \in S
    BY <1>1
  <2>2. PICK x \in Nat, y \in Nat : x = w[list[j]] /\ y = v[list[j]]
    BY <2>1
  <2>3. PICK a \in Int, b \in Int : a = e[j - 1] /\ b = f[j - 1]
    BY <1>2, <1>3, <2>1
  <2>4. e[j] = a + x /\ f[j] = b + y /\ u[list[j]] = x + y
    BY <1>2, <1>3, <2>1, <2>2, <2>3
  <2>5. g[j] = (a + x) + (b + y) /\ g[j - 1] = a + b
    BY <1>4, <2>1, <2>3, <2>4
  <2>6. (a + x) + (b + y) = (a + b) + (x + y)
    OBVIOUS
  <2> QED  BY <2>4, <2>5, <2>6
<1>8. IsSum(g, u, list, k, n + m)
  BY <1>5, <1>6, <1>7 DEF IsSum
<1> QED  BY <1>1, <1>8 DEF Adds
LEMMA ListsNat ==
  ASSUME NEW fs, NEW used, \A s \in Slots : Len(fs[s].list) \in Nat
  PROVE  ListsIn(fs, used) \in Nat
BY ListsAdd, AddsNat, WalkList

(* Lists of the same length.                                               *)
LEMMA ListsSame ==
  ASSUME NEW fs, NEW gs, \A s \in Slots : Len(fs[s].list) \in Nat,
         \A s \in Slots : Len(gs[s].list) = Len(fs[s].list)
  PROVE  ListsIn(gs, Slots) = ListsIn(fs, Slots)
<1>1. Held(gs, Slots) = Held(fs, Slots)
  BY DEF Held
<1>2. /\ Adds(Held(fs, Slots), Walk, ListsIn(fs, Slots))
      /\ Adds(Held(gs, Slots), Walk, ListsIn(gs, Slots))
  BY ListsAdd
<1>3. Len(Walk) \in Nat
  BY WalkList
<1> QED  BY <1>1, <1>2, <1>3, AddsUnique

(* The list of one slot changes.                                           *)
LEMMA ListsChange ==
  ASSUME NEW fs, NEW gs, \A s \in Slots : Len(fs[s].list) \in Nat,
         NEW s \in Slots, Len(gs[s].list) \in Nat,
         \A t \in Slots : t # s => gs[t].list = fs[t].list
  PROVE  ListsIn(gs, Slots) = ListsIn(fs, Slots) - Len(fs[s].list) + Len(gs[s].list)
<1>1. \A t \in Slots : Len(gs[t].list) \in Nat
  OBVIOUS
<1>2. PICK w \in [Slots -> Nat] : w = Held(fs, Slots) /\ Adds(w, Walk, ListsIn(fs, Slots))
  BY ListsAdd
<1>3. PICK v \in [Slots -> Nat] : v = Held(gs, Slots) /\ Adds(v, Walk, ListsIn(gs, Slots))
  BY <1>1, ListsAdd
<1>4. w[s] = Len(fs[s].list) /\ v[s] = Len(gs[s].list)
  BY <1>2, <1>3 DEF Held
<1>5. s \in 1 .. Len(Walk) /\ Walk[s] = s
  BY WalkList DEF Slots
<1>6. \A x \in ToSet(Walk) : x = Walk[s] \/ v[x] = w[x]
  BY <1>2, <1>3, <1>5, WalkList DEF Held
<1>7. Adds(v, Walk, ListsIn(fs, Slots) - w[Walk[s]] + v[Walk[s]])
  <2>1. PICK n : n = ListsIn(fs, Slots)
    OBVIOUS
  <2>2. PICK l \in Seq(Slots) : l = Walk /\ NoDuplicates(l)
    BY WalkList
  <2>3. Adds(w, l, n)
    BY <1>2, <2>1, <2>2
  <2>4. Adds(v, l, n - w[l[s]] + v[l[s]])
    BY <1>5, <1>6, <2>2, <2>3, AddsChange
  <2> QED  BY <2>1, <2>2, <2>4
<1>8. Len(Walk) \in Nat
  BY WalkList
<1>9. ListsIn(gs, Slots) = ListsIn(fs, Slots) - w[Walk[s]] + v[Walk[s]]
  BY <1>3, <1>7, <1>8, AddsUnique
<1> QED  BY <1>4, <1>5, <1>9

(* The slots in used give their lists back.                                *)
LEMMA ListsGiven ==
  ASSUME NEW fs, NEW gs, NEW used, used \subseteq Slots,
         \A s \in Slots : Len(fs[s].list) \in Nat,
         \A s \in Slots : gs[s].list = IF s \in used THEN <<>> ELSE fs[s].list
  PROVE  ListsIn(fs, Slots) = ListsIn(gs, Slots) + ListsIn(fs, used)
<1>1. \A t \in Slots : Len(gs[t].list) \in Nat
  <2> TAKE t \in Slots
  <2>1. Len(<<>>) = 0
    OBVIOUS
  <2> QED  BY <2>1
<1>2. PICK w \in [Slots -> Nat] : w = Held(fs, Slots) /\ Adds(w, Walk, ListsIn(fs, Slots))
  BY ListsAdd
<1>3. PICK v \in [Slots -> Nat] : v = Held(gs, Slots) /\ Adds(v, Walk, ListsIn(gs, Slots))
  BY <1>1, ListsAdd
<1>4. PICK u \in [Slots -> Nat] : u = Held(fs, used) /\ Adds(u, Walk, ListsIn(fs, used))
  BY ListsAdd
<1>5. \A x \in Slots : w[x] = v[x] + u[x]
  <2> TAKE x \in Slots
  <2>1. PICK n \in Nat : n = Len(fs[x].list)
    OBVIOUS
  <2>2. w[x] = n /\ v[x] = Len(gs[x].list) /\ u[x] = IF x \in used THEN n ELSE 0
    BY <1>2, <1>3, <1>4, <2>1 DEF Held
  <2>3. Len(gs[x].list) = IF x \in used THEN 0 ELSE n
    <3>1. Len(<<>>) = 0
      OBVIOUS
    <3> QED  BY <2>1, <3>1
  <2> QED  BY <2>1, <2>2, <2>3
<1>6. Adds(w, Walk, ListsIn(gs, Slots) + ListsIn(fs, used))
  <2>1. PICK n, m : n = ListsIn(gs, Slots) /\ m = ListsIn(fs, used)
    OBVIOUS
  <2>2. PICK l \in Seq(Slots) : l = Walk
    BY WalkList
  <2>3. Adds(v, l, n) /\ Adds(u, l, m)
    BY <1>3, <1>4, <2>1, <2>2
  <2>4. Adds(w, l, n + m)
    <3>1. PICK S : S = Slots
      OBVIOUS
    <3>2. w \in [S -> Nat] /\ v \in [S -> Nat] /\ u \in [S -> Nat] /\ l \in Seq(S)
      BY <3>1
    <3>3. \A x \in S : w[x] = v[x] + u[x]
      BY <1>5, <3>1
    <3> QED  BY ONLY <2>3, <3>2, <3>3, AddsPlus
  <2> QED  BY <2>1, <2>2, <2>4
<1>7. Len(Walk) \in Nat
  BY WalkList
<1> QED  BY <1>2, <1>6, <1>7, AddsUnique

----------------------------------------------------------------------------
(* The merge of the fragments of a list.                                   *)
Piece == [off : Nat, data : Seq(Datagrams \X Nat)]
MergeSet == [merged : Seq(Piece), last : Piece, next_offset : Nat, hole : BOOLEAN, freed : Nat]

MergeAll(st, list) == FoldLeft(MergeStep, st, list)

(* The two ways a turn of the merge goes.                                  *)
Joins(st, x, new) ==
  /\ new.merged = st.merged /\ new.hole = st.hole /\ new.freed = st.freed + 1
  /\ new.last = [off |-> st.last.off, data |-> st.last.data \o x.data]
  /\ new.next_offset = st.next_offset
Skips(st, x, new) ==
  /\ new.merged = Append(st.merged, st.last) /\ new.hole /\ new.freed = st.freed
  /\ new.last = x

LEMMA MergeTurn ==
  ASSUME NEW st \in MergeSet, NEW x \in Piece, NEW new, new = MergeStep(st, x)
  PROVE  /\ new \in MergeSet
         /\ IF x.off = st.next_offset THEN Joins(st, x, new) ELSE Skips(st, x, new)
<1>1. /\ st = [merged |-> st.merged, last |-> st.last, next_offset |-> st.next_offset,
               hole |-> st.hole, freed |-> st.freed]
      /\ st.merged \in Seq(Piece) /\ st.last \in Piece /\ st.next_offset \in Nat
      /\ st.hole \in BOOLEAN /\ st.freed \in Nat
  BY DEF MergeSet
<1>2. /\ st.last = [off |-> st.last.off, data |-> st.last.data]
      /\ st.last.off \in Nat /\ st.last.data \in Seq(Datagrams \X Nat)
      /\ x.off \in Nat /\ x.data \in Seq(Datagrams \X Nat)
  BY <1>1 DEF Piece
<1>3. CASE x.off = st.next_offset
  <2>1. PICK l : l = [off |-> st.last.off, data |-> st.last.data \o x.data]
    OBVIOUS
  <2>2. PICK k \in Nat : k = st.freed + 1
    BY <1>1
  <2>3. st.last.data \o x.data \in Seq(Datagrams \X Nat)
    BY <1>2, ConcatProperties
  <2>4. l \in Piece
    BY <1>2, <2>1, <2>3 DEF Piece
  <2>5. [st.last EXCEPT !.data = @ \o x.data] = l
    <3>1. PICK z \in Piece, d \in Seq(Datagrams \X Nat) : z = st.last /\ d = z.data \o x.data
      BY <1>1, <2>3
    <3>2. [z EXCEPT !.data = d] = [off |-> z.off, data |-> d]
      BY DEF Piece
    <3> QED  BY <2>1, <3>1, <3>2
  <2>6. new = [st EXCEPT !.last = [st.last EXCEPT !.data = @ \o x.data], !.freed = k]
    BY <1>1, <1>2, <1>3, <2>2 DEF MergeStep, MergeSet
  <2>7. new = [merged |-> st.merged, last |-> l, next_offset |-> st.next_offset,
               hole |-> st.hole, freed |-> k]
    BY <1>1, <2>5, <2>6
  <2> QED  BY <1>1, <1>3, <2>1, <2>2, <2>4, <2>7 DEF MergeSet, Joins
<1>4. CASE x.off # st.next_offset
  <2>1. PICK o : o = Len(st.last.data) + x.off
    OBVIOUS
  <2>2. o \in Nat
    BY <1>2, <2>1
  <2>3. PICK m : m = Append(st.merged, st.last)
    OBVIOUS
  <2>4. m \in Seq(Piece)
    BY <1>1, <2>3
  <2>5. new = [merged |-> m, last |-> x, next_offset |-> o, hole |-> TRUE, freed |-> st.freed]
    BY <1>4, <2>1, <2>3 DEF MergeStep
  <2> QED  BY <1>1, <1>4, <2>2, <2>3, <2>4, <2>5 DEF MergeSet, Skips
<1> QED  BY <1>3, <1>4

(* The merge takes the fragments in their order.                           *)
LEMMA MergeStages ==
  ASSUME NEW st \in MergeSet, NEW list \in Seq(Piece)
  PROVE  \E stage \in [0 .. Len(list) -> MergeSet] :
           /\ stage[0] = st /\ stage[Len(list)] = MergeAll(st, list)
           /\ \A i \in 1 .. Len(list) : stage[i] = MergeStep(stage[i - 1], list[i])
<1> DEFINE Body(n, f) == [s \in SUBSET (1 .. n) |->
             IF s = {} THEN st ELSE MergeStep(f[s \ {Max(s)}], list[Max(s)])]
<1>0. PICK T, X : /\ T = MergeSet /\ X = Piece
                  /\ \A s \in T, b \in X : MergeStep(s, b) \in T
  <2>1. \A s \in MergeSet, b \in Piece : MergeStep(s, b) \in MergeSet
    BY MergeTurn
  <2> QED  BY <2>1
<1>1. PICK n \in Nat : n = Len(list) /\ list \in [1 .. n -> X]
  BY <1>0
<1>2. PICK iter : /\ MergeAll(st, list) = iter[1 .. n]
                  /\ iter = CHOOSE f : f = Body(n, f)
  BY <1>1, Zenon DEF MergeAll, FoldLeft, MapThenFoldSet
<1>3. PICK G \in [T \X X -> T] : \A s \in T, x \in X : G[<<s, x>>] = MergeStep(s, x)
  <2>1. PICK G : G = [p \in T \X X |-> MergeStep(p[1], p[2])]
    OBVIOUS
  <2> QED  BY <1>0, <2>1
<1>4. ASSUME NEW f, NEW s \in SUBSET (1 .. n), s # {}, f[s \ {Max(s)}] \in T
      PROVE  G[<<f[s \ {Max(s)}], list[Max(s)]>>] = MergeStep(f[s \ {Max(s)}], list[Max(s)])
  <2>1. list[Max(s)] \in X
    BY <1>1, <1>4, MaxInSet
  <2> QED  BY <1>3, <1>4, <2>1
<1>5. \E f : f = Body(n, f)
  <2>1. PICK f : IsFold(f, T, n, list, st, G)
    BY <1>0, <1>1, <1>3, FoldExists
  <2>2. \A s \in SUBSET (1 .. n) : f[s] = Body(n, f)[s]
    BY <1>4, <2>1 DEF IsFold
  <2> QED  BY <2>1, <2>2 DEF IsFold
<1>6. iter = Body(n, iter)
  <2> HIDE DEF Body
  <2> QED  BY <1>2, <1>5
<1>7. MayFold(iter, T, n, list, st, G)
  BY <1>4, <1>6 DEF MayFold
<1>8. PICK stage : AreStages(stage, T, n, list, st, G, iter[1 .. n])
  BY <1>0, <1>1, <1>3, <1>7, FoldStages
<1>9. \A i \in 1 .. n : stage[i] = MergeStep(stage[i - 1], list[i])
  <2> TAKE i \in 1 .. n
  <2>1. i - 1 \in 0 .. n
    OBVIOUS
  <2>2. stage[i - 1] \in T /\ list[i] \in X
    BY <1>1, <1>8, <2>1 DEF AreStages
  <2> QED  BY <1>3, <1>8, <2>2 DEF AreStages
<1> QED  BY <1>0, <1>1, <1>2, <1>8, <1>9 DEF AreStages

(* What the merge leaves, after the turn for the fragment at i.            *)
Outcome(st) == Append(st.merged, st.last)
DistinctOffs(list) == \A i, j \in 1 .. Len(list) : list[i].off = list[j].off => i = j
OffsFrom(list, i, new) == \A j \in 1 .. Len(new) : \E k \in 1 .. i : new[j].off = list[k].off
AllNext(list, i, off) == \A k \in 2 .. i : list[k].off = off
MergedTo(list, i, st) ==
  /\ Len(st.merged) + 1 + st.freed = i
  /\ st.hole => st.merged # <<>>
  /\ ~st.hole => /\ st.merged = <<>> /\ st.next_offset = Len(list[1].data) + list[1].off
                 /\ AllNext(list, i, st.next_offset)
  /\ OffsFrom(list, i, Outcome(st))
  /\ DistinctOffs(list) => DistinctOffs(Outcome(st))

LEMMA OutcomeParts ==
  ASSUME NEW st \in MergeSet, NEW o, o = Outcome(st)
  PROVE  /\ o \in Seq(Piece) /\ Len(o) = Len(st.merged) + 1 /\ Len(st.merged) \in Nat
         /\ \A j \in 1 .. Len(st.merged) : o[j] = st.merged[j]
         /\ o[Len(st.merged) + 1] = st.last
<1>1. st.merged \in Seq(Piece) /\ st.last \in Piece
  BY DEF MergeSet
<1> QED  BY <1>1, AppendProperties DEF Outcome

LEMMA MergeTurnKeeps ==
  ASSUME NEW list \in Seq(Piece), NEW i \in 1 .. Len(list), i < Len(list),
         NEW st \in MergeSet, MergedTo(list, i, st),
         NEW new, new = MergeStep(st, list[i + 1])
  PROVE  new \in MergeSet /\ MergedTo(list, i + 1, new)
<1>1. PICK x \in Piece : x = list[i + 1]
  OBVIOUS
<1>2. /\ new \in MergeSet
      /\ IF x.off = st.next_offset THEN Joins(st, x, new) ELSE Skips(st, x, new)
  BY <1>1, MergeTurn
<1>3. PICK m \in Nat, a \in Seq(Piece) :
        /\ a = Outcome(st) /\ m = Len(st.merged) /\ Len(a) = m + 1
        /\ \A j \in 1 .. m : a[j] = st.merged[j]
        /\ a[m + 1] = st.last
  <2>1. PICK a : a = Outcome(st)
    OBVIOUS
  <2> QED  BY <2>1, OutcomeParts
<1>4. PICK n \in Nat, b \in Seq(Piece) :
        /\ b = Outcome(new) /\ n = Len(new.merged) /\ Len(b) = n + 1
        /\ \A j \in 1 .. n : b[j] = new.merged[j]
        /\ b[n + 1] = new.last
  <2>1. PICK b : b = Outcome(new)
    OBVIOUS
  <2> QED  BY <1>2, <2>1, OutcomeParts
<1>5. /\ m + 1 + st.freed = i /\ st.freed \in Nat /\ new.freed \in Nat
      /\ OffsFrom(list, i, a)
      /\ DistinctOffs(list) => DistinctOffs(a)
  BY <1>2, <1>3 DEF MergedTo, MergeSet
<1>6. CASE x.off = st.next_offset
  <2>1. Joins(st, x, new)
    BY <1>2, <1>6
  <2>2. n = m /\ new.freed = st.freed + 1
    BY <1>3, <1>4, <2>1 DEF Joins
  <2>3. n + 1 + new.freed = i + 1
    <3>1. PICK q \in Nat : q = st.freed /\ new.freed = q + 1 /\ m + 1 + q = i
      BY <1>5, <2>2
    <3>2. m + 1 + (q + 1) = (m + 1 + q) + 1
      BY ONLY m \in Nat, q \in Nat
    <3> QED  BY <2>2, <3>1, <3>2
  <2>4. \A j \in 1 .. m + 1 : b[j].off = a[j].off
    <3> TAKE j \in 1 .. m + 1
    <3>1. CASE j \in 1 .. m
      BY <1>3, <1>4, <2>1, <2>2, <3>1 DEF Joins
    <3>2. CASE j = m + 1
      <4>1. new.last.off = st.last.off
        BY <2>1 DEF Joins
      <4> QED  BY <1>3, <1>4, <2>2, <3>2, <4>1
    <3> QED  BY <3>1, <3>2
  <2>5. OffsFrom(list, i + 1, b)
    BY <1>3, <1>4, <1>5, <2>2, <2>4 DEF OffsFrom
  <2>6. DistinctOffs(list) => DistinctOffs(b)
    BY <1>3, <1>4, <1>5, <2>2, <2>4 DEF DistinctOffs
  <2>7. new.hole => new.merged # <<>>
    BY <2>1 DEF Joins, MergedTo
  <2>8. ~new.hole => /\ new.merged = <<>> /\ new.next_offset = Len(list[1].data) + list[1].off
                     /\ AllNext(list, i + 1, new.next_offset)
    <3> SUFFICES ASSUME ~new.hole
                 PROVE  /\ new.merged = <<>> /\ new.next_offset = Len(list[1].data) + list[1].off
                        /\ AllNext(list, i + 1, new.next_offset)
      OBVIOUS
    <3>1. /\ st.merged = <<>> /\ st.next_offset = Len(list[1].data) + list[1].off
          /\ AllNext(list, i, st.next_offset) /\ new.next_offset = st.next_offset
          /\ new.merged = st.merged
      BY <2>1 DEF Joins, MergedTo
    <3>2. AllNext(list, i + 1, st.next_offset)
      BY <1>1, <1>6, <3>1 DEF AllNext
    <3> QED  BY <3>1, <3>2
  <2> QED  BY <1>2, <1>4, <2>3, <2>5, <2>6, <2>7, <2>8 DEF MergedTo
<1>7. CASE x.off # st.next_offset
  <2>1. Skips(st, x, new)
    BY <1>2, <1>7
  <2>2. new.merged = a /\ n = m + 1 /\ new.freed = st.freed /\ new.hole /\ new.last = x
    BY <1>3, <1>4, <2>1 DEF Skips, Outcome
  <2>3. n + 1 + new.freed = i + 1
    <3>1. PICK r \in Nat : r = st.freed
      BY DEF MergeSet
    <3>2. m + 1 + r = i /\ new.freed = r /\ n = m + 1
      BY <1>3, <1>5, <2>2, <3>1
    <3>3. m + 1 + 1 + r = i + 1
      BY ONLY m \in Nat, r \in Nat, i \in Nat, <3>2
    <3> QED  BY <3>2, <3>3
  <2>4. /\ \A j \in 1 .. m + 1 : b[j] = a[j]
        /\ b[m + 2] = list[i + 1]
    BY <1>1, <1>3, <1>4, <2>2
  <2>5. OffsFrom(list, i + 1, b)
    <3> SUFFICES ASSUME NEW j \in 1 .. m + 2
                 PROVE  \E k \in 1 .. i + 1 : b[j].off = list[k].off
      <4>1. Len(b) = m + 2
        BY <1>4, <2>2
      <4> QED  BY <4>1 DEF OffsFrom
    <3>1. CASE j \in 1 .. m + 1
      <4>1. PICK k \in 1 .. i : a[j].off = list[k].off
        BY <1>3, <1>5, <3>1 DEF OffsFrom
      <4>2. b[j] = a[j] /\ k \in 1 .. i + 1
        BY <2>4, <3>1
      <4> QED  BY <4>1, <4>2
    <3>2. CASE j = m + 2
      BY <2>4, <3>2
    <3> QED  BY <3>1, <3>2
  <2>6. ASSUME DistinctOffs(list)
        PROVE  DistinctOffs(b)
    <3>1. \A j \in 1 .. m + 1 : b[j].off # b[m + 2].off
      <4> TAKE j \in 1 .. m + 1
      <4>1. PICK k \in 1 .. i : a[j].off = list[k].off
        BY <1>3, <1>5 DEF OffsFrom
      <4>2. list[k].off # list[i + 1].off
        BY <2>6 DEF DistinctOffs
      <4> QED  BY <2>4, <4>1, <4>2
    <3>2. \A j, k \in 1 .. m + 1 : b[j].off = b[k].off => j = k
      BY <1>3, <1>5, <2>4, <2>6 DEF DistinctOffs
    <3>3. \A j \in 1 .. m + 2 : j \in 1 .. m + 1 \/ j = m + 2
      OBVIOUS
    <3>4. Len(b) = m + 2
      BY <1>4, <2>2
    <3> QED  BY <3>1, <3>2, <3>3, <3>4 DEF DistinctOffs
  <2>7. new.merged # <<>>
    <3>1. Len(<<>>) = 0
      OBVIOUS
    <3> QED  BY <1>3, <2>2, <3>1
  <2> QED  BY <1>2, <1>4, <2>2, <2>3, <2>5, <2>6, <2>7 DEF MergedTo
<1> QED  BY <1>6, <1>7

LEMMA MergeResult ==
  ASSUME NEW list \in Seq(Piece), list # <<>>, NEW m, m = ipv4_frag_merge(list)
  PROVE  /\ m \in MergeSet /\ MergedTo(list, Len(list), m)
         /\ Len(list) = 1 => m.last = list[1]
         /\ Len(list) = 2 /\ ~m.hole =>
              /\ list[2].off = list[1].off + Len(list[1].data)
              /\ m.last = [off |-> list[1].off, data |-> list[1].data \o list[2].data]
<1>1. PICK n \in Nat : n = Len(list) /\ n >= 1 /\ list[1] \in Piece
  OBVIOUS
<1>2. PICK tail \in Seq(Piece) : /\ tail = Tail(list) /\ Len(tail) = n - 1
                                 /\ \A i \in 1 .. n - 1 : tail[i] = list[i + 1]
  <2>1. PICK X : X = Piece
    OBVIOUS
  <2>2. list \in Seq(X)
    BY <2>1
  <2>3. /\ Tail(list) \in Seq(X) /\ Len(Tail(list)) = Len(list) - 1
        /\ \A i \in 1 .. Len(Tail(list)) : Tail(list)[i] = list[i + 1]
    BY ONLY <2>2, list # <<>>, HeadTailProperties
  <2> QED  BY <1>1, <2>1, <2>3
<1>3. PICK first \in Piece : first = list[1] /\ first = Head(list)
  BY <1>1
<1>4. PICK st : st = [merged |-> <<>>, last |-> first, next_offset |-> Len(first.data) + first.off,
                      hole |-> FALSE, freed |-> 0]
  OBVIOUS
<1>5. st \in MergeSet
  <2>1. first.off \in Nat /\ first.data \in Seq(Datagrams \X Nat)
    BY DEF Piece
  <2>2. PICK k \in Nat : k = Len(first.data) + first.off
    BY <2>1
  <2>3. st = [merged |-> <<>>, last |-> first, next_offset |-> k, hole |-> FALSE, freed |-> 0]
    BY <1>4, <2>2
  <2>4. <<>> \in Seq(Piece)
    OBVIOUS
  <2> QED  BY <2>3, <2>4 DEF MergeSet
<1>6. m = MergeAll(st, tail)
  BY <1>2, <1>3, <1>4 DEF ipv4_frag_merge, MergeAll
<1>8. PICK stage \in [0 .. n - 1 -> MergeSet] :
        /\ stage[0] = st /\ stage[n - 1] = m
        /\ \A i \in 1 .. n - 1 : stage[i] = MergeStep(stage[i - 1], tail[i])
  <2>1. \E stage \in [0 .. Len(tail) -> MergeSet] :
          /\ stage[0] = st /\ stage[Len(tail)] = MergeAll(st, tail)
          /\ \A i \in 1 .. Len(tail) : stage[i] = MergeStep(stage[i - 1], tail[i])
    BY <1>5, MergeStages, Zenon
  <2> QED  BY <1>2, <1>6, <2>1
<1>9. MergedTo(list, 1, st)
  <2>1. PICK o : o = Outcome(st)
    OBVIOUS
  <2>2. st.merged = <<>> /\ st.last = list[1] /\ st.freed = 0 /\ ~st.hole
        /\ st.next_offset = Len(list[1].data) + list[1].off
    BY <1>3, <1>4
  <2>3. Len(<<>>) = 0
    OBVIOUS
  <2>4. Len(o) = 1 /\ o[1] = list[1]
    <3>1. /\ Len(o) = Len(st.merged) + 1 /\ o[Len(st.merged) + 1] = st.last
      BY <1>5, <2>1, OutcomeParts
    <3>2. Len(st.merged) + 1 = 1
      BY <2>2, <2>3
    <3> QED  BY <2>2, <3>1, <3>2
  <2>5. OffsFrom(list, 1, o) /\ DistinctOffs(o)
    BY <2>4 DEF OffsFrom, DistinctOffs
  <2>6. AllNext(list, 1, st.next_offset)
    BY DEF AllNext
  <2>7. Len(st.merged) + 1 + st.freed = 1
    BY <2>2, <2>3
  <2> QED  BY <2>1, <2>2, <2>5, <2>6, <2>7 DEF MergedTo
<1>10. \A i \in 0 .. n - 1 : MergedTo(list, i + 1, stage[i])
  <2> DEFINE S == {i \in Nat : i <= n - 1 => MergedTo(list, i + 1, stage[i])}
  <2>1. 0 \in S
    BY <1>8, <1>9
  <2>2. ASSUME NEW i \in Nat, i \in S
        PROVE  i + 1 \in S
    <3> SUFFICES ASSUME i + 1 <= n - 1
                 PROVE  MergedTo(list, i + 2, stage[i + 1])
      OBVIOUS
    <3>1. i <= n - 1 /\ i \in 0 .. n - 1 /\ i + 1 \in 1 .. n - 1 /\ (i + 1) - 1 = i
          /\ (i + 1) + 1 = i + 2 /\ i + 1 \in 1 .. Len(list) /\ i + 1 < Len(list)
      BY <1>1
    <3>2. stage[i] \in MergeSet /\ MergedTo(list, i + 1, stage[i])
      BY <2>2, <3>1
    <3>3. stage[i + 1] = MergeStep(stage[i], list[(i + 1) + 1])
      BY <1>2, <1>8, <3>1
    <3>4. PICK k \in 1 .. Len(list) : k = i + 1 /\ k < Len(list)
      BY <3>1
    <3>5. MergedTo(list, k + 1, stage[i + 1])
      BY <3>2, <3>3, <3>4, MergeTurnKeeps
    <3> QED  BY <3>1, <3>4, <3>5
  <2> HIDE DEF S
  <2>3. Nat \subseteq S
    BY <2>1, <2>2, SetInduction
  <2> QED  BY <2>3 DEF S
<1>11. m \in MergeSet /\ MergedTo(list, n, m)
  <2>1. n - 1 \in 0 .. n - 1 /\ (n - 1) + 1 = n
    BY <1>1
  <2> QED  BY <1>8, <1>10, <2>1
<1>12. ASSUME Len(list) = 1
       PROVE  m.last = list[1]
  <2>1. m = st
    BY <1>1, <1>8, <1>12
  <2> QED  BY <1>3, <1>4, <2>1
<1>13. ASSUME Len(list) = 2, ~m.hole
       PROVE  /\ list[2].off = list[1].off + Len(list[1].data)
              /\ m.last = [off |-> list[1].off, data |-> list[1].data \o list[2].data]
  <2>1. PICK x \in Piece : x = list[2]
    <3>1. 2 \in 1 .. Len(list)
      BY <1>13
    <3> QED  BY <3>1
  <2>2. m = MergeStep(st, x)
    <3>1. 1 \in 1 .. n - 1 /\ n - 1 = 1 /\ 1 - 1 = 0 /\ 1 + 1 = 2
      BY <1>1, <1>13
    <3>2. stage[1] = MergeStep(stage[0], tail[1]) /\ tail[1] = list[2]
      BY <1>2, <1>8, <3>1
    <3> QED  BY <1>8, <2>1, <3>1, <3>2
  <2>3. x.off = st.next_offset /\ Joins(st, x, m)
    BY <1>5, <1>13, <2>2, MergeTurn DEF Skips
  <2>4. st.next_offset = Len(first.data) + first.off /\ st.last = first
    BY <1>4
  <2>5. first.off \in Nat /\ Len(first.data) \in Nat
    BY DEF Piece
  <2>6. x.off = first.off + Len(first.data)
    BY <2>3, <2>4, <2>5
  <2> QED  BY <1>3, <2>1, <2>3, <2>4, <2>6 DEF Joins
<1> QED  BY <1>1, <1>11, <1>12, <1>13

----------------------------------------------------------------------------
(* The fragments that are sent.                                            *)
Sent == UNION {ipv4_header_add(d) : d \in Datagrams}

(* A run of a datagram, in order.                                          *)
IsRun(d, off, data) ==
  /\ data = Units(d, off, Len(data)) /\ Len(data) >= 1
  /\ off + Len(data) <= Length[d]

Octets == Datagrams \X Nat
Octet(d, off, i) == <<d, off + i - 1>>

LEMMA UnitsRun ==
  ASSUME NEW d \in Datagrams, NEW off \in Nat, NEW n \in Nat, NEW data, data = Units(d, off, n)
  PROVE  /\ data \in Seq(Octets) /\ Len(data) = n
         /\ \A i \in 1 .. n : data[i] = Octet(d, off, i)
<1>1. data = [i \in 1 .. n |-> <<d, off + i - 1>>]
  BY DEF Units
<1>2. \A i \in 1 .. n : <<d, off + i - 1>> \in Datagrams \X Nat
  <2> TAKE i \in 1 .. n
  <2>1. off + i - 1 \in Nat
    OBVIOUS
  <2> QED  BY <2>1
<1>3. data \in Seq(Datagrams \X Nat) /\ Len(data) = n
      /\ \A i \in 1 .. n : data[i] = <<d, off + i - 1>>
  BY <1>1, <1>2
<1> QED  BY <1>3 DEF Octets, Octet

LEMMA SentFragment ==
  ASSUME NEW f \in Sent
  PROVE  /\ f.id \in Datagrams /\ f.off \in Nat /\ f.mf \in BOOLEAN
         /\ f.data \in Seq(Datagrams \X Nat) /\ f = Fragment(f.id, f.off)
         /\ IsRun(f.id, f.off, f.data)
         /\ ~f.mf => f.off + Len(f.data) = Length[f.id]
<1>0. PICK d \in Datagrams : f \in ipv4_header_add(d)
  BY DEF Sent
<1>1. PICK i \in 0 .. (Length[d] - 1) \div MaxPayload : f = Fragment(d, i * MaxPayload)
  BY <1>0 DEF ipv4_header_add
<1>2. PICK len \in Nat \ {0}, m \in Nat \ {0} : len = Length[d] /\ m = MaxPayload
  BY FragAssumption
<1>3. PICK off \in Nat : off = i * m /\ off <= len - 1
  <2>1. PICK q \in Nat : q = (len - 1) \div m /\ q * m <= len - 1
    BY <1>2
  <2>2. i \in Nat /\ i <= q
    BY <1>1, <1>2, <2>1
  <2>3. i * m <= q * m /\ i * m \in Nat /\ q * m \in Nat
    BY <1>2, <2>1, <2>2
  <2> QED  BY <1>2, <2>1, <2>3
<1>4. PICK n \in Nat : n = IF len - off > m THEN m ELSE len - off
  BY <1>2, <1>3
<1>5. n >= 1 /\ off + n <= len /\ (~(len - off > m) => off + n = len)
  BY <1>2, <1>3, <1>4
<1>6. PICK data : data = Units(d, off, n)
  OBVIOUS
<1>mf. PICK mf \in BOOLEAN : mf <=> len - off > m
  <2>1. CASE len - off > m
    BY <2>1
  <2>2. CASE ~(len - off > m)
    BY <2>2
  <2> QED  BY <2>1, <2>2
<1>7. f = [id |-> d, off |-> off, mf |-> mf, data |-> data]
  <2>1. f = [id |-> d, off |-> off, mf |-> len - off > m, data |-> data]
    BY <1>1, <1>2, <1>3, <1>4, <1>6 DEF Fragment
  <2>2. mf = (len - off > m)
    BY <1>mf
  <2> QED  BY <2>1, <2>2
<1>8. data \in Seq(Datagrams \X Nat) /\ Len(data) = n
  BY <1>6, UnitsRun DEF Octets
<1>9. f.id = d /\ f.off = off /\ f.data = data /\ f.mf \in BOOLEAN
      /\ (f.mf <=> len - off > m)
  BY <1>7, <1>mf
<1>10. f = Fragment(f.id, f.off)
  BY <1>1, <1>2, <1>3, <1>9
<1>11. IsRun(f.id, f.off, f.data)
  BY <1>2, <1>5, <1>6, <1>8, <1>9 DEF IsRun
<1> QED  BY <1>2, <1>5, <1>8, <1>9, <1>10, <1>11

----------------------------------------------------------------------------
(* The fragment lists and their timer.                                     *)
SlotSet == [flags : SUBSET {"IN_USE", "HAVE_FIRST", "LAST_RCVD", "DROP"},
            id : Datagrams \cup {0}, left : Nat, list : Seq(Piece)]

(* A list in use is reached by the timer, and one that is not is cleared.  *)
Expires(timer, e) ==
  /\ "IN_USE" \in e.flags => timer.enabled /\ timer.left <= e.left
  /\ "IN_USE" \notin e.flags => e = Unused

FragTypes ==
  /\ flying \in [Sent -> Nat] /\ fragments \in [Slots -> SlotSet]
  /\ frag_timer \in [enabled : BOOLEAN, left : Nat]
  /\ frag_lists \in Nat /\ used_lists \in Nat

FragInvariant ==
  /\ FragTypes
  /\ \A s \in Slots : Expires(frag_timer, fragments[s])
  /\ NumLists = frag_lists + used_lists + ListsIn(fragments, Slots)

LEMMA FragTimerReaches ==
  ASSUME NEW fs, \A s \in Slots : fs[s].left \in Nat, NEW timer,
         timer = ipv4_fragment_update_timer(fs)
  PROVE  /\ timer \in [enabled : BOOLEAN, left : Nat]
         /\ \A s \in Slots : "IN_USE" \in fs[s].flags => timer.enabled /\ timer.left <= fs[s].left
<1> DEFINE used == {s \in Slots : "IN_USE" \in fs[s].flags}
           due == {fs[s].left : s \in used}
<1>1. due \subseteq Nat
  OBVIOUS
<1>2. timer = [enabled |-> used # {}, left |-> IF used = {} THEN 0 ELSE Min(due)]
  BY DEF ipv4_fragment_update_timer
<1>3. \A s \in Slots : "IN_USE" \in fs[s].flags => s \in used /\ fs[s].left \in due
  OBVIOUS
<1>4. used # {} => due # {}
  OBVIOUS
<1> HIDE DEF used, due
<1>5. used # {} => Min(due) \in Nat /\ \A n \in due : Min(due) <= n
  BY <1>1, <1>4, MinNat
<1>6. CASE used = {}
  <2>1. timer = [enabled |-> FALSE, left |-> 0]
    BY <1>2, <1>6
  <2> QED  BY <1>3, <1>6, <2>1
<1>7. CASE used # {}
  <2>1. PICK m \in Nat : m = Min(due) /\ \A n \in due : m <= n
    BY <1>5, <1>7
  <2>2. timer = [enabled |-> TRUE, left |-> m]
    BY <1>2, <1>7, <2>1
  <2> QED  BY <1>3, <2>1, <2>2
<1> QED  BY <1>6, <1>7

LEMMA UnusedSlot ==
  Unused \in SlotSet /\ Unused.flags = {} /\ Unused.list = <<>> /\ Unused.left = 0
<1>1. <<>> \in Seq(Piece)
  OBVIOUS
<1> QED  BY <1>1 DEF Unused, SlotSet

(* The slot of a datagram.                                                 *)
LEMMA SlotForDatagram ==
  ASSUME NEW id, Lookup(id) \cup FreeSlots # {}
  PROVE  SlotFor(id) \in Slots /\ (InUse(SlotFor(id)) => fragments[SlotFor(id)].id = id)
<1>1. CASE Lookup(id) # {}
  <2>1. SlotFor(id) \in Lookup(id)
    BY <1>1 DEF SlotFor
  <2> QED  BY <2>1 DEF Lookup
<1>2. CASE Lookup(id) = {}
  <2>1. FreeSlots \subseteq Nat /\ FreeSlots # {}
    BY <1>2, FragAssumption DEF FreeSlots, Slots
  <2>2. SlotFor(id) = Min(FreeSlots)
    BY <1>2 DEF SlotFor
  <2>3. SlotFor(id) \in FreeSlots
    BY <2>1, <2>2, MinNat
  <2> QED  BY <2>3 DEF FreeSlots
<1> QED  BY <1>1, <1>2

(* A fragment joins the list of its slot: the slot before, its new flags,  *)
(* the list with the fragment in it, and what the merge makes of it.       *)
SlotOf(s, f) ==
  IF InUse(s) THEN fragments[s]
  ELSE [flags |-> {}, id |-> f.id, left |-> FRAG_TIMEOUT, list |-> <<>>]
FlagsWith(slot, f) ==
  slot.flags \cup {"IN_USE"} \cup (IF f.off = 0 THEN {"HAVE_FIRST"} ELSE {})
             \cup (IF ~f.mf THEN {"LAST_RCVD"} ELSE {})
ListWith(slot, f) ==
  sll_insert(slot.list, [off |-> f.off, data |-> f.data], ipv4_frag_sort(slot.list, f.off))
Complete(m, flags) == ~m.hole /\ {"HAVE_FIRST", "LAST_RCVD"} \subseteq flags
Delivers(s, m) ==
  /\ delivered' = delivered \cup {m.last.data}
  /\ fragments' = [fragments EXCEPT ![s] = Unused]
  /\ frag_lists' = frag_lists + m.freed
KeepsFragment(s, slot, flags, m) ==
  /\ fragments' = [fragments EXCEPT
       ![s] = [flags |-> flags, id |-> slot.id, left |-> slot.left, list |-> Outcome(m)]]
  /\ frag_lists' = frag_lists - 1 + m.freed
  /\ UNCHANGED delivered

LEMMA SlotOfType ==
  ASSUME FragInvariant, NEW s \in Slots, NEW f \in Sent, NEW slot, slot = SlotOf(s, f)
  PROVE  /\ slot \in SlotSet
         /\ IF InUse(s) THEN slot = fragments[s]
            ELSE slot.flags = {} /\ slot.id = f.id /\ slot.list = <<>> /\ slot.left = FRAG_TIMEOUT
<1>1. CASE InUse(s)
  BY <1>1 DEF SlotOf, FragInvariant, FragTypes
<1>2. CASE ~InUse(s)
  <2>1. slot = [flags |-> {}, id |-> f.id, left |-> FRAG_TIMEOUT, list |-> <<>>]
    BY <1>2 DEF SlotOf
  <2>2. f.id \in Datagrams /\ FRAG_TIMEOUT \in Nat /\ <<>> \in Seq(Piece)
    BY SentFragment, FragAssumption
  <2> QED  BY <1>2, <2>1, <2>2 DEF SlotSet
<1> QED  BY <1>1, <1>2

LEMMA JoinParts ==
  ASSUME FragInvariant, NEW s \in Slots, NEW f \in Sent, Join(s, f)
  PROVE  \E slot, flags, list, m :
           /\ slot \in SlotSet
           /\ slot = SlotOf(s, f) /\ flags = FlagsWith(slot, f)
           /\ list = ListWith(slot, f) /\ m = ipv4_frag_merge(list)
           /\ StartTimer(s, f)
           /\ IF Complete(m, flags) THEN Delivers(s, m) ELSE KeepsFragment(s, slot, flags, m)
<1> DEFINE slot0 == IF InUse(s) THEN fragments[s]
                    ELSE [Unused EXCEPT !.id = f.id, !.left = FRAG_TIMEOUT]
<1>1. PICK slot : slot = slot0
  OBVIOUS
<1>2. slot = SlotOf(s, f)
  <2>1. PICK a, b : a = f.id /\ b = FRAG_TIMEOUT
    OBVIOUS
  <2>2. [Unused EXCEPT !.id = a, !.left = b] =
          [flags |-> {}, id |-> a, left |-> b, list |-> <<>>]
    <3>1. PICK u : u = [Unused EXCEPT !.id = a, !.left = b]
      OBVIOUS
    <3>2. u = [flags |-> {}, id |-> a, left |-> b, list |-> <<>>]
      BY <3>1 DEF Unused
    <3> QED  BY <3>1, <3>2
  <2> QED  BY <1>1, <2>1, <2>2 DEF SlotOf
<1>3. slot \in SlotSet
  BY <1>2, SlotOfType
<1>4. PICK flags, list, m :
        /\ flags = FlagsWith(slot, f) /\ list = ListWith(slot, f) /\ m = ipv4_frag_merge(list)
  OBVIOUS
<1>5. /\ StartTimer(s, f)
      /\ IF Complete(m, flags)
         THEN Delivers(s, m)
         ELSE /\ fragments' = [fragments EXCEPT
                   ![s] = [slot EXCEPT !.flags = flags, !.list = Outcome(m)]]
              /\ frag_lists' = frag_lists - 1 + m.freed
              /\ UNCHANGED delivered
  BY <1>1, <1>4, Zenon DEF Join, FlagsWith, ListWith, Complete, Delivers, Outcome
<1>6. PICK new : new = Outcome(m)
  OBVIOUS
<1>7. [slot EXCEPT !.flags = flags, !.list = new] =
        [flags |-> flags, id |-> slot.id, left |-> slot.left, list |-> new]
  <2>1. PICK a, b, c, d : slot = [flags |-> a, id |-> b, left |-> c, list |-> d]
    BY <1>3 DEF SlotSet
  <2>2. PICK u : u = [slot EXCEPT !.flags = flags, !.list = new]
    OBVIOUS
  <2>3. u = [flags |-> flags, id |-> b, left |-> c, list |-> new]
    BY <2>1, <2>2
  <2> QED  BY <2>1, <2>2, <2>3
<1>8. IF Complete(m, flags) THEN Delivers(s, m) ELSE KeepsFragment(s, slot, flags, m)
  BY <1>5, <1>6, <1>7 DEF KeepsFragment
<1> QED  BY <1>2, <1>3, <1>4, <1>5, <1>8

(* The list with the fragment in it.                                       *)
WithFragment(list, old, f) ==
  \E x \in Piece, p \in 1 .. Len(old) + 1 :
    /\ x = [off |-> f.off, data |-> f.data]
    /\ list \in Seq(Piece) /\ Len(list) = Len(old) + 1 /\ Len(old) \in Nat
    /\ \A i \in 1 .. Len(old) + 1 : list[i] =
         IF i < p THEN old[i] ELSE IF i = p THEN x ELSE old[i - 1]

LEMMA ListWithFragment ==
  ASSUME NEW slot \in SlotSet, NEW f \in Sent, NEW list, list = ListWith(slot, f)
  PROVE  WithFragment(list, slot.list, f)
<1>1. PICK x \in Piece : x = [off |-> f.off, data |-> f.data]
  BY SentFragment DEF Piece
<1>2. PICK old, later : /\ old \in Seq(Piece) /\ old = slot.list
                       /\ later = ipv4_frag_sort(slot.list, f.off)
  BY DEF SlotSet
<1>3. list = sll_insert(old, x, later)
  BY <1>1, <1>2 DEF ListWith
<1>4. PICK p \in 1 .. Len(old) + 1 :
        /\ Len(list) = Len(old) + 1 /\ Len(old) \in Nat
        /\ \A m \in 1 .. Len(old) + 1 : list[m] =
             IF m < p THEN old[m] ELSE IF m = p THEN x ELSE old[m - 1]
  <2>1. PICK X : X = Piece
    OBVIOUS
  <2>2. old \in Seq(X) /\ x \in X
    BY <1>2, <2>1
  <2>3. PICK p \in 1 .. Len(old) + 1 :
          /\ p <= Len(old) => old[p] \in later
          /\ Len(list) = Len(old) + 1 /\ Len(old) \in Nat
          /\ \A m \in 1 .. Len(old) + 1 :
               list[m] = IF m < p THEN old[m] ELSE IF m = p THEN x ELSE old[m - 1]
    BY <1>3, <2>2, SllInsertProperties
  <2> QED  BY <2>3
<1>5. list \in Seq(Piece)
  BY <1>2, <1>3, SllInsertMembers
<1>6. WithFragment(list, old, f)
  BY <1>1, <1>4, <1>5 DEF WithFragment
<1> QED  BY <1>2, <1>6

LEMMA StartTimerReaches ==
  ASSUME FragInvariant, NEW s \in Slots, NEW f \in Sent, StartTimer(s, f),
         NEW slot, slot = SlotOf(s, f)
  PROVE  /\ frag_timer' \in [enabled : BOOLEAN, left : Nat]
         /\ \A t \in Slots : t # s => Expires(frag_timer', fragments[t])
         /\ frag_timer'.enabled /\ frag_timer'.left <= slot.left
<1>1. /\ \A t \in Slots : Expires(frag_timer, fragments[t]) /\ fragments[t] \in SlotSet
      /\ frag_timer \in [enabled : BOOLEAN, left : Nat]
  BY DEF FragInvariant, FragTypes
<1>2. CASE InUse(s)
  <2>1. frag_timer' = frag_timer /\ slot = fragments[s]
    BY <1>2 DEF StartTimer, SlotOf
  <2> QED  BY <1>1, <1>2, <2>1 DEF Expires, InUse
<1>3. CASE ~InUse(s)
  <2>1. PICK fs : fs = [fragments EXCEPT ![s].flags = {"IN_USE"}, ![s].left = FRAG_TIMEOUT]
    OBVIOUS
  <2>2. frag_timer' = ipv4_fragment_update_timer(fs)
    BY <1>3, <2>1 DEF StartTimer
  <2>3. fragments \in [Slots -> SlotSet] /\ FRAG_TIMEOUT \in Nat
    BY FragAssumption DEF FragInvariant, FragTypes
  <2>4. /\ \A t \in Slots : t # s => fs[t] = fragments[t]
        /\ fs[s].flags = {"IN_USE"} /\ fs[s].left = FRAG_TIMEOUT
    <3>1. PICK g : g = [fragments[s] EXCEPT !.flags = {"IN_USE"}]
      OBVIOUS
    <3>2. PICK h : h = [g EXCEPT !.left = FRAG_TIMEOUT]
      OBVIOUS
    <3>3. fragments[s] \in SlotSet
      BY <2>3
    <3>4. h.flags = {"IN_USE"} /\ h.left = FRAG_TIMEOUT
      BY <3>1, <3>2, <3>3 DEF SlotSet
    <3>5. fs = [fragments EXCEPT ![s] = h]
      BY <2>1, <2>3, <3>1, <3>2
    <3> QED  BY <2>3, <3>4, <3>5
  <2>5. \A t \in Slots : fs[t].left \in Nat
    <3> TAKE t \in Slots
    <3>1. fragments[t].left \in Nat
      BY <2>3 DEF SlotSet
    <3> QED  BY <2>3, <2>4, <3>1
  <2>6. /\ frag_timer' \in [enabled : BOOLEAN, left : Nat]
        /\ \A t \in Slots : "IN_USE" \in fs[t].flags =>
             frag_timer'.enabled /\ frag_timer'.left <= fs[t].left
    BY <2>2, <2>5, FragTimerReaches
  <2>7. slot.left = FRAG_TIMEOUT
    BY <1>3, SlotOfType
  <2> QED  BY <1>1, <2>4, <2>6, <2>7 DEF Expires
<1> QED  BY <1>2, <1>3

LEMMA ListLengths ==
  ASSUME FragTypes
  PROVE  \A t \in Slots : fragments[t].list \in Seq(Piece) /\ Len(fragments[t].list) \in Nat
BY DEF FragTypes, SlotSet

(* What the parts of an action have to give.                               *)
FragmentsSound(fs, timer, lists) ==
  /\ fs \in [Slots -> SlotSet]
  /\ timer \in [enabled : BOOLEAN, left : Nat]
  /\ lists \in Nat
  /\ \A s \in Slots : Expires(timer, fs[s])
  /\ NumLists = lists + used_lists + ListsIn(fs, Slots)

LEMMA SoundInvariant ==
  ASSUME FragInvariant, FragmentsSound(fragments', frag_timer', frag_lists'),
         UNCHANGED used_lists, flying' \in [Sent -> Nat]
  PROVE  FragInvariant'
<1>1. PICK fs, timer, lists : fs = fragments' /\ timer = frag_timer' /\ lists = frag_lists'
  OBVIOUS
<1>2. /\ fs \in [Slots -> SlotSet] /\ timer \in [enabled : BOOLEAN, left : Nat] /\ lists \in Nat
      /\ \A s \in Slots : Expires(timer, fs[s])
      /\ NumLists = lists + used_lists + ListsIn(fs, Slots)
  BY <1>1 DEF FragmentsSound
<1>3. used_lists' = used_lists /\ used_lists \in Nat
  BY DEF FragInvariant, FragTypes
<1>4. FragTypes'
  BY <1>1, <1>2, <1>3 DEF FragTypes
<1>5. \A s \in Slots : Expires(frag_timer', fragments'[s])
  BY <1>1, <1>2
<1>6. NumLists = frag_lists' + used_lists' + ListsIn(fragments', Slots)
  BY <1>1, <1>2, <1>3
<1> QED  BY <1>4, <1>5, <1>6 DEF FragInvariant

LEMMA JoinSound ==
  ASSUME FragInvariant, NEW s \in Slots, NEW f \in Sent, frag_lists - 1 > FragThreshold,
         Join(s, f)
  PROVE  FragmentsSound(fragments', frag_timer', frag_lists')
<1>1. PICK slot, flags, list, m :
           /\ slot \in SlotSet
           /\ slot = SlotOf(s, f) /\ flags = FlagsWith(slot, f)
           /\ list = ListWith(slot, f) /\ m = ipv4_frag_merge(list)
           /\ StartTimer(s, f)
           /\ IF Complete(m, flags) THEN Delivers(s, m) ELSE KeepsFragment(s, slot, flags, m)
  BY JoinParts
<1>2. /\ slot.list \in Seq(Piece) /\ slot.left \in Nat /\ slot.id \in Datagrams \cup {0}
      /\ slot.flags \subseteq {"IN_USE", "HAVE_FIRST", "LAST_RCVD", "DROP"}
  BY <1>1 DEF SlotSet
<1>3. PICK k \in Nat : k = Len(slot.list) /\ list \in Seq(Piece) /\ Len(list) = k + 1
  BY <1>1, ListWithFragment DEF WithFragment
<1>4. PICK n \in Nat, r \in Nat : /\ m \in MergeSet /\ n = Len(m.merged) /\ r = m.freed
                                 /\ n + 1 + r = k + 1 /\ (~m.hole => n = 0)
  <2>1. list # <<>>
    <3>1. Len(<<>>) = 0
      OBVIOUS
    <3> QED  BY <1>3, <3>1
  <2>2. m \in MergeSet /\ MergedTo(list, Len(list), m)
    BY <1>1, <1>3, <2>1, MergeResult
  <2>3. Len(m.merged) \in Nat /\ m.freed \in Nat
    BY <2>2 DEF MergeSet
  <2>4. ~m.hole => Len(m.merged) = 0
    <3>1. Len(<<>>) = 0
      OBVIOUS
    <3> QED  BY <2>2, <3>1 DEF MergedTo
  <2> QED  BY <1>3, <2>2, <2>3, <2>4 DEF MergedTo
<1>5. /\ frag_timer' \in [enabled : BOOLEAN, left : Nat]
      /\ \A t \in Slots : t # s => Expires(frag_timer', fragments[t])
      /\ frag_timer'.enabled /\ frag_timer'.left <= slot.left
  BY <1>1, StartTimerReaches
<1>6. Len(fragments[s].list) = k
  <2>1. CASE InUse(s)
    BY <1>1, <1>3, <2>1, SlotOfType
  <2>2. CASE ~InUse(s)
    <3>1. fragments[s] = Unused /\ slot.list = <<>>
      BY <1>1, <2>2, SlotOfType DEF FragInvariant, Expires, InUse
    <3> QED  BY <1>3, <3>1, UnusedSlot
  <2> QED  BY <2>1, <2>2
<1>7. PICK lists \in Nat, held \in Nat, used \in Nat :
        /\ lists = frag_lists /\ held = ListsIn(fragments, Slots) /\ used = used_lists
        /\ NumLists = lists + used + held /\ lists >= 1
  <2>1. ListsIn(fragments, Slots) \in Nat
    BY ListLengths, ListsNat DEF FragInvariant
  <2>2. FragThreshold \in Nat
    BY FragAssumption
  <2> QED  BY <2>1, <2>2 DEF FragInvariant, FragTypes
<1>8. ASSUME NEW c \in Nat, Len(fragments'[s].list) = c,
             \A t \in Slots : t # s => fragments'[t] = fragments[t]
      PROVE  ListsIn(fragments', Slots) = held - k + c
  <2>1. PICK gs : gs = fragments'
    OBVIOUS
  <2>2. Len(gs[s].list) = c /\ \A t \in Slots : t # s => gs[t].list = fragments[t].list
    BY <1>8, <2>1
  <2>3. ListsIn(gs, Slots) = ListsIn(fragments, Slots) - Len(fragments[s].list) + Len(gs[s].list)
    BY <2>2, ListLengths, ListsChange DEF FragInvariant
  <2> QED  BY <1>6, <1>7, <2>1, <2>2, <2>3
<1>9. fragments \in [Slots -> SlotSet]
  BY DEF FragInvariant, FragTypes
<1>10. CASE Complete(m, flags)
  <2>1. Delivers(s, m)
    BY <1>1, <1>10
  <2>2. fragments' = [fragments EXCEPT ![s] = Unused] /\ frag_lists' = lists + r
    BY <1>4, <1>7, <2>1 DEF Delivers
  <2>3. ListsIn(fragments', Slots) = held - k + 0
    <3>1. Len(Unused.list) = 0
      BY UnusedSlot
    <3>2. fragments'[s] = Unused /\ \A t \in Slots : t # s => fragments'[t] = fragments[t]
      BY <1>9, <2>2
    <3> QED  BY <1>8, <3>1, <3>2
  <2>4. r = k
    BY <1>4, <1>10 DEF Complete
  <2>5. NumLists = frag_lists' + used + ListsIn(fragments', Slots)
    <3>1. lists + used + held = (lists + k) + used + (held - k + 0)
      OBVIOUS
    <3> QED  BY <1>7, <2>2, <2>3, <2>4, <3>1
  <2>6. fragments' \in [Slots -> SlotSet] /\ frag_lists' \in Nat
    BY <1>9, <2>2, UnusedSlot
  <2>7. \A t \in Slots : Expires(frag_timer', fragments'[t])
    <3> TAKE t \in Slots
    <3>1. CASE t = s
      BY <1>9, <2>2, <3>1, UnusedSlot DEF Expires
    <3>2. CASE t # s
      BY <1>5, <1>9, <2>2, <3>2
    <3> QED  BY <3>1, <3>2
  <2> QED  BY <1>5, <1>7, <2>5, <2>6, <2>7 DEF FragmentsSound
<1>11. CASE ~Complete(m, flags)
  <2>1. KeepsFragment(s, slot, flags, m)
    BY <1>1, <1>11
  <2>2. PICK e : e = [flags |-> flags, id |-> slot.id, left |-> slot.left, list |-> Outcome(m)]
    OBVIOUS
  <2>3. Outcome(m) \in Seq(Piece) /\ Len(Outcome(m)) = n + 1
    BY <1>4, OutcomeParts
  <2>4. flags \subseteq {"IN_USE", "HAVE_FIRST", "LAST_RCVD", "DROP"} /\ "IN_USE" \in flags
    BY <1>1, <1>2 DEF FlagsWith
  <2>5. e \in SlotSet /\ e.list = Outcome(m) /\ e.flags = flags /\ e.left = slot.left
    BY <1>2, <2>2, <2>3, <2>4 DEF SlotSet
  <2>6. fragments' = [fragments EXCEPT ![s] = e] /\ frag_lists' = lists - 1 + r
    BY <1>4, <1>7, <2>1, <2>2 DEF KeepsFragment
  <2>7. ListsIn(fragments', Slots) = held - k + (n + 1)
    <3>1. fragments'[s] = e /\ \A t \in Slots : t # s => fragments'[t] = fragments[t]
      BY <1>9, <2>6
    <3>2. PICK c \in Nat : c = n + 1
      OBVIOUS
    <3> QED  BY <1>8, <2>3, <2>5, <3>1, <3>2
  <2>8. NumLists = frag_lists' + used + ListsIn(fragments', Slots)
    <3>1. k = n + r
      BY <1>4
    <3>2. lists + used + held = (lists - 1 + r) + used + (held - (n + r) + (n + 1))
      OBVIOUS
    <3> QED  BY <1>7, <2>6, <2>7, <3>1, <3>2
  <2>9. fragments' \in [Slots -> SlotSet] /\ frag_lists' \in Nat
    BY <1>7, <1>9, <2>5, <2>6
  <2>10. \A t \in Slots : Expires(frag_timer', fragments'[t])
    <3> TAKE t \in Slots
    <3>1. CASE t = s
      <4>1. fragments'[t] = e
        BY <1>9, <2>6, <3>1
      <4> QED  BY <1>5, <2>4, <2>5, <4>1 DEF Expires
    <3>2. CASE t # s
      BY <1>5, <1>9, <2>6, <3>2
    <3> QED  BY <3>1, <3>2
  <2> QED  BY <1>5, <1>7, <2>8, <2>9, <2>10 DEF FragmentsSound
<1> QED  BY <1>10, <1>11

(* Slots that give their lists back, with the timer set anew.              *)
LEMMA GivenSound ==
  ASSUME FragInvariant, NEW used \in SUBSET Slots, NEW fs \in [Slots -> SlotSet],
         \A s \in Slots : fs[s].list = IF s \in used THEN <<>> ELSE fragments[s].list,
         \A s \in Slots : "IN_USE" \notin fs[s].flags => fs[s] = Unused
  PROVE  FragmentsSound(fs, ipv4_fragment_update_timer(fs), frag_lists + ListsIn(fragments, used))
<1>1. PICK timer : timer = ipv4_fragment_update_timer(fs)
  OBVIOUS
<1>2. \A s \in Slots : fs[s].left \in Nat
  BY DEF SlotSet
<1>3. /\ timer \in [enabled : BOOLEAN, left : Nat]
      /\ \A s \in Slots : "IN_USE" \in fs[s].flags => timer.enabled /\ timer.left <= fs[s].left
  BY <1>1, <1>2, FragTimerReaches
<1>4. \A s \in Slots : Expires(timer, fs[s])
  BY <1>3 DEF Expires
<1>5. /\ ListsIn(fragments, Slots) = ListsIn(fs, Slots) + ListsIn(fragments, used)
      /\ ListsIn(fragments, Slots) \in Nat /\ ListsIn(fragments, used) \in Nat
      /\ ListsIn(fs, Slots) \in Nat
  <2>1. \A s \in Slots : Len(fragments[s].list) \in Nat
    BY ListLengths DEF FragInvariant
  <2>2. \A s \in Slots : Len(fs[s].list) \in Nat
    BY DEF SlotSet
  <2> QED  BY <2>1, <2>2, ListsGiven, ListsNat
<1>6. frag_lists \in Nat /\ used_lists \in Nat
      /\ NumLists = frag_lists + used_lists + ListsIn(fragments, Slots)
  BY DEF FragInvariant, FragTypes
<1>7. PICK lists, a, b, c \in Nat : /\ lists = frag_lists /\ a = ListsIn(fs, Slots)
                                   /\ b = ListsIn(fragments, used) /\ c = used_lists
  BY <1>5, <1>6
<1>8. NumLists = (lists + b) + c + a
  <2>1. lists + c + (a + b) = (lists + b) + c + a
    OBVIOUS
  <2> QED  BY <1>5, <1>6, <1>7, <2>1
<1>9. lists + b \in Nat
  OBVIOUS
<1> QED  BY <1>1, <1>3, <1>4, <1>7, <1>8, <1>9 DEF FragmentsSound

LEMMA DropAllSound ==
  ASSUME FragInvariant, NEW s \in Slots, DropAll(s)
  PROVE  /\ FragmentsSound(fragments', frag_timer', frag_lists')
         /\ \A u \in Slots :
              IF InUse(u) THEN fragments'[u].list = <<>> /\ "DROP" \in fragments'[u].flags
              ELSE fragments'[u] = fragments[u]
<1>1. PICK used : used = {u \in Slots : InUse(u)}
  OBVIOUS
<1>2. PICK dropped : dropped = [u \in Slots |->
        IF u \in used THEN [fragments[u] EXCEPT !.list = <<>>, !.flags = @ \cup {"DROP"}]
        ELSE fragments[u]]
  OBVIOUS
<1>3. /\ fragments' = IF s \in used
                      THEN [dropped EXCEPT ![s].left = FRAG_DROP_TIMEOUT] ELSE dropped
      /\ frag_timer' = ipv4_fragment_update_timer(fragments')
      /\ frag_lists' = frag_lists + ListsIn(fragments, used)
  BY <1>1, <1>2, Zenon DEF DropAll
<1>4. \A u \in Slots : /\ fragments[u] \in SlotSet
                       /\ "IN_USE" \notin fragments[u].flags => fragments[u] = Unused
  BY DEF FragInvariant, FragTypes, Expires
<1>5. \A u \in used : /\ dropped[u] \in SlotSet /\ dropped[u].list = <<>>
                      /\ {"IN_USE", "DROP"} \subseteq dropped[u].flags
  <2> TAKE u \in used
  <2>1. PICK a, b, c, d : /\ fragments[u] = [flags |-> a, id |-> b, left |-> c, list |-> d]
                          /\ a \subseteq {"IN_USE", "HAVE_FIRST", "LAST_RCVD", "DROP"}
                          /\ b \in Datagrams \cup {0} /\ c \in Nat
                          /\ "IN_USE" \in a
    BY <1>1, <1>4 DEF SlotSet, InUse
  <2>2. dropped[u] = [fragments[u] EXCEPT !.list = <<>>, !.flags = @ \cup {"DROP"}]
    BY <1>1, <1>2
  <2>3. PICK g : g = a \cup {"DROP"}
    OBVIOUS
  <2>4. dropped[u] = [flags |-> g, id |-> b, left |-> c, list |-> <<>>]
    <3>1. PICK z, l : z = fragments[u] /\ l = <<>>
      OBVIOUS
    <3>2. z = [flags |-> a, id |-> b, left |-> c, list |-> d] /\ z.flags \cup {"DROP"} = g
      BY <2>1, <2>3, <3>1
    <3>3. dropped[u] = [z EXCEPT !.list = l, !.flags = g]
      BY <2>2, <3>1, <3>2
    <3>4. dropped[u] = [flags |-> g, id |-> b, left |-> c, list |-> l]
      BY ONLY <3>2, <3>3
    <3> QED  BY <3>1, <3>4
  <2>5. <<>> \in Seq(Piece) /\ g \subseteq {"IN_USE", "HAVE_FIRST", "LAST_RCVD", "DROP"}
        /\ {"IN_USE", "DROP"} \subseteq g
    BY <2>1, <2>3
  <2> QED  BY <2>1, <2>4, <2>5 DEF SlotSet
<1>6. dropped \in [Slots -> SlotSet]
  BY <1>2, <1>4, <1>5
<1>7. PICK fs : fs = fragments'
  OBVIOUS
<1>8. /\ fs \in [Slots -> SlotSet]
      /\ \A u \in Slots : fs[u].list = dropped[u].list /\ fs[u].flags = dropped[u].flags
      /\ \A u \in Slots : u \notin used => fs[u] = dropped[u]
  <2>1. CASE s \in used
    <3>1. PICK e : e = [dropped[s] EXCEPT !.left = FRAG_DROP_TIMEOUT]
      OBVIOUS
    <3>2. e \in SlotSet /\ e.list = dropped[s].list /\ e.flags = dropped[s].flags
      BY <1>6, <3>1, FragAssumption DEF SlotSet
    <3>3. fs = [dropped EXCEPT ![s] = e]
      BY <1>3, <1>7, <2>1, <3>1
    <3> QED  BY <1>6, <2>1, <3>2, <3>3
  <2>2. CASE s \notin used
    BY <1>3, <1>6, <1>7, <2>2
  <2> QED  BY <2>1, <2>2
<1>9. \A u \in Slots : fs[u].list = IF u \in used THEN <<>> ELSE fragments[u].list
  BY <1>2, <1>5, <1>8
<1>10. \A u \in Slots : "IN_USE" \notin fs[u].flags => fs[u] = Unused
  <2> TAKE u \in Slots
  <2>1. CASE u \in used
    BY <1>5, <1>8, <2>1
  <2>2. CASE u \notin used
    BY <1>2, <1>4, <1>8, <2>2
  <2> QED  BY <2>1, <2>2
<1>11. used \in SUBSET Slots
  BY <1>1
<1>12. FragmentsSound(fs, ipv4_fragment_update_timer(fs), frag_lists + ListsIn(fragments, used))
  BY <1>8, <1>9, <1>10, <1>11, GivenSound
<1>13. \A u \in Slots :
         IF InUse(u) THEN fs[u].list = <<>> /\ "DROP" \in fs[u].flags ELSE fs[u] = fragments[u]
  <2> TAKE u \in Slots
  <2>1. CASE InUse(u)
    BY <1>1, <1>5, <1>8, <2>1
  <2>2. CASE ~InUse(u)
    BY <1>1, <1>2, <1>8, <2>2
  <2> QED  BY <2>1, <2>2
<1> QED  BY <1>3, <1>7, <1>12, <1>13

LEMMA ExpiredSound ==
  ASSUME FragInvariant, ipv4_fragment_expired
  PROVE  FragmentsSound(fragments', frag_timer', frag_lists')
<1>1. PICK expired \in SUBSET Slots : expired = {s \in Slots : InUse(s) /\ fragments[s].left = 0}
  OBVIOUS
<1>2. /\ fragments' = [s \in Slots |-> IF s \in expired THEN Unused ELSE fragments[s]]
      /\ frag_lists' = frag_lists + ListsIn(fragments, expired)
      /\ frag_timer' = ipv4_fragment_update_timer(fragments')
  BY <1>1, Zenon DEF ipv4_fragment_expired
<1>3. PICK fs : fs = fragments'
  OBVIOUS
<1>4. \A s \in Slots : fragments[s] \in SlotSet
                       /\ ("IN_USE" \notin fragments[s].flags => fragments[s] = Unused)
  BY DEF FragInvariant, FragTypes, Expires
<1>5. /\ fs \in [Slots -> SlotSet]
      /\ \A s \in Slots : fs[s].list = IF s \in expired THEN <<>> ELSE fragments[s].list
      /\ \A s \in Slots : "IN_USE" \notin fs[s].flags => fs[s] = Unused
  BY <1>2, <1>3, <1>4, UnusedSlot
<1>6. FragmentsSound(fs, ipv4_fragment_update_timer(fs), frag_lists + ListsIn(fragments, expired))
  BY <1>5, GivenSound
<1> QED  BY <1>2, <1>3, <1>6

LEMMA TickSound ==
  ASSUME FragInvariant, FragTick
  PROVE  /\ FragmentsSound(fragments', frag_timer', frag_lists')
         /\ \A s \in Slots : /\ fragments'[s].flags = fragments[s].flags
                             /\ fragments'[s].id = fragments[s].id
                             /\ fragments'[s].list = fragments[s].list
<1>1. /\ fragments' = [s \in Slots |-> [fragments[s] EXCEPT !.left = Less(@)]]
      /\ frag_timer' = [frag_timer EXCEPT !.left = Less(@)] /\ frag_lists' = frag_lists
  BY DEF FragTick
<1>2. PICK fs, timer : fs = fragments' /\ timer = frag_timer'
  OBVIOUS
<1>3. \A n \in Nat : Less(n) \in Nat /\ \A m \in Nat : n <= m => Less(n) <= Less(m)
  BY DEF Less
<1>4. /\ \A s \in Slots : fragments[s] \in SlotSet /\ Expires(frag_timer, fragments[s])
      /\ frag_timer \in [enabled : BOOLEAN, left : Nat]
      /\ frag_lists \in Nat /\ used_lists \in Nat
      /\ NumLists = frag_lists + used_lists + ListsIn(fragments, Slots)
  BY DEF FragInvariant, FragTypes
<1>5. timer \in [enabled : BOOLEAN, left : Nat] /\ timer.enabled = frag_timer.enabled
      /\ timer.left = Less(frag_timer.left)
  <2>1. PICK l \in Nat : l = Less(frag_timer.left)
    BY <1>3, <1>4
  <2>2. timer = [frag_timer EXCEPT !.left = l]
    BY <1>1, <1>2, <2>1
  <2> QED  BY <1>4, <2>1, <2>2
<1>6. \A s \in Slots : /\ fs[s] \in SlotSet /\ fs[s].flags = fragments[s].flags
                       /\ fs[s].id = fragments[s].id
                       /\ fs[s].list = fragments[s].list /\ fs[s].left = Less(fragments[s].left)
                       /\ fragments[s] = Unused => fs[s] = Unused
  <2> TAKE s \in Slots
  <2>1. PICK a, b, c, d : /\ fragments[s] = [flags |-> a, id |-> b, left |-> c, list |-> d]
                          /\ c \in Nat
    BY <1>4 DEF SlotSet
  <2>2. PICK l \in Nat : l = Less(c)
    BY <1>3, <2>1
  <2>3. fs[s] = [fragments[s] EXCEPT !.left = l]
    BY <1>1, <1>2, <2>1, <2>2
  <2>4. fs[s] = [flags |-> a, id |-> b, left |-> l, list |-> d]
    BY <2>1, <2>3
  <2>5. fs[s] \in SlotSet
    BY <1>4, <2>1, <2>4 DEF SlotSet
  <2>6. ASSUME fragments[s] = Unused
        PROVE  fs[s] = Unused
    <3>1. c = 0
      BY <2>1, <2>6, UnusedSlot
    <3>2. l = c
      BY <2>2, <3>1 DEF Less
    <3> QED  BY <2>1, <2>4, <2>6, <3>2
  <2> QED  BY <2>1, <2>2, <2>4, <2>5, <2>6
<1>7. fs \in [Slots -> SlotSet]
  <2>1. PICK g : g = [s \in Slots |-> [fragments[s] EXCEPT !.left = Less(@)]]
    OBVIOUS
  <2>2. fs = [s \in Slots |-> g[s]]
    BY <1>1, <1>2, <2>1
  <2> QED  BY <1>6, <2>2
<1>8. \A s \in Slots : Expires(timer, fs[s])
  <2> TAKE s \in Slots
  <2>1. CASE "IN_USE" \in fs[s].flags
    <3>1. frag_timer.enabled /\ frag_timer.left <= fragments[s].left
      BY <1>4, <1>6, <2>1 DEF Expires
    <3>2. frag_timer.left \in Nat /\ fragments[s].left \in Nat
      BY <1>4 DEF SlotSet
    <3>3. PICK x, y \in Nat : x = frag_timer.left /\ y = fragments[s].left /\ x <= y
      BY <3>1, <3>2
    <3>4. Less(x) <= Less(y)
      BY <1>3, <3>3
    <3> QED  BY <1>5, <1>6, <2>1, <3>1, <3>3, <3>4 DEF Expires
  <2>2. CASE "IN_USE" \notin fs[s].flags
    BY <1>4, <1>6, <2>2 DEF Expires
  <2> QED  BY <2>1, <2>2
<1>9. ListsIn(fs, Slots) = ListsIn(fragments, Slots)
  <2>1. \A s \in Slots : Len(fragments[s].list) \in Nat
    BY ListLengths DEF FragInvariant
  <2>2. \A s \in Slots : Len(fs[s].list) = Len(fragments[s].list)
    BY <1>6
  <2> QED  BY <2>1, <2>2, ListsSame
<1> QED  BY <1>1, <1>2, <1>4, <1>5, <1>6, <1>7, <1>8, <1>9 DEF FragmentsSound

LEMMA StaySound ==
  ASSUME FragInvariant
  PROVE  FragmentsSound(fragments, frag_timer, frag_lists)
BY DEF FragInvariant, FragTypes, FragmentsSound

LEMMA FragAddSound ==
  ASSUME FragInvariant, NEW f \in Sent, ipv4_frag_add(f)
  PROVE  FragmentsSound(fragments', frag_timer', frag_lists')
<1>1. CASE UNCHANGED <<fragments, frag_timer, frag_lists, delivered>>
  BY <1>1, StaySound
<1>2. PICK s : s = SlotFor(f.id)
  OBVIOUS
<1>3. CASE Lookup(f.id) \cup FreeSlots # {}
  <2>1. s \in Slots
    BY <1>2, <1>3, SlotForDatagram
  <2> QED  BY <1>1, <1>2, <1>3, <2>1, DropAllSound, JoinSound DEF ipv4_frag_add
<1> QED  BY <1>1, <1>3 DEF ipv4_frag_add

LEMMA ProcessKeeps ==
  ASSUME FragInvariant, NEW f \in DOMAIN flying, net_process_ipv4(f)
  PROVE  FragInvariant'
<1>1. f \in Sent /\ flying \in [Sent -> Nat]
  BY DEF FragInvariant, FragTypes
<1>2. flying' = [flying EXCEPT ![f] = @ - 1] /\ flying[f] > 0 /\ UNCHANGED used_lists
  BY DEF net_process_ipv4
<1>3. flying' \in [Sent -> Nat]
  BY <1>1, <1>2
<1>4. FragmentsSound(fragments', frag_timer', frag_lists')
  <2>1. CASE ipv4_frag_add(f)
    BY <1>1, <2>1, FragAddSound
  <2>2. CASE UNCHANGED <<fragments, frag_timer, frag_lists>>
    BY <2>2, StaySound
  <2> QED  BY <2>1, <2>2 DEF net_process_ipv4
<1> QED  BY <1>2, <1>3, <1>4, SoundInvariant

LEMMA OtherListsKeep ==
  ASSUME FragInvariant, UseList \/ ReturnList
  PROVE  FragInvariant'
<1>1. /\ UNCHANGED <<flying, fragments, frag_timer>>
      /\ \/ frag_lists > 0 /\ frag_lists' = frag_lists - 1 /\ used_lists' = used_lists + 1
         \/ used_lists > 0 /\ frag_lists' = frag_lists + 1 /\ used_lists' = used_lists - 1
  BY DEF UseList, ReturnList
<1>2. PICK a, b, c \in Nat : a = frag_lists /\ b = used_lists /\ c = ListsIn(fragments, Slots)
  BY ListLengths, ListsNat DEF FragInvariant, FragTypes
<1>3. frag_lists' \in Nat /\ used_lists' \in Nat /\ frag_lists' + used_lists' = a + b
  BY <1>1, <1>2
<1>4. ListsIn(fragments', Slots) = c
  BY <1>1, <1>2
<1>5. NumLists = a + b + c
  BY <1>2 DEF FragInvariant
<1>6. NumLists = frag_lists' + used_lists' + ListsIn(fragments', Slots)
  BY <1>3, <1>4, <1>5
<1> QED  BY <1>1, <1>3, <1>6 DEF FragInvariant, FragTypes

LEMMA FragInitial == FragInit => FragInvariant
<1> SUFFICES ASSUME FragInit PROVE FragInvariant
  OBVIOUS
<1>1. /\ flying = [f \in Sent |-> MaxCopies] /\ fragments = [s \in Slots |-> Unused]
      /\ frag_timer = [enabled |-> FALSE, left |-> 0] /\ frag_lists = NumLists /\ used_lists = 0
  BY DEF FragInit, Sent
<1>2. MaxCopies \in Nat /\ NumLists \in Nat
  BY FragAssumption
<1>3. FragTypes
  BY <1>1, <1>2, UnusedSlot DEF FragTypes
<1>4. \A s \in Slots : Expires(frag_timer, fragments[s])
  BY <1>1, UnusedSlot DEF Expires
<1>5. ListsIn(fragments, Slots) = 0
  <2>1. PICK fs : fs = fragments /\ \A s \in Slots : Len(fs[s].list) = 0
    <3>1. Len(<<>>) = 0
      OBVIOUS
    <3> QED  BY <1>1, <3>1, UnusedSlot
  <2>2. PICK w : w = Held(fs, Slots) /\ Adds(w, Walk, ListsIn(fs, Slots))
    BY <2>1, ListsAdd
  <2>3. \A s \in Slots : w[s] = 0
    BY <2>1, <2>2 DEF Held
  <2>4. PICK n, e : /\ n \in Nat /\ n = NumFragments /\ e[0] = 0 /\ e[n] = ListsIn(fs, Slots)
              /\ \A i \in 1 .. n : e[i] = e[i - 1] + w[Walk[i]]
    <3>1. PICK e : IsSum(e, w, Walk, Len(Walk), ListsIn(fs, Slots))
      BY <2>2 DEF Adds
    <3>2. PICK n : n \in Nat /\ n = NumFragments
      BY FragAssumption
    <3>3. n = Len(Walk)
      BY <3>2, WalkList
    <3> QED  BY <3>1, <3>2, <3>3 DEF IsSum
  <2>5. \A i \in 1 .. n : e[i] = e[i - 1] + 0
    BY <2>3, <2>4, WalkList DEF Slots
  <2> DEFINE S == {i \in Nat : i <= n => e[i] = 0}
  <2>6. 0 \in S
    BY <2>4
  <2>7. ASSUME NEW i \in Nat, i \in S
        PROVE  i + 1 \in S
    BY <2>4, <2>5, <2>7
  <2> HIDE DEF S
  <2>8. Nat \subseteq S
    BY <2>6, <2>7, SetInduction
  <2>9. n \in S
    BY <2>4, <2>8
  <2> QED  BY <2>1, <2>4, <2>9 DEF S
<1> QED  BY <1>1, <1>2, <1>3, <1>4, <1>5 DEF FragInvariant

LEMMA FragStep == FragInvariant /\ [FragNext]_fragVars => FragInvariant'
<1> SUFFICES ASSUME FragInvariant, [FragNext]_fragVars
             PROVE  FragInvariant'
  OBVIOUS
<1>1. CASE UNCHANGED fragVars
  BY <1>1 DEF fragVars, FragInvariant, FragTypes
<1>2. CASE ipv4_fragment_expired
  BY <1>2, ExpiredSound, SoundInvariant DEF ipv4_fragment_expired, FragInvariant, FragTypes
<1>3. CASE FragTick
  BY <1>3, TickSound, SoundInvariant DEF FragTick, FragInvariant, FragTypes
<1> QED  BY <1>1, <1>2, <1>3, ProcessKeeps, OtherListsKeep DEF FragNext

(* FragmentsExpire, for any number of datagrams, fragment lists and        *)
(* buffer lists, and any timeouts: ipv4_fragment_update_timer reaches      *)
(* every fragment list in use, and no path of ipv4_frag_add or of          *)
(* ipv4_fragment_expired loses a buffer list.                              *)
THEOREM FragmentsAlwaysExpire == FragSpec => []FragmentsExpire
<1>1. FragInvariant => FragmentsExpire
  BY DEF FragInvariant, FragmentsExpire, Expires, InUse
<1> QED  BY <1>1, FragInitial, FragStep, PTL DEF FragSpec

----------------------------------------------------------------------------
(* Reassembly, when no fragment is delivered twice.                        *)

(* The fragment of d at off came, and comes no more.                       *)
Arrived(fl, d, off) == Fragment(d, off) \in DOMAIN fl /\ fl[Fragment(d, off)] = 0

(* What the flags say of a run.                                            *)
FlagsFit(flags, d, x) ==
  /\ "HAVE_FIRST" \in flags => x.off = 0
  /\ "LAST_RCVD" \in flags => x.off + Len(x.data) = Length[d]

(* The fragments of a list came, each once.  A list of one is a run; what  *)
(* ipv4_frag_merge leaves of a longer one need not be, and stays longer.   *)
CameOnce(fl, d, flags, list) ==
  /\ \A i \in 1 .. Len(list) : Arrived(fl, d, list[i].off)
  /\ DistinctOffs(list)
  /\ Len(list) = 1 => IsRun(d, list[1].off, list[1].data) /\ FlagsFit(flags, d, list[1])
SlotOnce(fl, e) ==
  /\ "IN_USE" \in e.flags /\ "DROP" \notin e.flags => e.list # <<>>
  /\ CameOnce(fl, e.id, e.flags, e.list)

OnceInvariant ==
  /\ FragInvariant /\ ReassembledExact
  /\ \A f \in Sent : flying[f] <= 1
  /\ \A s \in Slots : SlotOnce(flying, fragments[s])

LEMMA EmptyOnce ==
  ASSUME NEW fl, NEW d, NEW flags
  PROVE  CameOnce(fl, d, flags, <<>>)
<1>1. Len(<<>>) = 0
  OBVIOUS
<1>2. PICK l : l = <<>> /\ Len(l) = 0
  BY <1>1
<1>3. CameOnce(fl, d, flags, l)
  BY <1>2 DEF CameOnce, DistinctOffs
<1> QED  BY <1>2, <1>3

(* What came stays so.                                                     *)
LEMMA OnceLater ==
  ASSUME NEW fl, NEW gl, DOMAIN gl = DOMAIN fl, \A f \in DOMAIN fl : fl[f] = 0 => gl[f] = 0,
         NEW d, NEW flags, NEW list, CameOnce(fl, d, flags, list)
  PROVE  CameOnce(gl, d, flags, list)
BY DEF CameOnce, Arrived

LEMMA UnitsJoin ==
  ASSUME NEW d \in Datagrams, NEW off \in Nat, NEW m \in Nat, NEW n \in Nat, NEW o \in Nat,
         o = off + m, NEW k \in Nat, k = m + n,
         NEW r, r = Joined(Units(d, off, m), Units(d, o, n))
  PROVE  r = Units(d, off, k)
<1>1. PICK u : /\ u = Units(d, off, m) /\ u \in Seq(Octets) /\ Len(u) = m
               /\ \A i \in 1 .. m : u[i] = Octet(d, off, i)
  BY UnitsRun
<1>2. PICK v : /\ v = Units(d, o, n) /\ v \in Seq(Octets) /\ Len(v) = n
               /\ \A i \in 1 .. n : v[i] = Octet(d, o, i)
  BY UnitsRun
<1>3. PICK w : /\ w = Units(d, off, k) /\ w \in Seq(Octets) /\ Len(w) = k
               /\ \A i \in 1 .. k : w[i] = Octet(d, off, i)
  BY UnitsRun
<1>4. /\ r \in Seq(Octets) /\ Len(r) = k
      /\ \A i \in 1 .. k : r[i] = IF i <= m THEN u[i] ELSE v[i - m]
  <2>1. PICK X : X = Octets
    OBVIOUS
  <2>2. u \in Seq(X) /\ v \in Seq(X) /\ r = u \o v
    BY <1>1, <1>2, <2>1 DEF Joined
  <2>3. /\ r \in Seq(X) /\ Len(r) = Len(u) + Len(v)
        /\ \A i \in 1 .. Len(u) + Len(v) : r[i] = IF i <= Len(u) THEN u[i] ELSE v[i - Len(u)]
    BY ONLY <2>2, ConcatProperties
  <2> QED  BY <1>1, <1>2, <2>1, <2>3
<1>5. \A i \in 1 .. k : r[i] = w[i]
  <2> TAKE i \in 1 .. k
  <2>1. CASE i <= m
    BY <1>1, <1>3, <1>4, <2>1
  <2>2. CASE i > m
    <3>1. PICK j \in 1 .. n : j = i - m
      BY <2>2
    <3>2. Octet(d, o, j) = Octet(d, off, i)
      <4>1. o + j - 1 = off + i - 1
        BY <3>1
      <4> QED  BY <4>1 DEF Octet
    <3>3. r[i] = v[j]
      BY <1>4, <2>2, <3>1
    <3>4. v[j] = Octet(d, o, j) /\ w[i] = Octet(d, off, i)
      BY <1>2, <1>3
    <3> QED  BY <3>2, <3>3, <3>4
  <2> QED  BY <2>1, <2>2
<1>6. r = w
  BY ONLY k \in Nat, <1>3, <1>4, <1>5
<1> QED  BY <1>3, <1>6

LEMMA JoinedRun ==
  ASSUME NEW d \in Datagrams, NEW x \in Piece, NEW y \in Piece,
         IsRun(d, x.off, x.data), IsRun(d, y.off, y.data), y.off = x.off + Len(x.data),
         NEW data, data = Joined(x.data, y.data)
  PROVE  IsRun(d, x.off, data) /\ Len(data) = Len(x.data) + Len(y.data)
<1>1. PICK off \in Nat, m \in Nat, n \in Nat, len \in Nat :
        /\ off = x.off /\ m = Len(x.data) /\ n = Len(y.data) /\ len = Length[d]
  <2>1. x.off \in Nat /\ x.data \in Seq(Datagrams \X Nat) /\ y.data \in Seq(Datagrams \X Nat)
    BY DEF Piece
  <2>2. Length[d] \in Nat
    BY FragAssumption
  <2>3. Len(x.data) \in Nat /\ Len(y.data) \in Nat
    BY <2>1
  <2> QED  BY <2>1, <2>2, <2>3
<1>2. PICK o \in Nat, k \in Nat : o = off + m /\ k = m + n
  OBVIOUS
<1>3. /\ y.off = o /\ m >= 1 /\ n >= 1 /\ o + n <= len
      /\ x.data = Units(d, off, m) /\ y.data = Units(d, o, n)
  BY <1>1, <1>2 DEF IsRun
<1>4. data = Units(d, off, k)
  BY <1>2, <1>3, UnitsJoin
<1>5. Len(data) = k
  BY <1>4, UnitsRun
<1>6. k >= 1 /\ off + k <= len
  BY <1>2, <1>3
<1> QED  BY <1>1, <1>2, <1>4, <1>5, <1>6 DEF IsRun

(* A whole run is the datagram.                                            *)
LEMMA RunIsWhole ==
  ASSUME NEW d, NEW x, IsRun(d, x.off, x.data), x.off = 0, x.off + Len(x.data) = Length[d],
         Len(x.data) \in Nat
  PROVE  x.data = Whole(d)
<1>1. Len(x.data) = Length[d]
  OBVIOUS
<1> QED  BY <1>1 DEF IsRun, Whole

(* The run that a fragment makes with the one fragment of its list.        *)
LEMMA PairRun ==
  ASSUME NEW d \in Datagrams, NEW flags, NEW x \in Piece, NEW y \in Piece, NEW last,
         IsRun(d, x.off, x.data), IsRun(d, y.off, y.data), y.off = x.off + Len(x.data),
         "HAVE_FIRST" \in flags => x.off = 0 \/ y.off = 0,
         "LAST_RCVD" \in flags => \/ x.off + Len(x.data) = Length[d]
                                  \/ y.off + Len(y.data) = Length[d],
         last = [off |-> x.off, data |-> Joined(x.data, y.data)]
  PROVE  IsRun(d, last.off, last.data) /\ FlagsFit(flags, d, last)
<1>1. PICK data : data = Joined(x.data, y.data)
  OBVIOUS
<1>2. IsRun(d, x.off, data) /\ Len(data) = Len(x.data) + Len(y.data)
  BY <1>1, JoinedRun
<1>3. last.off = x.off /\ last.data = data
  BY <1>1
<1>4. PICK off \in Nat, m \in Nat, n \in Nat, len \in Nat :
        /\ off = x.off /\ m = Len(x.data) /\ n = Len(y.data) /\ len = Length[d]
  <2>1. x.off \in Nat /\ x.data \in Seq(Datagrams \X Nat) /\ y.data \in Seq(Datagrams \X Nat)
    BY DEF Piece
  <2>2. Length[d] \in Nat
    BY FragAssumption
  <2>3. Len(x.data) \in Nat /\ Len(y.data) \in Nat
    BY <2>1
  <2> QED  BY <2>2, <2>1, <2>3
<1>5. y.off = off + m /\ m >= 1 /\ n >= 1 /\ off + m + n <= len
  BY <1>4 DEF IsRun
<1>6. "HAVE_FIRST" \in flags => off = 0
  BY <1>4, <1>5
<1>7. "LAST_RCVD" \in flags => off + (m + n) = len
  <2>1. PICK o \in Nat : o = y.off
    BY DEF Piece
  <2>2. "LAST_RCVD" \in flags => off + m = len \/ o + n = len
    BY <1>4, <2>1
  <2> QED  BY ONLY off \in Nat, m \in Nat, n \in Nat, len \in Nat, o \in Nat, <2>1, <2>2, <1>5
<1> QED  BY <1>2, <1>3, <1>4, <1>6, <1>7 DEF FlagsFit

LEMMA JoinOnce ==
  ASSUME OnceInvariant, NEW s \in Slots, NEW f \in Sent, Join(s, f),
         InUse(s) => fragments[s].id = f.id, "DROP" \notin fragments[s].flags,
         flying[f] = 1, flying' = [flying EXCEPT ![f] = 0]
  PROVE  ReassembledExact' /\ \A t \in Slots : SlotOnce(flying', fragments'[t])
<1>0. FragInvariant /\ flying \in [Sent -> Nat] /\ fragments \in [Slots -> SlotSet]
  BY DEF OnceInvariant, FragInvariant, FragTypes
<1>1. PICK slot, flags, list, m :
           /\ slot \in SlotSet
           /\ slot = SlotOf(s, f) /\ flags = FlagsWith(slot, f)
           /\ list = ListWith(slot, f) /\ m = ipv4_frag_merge(list)
           /\ IF Complete(m, flags) THEN Delivers(s, m) ELSE KeepsFragment(s, slot, flags, m)
  BY <1>0, JoinParts
<1>2. PICK d \in Datagrams : d = f.id /\ f = Fragment(d, f.off) /\ f.off \in Nat
                             /\ IsRun(d, f.off, f.data)
                             /\ (~f.mf => f.off + Len(f.data) = Length[d])
  BY SentFragment
<1>3. /\ slot.id = d /\ "DROP" \notin slot.flags /\ CameOnce(flying, d, slot.flags, slot.list)
      /\ slot.list = <<>> => slot.flags = {}
  <2>1. CASE InUse(s)
    <3>1. slot = fragments[s]
      BY <1>0, <1>1, <2>1, SlotOfType
    <3>2. SlotOnce(flying, fragments[s])
      BY DEF OnceInvariant
    <3> QED  BY <1>2, <2>1, <3>1, <3>2 DEF SlotOnce, InUse
  <2>2. CASE ~InUse(s)
    <3>1. slot.flags = {} /\ slot.id = f.id /\ slot.list = <<>>
      BY <1>0, <1>1, <2>2, SlotOfType
    <3> QED  BY <1>2, <3>1, EmptyOnce
  <2> QED  BY <2>1, <2>2
<1>4. PICK fl : fl = flying' /\ DOMAIN fl = Sent /\ fl[f] = 0 /\ \A g \in Sent : flying[g] = 0 => fl[g] = 0
  <2>1. PICK fl : fl = [flying EXCEPT ![f] = 0]
    OBVIOUS
  <2>2. fl \in [Sent -> Nat] /\ fl[f] = 0 /\ \A g \in Sent : g # f => fl[g] = flying[g]
    BY <1>0, <2>1
  <2>3. fl = flying'
    BY <2>1
  <2> QED  BY <2>2, <2>3
<1>5. /\ CameOnce(fl, d, slot.flags, slot.list)
      /\ \A t \in Slots : SlotOnce(fl, fragments[t])
      /\ Arrived(fl, d, f.off)
  <2>1. DOMAIN fl = DOMAIN flying /\ \A g \in DOMAIN flying : flying[g] = 0 => fl[g] = 0
    BY <1>0, <1>4
  <2>2. CameOnce(fl, d, slot.flags, slot.list)
    BY <1>3, <2>1, OnceLater
  <2>3. \A t \in Slots : SlotOnce(fl, fragments[t])
    <3> TAKE t \in Slots
    <3>1. SlotOnce(flying, fragments[t])
      BY DEF OnceInvariant
    <3>2. PICK e : e = fragments[t]
      OBVIOUS
    <3>3. CameOnce(fl, e.id, e.flags, e.list)
      BY <2>1, <3>1, <3>2, OnceLater DEF SlotOnce
    <3> QED  BY <3>1, <3>2, <3>3 DEF SlotOnce
  <2>4. Arrived(fl, d, f.off)
    BY <1>2, <1>4 DEF Arrived
  <2> QED  BY <2>2, <2>3, <2>4
<1>k. PICK old \in Seq(Piece), k \in Nat : old = slot.list /\ k = Len(old)
  <2>1. slot.list \in Seq(Piece)
    BY <1>1 DEF SlotSet
  <2> QED  BY <2>1
<1>6. PICK x \in Piece, p \in 1 .. k + 1 :
        /\ p \in Nat /\ old = slot.list /\ k = Len(old)
        /\ x = [off |-> f.off, data |-> f.data]
        /\ list \in Seq(Piece) /\ Len(list) = k + 1
        /\ \A i \in 1 .. k + 1 : list[i] =
             IF i < p THEN old[i] ELSE IF i = p THEN x ELSE old[i - 1]
  <2>1. WithFragment(list, old, f)
    BY <1>1, <1>k, ListWithFragment
  <2>2. PICK x \in Piece, p \in 1 .. k + 1 :
          /\ x = [off |-> f.off, data |-> f.data]
          /\ list \in Seq(Piece) /\ Len(list) = k + 1
          /\ \A i \in 1 .. k + 1 : list[i] =
               IF i < p THEN old[i] ELSE IF i = p THEN x ELSE old[i - 1]
    BY <1>k, <2>1 DEF WithFragment
  <2>3. p \in Nat
    BY <1>k, <2>2
  <2> QED  BY <1>k, <2>2, <2>3
<1>7. x.off = f.off /\ x.data = f.data
  BY <1>6
<1>8. \A i \in 1 .. k : Arrived(fl, d, old[i].off) /\ old[i].off # x.off
  <2> TAKE i \in 1 .. k
  <2>1. Arrived(flying, d, old[i].off) /\ Arrived(fl, d, old[i].off)
    BY <1>3, <1>5, <1>6 DEF CameOnce
  <2>2. flying[Fragment(d, old[i].off)] = 0
    BY <2>1 DEF Arrived
  <2>3. old[i].off # f.off
    BY <1>2, <2>2
  <2> QED  BY <1>7, <2>1, <2>3
<1>9. \A i \in 1 .. k + 1 : Arrived(fl, d, list[i].off)
  <2> TAKE i \in 1 .. k + 1
  <2>1. CASE i < p
    <3>1. i \in 1 .. k /\ list[i] = old[i]
      BY <1>6, <2>1
    <3> QED  BY <1>8, <3>1
  <2>2. CASE i = p
    <3>1. list[i] = x
      BY <1>6, <2>2
    <3> QED  BY <1>5, <1>7, <3>1
  <2>3. CASE i > p
    <3>1. PICK j \in 1 .. k : j = i - 1
      BY <1>6, <2>3
    <3>2. list[i] = old[j]
      BY <1>6, <2>3, <3>1
    <3> QED  BY <1>8, <3>2
  <2> QED  BY <2>1, <2>2, <2>3
<1>10. DistinctOffs(list)
  <2>1. \A i, j \in 1 .. k : old[i].off = old[j].off => i = j
    BY <1>5, <1>6 DEF CameOnce, DistinctOffs
  <2> SUFFICES ASSUME NEW i \in 1 .. k + 1, NEW j \in 1 .. k + 1, i < j
               PROVE  list[i].off # list[j].off
    <3> SUFFICES ASSUME NEW i \in 1 .. k + 1, NEW j \in 1 .. k + 1, list[i].off = list[j].off
                 PROVE  i = j
      BY <1>6 DEF DistinctOffs
    <3>1. i \in Nat /\ j \in Nat
      OBVIOUS
    <3>2. ~(i < j) /\ ~(j < i)
      OBVIOUS
    <3> QED  BY <3>1, <3>2
  <2>2. CASE j < p
    <3>1. list[i] = old[i] /\ list[j] = old[j] /\ i \in 1 .. k /\ j \in 1 .. k
      BY <1>6, <2>2
    <3> QED  BY <2>1, <3>1
  <2>3. CASE j = p
    <3>1. list[i] = old[i] /\ list[j] = x /\ i \in 1 .. k
      BY <1>6, <2>3
    <3> QED  BY <1>8, <3>1
  <2>4. CASE j > p
    <3>1. PICK l \in 1 .. k : l = j - 1
      BY <1>6, <2>4
    <3>2. list[j] = old[l]
      BY <1>6, <2>4, <3>1
    <3>3. CASE i < p
      <4>1. list[i] = old[i] /\ i \in 1 .. k /\ i # l
        BY <1>6, <2>4, <3>1, <3>3
      <4> QED  BY <2>1, <3>2, <4>1
    <3>4. CASE i = p
      <4>1. list[i] = x
        BY <1>6, <3>4
      <4> QED  BY <1>8, <3>2, <4>1
    <3>5. CASE i > p
      <4>1. PICK h \in 1 .. k : h = i - 1
        BY <1>6, <3>5
      <4>2. list[i] = old[h] /\ h # l
        BY <1>6, <3>1, <3>5, <4>1
      <4> QED  BY <2>1, <3>2, <4>2
    <3> QED  BY <3>3, <3>4, <3>5
  <2> QED  BY <2>2, <2>3, <2>4
<1>11. /\ m \in MergeSet /\ MergedTo(list, k + 1, m)
       /\ k = 0 => m.last = list[1]
       /\ k = 1 /\ ~m.hole =>
            /\ list[2].off = list[1].off + Len(list[1].data)
            /\ m.last = [off |-> list[1].off, data |-> Joined(list[1].data, list[2].data)]
  <2>1. list # <<>>
    <3>1. Len(<<>>) = 0
      OBVIOUS
    <3> QED  BY <1>6, <3>1
  <2>2. /\ m \in MergeSet /\ MergedTo(list, Len(list), m)
        /\ Len(list) = 1 => m.last = list[1]
        /\ Len(list) = 2 /\ ~m.hole =>
             /\ list[2].off = list[1].off + Len(list[1].data)
             /\ m.last = [off |-> list[1].off, data |-> list[1].data \o list[2].data]
    BY <1>1, <1>6, <2>1, MergeResult
  <2>3. (k = 0 => Len(list) = 1) /\ (k = 1 => Len(list) = 2)
    BY <1>6
  <2>4. Joined(list[1].data, list[2].data) = list[1].data \o list[2].data
    BY DEF Joined
  <2> QED  BY <1>6, <2>2, <2>3, <2>4
<1>12. PICK o \in Seq(Piece), n \in Nat :
         /\ o = Outcome(m) /\ n = Len(m.merged) /\ Len(o) = n + 1 /\ o[n + 1] = m.last
         /\ \A i \in 1 .. n + 1 : Arrived(fl, d, o[i].off)
         /\ DistinctOffs(o)
  <2>1. PICK o \in Seq(Piece), n \in Nat :
          o = Outcome(m) /\ n = Len(m.merged) /\ Len(o) = n + 1 /\ o[n + 1] = m.last
    BY <1>11, OutcomeParts
  <2>2. OffsFrom(list, k + 1, o) /\ DistinctOffs(o)
    BY <1>10, <1>11, <2>1 DEF MergedTo
  <2>3. \A i \in 1 .. n + 1 : Arrived(fl, d, o[i].off)
    <3> TAKE i \in 1 .. n + 1
    <3>1. PICK j \in 1 .. k + 1 : o[i].off = list[j].off
      BY <2>1, <2>2 DEF OffsFrom
    <3> QED  BY <1>9, <3>1
  <2> QED  BY <2>1, <2>2, <2>3
<1>13. /\ "HAVE_FIRST" \in flags => "HAVE_FIRST" \in slot.flags \/ x.off = 0
       /\ "LAST_RCVD" \in flags => "LAST_RCVD" \in slot.flags \/ x.off + Len(x.data) = Length[d]
  BY <1>1, <1>2, <1>7 DEF FlagsWith
<1>14. ASSUME ~m.hole
       PROVE  IsRun(d, m.last.off, m.last.data) /\ FlagsFit(flags, d, m.last)
  <2>1. CASE k = 0
    <3>1. p = 1 /\ list[1] = x /\ m.last = x
      BY <1>6, <1>11, <2>1
    <3>2. slot.flags = {}
      <4>1. old = <<>>
        BY <1>6, <2>1, EmptySeq
      <4> QED  BY <1>3, <1>6, <4>1
    <3>3. IsRun(d, x.off, x.data)
      BY <1>2, <1>7
    <3>4. /\ "HAVE_FIRST" \in flags => x.off = 0
          /\ "LAST_RCVD" \in flags => x.off + Len(x.data) = Length[d]
      BY <1>13, <3>2
    <3> QED  BY <3>1, <3>3, <3>4 DEF FlagsFit
  <2>2. CASE k = 1
    <3>1. PICK y \in Piece : y = old[1]
      <4>1. 1 \in 1 .. Len(old)
        BY <1>6, <2>2
      <4>2. old[1] \in Piece
        BY <1>k, <4>1
      <4> QED  BY <4>2
    <3>2. IsRun(d, y.off, y.data) /\ FlagsFit(slot.flags, d, y)
      BY <1>5, <1>6, <2>2, <3>1 DEF CameOnce
    <3>3. IsRun(d, x.off, x.data)
      BY <1>2, <1>7
    <3>4. /\ "HAVE_FIRST" \in flags => x.off = 0 \/ y.off = 0
          /\ "LAST_RCVD" \in flags => \/ x.off + Len(x.data) = Length[d]
                                      \/ y.off + Len(y.data) = Length[d]
      BY <1>13, <3>2 DEF FlagsFit
    <3>5. /\ list[2].off = list[1].off + Len(list[1].data)
          /\ m.last = [off |-> list[1].off, data |-> Joined(list[1].data, list[2].data)]
      BY <1>11, <1>14, <2>2
    <3>6. CASE p = 1
      <4>1. list[1] = x /\ list[2] = y
        BY <1>6, <2>2, <3>1, <3>6
      <4> QED  BY <3>2, <3>3, <3>4, <3>5, <4>1, PairRun
    <3>7. CASE p = 2
      <4>1. list[1] = y /\ list[2] = x
        BY <1>6, <2>2, <3>1, <3>7
      <4> QED  BY <3>2, <3>3, <3>4, <3>5, <4>1, PairRun
    <3>8. p = 1 \/ p = 2
      <4>1. p \in 1 .. 2
        BY <1>6, <2>2
      <4> QED  BY <4>1
    <3> QED  BY <3>6, <3>7, <3>8
  <2>3. CASE k >= 2
    <3>1. AllNext(list, k + 1, m.next_offset)
      BY <1>11, <1>14 DEF MergedTo
    <3>2. 2 \in 2 .. k + 1 /\ 3 \in 2 .. k + 1 /\ 2 \in 1 .. Len(list) /\ 3 \in 1 .. Len(list)
      BY <1>6, <2>3
    <3>3. list[2].off = list[3].off
      BY <3>1, <3>2 DEF AllNext
    <3> QED  BY <1>10, <3>2, <3>3 DEF DistinctOffs
  <2> QED  BY <2>1, <2>2, <2>3
<1>15. CameOnce(fl, d, flags, o)
  <2>1. ASSUME Len(o) = 1
        PROVE  IsRun(d, o[1].off, o[1].data) /\ FlagsFit(flags, d, o[1])
    <3>1. n = 0 /\ o[1] = m.last
      BY <1>12, <2>1
    <3>2. m.merged = <<>>
      <4>1. m.merged \in Seq(Piece) /\ Len(m.merged) = 0
        BY <1>11, <1>12, <3>1 DEF MergeSet
      <4> QED  BY <4>1, EmptySeq
    <3>3. ~m.hole
      BY <1>11, <3>2 DEF MergedTo
    <3> QED  BY <1>14, <3>1, <3>3
  <2> QED  BY <1>12, <2>1 DEF CameOnce
<1>16. CASE Complete(m, flags)
  <2>1. /\ delivered' = delivered \cup {m.last.data}
        /\ fragments' = [fragments EXCEPT ![s] = Unused]
    BY <1>1, <1>16 DEF Delivers
  <2>2. m.last.data = Whole(d)
    <3>1. IsRun(d, m.last.off, m.last.data) /\ FlagsFit(flags, d, m.last)
          /\ "HAVE_FIRST" \in flags /\ "LAST_RCVD" \in flags
      BY <1>14, <1>16 DEF Complete
    <3>2. Len(m.last.data) \in Nat
      BY <1>11 DEF MergeSet, Piece
    <3> QED  BY <3>1, <3>2, RunIsWhole DEF FlagsFit
  <2>3. ReassembledExact'
    BY <2>1, <2>2 DEF ReassembledExact, OnceInvariant
  <2>4. SlotOnce(fl, Unused)
    BY UnusedSlot, EmptyOnce DEF SlotOnce
  <2>5. \A t \in Slots : SlotOnce(fl, fragments'[t])
    <3> TAKE t \in Slots
    <3>1. fragments'[t] = IF t = s THEN Unused ELSE fragments[t]
      BY <1>0, <2>1
    <3> QED  BY <1>5, <2>4, <3>1
  <2> QED  BY <1>4, <2>3, <2>5
<1>17. CASE ~Complete(m, flags)
  <2>1. PICK e : e = [flags |-> flags, id |-> d, left |-> slot.left, list |-> o]
    OBVIOUS
  <2>2. fragments' = [fragments EXCEPT ![s] = e] /\ delivered' = delivered
    BY <1>1, <1>3, <1>12, <1>17, <2>1 DEF KeepsFragment
  <2>3. ReassembledExact'
    BY <2>2 DEF ReassembledExact, OnceInvariant
  <2>4. SlotOnce(fl, e)
    <3>1. e.flags = flags /\ e.id = d /\ e.list = o
      BY <2>1
    <3>2. o # <<>>
      <4>1. Len(<<>>) = 0
        OBVIOUS
      <4> QED  BY <1>12, <4>1
    <3> QED  BY <1>15, <3>1, <3>2 DEF SlotOnce
  <2>5. \A t \in Slots : SlotOnce(fl, fragments'[t])
    <3> TAKE t \in Slots
    <3>1. fragments'[t] = IF t = s THEN e ELSE fragments[t]
      BY <1>0, <2>2
    <3> QED  BY <1>5, <2>4, <3>1
  <2> QED  BY <1>4, <2>3, <2>5
<1> QED  BY <1>16, <1>17

LEMMA FragAddOnce ==
  ASSUME OnceInvariant, NEW f \in Sent, ipv4_frag_add(f),
         flying[f] = 1, flying' = [flying EXCEPT ![f] = 0]
  PROVE  ReassembledExact' /\ \A t \in Slots : SlotOnce(flying', fragments'[t])
<1>0. FragInvariant /\ ReassembledExact /\ flying \in [Sent -> Nat]
  BY DEF OnceInvariant, FragInvariant, FragTypes
<1>1. PICK fl : /\ fl = flying' /\ DOMAIN fl = DOMAIN flying
                /\ \A g \in DOMAIN flying : flying[g] = 0 => fl[g] = 0
  <2>1. PICK fl : fl = [flying EXCEPT ![f] = 0]
    OBVIOUS
  <2>2. DOMAIN fl = DOMAIN flying /\ \A g \in DOMAIN flying : flying[g] = 0 => fl[g] = 0
    BY <1>0, <2>1
  <2> QED  BY <2>1, <2>2
<1>2. \A t \in Slots : SlotOnce(fl, fragments[t])
  <2> TAKE t \in Slots
  <2>1. PICK e : e = fragments[t] /\ SlotOnce(flying, e)
    BY DEF OnceInvariant
  <2>2. CameOnce(fl, e.id, e.flags, e.list)
    BY <1>1, <2>1, OnceLater DEF SlotOnce
  <2> QED  BY <2>1, <2>2 DEF SlotOnce
<1>3. CASE UNCHANGED <<fragments, frag_timer, frag_lists, delivered>>
  BY <1>0, <1>1, <1>2, <1>3 DEF ReassembledExact
<1>4. PICK s : s = SlotFor(f.id)
  OBVIOUS
<1>5. CASE Lookup(f.id) \cup FreeSlots # {}
  <2>1. s \in Slots /\ (InUse(s) => fragments[s].id = f.id)
    BY <1>4, <1>5, SlotForDatagram
  <2>2. CASE DropAll(s)
    <3>1. \A u \in Slots :
            IF InUse(u) THEN fragments'[u].list = <<>> /\ "DROP" \in fragments'[u].flags
            ELSE fragments'[u] = fragments[u]
      BY <1>0, <2>1, <2>2, DropAllSound
    <3>2. \A u \in Slots : SlotOnce(fl, fragments'[u])
      <4> TAKE u \in Slots
      <4>1. CASE InUse(u)
        <5>1. PICK e : e = fragments'[u] /\ e.list = <<>> /\ "DROP" \in e.flags
          BY <3>1, <4>1
        <5>2. CameOnce(fl, e.id, e.flags, e.list)
          BY <5>1, EmptyOnce
        <5> QED  BY <5>1, <5>2 DEF SlotOnce
      <4>2. CASE ~InUse(u)
        BY <1>2, <3>1, <4>2
      <4> QED  BY <4>1, <4>2
    <3>3. delivered' = delivered
      BY <2>2 DEF DropAll
    <3> QED  BY <1>0, <1>1, <3>2, <3>3 DEF ReassembledExact
  <2>3. CASE "DROP" \notin fragments[s].flags /\ Join(s, f)
    BY <2>1, <2>3, JoinOnce
  <2> QED  BY <1>3, <1>4, <1>5, <2>2, <2>3 DEF ipv4_frag_add
<1> QED  BY <1>3, <1>5 DEF ipv4_frag_add

LEMMA ProcessOnce ==
  ASSUME OnceInvariant, NEW f \in DOMAIN flying, net_process_ipv4(f)
  PROVE  OnceInvariant'
<1>0. FragInvariant /\ ReassembledExact /\ flying \in [Sent -> Nat] /\ f \in Sent
  BY DEF OnceInvariant, FragInvariant, FragTypes
<1>1. flying[f] = 1 /\ flying' = [flying EXCEPT ![f] = 0]
  <2>1. flying[f] > 0 /\ flying' = [flying EXCEPT ![f] = @ - 1]
    BY DEF net_process_ipv4
  <2>2. flying[f] <= 1 /\ flying[f] \in Nat
    BY <1>0 DEF OnceInvariant
  <2>3. flying[f] = 1
    BY <2>1, <2>2
  <2> QED  BY <2>1, <2>3
<1>2. \A g \in Sent : flying'[g] <= 1
  BY <1>0, <1>1 DEF OnceInvariant
<1>3. ReassembledExact' /\ \A t \in Slots : SlotOnce(flying', fragments'[t])
  <2>1. CASE ipv4_frag_add(f)
    BY <1>0, <1>1, <2>1, FragAddOnce
  <2>2. CASE /\ ~f.mf /\ f.off = 0
             /\ delivered' = delivered \cup {f.data}
             /\ UNCHANGED <<fragments, frag_timer, frag_lists>>
    <3>1. f.data = Whole(f.id) /\ f.id \in Datagrams
      <4>1. Len(f.data) \in Nat
        BY <1>0, SentFragment
      <4> QED  BY <1>0, <2>2, <4>1, SentFragment, RunIsWhole
    <3>2. PICK fl : /\ fl = flying' /\ DOMAIN fl = DOMAIN flying
                    /\ \A g \in DOMAIN flying : flying[g] = 0 => fl[g] = 0
      <4>1. PICK fl : fl = [flying EXCEPT ![f] = 0]
        OBVIOUS
      <4>2. DOMAIN fl = DOMAIN flying /\ \A g \in DOMAIN flying : flying[g] = 0 => fl[g] = 0
        BY <1>0, <4>1
      <4> QED  BY <1>1, <4>1, <4>2
    <3>3. \A t \in Slots : SlotOnce(fl, fragments[t])
      <4> TAKE t \in Slots
      <4>1. PICK e : e = fragments[t] /\ SlotOnce(flying, e)
        BY DEF OnceInvariant
      <4>2. CameOnce(fl, e.id, e.flags, e.list)
        BY <3>2, <4>1, OnceLater DEF SlotOnce
      <4> QED  BY <4>1, <4>2 DEF SlotOnce
    <3> QED  BY <1>0, <2>2, <3>1, <3>2, <3>3 DEF ReassembledExact
  <2> QED  BY <2>1, <2>2 DEF net_process_ipv4
<1>4. FragInvariant'
  BY <1>0, ProcessKeeps
<1> QED  BY <1>2, <1>3, <1>4 DEF OnceInvariant

LEMMA ExpiredOnce ==
  ASSUME OnceInvariant, ipv4_fragment_expired
  PROVE  ReassembledExact' /\ \A t \in Slots : SlotOnce(flying, fragments'[t])
<1>1. PICK expired : /\ fragments' = [s \in Slots |-> IF s \in expired THEN Unused ELSE fragments[s]]
                     /\ delivered' = delivered
  BY Zenon DEF ipv4_fragment_expired
<1>2. SlotOnce(flying, Unused)
  BY UnusedSlot, EmptyOnce DEF SlotOnce
<1> QED  BY <1>1, <1>2 DEF OnceInvariant, ReassembledExact

LEMMA TickOnce ==
  ASSUME OnceInvariant, FragTick
  PROVE  ReassembledExact' /\ \A t \in Slots : SlotOnce(flying, fragments'[t])
<1>1. /\ \A s \in Slots : /\ fragments'[s].flags = fragments[s].flags
                          /\ fragments'[s].id = fragments[s].id
                          /\ fragments'[s].list = fragments[s].list
      /\ delivered' = delivered
  BY TickSound DEF OnceInvariant, FragTick
<1>2. \A t \in Slots : SlotOnce(flying, fragments'[t])
  BY <1>1 DEF OnceInvariant, SlotOnce
<1> QED  BY <1>1, <1>2 DEF OnceInvariant, ReassembledExact

LEMMA OnceInitial ==
  ASSUME MaxCopies <= 1, FragInit
  PROVE  OnceInvariant
<1>1. FragInvariant
  BY FragInitial
<1>2. /\ flying = [f \in Sent |-> MaxCopies] /\ fragments = [s \in Slots |-> Unused]
      /\ delivered = {}
  BY DEF FragInit, Sent
<1>3. SlotOnce(flying, Unused)
  BY UnusedSlot, EmptyOnce DEF SlotOnce
<1> QED  BY <1>1, <1>2, <1>3 DEF OnceInvariant, ReassembledExact

LEMMA OnceStep == OnceInvariant /\ [FragNext]_fragVars => OnceInvariant'
<1> SUFFICES ASSUME OnceInvariant, [FragNext]_fragVars
             PROVE  OnceInvariant'
  OBVIOUS
<1>0. FragInvariant /\ FragInvariant'
  BY FragStep DEF OnceInvariant
<1>1. CASE UNCHANGED <<flying, fragments, delivered>>
  <2>1. \A t \in Slots : SlotOnce(flying', fragments'[t])
    BY <1>1 DEF OnceInvariant
  <2> QED  BY <1>0, <1>1, <2>1 DEF OnceInvariant, ReassembledExact
<1>2. CASE \E f \in DOMAIN flying : net_process_ipv4(f)
  BY <1>2, ProcessOnce
<1>3. CASE ipv4_fragment_expired
  <2>1. flying' = flying
    BY <1>3 DEF ipv4_fragment_expired
  <2>2. ReassembledExact' /\ \A t \in Slots : SlotOnce(flying, fragments'[t])
    BY <1>3, ExpiredOnce
  <2> QED  BY <1>0, <2>1, <2>2 DEF OnceInvariant
<1>4. CASE FragTick
  <2>1. flying' = flying
    BY <1>4 DEF FragTick
  <2>2. ReassembledExact' /\ \A t \in Slots : SlotOnce(flying, fragments'[t])
    BY <1>4, TickOnce
  <2> QED  BY <1>0, <2>1, <2>2 DEF OnceInvariant
<1>5. CASE UseList \/ ReturnList
  BY <1>1, <1>5 DEF UseList, ReturnList
<1>6. CASE UNCHANGED fragVars
  BY <1>1, <1>6 DEF fragVars
<1> QED  BY <1>2, <1>3, <1>4, <1>5, <1>6 DEF FragNext

(* ReassembledExact, for any number of datagrams of any length, any size   *)
(* of fragment, and fragments that come in any order or not at all: when   *)
(* no fragment comes twice, what ipv4_frag_merge leaves of a list of more  *)
(* than two fragments, or of two that are apart, is never one fragment, so *)
(* what ipv4_frag_add gives to the upper layers is a whole datagram.       *)
THEOREM ReassembledOnce ==
  ASSUME MaxCopies <= 1
  PROVE  FragSpec => []ReassembledExact
<1>1. FragInit => OnceInvariant
  BY OnceInitial
<1>2. OnceInvariant => ReassembledExact
  BY DEF OnceInvariant
<1> QED  BY <1>1, <1>2, OnceStep, PTL DEF FragSpec
=============================================================================
