------------------------------ MODULE Ipv4Frag ------------------------------
(***************************************************************************)
(* Fragmentation and reassembly of net_ipv4.c.  The network loses,         *)
(* reorders and duplicates fragments.  Offsets and lengths are in the      *)
(* units of 8 octets that the header counts in; octet unit k of datagram d *)
(* is <<d, k>>.  The network task runs each handler to its end.            *)
(*                                                                         *)
(* Timeouts are kept as the ticks that are left until they are due.        *)
(***************************************************************************)
EXTENDS Integers, FiniteSets, FiniteSetsExt, Sll

CONSTANTS
  Datagrams,        \* source address and ID of the datagrams that are sent
  Length,           \* units of each datagram
  MaxPayload,       \* max_payload_len, units of a fragment
  NumFragments,     \* fargment.num
  NumLists,         \* buffer lists of the device
  FragThreshold,    \* threshold_lists
  FRAG_TIMEOUT,     \* IPV4_FRAG_TIMEOUT
  FRAG_DROP_TIMEOUT,
  MaxCopies,        \* deliveries of one fragment
  MaxUsed           \* buffer lists that other traffic takes

ASSUME FragAssumption ==
  /\ Length \in [Datagrams -> Nat \ {0}] /\ MaxPayload \in Nat \ {0} /\ NumFragments \in Nat \ {0}
  /\ NumLists \in Nat /\ FragThreshold \in Nat /\ MaxCopies \in Nat /\ MaxUsed \in Nat
  /\ FRAG_TIMEOUT \in Nat \ {0} /\ FRAG_DROP_TIMEOUT \in Nat \ {0}

VARIABLES
  flying,       \* deliveries that are left of each fragment
  fragments,    \* fargment.list
  frag_timer,   \* fargment.suspend: enabled, and ticks left
  frag_lists,   \* free_lists.buffers
  used_lists,   \* lists that other traffic holds
  delivered     \* payloads given to the upper layers

fragVars == <<flying, fragments, frag_timer, frag_lists, used_lists, delivered>>

Slots == 1 .. NumFragments
Unused == [flags |-> {}, id |-> 0, left |-> 0, list |-> <<>>]
InUse(s) == "IN_USE" \in fragments[s].flags

Units(d, from, n) == [i \in 1 .. n |-> <<d, from + i - 1>>]
Whole(d) == Units(d, 0, Length[d])

(* The fragments that ipv4_header_add makes of a datagram.                 *)
Fragment(d, off) ==
  LET rest == Length[d] - off
      mf   == rest > MaxPayload
  IN [id |-> d, off |-> off, mf |-> mf,
      data |-> Units(d, off, IF mf THEN MaxPayload ELSE rest)]

ipv4_header_add(d) ==
  {Fragment(d, i * MaxPayload) : i \in 0 .. (Length[d] - 1) \div MaxPayload}

FragInit ==
  /\ flying = [f \in UNION {ipv4_header_add(d) : d \in Datagrams} |-> MaxCopies]
  /\ fragments = [s \in Slots |-> Unused]
  /\ frag_timer = [enabled |-> FALSE, left |-> 0]
  /\ frag_lists = NumLists
  /\ used_lists = 0
  /\ delivered = {}

(* Buffer lists that the fragment lists in used hold.                      *)
ListsIn(fs, used) ==
  FoldLeft(LAMBDA n, s : n + (IF s \in used THEN Len(fs[s].list) ELSE 0),
           0, [s \in Slots |-> s])

(* ipv4_fragment_update_timer for the fragments fs.                        *)
ipv4_fragment_update_timer(fs) ==
  LET used == {s \in Slots : "IN_USE" \in fs[s].flags}
  IN [enabled |-> used # {},
      left    |-> IF used = {} THEN 0 ELSE Min({fs[s].left : s \in used})]

(* The fragments before which one with this offset is inserted.            *)
ipv4_frag_sort(list, off) == {node \in ToSet(list) : node.off >= off}

(* Mutant: a fragment is joined to the one before it over a hole.          *)
MergeOverHole(st, next) ==
  [st EXCEPT !.last.data = @ \o next.data, !.freed = @ + 1]

(* One turn of the loop of ipv4_frag_merge.  The offset where the next     *)
(* fragment is expected stays where it is after a merge, and after a hole  *)
(* it is computed from the length of the fragment before the hole.         *)
MergeStep(st, next) ==
  IF next.off = st.next_offset
  THEN [st EXCEPT !.last.data = @ \o next.data, !.freed = @ + 1]
  ELSE [merged |-> Append(st.merged, st.last), last |-> next,
        next_offset |-> Len(st.last.data) + next.off, hole |-> TRUE, freed |-> st.freed]

ipv4_frag_merge(list) ==
  LET first == Head(list)
  IN FoldLeft(MergeStep,
              [merged |-> <<>>, last |-> first, next_offset |-> Len(first.data) + first.off,
               hole |-> FALSE, freed |-> 0],
              Tail(list))

----------------------------------------------------------------------------
(* The fragment list of a datagram, or the first free one.                 *)
Lookup(id) == {s \in Slots : InUse(s) /\ fragments[s].id = id}
FreeSlots == {s \in Slots : ~InUse(s)}
SlotFor(id) == IF Lookup(id) # {} THEN CHOOSE s \in Lookup(id) : TRUE ELSE Min(FreeSlots)

(* Too few lists are free: all fragments are dropped, and whatever comes   *)
(* for them until they expire.                                             *)
DropAll(s) ==
  LET used == {u \in Slots : InUse(u)}
      dropped == [u \in Slots |->
        IF u \in used THEN [fragments[u] EXCEPT !.list = <<>>, !.flags = @ \cup {"DROP"}]
        ELSE fragments[u]]
  IN /\ fragments' = IF s \in used
                     THEN [dropped EXCEPT ![s].left = FRAG_DROP_TIMEOUT] ELSE dropped
     /\ frag_timer' = ipv4_fragment_update_timer(fragments')
     /\ frag_lists' = frag_lists + ListsIn(fragments, used)
     /\ UNCHANGED delivered

(* Mutant: a new fragment list does not start the timer.                   *)
StartNoTimer(s, f) == frag_timer' = frag_timer

(* The timer when the first fragment of a datagram takes a list.           *)
StartTimer(s, f) ==
  frag_timer' = IF InUse(s) THEN frag_timer
                ELSE ipv4_fragment_update_timer(
                       [fragments EXCEPT ![s].flags = {"IN_USE"}, ![s].left = FRAG_TIMEOUT])

(* A fragment joins the list of its datagram.  The buffer it came in and   *)
(* the list it moves to are two lists; the first goes back to the device.  *)
Join(s, f) ==
  LET slot  == IF InUse(s) THEN fragments[s]
               ELSE [Unused EXCEPT !.id = f.id, !.left = FRAG_TIMEOUT]
      flags == slot.flags \cup {"IN_USE"}
               \cup (IF f.off = 0 THEN {"HAVE_FIRST"} ELSE {})
               \cup (IF ~f.mf THEN {"LAST_RCVD"} ELSE {})
      st    == ipv4_frag_merge(sll_insert(slot.list, [off |-> f.off, data |-> f.data],
                                          ipv4_frag_sort(slot.list, f.off)))
  IN /\ StartTimer(s, f)
     /\ IF ~st.hole /\ {"HAVE_FIRST", "LAST_RCVD"} \subseteq flags
        THEN /\ delivered' = delivered \cup {st.last.data}
             /\ fragments' = [fragments EXCEPT ![s] = Unused]
             /\ frag_lists' = frag_lists + st.freed
        ELSE /\ fragments' = [fragments EXCEPT
                  ![s] = [slot EXCEPT !.flags = flags, !.list = Append(st.merged, st.last)]]
             /\ frag_lists' = frag_lists - 1 + st.freed
             /\ UNCHANGED delivered

(* ipv4_frag_add.  The device holds one list for the fragment; without     *)
(* one the fragment is lost.                                               *)
ipv4_frag_add(f) ==
  LET s == SlotFor(f.id)
  IN IF Lookup(f.id) \cup FreeSlots = {} THEN UNCHANGED <<fragments, frag_timer, frag_lists, delivered>>
     ELSE \/ frag_lists - 1 <= FragThreshold /\ DropAll(s)
          \/ /\ frag_lists - 1 > FragThreshold /\ "DROP" \notin fragments[s].flags
             /\ Join(s, f)
          \/ /\ frag_lists - 1 > FragThreshold /\ "DROP" \in fragments[s].flags
             /\ UNCHANGED <<fragments, frag_timer, frag_lists, delivered>>

(* net_process_ipv4 for a datagram to this host.                           *)
net_process_ipv4(f) ==
  /\ flying[f] > 0 /\ frag_lists > 0
  /\ flying' = [flying EXCEPT ![f] = @ - 1]
  /\ IF f.mf \/ f.off # 0
     THEN ipv4_frag_add(f)
     ELSE /\ delivered' = delivered \cup {f.data}
          /\ UNCHANGED <<fragments, frag_timer, frag_lists>>
  /\ UNCHANGED used_lists

(* ipv4_fragment_expired, when the timer is due.                           *)
ipv4_fragment_expired ==
  LET expired == {s \in Slots : InUse(s) /\ fragments[s].left = 0}
  IN /\ frag_timer.enabled /\ frag_timer.left = 0
     /\ fragments' = [s \in Slots |-> IF s \in expired THEN Unused ELSE fragments[s]]
     /\ frag_lists' = frag_lists + ListsIn(fragments, expired)
     /\ frag_timer' = ipv4_fragment_update_timer(fragments')
     /\ UNCHANGED <<flying, used_lists, delivered>>

(* A tick passes; what is due stays due until the network task runs.       *)
Less(n) == IF n > 0 THEN n - 1 ELSE 0
FragTick ==
  /\ \E s \in Slots : InUse(s) /\ fragments[s].left > 0
  /\ fragments' = [s \in Slots |-> [fragments[s] EXCEPT !.left = Less(@)]]
  /\ frag_timer' = [frag_timer EXCEPT !.left = Less(@)]
  /\ UNCHANGED <<flying, frag_lists, used_lists, delivered>>

(* Other traffic takes lists of the device and returns them.               *)
UseList ==
  /\ frag_lists > 0 /\ used_lists < MaxUsed
  /\ frag_lists' = frag_lists - 1 /\ used_lists' = used_lists + 1
  /\ UNCHANGED <<flying, fragments, frag_timer, delivered>>
ReturnList ==
  /\ used_lists > 0
  /\ frag_lists' = frag_lists + 1 /\ used_lists' = used_lists - 1
  /\ UNCHANGED <<flying, fragments, frag_timer, delivered>>

FragNext ==
  \/ \E f \in DOMAIN flying : net_process_ipv4(f)
  \/ ipv4_fragment_expired \/ FragTick \/ UseList \/ ReturnList

FragSpec == FragInit /\ [][FragNext]_fragVars

----------------------------------------------------------------------------
(* What the upper layers get is a datagram that was sent, whole and in     *)
(* order, whatever fragments were lost, repeated or overtaken.             *)
ReassembledExact == delivered \subseteq {Whole(d) : d \in Datagrams}

(* The fragments of a datagram that never completes are freed: every       *)
(* fragment list in use is reached by the timer, and every buffer list is  *)
(* free, with other traffic or in a fragment list.                         *)
FragmentsExpire ==
  /\ \A s \in Slots : InUse(s) => frag_timer.enabled /\ frag_timer.left <= fragments[s].left
  /\ NumLists = frag_lists + used_lists + ListsIn(fragments, Slots)
============================================================================
