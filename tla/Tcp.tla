-------------------------------- MODULE Tcp --------------------------------
(***************************************************************************)
(* net_tcp.c: two ports, each run by an application task and by the        *)
(* network task of its host, over a network that loses, delays and         *)
(* reorders segments.  A port has a lock; tcp_send_segment gives it up     *)
(* while the segment is built and transmitted, so an operation that sends  *)
(* is split there and uses what it read before and what it finds after.    *)
(* Timers have no time: one that runs may expire at any moment.            *)
(***************************************************************************)
EXTENDS Integers, Sequences, FiniteSets, SequencesExt

CONSTANTS
  Client, Server,   \* the port that connects and the port that listens
  SEQ_RANGE,        \* sequence numbers, 2^32 in the code
  ISS,              \* per port: tcp_iss + 1 when the connection is opened
  TCP_WND_SIZE,     \* receive window
  MSS,              \* bytes of a segment, after negotiation
  TCP_NUM_RTX,      \* retransmission structures of a port
  MaxData,          \* per port: bytes its application writes
  MaxRead,          \* bytes an application asks for
  MaxFlight,        \* segments the network holds; more are lost
  MaxQueue,         \* buffers a port may keep on each of its lists
  Closers           \* ports whose application closes

Ports == {Client, Server}
Peer(p) == IF p = Client THEN Server ELSE Client

(* Sequence numbers are less than half their range apart.                  *)
ASSUME SeqAssumption ==
  /\ Client # Server
  /\ SEQ_RANGE \in Nat /\ TCP_WND_SIZE \in Nat \ {0} /\ MSS \in Nat \ {0}
  /\ TCP_NUM_RTX \in Nat \ {0} /\ MaxFlight \in Nat \ {0} /\ MaxQueue \in Nat \ {0}
  /\ ISS \in [Ports -> 0 .. SEQ_RANGE - 1]
  /\ MaxData \in [Ports -> Nat] /\ MaxRead \in Nat \ {0}
  /\ \A p \in Ports : 2 * (MaxData[p] + TCP_WND_SIZE + 3) < SEQ_RANGE
  /\ Closers \subseteq Ports

VARIABLES
  port,      \* TCP_PORT of each side
  app,       \* where the application task of each side is
  net,       \* where the network task of each side is
  wire,      \* segments under way
  written,   \* history: bytes each application has sent
  got        \* history: bytes each application has read

vars == <<port, app, net, wire, written, got>>

Plus(s, n) == (s + n) % SEQ_RANGE

(* INT32CMP: the difference as a signed number.                            *)
Cmp(a, b) ==
  LET d == (a - b) % SEQ_RANGE
  IN IF 2 * d >= SEQ_RANGE THEN d - SEQ_RANGE ELSE d

----------------------------------------------------------------------------
(* A segment from p, with the acknowledgment and window p has when it      *)
(* calls tcp_send_segment.                                                 *)
Segment(p, q, seq, ack, flags, data) ==
  [from |-> p, seq |-> seq, ack |-> ack, flags |-> flags, wnd |-> q.rcv_wnd,
   data |-> data]

AckSegment(p, q) == Segment(p, q, q.snd_nxt, q.rcv_nxt, {"ACK"}, <<>>)
FinSegment(p, q) == Segment(p, q, q.snd_nxt, q.rcv_nxt, {"FIN", "ACK"}, <<>>)
RstSegment(p, q, seq) == Segment(p, q, seq, 0, {"RST"}, <<>>)

(* The network takes a segment, or has no room and loses it.               *)
Transmit(segs) ==
  wire' = IF Cardinality(wire \cup segs) <= MaxFlight THEN wire \cup segs ELSE wire

NewPort ==
  [state |-> "CLOSED", rcv_nxt |-> 0, rcv_wnd |-> TCP_WND_SIZE, snd_nxt |-> 0,
   snd_una |-> 0, snd_wnd |-> 0, nacks |-> 0, rtx |-> {}, rtx_timer |-> FALSE,
   event_timer |-> FALSE, rx_buffer |-> <<>>, oorx_list |-> <<>>,
   buffer_list |-> <<>>, data |-> FALSE, space |-> FALSE]

NoCall  == [at |-> "start", seg |-> <<>>, left |-> 0]
NoInput == [at |-> "idle", seg |-> <<>>, to |-> "CLOSED", fin |-> FALSE,
            resume |-> {}]

tcp_port_initialize(q) ==
  [q EXCEPT !.rcv_wnd = TCP_WND_SIZE, !.nacks = 0, !.event_timer = FALSE,
            !.rtx_timer = FALSE]

(* Tasks that wait for data (or a change of state) and for space.          *)
tcp_resume_socket(q, flags) ==
  [q EXCEPT !.data = @ \/ "READ" \in flags, !.space = @ \/ "WRITE" \in flags]

InWindow(q, s) == Cmp(q.rcv_nxt, s) <= 0 /\ Cmp(s, Plus(q.rcv_nxt, q.rcv_wnd)) < 0

tcp_check_sequence(q, seq, len) ==
  IF q.rcv_wnd = 0 THEN len = 0 /\ seq = q.rcv_nxt
  ELSE \/ InWindow(q, seq)
       \/ len > 0 /\ InWindow(q, Plus(seq, len - 1))

----------------------------------------------------------------------------
(* Retransmission.                                                         *)

(* Mutant: the length of a segment is forgotten.                           *)
RtxAckedEarly(q, ack) ==
  LET rest == {s \in q.rtx : Cmp(s.seq, ack) > 0}
  IN [q EXCEPT !.rtx = rest, !.rtx_timer = rest # {}]

(* Segments that ack covers leave the list; the timer runs for the others. *)
tcp_rtx_process_ack(q, ack) ==
  LET rest == {s \in q.rtx : Cmp(Plus(s.seq, Len(s.data)), ack) > 0}
  IN [q EXCEPT !.rtx = rest, !.rtx_timer = rest # {}]

tcp_rtx_free_all(q) == [q EXCEPT !.rtx = {}, !.rtx_timer = FALSE]

(* The segments of the lowest sequence number.                             *)
LeastRtx(q) == {s \in q.rtx : \A r \in q.rtx : Cmp(s.seq, r.seq) <= 0}

Retransmits == {"SYN_SENT", "SYN_RCVD", "LAST_ACK", "FIN_WAIT_1", "CLOSING", "ESTAB"}

(* A timer of the port expires in the network task.                        *)
tcp_timeout_callback(p) ==
  LET q == port[p]
  IN /\ net[p].at = "idle"
     /\ q.rtx_timer \/ q.event_timer
     /\ \/ /\ q.state = "TIME_WAIT"
           /\ port' = [port EXCEPT ![p] =
                tcp_resume_socket([q EXCEPT !.state = "CLOSED", !.event_timer = FALSE],
                                  {"READ", "WRITE"})]
           /\ UNCHANGED wire
        \/ /\ q.state \in Retransmits
           /\ \/ \E s \in LeastRtx(q) : Transmit({s})
              \/ q.rtx = {} /\ UNCHANGED wire
           /\ UNCHANGED port
        \/ /\ q.state \notin Retransmits \cup {"TIME_WAIT"}
           /\ port' = [port EXCEPT ![p] = tcp_rtx_free_all(q)]
           /\ UNCHANGED wire
     /\ UNCHANGED <<app, net, written, got>>

----------------------------------------------------------------------------
(* Received data.                                                          *)

(* The buffers at the head of the out of order list that continue q.       *)
DrainStep(q, b) ==
  IF b.seq = q.rcv_nxt
  THEN [q EXCEPT !.rcv_nxt = Plus(@, Len(b.data)), !.rx_buffer = @ \o b.data]
  ELSE q

(* Drain stops at the first buffer that does not continue the data.        *)
Continues(q, n) ==
  n <= Len(q.oorx_list)
  /\ \A i \in 1 .. n :
       q.oorx_list[i].seq = FoldLeft(DrainStep, q, SubSeq(q.oorx_list, 1, i - 1)).rcv_nxt

(* Mutant: text at RCV.NXT is taken to close the only gap.                 *)
DrainedWhole(q) ==
  LET text == FlattenSeq([i \in 1 .. Len(q.oorx_list) |-> q.oorx_list[i].data])
  IN [q EXCEPT !.rcv_nxt = Plus(@, Len(text)), !.rx_buffer = @ \o text,
               !.oorx_list = <<>>, !.rcv_wnd = TCP_WND_SIZE]

(* The data that follows is taken, and the list is emptied.                *)
Drained(q) ==
  LET n == CHOOSE k \in 0 .. Len(q.oorx_list) :
             Continues(q, k) /\ ~ Continues(q, k + 1)
  IN [FoldLeft(DrainStep, q, SubSeq(q.oorx_list, 1, n)) EXCEPT
        !.oorx_list = <<>>, !.rcv_wnd = TCP_WND_SIZE]

(* Where tcp_oo_buffer_process stops: the first buffer of a higher number. *)
OoPosition(q, seg) ==
  LET higher == {i \in 1 .. Len(q.oorx_list) : q.oorx_list[i].seq > seg.seq}
  IN IF higher = {} THEN Len(q.oorx_list) + 1
     ELSE CHOOSE i \in higher : \A j \in higher : i <= j

(* It overlaps, or touches, the buffer it would be put before.             *)
Conflict(q, seg) ==
  LET i == OoPosition(q, seg)
  IN i <= Len(q.oorx_list) /\ Plus(seg.seq, Len(seg.data)) >= q.oorx_list[i].seq

(* Mutants: text beyond a gap counts as in order; RCV.NXT moves past a gap *)
(* or stays where it is.                                                   *)
MergeAnyOrder(q, seg) ==
  IF Cmp(seg.seq, q.rcv_nxt) >= 0
  THEN tcp_resume_socket(
         Drained([q EXCEPT !.rx_buffer = @ \o seg.data,
                           !.rcv_nxt = Plus(seg.seq, Len(seg.data))]), {"READ"})
  ELSE q
MergePastGap(q, seg) ==
  IF seg.seq = q.rcv_nxt THEN MergeAnyOrder(q, seg)
  ELSE [q EXCEPT !.rcv_nxt = Plus(seg.seq, Len(seg.data))]
MergeNoAdvance(q, seg) ==
  IF seg.seq = q.rcv_nxt THEN [MergeAnyOrder(q, seg) EXCEPT !.rcv_nxt = q.rcv_nxt]
  ELSE q

(* tcp_rx_buffer_merge up to the acknowledgment it sends.                  *)
tcp_rx_buffer_merge(q, seg) ==
  IF seg.seq = q.rcv_nxt
  THEN tcp_resume_socket(
         Drained([q EXCEPT !.rx_buffer = @ \o seg.data,
                           !.rcv_nxt = Plus(seg.seq, Len(seg.data))]), {"READ"})
  ELSE IF Conflict(q, seg) THEN q
  ELSE [q EXCEPT !.oorx_list = InsertAt(@, OoPosition(q, seg),
                                        [seq |-> seg.seq, data |-> seg.data]),
                 !.rcv_wnd = @ + Len(seg.data)]

----------------------------------------------------------------------------
(* net_process_tcp.  The network task handles one segment at a time; at    *)
(* names the code it continues with after it gave up the port's lock to    *)
(* send:  data (the text of the segment), fin (its FIN bit) or move (the   *)
(* change of state to that follows a segment sent).                        *)

(* The handler of p puts segs on the wire; it takes seg from there when it *)
(* begins.                                                                 *)
Exchange(p, seg, segs) ==
  LET rest == IF net[p].at = "idle" THEN wire \ {seg} ELSE wire
  IN wire' = IF Cardinality(rest \cup segs) <= MaxFlight THEN rest \cup segs ELSE rest

(* The handler is done: it resumes the waiting tasks.                      *)
Finish(p, q, flags) ==
  /\ port' = [port EXCEPT ![p] = tcp_resume_socket(q, flags)]
  /\ net' = [net EXCEPT ![p] = NoInput]

(* The handler sends and will go on at "at".                               *)
Release(p, q, k) ==
  /\ port' = [port EXCEPT ![p] = q]
  /\ net' = [net EXCEPT ![p] = k]

MoveTo(to) == [NoInput EXCEPT !.at = "move", !.to = to]

(* The state a FIN leads to; none if the port takes no notice of it.       *)
FinTarget(q, seg) ==
  IF "FIN" \notin seg.flags THEN "none"
  ELSE CASE q.state = "ESTAB" -> "LAST_ACK"
         [] q.state = "FIN_WAIT_1" -> IF seg.ack = q.snd_nxt THEN "TIME_WAIT" ELSE "CLOSING"
         [] q.state = "FIN_WAIT_2" -> "TIME_WAIT"
         [] OTHER -> "none"

(* tcp_process_finbit up to the FIN it sends; seq is the number of the FIN *)
(* received.                                                               *)
tcp_process_finbit(p, q, seq, to, flags, seg) ==
  LET r == [q EXCEPT !.rcv_nxt = Plus(seq, 1)]
  IN /\ Release(p, r, [MoveTo(to) EXCEPT !.fin = TRUE, !.resume = flags])
     /\ Exchange(p, seg, {FinSegment(p, r)})

(* The last part of the handler in the states that carry data.             *)
FinPart(p, q, seg, flags) ==
  \/ /\ FinTarget(q, seg) # "none"
     /\ tcp_process_finbit(p, q, Plus(seg.seq, Len(seg.data)), FinTarget(q, seg), flags, seg)
  \/ /\ FinTarget(q, seg) = "none"
     /\ Finish(p, IF q.state = "FIN_WAIT_1" /\ seg.ack = q.snd_nxt
                  THEN [q EXCEPT !.state = "FIN_WAIT_2"] ELSE q, flags)
     /\ Exchange(p, seg, {})

(* There is text, and a buffer for it where it has to be kept.             *)
Mergeable(q, seg) ==
  /\ seg.data # <<>>
  /\ seg.seq = q.rcv_nxt \/ Conflict(q, seg) \/ Len(q.oorx_list) < MaxQueue

(* The text of the segment is merged and acknowledged.                     *)
DataPart(p, q, seg, flags) ==
  \/ /\ Mergeable(q, seg)
     /\ LET r == tcp_rx_buffer_merge(q, seg)
        IN /\ Release(p, r, [NoInput EXCEPT !.at = "fin", !.seg = seg, !.resume = flags])
           /\ Exchange(p, seg, {AckSegment(p, r)})
  \/ ~ Mergeable(q, seg) /\ FinPart(p, q, seg, flags)

(* A new acknowledgment.                                                   *)
NewAck(q, seg) == Cmp(q.snd_una, seg.ack) < 0 /\ Cmp(seg.ack, q.snd_nxt) <= 0

Acked(q, seg) ==
  IF NewAck(q, seg)
  THEN tcp_rtx_process_ack([q EXCEPT !.snd_una = seg.ack, !.nacks = 0], seg.ack)
  ELSE q

(* Whether tcp_rtx_process_ack freed a segment, so that writers may go on. *)
Freed(q, seg) ==
  IF NewAck(q, seg) /\ Acked(q, seg).rtx # q.rtx /\ q.snd_wnd > 0 THEN {"WRITE"} ELSE {}

(* An established port counts acknowledgments that bring nothing new; from *)
(* the third on it sends the segment they ask for again.                   *)
EstabPart(p, q, seg) ==
  LET r    == Acked(q, seg)
      dup  == [r EXCEPT !.nacks = IF @ < 3 THEN @ + 1 ELSE @]
      fast == IF dup.nacks = 3 THEN {s \in dup.rtx : s.seq = seg.ack} ELSE {}
      flags == Freed(q, seg)
  IN \/ /\ r.snd_una # seg.ack
        /\ Finish(p, r, flags) /\ Exchange(p, seg, {})
     \/ /\ r.snd_una = seg.ack /\ fast = {}
        /\ DataPart(p, dup, seg, flags)
     \/ /\ r.snd_una = seg.ack /\ fast # {}
        /\ Release(p, dup, [NoInput EXCEPT !.at = "data", !.seg = seg, !.resume = flags])
        /\ Exchange(p, seg, fast)

(* The handshake ends; a FIN that comes instead ends it too.               *)
SynRcvdPart(p, q, seg) ==
  LET good == Cmp(q.snd_una, seg.ack) <= 0 /\ Cmp(seg.ack, q.snd_nxt) <= 0
  IN \/ /\ good
        /\ Finish(p, [q EXCEPT !.state = "ESTAB", !.snd_una = seg.ack, !.nacks = 0,
                               !.event_timer = FALSE],
                  {"READ"} \cup IF q.snd_wnd > 0 THEN {"WRITE"} ELSE {})
        /\ Exchange(p, seg, {})
     \/ /\ ~ good /\ "FIN" \in seg.flags
        /\ tcp_process_finbit(p, q, seg.seq, "LAST_ACK", {}, seg)
     \/ /\ ~ good /\ "FIN" \notin seg.flags
        /\ Release(p, q, MoveTo("CLOSED"))
        /\ Exchange(p, seg, {RstSegment(p, q, q.snd_nxt)})

(* The acknowledgment of the FIN of a port that has received the other's.  *)
LastPart(p, q, seg) ==
  LET acked == NewAck(q, seg) /\ seg.ack = q.snd_nxt
  IN /\ \/ /\ acked /\ q.state = "LAST_ACK"
           /\ Finish(p, [q EXCEPT !.state = "CLOSED", !.event_timer = FALSE],
                     {"READ", "WRITE"})
        \/ /\ acked /\ q.state # "LAST_ACK"
           /\ Finish(p, [q EXCEPT !.state = "TIME_WAIT", !.event_timer = TRUE], {})
        \/ ~ acked /\ Finish(p, q, {})
     /\ Exchange(p, seg, {})

AckPart(p, q, seg) ==
  \/ q.state = "SYN_RCVD" /\ SynRcvdPart(p, q, seg)
  \/ q.state = "ESTAB" /\ EstabPart(p, q, seg)
  \/ /\ q.state \in {"FIN_WAIT_1", "FIN_WAIT_2"}
     /\ DataPart(p, Acked(q, seg), seg, Freed(q, seg))
  \/ q.state \in {"LAST_ACK", "CLOSING", "TIME_WAIT"} /\ LastPart(p, q, seg)

(* A segment for a port with a connection.                                 *)
Synchronised(p, q, seg) ==
  LET ok == tcp_check_sequence(q, seg.seq, Len(seg.data))
  IN \/ /\ ~ ok /\ Finish(p, q, {})
        /\ Exchange(p, seg, IF "RST" \in seg.flags THEN {} ELSE {AckSegment(p, q)})
     \/ /\ ok /\ "RST" \in seg.flags
        /\ Finish(p, [q EXCEPT !.state = "CLOSED", !.event_timer = FALSE], {"READ", "WRITE"})
        /\ Exchange(p, seg, {})
     \/ /\ ok /\ "SYN" \in seg.flags
        /\ Release(p, q, MoveTo("CLOSED"))
        /\ Exchange(p, seg, {RstSegment(p, q, q.snd_nxt)})
     \/ ok /\ seg.flags \cap {"RST", "SYN"} = {} /\ AckPart(p, q, seg)

(* A connection request waits for tcp_accept, unless the system is short   *)
(* of buffers.                                                             *)
Listening(p, q, seg) ==
  \/ /\ "ACK" \in seg.flags
     /\ Finish(p, q, {}) /\ Exchange(p, seg, {RstSegment(p, q, seg.ack)})
  \/ /\ seg.flags = {"SYN"}
     /\ IF Len(q.buffer_list) < MaxQueue
        THEN Finish(p, [q EXCEPT !.buffer_list = Append(@, seg)], {"READ"})
        ELSE Finish(p, q, {})
     /\ Exchange(p, seg, {})
  \/ /\ seg.flags = {"RST"}
     /\ Finish(p, q, {}) /\ Exchange(p, seg, {})

(* The answer to our SYN.                                                  *)
SynSent(p, q, seg) ==
  LET good == Cmp(seg.ack, q.snd_una) >= 0 /\ Cmp(seg.ack, q.snd_nxt) <= 0
  IN \/ /\ "ACK" \in seg.flags /\ good /\ "SYN" \in seg.flags /\ seg.ack = q.snd_nxt
        /\ LET r == [q EXCEPT !.rcv_nxt = Plus(seg.seq, 1), !.snd_una = seg.ack, !.nacks = 0]
           IN Release(p, r, MoveTo("ESTAB")) /\ Exchange(p, seg, {AckSegment(p, r)})
     \/ /\ "ACK" \in seg.flags /\ ~ good
        /\ Finish(p, q, {}) /\ Exchange(p, seg, {RstSegment(p, q, q.snd_nxt)})
     \/ /\ \/ "ACK" \notin seg.flags
           \/ good /\ ~ ("SYN" \in seg.flags /\ seg.ack = q.snd_nxt)
        /\ IF {"ACK", "RST"} \subseteq seg.flags
           THEN Finish(p, [q EXCEPT !.state = "CLOSED", !.event_timer = FALSE], {"READ"})
           ELSE Finish(p, q, {})
        /\ Exchange(p, seg, {})

(* The first part of the handler.  Any segment sets the send window.       *)
net_process_tcp(p) ==
  /\ net[p].at = "idle"
  /\ \E seg \in {s \in wire : s.from = Peer(p)} :
       LET q == [port[p] EXCEPT !.snd_wnd = seg.wnd]
       IN \/ q.state = "CLOSED" /\ Finish(p, q, {}) /\ Exchange(p, seg, {})
          \/ q.state = "LISTEN" /\ Listening(p, q, seg)
          \/ q.state = "SYN_SENT" /\ SynSent(p, q, seg)
          \/ q.state \notin {"CLOSED", "LISTEN", "SYN_SENT"} /\ Synchronised(p, q, seg)
  /\ UNCHANGED <<app, written, got>>

NetData(p) ==
  /\ net[p].at = "data"
  /\ DataPart(p, port[p], net[p].seg, net[p].resume)
  /\ UNCHANGED <<app, written, got>>

NetFin(p) ==
  /\ net[p].at = "fin"
  /\ FinPart(p, port[p], net[p].seg, net[p].resume)
  /\ UNCHANGED <<app, written, got>>

(* The flags the move to a state resumes with.                             *)
MoveFlags(q, to) ==
  CASE to \in {"LAST_ACK", "CLOSED"} -> {"READ", "WRITE"}
    [] to = "ESTAB" -> {"READ"} \cup IF q.snd_wnd > 0 THEN {"WRITE"} ELSE {}
    [] OTHER -> {}

NetMove(p) ==
  LET k == net[p]  q == port[p]
  IN /\ k.at = "move"
     /\ Finish(p, [q EXCEPT !.snd_nxt = IF k.fin THEN Plus(q.snd_una, 1) ELSE @,
                            !.state = k.to,
                            !.event_timer = CASE k.to = "TIME_WAIT" -> TRUE
                                              [] k.to \in {"CLOSED", "ESTAB"} -> FALSE
                                              [] OTHER -> @],
               k.resume \cup MoveFlags(q, k.to))
     /\ UNCHANGED <<app, wire, written, got>>

Lose == \E seg \in wire : wire' = wire \ {seg} /\ UNCHANGED <<port, app, net, written, got>>

----------------------------------------------------------------------------
(* The application task.  at is the code it continues with: a call that    *)
(* waits (w_...), the second half of tcp_send_segment (s_...) or the code  *)
(* after it (a_...).                                                       *)
At(p, l) == app[p].at = l
Goto(p, l) == app' = [app EXCEPT ![p] = [NoCall EXCEPT !.at = l]]
SetPort(p, q) == port' = [port EXCEPT ![p] = q]

(* tcp_send_segment is called with the lock held and gives it up.          *)
CallSend(p, l, seg, left) ==
  app' = [app EXCEPT ![p] = [at |-> l, seg |-> seg, left |-> left]]

(* The second half: a retransmission structure is taken and the segment    *)
(* goes out.  Without a free structure the call fails and sends nothing.   *)
tcp_send_segment(p) ==
  LET q == port[p]  seg == app[p].seg
      after(l) == app' = [app EXCEPT ![p].at = l]
  IN /\ app[p].at \in {"s_connect", "s_accept", "s_write", "s_close"}
     /\ \/ /\ Cardinality(q.rtx) < TCP_NUM_RTX
           /\ SetPort(p, [q EXCEPT !.rtx = @ \cup {seg}, !.rtx_timer = TRUE])
           /\ Transmit({seg})
           /\ written' = [written EXCEPT ![p] = @ \o seg.data]
           /\ \/ At(p, "s_connect") /\ after("a_connect")
              \/ At(p, "s_accept") /\ after("w_estab")
              \/ At(p, "s_write") /\ after("a_write")
              \/ At(p, "s_close") /\ after("a_close")
        \/ /\ Cardinality(q.rtx) >= TCP_NUM_RTX
           /\ Goto(p, CASE At(p, "s_connect") -> "refused"
                        [] At(p, "s_accept") -> "w_estab"
                        [] OTHER -> "open")
           /\ UNCHANGED <<port, wire, written>>
     /\ UNCHANGED <<net, got>>

tcp_connect(p) ==
  LET q == [tcp_port_initialize(port[p]) EXCEPT
              !.snd_una = ISS[p], !.snd_nxt = Plus(ISS[p], 1)]
  IN /\ p = Client /\ At(p, "start") /\ port[p].state = "CLOSED"
     /\ SetPort(p, q)
     /\ CallSend(p, "s_connect", Segment(p, q, ISS[p], 0, {"SYN"}, <<>>), 0)
     /\ UNCHANGED <<net, wire, written, got>>

(* The SYN is out; only now the port is in state SYN_SENT.                 *)
ConnectSent(p) ==
  /\ At(p, "a_connect")
  /\ SetPort(p, [port[p] EXCEPT !.state = "SYN_SENT"])
  /\ Goto(p, "w_connect")
  /\ UNCHANGED <<net, wire, written, got>>

ConnectReturn(p) ==
  /\ At(p, "w_connect") /\ port[p].data /\ port[p].state # "SYN_SENT"
  /\ Goto(p, IF port[p].state = "ESTAB" THEN "open" ELSE "refused")
  /\ UNCHANGED <<port, net, wire, written, got>>

tcp_listen(p) ==
  /\ p = Server /\ At(p, "start")
  /\ SetPort(p, [port[p] EXCEPT !.state = "LISTEN"])
  /\ Goto(p, "w_accept")
  /\ UNCHANGED <<net, wire, written, got>>

(* tcp_accept with the listening port as the port of the connection.       *)
tcp_accept(p) ==
  LET q    == port[p]
      rest == Tail(q.buffer_list)
      r    == [tcp_port_initialize(q) EXCEPT
                 !.buffer_list = rest, !.data = rest # <<>>, !.state = "SYN_RCVD",
                 !.rcv_nxt = Plus(Head(q.buffer_list).seq, 1),
                 !.snd_una = ISS[p], !.snd_nxt = Plus(ISS[p], 1)]
  IN /\ At(p, "w_accept") /\ q.data
     /\ q.buffer_list # <<>>
     /\ SetPort(p, r)
     /\ CallSend(p, "s_accept", Segment(p, r, ISS[p], r.rcv_nxt, {"SYN", "ACK"}, <<>>), 0)
     /\ UNCHANGED <<net, wire, written, got>>

(* The wait for the handshake, on the same condition as before.            *)
AcceptReturn(p) ==
  LET q == port[p]
  IN /\ At(p, "w_estab") /\ q.data
     /\ SetPort(p, [q EXCEPT !.data = q.buffer_list # <<>>,
                             !.space = @ \/ (q.state = "ESTAB" /\ q.snd_wnd > 0)])
     /\ Goto(p, IF q.state = "ESTAB" THEN "open" ELSE "refused")
     /\ UNCHANGED <<net, wire, written, got>>

(* fs_write of n bytes: waits for space, then tcp_write_data.  The number  *)
(* of bytes of the next segment:                                           *)
NextBytes(q, n) ==
  IF n > MSS THEN MSS ELSE IF n > q.snd_wnd THEN q.snd_wnd ELSE n

(* One turn of the loop of tcp_write_data.                                 *)
WriteTurn(p, q, n) ==
  LET k == NextBytes(q, n)
  IN \/ /\ n > 0 /\ q.snd_wnd # 0
        /\ SetPort(p, q)
        /\ CallSend(p, "s_write",
             Segment(p, q, q.snd_nxt, q.rcv_nxt, {"ACK"},
                     [i \in 1 .. k |-> Len(written[p]) + i]), n - k)
     \/ /\ n > 0 /\ q.snd_wnd = 0
        /\ SetPort(p, [q EXCEPT !.space = FALSE])
        /\ Goto(p, "open")
     \/ n = 0 /\ SetPort(p, q) /\ Goto(p, "open")

tcp_write_data(p, n) ==
  /\ At(p, "open") /\ port[p].space /\ port[p].state = "ESTAB"
  /\ n <= MaxData[p] - Len(written[p])
  /\ WriteTurn(p, port[p], n)
  /\ UNCHANGED <<net, wire, written, got>>

(* The segment is out; only now SND.NXT moves past it.                     *)
WriteSent(p) ==
  LET q == port[p]
      k == Len(app[p].seg.data)
      w == IF q.snd_wnd > k THEN q.snd_wnd - k ELSE 0
  IN /\ At(p, "a_write")
     /\ \/ /\ q.state = "ESTAB"
           /\ WriteTurn(p, [q EXCEPT !.snd_nxt = Plus(@, k), !.snd_wnd = w,
                                     !.space = @ /\ w # 0], app[p].left)
        \/ q.state # "ESTAB" /\ Goto(p, "open") /\ UNCHANGED port
     /\ UNCHANGED <<net, wire, written, got>>

(* fs_read of at most n bytes: waits for data; what is left of it waits    *)
(* for the next call.                                                      *)
tcp_read_data(p, n) ==
  LET q == port[p]
      k == IF n < Len(q.rx_buffer) THEN n ELSE Len(q.rx_buffer)
      rest == SubSeq(q.rx_buffer, k + 1, Len(q.rx_buffer))
  IN /\ At(p, "open") /\ q.data
     /\ got' = [got EXCEPT ![p] = @ \o SubSeq(q.rx_buffer, 1, k)]
     /\ SetPort(p, [q EXCEPT !.rx_buffer = rest,
                             !.data = rest # <<>> \/ q.state # "ESTAB"])
     /\ UNCHANGED <<app, net, wire, written>>

(* Mutant: the retransmission list is kept.                                *)
CloseKeepsRtx(p, q) ==
  IF q.state = "CLOSED"
  THEN SetPort(p, tcp_resume_socket(q, {"READ", "WRITE"})) /\ Goto(p, "closed")
  ELSE SetPort(p, q) /\ Goto(p, "w_closed")

(* tcp_close: the end of its wait for the closed state.                    *)
CloseEnd(p, q) ==
  IF q.state = "CLOSED"
  THEN /\ SetPort(p, tcp_resume_socket(tcp_rtx_free_all(q), {"READ", "WRITE"}))
       /\ Goto(p, "closed")
  ELSE SetPort(p, q) /\ Goto(p, "w_closed")

tcp_close(p) ==
  LET q == port[p]
  IN /\ p \in Closers /\ app[p].at \in {"open", "refused"}
     /\ \/ /\ q.state \in {"SYN_RCVD", "ESTAB"}
           /\ Goto(p, "w_space") /\ UNCHANGED port
        \/ /\ q.state \notin {"SYN_RCVD", "ESTAB"}
           /\ CloseEnd(p, IF q.state \in {"LISTEN", "SYN_SENT"} THEN [q EXCEPT !.state = "CLOSED"] ELSE q)
     /\ UNCHANGED <<net, wire, written, got>>

(* There is space to write: the FIN goes out, whatever the state is now.   *)
CloseSpace(p) ==
  /\ At(p, "w_space") /\ port[p].space
  /\ CallSend(p, "s_close", FinSegment(p, port[p]), 0)
  /\ UNCHANGED <<port, net, wire, written, got>>

CloseSent(p) ==
  /\ At(p, "a_close")
  /\ SetPort(p, [port[p] EXCEPT !.snd_nxt = Plus(@, 1), !.state = "FIN_WAIT_1"])
  /\ Goto(p, "w_closed")
  /\ UNCHANGED <<net, wire, written, got>>

CloseWake(p) ==
  /\ At(p, "w_closed") /\ port[p].data
  /\ CloseEnd(p, [port[p] EXCEPT !.data = FALSE])
  /\ UNCHANGED <<net, wire, written, got>>

----------------------------------------------------------------------------
Init ==
  /\ port = [p \in Ports |-> NewPort]
  /\ app = [p \in Ports |-> NoCall]
  /\ net = [p \in Ports |-> NoInput]
  /\ wire = {}
  /\ written = [p \in Ports |-> <<>>]
  /\ got = [p \in Ports |-> <<>>]

NetTask(p) == net_process_tcp(p) \/ NetData(p) \/ NetFin(p) \/ NetMove(p)

AppTask(p) ==
  \/ tcp_send_segment(p)
  \/ tcp_connect(p) \/ ConnectSent(p) \/ ConnectReturn(p)
  \/ tcp_listen(p) \/ tcp_accept(p) \/ AcceptReturn(p)
  \/ WriteSent(p)
  \/ CloseSpace(p) \/ CloseSent(p) \/ CloseWake(p)

AppCall(p) ==
  \/ \E n \in 1 .. MaxData[p] : tcp_write_data(p, n)
  \/ \E n \in 1 .. MaxRead : tcp_read_data(p, n)
  \/ tcp_close(p)

Next ==
  \/ \E p \in Ports :
       NetTask(p) \/ tcp_timeout_callback(p) \/ AppTask(p) \/ AppCall(p)
  \/ Lose

Spec == Init /\ [][Next]_vars

----------------------------------------------------------------------------
(* A connection is a pair of byte streams: what an application has read,   *)
(* and what waits for it, grows along what the other one sent; nothing is  *)
(* lost in between, doubled or swapped (tcp_rx_buffer_merge,               *)
(* tcp_read_data).                                                         *)
Stream == INSTANCE ByteStream WITH
            sent <- written,
            delivered <- [p \in Ports |-> got[p] \o port[p].rx_buffer]
StreamSpec == Stream!Spec

(* The same as an invariant, for the larger instances with closing ports.  *)
DeliveredPrefix ==
  \A p \in Ports : IsPrefix(got[p] \o port[p].rx_buffer, written[Peer(p)])

Received(p) == Len(got[p]) + Len(port[p].rx_buffer)

(* Nothing is acknowledged that was not received: all bytes below SND.UNA  *)
(* of an established port are at the other side (tcp_rx_buffer_merge, the  *)
(* acknowledgment part of net_process_tcp).                                *)
AckedReceived ==
  \A p \in Ports :
    port[p].state = "ESTAB" =>
      Cmp(port[p].snd_una, Plus(ISS[p], 1)) <= Received(Peer(p))

(* Every byte sent and not yet received is in a segment that its port will *)
(* send again: the retransmission list holds it and the timer runs         *)
(* (tcp_send_segment, tcp_rtx_process_ack).  Ports that do not close.      *)
RtxPending ==
  \A p \in Ports : \A i \in Received(Peer(p)) + 1 .. Len(written[p]) :
    /\ port[p].rtx_timer
    /\ \E s \in port[p].rtx : i \in Range(s.data)

(* When tcp_close has returned the port is at rest: it stays closed, holds *)
(* no segment to send again, no timer runs and no input is half done.      *)
ClosedAtRest ==
  \A p \in Ports : At(p, "closed") =>
    /\ port[p].state = "CLOSED" /\ port[p].rtx = {}
    /\ ~ port[p].rtx_timer /\ ~ port[p].event_timer
    /\ net[p].at = "idle"

(* tcp_close: "Queue this CLOSE request until all queued SENDs have been   *)
(* segmentized and sent and ACKed."  The FIN goes out after everything     *)
(* before it was acknowledged.                                             *)
CloseAfterAcks ==
  \A p \in Ports : At(p, "a_close") => port[p].snd_una = port[p].snd_nxt
============================================================================
