-------------------------------- MODULE Tftp --------------------------------
(***************************************************************************)
(* The TFTP server (api/tftp/tftps.c): one session at a time, with clients *)
(* that read a file or write one of their own over a network that loses,   *)
(* repeats and reorders datagrams.  The server handles a datagram in one   *)
(* call of its callback; its timeout may come between any two.             *)
(*                                                                         *)
(* A file is a sequence of blocks, of which only the last is shorter than  *)
(* TFTP_BLOCK_SIZE.  Block i of the file that is read is i, block i of the *)
(* file that client c writes is <<c, i>>.                                  *)
(***************************************************************************)
EXTENDS Integers, Sequences, FiniteSets

CONSTANTS
  Readers, Writers,    \* clients; each transfer has its own address
  Closed,              \* the descriptor when no file is open
  FileBlocks,          \* blocks of every file
  BlockRange,          \* 2^16: values of block_num
  MaxDatagrams         \* datagrams on their way

ASSUME TftpAssumption ==
  /\ FileBlocks \in Nat \ {0} /\ BlockRange \in Nat /\ BlockRange > FileBlocks
  /\ MaxDatagrams \in Nat \ {0} /\ Readers \cap Writers = {}
  /\ Closed \notin {"READ_REQ", "WRITE_REQ"}

VARIABLES
  server,      \* TFTP_SERVER, with the position in the file that is read
  written,     \* blocks in the file of each writer
  requests,    \* datagrams on their way to the server
  answers,     \* datagrams on their way to the clients
  client       \* what each client does, and its last block

tftpVars == <<server, written, requests, answers, client>>

Clients == Readers \cup Writers

(* Without a session only fd and the timer are read; the rest is set anew  *)
(* by the next session.                                                    *)
NoSession == [fd |-> Closed, client |-> Closed, block_num |-> 0, last_block |-> FALSE,
              timer |-> FALSE, position |-> 0]

TftpInit ==
  /\ server = NoSession
  /\ written = [w \in Writers |-> <<>>]
  /\ requests = {} /\ answers = {}
  /\ client = [c \in Clients |-> [at |-> "ask", block |-> 0, data |-> <<>>]]

Datagram(c, op, block, data, short) ==
  [client |-> c, op |-> op, block |-> block, data |-> data, short |-> short]
Control(c, op, block) == Datagram(c, op, block, <<>>, FALSE)

(* A datagram is sent, and may be lost.                                    *)
Sent(net, d) == {net} \cup (IF Cardinality(requests) + Cardinality(answers) < MaxDatagrams
                            THEN {net \cup {d}} ELSE {})

(* A datagram is taken from the network, or repeated by it.                *)
Taken(net, d) == {net, net \ {d}}

----------------------------------------------------------------------------
(* The server.                                                             *)

(* There is a session of client c.                                         *)
Serving(c) == server.fd # Closed /\ server.client = c

Answer(d) == answers' \in Sent(answers, d)
NoAnswer == UNCHANGED answers

(* The error answer, which also ends a session of this client.             *)
Refuse(c) ==
  /\ server' = IF Serving(c) THEN NoSession ELSE server
  /\ Answer(Control(c, "ERR", 0))

(* The next block of the file is read and sent.  When there is no buffer   *)
(* for the answer, or a read fails, the server takes the block for the     *)
(* last one.                                                               *)
SendBlock(s, c) ==
  LET n == (s.block_num + 1) % BlockRange
      i == s.position + 1
  IN  \/ \E short \in {TRUE, i = FileBlocks} :
           /\ server' = [s EXCEPT !.block_num = n, !.position = i, !.last_block = short,
                                  !.timer = TRUE]
           /\ Answer(Datagram(c, "DATA", n, <<i>>, short))
      \/ /\ server' = [s EXCEPT !.block_num = n, !.position = i, !.last_block = TRUE,
                                !.timer = TRUE]
         /\ NoAnswer

(* TFTP_OP_READ_REQ and TFTP_OP_WRITE_REQ.  A file that is opened to be    *)
(* written is empty.                                                       *)
OpenRequest(m) ==
  LET c == m.client
      s == [fd |-> m.op, client |-> c, block_num |-> 0, last_block |-> FALSE, timer |-> TRUE,
            position |-> 0]
  IN  /\ m.op \in {"READ_REQ", "WRITE_REQ"}
      /\ \/ server.fd = Closed /\ m.op = "READ_REQ" /\ SendBlock(s, c) /\ UNCHANGED written
         \/ /\ server.fd = Closed /\ m.op = "WRITE_REQ"
            /\ server' = s
            /\ written' = [written EXCEPT ![c] = <<>>]
            /\ Answer(Control(c, "ACK", 0))
         \/ Refuse(c) /\ UNCHANGED written

(* Mutant: a block that was written before is written again.               *)
AnticipatedOrOld(block) == block <= server.block_num + 1

(* The block after the last one that was written.                          *)
Anticipated(block) == block = server.block_num + 1

(* TFTP_OP_DATA.  A block that is not the next one is acknowledged again;  *)
(* any short block ends the session.                                       *)
DataRequest(m) ==
  LET c     == m.client
      fresh == Anticipated(m.block)
      s     == [server EXCEPT !.block_num = IF fresh THEN m.block ELSE @, !.timer = TRUE]
  IN  /\ m.op = "DATA"
      /\ \/ /\ Serving(c) /\ m.block <= server.block_num + 1
            /\ written' = IF fresh THEN [written EXCEPT ![c] = @ \o m.data] ELSE written
            /\ server' = IF m.short THEN NoSession ELSE s
            /\ Answer(Control(c, "ACK", s.block_num))
         \/ /\ Serving(c) => m.block > server.block_num
            /\ Refuse(c) /\ UNCHANGED written

(* TFTP_OP_ACK.                                                            *)
AckRequest(m) ==
  LET c == m.client
  IN  /\ m.op = "ACK" /\ UNCHANGED written
      /\ \/ Serving(c) /\ m.block = server.block_num /\ server.last_block
              /\ server' = NoSession /\ NoAnswer
         \/ Serving(c) /\ m.block = server.block_num /\ ~ server.last_block
              /\ SendBlock(server, c)
         \/ ~ (Serving(c) /\ m.block = server.block_num) /\ Refuse(c)

(* TFTP_OP_ERR.                                                            *)
ErrorRequest(m) ==
  /\ m.op = "ERR"
  /\ server' = IF Serving(m.client) THEN NoSession ELSE server
  /\ NoAnswer /\ UNCHANGED written

tftp_server_process ==
  \E m \in requests :
    /\ OpenRequest(m) \/ DataRequest(m) \/ AckRequest(m) \/ ErrorRequest(m)
    /\ requests' \in Taken(requests, m)
    /\ UNCHANGED client

(* The timeout of the session.                                             *)
ServerTimeout ==
  /\ server.timer
  /\ server' = NoSession
  /\ UNCHANGED <<written, requests, answers, client>>

----------------------------------------------------------------------------
(* The clients, as the protocol has them.                                  *)

(* The last request of a client, sent first or again.                      *)
LastRequest(c) ==
  LET n == client[c].block
  IN  IF client[c].at = "ask"
      THEN Control(c, IF c \in Readers THEN "READ_REQ" ELSE "WRITE_REQ", 0)
      ELSE IF c \in Readers THEN Control(c, "ACK", n)
      ELSE Datagram(c, "DATA", n, <<<<c, n>>>>, n = FileBlocks)

ClientSends(c) ==
  /\ client[c].at \in {"ask", "transfer"}
  /\ requests' \in Sent(requests, LastRequest(c))
  /\ UNCHANGED <<server, written, answers, client>>

(* The client stops, and may say so.                                       *)
ClientStops(c) ==
  /\ client[c].at \in {"ask", "transfer"}
  /\ client' = [client EXCEPT ![c].at = "stopped"]
  /\ requests' \in Sent(requests, Control(c, "ERR", 0))
  /\ UNCHANGED <<server, written, answers>>

(* A reader takes the block after its last; a writer goes on when its last *)
(* block is acknowledged; others are left aside.                           *)
ClientReceives ==
  \E a \in answers :
    LET c == a.client
        k == client[c]
    IN  /\ answers' \in Taken(answers, a)
        /\ client' = [client EXCEPT ![c] =
             CASE k.at = "stopped" -> k
               [] k.at # "stopped" /\ a.op = "ERR" -> [k EXCEPT !.at = "stopped"]
               [] k.at # "stopped" /\ a.op = "DATA" /\ a.block = k.block + 1 ->
                    [k EXCEPT !.at = "transfer", !.block = a.block, !.data = @ \o a.data]
               [] k.at # "stopped" /\ a.op = "ACK" /\ a.block = k.block ->
                    IF k.block = FileBlocks THEN [k EXCEPT !.at = "stopped"]
                    ELSE [k EXCEPT !.at = "transfer", !.block = @ + 1]
               [] OTHER -> k]
        /\ UNCHANGED <<server, written, requests>>

TftpNext ==
  \/ tftp_server_process \/ ServerTimeout
  \/ \E c \in Clients : ClientSends(c) \/ ClientStops(c)
  \/ ClientReceives

TftpSpec == TftpInit /\ [][TftpNext]_tftpVars

----------------------------------------------------------------------------
(* Whatever the network does to datagrams, the server moves the blocks of  *)
(* a file in their order: what a reader has accepted is the start of the   *)
(* file, and the file of a writer in session holds the blocks that were    *)
(* acknowledged, each once.  A session never outlives its client: the      *)
(* timer runs while a file is open (tftp_server_process).                  *)
TransferExact ==
  /\ \A r \in Readers : client[r].data = [i \in 1 .. client[r].block |-> i]
  /\ server.fd = "WRITE_REQ" =>
       written[server.client] = [i \in 1 .. server.block_num |-> <<server.client, i>>]
  /\ server.fd # Closed => server.timer

----------------------------------------------------------------------------
(* The inductive invariant behind TransferExact.                           *)

ServerSet == [fd : {Closed, "READ_REQ", "WRITE_REQ"}, client : Clients \cup {Closed},
              block_num : Nat, last_block : BOOLEAN, timer : BOOLEAN, position : Nat]
PeerSet == [at : {"ask", "transfer", "stopped"}, block : Nat, data : Seq(Nat)]

(* What a client may have sent: a datagram is named by its block.          *)
RequestOK(m) ==
  /\ m.client \in Clients /\ m.block \in Nat
  /\ m.op \in IF m.client \in Readers THEN {"READ_REQ", "ACK", "ERR"}
              ELSE {"WRITE_REQ", "DATA", "ERR"}
  /\ m.op = "DATA" => m.data = <<<<m.client, m.block>>>>

(* What the server may have answered.                                      *)
AnswerOK(a) ==
  /\ a.client \in Clients /\ a.block \in Nat
  /\ a.op \in IF a.client \in Readers THEN {"DATA", "ERR"} ELSE {"ACK", "ERR"}
  /\ a.op = "DATA" => a.data = <<a.block>>

(* The position in the file that is read is the block that was sent last,  *)
(* and the session ends with the last block: block_num does not wrap.      *)
SessionOK ==
  /\ server.fd = "READ_REQ" =>
       /\ server.client \in Readers /\ server.block_num = server.position
       /\ server.position <= FileBlocks
       /\ server.position = FileBlocks => server.last_block
  /\ server.fd = "WRITE_REQ" => server.client \in Writers

TftpInvariant ==
  /\ server \in ServerSet /\ client \in [Clients -> PeerSet]
  /\ written \in [Writers -> Seq(Writers \X Nat)]
  /\ \A m \in requests : RequestOK(m)
  /\ \A a \in answers : AnswerOK(a)
  /\ SessionOK /\ TransferExact
============================================================================
