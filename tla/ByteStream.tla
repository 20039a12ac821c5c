----------------------------- MODULE ByteStream -----------------------------
(***************************************************************************)
(* What a connection promises to the two applications: a stream of bytes   *)
(* in each direction.  Bytes are sent at its end and delivered from its    *)
(* beginning, each once and in order; nothing is taken back.               *)
(***************************************************************************)
EXTENDS Sequences, SequencesExt

CONSTANTS Ports, Peer(_)

VARIABLES
  sent,        \* bytes each application has sent
  delivered    \* bytes that have arrived for each application

streamVars == <<sent, delivered>>

Init == sent = [p \in Ports |-> <<>>] /\ delivered = [p \in Ports |-> <<>>]

Send(p) ==
  /\ IsStrictPrefix(sent[p], sent'[p])
  /\ sent' = [sent EXCEPT ![p] = sent'[p]]
  /\ UNCHANGED delivered

Deliver(p) ==
  /\ IsStrictPrefix(delivered[p], delivered'[p])
  /\ IsPrefix(delivered'[p], sent[Peer(p)])
  /\ delivered' = [delivered EXCEPT ![p] = delivered'[p]]
  /\ UNCHANGED sent

Next == \E p \in Ports : Send(p) \/ Deliver(p)

Spec == Init /\ [][Next]_streamVars
============================================================================
