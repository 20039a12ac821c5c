------------------------------- MODULE MCTcp -------------------------------
(* Small instances of Tcp for TLC.  The client's sequence numbers wrap     *)
(* after the first byte it sends, or after the second.                     *)
EXTENDS Tcp

InitialNumbers == [p \in Ports |-> IF p = Client THEN SEQ_RANGE - 2 ELSE 1]
WrapsLater     == [p \in Ports |-> IF p = Client THEN SEQ_RANGE - 3 ELSE 1]
ThreeBytes     == [p \in Ports |-> IF p = Client THEN 3 ELSE 0]
OneByte        == [p \in Ports |-> IF p = Client THEN 1 ELSE 0]
============================================================================
