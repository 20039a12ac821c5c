----------------------------- MODULE MCIpv4Frag -----------------------------
(* One datagram of six fragments, delivered twice, for TLC.                *)
EXTENDS Ipv4Frag

CONSTANT d1

Lengths == d1 :> 6
============================================================================
