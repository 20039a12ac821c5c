----------------------------- MODULE MCNetTask -----------------------------
(* Small instances of NetTask for TLC.                                     *)
EXTENDS NetTask

CONSTANTS p1, p2

(* A port is registered and unregistered again and again beside one that   *)
(* stays; both are unregistered; both are registered.                      *)
Owners == {[register |-> {p1}, unregister |-> {p1}], [register |-> {}, unregister |-> Ports],
           [register |-> Ports, unregister |-> {}]}
============================================================================
