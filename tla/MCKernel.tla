------------------------------ MODULE MCKernel ------------------------------
(* Small instances of Kernel for TLC.                                      *)
EXTENDS Kernel, TLC

CONSTANTS high, low, low2, idle

ThreePriorities == high :> 1 @@ low :> 2 @@ idle :> 255
TwoEqual        == high :> 1 @@ low :> 2 @@ low2 :> 2 @@ idle :> 255

One       == [t \in Tasks |-> IF t = idle THEN {} ELSE {1}]
Different == high :> {0, 2} @@ low :> {1} @@ low2 :> {} @@ idle :> {}
============================================================================
