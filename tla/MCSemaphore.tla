----------------------------- MODULE MCSemaphore -----------------------------
(* Small instances of Semaphore for TLC.                                   *)
EXTENDS Semaphore

CONSTANTS high, low, low2, idle, s1

Priorities == high :> 1 @@ low :> 2 @@ low2 :> 2 @@ idle :> 255
Pair       == high :> 1 @@ low :> 2 @@ idle :> 255
Lowest     == s1 :> 254
Binary     == s1 :> 1
Forever    == {MAX_WAIT}
ShortWait  == {0, 1, MAX_WAIT}

LowSymmetry == Permutations({low, low2})

HighSleeps == [t \in Tasks |-> IF t = high THEN {1} ELSE {}]
One        == [t \in Tasks |-> IF t = idle THEN {} ELSE {1}]
Equals     == [t \in Tasks |-> IF t = idle THEN 255 ELSE 2]
Never      == [t \in Tasks |-> {}]

EqualSymmetry == Permutations(Tasks \ {idle})
============================================================================
