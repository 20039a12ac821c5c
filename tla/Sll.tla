-------------------------------- MODULE Sll --------------------------------
(***************************************************************************)
(* The singly linked lists of rtos/utils/sll.c, as the sequences of nodes  *)
(* that are reached from the list head.  Every kernel list (ready tasks,   *)
(* sleeping tasks, suspends of a condition) is one of these.               *)
(***************************************************************************)
EXTENDS Naturals, Sequences, SequencesExt

sll_push(list, node) == <<node>> \o list

sll_append(list, node) == Append(list, node)

(***************************************************************************)
(* sll_insert walks the list and stops at the first member the new node    *)
(* sorts before.  The sort function is given as the set of members for     *)
(* which it returns TRUE.                                                  *)
(***************************************************************************)
InsertPosition(list, later) ==
  CHOOSE i \in 1 .. Len(list) + 1 :
    /\ \A j \in 1 .. i - 1 : list[j] \notin later
    /\ i <= Len(list) => list[i] \in later

sll_insert(list, node, later) ==
  InsertAt(list, InsertPosition(list, later), node)

sll_in_list(list, node) == \E i \in 1 .. Len(list) : list[i] = node

FirstPosition(list, node) ==
  CHOOSE i \in 1 .. Len(list) :
    /\ list[i] = node
    /\ \A j \in 1 .. i - 1 : list[j] # node

(* sll_remove leaves the list alone when the node is not in it.            *)
sll_remove(list, node) ==
  IF sll_in_list(list, node)
  THEN RemoveAt(list, FirstPosition(list, node))
  ELSE list

NoDuplicates(list) ==
  \A i, j \in 1 .. Len(list) : list[i] = list[j] => i = j
============================================================================
