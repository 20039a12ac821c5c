----------------------------- MODULE ByteLists -----------------------------
(***************************************************************************)
(* What the buffer lists of a descriptor promise to their users: each list *)
(* holds a sequence of bytes, whatever the buffers it is cut into.         *)
(***************************************************************************)
EXTENDS Naturals, Sequences, SequencesExt

CONSTANTS
  Lists,
  Fields     \* the byte sequences that programs add

VARIABLE content     \* the bytes of each list

Init == content = [l \in Lists |-> <<>>]

(* What the calls on a list l, and on lists l and m, can make of contents  *)
(* c.                                                                      *)

Clear(c, l) == {[c EXCEPT ![l] = <<>>]}

Prepend(c, l) == {[c EXCEPT ![l] = field \o @] : field \in Fields}
Extend(c, l) == {[c EXCEPT ![l] = @ \o field] : field \in Fields}

(* Bytes in the middle are replaced.                                       *)
Overwrite(c, l) ==
  UNION {{[c EXCEPT ![l] = SubSeq(@, 1, lo) \o field \o SubSeq(@, lo + Len(field) + 1, Len(@))]
            : lo \in 0 .. Len(c[l]) - Len(field)} : field \in Fields}

TakeFirst(c, l) == {[c EXCEPT ![l] = SubSeq(@, n + 1, Len(@))] : n \in 1 .. Len(c[l])}
DropLast(c, l) == {[c EXCEPT ![l] = SubSeq(@, 1, Len(@) - n)] : n \in 1 .. Len(c[l])}

(* The bytes behind a place in l go to the empty list m.                   *)
Split(c, l, m) ==
  {[c EXCEPT ![l] = SubSeq(@, 1, n), ![m] = SubSeq(c[l], n + 1, Len(c[l]))]
     : n \in {k \in 1 .. Len(c[l]) - 1 : c[m] = <<>>}}

Join(c, l, m) == {[c EXCEPT ![l] = c[m] \o @, ![m] = <<>>],
                  [c EXCEPT ![l] = @ \o c[m], ![m] = <<>>]}

(* The bytes of m, as many of them as there is space for.                  *)
Copy(c, l, m) == {[c EXCEPT ![l] = @ \o SubSeq(c[m], 1, n)] : n \in 0 .. Len(c[m])}

(* A call that leaves every list as it was is a stuttering step.           *)
Next ==
  /\ content' # content
  /\ \E l \in Lists :
       \/ content' \in Clear(content, l) \cup Prepend(content, l) \cup Extend(content, l)
                       \cup Overwrite(content, l)
                       \cup TakeFirst(content, l) \cup DropLast(content, l)
       \/ \E m \in Lists \ {l} :
            content' \in Split(content, l, m) \cup Join(content, l, m) \cup Copy(content, l, m)

Spec == Init /\ [][Next]_content
============================================================================
