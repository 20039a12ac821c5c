----------------------------- MODULE SllProofs -----------------------------
(***************************************************************************)
(* What the list operations of Sll return, for lists of any length.        *)
(***************************************************************************)
EXTENDS Sll, Integers, WellFoundedInduction, SequenceTheorems, TLAPS

(* A set of positive numbers that is not empty has a least element.        *)
LEMMA LeastElement ==
  ASSUME NEW D, D \subseteq Nat, D # {}
  PROVE  \E i \in D : \A j \in D : i <= j
<1> DEFINE R == OpToRel(<, Nat)
<1>1. \E i \in D : \A j \in D : ~ (<<j, i>> \in R)
  <2>1. IsWellFoundedOn(R, Nat)
    BY NatLessThanWellFounded
  <2> HIDE DEF R
  <2> QED  BY <2>1, WFMin
<1>2. \A i, j \in Nat : <<j, i>> \in R <=> j < i
  BY DEF OpToRel
<1> HIDE DEF R
<1>3. PICK i \in D : \A j \in D : ~ (<<j, i>> \in R)
  BY <1>1
<1>4. \A j \in D : i <= j
  <2> TAKE j \in D
  <2>1. i \in Nat /\ j \in Nat
    OBVIOUS
  <2>2. ~ (<<j, i>> \in R)
    BY <1>3
  <2>3. ~ (j < i)
    BY <1>2, <2>1, <2>2
  <2> QED  BY <2>1, <2>3
<1> QED  BY <1>4

(* sll_insert stops at a position of the list or behind it: everything     *)
(* before it sorts before the new node, the member there sorts behind it.  *)
LEMMA InsertPositionProperties ==
  ASSUME NEW S, NEW list \in Seq(S), NEW later
  PROVE  /\ InsertPosition(list, later) \in 1 .. Len(list) + 1
         /\ \A j \in 1 .. InsertPosition(list, later) - 1 : list[j] \notin later
         /\ InsertPosition(list, later) <= Len(list) =>
              list[InsertPosition(list, later)] \in later
<1> DEFINE D == {i \in 1 .. Len(list) + 1 : i <= Len(list) => list[i] \in later}
<1>1. Len(list) \in Nat
  OBVIOUS
<1>2. D \subseteq Nat /\ Len(list) + 1 \in D
  BY <1>1
<1>3. PICK i \in D : \A j \in D : i <= j
  <2> HIDE DEF D
  <2> QED  BY <1>2, LeastElement
<1>4. \A j \in 1 .. i - 1 : list[j] \notin later
  <2> TAKE j \in 1 .. i - 1
  <2>1. j \in 1 .. Len(list) + 1 /\ j < i /\ j <= Len(list)
    BY <1>1
  <2>2. j \notin D
    BY <1>1, <1>3, <2>1
  <2> QED  BY <2>1, <2>2
<1>5. \E k \in 1 .. Len(list) + 1 :
        /\ \A j \in 1 .. k - 1 : list[j] \notin later
        /\ k <= Len(list) => list[k] \in later
  BY <1>4
<1> QED  BY <1>5 DEF InsertPosition

(* InsertAt, member by member.                                             *)
LEMMA InsertAtProperties ==
  ASSUME NEW S, NEW list \in Seq(S), NEW x \in S, NEW p \in 1 .. Len(list) + 1
  PROVE  /\ InsertAt(list, p, x) \in Seq(S)
         /\ Len(InsertAt(list, p, x)) = Len(list) + 1
         /\ \A i \in 1 .. Len(list) + 1 : InsertAt(list, p, x)[i] =
              IF i < p THEN list[i] ELSE IF i = p THEN x ELSE list[i - 1]
<1> DEFINE a == SubSeq(list, 1, p - 1)
           b == SubSeq(list, p, Len(list))
<1>1. /\ a \in Seq(S) /\ Len(a) = p - 1
      /\ \A i \in 1 .. p - 1 : a[i] = list[i]
  BY SubSeqProperties
<1>2. /\ b \in Seq(S) /\ Len(b) = Len(list) - p + 1
      /\ \A i \in 1 .. Len(list) - p + 1 : b[i] = list[p + i - 1]
  BY SubSeqProperties
<1>3. InsertAt(list, p, x) = a \o <<x>> \o b
  BY DEF InsertAt
<1> DEFINE c == a \o <<x>>
<1> HIDE DEF a, b
<1>4. /\ c \in Seq(S) /\ Len(c) = p
      /\ \A i \in 1 .. p : c[i] = IF i < p THEN list[i] ELSE x
  <2>1. <<x>> \in Seq(S) /\ Len(<<x>>) = 1 /\ <<x>>[1] = x
    OBVIOUS
  <2>2. /\ c \in Seq(S) /\ Len(c) = Len(a) + 1
        /\ \A i \in 1 .. Len(a) + 1 :
             c[i] = IF i <= Len(a) THEN a[i] ELSE <<x>>[i - Len(a)]
    BY <1>1, <2>1, ConcatProperties
  <2> QED  BY <1>1, <2>1, <2>2
<1> HIDE DEF c
<1>5. /\ c \o b \in Seq(S) /\ Len(c \o b) = Len(c) + Len(b)
      /\ \A i \in 1 .. Len(c) + Len(b) :
           (c \o b)[i] = IF i <= Len(c) THEN c[i] ELSE b[i - Len(c)]
  BY <1>2, <1>4, ConcatProperties
<1>6. InsertAt(list, p, x) = c \o b
  BY <1>3 DEF c
<1>7. Len(c) + Len(b) = Len(list) + 1
  BY <1>2, <1>4
<1>8. ASSUME NEW i \in 1 .. Len(list) + 1
      PROVE  (c \o b)[i] = IF i < p THEN list[i]
                           ELSE IF i = p THEN x ELSE list[i - 1]
  <2>1. CASE i <= p
    BY <2>1, <1>4, <1>5, <1>7
  <2>2. CASE i > p
    <3>1. (c \o b)[i] = b[i - p]
      BY <2>2, <1>4, <1>5, <1>7
    <3>2. i - p \in 1 .. Len(list) - p + 1
      BY <2>2
    <3>3. b[i - p] = list[p + (i - p) - 1]
      BY <3>2, <1>2
    <3> QED  BY <2>2, <3>1, <3>3
  <2>3. i <= p \/ i > p
    OBVIOUS
  <2> QED  BY <2>1, <2>2, <2>3
<1> QED  BY <1>5, <1>6, <1>7, <1>8

(* The members of a sequence are what its positions hold.                  *)
LEMMA ToSetMember ==
  ASSUME NEW S, NEW list \in Seq(S), NEW x
  PROVE  x \in ToSet(list) <=> \E i \in 1 .. Len(list) : list[i] = x
BY DEF ToSet

(* sll_insert adds the node to the members and nothing else; a list        *)
(* without duplicates that does not hold the node stays without.           *)
LEMMA SllInsertMembers ==
  ASSUME NEW S, NEW list \in Seq(S), NEW x \in S, NEW later
  PROVE  /\ sll_insert(list, x, later) \in Seq(S)
         /\ ToSet(sll_insert(list, x, later)) = ToSet(list) \cup {x}
         /\ NoDuplicates(list) /\ x \notin ToSet(list)
              => NoDuplicates(sll_insert(list, x, later))
<1> DEFINE p == InsertPosition(list, later)
           new == sll_insert(list, x, later)
<1>1. p \in 1 .. Len(list) + 1
  BY InsertPositionProperties
<1>2. new = InsertAt(list, p, x)
  BY DEF sll_insert
<1> HIDE DEF p, new
<1>3. /\ new \in Seq(S)
      /\ Len(new) = Len(list) + 1
      /\ \A i \in 1 .. Len(list) + 1 : new[i] =
           IF i < p THEN list[i] ELSE IF i = p THEN x ELSE list[i - 1]
  <2>1. \A q \in 1 .. Len(list) + 1 :
          /\ InsertAt(list, q, x) \in Seq(S)
          /\ Len(InsertAt(list, q, x)) = Len(list) + 1
          /\ \A i \in 1 .. Len(list) + 1 : InsertAt(list, q, x)[i] =
               IF i < q THEN list[i] ELSE IF i = q THEN x ELSE list[i - 1]
    BY InsertAtProperties
  <2> QED  BY <1>1, <1>2, <2>1
<1>4. Len(list) \in Nat
  OBVIOUS
<1>5. ASSUME NEW y \in ToSet(list) \cup {x}
      PROVE  y \in ToSet(new)
  <2>1. CASE y = x
    <3>1. new[p] = x /\ p \in 1 .. Len(new)
      BY <1>1, <1>3, <1>4
    <3> QED  BY <2>1, <3>1, <1>3, ToSetMember
  <2>2. CASE y \in ToSet(list)
    <3>1. PICK i \in 1 .. Len(list) : list[i] = y
      BY <2>2, ToSetMember
    <3>2. CASE i < p
      <4>1. new[i] = y /\ i \in 1 .. Len(new)
        BY <3>1, <3>2, <1>3, <1>4
      <4> QED  BY <4>1, <1>3, ToSetMember
    <3>3. CASE ~ (i < p)
      <4>1. i + 1 \in 1 .. Len(list) + 1 /\ ~ (i + 1 < p) /\ i + 1 # p
        BY <3>3, <1>1, <1>4
      <4>2. new[i + 1] = list[(i + 1) - 1]
        BY <4>1, <1>3
      <4>3. new[i + 1] = y /\ i + 1 \in 1 .. Len(new)
        BY <3>1, <4>1, <4>2, <1>3
      <4> QED  BY <4>3, <1>3, ToSetMember
    <3> QED  BY <3>2, <3>3
  <2> QED  BY <2>1, <2>2
<1>6. ASSUME NEW y \in ToSet(new)
      PROVE  y \in ToSet(list) \cup {x}
  <2>1. PICK i \in 1 .. Len(list) + 1 : new[i] = y
    BY <1>3, ToSetMember
  <2>2. \/ i < p /\ i \in 1 .. Len(list) /\ y = list[i]
        \/ y = x
        \/ i - 1 \in 1 .. Len(list) /\ y = list[i - 1]
    BY <2>1, <1>1, <1>3, <1>4
  <2> QED  BY <2>2, ToSetMember
<1>7. ASSUME NoDuplicates(list), x \notin ToSet(list)
      PROVE  NoDuplicates(new)
  <2> SUFFICES ASSUME NEW i \in 1 .. Len(list) + 1, NEW j \in 1 .. Len(list) + 1,
                      new[i] = new[j], i < j
               PROVE  FALSE
    BY <1>3, <1>4 DEF NoDuplicates
  <2>1. \A k \in 1 .. Len(list) : list[k] # x
    BY <1>7, ToSetMember
  <2>2. \A k, l \in 1 .. Len(list) : list[k] = list[l] => k = l
    BY <1>7 DEF NoDuplicates
  <2>3. CASE j < p
    BY <2>2, <2>3, <1>1, <1>3, <1>4
  <2>4. CASE j = p
    BY <2>1, <2>4, <1>1, <1>3, <1>4
  <2>5. CASE j > p
    <3>1. j - 1 \in 1 .. Len(list) /\ new[j] = list[j - 1]
      BY <2>5, <1>1, <1>3, <1>4
    <3>2. CASE i < p
      <4>1. i \in 1 .. Len(list) /\ new[i] = list[i] /\ i # j - 1
        BY <3>2, <2>5, <1>1, <1>3, <1>4
      <4> QED  BY <3>1, <4>1, <2>2
    <3>3. CASE i = p
      <4>1. new[i] = x
        BY <3>3, <1>3
      <4> QED  BY <3>1, <4>1, <2>1
    <3>4. CASE i > p
      <4>1. i - 1 \in 1 .. Len(list) /\ new[i] = list[i - 1] /\ i - 1 # j - 1
        BY <3>4, <1>1, <1>3, <1>4
      <4> QED  BY <3>1, <4>1, <2>2
    <3> QED  BY <3>2, <3>3, <3>4, <1>1
  <2> QED  BY <2>3, <2>4, <2>5, <1>1
<1> QED  BY <1>3, <1>5, <1>6, <1>7 DEF new

(* What is left of a list without duplicates when its head is popped.      *)
LEMMA TailMembers ==
  ASSUME NEW S, NEW list \in Seq(S), list # <<>>, NoDuplicates(list)
  PROVE  /\ Head(list) \in S
         /\ Head(list) \in ToSet(list)
         /\ Tail(list) \in Seq(S)
         /\ NoDuplicates(Tail(list))
         /\ ToSet(Tail(list)) = ToSet(list) \ {Head(list)}
<1>1. /\ Head(list) \in S /\ Tail(list) \in Seq(S)
      /\ Len(Tail(list)) = Len(list) - 1
      /\ \A i \in 1 .. Len(Tail(list)) : Tail(list)[i] = list[i + 1]
  BY HeadTailProperties
<1>2. Head(list) = list[1] /\ Len(list) \in Nat /\ Len(list) >= 1
  OBVIOUS
<1>3. \A i, j \in 1 .. Len(list) : list[i] = list[j] => i = j
  BY DEF NoDuplicates
<1>4. NoDuplicates(Tail(list))
  BY <1>1, <1>2, <1>3 DEF NoDuplicates
<1>5. ASSUME NEW y \in ToSet(Tail(list))
      PROVE  y \in ToSet(list) \ {Head(list)}
  <2>1. PICK i \in 1 .. Len(Tail(list)) : Tail(list)[i] = y
    BY <1>1, ToSetMember
  <2>2. i + 1 \in 1 .. Len(list) /\ list[i + 1] = y
    BY <2>1, <1>1, <1>2
  <2>3. y # list[1]
    BY <2>2, <1>2, <1>3
  <2> QED  BY <2>2, <2>3, <1>2, ToSetMember
<1>6. ASSUME NEW y \in ToSet(list) \ {Head(list)}
      PROVE  y \in ToSet(Tail(list))
  <2>1. PICK i \in 1 .. Len(list) : list[i] = y
    BY ToSetMember
  <2>2. i - 1 \in 1 .. Len(Tail(list))
    BY <2>1, <1>1, <1>2
  <2>3. Tail(list)[i - 1] = list[(i - 1) + 1]
    BY <2>2, <1>1
  <2>4. Tail(list)[i - 1] = y
    BY <2>1, <2>3
  <2> QED  BY <2>2, <2>4, <1>1, ToSetMember, Zenon
<1>7. Head(list) \in ToSet(list)
  BY <1>2, ToSetMember
<1> QED  BY <1>1, <1>4, <1>5, <1>6, <1>7

(* RemoveAt, member by member.                                             *)
LEMMA RemoveAtProperties ==
  ASSUME NEW S, NEW list \in Seq(S), NEW p \in 1 .. Len(list)
  PROVE  /\ RemoveAt(list, p) \in Seq(S)
         /\ Len(RemoveAt(list, p)) = Len(list) - 1
         /\ \A i \in 1 .. Len(list) - 1 :
              RemoveAt(list, p)[i] = IF i < p THEN list[i] ELSE list[i + 1]
<1> DEFINE a == SubSeq(list, 1, p - 1)
           b == SubSeq(list, p + 1, Len(list))
<1>1. /\ a \in Seq(S) /\ Len(a) = p - 1
      /\ \A i \in 1 .. p - 1 : a[i] = list[i]
  BY SubSeqProperties
<1>2. /\ b \in Seq(S) /\ Len(b) = Len(list) - p
      /\ \A i \in 1 .. Len(list) - p : b[i] = list[p + i]
  BY SubSeqProperties
<1>3. RemoveAt(list, p) = a \o b
  BY DEF RemoveAt
<1> HIDE DEF a, b
<1>4. /\ a \o b \in Seq(S) /\ Len(a \o b) = Len(a) + Len(b)
      /\ \A i \in 1 .. Len(a) + Len(b) :
           (a \o b)[i] = IF i <= Len(a) THEN a[i] ELSE b[i - Len(a)]
  BY <1>1, <1>2, ConcatProperties
<1>5. Len(a) + Len(b) = Len(list) - 1 /\ Len(list) \in Nat
  BY <1>1, <1>2
<1>6. ASSUME NEW i \in 1 .. Len(list) - 1
      PROVE  (a \o b)[i] = IF i < p THEN list[i] ELSE list[i + 1]
  <2>1. CASE i < p
    BY <2>1, <1>1, <1>4, <1>5
  <2>2. CASE ~ (i < p)
    <3>1. (a \o b)[i] = b[i - (p - 1)]
      BY <2>2, <1>1, <1>4, <1>5
    <3>2. i - (p - 1) \in 1 .. Len(list) - p
      BY <2>2, <1>5
    <3>3. b[i - (p - 1)] = list[p + (i - (p - 1))]
      BY <3>2, <1>2
    <3> QED  BY <2>2, <3>1, <3>3
  <2> QED  BY <2>1, <2>2
<1> QED  BY <1>3, <1>4, <1>5, <1>6

(* What is left of a list without duplicates when a member is removed.     *)
LEMMA RemoveAtMembers ==
  ASSUME NEW S, NEW list \in Seq(S), NEW p \in 1 .. Len(list), NoDuplicates(list),
         NEW new, new = RemoveAt(list, p)
  PROVE  NoDuplicates(new) /\ ToSet(new) = ToSet(list) \ {list[p]}
<1>1. /\ new \in Seq(S) /\ Len(new) = Len(list) - 1 /\ Len(list) \in Nat
      /\ \A i \in 1 .. Len(list) - 1 : new[i] = IF i < p THEN list[i] ELSE list[i + 1]
  BY RemoveAtProperties
<1>2. \A i, j \in 1 .. Len(list) : list[i] = list[j] => i = j
  BY DEF NoDuplicates
<1>3. NoDuplicates(new)
  <2> SUFFICES ASSUME NEW i \in 1 .. Len(new), NEW j \in 1 .. Len(new), new[i] = new[j]
               PROVE  i = j
    BY DEF NoDuplicates
  <2>1. PICK k \in 1 .. Len(list) : new[i] = list[k] /\ k = IF i < p THEN i ELSE i + 1
    BY <1>1
  <2>2. PICK l \in 1 .. Len(list) : new[j] = list[l] /\ l = IF j < p THEN j ELSE j + 1
    BY <1>1
  <2>3. k = l
    BY <1>2, <2>1, <2>2
  <2> QED  BY <2>1, <2>2, <2>3
<1>4. ASSUME NEW y \in ToSet(new)
      PROVE  y \in ToSet(list) \ {list[p]}
  <2>1. PICK i \in 1 .. Len(new) : new[i] = y
    BY <1>1, ToSetMember
  <2>2. PICK k \in 1 .. Len(list) : y = list[k] /\ k # p
    BY <1>1, <2>1
  <2>3. y # list[p]
    BY <1>2, <2>2
  <2> QED  BY <2>2, <2>3, ToSetMember
<1>5. ASSUME NEW y \in ToSet(list) \ {list[p]}
      PROVE  y \in ToSet(new)
  <2>1. PICK k \in 1 .. Len(list) : list[k] = y /\ k # p
    BY ToSetMember
  <2>2. CASE k < p
    <3>1. k \in 1 .. Len(new) /\ new[k] = y
      BY <1>1, <2>1, <2>2
    <3> QED  BY <1>1, <3>1, ToSetMember
  <2>3. CASE k > p
    <3>1. k - 1 \in 1 .. Len(list) - 1 /\ ~ (k - 1 < p) /\ (k - 1) + 1 = k
      BY <1>1, <2>1, <2>3
    <3>2. new[k - 1] = list[(k - 1) + 1]
      BY <1>1, <3>1
    <3>3. k - 1 \in 1 .. Len(new) /\ new[k - 1] = y
      BY <1>1, <2>1, <3>1, <3>2
    <3> QED  BY <1>1, <3>3, ToSetMember
  <2> QED  BY <2>1, <2>2, <2>3
<1> QED  BY <1>3, <1>4, <1>5

(* A list stays in the order of a key when a member is removed.            *)
LEMMA RemoveAtSorted ==
  ASSUME NEW S, NEW key, NEW list \in Seq(S), NEW p \in 1 .. Len(list),
         \A i, j \in 1 .. Len(list) : i < j => key[list[i]] <= key[list[j]],
         NEW new, new = RemoveAt(list, p)
  PROVE  \A i, j \in 1 .. Len(new) : i < j => key[new[i]] <= key[new[j]]
<1>1. /\ Len(new) = Len(list) - 1 /\ Len(list) \in Nat
      /\ \A i \in 1 .. Len(list) - 1 : new[i] = IF i < p THEN list[i] ELSE list[i + 1]
  BY RemoveAtProperties
<1> SUFFICES ASSUME NEW i \in 1 .. Len(new), NEW j \in 1 .. Len(new), i < j
             PROVE  key[new[i]] <= key[new[j]]
  OBVIOUS
<1>2. PICK k \in 1 .. Len(list) : new[i] = list[k] /\ k = IF i < p THEN i ELSE i + 1
  BY <1>1
<1>3. PICK l \in 1 .. Len(list) : new[j] = list[l] /\ l = IF j < p THEN j ELSE j + 1
  BY <1>1
<1>4. k < l
  BY <1>2, <1>3
<1> QED  BY <1>2, <1>3, <1>4

(* A list kept by sll_insert in the order of a key stays in that order,    *)
(* however members with the key of the new one are sorted.                 *)
LEMMA SllInsertSorted ==
  ASSUME NEW S, NEW key \in [S -> Int], NEW list \in Seq(S), NEW x \in S,
         \A i, j \in 1 .. Len(list) : i < j => key[list[i]] <= key[list[j]],
         NEW later,
         \A n \in ToSet(list) : IF n \in later THEN key[x] <= key[n] ELSE key[n] <= key[x],
         NEW new, new = sll_insert(list, x, later)
  PROVE  \A i, j \in 1 .. Len(new) : i < j => key[new[i]] <= key[new[j]]
<1>1. PICK p \in 1 .. Len(list) + 1 :
        /\ \A j \in 1 .. p - 1 : list[j] \notin later
        /\ p <= Len(list) => list[p] \in later
        /\ new = InsertAt(list, p, x)
  BY InsertPositionProperties DEF sll_insert
<1>2. /\ Len(new) = Len(list) + 1
      /\ \A i \in 1 .. Len(list) + 1 : new[i] =
           IF i < p THEN list[i] ELSE IF i = p THEN x ELSE list[i - 1]
  <2>1. /\ Len(InsertAt(list, p, x)) = Len(list) + 1
        /\ \A i \in 1 .. Len(list) + 1 : InsertAt(list, p, x)[i] =
             IF i < p THEN list[i] ELSE IF i = p THEN x ELSE list[i - 1]
    BY InsertAtProperties
  <2>2. new = InsertAt(list, p, x)
    BY <1>1
  <2> QED  BY <2>1, <2>2
<1>3. /\ Len(list) \in Nat
      /\ \A i \in 1 .. Len(list) : list[i] \in S /\ key[list[i]] \in Int
      /\ key[x] \in Int
  OBVIOUS
<1>4. ASSUME NEW i \in 1 .. Len(list), i < p
      PROVE  key[list[i]] <= key[x]
  <2>1. list[i] \notin later
    BY <1>1, <1>3, <1>4
  <2>2. list[i] \in ToSet(list)
    BY ToSetMember
  <2> QED  BY <2>1, <2>2, <1>3
<1>5. ASSUME NEW i \in 1 .. Len(list), i >= p
      PROVE  key[x] <= key[list[i]]
  <2>1. p \in 1 .. Len(list) /\ key[x] <= key[list[p]]
    <3>1. p \in 1 .. Len(list) /\ list[p] \in later
      BY <1>1, <1>3, <1>5
    <3>2. list[p] \in ToSet(list)
      BY <3>1, ToSetMember
    <3> QED  BY <3>1, <3>2
  <2>2. p = i \/ p < i
    BY <1>5
  <2>3. key[list[p]] <= key[list[i]]
    BY <2>1, <2>2, <1>3
  <2> QED  BY <2>1, <2>3, <1>3
<1>6. SUFFICES ASSUME NEW i \in 1 .. Len(list) + 1, NEW j \in 1 .. Len(list) + 1, i < j
               PROVE  key[new[i]] <= key[new[j]]
  BY <1>2
<1>7. CASE j < p
  <2>1. i \in 1 .. Len(list) /\ j \in 1 .. Len(list) /\ i < p
    BY <1>6, <1>7
  <2>2. new[i] = list[i] /\ new[j] = list[j]
    BY <2>1, <1>2, <1>7
  <2> QED  BY <2>1, <2>2, <1>6
<1>8. CASE j = p
  <2>1. i \in 1 .. Len(list) /\ new[i] = list[i] /\ new[j] = x
    BY <1>2, <1>3, <1>6, <1>8
  <2> QED  BY <2>1, <1>4, <1>6, <1>8
<1>9. CASE j > p
  <2>1. j - 1 \in 1 .. Len(list) /\ j - 1 >= p /\ new[j] = list[j - 1]
    BY <1>2, <1>3, <1>9
  <2>2. CASE i < p
    <3>1. i \in 1 .. Len(list) /\ i < j - 1 /\ new[i] = list[i]
      BY <1>2, <1>3, <2>1, <2>2
    <3> QED  BY <3>1, <2>1
  <2>3. CASE i = p
    <3>1. new[i] = x
      BY <1>2, <2>3
    <3>2. key[x] <= key[list[j - 1]]
      BY <2>1, <1>5
    <3> QED  BY <3>1, <3>2, <2>1
  <2>4. CASE i > p
    <3>1. i - 1 \in 1 .. Len(list) /\ i - 1 < j - 1 /\ new[i] = list[i - 1]
      BY <1>2, <1>3, <1>6, <2>1, <2>4
    <3> QED  BY <3>1, <2>1
  <2>5. i < p \/ i = p \/ i > p
    OBVIOUS
  <2> QED  BY <2>2, <2>3, <2>4, <2>5
<1>10. j < p \/ j = p \/ j > p
  OBVIOUS
<1> QED  BY <1>7, <1>8, <1>9, <1>10

(* What is left when the head is popped is in order, behind the head.      *)
LEMMA TailSorted ==
  ASSUME NEW S, NEW key \in [S -> Nat], NEW list \in Seq(S), list # <<>>,
         \A i, j \in 1 .. Len(list) : i < j => key[list[i]] <= key[list[j]]
  PROVE  /\ \A i, j \in 1 .. Len(Tail(list)) :
              i < j => key[Tail(list)[i]] <= key[Tail(list)[j]]
         /\ \A y \in ToSet(Tail(list)) : key[Head(list)] <= key[y]
<1>1. /\ Tail(list) \in Seq(S)
      /\ Len(Tail(list)) = Len(list) - 1
      /\ \A i \in 1 .. Len(Tail(list)) : Tail(list)[i] = list[i + 1]
  BY HeadTailProperties
<1>2. Head(list) = list[1] /\ Len(list) \in Nat /\ Len(list) >= 1
  OBVIOUS
<1>3. ASSUME NEW i \in 1 .. Len(Tail(list)), NEW j \in 1 .. Len(Tail(list)), i < j
      PROVE  key[Tail(list)[i]] <= key[Tail(list)[j]]
  <2>1. i + 1 \in 1 .. Len(list) /\ j + 1 \in 1 .. Len(list) /\ i + 1 < j + 1
    BY <1>1, <1>2, <1>3
  <2> QED  BY <1>1, <2>1
<1>4. ASSUME NEW y \in ToSet(Tail(list))
      PROVE  key[Head(list)] <= key[y]
  <2>1. PICK i \in 1 .. Len(Tail(list)) : Tail(list)[i] = y
    BY <1>1, ToSetMember
  <2>2. 1 \in 1 .. Len(list) /\ i + 1 \in 1 .. Len(list) /\ 1 < i + 1
    BY <1>1, <1>2, <2>1
  <2>3. list[i + 1] = y
    BY <1>1, <2>1
  <2> QED  BY <1>2, <2>2, <2>3
<1> QED  BY <1>3, <1>4

(* Where sll_insert puts the node, member by member.                       *)
LEMMA SllInsertProperties ==
  ASSUME NEW S, NEW list \in Seq(S), NEW x \in S, NEW later,
         NEW new, new = sll_insert(list, x, later)
  PROVE  \E p \in 1 .. Len(list) + 1 :
           /\ p <= Len(list) => list[p] \in later
           /\ Len(new) = Len(list) + 1 /\ Len(list) \in Nat
           /\ \A m \in 1 .. Len(list) + 1 : new[m] =
                IF m < p THEN list[m] ELSE IF m = p THEN x ELSE list[m - 1]
<1>1. PICK p \in 1 .. Len(list) + 1 :
        (p <= Len(list) => list[p] \in later) /\ new = InsertAt(list, p, x)
  BY InsertPositionProperties DEF sll_insert
<1>2. /\ Len(new) = Len(list) + 1 /\ Len(list) \in Nat
      /\ \A m \in 1 .. Len(list) + 1 : new[m] =
           IF m < p THEN list[m] ELSE IF m = p THEN x ELSE list[m - 1]
  BY <1>1, InsertAtProperties
<1> QED  BY <1>1, <1>2

(* u is somewhere ahead of v in the list.                                  *)
Ahead(list, u, v) ==
  \E i, j \in 1 .. Len(list) : i < j /\ list[i] = u /\ list[j] = v

(* sll_insert keeps the members in the order they have.                    *)
LEMMA SllInsertKeepsOrder ==
  ASSUME NEW S, NEW list \in Seq(S), NEW x \in S, NEW later,
         NEW new, new = sll_insert(list, x, later),
         NEW u, NEW v, Ahead(list, u, v)
  PROVE  Ahead(new, u, v)
<1>1. PICK p \in 1 .. Len(list) + 1 :
        /\ p <= Len(list) => list[p] \in later
        /\ Len(new) = Len(list) + 1 /\ Len(list) \in Nat
        /\ \A m \in 1 .. Len(list) + 1 : new[m] =
             IF m < p THEN list[m] ELSE IF m = p THEN x ELSE list[m - 1]
  BY SllInsertProperties
<1>2. PICK i, j \in 1 .. Len(list) : i < j /\ list[i] = u /\ list[j] = v
  BY DEF Ahead
<1>3. \A m \in 1 .. Len(list) :
        /\ m < p => m \in 1 .. Len(new) /\ new[m] = list[m]
        /\ m >= p => m + 1 \in 1 .. Len(new) /\ new[m + 1] = list[(m + 1) - 1]
  BY <1>1
<1>4. CASE j < p
  BY <1>2, <1>3, <1>4 DEF Ahead
<1>5. CASE i < p /\ p <= j
  <2>1. PICK k : k = j + 1
    OBVIOUS
  <2>2. k \in 1 .. Len(new) /\ new[k] = v
    BY <1>2, <1>3, <1>5, <2>1
  <2>3. i \in 1 .. Len(new) /\ new[i] = u /\ i < k
    BY <1>2, <1>3, <1>5, <2>1
  <2> QED  BY ONLY <2>2, <2>3 DEF Ahead
<1>6. CASE p <= i
  <2>1. PICK h, k : h = i + 1 /\ k = j + 1
    OBVIOUS
  <2>2. k \in 1 .. Len(new) /\ new[k] = v
    BY <1>2, <1>3, <1>6, <2>1
  <2>3. h \in 1 .. Len(new) /\ new[h] = u /\ h < k
    BY <1>2, <1>3, <1>6, <2>1
  <2> QED  BY ONLY <2>2, <2>3 DEF Ahead
<1> QED  BY <1>2, <1>4, <1>5, <1>6

(* A node that sorts only before a greater key is inserted behind every    *)
(* member that has its key.                                                *)
LEMMA SllInsertBehind ==
  ASSUME NEW S, NEW key \in [S -> Int], NEW list \in Seq(S), NEW x \in S,
         \A i, j \in 1 .. Len(list) : i < j => key[list[i]] <= key[list[j]],
         NEW later, \A n \in later : key[n] > key[x],
         NEW new, new = sll_insert(list, x, later),
         NEW u \in ToSet(list), key[u] = key[x]
  PROVE  Ahead(new, u, x)
<1>1. PICK p \in 1 .. Len(list) + 1 :
        /\ p <= Len(list) => list[p] \in later
        /\ Len(new) = Len(list) + 1 /\ Len(list) \in Nat
        /\ \A m \in 1 .. Len(list) + 1 : new[m] =
             IF m < p THEN list[m] ELSE IF m = p THEN x ELSE list[m - 1]
  BY SllInsertProperties
<1>2. PICK i \in 1 .. Len(list) : list[i] = u
  BY ToSetMember
<1>3. i < p
  <2> SUFFICES ASSUME p <= i
               PROVE  FALSE
    BY <1>1
  <2>1. p \in 1 .. Len(list) /\ list[p] \in later
    BY <1>1
  <2>2. list[p] \in S /\ list[i] \in S
    BY <2>1, ElementOfSeq
  <2>3. key[list[p]] <= key[list[i]]
    BY <2>1, <2>2
  <2> QED  BY <1>2, <2>1, <2>2, <2>3
<1>4. i \in 1 .. Len(new) /\ p \in 1 .. Len(new) /\ new[i] = list[i] /\ new[p] = x
  BY <1>1, <1>3
<1> QED  BY <1>2, <1>3, <1>4 DEF Ahead

(* The order of a list without its head.                                   *)
LEMMA TailKeepsOrder ==
  ASSUME NEW S, NEW list \in Seq(S), NEW u, NEW v, Ahead(list, u, v), u # Head(list),
         NEW new, new = Tail(list)
  PROVE  Ahead(new, u, v)
<1>1. PICK i, j \in 1 .. Len(list) : i < j /\ list[i] = u /\ list[j] = v
  BY DEF Ahead
<1>2. /\ list # <<>> /\ Len(list) \in Nat /\ Head(list) = list[1]
      /\ Len(new) = Len(list) - 1
      /\ \A m \in 1 .. Len(new) : new[m] = list[m + 1]
  BY HeadTailProperties
<1>3. /\ i - 1 \in 1 .. Len(new) /\ j - 1 \in 1 .. Len(new) /\ i - 1 < j - 1
      /\ (i - 1) + 1 = i /\ (j - 1) + 1 = j
  BY <1>1, <1>2
<1>4. new[i - 1] = u /\ new[j - 1] = v
  BY <1>1, <1>2, <1>3
<1> QED  BY <1>3, <1>4 DEF Ahead

(* sll_remove takes out the first occurrence of the node.                  *)
LEMMA FirstPositionProperties ==
  ASSUME NEW S, NEW list \in Seq(S), NEW x, sll_in_list(list, x)
  PROVE  FirstPosition(list, x) \in 1 .. Len(list) /\ list[FirstPosition(list, x)] = x
<1> DEFINE D == {i \in 1 .. Len(list) : list[i] = x}
<1>1. D \subseteq Nat /\ D # {}
  BY DEF sll_in_list
<1>2. \E i \in D : \A j \in D : i <= j
  <2> HIDE DEF D
  <2> QED  BY <1>1, LeastElement
<1>3. \E i \in 1 .. Len(list) : list[i] = x /\ \A j \in 1 .. i - 1 : list[j] # x
  BY <1>2
<1> QED  BY <1>3 DEF FirstPosition

LEMMA SllRemoveMembers ==
  ASSUME NEW S, NEW list \in Seq(S), NEW x,
         NEW new, new = sll_remove(list, x)
  PROVE  /\ new \in Seq(S)
         /\ NoDuplicates(list) =>
              NoDuplicates(new) /\ ToSet(new) = ToSet(list) \ {x}
<1>1. CASE sll_in_list(list, x)
  <2>1. PICK p \in 1 .. Len(list) : p = FirstPosition(list, x) /\ list[p] = x
    BY <1>1, FirstPositionProperties
  <2>2. new = RemoveAt(list, p)
    BY <1>1, <2>1 DEF sll_remove
  <2>3. new \in Seq(S)
    BY <2>2, RemoveAtProperties
  <2>4. ASSUME NoDuplicates(list)
        PROVE  NoDuplicates(new) /\ ToSet(new) = ToSet(list) \ {x}
    BY <2>1, <2>2, <2>4, RemoveAtMembers
  <2> QED  BY <2>3, <2>4
<1>2. CASE ~ sll_in_list(list, x)
  <2>1. new = list
    BY <1>2 DEF sll_remove
  <2>2. x \notin ToSet(list)
    BY <1>2, ToSetMember DEF sll_in_list
  <2> QED  BY <2>1, <2>2
<1> QED  BY <1>1, <1>2

(* Two lists in a row, under a name of its own.                            *)
Joined(l, m) == l \o m

LEMMA ConcatMembers ==
  ASSUME NEW S, NEW l \in Seq(S), NEW m \in Seq(S), NEW r, r = Joined(l, m)
  PROVE  /\ r \in Seq(S) /\ ToSet(r) = ToSet(l) \cup ToSet(m)
         /\ NoDuplicates(l) /\ NoDuplicates(m) /\ ToSet(l) \cap ToSet(m) = {}
              => NoDuplicates(r)
<1>1. PICK p \in Nat, q \in Nat : p = Len(l) /\ q = Len(m)
  OBVIOUS
<1>2. /\ r \in Seq(S) /\ Len(r) = p + q
      /\ \A i \in 1 .. p : r[i] = l[i]
      /\ \A i \in p + 1 .. p + q : r[i] = m[i - p]
  <2>1. r \in Seq(S) /\ Len(r) = Len(l) + Len(m)
    BY DEF Joined
  <2>2. \A i \in 1 .. Len(l) + Len(m) :
          r[i] = IF i <= Len(l) THEN l[i] ELSE m[i - Len(l)]
    BY DEF Joined
  <2>3. \A i \in 1 .. p + q : r[i] = IF i <= p THEN l[i] ELSE m[i - p]
    BY <1>1, <2>2
  <2> QED  BY <1>1, <2>1, <2>3
<1>3. \A i \in 1 .. q : r[p + i] = m[i] /\ p + i \in 1 .. p + q
  BY <1>2
<1>4. \A i \in 1 .. p + q : i \in 1 .. p \/ (i \in p + 1 .. p + q /\ i - p \in 1 .. q)
  OBVIOUS
<1>5. \A x : x \in ToSet(r) <=> x \in ToSet(l) \/ x \in ToSet(m)
  <2> TAKE x
  <2>1. x \in ToSet(r) <=> \E i \in 1 .. p + q : r[i] = x
    <3>1. r \in Seq(S)
      BY <1>2
    <3>2. x \in ToSet(r) <=> \E i \in 1 .. Len(r) : r[i] = x
      BY <3>1, ToSetMember, Zenon
    <3> QED  BY <1>2, <3>2, Zenon
  <2>2. x \in ToSet(l) <=> \E i \in 1 .. p : l[i] = x
    BY <1>1, ToSetMember
  <2>3. x \in ToSet(m) <=> \E i \in 1 .. q : m[i] = x
    BY <1>1, ToSetMember
  <2>4. ASSUME NEW i \in 1 .. p + q, r[i] = x
        PROVE  x \in ToSet(l) \/ x \in ToSet(m)
    BY <1>2, <1>4, <2>2, <2>3, <2>4
  <2>5. ASSUME NEW i \in 1 .. p, l[i] = x
        PROVE  x \in ToSet(r)
    <3>1. i \in 1 .. p + q /\ r[i] = x
      BY <1>2, <2>5
    <3> QED  BY <2>1, <3>1
  <2>6. ASSUME NEW i \in 1 .. q, m[i] = x
        PROVE  x \in ToSet(r)
    BY <1>3, <2>1, <2>6
  <2> QED  BY <2>1, <2>2, <2>3, <2>4, <2>5, <2>6
<1>6. ASSUME NoDuplicates(l), NoDuplicates(m), ToSet(l) \cap ToSet(m) = {}
      PROVE  NoDuplicates(r)
  <2>1. ASSUME NEW i \in 1 .. p + q, NEW j \in 1 .. p + q, r[i] = r[j]
        PROVE  i = j
    <3>1. CASE i \in 1 .. p /\ j \in 1 .. p
      BY <1>1, <1>2, <1>6, <2>1, <3>1 DEF NoDuplicates
    <3>2. CASE i \in p + 1 .. p + q /\ j \in p + 1 .. p + q
      <4>1. i - p \in 1 .. q /\ j - p \in 1 .. q /\ m[i - p] = m[j - p]
        BY <1>2, <2>1, <3>2
      <4>2. i - p = j - p
        BY <1>1, <1>6, <4>1 DEF NoDuplicates
      <4> QED  BY <3>2, <4>2
    <3>3. ASSUME NEW v \in 1 .. p, NEW w \in p + 1 .. p + q, r[v] = r[w]
          PROVE  FALSE
      <4>1. r[v] \in ToSet(l)
        BY <1>1, <1>2, <3>3, ToSetMember
      <4>2. w - p \in 1 .. q /\ r[w] = m[w - p]
        BY <1>2, <3>3
      <4>3. r[w] \in ToSet(m)
        BY <1>1, <4>2, ToSetMember
      <4> QED  BY <1>6, <3>3, <4>1, <4>3
    <3> QED  BY <1>4, <2>1, <3>1, <3>2, <3>3
  <2> QED  BY <1>2, <2>1 DEF NoDuplicates
<1> QED  BY <1>2, <1>5, <1>6

LEMMA SingleMembers ==
  ASSUME NEW S, NEW x \in S, NEW l, l = <<x>>
  PROVE  l \in Seq(S) /\ ToSet(l) = {x} /\ NoDuplicates(l)
<1>1. l \in Seq(S) /\ Len(l) = 1 /\ l[1] = x
  OBVIOUS
<1>2. \A i \in 1 .. Len(l) : i = 1
  BY <1>1
<1>3. \A y : y \in ToSet(l) <=> y = x
  <2> TAKE y
  <2>1. y \in ToSet(l) <=> \E i \in 1 .. Len(l) : l[i] = y
    <3>1. l \in Seq(S)
      BY <1>1
    <3> QED  BY <3>1, ToSetMember, Zenon
  <2>2. 1 \in 1 .. Len(l)
    BY <1>1
  <2> QED  BY <1>1, <1>2, <2>1, <2>2
<1> QED  BY <1>1, <1>2, <1>3 DEF NoDuplicates

LEMMA SllAppendMembers ==
  ASSUME NEW S, NEW l \in Seq(S), NEW x \in S, NEW new, new = sll_append(l, x)
  PROVE  /\ new \in Seq(S) /\ ToSet(new) = ToSet(l) \cup {x}
         /\ NoDuplicates(l) /\ x \notin ToSet(l) => NoDuplicates(new)
<1>1. PICK m : m = <<x>>
  OBVIOUS
<1>2. m \in Seq(S) /\ ToSet(m) = {x} /\ NoDuplicates(m)
  BY <1>1, SingleMembers
<1>3. new = Joined(l, m)
  BY <1>1 DEF sll_append, Joined
<1>4. /\ new \in Seq(S) /\ ToSet(new) = ToSet(l) \cup ToSet(m)
      /\ NoDuplicates(l) /\ NoDuplicates(m) /\ ToSet(l) \cap ToSet(m) = {}
           => NoDuplicates(new)
  BY <1>2, <1>3, ConcatMembers
<1> QED  BY <1>2, <1>4

LEMMA SllPushMembers ==
  ASSUME NEW S, NEW l \in Seq(S), NEW x \in S, NEW new, new = sll_push(l, x)
  PROVE  /\ new \in Seq(S) /\ ToSet(new) = ToSet(l) \cup {x}
         /\ NoDuplicates(l) /\ x \notin ToSet(l) => NoDuplicates(new)
<1>1. PICK m : m = <<x>>
  OBVIOUS
<1>2. m \in Seq(S) /\ ToSet(m) = {x} /\ NoDuplicates(m)
  BY <1>1, SingleMembers
<1>3. new = Joined(m, l)
  BY <1>1 DEF sll_push, Joined
<1>4. /\ new \in Seq(S) /\ ToSet(new) = ToSet(m) \cup ToSet(l)
      /\ NoDuplicates(m) /\ NoDuplicates(l) /\ ToSet(m) \cap ToSet(l) = {}
           => NoDuplicates(new)
  BY <1>2, <1>3, ConcatMembers
<1> QED  BY <1>2, <1>4

LEMMA ReverseMembers ==
  ASSUME NEW S, NEW l \in Seq(S), NEW r, r = Reverse(l)
  PROVE  /\ r \in Seq(S) /\ ToSet(r) = ToSet(l)
         /\ NoDuplicates(l) => NoDuplicates(r)
<1>1. PICK n \in Nat : n = Len(l)
  OBVIOUS
<1>2. r = [i \in 1 .. n |-> l[n - i + 1]]
  BY <1>1 DEF Reverse
<1>3. \A i \in 1 .. n : n - i + 1 \in 1 .. n
  OBVIOUS
<1>4. \A i \in 1 .. n : l[n - i + 1] \in S
  BY <1>1, <1>3
<1>5. [i \in 1 .. n |-> l[n - i + 1]] \in Seq(S)
  BY <1>4
<1>6. r \in Seq(S) /\ Len(r) = n /\ \A i \in 1 .. n : r[i] = l[n - i + 1]
  <2>1. DOMAIN r = 1 .. n /\ r \in Seq(S)
    BY <1>2, <1>5
  <2>2. Len(r) = n
    BY <2>1
  <2> QED  BY <1>2, <2>1, <2>2
<1>7. \A x : x \in ToSet(r) <=> x \in ToSet(l)
  <2> TAKE x
  <2>1. x \in ToSet(r) <=> \E i \in 1 .. n : r[i] = x
    <3>1. r \in Seq(S)
      BY <1>6
    <3>2. x \in ToSet(r) <=> \E i \in 1 .. Len(r) : r[i] = x
      BY <3>1, ToSetMember, Zenon
    <3> QED  BY <1>6, <3>2, Zenon
  <2>2. x \in ToSet(l) <=> \E i \in 1 .. n : l[i] = x
    BY <1>1, ToSetMember
  <2>3. ASSUME NEW i \in 1 .. n, l[i] = x
        PROVE  \E j \in 1 .. n : r[j] = x
    <3>1. PICK j \in 1 .. n : j = n - i + 1
      BY <1>3
    <3>2. n - j + 1 = i
      BY <3>1
    <3>3. r[j] = l[n - j + 1]
      BY <1>6
    <3> QED  BY <2>3, <3>2, <3>3
  <2> QED  BY <1>3, <1>6, <2>1, <2>2, <2>3
<1>8. ASSUME NoDuplicates(l)
      PROVE  NoDuplicates(r)
  <2>1. ASSUME NEW i \in 1 .. n, NEW j \in 1 .. n, r[i] = r[j]
        PROVE  i = j
    <3>1. PICK v \in 1 .. n, w \in 1 .. n : v = n - i + 1 /\ w = n - j + 1
      BY <1>3
    <3>2. l[v] = l[w]
      BY <1>6, <2>1, <3>1
    <3>3. v = w
      BY <1>1, <1>8, <3>2 DEF NoDuplicates
    <3> QED  BY <3>1, <3>3
  <2> QED  BY <1>6, <2>1 DEF NoDuplicates
<1> QED  BY <1>6, <1>7, <1>8

----------------------------------------------------------------------------
(* Folds.                                                                  *)

(* A set of natural numbers that holds 0, and with each number the next,   *)
(* holds them all.                                                         *)
LEMMA SetInduction ==
  ASSUME NEW S, 0 \in S, \A n \in Nat : n \in S => n + 1 \in S
  PROVE  Nat \subseteq S
<1> SUFFICES ASSUME Nat \ S # {} PROVE FALSE
  OBVIOUS
<1>1. PICK n \in Nat \ S : \A m \in Nat \ S : n <= m
  <2>1. Nat \ S \subseteq Nat
    OBVIOUS
  <2> QED  BY <2>1, LeastElement
<1>2. n # 0 /\ n - 1 \in Nat
  BY <1>1
<1>3. n - 1 \in S
  BY <1>1, <1>2
<1>4. (n - 1) + 1 \in S /\ (n - 1) + 1 = n
  BY <1>2, <1>3
<1> QED  BY <1>1, <1>4

(* Max of a set of numbers up to n that holds n.                           *)
LEMMA MaxIsLast ==
  ASSUME NEW n \in Nat, NEW s \in SUBSET (1 .. n), n \in s
  PROVE  Max(s) = n
<1>1. \A y \in s : n >= y
  OBVIOUS
<1>2. \E x \in s : \A y \in s : x >= y
  BY <1>1
<1>3. PICK m : m = Max(s) /\ m \in s /\ \A y \in s : m >= y
  BY <1>2 DEF Max
<1>4. m \in Int /\ m <= n /\ m >= n
  BY <1>3
<1> QED  BY <1>3, <1>4

LEMMA MaxInSet ==
  ASSUME NEW n \in Nat, NEW s \in SUBSET (1 .. n), s # {}
  PROVE  Max(s) \in s
<1> DEFINE D == {n - i : i \in s}
<1>1. D \subseteq Nat /\ D # {}
  <2>1. \A i \in s : i \in Int /\ n - i \in Nat
    OBVIOUS
  <2>2. PICK i \in s : TRUE
    OBVIOUS
  <2> QED  BY <2>1, <2>2
<1>2. \E d \in D : \A e \in D : d <= e
  <2> HIDE DEF D
  <2> QED  BY <1>1, LeastElement
<1>3. PICK m \in s : \A i \in s : n - m <= n - i
  BY <1>2
<1>4. \A i \in s : m >= i
  <2> TAKE i \in s
  <2>1. i \in Int /\ m \in Int
    OBVIOUS
  <2> QED  BY <1>3, <2>1
<1>5. \E x \in s : \A y \in s : x >= y
  BY <1>4
<1> QED  BY <1>5 DEF Max

(* f is the function that a fold of n members of a list chooses, G what it *)
(* does with a member, stage what it has after each of them.               *)
IsFold(f, T, n, list, base, G) ==
  /\ f \in [SUBSET (1 .. n) -> T]
  /\ \A s \in SUBSET (1 .. n) :
       f[s] = IF s = {} THEN base ELSE G[<<f[s \ {Max(s)}], list[Max(s)]>>]

MayFold(f, T, n, list, base, G) ==
  /\ f[{}] = base
  /\ \A s \in SUBSET (1 .. n) :
       s # {} /\ f[s \ {Max(s)}] \in T => f[s] = G[<<f[s \ {Max(s)}], list[Max(s)]>>]

AreStages(stage, T, n, list, base, G, result) ==
  /\ stage \in [0 .. n -> T]
  /\ stage[0] = base /\ stage[n] = result
  /\ \A i \in 1 .. n : stage[i] = G[<<stage[i - 1], list[i]>>]

(* The function that a fold of a list chooses exists.                      *)
LEMMA FoldExists ==
  ASSUME NEW T, NEW X, NEW n \in Nat, NEW list \in [1 .. n -> X], NEW base \in T,
         NEW G \in [T \X X -> T]
  PROVE  \E f : IsFold(f, T, n, list, base, G)
<1> DEFINE Folds(m, f) == \A s \in SUBSET (1 .. m) :
             f[s] = IF s = {} THEN base ELSE G[<<f[s \ {Max(s)}], list[Max(s)]>>]
           Exists(m) == \E f \in [SUBSET (1 .. m) -> T] : Folds(m, f)
           S == {m \in Nat : m <= n => Exists(m)}
<1>1. Exists(0)
  <2>1. PICK f : f = [s \in SUBSET (1 .. 0) |-> base]
    OBVIOUS
  <2>2. SUBSET (1 .. 0) = {{}}
    OBVIOUS
  <2>3. f \in [SUBSET (1 .. 0) -> T] /\ Folds(0, f)
    BY <2>1, <2>2
  <2> QED  BY <2>3
<1>2. ASSUME NEW m \in Nat, m + 1 <= n, Exists(m)
      PROVE  Exists(m + 1)
  <2>1. PICK f \in [SUBSET (1 .. m) -> T] : Folds(m, f)
    BY <1>2
  <2>2. PICK g : g = [s \in SUBSET (1 .. m + 1) |->
                       IF m + 1 \in s THEN G[<<f[s \ {m + 1}], list[m + 1]>>] ELSE f[s]]
    OBVIOUS
  <2>3. list[m + 1] \in X
    BY <1>2
  <2>4. ASSUME NEW s \in SUBSET (1 .. m + 1), m + 1 \in s
        PROVE  /\ g[s] \in T /\ s # {}
               /\ g[s] = G[<<g[s \ {Max(s)}], list[Max(s)]>>]
    <3>1. Max(s) = m + 1
      BY <2>4, MaxIsLast
    <3>2. s \ {m + 1} \in SUBSET (1 .. m) /\ s \ {m + 1} \in SUBSET (1 .. m + 1)
      OBVIOUS
    <3>3. g[s \ {m + 1}] = f[s \ {m + 1}] /\ f[s \ {m + 1}] \in T
      BY <2>2, <3>2
    <3>4. g[s] = G[<<f[s \ {m + 1}], list[m + 1]>>]
      BY <2>2, <2>4
    <3> QED  BY <2>3, <2>4, <3>1, <3>3, <3>4
  <2>5. ASSUME NEW s \in SUBSET (1 .. m + 1), m + 1 \notin s
        PROVE  /\ g[s] \in T
               /\ g[s] = IF s = {} THEN base ELSE G[<<g[s \ {Max(s)}], list[Max(s)]>>]
    <3>1. s \in SUBSET (1 .. m)
      BY <2>5
    <3>2. g[s] = f[s] /\ f[s] \in T
      BY <2>2, <2>5, <3>1
    <3>3. /\ s \ {Max(s)} \in SUBSET (1 .. m) /\ s \ {Max(s)} \in SUBSET (1 .. m + 1)
          /\ m + 1 \notin s \ {Max(s)}
      BY <2>5, <3>1
    <3>4. g[s \ {Max(s)}] = f[s \ {Max(s)}]
      BY <2>2, <3>3
    <3>5. f[s] = IF s = {} THEN base ELSE G[<<f[s \ {Max(s)}], list[Max(s)]>>]
      BY <2>1, <3>1
    <3> QED  BY <3>2, <3>4, <3>5
  <2>6. g \in [SUBSET (1 .. m + 1) -> T] /\ Folds(m + 1, g)
    <3>1. \A s \in SUBSET (1 .. m + 1) : g[s] \in T
      BY <2>4, <2>5
    <3> QED  BY <2>2, <2>4, <2>5, <3>1
  <2> QED  BY <2>6
<1>3. Exists(n)
  <2> HIDE DEF Exists
  <2>1. 0 \in S
    BY <1>1
  <2>2. ASSUME NEW m \in Nat, m \in S PROVE m + 1 \in S
    BY <1>2, <2>2
  <2>3. Nat \subseteq S
    <3> HIDE DEF S
    <3> QED  BY <2>1, <2>2, SetInduction
  <2> QED  BY <2>3
<1> QED  BY <1>3 DEF IsFold

(* A fold goes through one stage per member of the list.                   *)
LEMMA FoldStages ==
  ASSUME NEW T, NEW X, NEW n \in Nat, NEW list \in [1 .. n -> X], NEW base \in T,
         NEW G \in [T \X X -> T], NEW iter, MayFold(iter, T, n, list, base, G)
  PROVE  \E stage : AreStages(stage, T, n, list, base, G, iter[1 .. n])
<1> USE DEF MayFold
<1>1. PICK stage : stage = [i \in 0 .. n |-> iter[1 .. i]]
  OBVIOUS
<1>2. stage[0] = base
  <2>1. 1 .. 0 = {}
    OBVIOUS
  <2> QED  BY <1>1, <2>1
<1>3. ASSUME NEW i \in 1 .. n, stage[i - 1] \in T
      PROVE  stage[i] \in T /\ stage[i] = G[<<stage[i - 1], list[i]>>]
  <2>1. i \in Nat /\ 1 .. i \in SUBSET (1 .. n) /\ i \in 1 .. i /\ 1 .. i # {}
    <3>1. i \in Nat /\ i <= n /\ i \in 1 .. i
      OBVIOUS
    <3>2. \A k \in 1 .. i : k \in 1 .. n
      BY <3>1
    <3> QED  BY <3>1, <3>2
  <2>2. Max(1 .. i) = i
    BY <2>1, MaxIsLast
  <2>3. (1 .. i) \ {i} = 1 .. i - 1
    OBVIOUS
  <2>4. stage[i - 1] = iter[1 .. i - 1] /\ stage[i] = iter[1 .. i]
    BY <1>1
  <2>5. iter[1 .. i] = G[<<iter[1 .. i - 1], list[i]>>]
    BY <1>3, <2>1, <2>2, <2>3, <2>4
  <2> QED  BY <1>3, <2>4, <2>5
<1> DEFINE S == {i \in Nat : i <= n => stage[i] \in T}
<1>4. 0 \in S
  BY <1>2
<1>5. ASSUME NEW i \in Nat, i \in S PROVE i + 1 \in S
  <2> SUFFICES ASSUME i + 1 <= n PROVE stage[i + 1] \in T
    OBVIOUS
  <2>1. i + 1 \in 1 .. n /\ (i + 1) - 1 = i /\ stage[i] \in T
    BY <1>5
  <2> QED  BY <1>3, <2>1
<1>6. \A i \in 0 .. n : stage[i] \in T
  <2>1. Nat \subseteq S
    <3> HIDE DEF S
    <3> QED  BY <1>4, <1>5, SetInduction
  <2> QED  BY <2>1
<1>7. stage \in [0 .. n -> T]
  BY <1>1, <1>6
<1>8. \A i \in 1 .. n : stage[i] = G[<<stage[i - 1], list[i]>>]
  <2> TAKE i \in 1 .. n
  <2>1. i - 1 \in 0 .. n
    OBVIOUS
  <2> QED  BY <1>3, <1>6, <2>1
<1>9. stage[n] = iter[1 .. n]
  BY <1>1
<1> QED  BY <1>2, <1>7, <1>8, <1>9 DEF AreStages

----------------------------------------------------------------------------
(* Sums over lists.                                                        *)

(* The weights w of the members of a list add up to n.                     *)
IsSum(e, w, list, k, n) ==
  /\ e \in [0 .. k -> Int] /\ e[0] = 0 /\ e[k] = n
  /\ \A i \in 1 .. k : e[i] = e[i - 1] + w[list[i]]

Adds(w, list, n) == \E e : IsSum(e, w, list, Len(list), n)

LEMMA AddsEmpty ==
  ASSUME NEW w, NEW n
  PROVE  Adds(w, << >>, n) <=> n = 0
<1>1. PICK c : c = << >>
  OBVIOUS
<1>2. Len(c) = 0 /\ 1 .. Len(c) = {} /\ 0 .. Len(c) = {0}
  BY <1>1
<1>3. ASSUME n = 0 PROVE Adds(w, c, n)
  <2>1. PICK e : e = [i \in {0} |-> 0]
    OBVIOUS
  <2>2. e \in [0 .. 0 -> Int] /\ e[0] = 0 /\ 1 .. 0 = {}
    BY <2>1
  <2>3. IsSum(e, w, c, 0, n)
    BY <1>3, <2>2 DEF IsSum
  <2> QED  BY <1>2, <2>3 DEF Adds
<1>4. ASSUME Adds(w, c, n) PROVE n = 0
  BY <1>2, <1>4 DEF Adds, IsSum
<1> QED  BY <1>1, <1>3, <1>4

LEMMA AddsSingle ==
  ASSUME NEW S, NEW w \in [S -> Nat], NEW x \in S
  PROVE  Adds(w, <<x>>, w[x])
<1>1. PICK c : c = <<x>>
  OBVIOUS
<1>2. Len(c) = 1 /\ 1 .. Len(c) = {1} /\ 0 .. Len(c) = {0, 1} /\ c[1] = x
  BY <1>1
<1>3. PICK e : e = [i \in {0, 1} |-> IF i = 0 THEN 0 ELSE w[x]]
  OBVIOUS
<1>4. e \in [0 .. Len(c) -> Int] /\ e[0] = 0 /\ e[1] = w[x]
  BY <1>2, <1>3
<1>5. Adds(w, c, w[x])
  BY <1>2, <1>4 DEF Adds, IsSum
<1> QED  BY <1>1, <1>5

LEMMA AddsNat ==
  ASSUME NEW S, NEW w \in [S -> Nat], NEW list \in Seq(S), NEW n, Adds(w, list, n)
  PROVE  n \in Nat
<1>1. PICK m \in Nat : m = Len(list)
  OBVIOUS
<1>2. PICK e : /\ e \in [0 .. m -> Int] /\ e[0] = 0 /\ e[m] = n
              /\ \A i \in 1 .. m : e[i] = e[i - 1] + w[list[i]]
  <2>1. PICK e : IsSum(e, w, list, m, n)
    BY <1>1 DEF Adds
  <2> QED  BY <2>1 DEF IsSum
<1> DEFINE D == {i \in Nat : i <= m => e[i] \in Nat}
<1>3. 0 \in D
  BY <1>2
<1>4. ASSUME NEW i \in Nat, i \in D PROVE i + 1 \in D
  <2> SUFFICES ASSUME i + 1 <= m PROVE e[i + 1] \in Nat
    OBVIOUS
  <2>1. i + 1 \in 1 .. m /\ (i + 1) - 1 = i /\ e[i] \in Nat
    BY <1>4
  <2>2. w[list[i + 1]] \in Nat
    BY <1>1, <2>1
  <2> QED  BY <1>2, <2>1, <2>2
<1>5. Nat \subseteq D
  <2> HIDE DEF D
  <2> QED  BY <1>3, <1>4, SetInduction
<1> QED  BY <1>2, <1>5

LEMMA AddsUnique ==
  ASSUME NEW w, NEW list, Len(list) \in Nat, NEW n, NEW m, Adds(w, list, n), Adds(w, list, m)
  PROVE  n = m
<1>1. PICK k \in Nat : k = Len(list)
  OBVIOUS
<1>2. PICK e : /\ e \in [0 .. k -> Int] /\ e[0] = 0 /\ e[k] = n
              /\ \A i \in 1 .. k : e[i] = e[i - 1] + w[list[i]]
  <2>1. PICK e : IsSum(e, w, list, k, n)
    BY <1>1 DEF Adds
  <2> QED  BY <2>1 DEF IsSum
<1>3. PICK f : /\ f \in [0 .. k -> Int] /\ f[0] = 0 /\ f[k] = m
              /\ \A i \in 1 .. k : f[i] = f[i - 1] + w[list[i]]
  <2>1. PICK f : IsSum(f, w, list, k, m)
    BY <1>1 DEF Adds
  <2> QED  BY <2>1 DEF IsSum
<1> DEFINE D == {i \in Nat : i <= k => e[i] = f[i]}
<1>4. 0 \in D
  BY <1>2, <1>3
<1>5. ASSUME NEW i \in Nat, i \in D PROVE i + 1 \in D
  <2> SUFFICES ASSUME i + 1 <= k PROVE e[i + 1] = f[i + 1]
    OBVIOUS
  <2>1. i + 1 \in 1 .. k /\ (i + 1) - 1 = i /\ e[i] = f[i]
    BY <1>5
  <2> QED  BY <1>2, <1>3, <2>1
<1>6. Nat \subseteq D
  <2> HIDE DEF D
  <2> QED  BY <1>4, <1>5, SetInduction
<1> QED  BY <1>2, <1>3, <1>6

LEMMA AddsSame ==
  ASSUME NEW S, NEW w, NEW v, NEW list \in Seq(S), NEW n, Adds(w, list, n),
         \A x \in ToSet(list) : v[x] = w[x]
  PROVE  Adds(v, list, n)
<1>1. \A i \in 1 .. Len(list) : v[list[i]] = w[list[i]]
  BY ToSetMember
<1> QED  BY <1>1 DEF Adds, IsSum

LEMMA AddsConcat ==
  ASSUME NEW S, NEW w \in [S -> Nat], NEW c \in Seq(S), NEW d \in Seq(S), NEW n, NEW m,
         Adds(w, c, n), Adds(w, d, m), NEW r, r = Joined(c, d)
  PROVE  Adds(w, r, n + m)
<1>1. PICK p \in Nat, q \in Nat : p = Len(c) /\ q = Len(d)
  OBVIOUS
<1>2. PICK e : /\ e \in [0 .. p -> Int] /\ e[0] = 0 /\ e[p] = n
              /\ \A i \in 1 .. p : e[i] = e[i - 1] + w[c[i]]
  <2>1. PICK e : IsSum(e, w, c, p, n)
    BY <1>1 DEF Adds
  <2> QED  BY <2>1 DEF IsSum
<1>3. PICK f : /\ f \in [0 .. q -> Int] /\ f[0] = 0 /\ f[q] = m
              /\ \A i \in 1 .. q : f[i] = f[i - 1] + w[d[i]]
  <2>1. PICK f : IsSum(f, w, d, q, m)
    BY <1>1 DEF Adds
  <2> QED  BY <2>1 DEF IsSum
<1>4. /\ Len(r) = p + q
      /\ \A i \in 1 .. p : r[i] = c[i]
      /\ \A i \in 1 .. p + q : i > p => r[i] = d[i - p]
  <2>1. r \in Seq(S) /\ Len(r) = Len(c) + Len(d)
    BY DEF Joined
  <2>2. \A i \in 1 .. Len(c) + Len(d) :
          r[i] = IF i <= Len(c) THEN c[i] ELSE d[i - Len(c)]
    BY DEF Joined
  <2>3. \A i \in 1 .. p + q : r[i] = IF i <= p THEN c[i] ELSE d[i - p]
    BY <1>1, <2>2
  <2> QED  BY <1>1, <2>1, <2>3
<1>5. PICK g : g = [i \in 0 .. p + q |-> IF i <= p THEN e[i] ELSE n + f[i - p]]
  OBVIOUS
<1>6. n \in Int /\ m \in Int
  BY <1>2, <1>3
<1>7. \A i \in 0 .. p + q : i <= p => i \in 0 .. p /\ g[i] = e[i]
  BY <1>5
<1>8. \A i \in 0 .. p + q : i >= p => i - p \in 0 .. q /\ g[i] = n + f[i - p]
  <2> TAKE i \in 0 .. p + q
  <2> HAVE i >= p
  <2>1. i - p \in 0 .. q
    OBVIOUS
  <2>2. CASE i = p
    BY <1>2, <1>3, <1>5, <1>6, <2>1, <2>2
  <2>3. CASE i > p
    BY <1>5, <2>1, <2>3
  <2> QED  BY <2>1, <2>2, <2>3
<1>9. g \in [0 .. p + q -> Int]
  <2>1. ASSUME NEW i \in 0 .. p + q
        PROVE  g[i] \in Int
    <3>1. CASE i <= p
      BY <1>2, <1>7, <3>1
    <3>2. CASE i >= p
      <4>1. f[i - p] \in Int
        BY <1>3, <1>8, <3>2
      <4> QED  BY <1>6, <1>8, <3>2, <4>1
    <3> QED  BY <3>1, <3>2
  <2> QED  BY <1>5, <2>1
<1>10. g[0] = 0 /\ g[p + q] = n + m
  <2>1. (p + q) - p = q
    OBVIOUS
  <2> QED  BY <1>2, <1>3, <1>7, <1>8, <2>1
<1>11. \A i \in 1 .. p + q : g[i] = g[i - 1] + w[r[i]]
  <2> TAKE i \in 1 .. p + q
  <2>1. i \in 0 .. p + q /\ i - 1 \in 0 .. p + q
    OBVIOUS
  <2>2. CASE i <= p
    <3>1. i \in 1 .. p /\ i - 1 <= p
      BY <2>2
    <3> QED  BY <1>2, <1>4, <1>7, <2>1, <2>2, <3>1
  <2>3. CASE i > p
    <3>1. i - p \in 1 .. q /\ i - 1 >= p /\ (i - 1) - p = (i - p) - 1 /\ i >= p
      BY <2>3
    <3>2. g[i] = n + f[i - p] /\ g[i - 1] = n + f[(i - p) - 1]
      BY <1>8, <2>1, <3>1
    <3>3. f[i - p] = f[(i - p) - 1] + w[d[i - p]] /\ r[i] = d[i - p]
      BY <1>3, <1>4, <2>3, <3>1
    <3>4. (i - p) - 1 \in 0 .. q /\ i - p \in 0 .. q
      BY <3>1
    <3>5. f[(i - p) - 1] \in Int /\ f[i - p] \in Int
      BY <1>3, <3>4
    <3>6. PICK x \in Nat : x = w[d[i - p]]
      BY <1>1, <3>1
    <3>7. PICK a \in Int, b \in Int : a = f[(i - p) - 1] /\ b = f[i - p]
      BY <3>5
    <3>8. b = a + x /\ g[i] = n + b /\ g[i - 1] = n + a /\ w[r[i]] = x
      BY <3>2, <3>3, <3>6, <3>7
    <3> QED  BY <1>6, <3>8
  <2> QED  BY <2>2, <2>3
<1>12. IsSum(g, w, r, p + q, n + m)
  BY <1>9, <1>10, <1>11 DEF IsSum
<1> QED  BY <1>4, <1>12 DEF Adds

LEMMA MembersUpTo ==
  ASSUME NEW S, NEW list \in Seq(S), NEW n, Len(list) = n
  PROVE  \A x : x \in ToSet(list) <=> \E i \in 1 .. n : list[i] = x
<1> TAKE x
<1>1. x \in ToSet(list) <=> \E i \in 1 .. Len(list) : list[i] = x
  BY ToSetMember, Zenon
<1> QED  BY <1>1, Zenon

(* A list cut in two.                                                      *)
Upto(list, i) == SubSeq(list, 1, i)
Behind(list, i) == SubSeq(list, i + 1, Len(list))

AreParts(S, list, n, i, c, d) ==
  /\ c \in Seq(S) /\ Len(c) = i /\ \A j \in 1 .. i : c[j] = list[j]
  /\ d \in Seq(S) /\ Len(d) = n - i
  /\ \A j \in 1 .. n - i : d[j] = list[i + j]

LEMMA CutMembers ==
  ASSUME NEW S, NEW list \in Seq(S), NEW i \in 0 .. Len(list),
         NEW c, c = Upto(list, i), NEW d, d = Behind(list, i)
  PROVE  /\ AreParts(S, list, Len(list), i, c, d)
         /\ ToSet(list) = ToSet(c) \cup ToSet(d)
         /\ NoDuplicates(list) =>
              NoDuplicates(c) /\ NoDuplicates(d) /\ ToSet(c) \cap ToSet(d) = {}
<1>1. PICK n \in Nat : n = Len(list)
  OBVIOUS
<1>2. c \in Seq(S) /\ Len(c) = i /\ \A j \in 1 .. i : c[j] = list[j]
  BY DEF Upto
<1>3. d \in Seq(S) /\ Len(d) = n - i /\ \A j \in 1 .. n - i : d[j] = list[i + j]
  BY <1>1 DEF Behind
<1>4. \A x : x \in ToSet(list) <=> \E j \in 1 .. n : list[j] = x
  BY <1>1, ToSetMember
<1>5. \A x : x \in ToSet(c) <=> \E j \in 1 .. i : c[j] = x
  <2>1. c \in Seq(S) /\ Len(c) = i
    BY <1>2
  <2> QED  BY <2>1, MembersUpTo, Zenon
<1>6. \A x : x \in ToSet(d) <=> \E j \in 1 .. n - i : d[j] = x
  <2>1. d \in Seq(S) /\ Len(d) = n - i
    BY <1>3
  <2> QED  BY <2>1, MembersUpTo, Zenon
<1>7. \A j \in 1 .. n : j \in 1 .. i \/ (j - i \in 1 .. n - i /\ i + (j - i) = j)
  BY <1>1
<1>8. \A j \in 1 .. i : j \in 1 .. n
  BY <1>1
<1>9. \A j \in 1 .. n - i : i + j \in 1 .. n
  BY <1>1
<1>10. ToSet(list) = ToSet(c) \cup ToSet(d)
  <2>1. ASSUME NEW x \in ToSet(list) PROVE x \in ToSet(c) \cup ToSet(d)
    <3>1. PICK j \in 1 .. n : list[j] = x
      BY <1>4, <2>1
    <3>2. CASE j \in 1 .. i
      BY <1>2, <1>5, <3>1, <3>2
    <3>3. CASE j - i \in 1 .. n - i /\ i + (j - i) = j
      <4>1. d[j - i] = list[i + (j - i)]
        BY <1>3, <3>3
      <4> QED  BY <1>6, <3>1, <3>3, <4>1
    <3> QED  BY <1>7, <3>2, <3>3
  <2>2. ASSUME NEW x \in ToSet(c) PROVE x \in ToSet(list)
    BY <1>2, <1>4, <1>5, <1>8, <2>2
  <2>3. ASSUME NEW x \in ToSet(d) PROVE x \in ToSet(list)
    BY <1>3, <1>4, <1>6, <1>9, <2>3
  <2> QED  BY <2>1, <2>2, <2>3
<1>11. ASSUME NoDuplicates(list)
       PROVE  NoDuplicates(c) /\ NoDuplicates(d) /\ ToSet(c) \cap ToSet(d) = {}
  <2>1. \A v, u \in 1 .. n : list[v] = list[u] => v = u
    BY <1>1, <1>11 DEF NoDuplicates
  <2>2. \A v, u \in 1 .. i : c[v] = c[u] => v = u
    BY <1>2, <1>8, <2>1
  <2>3. ASSUME NEW v \in 1 .. n - i, NEW u \in 1 .. n - i, d[v] = d[u]
        PROVE  v = u
    <3>1. i + v = i + u
      BY <1>3, <1>9, <2>1, <2>3
    <3> QED  BY <3>1
  <2>4. ASSUME NEW v \in 1 .. i, NEW u \in 1 .. n - i, c[v] = d[u]
        PROVE  FALSE
    <3>1. v = i + u
      BY <1>2, <1>3, <1>8, <1>9, <2>1, <2>4
    <3> QED  BY <3>1
  <2>5. ASSUME NEW x \in ToSet(c), x \in ToSet(d) PROVE FALSE
    <3>1. PICK v \in 1 .. i : c[v] = x
      BY <1>5
    <3>2. PICK u \in 1 .. n - i : d[u] = x
      BY <1>6, <2>5
    <3> QED  BY <2>4, <3>1, <3>2
  <2> QED  BY <1>2, <1>3, <2>2, <2>3, <2>5 DEF NoDuplicates
<1>12. AreParts(S, list, n, i, c, d)
  BY <1>2, <1>3 DEF AreParts
<1> QED  BY <1>1, <1>10, <1>11, <1>12

LEMMA AddsCut ==
  ASSUME NEW S, NEW w \in [S -> Nat], NEW list \in Seq(S), NEW n, Adds(w, list, n),
         NEW i \in 0 .. Len(list),
         NEW c, c = Upto(list, i), NEW d, d = Behind(list, i)
  PROVE  \E k \in Nat : k <= n /\ Adds(w, c, k) /\ Adds(w, d, n - k)
<1>1. PICK m \in Nat : m = Len(list)
  OBVIOUS
<1>2. PICK e : /\ e \in [0 .. m -> Int] /\ e[0] = 0 /\ e[m] = n
              /\ \A j \in 1 .. m : e[j] = e[j - 1] + w[list[j]]
  <2>1. PICK e : IsSum(e, w, list, m, n)
    BY <1>1 DEF Adds
  <2> QED  BY <2>1 DEF IsSum
<1>3. /\ c \in Seq(S) /\ Len(c) = i /\ \A j \in 1 .. i : c[j] = list[j]
      /\ d \in Seq(S) /\ Len(d) = m - i
      /\ \A j \in 1 .. m - i : d[j] = list[i + j]
  <2>1. AreParts(S, list, Len(list), i, c, d)
    BY CutMembers, Zenon
  <2>2. AreParts(S, list, m, i, c, d)
    BY <1>1, <2>1
  <2> QED  BY <2>2 DEF AreParts
<1>4. PICK k \in Int : k = e[i]
  BY <1>1, <1>2
<1>5. Adds(w, c, k)
  <2>1. PICK f : f = [j \in 0 .. i |-> e[j]]
    OBVIOUS
  <2>2. \A j \in 0 .. i : j \in 0 .. m /\ f[j] = e[j]
    BY <1>1, <2>1
  <2>3. f \in [0 .. i -> Int]
    <3>1. \A j \in 0 .. i : f[j] \in Int
      BY <1>2, <2>2
    <3> QED  BY <2>1, <3>1
  <2>4. \A j \in 1 .. i : f[j] = f[j - 1] + w[c[j]]
    <3> TAKE j \in 1 .. i
    <3>1. j \in 0 .. i /\ j - 1 \in 0 .. i /\ j \in 1 .. m
      BY <1>1
    <3> QED  BY <1>2, <1>3, <2>2, <3>1
  <2>5. f[0] = 0 /\ f[i] = k
    BY <1>2, <1>4, <2>2
  <2>6. IsSum(f, w, c, i, k)
    BY <2>3, <2>4, <2>5 DEF IsSum
  <2> QED  BY <1>3, <2>6 DEF Adds
<1>6. Adds(w, d, n - k)
  <2>1. PICK f : f = [j \in 0 .. m - i |-> e[i + j] - k]
    OBVIOUS
  <2>2. \A j \in 0 .. m - i : i + j \in 0 .. m /\ f[j] = e[i + j] - k
    BY <1>1, <2>1
  <2>3. f \in [0 .. m - i -> Int]
    <3>1. \A j \in 0 .. m - i : f[j] \in Int
      BY <1>2, <2>2
    <3> QED  BY <2>1, <3>1
  <2>4. \A j \in 1 .. m - i : f[j] = f[j - 1] + w[d[j]]
    <3> TAKE j \in 1 .. m - i
    <3>1. /\ j \in 0 .. m - i /\ j - 1 \in 0 .. m - i /\ i + j \in 1 .. m
          /\ i + (j - 1) = (i + j) - 1
      BY <1>1
    <3>2. e[i + j] = e[(i + j) - 1] + w[d[j]]
      BY <1>2, <1>3, <3>1
    <3>3. w[d[j]] \in Nat
      BY <1>3
    <3>4. PICK x \in Int : x = e[(i + j) - 1]
      BY <1>2, <2>2, <3>1
    <3>5. PICK y \in Nat : y = w[d[j]]
      BY <3>3
    <3>6. f[j] = (x + y) - k /\ f[j - 1] = x - k
      BY <2>2, <3>1, <3>2, <3>4, <3>5
    <3>7. PICK g \in Int, h \in Int : g = f[j - 1] /\ h = f[j]
      BY <3>6
    <3>8. h = g + y
      BY <3>6, <3>7
    <3> QED  BY <3>5, <3>7, <3>8
  <2>5. f[0] = 0 /\ f[m - i] = n - k
    <3>1. i + 0 = i /\ i + (m - i) = m /\ 0 \in 0 .. m - i /\ m - i \in 0 .. m - i
      BY <1>1
    <3> QED  BY <1>2, <1>4, <2>2, <3>1
  <2>6. IsSum(f, w, d, m - i, n - k)
    BY <2>3, <2>4, <2>5 DEF IsSum
  <2> QED  BY <1>3, <2>6 DEF Adds
<1>7. k \in Nat
  BY <1>3, <1>5, AddsNat
<1>8. n - k \in Nat
  BY <1>3, <1>6, AddsNat
<1>9. n \in Int
  BY <1>1, <1>2
<1> QED  BY <1>5, <1>6, <1>7, <1>8, <1>9

(* The weight of one member changes.                                       *)
LEMMA AddsChange ==
  ASSUME NEW S, NEW w \in [S -> Nat], NEW v \in [S -> Nat], NEW list \in Seq(S),
         NoDuplicates(list), NEW n, Adds(w, list, n), NEW i \in 1 .. Len(list),
         \A x \in ToSet(list) : x = list[i] \/ v[x] = w[x]
  PROVE  Adds(v, list, n - w[list[i]] + v[list[i]])
<1>1. PICK m \in Nat : m = Len(list)
  OBVIOUS
<1>2. PICK e : /\ e \in [0 .. m -> Int] /\ e[0] = 0 /\ e[m] = n
              /\ \A j \in 1 .. m : e[j] = e[j - 1] + w[list[j]]
  <2>1. PICK e : IsSum(e, w, list, m, n)
    BY <1>1 DEF Adds
  <2> QED  BY <2>1 DEF IsSum
<1>3. PICK a \in Nat, b \in Nat : a = w[list[i]] /\ b = v[list[i]]
  OBVIOUS
<1>4. \A j \in 1 .. m : j = i \/ v[list[j]] = w[list[j]]
  <2> TAKE j \in 1 .. m
  <2>1. list[j] \in ToSet(list)
    BY <1>1, ToSetMember
  <2>2. list[j] = list[i] => j = i
    BY <1>1 DEF NoDuplicates
  <2> QED  BY <2>1, <2>2
<1>5. PICK f : f = [j \in 0 .. m |-> IF j < i THEN e[j] ELSE e[j] - a + b]
  OBVIOUS
<1>6. f \in [0 .. m -> Int]
  <2>1. \A j \in 0 .. m : f[j] \in Int
    BY <1>2, <1>5
  <2> QED  BY <1>5, <2>1
<1>7. f[0] = 0 /\ f[m] = n - a + b
  BY <1>1, <1>2, <1>5
<1>8. \A j \in 1 .. m : f[j] = f[j - 1] + v[list[j]]
  <2> TAKE j \in 1 .. m
  <2>1. j \in 0 .. m /\ j - 1 \in 0 .. m /\ list[j] \in S
    BY <1>1
  <2>2. PICK x \in Nat, y \in Nat : x = w[list[j]] /\ y = v[list[j]]
    BY <2>1
  <2>3. PICK c \in Int, d \in Int : c = e[j - 1] /\ d = e[j]
    BY <1>2, <2>1
  <2>4. d = c + x
    BY <1>2, <2>2, <2>3
  <2>8. PICK g \in Int, h \in Int : g = f[j - 1] /\ h = f[j]
    BY <1>6, <2>1
  <2>9. h = g + y
    <3>5. CASE j < i
      <4>1. x = y /\ h = d /\ g = c
        BY <1>1, <1>3, <1>4, <1>5, <2>1, <2>2, <2>3, <2>8, <3>5
      <4> QED  BY <2>4, <4>1
    <3>6. CASE j = i
      <4>1. x = a /\ y = b /\ h = d - a + b /\ g = c
        BY <1>3, <1>5, <2>1, <2>2, <2>3, <2>8, <3>6
      <4> QED  BY <2>4, <4>1
    <3>7. CASE j > i
      <4>2. j # i /\ ~ (j < i) /\ ~ (j - 1 < i)
        BY <1>1, <2>1, <3>7
      <4>3. x = y
        BY <1>4, <2>2, <4>2
      <4>4. f[j] = e[j] - a + b /\ f[j - 1] = e[j - 1] - a + b
        BY <1>5, <2>1, <4>2
      <4>1. x = y /\ h = d - a + b /\ g = c - a + b
        BY <2>3, <2>8, <4>3, <4>4
      <4> QED  BY <2>4, <4>1
    <3> QED  BY <3>5, <3>6, <3>7
  <2> QED  BY <2>2, <2>8, <2>9
<1>9. IsSum(f, v, list, m, n - a + b)
  BY <1>6, <1>7, <1>8 DEF IsSum
<1>10. n - a + b = n - w[list[i]] + v[list[i]]
  BY <1>3
<1> QED  BY <1>1, <1>9, <1>10 DEF Adds

LEMMA AddsReverse ==
  ASSUME NEW S, NEW w \in [S -> Nat], NEW list \in Seq(S), NEW n, Adds(w, list, n),
         NEW r, r = Reverse(list)
  PROVE  Adds(w, r, n)
<1>1. PICK m \in Nat : m = Len(list)
  OBVIOUS
<1>2. PICK e : /\ e \in [0 .. m -> Int] /\ e[0] = 0 /\ e[m] = n
              /\ \A j \in 1 .. m : e[j] = e[j - 1] + w[list[j]]
  <2>1. PICK e : IsSum(e, w, list, m, n)
    BY <1>1 DEF Adds
  <2> QED  BY <2>1 DEF IsSum
<1>3. Len(r) = m /\ \A j \in 1 .. m : r[j] = list[m - j + 1]
  <2>1. r = [j \in 1 .. m |-> list[m - j + 1]]
    BY <1>1 DEF Reverse
  <2>2. \A j \in 1 .. m : m - j + 1 \in 1 .. m
    OBVIOUS
  <2>3. \A j \in 1 .. m : list[m - j + 1] \in S
    BY <1>1, <2>2
  <2>4. r \in Seq(S) /\ DOMAIN r = 1 .. m
    BY <2>1, <2>3
  <2> QED  BY <2>1, <2>4
<1>4. PICK f : f = [j \in 0 .. m |-> n - e[m - j]]
  OBVIOUS
<1>5. n \in Int /\ \A j \in 0 .. m : m - j \in 0 .. m /\ f[j] = n - e[m - j]
  BY <1>2, <1>4
<1>6. f \in [0 .. m -> Int]
  <2>1. ASSUME NEW j \in 0 .. m PROVE f[j] \in Int
    <3>1. PICK x \in Int : x = e[m - j]
      BY <1>2, <1>5
    <3> QED  BY <1>5, <3>1
  <2> QED  BY <1>4, <2>1
<1>7. f[0] = 0 /\ f[m] = n
  <2>1. m - 0 = m /\ m - m = 0 /\ 0 \in 0 .. m /\ m \in 0 .. m
    OBVIOUS
  <2>2. f[0] = n - e[m - 0] /\ f[m] = n - e[m - m]
    BY <1>5, <2>1
  <2>3. n - n = 0 /\ n - 0 = n
    BY <1>5
  <2> QED  BY <1>2, <2>1, <2>2, <2>3
<1>8. \A j \in 1 .. m : f[j] = f[j - 1] + w[r[j]]
  <2> TAKE j \in 1 .. m
  <2>1. PICK i \in 1 .. m : i = m - j + 1
    OBVIOUS
  <2>2. j \in 0 .. m /\ j - 1 \in 0 .. m /\ m - j = i - 1 /\ m - (j - 1) = i
    BY <2>1
  <2>3. f[j] = n - e[i - 1] /\ f[j - 1] = n - e[i] /\ r[j] = list[i]
    BY <1>3, <1>5, <2>1, <2>2
  <2>4. e[i] = e[i - 1] + w[list[i]] /\ e[i] \in Int /\ e[i - 1] \in Int
    BY <1>2
  <2>5. PICK x \in Nat, y \in Int, z \in Int : x = w[list[i]] /\ y = e[i - 1] /\ z = e[i]
    BY <1>1, <2>4
  <2>6. z = y + x /\ f[j] = n - y /\ f[j - 1] = n - z /\ w[r[j]] = x
    BY <2>3, <2>4, <2>5
  <2>7. PICK o \in Int : o = n
    BY <1>5
  <2>8. PICK g \in Int, h \in Int : g = o - z /\ h = o - y
    OBVIOUS
  <2>9. h = g + x
    BY <2>6, <2>8
  <2>10. f[j] = h /\ f[j - 1] = g
    BY <2>6, <2>7, <2>8
  <2> QED  BY <2>6, <2>9, <2>10
<1>9. IsSum(f, w, r, m, n)
  BY <1>6, <1>7, <1>8 DEF IsSum
<1> QED  BY <1>3, <1>9 DEF Adds
============================================================================
