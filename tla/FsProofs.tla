------------------------------ MODULE FsProofs ------------------------------
(***************************************************************************)
(* The theorems about buffer lists: no buffer and no list is lost or used  *)
(* twice, lengths and flags are exact and no waiter starves, for any       *)
(* number and size of buffers, any lists, fields and tasks; and about      *)
(* pipes: messages come back whole and in order, for any size of the       *)
(* buffer and any messages that fit it.                                    *)
(***************************************************************************)
EXTENDS FsBuffer, Pipe, SllProofs, FiniteSetTheorems

----------------------------------------------------------------------------
(* The folds of the operations.  Each has stages, one for each turn of the *)
(* loop in the code; what a turn keeps, the loop keeps.                    *)

PushTurn(s, head, packed) == IF s.left = <<>> THEN s ELSE PushPiece(s, head, packed)
UpdateTurn(s, b, packed)  == IF s.left = <<>> THEN s ELSE UpdatePiece(s, b, packed)
PullTurn(s, b, from_tail, packed) ==
  IF s.n = 0 THEN s ELSE PullPiece(s, b, from_tail, packed)
LengthTurn(n, b)   == n + Len(buf[b].data)
BytesTurn(data, b) == data \o buf[b].data

(* What the pieces of a push keep, the push keeps.                         *)
LEMMA PushAllStays ==
  ASSUME NEW T, NEW X, NEW st \in T, NEW head, NEW packed, st.left \in Seq(X),
         \A s \in T : PushTurn(s, head, packed) \in T
  PROVE  PushAll(st, head, packed) \in T
<1> DEFINE Body(n, f) == [s \in SUBSET (1 .. n) |->
             IF s = {} THEN st ELSE PushTurn(f[s \ {Max(s)}], head, packed)]
<1>1. PICK n \in Nat : n = Len(st.left) /\ st.left \in [1 .. n -> X]
  OBVIOUS
<1>2. PICK iter : /\ PushAll(st, head, packed) = iter[1 .. n]
                  /\ iter = CHOOSE f : f = Body(n, f)
  BY <1>1, Zenon DEF PushAll, PushTurn, FoldLeft, MapThenFoldSet
<1>3. PICK G \in [T \X X -> T] : \A s \in T, x \in X : G[<<s, x>>] = PushTurn(s, head, packed)
  <2>1. PICK G : G = [p \in T \X X |-> PushTurn(p[1], head, packed)]
    OBVIOUS
  <2> QED  BY <2>1
<1>4. ASSUME NEW f, NEW s \in SUBSET (1 .. n), s # {}, f[s \ {Max(s)}] \in T
      PROVE  G[<<f[s \ {Max(s)}], st.left[Max(s)]>>] = PushTurn(f[s \ {Max(s)}], head, packed)
  <2>1. st.left[Max(s)] \in X
    BY <1>1, <1>4, MaxInSet
  <2> QED  BY <1>3, <1>4, <2>1
<1>5. \E f : f = Body(n, f)
  <2>1. PICK f : IsFold(f, T, n, st.left, st, G)
    BY <1>1, FoldExists
  <2>2. \A s \in SUBSET (1 .. n) : f[s] = Body(n, f)[s]
    BY <1>4, <2>1 DEF IsFold
  <2> QED  BY <2>1, <2>2 DEF IsFold
<1>6. iter = Body(n, iter)
  <2> HIDE DEF Body
  <2> QED  BY <1>2, <1>5
<1>7. MayFold(iter, T, n, st.left, st, G)
  BY <1>4, <1>6 DEF MayFold
<1>8. PICK stage : AreStages(stage, T, n, st.left, st, G, iter[1 .. n])
  BY <1>1, <1>3, <1>7, FoldStages
<1> QED  BY <1>2, <1>8 DEF AreStages

(* A copy of the buffers of a list.                                        *)
LEMMA CopyStays ==
  ASSUME NEW T, NEW X, NEW st \in T, NEW list \in Seq(X),
         \A s \in T, b \in X : CopyBuffer(s, b) \in T
  PROVE  FoldLeft(CopyBuffer, st, list) \in T
<1> DEFINE Body(n, f) == [s \in SUBSET (1 .. n) |->
             IF s = {} THEN st ELSE CopyBuffer(f[s \ {Max(s)}], list[Max(s)])]
<1>1. PICK n \in Nat : n = Len(list) /\ list \in [1 .. n -> X]
  OBVIOUS
<1>2. PICK iter : /\ FoldLeft(CopyBuffer, st, list) = iter[1 .. n]
                  /\ iter = CHOOSE f : f = Body(n, f)
  BY <1>1, Zenon DEF FoldLeft, MapThenFoldSet
<1>3. PICK G \in [T \X X -> T] : \A s \in T, x \in X : G[<<s, x>>] = CopyBuffer(s, x)
  <2>1. PICK G : G = [p \in T \X X |-> CopyBuffer(p[1], p[2])]
    OBVIOUS
  <2> QED  BY <2>1
<1>4. ASSUME NEW f, NEW s \in SUBSET (1 .. n), s # {}, f[s \ {Max(s)}] \in T
      PROVE  G[<<f[s \ {Max(s)}], list[Max(s)]>>] = CopyBuffer(f[s \ {Max(s)}], list[Max(s)])
  <2>1. list[Max(s)] \in X
    BY <1>1, <1>4, MaxInSet
  <2> QED  BY <1>3, <1>4, <2>1
<1>5. \E f : f = Body(n, f)
  <2>1. PICK f : IsFold(f, T, n, list, st, G)
    BY <1>1, FoldExists
  <2>2. \A s \in SUBSET (1 .. n) : f[s] = Body(n, f)[s]
    BY <1>4, <2>1 DEF IsFold
  <2> QED  BY <2>1, <2>2 DEF IsFold
<1>6. iter = Body(n, iter)
  <2> HIDE DEF Body
  <2> QED  BY <1>2, <1>5
<1>7. MayFold(iter, T, n, list, st, G)
  BY <1>4, <1>6 DEF MayFold
<1>8. PICK stage : AreStages(stage, T, n, list, st, G, iter[1 .. n])
  BY <1>1, <1>3, <1>7, FoldStages
<1> QED  BY <1>2, <1>8 DEF AreStages

(* An update in place.                                                     *)
LEMMA UpdateAllStays ==
  ASSUME NEW T, NEW X, NEW st \in T, NEW list \in Seq(X), NEW packed,
         \A s \in T, b \in X : UpdateTurn(s, b, packed) \in T
  PROVE  UpdateAll(st, list, packed) \in T
<1> DEFINE Body(n, f) == [s \in SUBSET (1 .. n) |->
             IF s = {} THEN st ELSE UpdateTurn(f[s \ {Max(s)}], list[Max(s)], packed)]
<1>1. PICK n \in Nat : n = Len(list) /\ list \in [1 .. n -> X]
  OBVIOUS
<1>2. PICK iter : /\ UpdateAll(st, list, packed) = iter[1 .. n]
                  /\ iter = CHOOSE f : f = Body(n, f)
  BY <1>1, Zenon DEF UpdateAll, UpdateTurn, FoldLeft, MapThenFoldSet
<1>3. PICK G \in [T \X X -> T] : \A s \in T, x \in X : G[<<s, x>>] = UpdateTurn(s, x, packed)
  <2>1. PICK G : G = [p \in T \X X |-> UpdateTurn(p[1], p[2], packed)]
    OBVIOUS
  <2> QED  BY <2>1
<1>4. ASSUME NEW f, NEW s \in SUBSET (1 .. n), s # {}, f[s \ {Max(s)}] \in T
      PROVE  G[<<f[s \ {Max(s)}], list[Max(s)]>>] = UpdateTurn(f[s \ {Max(s)}], list[Max(s)], packed)
  <2>1. list[Max(s)] \in X
    BY <1>1, <1>4, MaxInSet
  <2> QED  BY <1>3, <1>4, <2>1
<1>5. \E f : f = Body(n, f)
  <2>1. PICK f : IsFold(f, T, n, list, st, G)
    BY <1>1, FoldExists
  <2>2. \A s \in SUBSET (1 .. n) : f[s] = Body(n, f)[s]
    BY <1>4, <2>1 DEF IsFold
  <2> QED  BY <2>1, <2>2 DEF IsFold
<1>6. iter = Body(n, iter)
  <2> HIDE DEF Body
  <2> QED  BY <1>2, <1>5
<1>7. MayFold(iter, T, n, list, st, G)
  BY <1>4, <1>6 DEF MayFold
<1>8. PICK stage : AreStages(stage, T, n, list, st, G, iter[1 .. n])
  BY <1>1, <1>3, <1>7, FoldStages
<1> QED  BY <1>2, <1>8 DEF AreStages

(* A pull goes through the buffers in their order.                         *)
LEMMA PullAllStages ==
  ASSUME NEW T, NEW X, NEW st \in T, NEW list \in Seq(X), NEW from_tail, NEW packed,
         \A s \in T, b \in X : PullTurn(s, b, from_tail, packed) \in T
  PROVE  \E stage \in [0 .. Len(list) -> T] :
           /\ stage[0] = st /\ stage[Len(list)] = PullAll(st, list, from_tail, packed)
           /\ \A i \in 1 .. Len(list) : stage[i] = PullTurn(stage[i - 1], list[i], from_tail, packed)
<1> DEFINE Body(n, f) == [s \in SUBSET (1 .. n) |->
             IF s = {} THEN st ELSE PullTurn(f[s \ {Max(s)}], list[Max(s)], from_tail, packed)]
<1>1. PICK n \in Nat : n = Len(list) /\ list \in [1 .. n -> X]
  OBVIOUS
<1>2. PICK iter : /\ PullAll(st, list, from_tail, packed) = iter[1 .. n]
                  /\ iter = CHOOSE f : f = Body(n, f)
  BY <1>1, Zenon DEF PullAll, PullTurn, FoldLeft, MapThenFoldSet
<1>3. PICK G \in [T \X X -> T] : \A s \in T, x \in X : G[<<s, x>>] = PullTurn(s, x, from_tail, packed)
  <2>1. PICK G : G = [p \in T \X X |-> PullTurn(p[1], p[2], from_tail, packed)]
    OBVIOUS
  <2> QED  BY <2>1
<1>4. ASSUME NEW f, NEW s \in SUBSET (1 .. n), s # {}, f[s \ {Max(s)}] \in T
      PROVE  G[<<f[s \ {Max(s)}], list[Max(s)]>>] = PullTurn(f[s \ {Max(s)}], list[Max(s)], from_tail, packed)
  <2>1. list[Max(s)] \in X
    BY <1>1, <1>4, MaxInSet
  <2> QED  BY <1>3, <1>4, <2>1
<1>5. \E f : f = Body(n, f)
  <2>1. PICK f : IsFold(f, T, n, list, st, G)
    BY <1>1, FoldExists
  <2>2. \A s \in SUBSET (1 .. n) : f[s] = Body(n, f)[s]
    BY <1>4, <2>1 DEF IsFold
  <2> QED  BY <2>1, <2>2 DEF IsFold
<1>6. iter = Body(n, iter)
  <2> HIDE DEF Body
  <2> QED  BY <1>2, <1>5
<1>7. MayFold(iter, T, n, list, st, G)
  BY <1>4, <1>6 DEF MayFold
<1>8. PICK stage : AreStages(stage, T, n, list, st, G, iter[1 .. n])
  BY <1>1, <1>3, <1>7, FoldStages
<1>9. \A i \in 1 .. n : stage[i] = PullTurn(stage[i - 1], list[i], from_tail, packed)
  <2> TAKE i \in 1 .. n
  <2>1. i - 1 \in 0 .. n
    OBVIOUS
  <2>2. stage[i - 1] \in T /\ list[i] \in X
    BY <1>1, <1>8, <2>1 DEF AreStages
  <2> QED  BY <1>3, <1>8, <2>2 DEF AreStages
<1> QED  BY <1>1, <1>2, <1>8, <1>9 DEF AreStages

(* The length and the bytes of a list of buffers.                          *)
LEMMA LengthStages ==
  ASSUME NEW T, NEW X, NEW list \in Seq(X), 0 \in T,
         \A s \in T, b \in X : LengthTurn(s, b) \in T
  PROVE  \E stage \in [0 .. Len(list) -> T] :
           /\ stage[0] = 0 /\ stage[Len(list)] = LengthOf(list)
           /\ \A i \in 1 .. Len(list) : stage[i] = LengthTurn(stage[i - 1], list[i])
<1> DEFINE Body(n, f) == [s \in SUBSET (1 .. n) |->
             IF s = {} THEN 0 ELSE LengthTurn(f[s \ {Max(s)}], list[Max(s)])]
<1>1. PICK n \in Nat : n = Len(list) /\ list \in [1 .. n -> X]
  OBVIOUS
<1>2. PICK iter : /\ LengthOf(list) = iter[1 .. n]
                  /\ iter = CHOOSE f : f = Body(n, f)
  BY <1>1, Zenon DEF LengthOf, LengthTurn, FoldLeft, MapThenFoldSet
<1>3. PICK G \in [T \X X -> T] : \A s \in T, x \in X : G[<<s, x>>] = LengthTurn(s, x)
  <2>1. PICK G : G = [p \in T \X X |-> LengthTurn(p[1], p[2])]
    OBVIOUS
  <2> QED  BY <2>1
<1>4. ASSUME NEW f, NEW s \in SUBSET (1 .. n), s # {}, f[s \ {Max(s)}] \in T
      PROVE  G[<<f[s \ {Max(s)}], list[Max(s)]>>] = LengthTurn(f[s \ {Max(s)}], list[Max(s)])
  <2>1. list[Max(s)] \in X
    BY <1>1, <1>4, MaxInSet
  <2> QED  BY <1>3, <1>4, <2>1
<1>5. \E f : f = Body(n, f)
  <2>1. PICK f : IsFold(f, T, n, list, 0, G)
    BY <1>1, FoldExists
  <2>2. \A s \in SUBSET (1 .. n) : f[s] = Body(n, f)[s]
    BY <1>4, <2>1 DEF IsFold
  <2> QED  BY <2>1, <2>2 DEF IsFold
<1>6. iter = Body(n, iter)
  <2> HIDE DEF Body
  <2> QED  BY <1>2, <1>5
<1>7. MayFold(iter, T, n, list, 0, G)
  BY <1>4, <1>6 DEF MayFold
<1>8. PICK stage : AreStages(stage, T, n, list, 0, G, iter[1 .. n])
  BY <1>1, <1>3, <1>7, FoldStages
<1>9. \A i \in 1 .. n : stage[i] = LengthTurn(stage[i - 1], list[i])
  <2> TAKE i \in 1 .. n
  <2>1. i - 1 \in 0 .. n
    OBVIOUS
  <2>2. stage[i - 1] \in T /\ list[i] \in X
    BY <1>1, <1>8, <2>1 DEF AreStages
  <2> QED  BY <1>3, <1>8, <2>2 DEF AreStages
<1> QED  BY <1>1, <1>2, <1>8, <1>9 DEF AreStages

LEMMA BytesStages ==
  ASSUME NEW T, NEW X, NEW list \in Seq(X), <<>> \in T,
         \A s \in T, b \in X : BytesTurn(s, b) \in T
  PROVE  \E stage \in [0 .. Len(list) -> T] :
           /\ stage[0] = <<>> /\ stage[Len(list)] = BytesIn(list)
           /\ \A i \in 1 .. Len(list) : stage[i] = BytesTurn(stage[i - 1], list[i])
<1> DEFINE Body(n, f) == [s \in SUBSET (1 .. n) |->
             IF s = {} THEN <<>> ELSE BytesTurn(f[s \ {Max(s)}], list[Max(s)])]
<1>1. PICK n \in Nat : n = Len(list) /\ list \in [1 .. n -> X]
  OBVIOUS
<1>2. PICK iter : /\ BytesIn(list) = iter[1 .. n]
                  /\ iter = CHOOSE f : f = Body(n, f)
  BY <1>1, Zenon DEF BytesIn, BytesTurn, FoldLeft, MapThenFoldSet
<1>3. PICK G \in [T \X X -> T] : \A s \in T, x \in X : G[<<s, x>>] = BytesTurn(s, x)
  <2>1. PICK G : G = [p \in T \X X |-> BytesTurn(p[1], p[2])]
    OBVIOUS
  <2> QED  BY <2>1
<1>4. ASSUME NEW f, NEW s \in SUBSET (1 .. n), s # {}, f[s \ {Max(s)}] \in T
      PROVE  G[<<f[s \ {Max(s)}], list[Max(s)]>>] = BytesTurn(f[s \ {Max(s)}], list[Max(s)])
  <2>1. list[Max(s)] \in X
    BY <1>1, <1>4, MaxInSet
  <2> QED  BY <1>3, <1>4, <2>1
<1>5. \E f : f = Body(n, f)
  <2>1. PICK f : IsFold(f, T, n, list, <<>>, G)
    BY <1>1, FoldExists
  <2>2. \A s \in SUBSET (1 .. n) : f[s] = Body(n, f)[s]
    BY <1>4, <2>1 DEF IsFold
  <2> QED  BY <2>1, <2>2 DEF IsFold
<1>6. iter = Body(n, iter)
  <2> HIDE DEF Body
  <2> QED  BY <1>2, <1>5
<1>7. MayFold(iter, T, n, list, <<>>, G)
  BY <1>4, <1>6 DEF MayFold
<1>8. PICK stage : AreStages(stage, T, n, list, <<>>, G, iter[1 .. n])
  BY <1>1, <1>3, <1>7, FoldStages
<1>9. \A i \in 1 .. n : stage[i] = BytesTurn(stage[i - 1], list[i])
  <2> TAKE i \in 1 .. n
  <2>1. i - 1 \in 0 .. n
    OBVIOUS
  <2>2. stage[i - 1] \in T /\ list[i] \in X
    BY <1>1, <1>8, <2>1 DEF AreStages
  <2> QED  BY <1>3, <1>8, <2>2 DEF AreStages
<1> QED  BY <1>1, <1>2, <1>8, <1>9 DEF AreStages

----------------------------------------------------------------------------
(* The buffers.                                                            *)

(* The bytes in each buffer.                                               *)
Sizes(bf) == [b \in Buffers |-> Len(bf[b].data)]

(* The data of every buffer fits behind its head room.                     *)
BufferSet == [Buffers -> [room : 0 .. BufferSize, data : Seq(1 .. MaxField)]]
Fitting(bf) ==
  bf \in BufferSet /\ \A b \in Buffers : bf[b].room + Len(bf[b].data) <= BufferSize

(* A chain of total bytes: no buffer twice, and none that is empty.        *)
Sound(bf, c, total) ==
  /\ NoDuplicates(c)
  /\ \A b \in ToSet(c) : bf[b].data # <<>>
  /\ Adds(Sizes(bf), c, total)

FreeSound(bf, free) ==
  NoDuplicates(free) /\ \A b \in ToSet(free) : bf[b] = Fresh

Disjoint(c, d) == ToSet(c) \cap ToSet(d) = {}

(* Every buffer is free and as it was initialised, or in one chain.        *)
Once(bf, ch, total, free) ==
  /\ ch \in [Lists -> Seq(Buffers)] /\ total \in [Lists -> Nat]
  /\ free \in Seq(Buffers) /\ Fitting(bf) /\ FreeSound(bf, free)
  /\ \A l \in Lists : Sound(bf, ch[l], total[l]) /\ Disjoint(ch[l], free)
  /\ \A l, m \in Lists : l # m => Disjoint(ch[l], ch[m])
  /\ \A b \in Buffers : b \in ToSet(free) \/ \E l \in Lists : b \in ToSet(ch[l])

(* The buffers in the chains of some lists, and those with the free ones.  *)
MembersOf(K, ch)  == UNION {ToSet(ch[l]) : l \in K}
Pool(K, ch, free) == ToSet(free) \cup MembersOf(K, ch)

(* The other lists keep their chains, and the buffers in them.             *)
OthersStay(K, bf, ch, total, bf2, ch2, total2) ==
  \A l \in Lists \ K :
    /\ ch2[l] = ch[l] /\ total2[l] = total[l]
    /\ \A b \in ToSet(ch[l]) : bf2[b] = bf[b]

LEMMA MembersIn ==
  ASSUME NEW S, NEW list \in Seq(S)
  PROVE  ToSet(list) \subseteq S
BY ToSetMember

LEMMA SizesType ==
  ASSUME NEW bf \in BufferSet
  PROVE  /\ Sizes(bf) \in [Buffers -> Nat]
         /\ \A b \in Buffers : Sizes(bf)[b] = Len(bf[b].data)
BY DEF Sizes, BufferSet

(* A chain whose buffers stay.                                             *)
LEMMA SoundStays ==
  ASSUME NEW bf, NEW bf2, NEW c \in Seq(Buffers), NEW n, Sound(bf, c, n),
         \A b \in ToSet(c) : bf2[b] = bf[b]
  PROVE  Sound(bf2, c, n)
<1>1. \A b \in ToSet(c) : Sizes(bf2)[b] = Sizes(bf)[b]
  BY MembersIn DEF Sizes
<1>2. Adds(Sizes(bf2), c, n)
  BY <1>1, AddsSame DEF Sound
<1> QED  BY <1>2 DEF Sound

(* An operation on the lists K that leaves the others alone and moves      *)
(* buffers between these lists and the free ones.                          *)
Rearranged(K, bf, ch, total, free, bf2, ch2, total2, free2) ==
  /\ K \subseteq Lists /\ free2 \in Seq(Buffers)
  /\ ch2 \in [Lists -> Seq(Buffers)] /\ total2 \in [Lists -> Nat]
  /\ Fitting(bf2) /\ FreeSound(bf2, free2)
  /\ \A l \in Lists \ K : ch2[l] = ch[l] /\ total2[l] = total[l]
  /\ \A l \in K : Sound(bf2, ch2[l], total2[l]) /\ Disjoint(ch2[l], free2)
  /\ \A l, m \in K : l # m => Disjoint(ch2[l], ch2[m])
  /\ Pool(K, ch2, free2) = Pool(K, ch, free)
  /\ \A b \in Buffers : b \notin Pool(K, ch, free) => bf2[b] = bf[b]

LEMMA ListsChange ==
  ASSUME NEW bf, NEW ch, NEW total, NEW free, Once(bf, ch, total, free),
         NEW K, NEW bf2, NEW free2, NEW ch2, NEW total2,
         Rearranged(K, bf, ch, total, free, bf2, ch2, total2, free2)
  PROVE  /\ Once(bf2, ch2, total2, free2)
         /\ OthersStay(K, bf, ch, total, bf2, ch2, total2)
<1>0. /\ K \subseteq Lists /\ free2 \in Seq(Buffers)
      /\ ch2 \in [Lists -> Seq(Buffers)] /\ total2 \in [Lists -> Nat]
      /\ Fitting(bf2) /\ FreeSound(bf2, free2)
      /\ \A l \in Lists \ K : ch2[l] = ch[l] /\ total2[l] = total[l]
      /\ \A l \in K : Sound(bf2, ch2[l], total2[l]) /\ Disjoint(ch2[l], free2)
      /\ \A l, m \in K : l # m => Disjoint(ch2[l], ch2[m])
      /\ Pool(K, ch2, free2) = Pool(K, ch, free)
      /\ \A b \in Buffers : b \notin Pool(K, ch, free) => bf2[b] = bf[b]
  BY DEF Rearranged
<1>1. ASSUME NEW l \in Lists \ K
      PROVE  ToSet(ch[l]) \cap Pool(K, ch, free) = {} /\ ToSet(ch[l]) \subseteq Buffers
  <2>1. ToSet(ch[l]) \subseteq Buffers
    BY <1>0, MembersIn DEF Once
  <2> QED  BY <1>0, <2>1 DEF Once, Pool, MembersOf, Disjoint
<1>2. ASSUME NEW l \in Lists \ K
      PROVE  /\ ch2[l] = ch[l] /\ total2[l] = total[l]
             /\ \A b \in ToSet(ch[l]) : bf2[b] = bf[b]
  BY <1>0, <1>1
<1>3. ASSUME NEW l \in Lists
      PROVE  Sound(bf2, ch2[l], total2[l]) /\ Disjoint(ch2[l], free2)
  <2>1. CASE l \in K
    BY <1>0, <2>1
  <2>2. CASE l \notin K
    <3>1. Sound(bf2, ch2[l], total2[l])
      BY <1>0, <1>2, <2>2, SoundStays DEF Once
    <3>2. ToSet(free2) \subseteq Pool(K, ch, free)
      BY <1>0 DEF Pool, MembersOf
    <3> QED  BY <1>0, <1>1, <1>2, <2>2, <3>1, <3>2 DEF Disjoint
  <2> QED  BY <1>0, <2>1, <2>2
<1>4. ASSUME NEW l \in K
      PROVE  ToSet(ch2[l]) \subseteq Pool(K, ch, free)
  BY <1>0 DEF Pool, MembersOf
<1>5. ASSUME NEW l \in Lists, NEW m \in Lists, l # m
      PROVE  Disjoint(ch2[l], ch2[m])
  <2>1. CASE l \in K /\ m \in K
    BY <1>0, <2>1, <1>5
  <2>2. CASE l \in K /\ m \notin K
    BY <1>0, <2>2, <1>1, <1>2, <1>4 DEF Disjoint
  <2>3. CASE l \notin K /\ m \in K
    BY <1>0, <2>3, <1>1, <1>2, <1>4 DEF Disjoint
  <2>4. CASE l \notin K /\ m \notin K
    BY <1>0, <2>4, <1>2, <1>5 DEF Once
  <2> QED  BY <1>0, <2>1, <2>2, <2>3, <2>4
<1>6. ASSUME NEW b \in Buffers
      PROVE  b \in ToSet(free2) \/ \E l \in Lists : b \in ToSet(ch2[l])
  <2>1. CASE b \in Pool(K, ch, free)
    BY <1>0, <2>1 DEF Pool, MembersOf
  <2>2. CASE b \notin Pool(K, ch, free)
    <3>1. PICK l \in Lists : b \in ToSet(ch[l])
      BY <1>0, <2>2 DEF Once, Pool, MembersOf
    <3>2. l \notin K
      BY <1>0, <2>2, <3>1 DEF Pool, MembersOf
    <3> QED  BY <1>0, <1>2, <3>1, <3>2
  <2> QED  BY <1>0, <2>1, <2>2
<1>7. OthersStay(K, bf, ch, total, bf2, ch2, total2)
  BY <1>0, <1>2 DEF OthersStay
<1> QED  BY <1>0, <1>3, <1>5, <1>6, <1>7 DEF Once

----------------------------------------------------------------------------
(* A push.                                                                 *)

BufferRecord == [room : 0 .. BufferSize, data : Seq(1 .. MaxField)]

LEMMA MemoryLength ==
  ASSUME NEW S, NEW data \in Seq(S), NEW packed, NEW m, m = Memory(data, packed)
  PROVE  m \in Seq(S) /\ Len(m) = Len(data)
<1>1. CASE packed
  <2>1. m = [i \in 1 .. Len(data) |-> data[(Len(data) - i) + 1]]
    BY <1>1 DEF Memory, Reverse
  <2>2. \A i \in 1 .. Len(data) : (Len(data) - i) + 1 \in 1 .. Len(data)
    OBVIOUS
  <2> QED  BY <2>1, <2>2
<1>2. CASE ~packed
  BY <1>2 DEF Memory
<1> QED  BY <1>1, <1>2

LEMMA PartLength ==
  ASSUME NEW S, NEW list \in Seq(S), NEW i \in 0 .. Len(list), NEW c, NEW d,
         c = First(list, i), d = Drop(list, i)
  PROVE  /\ c \in Seq(S) /\ Len(c) = i
         /\ d \in Seq(S) /\ Len(d) = Len(list) - i
<1>1. c = Upto(list, i) /\ d = Behind(list, i)
  BY DEF First, Drop, Upto, Behind
<1> QED  BY <1>1, CutMembers DEF AreParts

(* The data that fits a buffer goes before or after the data in it.        *)
LEMMA PushFits ==
  ASSUME NEW b \in BufferRecord, b.room + Len(b.data) <= BufferSize,
         NEW data \in Seq(1 .. MaxField), NEW head \in BOOLEAN, NEW packed,
         Len(data) <= IF head THEN FS_BUFFER_SPACE(b) ELSE FS_BUFFER_TAIL_ROOM(b),
         NEW new, new = fs_buffer_push(b, data, head, packed)
  PROVE  /\ new \in BufferRecord /\ new.room + Len(new.data) <= BufferSize
         /\ Len(new.data) = Len(b.data) + Len(data)
<1>1. PICK m : m = Memory(data, packed)
  OBVIOUS
<1>2. m \in Seq(1 .. MaxField) /\ Len(m) = Len(data)
  BY <1>1, MemoryLength
<1>3. /\ b.room \in 0 .. BufferSize /\ b.data \in Seq(1 .. MaxField)
      /\ Len(b.data) \in Nat /\ Len(data) \in Nat /\ BufferSize \in Nat
  BY BufferAssumption DEF BufferRecord
<1>4. CASE head
  <2>1. PICK room : room = IF b.room < Len(data) THEN b.room + (Len(data) - b.room) ELSE b.room
    OBVIOUS
  <2>2. new = [room |-> room - Len(data), data |-> m \o b.data]
    BY <1>1, <1>4, <2>1 DEF fs_buffer_push, fs_buffer_add_head, BufferRecord
  <2>3. m \o b.data \in Seq(1 .. MaxField) /\ Len(m \o b.data) = Len(data) + Len(b.data)
    BY <1>2, <1>3
  <2>4. Len(data) + Len(b.data) <= BufferSize
    BY <1>3, <1>4 DEF FS_BUFFER_SPACE
  <2>5. /\ room - Len(data) \in 0 .. BufferSize
        /\ (room - Len(data)) + (Len(data) + Len(b.data)) <= BufferSize
    BY <1>3, <2>1, <2>4
  <2> QED  BY <1>3, <2>2, <2>3, <2>5 DEF BufferRecord
<1>5. CASE ~head
  <2>1. new = [b EXCEPT !.data = @ \o m]
    BY <1>1, <1>5 DEF fs_buffer_push
  <2>2. b.data \o m \in Seq(1 .. MaxField) /\ Len(b.data \o m) = Len(b.data) + Len(data)
    BY <1>2, <1>3
  <2>3. b.room + (Len(b.data) + Len(data)) <= BufferSize
    BY <1>3, <1>5 DEF FS_BUFFER_SPACE, FS_BUFFER_TAIL_ROOM
  <2>4. new.room = b.room /\ new.data = b.data \o m
    BY <2>1 DEF BufferRecord
  <2> QED  BY <1>3, <2>1, <2>2, <2>3, <2>4 DEF BufferRecord
<1> QED  BY <1>4, <1>5

(* A chain that a buffer is put in front of or behind.                     *)
LEMMA AddsOneMore ==
  ASSUME NEW S, NEW w \in [S -> Nat], NEW c \in Seq(S), NEW x \in S, NEW n, Adds(w, c, n),
         NEW head, NEW d, d = IF head THEN sll_push(c, x) ELSE sll_append(c, x)
  PROVE  Adds(w, d, n + w[x])
<1>1. PICK one \in Seq(S) : one = <<x>>
  <2>1. <<x>> \in Seq(S)
    BY SingleMembers
  <2> QED  BY <2>1
<1>2. Adds(w, one, w[x]) /\ n \in Nat /\ w[x] \in Nat
  BY <1>1, AddsSingle, AddsNat
<1>3. CASE head
  <2>1. d = Joined(one, c)
    BY <1>1, <1>3 DEF Joined, sll_push
  <2>2. Adds(w, d, w[x] + n)
    BY <1>2, <2>1, AddsConcat
  <2> QED  BY <1>2, <2>2
<1>4. CASE ~head
  <2>1. d = Joined(c, one)
    BY <1>1, <1>4 DEF Joined, sll_append
  <2> QED  BY <1>2, <2>1, AddsConcat
<1> QED  BY <1>3, <1>4

LEMMA OneMoreMembers ==
  ASSUME NEW S, NEW c \in Seq(S), NEW x \in S, NEW head, NEW d,
         d = IF head THEN sll_push(c, x) ELSE sll_append(c, x)
  PROVE  /\ d \in Seq(S) /\ ToSet(d) = ToSet(c) \cup {x}
         /\ NoDuplicates(c) /\ x \notin ToSet(c) => NoDuplicates(d)
<1>1. CASE head
  BY <1>1, SllPushMembers
<1>2. CASE ~head
  BY <1>2, SllAppendMembers
<1> QED  BY <1>1, <1>2

(* What a push works on: a sound chain and sound free buffers, which hold  *)
(* the buffers of a pool between them; the others are as in bf.            *)
PushStates ==
  [chain : Seq(Buffers), total : Nat, free : Seq(Buffers), buf : BufferSet,
   left : Seq(1 .. MaxField), status : {"SUCCESS", "FS_BUFFER_NO_SPACE"}]

PushGood(s, pool, bf, most) ==
  /\ s \in PushStates /\ Fitting(s.buf) /\ FreeSound(s.buf, s.free)
  /\ Sound(s.buf, s.chain, s.total) /\ Disjoint(s.chain, s.free)
  /\ ToSet(s.chain) \cup ToSet(s.free) = pool
  /\ \A b \in Buffers : b \notin pool => s.buf[b] = bf[b]
  /\ Len(s.free) <= most

(* n more buffers are enough for what is left to push.                     *)
Enough(st, head, n) == Len(st.left) <= PushSpace(st, head) + n * BufferSize

LEMMA HeadLastMembers ==
  ASSUME NEW S, NEW c \in Seq(S), c # <<>>
  PROVE  /\ Head(c) \in ToSet(c) /\ Last(c) \in ToSet(c)
         /\ \E i \in 1 .. Len(c) : c[i] = Head(c)
         /\ \E i \in 1 .. Len(c) : c[i] = Last(c)
<1>1. 1 \in 1 .. Len(c) /\ Len(c) \in 1 .. Len(c)
  OBVIOUS
<1>2. c[1] = Head(c) /\ c[Len(c)] = Last(c)
  BY DEF Last
<1> QED  BY <1>1, <1>2, ToSetMember

LEMMA PushSpaceType ==
  ASSUME NEW st, st.chain \in Seq(Buffers), Fitting(st.buf), NEW head \in BOOLEAN
  PROVE  PushSpace(st, head) \in 0 .. BufferSize
<1>1. CASE st.chain = <<>>
  BY <1>1, BufferAssumption DEF PushSpace
<1>2. CASE st.chain # <<>>
  <2>1. Head(st.chain) \in Buffers /\ Last(st.chain) \in Buffers
    BY <1>2, HeadLastMembers, MembersIn
  <2>2. \A b \in Buffers :
          /\ st.buf[b].room \in 0 .. BufferSize /\ Len(st.buf[b].data) \in Nat
          /\ st.buf[b].room + Len(st.buf[b].data) <= BufferSize
    BY DEF Fitting, BufferSet
  <2>3. \A b \in Buffers : /\ FS_BUFFER_SPACE(st.buf[b]) \in 0 .. BufferSize
                           /\ FS_BUFFER_TAIL_ROOM(st.buf[b]) \in 0 .. BufferSize
    <3> TAKE b \in Buffers
    <3>1. PICK r \in Int, d \in Int : r = st.buf[b].room /\ d = Len(st.buf[b].data)
      BY <2>2
    <3>2. r >= 0 /\ d >= 0 /\ r + d <= BufferSize /\ BufferSize \in Int
      BY <2>2, <3>1, BufferAssumption
    <3>3. BufferSize - d \in 0 .. BufferSize /\ (BufferSize - d) - r \in 0 .. BufferSize
      BY <3>2
    <3> QED  BY <3>1, <3>3 DEF FS_BUFFER_SPACE, FS_BUFFER_TAIL_ROOM
  <2> QED  BY <1>2, <2>1, <2>3 DEF PushSpace
<1> QED  BY <1>1, <1>2

(* A turn of the loop.                                                     *)
LEMMA PieceStays ==
  ASSUME NEW s, NEW pool, NEW bf, NEW most \in Nat, PushGood(s, pool, bf, most), s.left # <<>>,
         NEW head \in BOOLEAN, NEW packed \in BOOLEAN, Enough(s, head, Len(s.free)),
         NEW new, new = PushPiece(s, head, packed)
  PROVE  PushGood(new, pool, bf, most) /\ Enough(new, head, Len(new.free))
<1>0. PICK ch \in Seq(Buffers), total \in Nat, free \in Seq(Buffers), old \in BufferSet,
           left \in Seq(1 .. MaxField) :
        /\ s.chain = ch /\ s.total = total /\ s.free = free /\ s.buf = old /\ s.left = left
  BY DEF PushGood, PushStates
<1>1. PICK space : space = PushSpace(s, head)
  OBVIOUS
<1>2. space \in 0 .. BufferSize /\ BufferSize \in Nat \ {0}
  BY <1>1, <1>0, PushSpaceType, BufferAssumption DEF PushGood
<1>3. PICK full \in BOOLEAN : full <=> space = 0
  OBVIOUS
<1>4. PICK at : at = IF full THEN Head(free) ELSE IF head THEN Head(ch) ELSE Last(ch)
  OBVIOUS
<1>5. PICK size \in Nat : size = Len(left) /\ size >= 1
  BY <1>0
<1>6. PICK k \in Nat : k = Len(free)
  OBVIOUS
<1>7. size <= space + k * BufferSize
  BY <1>0, <1>1, <1>5, <1>6 DEF Enough
<1>8. full => free # <<>> /\ k >= 1
  <2> SUFFICES ASSUME full PROVE k # 0
    BY <1>6
  <2> SUFFICES ASSUME k = 0 PROVE FALSE
    OBVIOUS
  <2>1. size <= 0 + 0 * BufferSize
    BY <1>3, <1>7
  <2> QED  BY <1>2, <1>5, <2>1
<1>9. ~full => ch # <<>>
  BY <1>0, <1>1, <1>3 DEF PushSpace
<1>10. /\ full => at \in ToSet(free) /\ at = Head(free)
       /\ ~full => at \in ToSet(ch) /\ \E i \in 1 .. Len(ch) : ch[i] = at
  BY <1>4, <1>8, <1>9, HeadLastMembers
<1>11. at \in Buffers
  BY <1>10, MembersIn
<1>12. PICK b : b = old[at]
  OBVIOUS
<1>13. b \in BufferRecord /\ b.room + Len(b.data) <= BufferSize
  BY <1>0, <1>11, <1>12 DEF PushGood, Fitting, BufferSet, BufferRecord
<1>14. PICK room : room = IF head THEN FS_BUFFER_SPACE(b) ELSE FS_BUFFER_TAIL_ROOM(b)
  OBVIOUS
<1>15. full => b = Fresh
  BY <1>0, <1>10, <1>12 DEF PushGood, FreeSound
<1>16. room = IF full THEN BufferSize ELSE space
  <2>1. CASE full
    <3>1. b.room = 0 /\ Len(b.data) = 0
      BY <1>15, <2>1 DEF Fresh
    <3> QED  BY <1>2, <1>14, <2>1, <3>1 DEF FS_BUFFER_SPACE, FS_BUFFER_TAIL_ROOM
  <2>2. CASE ~full
    BY <1>0, <1>1, <1>4, <1>9, <1>12, <1>14, <2>2 DEF PushSpace
  <2> QED  BY <2>1, <2>2
<1>17. room \in Nat /\ room >= 1
  BY <1>2, <1>3, <1>16
<1>18. PICK n \in Nat : n = Least(room, size)
  BY <1>17 DEF Least
<1>19. n >= 1 /\ n <= room /\ n <= size /\ (n = room \/ n = size)
  BY <1>5, <1>17, <1>18 DEF Least
<1>20. PICK cut \in 0 .. size : cut = IF FromEnd(head, packed) THEN size - n ELSE n
  <2>1. size - n \in 0 .. size /\ n \in 0 .. size
    BY <1>19
  <2> QED  BY <2>1
<1>21. PICK part, rest :
         /\ part = IF FromEnd(head, packed) THEN Drop(left, cut) ELSE First(left, cut)
         /\ rest = IF FromEnd(head, packed) THEN First(left, cut) ELSE Drop(left, cut)
  OBVIOUS
<1>22. /\ part \in Seq(1 .. MaxField) /\ Len(part) = n
       /\ rest \in Seq(1 .. MaxField) /\ Len(rest) = size - n
  <2>1. PICK c, d : c = First(left, cut) /\ d = Drop(left, cut)
    OBVIOUS
  <2>2. /\ c \in Seq(1 .. MaxField) /\ Len(c) = cut
        /\ d \in Seq(1 .. MaxField) /\ Len(d) = size - cut
    <3>1. cut \in 0 .. Len(left)
      BY <1>5
    <3>2. /\ c \in Seq(1 .. MaxField) /\ Len(c) = cut
          /\ d \in Seq(1 .. MaxField) /\ Len(d) = Len(left) - cut
      BY <2>1, <3>1, PartLength
    <3> QED  BY <1>5, <3>2
  <2>3. CASE FromEnd(head, packed)
    <3>1. size - cut = n /\ cut = size - n
      BY <1>20, <2>3
    <3> QED  BY <1>21, <2>1, <2>2, <2>3, <3>1
  <2>4. CASE ~FromEnd(head, packed)
    BY <1>20, <1>21, <2>1, <2>2, <2>4
  <2> QED  BY <2>3, <2>4
<1>23. PICK nb : nb = fs_buffer_push(b, part, head, packed)
  OBVIOUS
<1>24. /\ nb \in BufferRecord /\ nb.room + Len(nb.data) <= BufferSize
       /\ Len(nb.data) = Len(b.data) + n
  <2>1. Len(part) <= IF head THEN FS_BUFFER_SPACE(b) ELSE FS_BUFFER_TAIL_ROOM(b)
    BY <1>14, <1>19, <1>22
  <2>2. part \in Seq(1 .. MaxField)
    BY <1>22
  <2>3. /\ nb \in BufferRecord /\ nb.room + Len(nb.data) <= BufferSize
        /\ Len(nb.data) = Len(b.data) + Len(part)
    BY <1>13, <1>23, <2>1, <2>2, PushFits
  <2> QED  BY <1>22, <2>3
<1>25. PICK ch2, free2, buf2 :
         /\ ch2 = IF ~full THEN ch ELSE IF head THEN sll_push(ch, at) ELSE sll_append(ch, at)
         /\ free2 = IF full THEN Tail(free) ELSE free
         /\ buf2 = [old EXCEPT ![at] = nb]
  OBVIOUS
<1>26. new = [chain |-> ch2, total |-> total + n, free |-> free2, buf |-> buf2,
              left |-> rest, status |-> s.status]
  <2>1. PICK c2 : c2 = IF FromEnd(head, packed) THEN Len(left) - n ELSE n
    OBVIOUS
  <2>2. c2 = cut /\ n = Least(room, Len(left))
    BY <1>5, <1>18, <1>20, <2>1
  <2>3. /\ new.chain = ch2 /\ new.total = total + n /\ new.free = free2
    BY <2>1, <2>2, <1>0, <1>1, <1>3, <1>4, <1>12, <1>14, <1>25 DEF PushPiece
  <2>4. new.buf = buf2
    BY <2>1, <2>2, <1>0, <1>1, <1>3, <1>4, <1>12, <1>14, <1>21, <1>23, <1>25 DEF PushPiece
  <2>5. new.left = rest /\ new.status = s.status
    BY <2>1, <2>2, <1>0, <1>1, <1>3, <1>4, <1>12, <1>14, <1>21 DEF PushPiece
  <2>6. new = [chain |-> new.chain, total |-> new.total, free |-> new.free, buf |-> new.buf,
               left |-> new.left, status |-> new.status]
    BY DEF PushPiece
  <2> QED  BY <2>3, <2>4, <2>5, <2>6
<1>27. /\ new.chain = ch2 /\ new.total = total + n /\ new.free = free2 /\ new.buf = buf2
       /\ new.left = rest
  BY <1>26
<1>28. /\ \A x \in Buffers : buf2[x] = IF x = at THEN nb ELSE old[x]
       /\ buf2 \in BufferSet
  BY <1>11, <1>24, <1>25 DEF BufferSet, BufferRecord
<1>29. Fitting(buf2)
  BY <1>0, <1>24, <1>28 DEF Fitting, PushGood
<1>30. /\ NoDuplicates(ch) /\ NoDuplicates(free) /\ Disjoint(ch, free)
       /\ \A x \in ToSet(free) : old[x] = Fresh
       /\ \A x \in ToSet(ch) : old[x].data # <<>>
       /\ Adds(Sizes(old), ch, total)
       /\ ToSet(ch) \subseteq Buffers /\ ToSet(free) \subseteq Buffers
  BY <1>0, MembersIn DEF PushGood, FreeSound, Sound
<1>31. /\ free2 \in Seq(Buffers) /\ NoDuplicates(free2)
       /\ ToSet(free2) = IF full THEN ToSet(free) \ {at} ELSE ToSet(free)
       /\ Len(free2) = IF full THEN k - 1 ELSE k
  <2>1. CASE full
    <3>1. Len(Tail(free)) = k - 1
      BY <1>6, <1>8, <2>1
    <3> QED  BY <1>8, <1>10, <1>25, <1>30, <2>1, <3>1, TailMembers
  <2>2. CASE ~full
    BY <1>6, <1>25, <1>30, <2>2
  <2> QED  BY <2>1, <2>2
<1>32. /\ ch2 \in Seq(Buffers) /\ NoDuplicates(ch2)
       /\ ToSet(ch2) = IF full THEN ToSet(ch) \cup {at} ELSE ToSet(ch)
  <2>1. CASE full
    <3>1. at \notin ToSet(ch)
      BY <1>10, <1>30, <2>1 DEF Disjoint
    <3>2. ch2 = IF head THEN sll_push(ch, at) ELSE sll_append(ch, at)
      BY <1>25, <2>1
    <3> QED  BY <1>11, <1>30, <2>1, <3>1, <3>2, OneMoreMembers
  <2>2. CASE ~full
    BY <1>25, <1>30, <2>2
  <2> QED  BY <2>1, <2>2
<1>33. at \in ToSet(ch2) /\ at \notin ToSet(free2)
  BY <1>10, <1>30, <1>31, <1>32 DEF Disjoint
<1>34. Disjoint(ch2, free2) /\ ToSet(ch2) \cup ToSet(free2) = pool /\ at \in pool
  <2>1. ToSet(ch) \cup ToSet(free) = pool
    BY <1>0 DEF PushGood
  <2> QED  BY <1>10, <1>30, <1>31, <1>32, <2>1 DEF Disjoint
<1>35. FreeSound(buf2, free2)
  <2>1. \A x \in ToSet(free2) : x \in Buffers /\ x # at /\ x \in ToSet(free)
    BY <1>30, <1>31, <1>33
  <2> QED  BY <1>28, <1>30, <1>31, <2>1 DEF FreeSound
<1>36. /\ Sizes(old) \in [Buffers -> Nat] /\ Sizes(buf2) \in [Buffers -> Nat]
       /\ Sizes(buf2)[at] = Sizes(old)[at] + n
       /\ \A x \in Buffers : x # at => Sizes(buf2)[x] = Sizes(old)[x]
  <2>1. /\ Sizes(old) \in [Buffers -> Nat] /\ Sizes(buf2) \in [Buffers -> Nat]
        /\ \A x \in Buffers : /\ Sizes(buf2)[x] = Len(buf2[x].data)
                              /\ Sizes(old)[x] = Len(old[x].data)
    BY <1>28, SizesType
  <2> QED  BY <1>11, <1>12, <1>24, <1>28, <2>1
<1>37. PICK v, w : v = Sizes(buf2) /\ w = Sizes(old)
  OBVIOUS
<1>38. Adds(v, ch2, total + n)
  <2>1. CASE full
    <3>1. \A x \in ToSet(ch) : v[x] = w[x]
      BY <1>10, <1>30, <1>36, <1>37, <2>1 DEF Disjoint
    <3>2. Adds(v, ch, total)
      BY <1>30, <1>37, <3>1, AddsSame
    <3>3. ch2 = IF head THEN sll_push(ch, at) ELSE sll_append(ch, at)
      BY <1>25, <2>1
    <3>4. Adds(v, ch2, total + v[at])
      BY <1>11, <1>36, <1>37, <3>2, <3>3, AddsOneMore
    <3>5. w[at] = 0
      BY <1>11, <1>12, <1>15, <1>37, <2>1 DEF Sizes, Fresh
    <3>6. v[at] = n
      BY <1>36, <1>37, <3>5
    <3> QED  BY <3>4, <3>6
  <2>2. CASE ~full
    <3>1. PICK i \in 1 .. Len(ch) : ch[i] = at
      BY <1>10, <2>2
    <3>2. \A x \in ToSet(ch) : x = ch[i] \/ v[x] = w[x]
      BY <1>30, <1>36, <1>37, <3>1
    <3>3. Adds(v, ch, total - w[at] + v[at])
      BY <1>30, <1>36, <1>37, <3>1, <3>2, AddsChange
    <3>4. w[at] \in Nat /\ v[at] = w[at] + n
      BY <1>11, <1>36, <1>37
    <3>5. total - w[at] + v[at] = total + n
      BY <3>4
    <3> QED  BY <1>25, <2>2, <3>3, <3>5
  <2> QED  BY <2>1, <2>2
<1>39. Sound(buf2, ch2, total + n)
  <2>1. Len(nb.data) >= 1
    <3>1. Len(b.data) \in Nat
      BY <1>13 DEF BufferRecord
    <3> QED  BY <1>19, <1>24, <3>1
  <2>2. nb.data # <<>>
    BY <2>1
  <2>3. \A x \in ToSet(ch2) : buf2[x].data # <<>>
    BY <1>28, <1>30, <1>32, <1>11, <2>2
  <2> QED  BY <1>32, <1>37, <1>38, <2>3 DEF Sound
<1>40. new \in PushStates
  <2>1. s.status \in {"SUCCESS", "FS_BUFFER_NO_SPACE"} /\ total + n \in Nat
    BY DEF PushGood, PushStates
  <2> QED  BY <1>22, <1>26, <1>28, <1>31, <1>32, <2>1 DEF PushStates
<1>41. \A x \in Buffers : x \notin pool => buf2[x] = bf[x]
  BY <1>0, <1>28, <1>34 DEF PushGood
<1>42. Len(free2) <= most
  <2>1. k <= most
    BY <1>0, <1>6 DEF PushGood
  <2> QED  BY <1>6, <1>31, <2>1
<1>43. PushGood(new, pool, bf, most)
  BY <1>27, <1>29, <1>34, <1>35, <1>39, <1>40, <1>41, <1>42 DEF PushGood
<1>44. Enough(new, head, Len(new.free))
  <2>1. PICK more : more = PushSpace(new, head)
    OBVIOUS
  <2>2. more \in 0 .. BufferSize
    BY <1>27, <1>29, <1>32, <2>1, PushSpaceType
  <2>3. PICK j \in Nat : j = Len(free2) /\ j = IF full THEN k - 1 ELSE k
    BY <1>31
  <2>4. size - n <= more + j * BufferSize
    <3>1. PICK p \in Nat, q \in Nat : p = j * BufferSize /\ q = k * BufferSize
      BY <1>2
    <3>2. CASE n = size
      <4>1. 0 <= more + p
        BY <2>2, <3>1
      <4> QED  BY <3>1, <3>2, <4>1
    <3>3. CASE n = room /\ full
      <4>1. k = j + 1
        BY <2>3, <3>3
      <4>2. k * BufferSize = j * BufferSize + BufferSize
        BY <1>2, <4>1
      <4> QED  BY <1>2, <1>3, <1>7, <1>16, <2>2, <3>1, <3>3, <4>2
    <3>4. CASE n = room /\ ~full
      BY <1>2, <1>7, <1>16, <2>2, <2>3, <3>1, <3>4
    <3> QED  BY <1>19, <3>2, <3>3, <3>4
  <2> QED  BY <1>22, <1>27, <2>1, <2>3, <2>4 DEF Enough
<1> QED  BY <1>43, <1>44

LEMMA PushAllGood ==
  ASSUME NEW s, NEW pool, NEW bf, NEW most \in Nat, PushGood(s, pool, bf, most),
         NEW head \in BOOLEAN, NEW packed \in BOOLEAN, Enough(s, head, Len(s.free)),
         NEW new, new = PushAll(s, head, packed)
  PROVE  PushGood(new, pool, bf, most)
<1> DEFINE T == {x \in PushStates : PushGood(x, pool, bf, most) /\ Enough(x, head, Len(x.free))}
<1>1. s \in T /\ s.left \in Seq(1 .. MaxField)
  BY DEF PushGood, PushStates
<1>2. ASSUME NEW x \in T
      PROVE  PushTurn(x, head, packed) \in T
  <2>1. CASE x.left = <<>>
    BY <2>1 DEF PushTurn
  <2>2. CASE x.left # <<>>
    <3>1. PICK y : y = PushPiece(x, head, packed)
      OBVIOUS
    <3>2. PushGood(y, pool, bf, most) /\ Enough(y, head, Len(y.free))
      BY <2>2, <3>1, PieceStays
    <3>3. y \in T
      BY <3>2 DEF PushGood
    <3> QED  BY <2>2, <3>1, <3>3 DEF PushTurn
  <2> QED  BY <2>1, <2>2
<1>3. PushAll(s, head, packed) \in T
  <2> HIDE DEF T
  <2> QED  BY <1>1, <1>2, PushAllStays
<1> QED  BY <1>3

LEMMA CeilDiv ==
  ASSUME NEW a \in Nat, NEW b \in Nat \ {0}, NEW q, q = CEIL_DIV(a, b)
  PROVE  q \in Nat /\ a <= q * b
<1>1. PICK c \in Nat : c = a + b - 1
  OBVIOUS
<1>2. q = c \div b
  BY <1>1 DEF CEIL_DIV
<1>3. q \in Nat /\ c < (q + 1) * b
  BY <1>2
<1>4. (q + 1) * b = q * b + b
  BY <1>3
<1>5. PICK p \in Int : p = q * b
  BY <1>3
<1>6. c < p + b
  BY <1>3, <1>4, <1>5
<1>7. a <= p
  BY <1>1, <1>6
<1> QED  BY <1>3, <1>5, <1>7

(* The buffers that fs_buffer_list_push counts are enough.                 *)
LEMMA NumBuffersEnough ==
  ASSUME NEW st, st.chain \in Seq(Buffers), Fitting(st.buf), Len(st.left) \in Nat,
         NEW head \in BOOLEAN, NEW n, n = NumBuffers(st, head)
  PROVE  n \in Nat /\ \A k \in Nat : k >= n => Enough(st, head, k)
<1>1. PICK space \in Nat : space = PushSpace(st, head)
  BY PushSpaceType
<1>2. PICK size \in Nat : size = Len(st.left)
  OBVIOUS
<1>3. PICK a \in Nat : a = size - Least(space, size)
  <2>1. size - Least(space, size) \in Nat
    <3>1. CASE space < size
      <4>1. size - space \in Nat
        BY <3>1
      <4> QED  BY <3>1, <4>1 DEF Least
    <3>2. CASE ~(space < size)
      <4>1. size - size \in Nat
        OBVIOUS
      <4> QED  BY <3>2, <4>1 DEF Least
    <3> QED  BY <3>1, <3>2
  <2> QED  BY <2>1
<1>4. size <= space + a
  BY <1>3 DEF Least
<1>5. n = CEIL_DIV(a, BufferSize)
  BY <1>1, <1>2, <1>3 DEF NumBuffers
<1>6. n \in Nat /\ a <= n * BufferSize /\ BufferSize \in Nat
  BY <1>5, CeilDiv, BufferAssumption
<1>7. ASSUME NEW k \in Nat, k >= n
      PROVE  Enough(st, head, k)
  <2>1. PICK d \in Nat : k = n + d
    <3>1. k - n \in Nat /\ k = n + (k - n)
      BY <1>6, <1>7
    <3> QED  BY <3>1
  <2>2. PICK p \in Nat, r \in Nat : p = n * BufferSize /\ r = d * BufferSize
    BY <1>6
  <2>3. k * BufferSize = p + r
    BY <1>6, <2>1, <2>2
  <2>4. size <= space + k * BufferSize
    BY <1>4, <1>6, <2>2, <2>3
  <2> QED  BY <1>1, <1>2, <2>4 DEF Enough
<1> QED  BY <1>6, <1>7

(* A copy pushes each buffer at the tail, while there is space.            *)
LEMMA CopyGood ==
  ASSUME NEW s, NEW pool, NEW bf, NEW most \in Nat, PushGood(s, pool, bf, most),
         buf \in BufferSet, NEW list \in Seq(Buffers),
         NEW new, new = FoldLeft(CopyBuffer, s, list)
  PROVE  PushGood(new, pool, bf, most)
<1> DEFINE T == {x \in PushStates : PushGood(x, pool, bf, most)}
<1>1. s \in T
  BY DEF PushGood
<1>2. ASSUME NEW x \in T, NEW b \in Buffers
      PROVE  CopyBuffer(x, b) \in T
  <2>1. PICK next : next = [x EXCEPT !.left = buf[b].data]
    OBVIOUS
  <2>2. buf[b].data \in Seq(1 .. MaxField)
    BY DEF BufferSet
  <2>3. next \in PushStates /\ next.left = buf[b].data
    BY <2>1, <2>2 DEF PushStates
  <2>4. /\ next.chain = x.chain /\ next.total = x.total /\ next.free = x.free
        /\ next.buf = x.buf
    BY <2>1 DEF PushStates
  <2>5. PushGood(next, pool, bf, most)
    BY <2>3, <2>4 DEF PushGood
  <2>6. ASSUME NumBuffers(next, FALSE) <= Len(x.free)
        PROVE  PushAll(next, FALSE, FALSE) \in T
    <3>1. next.chain \in Seq(Buffers) /\ Fitting(next.buf) /\ next.free \in Seq(Buffers)
      BY <2>5 DEF PushGood, PushStates
    <3>2. Len(next.left) \in Nat /\ Len(next.free) \in Nat
      BY <2>2, <2>3, <3>1
    <3>3. Enough(next, FALSE, Len(next.free))
      BY <2>4, <2>6, <3>1, <3>2, NumBuffersEnough
    <3>4. PushGood(PushAll(next, FALSE, FALSE), pool, bf, most)
      BY <2>5, <3>3, PushAllGood
    <3> QED  BY <3>4 DEF PushGood
  <2>7. PICK full : full = [x EXCEPT !.status = "FS_BUFFER_NO_SPACE"]
    OBVIOUS
  <2>8. full \in T
    <3>1. /\ full \in PushStates /\ full.chain = x.chain /\ full.total = x.total
          /\ full.free = x.free /\ full.buf = x.buf
      BY <2>7 DEF PushStates
    <3> QED  BY <3>1 DEF PushGood
  <2>9. CopyBuffer(x, b) = IF x.status = "SUCCESS" /\ NumBuffers(next, FALSE) <= Len(x.free)
                           THEN PushAll(next, FALSE, FALSE) ELSE full
    BY <2>1, <2>7 DEF CopyBuffer
  <2> HIDE DEF T
  <2> QED  BY <2>6, <2>8, <2>9
<1>3. FoldLeft(CopyBuffer, s, list) \in T
  <2> HIDE DEF T
  <2> QED  BY <1>1, <1>2, CopyStays
<1> QED  BY <1>3

----------------------------------------------------------------------------
(* The lists and the tasks that wait.                                      *)

(* A task that waits to push keeps the list.                               *)
Keeps(w, t, l) == w[t].what = "push" /\ w[t].list = l
KeepsSame(w, w2) == \A t \in Tasks, l \in Lists : Keeps(w2, t, l) <=> Keeps(w, t, l)

(* Every list is in one place, and a free one is empty.                    *)
ListsOnce(fl, rx, hd, w, ch) ==
  /\ fl \in Seq(Lists) /\ rx \in Seq(Lists) /\ hd \subseteq Lists
  /\ NoDuplicates(fl) /\ NoDuplicates(rx)
  /\ ToSet(fl) \cap ToSet(rx) = {} /\ ToSet(fl) \cap hd = {} /\ ToSet(rx) \cap hd = {}
  /\ \A l \in Lists :
       (\E t \in Tasks : Keeps(w, t, l)) <=> l \notin ToSet(fl) \cup ToSet(rx) \cup hd
  /\ \A l \in Lists : \A t, u \in Tasks : Keeps(w, t, l) /\ Keeps(w, u, l) => t = u
  /\ \A l \in ToSet(fl) : ch[l] = <<>>

(* What a task waits for is enough for what it is going to do.             *)
SpaceOf(bf, c, head) ==
  IF c = <<>> THEN 0
  ELSE IF head THEN FS_BUFFER_SPACE(bf[Head(c)]) ELSE FS_BUFFER_TAIL_ROOM(bf[Last(c)])

Suffices(bf, ch, r) ==
  /\ r.what = "list" => r.need >= 1
  /\ r.what = "push" =>
       Len(r.data) <= SpaceOf(bf, ch[r.list], r.head) + r.need * BufferSize

(* No task sleeps while what it waits for is there.                        *)
NotStarved(r, nbuffers, nlists) ==
  r # Idle /\ r.need <= (IF r.type = "buffer" THEN nbuffers ELSE nlists) => r.resumed

(* The same request, resumed or not.                                       *)
SameRequest(q, r) ==
  /\ q.what = r.what /\ (q = Idle <=> r = Idle)
  /\ r # Idle => q.need = r.need /\ q.type = r.type
  /\ r.what = "push" =>
       q.list = r.list /\ q.data = r.data /\ q.head = r.head /\ q.packed = r.packed

LEMMA RequestKinds ==
  ASSUME NEW r \in Requests
  PROVE  /\ r # Idle <=> r.what # "idle"
         /\ r.what \in {"idle", "list", "push"}
         /\ r # Idle => r.need \in Nat /\ r.type \in {"buffer", "list"} /\ r.resumed \in BOOLEAN
         /\ r.what = "list" => r.type = "list"
         /\ r.what = "push" => /\ r.type = "buffer" /\ r.list \in Lists
                               /\ r.data \in Seq(1 .. MaxField)
                               /\ r.head \in BOOLEAN /\ r.packed \in BOOLEAN
<1>1. CASE r = Idle
  BY <1>1 DEF Idle
<1>2. CASE r \in [what : {"list"}, type : {"list"}, need : Nat, resumed : BOOLEAN]
  <2>1. r.what = "list" /\ r.type = "list" /\ r.need \in Nat /\ r.resumed \in BOOLEAN
    BY <1>2
  <2> QED  BY <2>1 DEF Idle
<1>3. CASE r \in [what : {"push"}, list : Lists, data : Seq(1 .. MaxField), head : BOOLEAN,
                  packed : BOOLEAN, type : {"buffer"}, need : Nat, resumed : BOOLEAN]
  <2>1. /\ r.what = "push" /\ r.type = "buffer" /\ r.need \in Nat /\ r.resumed \in BOOLEAN
        /\ r.list \in Lists /\ r.data \in Seq(1 .. MaxField)
        /\ r.head \in BOOLEAN /\ r.packed \in BOOLEAN
    BY <1>3
  <2> QED  BY <2>1 DEF Idle
<1> QED  BY <1>1, <1>2, <1>3 DEF Requests

LEMMA RequestResumed ==
  ASSUME NEW r \in Requests, r # Idle, NEW x \in BOOLEAN, NEW q, q = [r EXCEPT !.resumed = x]
  PROVE  q \in Requests /\ SameRequest(q, r) /\ q.resumed = x
<1>1. CASE r \in [what : {"list"}, type : {"list"}, need : Nat, resumed : BOOLEAN]
  <2>1. q \in [what : {"list"}, type : {"list"}, need : Nat, resumed : BOOLEAN]
    BY <1>1
  <2>2. /\ q.what = "list" /\ r.what = "list" /\ q.need = r.need /\ q.type = r.type
        /\ q.resumed = x
    BY <1>1
  <2> QED  BY <2>1, <2>2 DEF Requests, SameRequest, Idle
<1>2. CASE r \in [what : {"push"}, list : Lists, data : Seq(1 .. MaxField), head : BOOLEAN,
                  packed : BOOLEAN, type : {"buffer"}, need : Nat, resumed : BOOLEAN]
  <2>1. q \in [what : {"push"}, list : Lists, data : Seq(1 .. MaxField), head : BOOLEAN,
                  packed : BOOLEAN, type : {"buffer"}, need : Nat, resumed : BOOLEAN]
    BY <1>2
  <2>2. /\ q.what = "push" /\ r.what = "push" /\ q.need = r.need /\ q.type = r.type
        /\ q.list = r.list /\ q.data = r.data /\ q.head = r.head /\ q.packed = r.packed
        /\ q.resumed = x
    BY <1>2
  <2> QED  BY <2>1, <2>2 DEF Requests, SameRequest, Idle
<1> QED  BY <1>1, <1>2 DEF Requests

LEMMA RequestItself ==
  ASSUME NEW r
  PROVE  SameRequest(r, r)
BY DEF SameRequest

LEMMA SameKeeps ==
  ASSUME NEW w, NEW w2, \A t \in Tasks : SameRequest(w2[t], w[t])
  PROVE  KeepsSame(w, w2)
BY DEF KeepsSame, Keeps, SameRequest

(* fs_buffer_do_resume: whoever waits for no more than n is resumed.       *)
LEMMA DoResume ==
  ASSUME NEW w \in [Tasks -> Requests], NEW n, NEW w2, w2 = fs_buffer_do_resume(w, n)
  PROVE  /\ w2 \in [Tasks -> Requests]
         /\ \A t \in Tasks :
              /\ SameRequest(w2[t], w[t])
              /\ w[t] # Idle /\ (w[t].resumed \/ w[t].need <= n) => w2[t].resumed
<1>1. ASSUME NEW t \in Tasks
      PROVE  /\ w2[t] \in Requests /\ SameRequest(w2[t], w[t])
             /\ w[t] # Idle /\ (w[t].resumed \/ w[t].need <= n) => w2[t].resumed
  <2>1. CASE w[t] # Idle /\ w[t].need <= n
    <3>1. w2[t] = [w[t] EXCEPT !.resumed = TRUE]
      BY <2>1 DEF fs_buffer_do_resume
    <3>2. w2[t] \in Requests /\ SameRequest(w2[t], w[t]) /\ w2[t].resumed = TRUE
      BY <2>1, <3>1, RequestResumed
    <3> QED  BY <3>2
  <2>2. CASE ~(w[t] # Idle /\ w[t].need <= n)
    <3>1. w2[t] = w[t]
      BY <2>2 DEF fs_buffer_do_resume
    <3> QED  BY <2>2, <3>1, RequestItself
  <2> QED  BY <2>1, <2>2
<1>2. w2 = [t \in Tasks |-> w2[t]]
  BY DEF fs_buffer_do_resume
<1> QED  BY <1>1, <1>2

(* A request stays served: its list is none of those that change.          *)
LEMMA SufficesStays ==
  ASSUME NEW bf, NEW ch \in [Lists -> Seq(Buffers)], NEW total, NEW bf2, NEW ch2, NEW total2,
         NEW K, OthersStay(K, bf, ch, total, bf2, ch2, total2),
         NEW r \in Requests, NEW q, SameRequest(q, r), Suffices(bf, ch, r),
         r.what = "push" => r.list \notin K
  PROVE  Suffices(bf2, ch2, q)
<1>1. CASE r.what = "push"
  <2>1. PICK l \in Lists : l = r.list
    BY <1>1, RequestKinds
  <2>2. ch2[l] = ch[l] /\ \A b \in ToSet(ch[l]) : bf2[b] = bf[b]
    BY <1>1, <2>1 DEF OthersStay
  <2>3. ch[l] \in Seq(Buffers)
    OBVIOUS
  <2>4. ch[l] # <<>> => bf2[Head(ch[l])] = bf[Head(ch[l])] /\ bf2[Last(ch[l])] = bf[Last(ch[l])]
    BY <2>2, <2>3, HeadLastMembers
  <2>5. SpaceOf(bf2, ch2[l], r.head) = SpaceOf(bf, ch[l], r.head)
    BY <2>2, <2>4 DEF SpaceOf
  <2>6. q.what = "push" /\ q.list = l /\ q.data = r.data /\ q.head = r.head /\ q.need = r.need
    BY <1>1, <2>1, RequestKinds DEF SameRequest
  <2> QED  BY <1>1, <2>1, <2>5, <2>6 DEF Suffices
<1>2. CASE r.what # "push"
  <2>1. r.what = "list" => r # Idle
    BY DEF Idle
  <2> QED  BY <1>2, <2>1 DEF Suffices, SameRequest
<1> QED  BY <1>1, <1>2

LEMMA ListsStay ==
  ASSUME NEW fl, NEW rx, NEW hd, NEW w, NEW ch, ListsOnce(fl, rx, hd, w, ch),
         NEW w2, NEW ch2, KeepsSame(w, w2), \A l \in ToSet(fl) : ch2[l] = ch[l]
  PROVE  ListsOnce(fl, rx, hd, w2, ch2)
BY DEF ListsOnce, KeepsSame

(* fs_buffer_get of a free list.                                           *)
LEMMA ListTaken ==
  ASSUME NEW fl, NEW rx, NEW hd, NEW w, NEW ch, ListsOnce(fl, rx, hd, w, ch),
         NEW w2, NEW ch2, KeepsSame(w, w2), fl # <<>>, \A l \in ToSet(Tail(fl)) : ch2[l] = ch[l]
  PROVE  /\ ListsOnce(Tail(fl), rx, hd \cup {Head(fl)}, w2, ch2)
         /\ Len(Tail(fl)) <= Len(fl) /\ Head(fl) \in ToSet(fl) /\ Head(fl) \in Lists
<1>1. PICK tl, hdl : tl = Tail(fl) /\ hdl = Head(fl)
  OBVIOUS
<1>2. /\ fl \in Seq(Lists) /\ NoDuplicates(fl)
  BY DEF ListsOnce
<1>3. /\ tl \in Seq(Lists) /\ NoDuplicates(tl) /\ ToSet(tl) = ToSet(fl) \ {hdl}
      /\ hdl \in ToSet(fl) /\ hdl \in Lists
  BY <1>1, <1>2, TailMembers
<1>4. Len(Tail(fl)) <= Len(fl)
  BY <1>2
<1>5. /\ ToSet(tl) \cap ToSet(rx) = {} /\ ToSet(tl) \cap (hd \cup {hdl}) = {}
      /\ ToSet(rx) \cap (hd \cup {hdl}) = {} /\ hd \cup {hdl} \subseteq Lists
      /\ \A l \in Lists : l \notin ToSet(fl) \cup ToSet(rx) \cup hd
                            <=> l \notin ToSet(tl) \cup ToSet(rx) \cup (hd \cup {hdl})
  BY <1>3 DEF ListsOnce
<1>6. \A l \in ToSet(tl) : ch2[l] = <<>>
  BY <1>1, <1>3 DEF ListsOnce
<1>7. ListsOnce(tl, rx, hd \cup {hdl}, w2, ch2)
  BY <1>3, <1>5, <1>6 DEF ListsOnce, KeepsSame
<1> QED  BY <1>1, <1>3, <1>4, <1>7

(* fs_buffer_add of a free list.                                           *)
LEMMA ListFreed ==
  ASSUME NEW fl, NEW rx, NEW hd, NEW w, NEW ch, ListsOnce(fl, rx, hd, w, ch),
         NEW w2, NEW ch2, KeepsSame(w, w2), NEW l \in hd, \A m \in ToSet(fl) : ch2[m] = ch[m],
         ch2[l] = <<>>
  PROVE  /\ ListsOnce(sll_append(fl, l), rx, hd \ {l}, w2, ch2)
         /\ Len(sll_append(fl, l)) = Len(fl) + 1 /\ Len(fl) \in Nat
<1>1. PICK fl2 : fl2 = sll_append(fl, l)
  OBVIOUS
<1>2. fl \in Seq(Lists) /\ NoDuplicates(fl) /\ l \in Lists /\ l \notin ToSet(fl)
  BY DEF ListsOnce
<1>3. fl2 \in Seq(Lists) /\ ToSet(fl2) = ToSet(fl) \cup {l} /\ NoDuplicates(fl2)
  BY <1>1, <1>2, SllAppendMembers
<1>4. Len(sll_append(fl, l)) = Len(fl) + 1 /\ Len(fl) \in Nat
  BY <1>2 DEF sll_append
<1>5. /\ ToSet(fl2) \cap ToSet(rx) = {} /\ ToSet(fl2) \cap (hd \ {l}) = {}
      /\ ToSet(rx) \cap (hd \ {l}) = {} /\ hd \ {l} \subseteq Lists
      /\ \A m \in Lists : m \notin ToSet(fl) \cup ToSet(rx) \cup hd
                            <=> m \notin ToSet(fl2) \cup ToSet(rx) \cup (hd \ {l})
  BY <1>3 DEF ListsOnce
<1>6. \A m \in ToSet(fl2) : ch2[m] = <<>>
  BY <1>3 DEF ListsOnce
<1>7. ListsOnce(fl2, rx, hd \ {l}, w2, ch2)
  BY <1>3, <1>5, <1>6 DEF ListsOnce, KeepsSame
<1> QED  BY <1>1, <1>4, <1>7

(* The received lists.                                                     *)
LEMMA ListReceived ==
  ASSUME NEW fl, NEW rx, NEW hd, NEW w, NEW ch, ListsOnce(fl, rx, hd, w, ch), NEW l \in hd,
         NEW head, NEW rx2, rx2 = IF head THEN sll_push(rx, l) ELSE sll_append(rx, l)
  PROVE  ListsOnce(fl, rx2, hd \ {l}, w, ch) /\ rx2 # <<>>
<1>2. rx \in Seq(Lists) /\ NoDuplicates(rx) /\ l \in Lists /\ l \notin ToSet(rx)
  BY DEF ListsOnce
<1>3. rx2 \in Seq(Lists) /\ ToSet(rx2) = ToSet(rx) \cup {l} /\ NoDuplicates(rx2)
  BY <1>2, OneMoreMembers
<1>4. rx2 # <<>>
  <2>1. \A x : x \notin ToSet(<<>>)
    BY DEF ToSet
  <2> QED  BY <1>3, <2>1
<1>5. /\ ToSet(fl) \cap ToSet(rx2) = {} /\ ToSet(fl) \cap (hd \ {l}) = {}
      /\ ToSet(rx2) \cap (hd \ {l}) = {} /\ hd \ {l} \subseteq Lists
      /\ \A m \in Lists : m \notin ToSet(fl) \cup ToSet(rx) \cup hd
                            <=> m \notin ToSet(fl) \cup ToSet(rx2) \cup (hd \ {l})
  BY <1>3 DEF ListsOnce
<1>6. ListsOnce(fl, rx2, hd \ {l}, w, ch)
  BY <1>3, <1>5 DEF ListsOnce
<1> QED  BY <1>4, <1>6

LEMMA ListFetched ==
  ASSUME NEW fl, NEW rx, NEW hd, NEW w, NEW ch, ListsOnce(fl, rx, hd, w, ch), rx # <<>>
  PROVE  ListsOnce(fl, Tail(rx), hd \cup {Head(rx)}, w, ch)
<1>1. PICK tl, hdl : tl = Tail(rx) /\ hdl = Head(rx)
  OBVIOUS
<1>2. rx \in Seq(Lists) /\ NoDuplicates(rx)
  BY DEF ListsOnce
<1>3. /\ tl \in Seq(Lists) /\ NoDuplicates(tl) /\ ToSet(tl) = ToSet(rx) \ {hdl}
      /\ hdl \in ToSet(rx) /\ hdl \in Lists
  BY <1>1, <1>2, TailMembers
<1>5. /\ ToSet(fl) \cap ToSet(tl) = {} /\ ToSet(tl) \cap (hd \cup {hdl}) = {}
      /\ ToSet(fl) \cap (hd \cup {hdl}) = {} /\ hd \cup {hdl} \subseteq Lists
      /\ \A l \in Lists : l \notin ToSet(fl) \cup ToSet(rx) \cup hd
                            <=> l \notin ToSet(fl) \cup ToSet(tl) \cup (hd \cup {hdl})
  BY <1>3 DEF ListsOnce
<1>7. ListsOnce(fl, tl, hd \cup {hdl}, w, ch)
  BY <1>3, <1>5 DEF ListsOnce
<1> QED  BY <1>1, <1>7

(* A task begins to wait with the list that it pushes on, and goes on.     *)
LEMMA ListKept ==
  ASSUME NEW fl, NEW rx, NEW hd, NEW w, NEW ch, ListsOnce(fl, rx, hd, w, ch), NEW l \in hd,
         NEW t \in Tasks, w[t].what # "push", NEW w2, w2[t].what = "push", w2[t].list = l,
         \A u \in Tasks : u # t => w2[u] = w[u]
  PROVE  ListsOnce(fl, rx, hd \ {l}, w2, ch)
<1>1. \A u \in Tasks, m \in Lists :
        Keeps(w2, u, m) <=> IF u = t THEN m = l ELSE Keeps(w, u, m)
  BY DEF Keeps
<1>2. \A m \in Lists : ~Keeps(w, t, m)
  BY DEF Keeps
<1>3. l \in Lists /\ \A u \in Tasks : ~Keeps(w, u, l)
  BY DEF ListsOnce
<1>4. ASSUME NEW m \in Lists
      PROVE  (\E u \in Tasks : Keeps(w2, u, m)) <=> (\E u \in Tasks : Keeps(w, u, m)) \/ m = l
  BY <1>1, <1>2
<1>5. ASSUME NEW m \in Lists
      PROVE  (\E u \in Tasks : Keeps(w2, u, m))
               <=> m \notin ToSet(fl) \cup ToSet(rx) \cup (hd \ {l})
  <2>1. (\E u \in Tasks : Keeps(w, u, m)) <=> m \notin ToSet(fl) \cup ToSet(rx) \cup hd
    BY DEF ListsOnce
  <2>2. l \notin ToSet(fl) /\ l \notin ToSet(rx)
    BY DEF ListsOnce
  <2> QED  BY <1>4, <2>1, <2>2
<1>6. \A m \in Lists : \A u, v \in Tasks : Keeps(w2, u, m) /\ Keeps(w2, v, m) => u = v
  BY <1>1, <1>3 DEF ListsOnce
<1>7. /\ ToSet(fl) \cap (hd \ {l}) = {} /\ ToSet(rx) \cap (hd \ {l}) = {}
      /\ hd \ {l} \subseteq Lists
  BY DEF ListsOnce
<1> QED  BY <1>5, <1>6, <1>7 DEF ListsOnce

LEMMA ListReleased ==
  ASSUME NEW fl, NEW rx, NEW hd, NEW w, NEW ch, ListsOnce(fl, rx, hd, w, ch), NEW l \in Lists,
         NEW t \in Tasks, Keeps(w, t, l), NEW w2, w2[t].what # "push",
         \A u \in Tasks : u # t => w2[u] = w[u],
         NEW ch2, \A m \in ToSet(fl) : ch2[m] = ch[m]
  PROVE  ListsOnce(fl, rx, hd \cup {l}, w2, ch2)
<1>1. \A u \in Tasks, m \in Lists : Keeps(w2, u, m) <=> u # t /\ Keeps(w, u, m)
  BY DEF Keeps
<1>2. \A m \in Lists : Keeps(w, t, m) => m = l
  BY DEF Keeps
<1>3. l \notin ToSet(fl) /\ l \notin ToSet(rx) /\ l \notin hd
  BY DEF ListsOnce
<1>4. ASSUME NEW m \in Lists
      PROVE  (\E u \in Tasks : Keeps(w2, u, m)) <=> (\E u \in Tasks : Keeps(w, u, m)) /\ m # l
  BY <1>1, <1>2 DEF ListsOnce
<1>5. ASSUME NEW m \in Lists
      PROVE  (\E u \in Tasks : Keeps(w2, u, m))
               <=> m \notin ToSet(fl) \cup ToSet(rx) \cup (hd \cup {l})
  <2>1. (\E u \in Tasks : Keeps(w, u, m)) <=> m \notin ToSet(fl) \cup ToSet(rx) \cup hd
    BY DEF ListsOnce
  <2> QED  BY <1>4, <2>1
<1>6. \A m \in Lists : \A u, v \in Tasks : Keeps(w2, u, m) /\ Keeps(w2, v, m) => u = v
  BY <1>1 DEF ListsOnce
<1>7. /\ ToSet(fl) \cap (hd \cup {l}) = {} /\ ToSet(rx) \cap (hd \cup {l}) = {}
      /\ hd \cup {l} \subseteq Lists /\ \A m \in ToSet(fl) : ch2[m] = <<>>
  BY <1>3 DEF ListsOnce
<1> QED  BY <1>5, <1>6, <1>7 DEF ListsOnce

----------------------------------------------------------------------------
(* The invariant.                                                          *)

FsInvariant ==
  /\ BufferTypeOK
  /\ Once(buf, chain, total_length, free_buffers)
  /\ ListsOnce(free_lists, rx_lists, held, waiting, chain)
  /\ \A t \in Tasks : Suffices(buf, chain, waiting[t])
  /\ FlagsExact
  /\ \A t \in Tasks : NotStarved(waiting[t], Len(free_buffers), Len(free_lists))

(* The variables that need nothing but their type.                         *)
RestTyped ==
  /\ tail \in [Lists -> Buffers \cup {NULL}]
  /\ flags \subseteq {"FS_SPACE_AVAILABLE", "FS_DATA_AVAILABLE"}
  /\ halted \in BOOLEAN

LEMMA Counts ==
  ASSUME FsInvariant
  PROVE  Len(free_buffers) \in Nat /\ Len(free_lists) \in Nat
BY DEF FsInvariant, BufferTypeOK

LEMMA Assembled ==
  ASSUME Once(buf, chain, total_length, free_buffers)',
         ListsOnce(free_lists, rx_lists, held, waiting, chain)',
         waiting' \in [Tasks -> Requests],
         \A t \in Tasks : Suffices(buf', chain', waiting'[t]),
         \A t \in Tasks : NotStarved(waiting'[t], Len(free_buffers'), Len(free_lists')),
         FlagsExact', RestTyped'
  PROVE  FsInvariant'
<1>1. BufferTypeOK'
  BY DEF BufferTypeOK, Once, ListsOnce, Fitting, BufferSet, RestTyped
<1> QED  BY <1>1 DEF FsInvariant

LEMMA KeptNotHeld ==
  ASSUME FsInvariant, NEW t \in Tasks, waiting[t].what = "push"
  PROVE  waiting[t].list \in Lists /\ waiting[t].list \notin held
<1>1. waiting[t] \in Requests
  BY DEF FsInvariant, BufferTypeOK
<1>2. waiting[t].list \in Lists
  BY <1>1, RequestKinds
<1> QED  BY <1>2 DEF FsInvariant, ListsOnce, Keeps

LEMMA NotStarvedStays ==
  ASSUME NEW r \in Requests, NEW q, SameRequest(q, r), r # Idle /\ r.resumed => q.resumed,
         NEW m \in Nat, NEW n \in Nat, NotStarved(r, m, n),
         NEW m2 \in Nat, NEW n2 \in Nat, m2 <= m, n2 <= n
  PROVE  NotStarved(q, m2, n2)
<1> SUFFICES ASSUME q # Idle, q.need <= (IF q.type = "buffer" THEN m2 ELSE n2)
             PROVE  q.resumed
  BY DEF NotStarved
<1>1. r # Idle /\ q.need = r.need /\ q.type = r.type /\ r.need \in Nat
  BY RequestKinds DEF SameRequest
<1>2. r.need <= (IF r.type = "buffer" THEN m ELSE n)
  BY <1>1
<1> QED  BY <1>1, <1>2 DEF NotStarved

(* A step that changes the lists K, takes free buffers or lists and leaves *)
(* the tasks that wait alone, but for some that go on.                     *)
LEMMA GoOnStep ==
  ASSUME FsInvariant, NEW K, waiting' \in [Tasks -> Requests],
         \A t \in Tasks :
           waiting'[t] = Idle
             \/ (waiting'[t] = waiting[t] /\ (waiting[t].what = "push" => waiting[t].list \notin K)),
         Once(buf, chain, total_length, free_buffers)',
         OthersStay(K, buf, chain, total_length, buf', chain', total_length'),
         ListsOnce(free_lists, rx_lists, held, waiting, chain)',
         Len(free_buffers') <= Len(free_buffers), Len(free_lists') <= Len(free_lists),
         FlagsExact', RestTyped'
  PROVE  FsInvariant'
<1>1. waiting \in [Tasks -> Requests] /\ chain \in [Lists -> Seq(Buffers)]
  BY DEF FsInvariant, BufferTypeOK
<1>2. /\ Len(free_buffers) \in Nat /\ Len(free_lists) \in Nat
      /\ Len(free_buffers') \in Nat /\ Len(free_lists') \in Nat
  BY Counts DEF Once, ListsOnce
<1>3. ASSUME NEW t \in Tasks
      PROVE  Suffices(buf', chain', waiting'[t])
  <2>1. CASE waiting'[t] = Idle
    BY <2>1 DEF Suffices, Idle
  <2>2. CASE waiting'[t] = waiting[t] /\ (waiting[t].what = "push" => waiting[t].list \notin K)
    <3>1. waiting[t] \in Requests /\ Suffices(buf, chain, waiting[t])
      BY <1>1 DEF FsInvariant
    <3>2. Suffices(buf', chain', waiting[t])
      BY <1>1, <2>2, <3>1, RequestItself, SufficesStays
    <3> QED  BY <2>2, <3>2
  <2> QED  BY <2>1, <2>2
<1>4. ASSUME NEW t \in Tasks
      PROVE  NotStarved(waiting'[t], Len(free_buffers'), Len(free_lists'))
  <2>1. CASE waiting'[t] = Idle
    BY <2>1 DEF NotStarved
  <2>2. CASE waiting'[t] = waiting[t]
    <3>1. waiting[t] \in Requests /\ NotStarved(waiting[t], Len(free_buffers), Len(free_lists))
      BY <1>1 DEF FsInvariant
    <3>2. NotStarved(waiting[t], Len(free_buffers'), Len(free_lists'))
      BY <1>2, <3>1, RequestItself, NotStarvedStays
    <3> QED  BY <2>2, <3>2
  <2> QED  BY <2>1, <2>2
<1> QED  BY <1>1, <1>3, <1>4, Assembled

LEMMA QuietStep ==
  ASSUME FsInvariant, NEW K, K \subseteq held, waiting' = waiting,
         Once(buf, chain, total_length, free_buffers)',
         OthersStay(K, buf, chain, total_length, buf', chain', total_length'),
         ListsOnce(free_lists, rx_lists, held, waiting, chain)',
         Len(free_buffers') <= Len(free_buffers), Len(free_lists') <= Len(free_lists),
         FlagsExact', RestTyped'
  PROVE  FsInvariant'
<1>1. waiting' \in [Tasks -> Requests]
  BY DEF FsInvariant, BufferTypeOK
<1>2. \A t \in Tasks :
        waiting'[t] = waiting[t] /\ (waiting[t].what = "push" => waiting[t].list \notin K)
  BY KeptNotHeld
<1> QED  BY <1>1, <1>2, GoOnStep

(* fs_buffer_get clears the flag with the last buffer.                     *)
LEMMA FlagsUsed ==
  ASSUME FlagsExact, UseBuffers(free_buffers'), free_buffers \in Seq(Buffers),
         free_buffers' \in Seq(Buffers), Len(free_buffers') <= Len(free_buffers),
         rx_lists' = rx_lists
  PROVE  FlagsExact' /\ (flags \subseteq {"FS_SPACE_AVAILABLE", "FS_DATA_AVAILABLE"}
                           => flags' \subseteq {"FS_SPACE_AVAILABLE", "FS_DATA_AVAILABLE"})
<1>1. free_buffers' # <<>> => free_buffers # <<>>
  OBVIOUS
<1> QED  BY <1>1 DEF FlagsExact, UseBuffers

----------------------------------------------------------------------------
(* The operations on the buffers.                                          *)

PushStarts(s, l, data, head) ==
  /\ PushGood(s, Pool({l}, chain, free_buffers), buf, Len(free_buffers))
  /\ PushSpace(s, head) = SpaceOf(buf, chain[l], head)
  /\ s.chain = chain[l] /\ s.buf = buf /\ s.left = data /\ s.free = free_buffers

LEMMA PushStateGood ==
  ASSUME Once(buf, chain, total_length, free_buffers), NEW l \in Lists,
         NEW data \in Seq(1 .. MaxField), NEW s, s = PushState(l, data),
         NEW head \in BOOLEAN
  PROVE  PushStarts(s, l, data, head)
<1>1. /\ s.chain = chain[l] /\ s.buf = buf /\ s.left = data /\ s.free = free_buffers
      /\ s.total = total_length[l] /\ s.status = "SUCCESS"
  BY DEF PushState
<1>2. s \in PushStates
  BY DEF PushState, PushStates, Once, Fitting
<1>3. ToSet(chain[l]) \cup ToSet(free_buffers) = Pool({l}, chain, free_buffers)
  BY DEF Pool, MembersOf
<1>4. Len(free_buffers) <= Len(free_buffers)
  BY DEF Once
<1>5. PushGood(s, Pool({l}, chain, free_buffers), buf, Len(free_buffers))
  BY <1>1, <1>2, <1>3, <1>4 DEF PushGood, Once
<1>6. PushSpace(s, head) = SpaceOf(buf, chain[l], head)
  BY <1>1 DEF PushSpace, SpaceOf
<1> QED  BY <1>1, <1>5, <1>6 DEF PushStarts

(* The list after a push or a copy.                                        *)
LEMMA PushToGood ==
  ASSUME FsInvariant, NEW l \in Lists, NEW st, NEW head,
         PushGood(st, Pool({l}, chain, free_buffers), buf, Len(free_buffers)),
         PushTo(l, st, head)
  PROVE  /\ Once(buf, chain, total_length, free_buffers)'
         /\ OthersStay({l}, buf, chain, total_length, buf', chain', total_length')
         /\ Len(free_buffers') <= Len(free_buffers) /\ FlagsExact' /\ RestTyped'
         /\ \A m \in Lists : m # l => chain'[m] = chain[m]
<1>1. /\ buf' = st.buf /\ free_buffers' = st.free
      /\ chain' = [chain EXCEPT ![l] = st.chain]
      /\ total_length' = [total_length EXCEPT ![l] = st.total]
  BY DEF PushTo, UseBuffers
<1>2. /\ chain \in [Lists -> Seq(Buffers)] /\ total_length \in [Lists -> Nat]
      /\ tail \in [Lists -> Buffers \cup {NULL}]
      /\ Once(buf, chain, total_length, free_buffers)
  BY DEF FsInvariant, BufferTypeOK
<1>3. /\ st.chain \in Seq(Buffers) /\ st.total \in Nat /\ st.free \in Seq(Buffers)
  BY DEF PushGood, PushStates
<1>4. /\ chain' \in [Lists -> Seq(Buffers)] /\ total_length' \in [Lists -> Nat]
      /\ chain'[l] = st.chain /\ total_length'[l] = st.total
      /\ \A m \in Lists \ {l} : chain'[m] = chain[m] /\ total_length'[m] = total_length[m]
  BY <1>1, <1>2, <1>3
<1>5. /\ Fitting(buf') /\ FreeSound(buf', free_buffers') /\ free_buffers' \in Seq(Buffers)
      /\ Sound(buf', chain'[l], total_length'[l]) /\ Disjoint(chain'[l], free_buffers')
      /\ Len(free_buffers') <= Len(free_buffers)
      /\ \A b \in Buffers : b \notin Pool({l}, chain, free_buffers) => buf'[b] = buf[b]
  BY <1>1, <1>3, <1>4 DEF PushGood
<1>6. Pool({l}, chain', free_buffers') = Pool({l}, chain, free_buffers)
  <2>1. ToSet(chain'[l]) \cup ToSet(free_buffers') = Pool({l}, chain, free_buffers)
    BY <1>1, <1>4 DEF PushGood
  <2> QED  BY <2>1 DEF Pool, MembersOf
<1>7. /\ Once(buf, chain, total_length, free_buffers)'
      /\ OthersStay({l}, buf, chain, total_length, buf', chain', total_length')
  <2>1. \A k, m \in {l} : k # m => Disjoint(chain'[k], chain'[m])
    OBVIOUS
  <2>2. \A k \in {l} : /\ Sound(buf', chain'[k], total_length'[k])
                       /\ Disjoint(chain'[k], free_buffers')
    BY <1>5
  <2>3. {l} \subseteq Lists
    OBVIOUS
  <2>4. Rearranged({l}, buf, chain, total_length, free_buffers,
                   buf', chain', total_length', free_buffers')
    BY <1>4, <1>5, <1>6, <2>1, <2>2, <2>3 DEF Rearranged
  <2> QED  BY <1>2, <2>4, ListsChange
<1>8. RestTyped' /\ FlagsExact'
  <2>1. UseBuffers(free_buffers') /\ rx_lists' = rx_lists /\ halted' = halted
    BY <1>1 DEF PushTo
  <2>2. FlagsExact /\ free_buffers \in Seq(Buffers) /\ halted \in BOOLEAN
        /\ flags \subseteq {"FS_SPACE_AVAILABLE", "FS_DATA_AVAILABLE"}
    BY DEF FsInvariant, BufferTypeOK
  <2>3. st.chain # <<>> => Last(st.chain) \in Buffers
    BY <1>3, HeadLastMembers, MembersIn
  <2>4. tail' \in [Lists -> Buffers \cup {NULL}]
    BY <1>2, <2>3 DEF PushTo
  <2> QED  BY <1>5, <2>1, <2>2, <2>4, FlagsUsed DEF RestTyped
<1> QED  BY <1>4, <1>5, <1>7, <1>8

LEMMA FieldType ==
  ASSUME NEW field \in Fields, NEW packed, NEW data, data = Memory(field, packed)
  PROVE  field \in Seq(1 .. MaxField) /\ data \in Seq(1 .. MaxField) /\ Len(field) \in Nat
<1>1. PICK n \in 1 .. MaxField : field = [i \in 1 .. n |-> i]
  BY DEF Fields
<1>2. n \in Nat /\ \A i \in 1 .. n : i \in 1 .. MaxField
  BY BufferAssumption
<1>3. field \in Seq(1 .. MaxField)
  BY <1>1, <1>2
<1> QED  BY <1>3, MemoryLength

LEMMA NeedType ==
  ASSUME NEW type, NEW n \in Nat, NEW mode
  PROVE  Need(type, n, mode) \in Nat /\ Need(type, n, mode) >= n
BY BufferAssumption DEF Need, Threshold

(* The lists stay where they are.                                          *)
LEMMA PlacesStay ==
  ASSUME FsInvariant, UNCHANGED <<free_lists, rx_lists, held, waiting>>, NEW K, K \subseteq held,
         \A m \in Lists : m \notin K => chain'[m] = chain[m]
  PROVE  ListsOnce(free_lists, rx_lists, held, waiting, chain)'
<1>1. ListsOnce(free_lists, rx_lists, held, waiting, chain)
  BY DEF FsInvariant
<1>2. \A m \in ToSet(free_lists) : chain'[m] = chain[m]
  BY <1>1, MembersIn DEF ListsOnce
<1>3. KeepsSame(waiting, waiting)
  BY DEF KeepsSame
<1> QED  BY <1>1, <1>2, <1>3, ListsStay

LEMMA NothingHappens ==
  ASSUME FsInvariant, UNCHANGED vars
  PROVE  FsInvariant'
BY DEF FsInvariant, vars, poolVars, BufferTypeOK, FlagsExact

(* A task begins to wait, or waits again.                                  *)
LEMMA WaitIs ==
  ASSUME FsInvariant, NEW t \in Tasks, NEW r \in Requests, r # Idle, Wait(t, r)
  PROVE  /\ waiting \in [Tasks -> Requests] /\ waiting' \in [Tasks -> Requests]
         /\ SameRequest(waiting'[t], r) /\ waiting'[t].resumed = FALSE
         /\ \A u \in Tasks : u # t => waiting'[u] = waiting[u]
<1>1. PICK q : q = [r EXCEPT !.resumed = FALSE]
  OBVIOUS
<1>2. q \in Requests /\ SameRequest(q, r) /\ q.resumed = FALSE
  BY <1>1, RequestResumed
<1>3. waiting \in [Tasks -> Requests]
  BY DEF FsInvariant, BufferTypeOK
<1>4. waiting' = [waiting EXCEPT ![t] = q]
  BY <1>1 DEF Wait
<1> QED  BY <1>2, <1>3, <1>4

LEMMA WaitStep ==
  ASSUME FsInvariant, NEW t \in Tasks, NEW r \in Requests, r # Idle, Wait(t, r),
         Suffices(buf, chain, r),
         ~(r.need <= (IF r.type = "buffer" THEN Len(free_buffers) ELSE Len(free_lists))),
         ListsOnce(free_lists, rx_lists, held, waiting, chain)'
  PROVE  FsInvariant'
<1>1. /\ waiting \in [Tasks -> Requests] /\ waiting' \in [Tasks -> Requests]
      /\ SameRequest(waiting'[t], r)
      /\ \A u \in Tasks : u # t => waiting'[u] = waiting[u]
  BY WaitIs
<1>2. UNCHANGED <<buf, chain, tail, total_length, free_buffers, free_lists, rx_lists,
                  flags, halted>>
  BY DEF Wait
<1>3. ASSUME NEW u \in Tasks
      PROVE  Suffices(buf', chain', waiting'[u])
  <2>1. CASE u = t
    <3>1. \/ r.what = "idle"
          \/ /\ r.what = "list" /\ waiting'[t].what = "list" /\ waiting'[t].need = r.need
          \/ /\ r.what = "push" /\ waiting'[t].what = "push" /\ waiting'[t].need = r.need
             /\ waiting'[t].list = r.list /\ waiting'[t].data = r.data
             /\ waiting'[t].head = r.head
      BY <1>1, RequestKinds DEF SameRequest
    <3>2. r.what # "idle"
      BY RequestKinds
    <3>3. Suffices(buf, chain, waiting'[t])
      BY <3>1, <3>2 DEF Suffices
    <3> QED  BY <1>2, <2>1, <3>3
  <2>2. CASE u # t
    BY <1>1, <1>2, <2>2 DEF FsInvariant
  <2> QED  BY <2>1, <2>2
<1>4. ASSUME NEW u \in Tasks
      PROVE  NotStarved(waiting'[u], Len(free_buffers'), Len(free_lists'))
  <2>1. CASE u = t
    BY <1>1, <1>2, <2>1 DEF NotStarved, SameRequest
  <2>2. CASE u # t
    BY <1>1, <1>2, <2>2 DEF FsInvariant
  <2> QED  BY <2>1, <2>2
<1>5. Once(buf, chain, total_length, free_buffers)' /\ FlagsExact' /\ RestTyped'
  BY <1>2 DEF FsInvariant, BufferTypeOK, FlagsExact, RestTyped
<1> QED  BY <1>1, <1>3, <1>4, <1>5, Assembled

LEMMA PushStep ==
  ASSUME FsInvariant, NEW l, NEW field \in Fields, NEW head \in BOOLEAN,
         NEW packed \in BOOLEAN, NEW mode, fs_buffer_list_push(l, field, head, packed, mode)
  PROVE  FsInvariant'
<1>1. PICK data \in Seq(1 .. MaxField) : data = Memory(field, packed)
  BY FieldType
<1>2. PICK st : st = PushState(l, data)
  OBVIOUS
<1>3. PICK n : n = NumBuffers(st, head)
  OBVIOUS
<1>4. PICK need : need = Need("buffer", n, mode)
  OBVIOUS
<1>5. /\ l \in held
      /\ \/ /\ n = 0 \/ Len(free_buffers) >= need
            /\ PushTo(l, PushAll(st, head, packed), head)
            /\ UNCHANGED <<held, waiting>>
         \/ UNCHANGED <<buf, chain, tail, total_length, poolVars, halted>>
         \/ /\ Len(free_buffers) < need
            /\ held' = held \ {l}
            /\ fs_buffer_suspend([what |-> "push", list |-> l, data |-> data, head |-> head,
                                  packed |-> packed, type |-> "buffer", need |-> need,
                                  resumed |-> FALSE])
  BY <1>1, <1>2, <1>3, <1>4 DEF fs_buffer_list_push
<1>6. l \in Lists /\ Once(buf, chain, total_length, free_buffers)
  BY <1>5 DEF FsInvariant, BufferTypeOK
<1>7. /\ PushGood(st, Pool({l}, chain, free_buffers), buf, Len(free_buffers))
      /\ PushSpace(st, head) = SpaceOf(buf, chain[l], head)
      /\ st.chain = chain[l] /\ st.buf = buf /\ st.left = data /\ st.free = free_buffers
  <2>1. PushStarts(st, l, data, head)
    BY <1>2, <1>6, PushStateGood
  <2> QED  BY <2>1 DEF PushStarts
<1>8. n \in Nat /\ \A k \in Nat : k >= n => Enough(st, head, k)
  <2>1. st.chain \in Seq(Buffers) /\ Fitting(st.buf) /\ Len(st.left) \in Nat
    BY <1>6, <1>7 DEF Once
  <2> QED  BY <1>3, <2>1, NumBuffersEnough
<1>9. need \in Nat /\ need >= n
  BY <1>4, <1>8, NeedType
<1>10. Len(free_buffers) \in Nat /\ Len(free_lists) \in Nat
  BY Counts
<1>11. CASE /\ n = 0 \/ Len(free_buffers) >= need
            /\ PushTo(l, PushAll(st, head, packed), head)
            /\ UNCHANGED <<held, waiting>>
  <2>1. Enough(st, head, Len(st.free))
    <3>1. Len(free_buffers) >= n
      BY <1>8, <1>9, <1>10, <1>11
    <3> QED  BY <1>7, <1>8, <1>10, <3>1
  <2>2. PICK new : new = PushAll(st, head, packed)
    OBVIOUS
  <2>3. PushGood(new, Pool({l}, chain, free_buffers), buf, Len(free_buffers))
    BY <1>7, <1>10, <2>1, <2>2, PushAllGood
  <2>4. PushTo(l, new, head)
    BY <1>11, <2>2
  <2>5. /\ Once(buf, chain, total_length, free_buffers)'
        /\ OthersStay({l}, buf, chain, total_length, buf', chain', total_length')
        /\ Len(free_buffers') <= Len(free_buffers) /\ FlagsExact' /\ RestTyped'
        /\ \A m \in Lists : m # l => chain'[m] = chain[m]
    BY <1>6, <2>3, <2>4, PushToGood
  <2>6. UNCHANGED <<free_lists, rx_lists, held, waiting>>
    BY <1>11, <2>4 DEF PushTo
  <2>7. {l} \subseteq held /\ \A m \in Lists : m \notin {l} => chain'[m] = chain[m]
    BY <1>5, <2>5
  <2>8. ListsOnce(free_lists, rx_lists, held, waiting, chain)'
    BY <2>6, <2>7, PlacesStay
  <2>9. Len(free_lists') <= Len(free_lists)
    BY <1>10, <2>6
  <2> QED  BY <2>5, <2>6, <2>7, <2>8, <2>9, QuietStep
<1>12. CASE UNCHANGED <<buf, chain, tail, total_length, poolVars, halted>>
  BY <1>12, NothingHappens DEF vars
<1>13. CASE /\ Len(free_buffers) < need
            /\ held' = held \ {l}
            /\ fs_buffer_suspend([what |-> "push", list |-> l, data |-> data, head |-> head,
                                  packed |-> packed, type |-> "buffer", need |-> need,
                                  resumed |-> FALSE])
  <2>1. PICK r : r = [what |-> "push", list |-> l, data |-> data, head |-> head,
                      packed |-> packed, type |-> "buffer", need |-> need, resumed |-> FALSE]
    OBVIOUS
  <2>2. PICK t \in Tasks : waiting[t] = Idle /\ Wait(t, r)
    BY <1>13, <2>1 DEF fs_buffer_suspend
  <2>3. r \in Requests /\ r # Idle
    <3>1. r \in [what : {"push"}, list : Lists, data : Seq(1 .. MaxField), head : BOOLEAN,
                 packed : BOOLEAN, type : {"buffer"}, need : Nat, resumed : BOOLEAN]
      BY <1>6, <1>9, <2>1
    <3>2. r.what = "push"
      BY <2>1
    <3> QED  BY <3>1, <3>2 DEF Requests, Idle
  <2>4. Suffices(buf, chain, r)
    <3>1. Len(data) <= SpaceOf(buf, chain[l], head) + need * BufferSize
      BY <1>7, <1>8, <1>9 DEF Enough
    <3> QED  BY <2>1, <3>1 DEF Suffices
  <2>5. ~(r.need <= (IF r.type = "buffer" THEN Len(free_buffers) ELSE Len(free_lists)))
    BY <1>9, <1>10, <1>13, <2>1
  <2>6. ListsOnce(free_lists, rx_lists, held, waiting, chain)'
    <3>1. waiting[t].what # "push"
      BY <2>2 DEF Idle
    <3>2. SameRequest(waiting'[t], r) /\ \A u \in Tasks : u # t => waiting'[u] = waiting[u]
      BY <2>2, <2>3, WaitIs
    <3>3. waiting'[t].what = "push" /\ waiting'[t].list = l
      BY <2>1, <3>2 DEF SameRequest
    <3>4. ListsOnce(free_lists, rx_lists, held \ {l}, waiting', chain)
      BY <1>5, <3>1, <3>2, <3>3, ListKept DEF FsInvariant
    <3> QED  BY <1>13, <2>2, <3>4 DEF Wait
  <2> QED  BY <2>2, <2>3, <2>4, <2>5, <2>6, WaitStep
<1> QED  BY <1>5, <1>11, <1>12, <1>13

LEMMA ResumedStep ==
  ASSUME FsInvariant, NEW t \in Tasks, Resumed(t)
  PROVE  FsInvariant'
<1>1. PICK w \in Requests : w = waiting[t]
  BY DEF FsInvariant, BufferTypeOK
<1>2. w # Idle /\ w.resumed
  BY <1>1 DEF Resumed
<1>3. /\ w.type \in {"buffer", "list"} /\ w.need \in Nat /\ w.what \in {"list", "push"}
      /\ w.what = "list" => w.type = "list"
      /\ w.what = "push" => /\ w.type = "buffer" /\ w.list \in Lists
                            /\ w.data \in Seq(1 .. MaxField)
                            /\ w.head \in BOOLEAN /\ w.packed \in BOOLEAN
  BY <1>2, RequestKinds
<1>4. Suffices(buf, chain, w) /\ Once(buf, chain, total_length, free_buffers)
  BY <1>1 DEF FsInvariant
<1>5. Len(free_buffers) \in Nat /\ Len(free_lists) \in Nat
  BY Counts
<1>6. waiting \in [Tasks -> Requests] /\ Idle \in Requests
  BY DEF FsInvariant, BufferTypeOK, Requests
<1>7. CASE Available(w.type) < w.need
  <2>1. Wait(t, w) /\ UNCHANGED held
    BY <1>1, <1>7 DEF Resumed
  <2>2. ~(w.need <= (IF w.type = "buffer" THEN Len(free_buffers) ELSE Len(free_lists)))
    BY <1>3, <1>5, <1>7 DEF Available
  <2>3. /\ SameRequest(waiting'[t], w)
        /\ \A u \in Tasks : u # t => waiting'[u] = waiting[u]
    BY <1>2, <2>1, WaitIs
  <2>4. KeepsSame(waiting, waiting')
    <3>1. \A u \in Tasks : SameRequest(waiting'[u], waiting[u])
      BY <1>1, <2>3, RequestItself
    <3> QED  BY <3>1, SameKeeps
  <2>5. ListsOnce(free_lists, rx_lists, held, waiting, chain)'
    <3>1. ListsOnce(free_lists, rx_lists, held, waiting', chain)
      BY <2>4, ListsStay DEF FsInvariant
    <3> QED  BY <2>1, <3>1 DEF Wait
  <2> QED  BY <1>2, <1>4, <2>1, <2>2, <2>5, WaitStep
<1>8. CASE ~(Available(w.type) < w.need)
  <2>1. /\ waiting' = [waiting EXCEPT ![t] = Idle]
        /\ IF w.what = "list"
           THEN PopList
           ELSE /\ PushTo(w.list, PushAll(PushState(w.list, w.data), w.head, w.packed), w.head)
                /\ held' = held \cup {w.list}
    BY <1>1, <1>8 DEF Resumed
  <2>2. /\ waiting' \in [Tasks -> Requests] /\ waiting'[t] = Idle
        /\ \A u \in Tasks : u # t => waiting'[u] = waiting[u]
    BY <1>6, <2>1
  <2>3. CASE w.what = "list"
    <3>1. free_lists # <<>>
      <4>1. Len(free_lists) >= 1
        BY <1>3, <1>4, <1>5, <1>8, <2>3 DEF Available, Suffices
      <4> QED  BY <4>1
    <3>2. KeepsSame(waiting, waiting')
      BY <1>1, <2>2, <2>3 DEF KeepsSame, Keeps, Idle
    <3>3. /\ free_lists' = Tail(free_lists) /\ held' = held \cup {Head(free_lists)}
          /\ UNCHANGED <<buf, chain, tail, total_length, free_buffers, rx_lists, flags, halted>>
      BY <2>1, <2>3 DEF PopList
    <3>4. /\ ListsOnce(Tail(free_lists), rx_lists, held \cup {Head(free_lists)}, waiting', chain)
          /\ Len(Tail(free_lists)) <= Len(free_lists)
      BY <3>1, <3>2, ListTaken DEF FsInvariant
    <3>5. /\ ListsOnce(free_lists, rx_lists, held, waiting, chain)'
          /\ Len(free_lists') <= Len(free_lists) /\ Len(free_buffers') <= Len(free_buffers)
      BY <1>5, <3>3, <3>4
    <3>6. /\ Once(buf, chain, total_length, free_buffers)' /\ FlagsExact' /\ RestTyped'
          /\ OthersStay({}, buf, chain, total_length, buf', chain', total_length')
      BY <3>3 DEF FsInvariant, BufferTypeOK, FlagsExact, RestTyped, OthersStay
    <3> QED  BY <2>2, <3>5, <3>6, GoOnStep
  <2>4. CASE w.what = "push"
    <3>1. PICK l \in Lists, data \in Seq(1 .. MaxField), head \in BOOLEAN, packed \in BOOLEAN :
            l = w.list /\ data = w.data /\ head = w.head /\ packed = w.packed
      BY <1>3, <2>4
    <3>2. PICK st : st = PushState(l, data)
      OBVIOUS
    <3>3. PushStarts(st, l, data, head)
      BY <1>4, <3>2, PushStateGood
    <3>4. PICK new : new = PushAll(st, head, packed)
      OBVIOUS
    <3>5. /\ PushTo(l, new, head) /\ held' = held \cup {l}
      BY <2>1, <2>4, <3>1, <3>2, <3>4
    <3>6. Enough(st, head, Len(st.free))
      <4>1. Len(free_buffers) >= w.need
        BY <1>3, <1>5, <1>8, <2>4 DEF Available
      <4>2. PICK space \in Nat : space = SpaceOf(buf, chain[l], head)
        <5>1. PushSpace(st, head) \in Nat
          <6>1. st.chain \in Seq(Buffers) /\ Fitting(st.buf)
            BY <1>4, <3>3 DEF PushStarts, Once
          <6> QED  BY <6>1, PushSpaceType
        <5> QED  BY <3>3, <5>1 DEF PushStarts
      <4>3. Len(data) <= space + w.need * BufferSize
        BY <1>4, <2>4, <3>1, <4>2 DEF Suffices
      <4>4. PICK d \in Nat : Len(free_buffers) = w.need + d
        <5>1. Len(free_buffers) - w.need \in Nat
          BY <1>3, <1>5, <4>1
        <5> QED  BY <1>3, <1>5, <5>1
      <4>5. PICK p \in Nat, q \in Nat : p = w.need * BufferSize /\ q = d * BufferSize
        BY <1>3, BufferAssumption
      <4>6. Len(free_buffers) * BufferSize = p + q
        BY <1>3, <4>4, <4>5, BufferAssumption
      <4>7. Len(data) \in Nat
        OBVIOUS
      <4>8. Len(data) <= space + Len(free_buffers) * BufferSize
        BY <4>3, <4>5, <4>6, <4>7
      <4> QED  BY <3>3, <4>2, <4>8 DEF PushStarts, Enough
    <3>7. PushGood(new, Pool({l}, chain, free_buffers), buf, Len(free_buffers))
      BY <1>5, <3>3, <3>4, <3>6, PushAllGood DEF PushStarts
    <3>8. /\ Once(buf, chain, total_length, free_buffers)'
          /\ OthersStay({l}, buf, chain, total_length, buf', chain', total_length')
          /\ Len(free_buffers') <= Len(free_buffers) /\ FlagsExact' /\ RestTyped'
          /\ \A m \in Lists : m # l => chain'[m] = chain[m]
      BY <3>5, <3>7, PushToGood
    <3>9. ListsOnce(free_lists, rx_lists, held, waiting, chain)
      BY DEF FsInvariant
    <3>10. Keeps(waiting, t, l)
      BY <1>1, <2>4, <3>1 DEF Keeps
    <3>11. \A m \in ToSet(free_lists) : chain'[m] = chain[m]
      <4>1. l \notin ToSet(free_lists) /\ ToSet(free_lists) \subseteq Lists
        BY <3>9, <3>10, MembersIn DEF ListsOnce
      <4> QED  BY <3>8, <4>1
    <3>12. waiting'[t].what # "push"
      BY <2>2 DEF Idle
    <3>13. ListsOnce(free_lists, rx_lists, held \cup {l}, waiting', chain')
      BY <2>2, <3>9, <3>10, <3>11, <3>12, ListReleased
    <3>14. free_lists' = free_lists /\ rx_lists' = rx_lists
      BY <3>5 DEF PushTo
    <3>15. \A u \in Tasks : u # t /\ waiting[u].what = "push" => waiting[u].list # l
      BY <3>9, <3>10 DEF ListsOnce, Keeps
    <3>16. /\ ListsOnce(free_lists, rx_lists, held, waiting, chain)'
           /\ Len(free_lists') <= Len(free_lists)
      BY <1>5, <3>5, <3>13, <3>14
    <3> QED  BY <2>2, <3>8, <3>15, <3>16, GoOnStep
  <2> QED  BY <1>3, <2>3, <2>4
<1> QED  BY <1>7, <1>8

LEMMA GetListStep ==
  ASSUME FsInvariant, NEW mode, fs_buffer_get_list(mode)
  PROVE  FsInvariant'
<1>1. PICK need : need = Need("list", 1, mode)
  OBVIOUS
<1>2. need \in Nat /\ need >= 1
  BY <1>1, NeedType
<1>3. Len(free_buffers) \in Nat /\ Len(free_lists) \in Nat
  BY Counts
<1>4. CASE /\ Len(free_lists) < need /\ UNCHANGED held
           /\ fs_buffer_suspend([what |-> "list", type |-> "list", need |-> need,
                                 resumed |-> FALSE])
  <2>1. PICK r : r = [what |-> "list", type |-> "list", need |-> need, resumed |-> FALSE]
    OBVIOUS
  <2>2. PICK t \in Tasks : waiting[t] = Idle /\ Wait(t, r)
    BY <1>4, <2>1 DEF fs_buffer_suspend
  <2>3. r \in Requests /\ r # Idle
    <3>1. r \in [what : {"list"}, type : {"list"}, need : Nat, resumed : BOOLEAN]
      BY <1>2, <2>1
    <3>2. r.what = "list"
      BY <2>1
    <3> QED  BY <3>1, <3>2 DEF Requests, Idle
  <2>4. Suffices(buf, chain, r)
    BY <1>2, <2>1 DEF Suffices
  <2>5. ~(r.need <= (IF r.type = "buffer" THEN Len(free_buffers) ELSE Len(free_lists)))
    BY <1>2, <1>3, <1>4, <2>1
  <2>6. ListsOnce(free_lists, rx_lists, held, waiting, chain)'
    <3>1. SameRequest(waiting'[t], r) /\ \A u \in Tasks : u # t => waiting'[u] = waiting[u]
      BY <2>2, <2>3, WaitIs
    <3>2. waiting'[t].what = "list" /\ waiting[t].what = "idle"
      BY <2>1, <2>2, <3>1 DEF SameRequest, Idle
    <3>3. KeepsSame(waiting, waiting')
      BY <3>1, <3>2 DEF KeepsSame, Keeps
    <3>4. ListsOnce(free_lists, rx_lists, held, waiting', chain)
      BY <3>3, ListsStay DEF FsInvariant
    <3> QED  BY <1>4, <2>2, <3>4 DEF Wait
  <2> QED  BY <2>2, <2>3, <2>4, <2>5, <2>6, WaitStep
<1>5. CASE free_lists # <<>> /\ PopList /\ UNCHANGED waiting
  <2>1. /\ free_lists' = Tail(free_lists) /\ held' = held \cup {Head(free_lists)}
        /\ UNCHANGED <<buf, chain, tail, total_length, free_buffers, rx_lists, flags, halted>>
    BY <1>5 DEF PopList
  <2>2. KeepsSame(waiting, waiting')
    BY <1>5 DEF KeepsSame
  <2>3. /\ ListsOnce(Tail(free_lists), rx_lists, held \cup {Head(free_lists)}, waiting', chain)
        /\ Len(Tail(free_lists)) <= Len(free_lists)
    BY <1>5, <2>2, ListTaken DEF FsInvariant
  <2>4. /\ ListsOnce(free_lists, rx_lists, held, waiting, chain)'
        /\ Len(free_lists') <= Len(free_lists) /\ Len(free_buffers') <= Len(free_buffers)
    BY <1>3, <2>1, <2>3
  <2>5. /\ Once(buf, chain, total_length, free_buffers)' /\ FlagsExact' /\ RestTyped'
        /\ OthersStay({}, buf, chain, total_length, buf', chain', total_length')
    BY <2>1 DEF FsInvariant, BufferTypeOK, FlagsExact, RestTyped, OthersStay
  <2> QED  BY <1>5, <2>4, <2>5, QuietStep
<1> QED  BY <1>1, <1>4, <1>5 DEF fs_buffer_get_list

LEMMA EmptySound ==
  ASSUME NEW bf
  PROVE  /\ Sound(bf, <<>>, 0) /\ ToSet(<<>>) = {} /\ <<>> \in Seq(Buffers)
<1>1. Adds(Sizes(bf), <<>>, 0)
  BY AddsEmpty
<1>2. ToSet(<<>>) = {}
  BY DEF ToSet
<1>3. NoDuplicates(<<>>)
  BY DEF NoDuplicates
<1> QED  BY <1>1, <1>2, <1>3 DEF Sound

(* A step on lists of the programs that keeps the free buffers.            *)
Relinked(K) ==
  /\ K \subseteq held
  /\ UNCHANGED <<free_buffers, flags, rx_lists>>
  /\ chain' \in [Lists -> Seq(Buffers)] /\ total_length' \in [Lists -> Nat]
  /\ Fitting(buf') /\ \A b \in ToSet(free_buffers) : buf'[b] = buf[b]
  /\ \A l \in Lists \ K : chain'[l] = chain[l] /\ total_length'[l] = total_length[l]
  /\ \A l \in K : Sound(buf', chain'[l], total_length'[l])
  /\ \A l, m \in K : l # m => Disjoint(chain'[l], chain'[m])
  /\ MembersOf(K, chain') = MembersOf(K, chain)
  /\ \A b \in Buffers : b \notin MembersOf(K, chain) => buf'[b] = buf[b]

LEMMA KeepsBuffers ==
  ASSUME FsInvariant, NEW K, Relinked(K)
  PROVE  /\ Once(buf, chain, total_length, free_buffers)'
         /\ OthersStay(K, buf, chain, total_length, buf', chain', total_length')
         /\ Len(free_buffers') <= Len(free_buffers) /\ FlagsExact'
<1>0. /\ K \subseteq held /\ free_buffers' = free_buffers /\ flags' = flags /\ rx_lists' = rx_lists
      /\ chain' \in [Lists -> Seq(Buffers)] /\ total_length' \in [Lists -> Nat]
      /\ Fitting(buf') /\ \A b \in ToSet(free_buffers) : buf'[b] = buf[b]
      /\ \A l \in Lists \ K : chain'[l] = chain[l] /\ total_length'[l] = total_length[l]
      /\ \A l \in K : Sound(buf', chain'[l], total_length'[l])
      /\ \A l, m \in K : l # m => Disjoint(chain'[l], chain'[m])
      /\ MembersOf(K, chain') = MembersOf(K, chain)
      /\ \A b \in Buffers : b \notin MembersOf(K, chain) => buf'[b] = buf[b]
  BY DEF Relinked
<1>1. Once(buf, chain, total_length, free_buffers) /\ K \subseteq Lists
  BY <1>0 DEF FsInvariant, BufferTypeOK
<1>2. FreeSound(buf', free_buffers') /\ free_buffers' \in Seq(Buffers)
  BY <1>0, <1>1 DEF FreeSound, Once
<1>3. \A l \in K : Disjoint(chain'[l], free_buffers')
  <2> TAKE l \in K
  <2>1. ToSet(chain'[l]) \subseteq MembersOf(K, chain)
    BY <1>0 DEF MembersOf
  <2>2. \A m \in K : ToSet(chain[m]) \cap ToSet(free_buffers) = {}
    BY <1>0, <1>1 DEF Once, Disjoint
  <2> QED  BY <1>0, <2>1, <2>2 DEF Disjoint, MembersOf
<1>4. Pool(K, chain', free_buffers') = Pool(K, chain, free_buffers)
  BY <1>0 DEF Pool, MembersOf
<1>5. \A b \in Buffers : b \notin Pool(K, chain, free_buffers) => buf'[b] = buf[b]
  BY <1>0 DEF Pool, MembersOf
<1>6. /\ Once(buf, chain, total_length, free_buffers)'
      /\ OthersStay(K, buf, chain, total_length, buf', chain', total_length')
  <2>1. \A l \in K : Sound(buf', chain'[l], total_length'[l]) /\ Disjoint(chain'[l], free_buffers')
    BY <1>0, <1>3
  <2>2. Rearranged(K, buf, chain, total_length, free_buffers,
                   buf', chain', total_length', free_buffers')
    BY <1>0, <1>1, <1>2, <1>4, <1>5, <2>1 DEF Rearranged
  <2> QED  BY <1>0, <1>1, <2>2, ListsChange
<1>7. Len(free_buffers') <= Len(free_buffers)
  BY <1>0, Counts
<1>8. FlagsExact'
  BY <1>0 DEF FsInvariant, FlagsExact
<1> QED  BY <1>0, <1>6, <1>7, <1>8

LEMMA MoveStep ==
  ASSUME FsInvariant, NEW dst, NEW src, fs_buffer_list_move(dst, src)
  PROVE  FsInvariant'
<1>1. /\ dst \in held /\ src \in held /\ dst # src /\ chain[dst] = <<>>
      /\ chain' = [chain EXCEPT ![dst] = chain[src], ![src] = <<>>]
      /\ tail' = [tail EXCEPT ![dst] = tail[src], ![src] = NULL]
      /\ total_length' = [total_length EXCEPT ![dst] = total_length[src], ![src] = 0]
      /\ UNCHANGED <<buf, poolVars, halted>>
  BY DEF fs_buffer_list_move
<1>2. /\ chain \in [Lists -> Seq(Buffers)] /\ total_length \in [Lists -> Nat]
      /\ tail \in [Lists -> Buffers \cup {NULL}] /\ dst \in Lists /\ src \in Lists
      /\ Once(buf, chain, total_length, free_buffers)
  BY <1>1 DEF FsInvariant, BufferTypeOK
<1>3. /\ Sound(buf, <<>>, 0) /\ ToSet(<<>>) = {} /\ <<>> \in Seq(Buffers)
  BY EmptySound
<1>4. /\ chain' \in [Lists -> Seq(Buffers)] /\ total_length' \in [Lists -> Nat]
      /\ tail' \in [Lists -> Buffers \cup {NULL}]
      /\ chain'[dst] = chain[src] /\ chain'[src] = <<>>
      /\ total_length'[dst] = total_length[src] /\ total_length'[src] = 0
      /\ \A l \in Lists \ {dst, src} :
           chain'[l] = chain[l] /\ total_length'[l] = total_length[l]
  BY <1>1, <1>2, <1>3
<1>5. \A l \in {dst, src} : Sound(buf', chain'[l], total_length'[l])
  BY <1>1, <1>2, <1>3, <1>4 DEF Once
<1>6. \A l, m \in {dst, src} : l # m => Disjoint(chain'[l], chain'[m])
  BY <1>3, <1>4 DEF Disjoint
<1>7. MembersOf({dst, src}, chain') = MembersOf({dst, src}, chain)
  <2>1. MembersOf({dst, src}, chain') = ToSet(chain'[dst]) \cup ToSet(chain'[src])
    BY DEF MembersOf
  <2>2. MembersOf({dst, src}, chain) = ToSet(chain[dst]) \cup ToSet(chain[src])
    BY DEF MembersOf
  <2> QED  BY <1>1, <1>3, <1>4, <2>1, <2>2
<1>8. {dst, src} \subseteq held /\ Fitting(buf')
  BY <1>1, <1>2 DEF Once
<1>9. UNCHANGED <<free_buffers, flags, rx_lists, free_lists, held, waiting>> /\ buf' = buf
  BY <1>1 DEF poolVars
<1>10. /\ Once(buf, chain, total_length, free_buffers)'
       /\ OthersStay({dst, src}, buf, chain, total_length, buf', chain', total_length')
       /\ Len(free_buffers') <= Len(free_buffers) /\ FlagsExact'
  <2>1. Relinked({dst, src})
    BY <1>4, <1>5, <1>6, <1>7, <1>8, <1>9 DEF Relinked
  <2> QED  BY <2>1, KeepsBuffers
<1>11. ListsOnce(free_lists, rx_lists, held, waiting, chain)'
  BY <1>4, <1>8, <1>9, PlacesStay
<1>12. RestTyped' /\ Len(free_lists') <= Len(free_lists)
  <2>1. Len(free_lists') <= Len(free_lists)
    BY <1>9, Counts
  <2> QED  BY <1>1, <1>4, <1>9, <2>1 DEF FsInvariant, BufferTypeOK, RestTyped
<1> QED  BY <1>8, <1>9, <1>10, <1>11, <1>12, QuietStep

LEMMA MoveDataStep ==
  ASSUME FsInvariant, NEW dst, NEW src, NEW head \in BOOLEAN,
         fs_buffer_list_move_data(dst, src, head)
  PROVE  FsInvariant'
<1>0. PICK joined : joined = IF head THEN chain[src] \o chain[dst] ELSE chain[dst] \o chain[src]
  OBVIOUS
<1>1. /\ dst \in held /\ src \in held /\ dst # src
      /\ chain' = [chain EXCEPT ![dst] = joined, ![src] = <<>>]
      /\ tail' = [tail EXCEPT ![dst] = IF head THEN @ ELSE tail[src], ![src] = NULL]
      /\ total_length' = [total_length EXCEPT ![dst] = @ + total_length[src], ![src] = 0]
      /\ UNCHANGED <<buf, poolVars, halted>>
  BY <1>0 DEF fs_buffer_list_move_data
<1>2. /\ chain \in [Lists -> Seq(Buffers)] /\ total_length \in [Lists -> Nat]
      /\ tail \in [Lists -> Buffers \cup {NULL}] /\ dst \in Lists /\ src \in Lists
      /\ Once(buf, chain, total_length, free_buffers)
  BY <1>1 DEF FsInvariant, BufferTypeOK
<1>3. /\ Sound(buf, <<>>, 0) /\ ToSet(<<>>) = {} /\ <<>> \in Seq(Buffers)
  BY EmptySound
<1>4. PICK c \in Seq(Buffers), d \in Seq(Buffers), m \in Nat, n \in Nat :
        /\ joined = Joined(c, d)
        /\ Sound(buf, c, m) /\ Sound(buf, d, n) /\ Disjoint(c, d)
        /\ ToSet(c) \cup ToSet(d) = ToSet(chain[dst]) \cup ToSet(chain[src])
        /\ m + n = total_length[dst] + total_length[src]
  <2>1. /\ chain[dst] \in Seq(Buffers) /\ chain[src] \in Seq(Buffers)
        /\ total_length[dst] \in Nat /\ total_length[src] \in Nat
        /\ Sound(buf, chain[dst], total_length[dst])
        /\ Sound(buf, chain[src], total_length[src])
        /\ Disjoint(chain[dst], chain[src]) /\ Disjoint(chain[src], chain[dst])
    BY <1>1, <1>2 DEF Once, Disjoint
  <2>2. total_length[dst] + total_length[src] = total_length[src] + total_length[dst]
    BY <2>1
  <2>3. CASE head
    <3>1. joined = Joined(chain[src], chain[dst])
      BY <1>0, <2>3 DEF Joined
    <3>2. ToSet(chain[src]) \cup ToSet(chain[dst]) = ToSet(chain[dst]) \cup ToSet(chain[src])
      OBVIOUS
    <3> QED  BY <2>1, <2>2, <3>1, <3>2
  <2>4. CASE ~head
    <3>1. joined = Joined(chain[dst], chain[src])
      BY <1>0, <2>4 DEF Joined
    <3> QED  BY <2>1, <3>1
  <2> QED  BY <2>3, <2>4
<1>5. /\ joined \in Seq(Buffers) /\ ToSet(joined) = ToSet(c) \cup ToSet(d)
      /\ NoDuplicates(joined)
  BY <1>4, ConcatMembers DEF Sound, Disjoint
<1>6. Sound(buf, joined, m + n)
  <2>1. Sizes(buf) \in [Buffers -> Nat]
    BY <1>2, SizesType DEF Once, Fitting
  <2>2. Adds(Sizes(buf), joined, m + n)
    BY <1>4, <2>1, AddsConcat DEF Sound
  <2> QED  BY <1>4, <1>5, <2>2 DEF Sound
<1>7. /\ chain' \in [Lists -> Seq(Buffers)] /\ total_length' \in [Lists -> Nat]
      /\ chain'[dst] = joined /\ chain'[src] = <<>>
      /\ total_length'[dst] = m + n /\ total_length'[src] = 0
      /\ \A l \in Lists \ {dst, src} :
           chain'[l] = chain[l] /\ total_length'[l] = total_length[l]
  <2>1. total_length' = [total_length EXCEPT ![dst] = m + n, ![src] = 0]
    BY <1>1, <1>4
  <2>2. m + n \in Nat
    BY <1>4
  <2>3. /\ chain' \in [Lists -> Seq(Buffers)] /\ chain'[dst] = joined /\ chain'[src] = <<>>
        /\ \A l \in Lists \ {dst, src} : chain'[l] = chain[l]
    BY <1>1, <1>2, <1>3, <1>5
  <2>4. /\ total_length' \in [Lists -> Nat] /\ total_length'[dst] = m + n /\ total_length'[src] = 0
        /\ \A l \in Lists \ {dst, src} : total_length'[l] = total_length[l]
    BY <1>1, <1>2, <2>1, <2>2
  <2> QED  BY <2>3, <2>4
<1>8. tail' \in [Lists -> Buffers \cup {NULL}]
  BY <1>1, <1>2
<1>9. \A l \in {dst, src} : Sound(buf', chain'[l], total_length'[l])
  BY <1>1, <1>3, <1>6, <1>7
<1>10. \A k, l \in {dst, src} : k # l => Disjoint(chain'[k], chain'[l])
  BY <1>3, <1>7 DEF Disjoint
<1>11. MembersOf({dst, src}, chain') = MembersOf({dst, src}, chain)
  <2>1. MembersOf({dst, src}, chain') = ToSet(chain'[dst]) \cup ToSet(chain'[src])
    BY DEF MembersOf
  <2>2. MembersOf({dst, src}, chain) = ToSet(chain[dst]) \cup ToSet(chain[src])
    BY DEF MembersOf
  <2> QED  BY <1>3, <1>4, <1>5, <1>7, <2>1, <2>2
<1>12. {dst, src} \subseteq held /\ Fitting(buf')
  BY <1>1, <1>2 DEF Once
<1>13. UNCHANGED <<free_buffers, flags, rx_lists, free_lists, held, waiting>> /\ buf' = buf
  BY <1>1 DEF poolVars
<1>14. /\ Once(buf, chain, total_length, free_buffers)'
       /\ OthersStay({dst, src}, buf, chain, total_length, buf', chain', total_length')
       /\ Len(free_buffers') <= Len(free_buffers) /\ FlagsExact'
  <2>1. Relinked({dst, src})
    BY <1>7, <1>9, <1>10, <1>11, <1>12, <1>13 DEF Relinked
  <2> QED  BY <2>1, KeepsBuffers
<1>15. ListsOnce(free_lists, rx_lists, held, waiting, chain)'
  BY <1>7, <1>12, <1>13, PlacesStay
<1>16. RestTyped' /\ Len(free_lists') <= Len(free_lists)
  <2>1. Len(free_lists') <= Len(free_lists)
    BY <1>13, Counts
  <2> QED  BY <1>1, <1>8, <1>13, <2>1 DEF FsInvariant, BufferTypeOK, RestTyped
<1> QED  BY <1>12, <1>13, <1>14, <1>15, <1>16, QuietStep

LEMMA CopyStep ==
  ASSUME FsInvariant, NEW dst, NEW src, fs_buffer_list_copy_data(dst, src)
  PROVE  FsInvariant'
<1>1. /\ dst \in Lists /\ src \in Lists /\ dst \in held /\ chain[src] \in Seq(Buffers)
      /\ buf \in BufferSet /\ Once(buf, chain, total_length, free_buffers)
  BY DEF FsInvariant, BufferTypeOK, fs_buffer_list_copy_data, BufferSet
<1>2. PICK data \in Seq(1 .. MaxField) : data = <<>>
  <2>1. <<>> \in Seq(1 .. MaxField)
    OBVIOUS
  <2> QED  BY <2>1
<1>3. PICK st : st = PushState(dst, data)
  OBVIOUS
<1>4. PushGood(st, Pool({dst}, chain, free_buffers), buf, Len(free_buffers))
  <2>1. PushStarts(st, dst, data, FALSE)
    BY <1>1, <1>3, PushStateGood
  <2> QED  BY <2>1 DEF PushStarts
<1>5. PICK new : new = FoldLeft(CopyBuffer, st, chain[src])
  OBVIOUS
<1>6. Len(free_buffers) \in Nat /\ Len(free_lists) \in Nat
  BY Counts
<1>7. PushGood(new, Pool({dst}, chain, free_buffers), buf, Len(free_buffers))
  BY <1>1, <1>4, <1>5, <1>6, CopyGood
<1>8. PushTo(dst, new, FALSE) /\ UNCHANGED <<held, waiting>>
  BY <1>2, <1>3, <1>5 DEF fs_buffer_list_copy_data
<1>9. /\ Once(buf, chain, total_length, free_buffers)'
      /\ OthersStay({dst}, buf, chain, total_length, buf', chain', total_length')
      /\ Len(free_buffers') <= Len(free_buffers) /\ FlagsExact' /\ RestTyped'
      /\ \A m \in Lists : m # dst => chain'[m] = chain[m]
  BY <1>1, <1>7, <1>8, PushToGood
<1>10. UNCHANGED <<free_lists, rx_lists, held, waiting>> /\ {dst} \subseteq held
  BY <1>1, <1>8 DEF PushTo
<1>11. ListsOnce(free_lists, rx_lists, held, waiting, chain)'
  BY <1>9, <1>10, PlacesStay
<1>12. Len(free_lists') <= Len(free_lists)
  BY <1>6, <1>10
<1> QED  BY <1>9, <1>10, <1>11, <1>12, QuietStep

(* fs_buffer_list_append.                                                  *)
LEMMA AppendStep ==
  ASSUME FsInvariant, NEW l, NEW field \in Fields, fs_buffer_list_append(l, field)
  PROVE  FsInvariant'
<1>1. PICK b : b = Head(free_buffers)
  OBVIOUS
<1>2. /\ l \in held /\ Len(field) <= BufferSize /\ free_buffers # <<>>
      /\ buf' = [buf EXCEPT ![b].data = field]
      /\ chain' = [chain EXCEPT ![l] = sll_append(chain[l], b)]
      /\ tail' = [tail EXCEPT ![l] = b]
      /\ total_length' = [total_length EXCEPT ![l] = @ + Len(field)]
      /\ UseBuffers(Tail(free_buffers))
      /\ UNCHANGED <<free_lists, rx_lists, held, waiting, halted>>
  BY <1>1 DEF fs_buffer_list_append
<1>3. /\ chain \in [Lists -> Seq(Buffers)] /\ total_length \in [Lists -> Nat]
      /\ tail \in [Lists -> Buffers \cup {NULL}] /\ l \in Lists
      /\ free_buffers \in Seq(Buffers) /\ halted \in BOOLEAN
      /\ flags \subseteq {"FS_SPACE_AVAILABLE", "FS_DATA_AVAILABLE"}
      /\ Once(buf, chain, total_length, free_buffers) /\ FlagsExact
  BY <1>2 DEF FsInvariant, BufferTypeOK
<1>4. /\ NoDuplicates(free_buffers) /\ Fitting(buf) /\ chain[l] \in Seq(Buffers)
      /\ Sound(buf, chain[l], total_length[l]) /\ Disjoint(chain[l], free_buffers)
      /\ \A x \in ToSet(free_buffers) : buf[x] = Fresh
  BY <1>3 DEF Once, FreeSound
<1>5. PICK free : free = Tail(free_buffers)
  OBVIOUS
<1>6. /\ b \in Buffers /\ b \in ToSet(free_buffers) /\ free \in Seq(Buffers)
      /\ NoDuplicates(free) /\ ToSet(free) = ToSet(free_buffers) \ {b}
  BY <1>1, <1>2, <1>3, <1>4, <1>5, TailMembers
<1>7. Len(free) <= Len(free_buffers)
  BY <1>2, <1>3, <1>5
<1>8. field \in Seq(1 .. MaxField) /\ Len(field) \in Nat /\ field # <<>>
  <2>1. PICK n \in 1 .. MaxField : field = [i \in 1 .. n |-> i]
    BY DEF Fields
  <2>2. Len(field) = n /\ n >= 1
    BY <2>1, BufferAssumption
  <2> QED  BY <2>2, FieldType
<1>9. /\ \A x \in Buffers : buf'[x] = IF x = b THEN [room |-> 0, data |-> field] ELSE buf[x]
      /\ buf' \in BufferSet
  <2>1. buf[b] = [room |-> 0, data |-> <<>>] /\ buf \in BufferSet
    BY <1>4, <1>6 DEF Fresh, Fitting
  <2>2. [buf[b] EXCEPT !.data = field] = [room |-> 0, data |-> field]
    BY <2>1
  <2>3. buf' = [buf EXCEPT ![b] = [room |-> 0, data |-> field]]
    BY <1>2, <2>2
  <2>4. [room |-> 0, data |-> field] \in [room : 0 .. BufferSize, data : Seq(1 .. MaxField)]
    BY <1>8, BufferAssumption
  <2> QED  BY <1>6, <2>1, <2>3, <2>4 DEF BufferSet
<1>10. Fitting(buf')
  <2>1. 0 + Len(field) <= BufferSize
    BY <1>2, <1>8
  <2> QED  BY <1>4, <1>9, <2>1 DEF Fitting
<1>11. PICK c : c = sll_append(chain[l], b)
  OBVIOUS
<1>12. /\ c \in Seq(Buffers) /\ ToSet(c) = ToSet(chain[l]) \cup {b} /\ NoDuplicates(c)
  <2>1. b \notin ToSet(chain[l]) /\ NoDuplicates(chain[l])
    BY <1>4, <1>6 DEF Disjoint, Sound
  <2> QED  BY <1>4, <1>6, <1>11, <2>1, SllAppendMembers
<1>13. FreeSound(buf', free)
  BY <1>4, <1>6, <1>9, MembersIn DEF FreeSound
<1>14. Disjoint(c, free)
  BY <1>4, <1>6, <1>12 DEF Disjoint
<1>15. PICK n \in Nat : n = total_length[l] + Len(field)
  BY <1>3, <1>8
<1>16. Sound(buf', c, n)
  <2>1. \A x \in ToSet(chain[l]) : buf'[x] = buf[x]
    BY <1>4, <1>6, <1>9, MembersIn DEF Disjoint
  <2>2. Sound(buf', chain[l], total_length[l])
    BY <1>4, <2>1, SoundStays
  <2>3. Sizes(buf') \in [Buffers -> Nat] /\ Sizes(buf')[b] = Len(field)
    BY <1>6, <1>9, SizesType
  <2>4. PICK w : w = Sizes(buf')
    OBVIOUS
  <2>5. c = IF FALSE THEN sll_push(chain[l], b) ELSE sll_append(chain[l], b)
    BY <1>11
  <2>6. Adds(w, c, total_length[l] + w[b])
    BY <1>4, <1>6, <2>2, <2>3, <2>4, <2>5, AddsOneMore DEF Sound
  <2>7. \A x \in ToSet(c) : buf'[x].data # <<>>
    BY <1>6, <1>8, <1>9, <1>12, <2>2 DEF Sound
  <2> QED  BY <1>12, <1>15, <2>3, <2>4, <2>6, <2>7 DEF Sound
<1>17. /\ free_buffers' = free
       /\ chain' \in [Lists -> Seq(Buffers)] /\ total_length' \in [Lists -> Nat]
       /\ chain'[l] = c /\ total_length'[l] = n
       /\ \A m \in Lists \ {l} : chain'[m] = chain[m] /\ total_length'[m] = total_length[m]
       /\ tail' \in [Lists -> Buffers \cup {NULL}]
  <2>1. total_length' = [total_length EXCEPT ![l] = n]
    BY <1>2, <1>15
  <2>2. chain' = [chain EXCEPT ![l] = c]
    BY <1>2, <1>11
  <2> QED  BY <1>2, <1>3, <1>5, <1>6, <1>12, <2>1, <2>2 DEF UseBuffers
<1>18. Rearranged({l}, buf, chain, total_length, free_buffers,
                  buf', chain', total_length', free_buffers')
  <2>1. Pool({l}, chain', free) = Pool({l}, chain, free_buffers)
    BY <1>6, <1>12, <1>17 DEF Pool, MembersOf
  <2>2. \A x \in Buffers : x \notin Pool({l}, chain, free_buffers) => buf'[x] = buf[x]
    BY <1>6, <1>9 DEF Pool
  <2> QED  BY <1>3, <1>6, <1>10, <1>13, <1>14, <1>16, <1>17, <2>1, <2>2 DEF Rearranged
<1>19. /\ Once(buf, chain, total_length, free_buffers)'
       /\ OthersStay({l}, buf, chain, total_length, buf', chain', total_length')
  BY <1>3, <1>18, ListsChange
<1>20. FlagsExact' /\ RestTyped'
  <2>1. UseBuffers(free_buffers') /\ free_buffers' \in Seq(Buffers)
        /\ Len(free_buffers') <= Len(free_buffers) /\ rx_lists' = rx_lists /\ halted' = halted
    BY <1>2, <1>5, <1>6, <1>7, <1>17
  <2> QED  BY <1>3, <1>17, <2>1, FlagsUsed DEF RestTyped
<1>21. UNCHANGED <<free_lists, rx_lists, held, waiting>> /\ {l} \subseteq held
  BY <1>2
<1>22. ListsOnce(free_lists, rx_lists, held, waiting, chain)'
  BY <1>17, <1>21, PlacesStay
<1>23. Len(free_lists') <= Len(free_lists) /\ Len(free_buffers') <= Len(free_buffers)
  BY <1>7, <1>17, <1>21, Counts
<1> QED  BY <1>19, <1>20, <1>21, <1>22, <1>23, QuietStep

(* The received lists.                                                     *)
LEMMA AddRxStep ==
  ASSUME FsInvariant, NEW l, NEW head \in BOOLEAN, fs_buffer_add_rx(l, head)
  PROVE  FsInvariant'
<1>1. /\ l \in held
      /\ rx_lists' = IF head THEN sll_push(rx_lists, l) ELSE sll_append(rx_lists, l)
      /\ held' = held \ {l}
      /\ flags' = flags \cup {"FS_DATA_AVAILABLE"}
      /\ UNCHANGED <<buf, chain, tail, total_length, free_buffers, free_lists, waiting, halted>>
  BY DEF fs_buffer_add_rx
<1>2. ListsOnce(free_lists, rx_lists', held \ {l}, waiting, chain) /\ rx_lists' # <<>>
  <2>1. PICK rx2 : rx2 = IF head THEN sll_push(rx_lists, l) ELSE sll_append(rx_lists, l)
    OBVIOUS
  <2>2. ListsOnce(free_lists, rx2, held \ {l}, waiting, chain) /\ rx2 # <<>>
    BY <1>1, <2>1, ListReceived DEF FsInvariant
  <2> QED  BY <1>1, <2>1, <2>2
<1>3. ListsOnce(free_lists, rx_lists, held, waiting, chain)'
  BY <1>1, <1>2
<1>4. FlagsExact'
  BY <1>1, <1>2 DEF FsInvariant, FlagsExact
<1>5. /\ Once(buf, chain, total_length, free_buffers)' /\ RestTyped'
      /\ OthersStay({}, buf, chain, total_length, buf', chain', total_length')
  BY <1>1 DEF FsInvariant, BufferTypeOK, RestTyped, OthersStay
<1>6. /\ Len(free_lists') <= Len(free_lists) /\ Len(free_buffers') <= Len(free_buffers)
      /\ waiting' = waiting
  BY <1>1, Counts
<1> QED  BY <1>3, <1>4, <1>5, <1>6, QuietStep

LEMMA GetRxStep ==
  ASSUME FsInvariant, fs_buffer_get_rx
  PROVE  FsInvariant'
<1>1. /\ rx_lists # <<>> /\ held' = held \cup {Head(rx_lists)} /\ rx_lists' = Tail(rx_lists)
      /\ flags' = IF Tail(rx_lists) = <<>> THEN flags \ {"FS_DATA_AVAILABLE"} ELSE flags
      /\ UNCHANGED <<buf, chain, tail, total_length, free_buffers, free_lists, waiting, halted>>
  BY DEF fs_buffer_get_rx
<1>2. ListsOnce(free_lists, Tail(rx_lists), held \cup {Head(rx_lists)}, waiting, chain)
  BY <1>1, ListFetched DEF FsInvariant
<1>3. ListsOnce(free_lists, rx_lists, held, waiting, chain)'
  BY <1>1, <1>2
<1>4. FlagsExact'
  BY <1>1 DEF FsInvariant, FlagsExact
<1>5. /\ Once(buf, chain, total_length, free_buffers)' /\ RestTyped'
      /\ OthersStay({}, buf, chain, total_length, buf', chain', total_length')
  BY <1>1 DEF FsInvariant, BufferTypeOK, RestTyped, OthersStay
<1>6. /\ Len(free_lists') <= Len(free_lists) /\ Len(free_buffers') <= Len(free_buffers)
      /\ waiting' = waiting
  BY <1>1, Counts
<1> QED  BY <1>3, <1>4, <1>5, <1>6, QuietStep
(* What an update works on: the buffers keep their room and their sizes.   *)
UpdateStates == [left : Seq(1 .. MaxField), off : Nat, buf : BufferSet]
UpdateGood(s, bf, c) ==
  /\ s \in UpdateStates
  /\ \A x \in Buffers :
       /\ s.buf[x].room = bf[x].room /\ Len(s.buf[x].data) = Len(bf[x].data)
       /\ x \notin ToSet(c) => s.buf[x] = bf[x]

LEMMA ConcatLength ==
  ASSUME NEW S, NEW c \in Seq(S), NEW d \in Seq(S), NEW r, r = c \o d
  PROVE  r \in Seq(S) /\ Len(r) = Len(c) + Len(d)
  OBVIOUS

(* The bytes that a piece replaces are as many as it has.                  *)
Replaced(d, off, n, part) == First(d, off) \o part \o Drop(d, off + n)

LEMMA ReplacedLength ==
  ASSUME NEW S, NEW d \in Seq(S), NEW off \in Nat, NEW n \in Nat, off + n <= Len(d),
         NEW part \in Seq(S), Len(part) = n, NEW new,
         new = Replaced(d, off, n, part)
  PROVE  new \in Seq(S) /\ Len(new) = Len(d)
<1>1. Len(d) \in Nat /\ off \in 0 .. Len(d) /\ off + n \in 0 .. Len(d)
  OBVIOUS
<1>2. PICK a : a = First(d, off)
  OBVIOUS
<1>3. PICK z : z = Drop(d, off + n)
  OBVIOUS
<1>4. a \in Seq(S) /\ Len(a) = off
  BY <1>1, <1>2, PartLength
<1>5. z \in Seq(S) /\ Len(z) = Len(d) - (off + n)
  BY <1>1, <1>3, PartLength, SMTT(30)
<1>6. PICK e : e = a \o part
  OBVIOUS
<1>7. e \in Seq(S) /\ Len(e) = off + n
  BY <1>4, <1>6, ConcatProperties
<1>8. new = e \o z
  BY <1>2, <1>3, <1>6 DEF Replaced
<1>9. new \in Seq(S) /\ Len(new) = Len(e) + Len(z)
  BY <1>5, <1>7, <1>8, ConcatLength
<1> QED  BY <1>1, <1>5, <1>7, <1>9

LEMMA UpdateKeeps ==
  ASSUME NEW s, NEW bf, NEW c \in Seq(Buffers), UpdateGood(s, bf, c), s.left # <<>>,
         NEW b \in ToSet(c), NEW packed \in BOOLEAN, NEW new, new = UpdatePiece(s, b, packed)
  PROVE  UpdateGood(new, bf, c)
<1>0. /\ s \in UpdateStates /\ s.left \in Seq(1 .. MaxField) /\ s.off \in Nat /\ s.buf \in BufferSet
      /\ Len(s.left) \in Nat
  BY DEF UpdateGood, UpdateStates
<1>1. b \in Buffers
  BY MembersIn
<1>2. PICK d : d = s.buf[b].data
  OBVIOUS
<1>3. d \in Seq(1 .. MaxField) /\ Len(d) \in Nat
  BY <1>0, <1>1, <1>2 DEF BufferSet
<1>4. CASE s.off > 0 /\ s.off >= Len(d)
  <2>1. new = [s EXCEPT !.off = @ - Len(d)]
    BY <1>2, <1>4 DEF UpdatePiece
  <2>2. s.off - Len(d) \in Nat
    BY <1>0, <1>3, <1>4
  <2>3. new \in UpdateStates /\ new.buf = s.buf
    BY <1>0, <2>1, <2>2 DEF UpdateStates
  <2> QED  BY <2>3 DEF UpdateGood
<1>5. CASE ~(s.off > 0 /\ s.off >= Len(d))
  <2>1. PICK n : n = IF Len(s.left) + s.off > Len(d) THEN Len(d) - s.off ELSE Len(s.left)
    OBVIOUS
  <2>2. PICK cut : cut = IF packed THEN Len(s.left) - n ELSE n
    OBVIOUS
  <2>3. PICK part : part = IF packed THEN Drop(s.left, cut) ELSE First(s.left, cut)
    OBVIOUS
  <2>4. PICK left : left = IF packed THEN First(s.left, cut) ELSE Drop(s.left, cut)
    OBVIOUS
  <2>5. PICK data : data = First(d, s.off) \o Memory(part, packed) \o Drop(d, s.off + n)
    OBVIOUS
  <2>6. new = [left |-> left, off |-> 0, buf |-> [s.buf EXCEPT ![b].data = data]]
    BY <1>2, <1>5, <2>1, <2>2, <2>3, <2>4, <2>5 DEF UpdatePiece
  <2>7. n \in Nat /\ n <= Len(s.left) /\ s.off + n <= Len(d)
    BY <1>0, <1>3, <1>5, <2>1
  <2>8. cut \in 0 .. Len(s.left)
    BY <1>0, <2>2, <2>7
  <2>9. /\ left \in Seq(1 .. MaxField)
        /\ part \in Seq(1 .. MaxField) /\ Len(part) = n
    <3>1. PICK a : a = First(s.left, cut)
      OBVIOUS
    <3>2. PICK z : z = Drop(s.left, cut)
      OBVIOUS
    <3>3. /\ a \in Seq(1 .. MaxField) /\ Len(a) = cut
          /\ z \in Seq(1 .. MaxField) /\ Len(z) = Len(s.left) - cut
      BY <1>0, <2>8, <3>1, <3>2, PartLength
    <3>4. CASE packed
      <4>1. part = z /\ left = a
        BY <2>3, <2>4, <3>1, <3>2, <3>4
      <4>2. Len(s.left) - cut = n
        BY <1>0, <2>2, <2>7, <3>4
      <4> QED  BY <3>3, <4>1, <4>2
    <3>5. CASE ~packed
      BY <2>2, <2>3, <2>4, <3>1, <3>2, <3>3, <3>5
    <3> QED  BY <3>4, <3>5
  <2>10. PICK memory : memory = Memory(part, packed)
    OBVIOUS
  <2>11. memory \in Seq(1 .. MaxField) /\ Len(memory) = n
    BY <2>9, <2>10, MemoryLength
  <2>12. data \in Seq(1 .. MaxField) /\ Len(data) = Len(d)
    <3>1. data = Replaced(d, s.off, n, memory)
      BY <2>5, <2>10 DEF Replaced
    <3> QED  BY <1>0, <1>3, <2>7, <2>11, <3>1, ReplacedLength
  <2>13. PICK bf2 : bf2 = [s.buf EXCEPT ![b].data = data]
    OBVIOUS
  <2>14. /\ bf2 \in BufferSet /\ bf2[b].room = s.buf[b].room /\ bf2[b].data = data
         /\ \A x \in Buffers : x # b => bf2[x] = s.buf[x]
    BY <1>0, <1>1, <2>12, <2>13 DEF BufferSet
  <2>15. new.buf = bf2 /\ new \in UpdateStates
    BY <2>6, <2>9, <2>13, <2>14 DEF UpdateStates
  <2>16. ASSUME NEW x \in Buffers
         PROVE  /\ bf2[x].room = bf[x].room /\ Len(bf2[x].data) = Len(bf[x].data)
                /\ x \notin ToSet(c) => bf2[x] = bf[x]
    BY <1>2, <2>12, <2>14 DEF UpdateGood
  <2> QED  BY <2>15, <2>16 DEF UpdateGood
<1> QED  BY <1>4, <1>5

LEMMA UpdateAllGood ==
  ASSUME buf \in BufferSet, NEW c \in Seq(Buffers), NEW data \in Seq(1 .. MaxField),
         NEW off \in Nat, NEW packed \in BOOLEAN,
         NEW st, st = [left |-> data, off |-> off, buf |-> buf],
         NEW new, new = UpdateAll(st, c, packed)
  PROVE  UpdateGood(new, buf, c)
<1>1. PICK T : T = {s \in UpdateStates : UpdateGood(s, buf, c)}
  OBVIOUS
<1>2. st \in UpdateStates /\ st.buf = buf
  BY DEF UpdateStates
<1>3. st \in T
  BY <1>1, <1>2 DEF UpdateGood
<1>4. \A s \in T, b \in ToSet(c) : UpdateTurn(s, b, packed) \in T
  <2> TAKE s \in T, b \in ToSet(c)
  <2>1. UpdateGood(s, buf, c)
    BY <1>1
  <2>2. CASE s.left = <<>>
    BY <2>2 DEF UpdateTurn
  <2>3. CASE s.left # <<>>
    <3>1. UpdateGood(UpdatePiece(s, b, packed), buf, c)
      BY <2>1, <2>3, UpdateKeeps
    <3> QED  BY <1>1, <2>3, <3>1 DEF UpdateTurn, UpdateGood
  <2> QED  BY <2>2, <2>3
<1>5. c \in Seq(ToSet(c))
  BY DEF ToSet
<1>6. UpdateAll(st, c, packed) \in T
  BY <1>3, <1>4, <1>5, UpdateAllStays
<1> QED  BY <1>1, <1>6

LEMMA UpdateStep ==
  ASSUME FsInvariant, NEW l, NEW field \in Fields, NEW offset \in Nat, NEW from_tail \in BOOLEAN,
         NEW packed \in BOOLEAN, fs_buffer_list_update(l, field, offset, from_tail, packed)
  PROVE  FsInvariant'
<1>1. PICK data : data = Memory(field, packed)
  OBVIOUS
<1>2. PICK off : off = IF from_tail THEN total_length[l] - (Len(data) + offset) ELSE offset
  OBVIOUS
<1>3. PICK st : st = [left |-> data, off |-> off, buf |-> buf]
  OBVIOUS
<1>4. PICK new : new = UpdateAll(st, chain[l], packed)
  OBVIOUS
<1>5. /\ l \in held /\ total_length[l] >= Len(data) + offset /\ buf' = new.buf
      /\ UNCHANGED <<chain, tail, total_length, poolVars, halted>>
  BY <1>1, <1>2, <1>3, <1>4 DEF fs_buffer_list_update
<1>6. /\ chain \in [Lists -> Seq(Buffers)] /\ total_length \in [Lists -> Nat] /\ l \in Lists
      /\ chain[l] \in Seq(Buffers) /\ total_length[l] \in Nat
      /\ Once(buf, chain, total_length, free_buffers) /\ Fitting(buf) /\ buf \in BufferSet
  BY <1>5 DEF FsInvariant, BufferTypeOK, Once, Fitting
<1>7. data \in Seq(1 .. MaxField) /\ Len(data) \in Nat
  BY <1>1, FieldType
<1>8. off \in Nat
  BY <1>2, <1>5, <1>6, <1>7
<1>9. UpdateGood(new, buf, chain[l])
  BY <1>3, <1>4, <1>6, <1>7, <1>8, UpdateAllGood
<1>10. /\ buf' \in BufferSet
       /\ \A x \in Buffers :
            /\ buf'[x].room = buf[x].room /\ Len(buf'[x].data) = Len(buf[x].data)
            /\ x \notin ToSet(chain[l]) => buf'[x] = buf[x]
  BY <1>5, <1>9 DEF UpdateGood, UpdateStates
<1>11. Fitting(buf')
  BY <1>6, <1>10 DEF Fitting
<1>12. Sound(buf', chain[l], total_length[l])
  <2>1. Sound(buf, chain[l], total_length[l]) /\ ToSet(chain[l]) \subseteq Buffers
    BY <1>6, MembersIn DEF Once
  <2>2. \A b \in ToSet(chain[l]) : buf'[b].data # <<>>
    <3> TAKE b \in ToSet(chain[l])
    <3>1. b \in Buffers /\ buf[b].data # <<>> /\ Len(buf'[b].data) = Len(buf[b].data)
      BY <1>10, <2>1 DEF Sound
    <3>2. buf[b].data \in Seq(1 .. MaxField) /\ buf'[b].data \in Seq(1 .. MaxField)
      BY <1>6, <1>10, <3>1 DEF BufferSet
    <3> QED  BY <3>1, <3>2
  <2>3. \A b \in ToSet(chain[l]) : Sizes(buf')[b] = Sizes(buf)[b]
    BY <1>10, <2>1 DEF Sizes
  <2>4. Adds(Sizes(buf'), chain[l], total_length[l])
    BY <1>6, <2>1, <2>3, AddsSame DEF Sound
  <2> QED  BY <2>1, <2>2, <2>4 DEF Sound
<1>13. UNCHANGED <<free_buffers, flags, rx_lists, free_lists, held, waiting, chain,
                   total_length, tail, halted>>
  BY <1>5 DEF poolVars
<1>14. /\ Once(buf, chain, total_length, free_buffers)'
       /\ OthersStay({l}, buf, chain, total_length, buf', chain', total_length')
       /\ Len(free_buffers') <= Len(free_buffers) /\ FlagsExact'
  <2>1. \A b \in ToSet(free_buffers) : buf'[b] = buf[b]
    <3>1. ToSet(free_buffers) \cap ToSet(chain[l]) = {} /\ ToSet(free_buffers) \subseteq Buffers
      BY <1>6, MembersIn DEF Once, Disjoint
    <3> QED  BY <1>10, <3>1
  <2>2. MembersOf({l}, chain) = ToSet(chain[l])
    BY DEF MembersOf
  <2>3. \A b \in Buffers : b \notin MembersOf({l}, chain) => buf'[b] = buf[b]
    BY <1>10, <2>2
  <2>4. \A m \in {l} : Sound(buf', chain'[m], total_length'[m])
    BY <1>12, <1>13
  <2>5. Relinked({l})
    BY <1>5, <1>6, <1>11, <1>13, <2>1, <2>3, <2>4 DEF Relinked
  <2> QED  BY <2>5, KeepsBuffers
<1>15. ListsOnce(free_lists, rx_lists, held, waiting, chain)'
  BY <1>13 DEF FsInvariant
<1>16. RestTyped' /\ Len(free_lists') <= Len(free_lists)
  <2>1. Len(free_lists') <= Len(free_lists)
    BY <1>13, Counts
  <2> QED  BY <1>13, <2>1 DEF FsInvariant, BufferTypeOK, RestTyped
<1> QED  BY <1>5, <1>13, <1>14, <1>15, <1>16, QuietStep

(* A step that resumes tasks.                                              *)
LEMMA ResumeStep ==
  ASSUME FsInvariant, NEW K, K \subseteq held, waiting' \in [Tasks -> Requests],
         \A t \in Tasks : SameRequest(waiting'[t], waiting[t]),
         Once(buf, chain, total_length, free_buffers)',
         OthersStay(K, buf, chain, total_length, buf', chain', total_length'),
         ListsOnce(free_lists, rx_lists, held, waiting, chain)',
         \A t \in Tasks : NotStarved(waiting'[t], Len(free_buffers'), Len(free_lists')),
         FlagsExact', RestTyped'
  PROVE  FsInvariant'
<1>1. waiting \in [Tasks -> Requests] /\ chain \in [Lists -> Seq(Buffers)]
  BY DEF FsInvariant, BufferTypeOK
<1>2. ASSUME NEW t \in Tasks
      PROVE  Suffices(buf', chain', waiting'[t])
  <2>1. waiting[t] \in Requests /\ Suffices(buf, chain, waiting[t])
    BY <1>1 DEF FsInvariant
  <2>2. waiting[t].what = "push" => waiting[t].list \notin K
    BY KeptNotHeld
  <2> QED  BY <1>1, <2>1, <2>2, SufficesStays
<1> QED  BY <1>2, Assembled

(* A step that frees the first or the last buffers of a list of a program. *)
Released(l, bf, emptied, kept, total) ==
  /\ l \in held /\ Fitting(bf) /\ total \in Nat
  /\ emptied \in Seq(Buffers) /\ kept \in Seq(Buffers)
  /\ NoDuplicates(emptied) /\ Disjoint(emptied, kept)
  /\ ToSet(emptied) \cup ToSet(kept) = ToSet(chain[l])
  /\ Sound(bf, kept, total)
  /\ \A b \in Buffers : b \notin ToSet(chain[l]) => bf[b] = buf[b]
  /\ buf' = [b \in Buffers |-> IF b \in ToSet(emptied) THEN Fresh ELSE bf[b]]
  /\ chain' = [chain EXCEPT ![l] = kept]
  /\ total_length' = [total_length EXCEPT ![l] = total]
  /\ free_buffers' = free_buffers \o emptied

LEMMA ReleasedGood ==
  ASSUME FsInvariant, NEW l, NEW bf, NEW emptied, NEW kept, NEW total,
         Released(l, bf, emptied, kept, total)
  PROVE  /\ Once(buf, chain, total_length, free_buffers)'
         /\ OthersStay({l}, buf, chain, total_length, buf', chain', total_length')
         /\ free_buffers = <<>> /\ emptied = <<>> <=> free_buffers' = <<>>
         /\ chain'[l] = kept /\ \A m \in Lists : m # l => chain'[m] = chain[m]
<1>0. /\ l \in held /\ Fitting(bf) /\ total \in Nat
      /\ emptied \in Seq(Buffers) /\ kept \in Seq(Buffers)
      /\ NoDuplicates(emptied) /\ Disjoint(emptied, kept)
      /\ ToSet(emptied) \cup ToSet(kept) = ToSet(chain[l])
      /\ Sound(bf, kept, total)
      /\ \A b \in Buffers : b \notin ToSet(chain[l]) => bf[b] = buf[b]
      /\ buf' = [b \in Buffers |-> IF b \in ToSet(emptied) THEN Fresh ELSE bf[b]]
      /\ chain' = [chain EXCEPT ![l] = kept]
      /\ total_length' = [total_length EXCEPT ![l] = total]
      /\ free_buffers' = free_buffers \o emptied
  BY DEF Released
<1>1. /\ chain \in [Lists -> Seq(Buffers)] /\ total_length \in [Lists -> Nat] /\ l \in Lists
      /\ Once(buf, chain, total_length, free_buffers) /\ Fitting(buf)
      /\ free_buffers \in Seq(Buffers) /\ FreeSound(buf, free_buffers)
      /\ Disjoint(chain[l], free_buffers)
  BY <1>0 DEF FsInvariant, BufferTypeOK, Once
<1>2. /\ chain' \in [Lists -> Seq(Buffers)] /\ chain'[l] = kept
      /\ \A m \in Lists \ {l} : chain'[m] = chain[m]
  BY <1>0, <1>1
<1>3. /\ total_length' \in [Lists -> Nat] /\ total_length'[l] = total
      /\ \A m \in Lists \ {l} : total_length'[m] = total_length[m]
  BY <1>0, <1>1
<1>4. PICK free : free = free_buffers'
  OBVIOUS
<1>5. /\ free \in Seq(Buffers) /\ ToSet(free) = ToSet(free_buffers) \cup ToSet(emptied)
      /\ NoDuplicates(free)
  <2>1. ToSet(free_buffers) \cap ToSet(emptied) = {}
    BY <1>0, <1>1 DEF Disjoint
  <2>2. free = Joined(free_buffers, emptied)
    BY <1>0, <1>4 DEF Joined
  <2>3. NoDuplicates(free_buffers)
    BY <1>1 DEF FreeSound
  <2> QED  BY <1>0, <1>1, <2>1, <2>2, <2>3, ConcatMembers
<1>6. /\ \A b \in ToSet(emptied) : buf'[b] = Fresh
      /\ \A b \in Buffers : b \notin ToSet(emptied) => buf'[b] = bf[b]
  BY <1>0, MembersIn
<1>7. Fitting(buf')
  <2>1. BufferSize \in Nat
    BY BufferAssumption
  <2>2. Fresh \in BufferRecord /\ Fresh.room + Len(Fresh.data) <= BufferSize
    BY <2>1 DEF Fresh, BufferRecord
  <2>3. BufferSet = [Buffers -> BufferRecord]
    BY DEF BufferSet, BufferRecord
  <2>4. \A b \in Buffers : bf[b] \in BufferRecord /\ bf[b].room + Len(bf[b].data) <= BufferSize
    BY <1>0, <2>3 DEF Fitting
  <2>5. \A b \in Buffers : buf'[b] \in BufferRecord /\ buf'[b].room + Len(buf'[b].data) <= BufferSize
    BY <1>6, <2>2, <2>4
  <2>6. buf' \in [Buffers -> BufferRecord]
    BY <1>0, <2>5
  <2> QED  BY <2>3, <2>5, <2>6 DEF Fitting
<1>8. FreeSound(buf', free)
  <2>1. ASSUME NEW b \in ToSet(free_buffers)
        PROVE  buf'[b] = Fresh
    <3>1. b \in Buffers /\ b \notin ToSet(chain[l]) /\ buf[b] = Fresh
      BY <1>1, MembersIn DEF Disjoint, FreeSound
    <3> QED  BY <1>0, <1>6, <3>1
  <2> QED  BY <1>5, <1>6, <2>1 DEF FreeSound
<1>9. Sound(buf', kept, total) /\ Disjoint(kept, free)
  <2>1. \A b \in ToSet(kept) : buf'[b] = bf[b]
    BY <1>0, <1>6, MembersIn DEF Disjoint
  <2>2. Sound(buf', kept, total)
    BY <1>0, <2>1, SoundStays
  <2> QED  BY <1>0, <1>1, <1>5, <2>2 DEF Disjoint
<1>10. Pool({l}, chain', free) = Pool({l}, chain, free_buffers)
  <2>1. MembersOf({l}, chain') = ToSet(kept) /\ MembersOf({l}, chain) = ToSet(chain[l])
    BY <1>2 DEF MembersOf
  <2> QED  BY <1>0, <1>5, <2>1 DEF Pool
<1>11. \A b \in Buffers : b \notin Pool({l}, chain, free_buffers) => buf'[b] = buf[b]
  <2>1. MembersOf({l}, chain) = ToSet(chain[l])
    BY DEF MembersOf
  <2> QED  BY <1>0, <1>6, <2>1 DEF Pool
<1>12. /\ Once(buf, chain, total_length, free_buffers)'
       /\ OthersStay({l}, buf, chain, total_length, buf', chain', total_length')
  <2>1. Rearranged({l}, buf, chain, total_length, free_buffers,
                   buf', chain', total_length', free_buffers')
    BY <1>1, <1>2, <1>3, <1>4, <1>5, <1>7, <1>8, <1>9, <1>10, <1>11 DEF Rearranged
  <2> QED  BY <1>1, <2>1, ListsChange
<1>13. free_buffers = <<>> /\ emptied = <<>> <=> free_buffers' = <<>>
  <2>1. Len(free_buffers') = Len(free_buffers) + Len(emptied)
    BY <1>0, <1>1, ConcatProperties
  <2>2. free_buffers' \in Seq(Buffers)
    BY <1>4, <1>5
  <2>3. Len(free_buffers) \in Nat /\ Len(emptied) \in Nat
    BY <1>0, <1>1
  <2>4. free_buffers' = <<>> <=> Len(free_buffers') = 0
    BY <2>2
  <2>5. free_buffers = <<>> <=> Len(free_buffers) = 0
    BY <1>1
  <2>6. emptied = <<>> <=> Len(emptied) = 0
    BY <1>0
  <2> QED  BY <2>1, <2>3, <2>4, <2>5, <2>6
<1> QED  BY <1>2, <1>12, <1>13

LEMMA FreeListStep ==
  ASSUME FsInvariant, NEW l, fs_buffer_add_list(l)
  PROVE  FsInvariant'
<1>0. PICK c : c = chain[l]
  OBVIOUS
<1>1. PICK w : w = IF c = <<>> THEN waiting ELSE fs_buffer_do_resume(waiting, Len(free_buffers'))
  OBVIOUS
<1>2. /\ l \in held /\ held' = held \ {l}
      /\ buf' = [b \in Buffers |-> IF b \in ToSet(c) THEN Fresh ELSE buf[b]]
      /\ chain' = [chain EXCEPT ![l] = <<>>]
      /\ tail' = [tail EXCEPT ![l] = NULL]
      /\ total_length' = [total_length EXCEPT ![l] = 0]
      /\ free_buffers' = free_buffers \o c
      /\ free_lists' = sll_append(free_lists, l)
      /\ flags' = IF c = <<>> THEN flags ELSE flags \cup {"FS_SPACE_AVAILABLE"}
      /\ waiting' = fs_buffer_do_resume(w, Len(free_lists'))
      /\ rx_lists' = rx_lists /\ halted' = halted
  BY <1>0, <1>1 DEF fs_buffer_add_list, FreeList
<1>3. /\ chain \in [Lists -> Seq(Buffers)] /\ c \in Seq(Buffers) /\ l \in Lists
      /\ waiting \in [Tasks -> Requests] /\ free_buffers \in Seq(Buffers)
      /\ tail \in [Lists -> Buffers \cup {NULL}]
      /\ flags \subseteq {"FS_SPACE_AVAILABLE", "FS_DATA_AVAILABLE"} /\ halted \in BOOLEAN
      /\ Once(buf, chain, total_length, free_buffers) /\ Fitting(buf)
      /\ ListsOnce(free_lists, rx_lists, held, waiting, chain)
      /\ FlagsExact
  BY <1>0, <1>2 DEF FsInvariant, BufferTypeOK, Once
<1>4. Released(l, buf, c, <<>>, 0)
  <2>1. Sound(buf, <<>>, 0) /\ ToSet(<<>>) = {} /\ <<>> \in Seq(Buffers)
    BY EmptySound
  <2>2. NoDuplicates(c) /\ 0 \in Nat
    BY <1>0, <1>3 DEF Once, Sound
  <2>3. Disjoint(c, <<>>) /\ ToSet(c) \cup ToSet(<<>>) = ToSet(chain[l])
    BY <1>0, <2>1 DEF Disjoint
  <2> QED  BY <1>2, <1>3, <2>1, <2>2, <2>3 DEF Released
<1>5. /\ Once(buf, chain, total_length, free_buffers)'
      /\ OthersStay({l}, buf, chain, total_length, buf', chain', total_length')
      /\ free_buffers = <<>> /\ c = <<>> <=> free_buffers' = <<>>
      /\ chain'[l] = <<>> /\ \A m \in Lists : m # l => chain'[m] = chain[m]
  BY <1>4, ReleasedGood
<1>6. /\ w \in [Tasks -> Requests] /\ \A t \in Tasks : SameRequest(w[t], waiting[t])
      /\ \A t \in Tasks :
           waiting[t] # Idle /\ (waiting[t].resumed
             \/ (c # <<>> /\ waiting[t].need <= Len(free_buffers'))) => w[t].resumed
  <2>1. CASE c = <<>>
    BY <1>1, <1>3, <2>1, RequestItself
  <2>2. CASE c # <<>>
    BY <1>1, <1>3, <2>2, DoResume
  <2> QED  BY <2>1, <2>2
<1>7. /\ waiting' \in [Tasks -> Requests]
      /\ \A t \in Tasks :
           /\ SameRequest(waiting'[t], w[t])
           /\ w[t] # Idle /\ (w[t].resumed \/ w[t].need <= Len(free_lists')) => waiting'[t].resumed
  BY <1>2, <1>6, DoResume
<1>8. \A t \in Tasks : SameRequest(waiting'[t], waiting[t])
  BY <1>6, <1>7 DEF SameRequest
<1>9. \A t \in Tasks : NotStarved(waiting'[t], Len(free_buffers'), Len(free_lists'))
  <2> TAKE t \in Tasks
  <2>1. waiting[t] \in Requests /\ NotStarved(waiting[t], Len(free_buffers), Len(free_lists))
    BY <1>3 DEF FsInvariant
  <2>2. CASE waiting[t] = Idle
    BY <1>8, <2>2 DEF SameRequest, NotStarved
  <2>3. CASE waiting[t] # Idle
    <3>1. /\ SameRequest(w[t], waiting[t]) /\ SameRequest(waiting'[t], w[t]) /\ w[t] # Idle
          /\ w[t].need = waiting[t].need /\ w[t].type = waiting[t].type
          /\ waiting'[t].need = waiting[t].need /\ waiting'[t].type = waiting[t].type
      BY <1>6, <1>7, <2>3 DEF SameRequest
    <3>2. CASE waiting[t].type = "buffer"
      <4>1. CASE c = <<>>
        <5>1. free_buffers' = free_buffers
          BY <1>2, <1>3, <4>1
        <5>2. waiting[t].need <= Len(free_buffers') => waiting[t].resumed
          BY <2>1, <2>3, <3>2, <5>1 DEF NotStarved
        <5>3. waiting[t].need <= Len(free_buffers') => waiting'[t].resumed
          BY <1>6, <1>7, <2>3, <3>1, <5>2
        <5> QED  BY <3>1, <3>2, <5>3 DEF NotStarved
      <4>2. CASE c # <<>>
        <5>1. waiting[t].need <= Len(free_buffers') => waiting'[t].resumed
          BY <1>6, <1>7, <2>3, <3>1, <4>2
        <5> QED  BY <3>1, <3>2, <5>1 DEF NotStarved
      <4> QED  BY <4>1, <4>2
    <3>3. CASE waiting[t].type # "buffer"
      BY <1>7, <3>1, <3>3 DEF NotStarved
    <3> QED  BY <3>2, <3>3
  <2> QED  BY <2>2, <2>3
<1>10. ListsOnce(free_lists, rx_lists, held, waiting, chain)'
  <2>1. KeepsSame(waiting, waiting')
    BY <1>8, SameKeeps
  <2>2. \A m \in ToSet(free_lists) : chain'[m] = chain[m]
    <3>1. ToSet(free_lists) \subseteq Lists /\ l \notin ToSet(free_lists)
      BY <1>2, <1>3, MembersIn DEF ListsOnce
    <3> QED  BY <1>5, <3>1
  <2>3. l \in held /\ chain'[l] = <<>>
    BY <1>2, <1>5
  <2>4. ListsOnce(sll_append(free_lists, l), rx_lists, held \ {l}, waiting', chain')
    BY <1>3, <2>1, <2>2, <2>3, ListFreed
  <2> QED  BY <1>2, <2>4
<1>11. FlagsExact'
  <2>1. c = <<>> => flags' = flags
    BY <1>2
  <2>2. c # <<>> => flags' = flags \cup {"FS_SPACE_AVAILABLE"}
    BY <1>2
  <2> QED  BY <1>2, <1>3, <1>5, <2>1, <2>2 DEF FlagsExact
<1>12. RestTyped'
  <2>1. flags' \subseteq {"FS_SPACE_AVAILABLE", "FS_DATA_AVAILABLE"}
    BY <1>2, <1>3
  <2>2. tail' \in [Lists -> Buffers \cup {NULL}]
    BY <1>2, <1>3
  <2> QED  BY <1>2, <1>3, <2>1, <2>2 DEF RestTyped
<1> QED
  <2>1. {l} \subseteq held
    BY <1>2
  <2> QED  BY <1>5, <1>7, <1>8, <1>9, <1>10, <1>11, <1>12, <2>1, ResumeStep

----------------------------------------------------------------------------
(* A pull.                                                                 *)

PullStates ==
  {s \in [n : Nat, out : Seq(1 .. MaxField), buf : BufferSet, emptied : Seq(Buffers)] :
     Fitting(s.buf)}

LEMMA PullFits ==
  ASSUME NEW b \in BufferRecord, b.room + Len(b.data) <= BufferSize, NEW n \in 0 .. Len(b.data),
         NEW from_tail \in BOOLEAN, NEW new, new = fs_buffer_pull(b, n, from_tail)
  PROVE  /\ new \in BufferRecord /\ new.room + Len(new.data) <= BufferSize
         /\ Len(new.data) = Len(b.data) - n
<1>0. BufferSize \in Nat
  BY BufferAssumption
<1>1. b.room \in 0 .. BufferSize /\ b.data \in Seq(1 .. MaxField) /\ Len(b.data) \in Nat /\ n \in Nat
  BY DEF BufferRecord
<1>2. CASE from_tail
  <2>1. PICK d : d = First(b.data, Len(b.data) - n)
    OBVIOUS
  <2>2. Len(b.data) - n \in 0 .. Len(b.data)
    BY <1>1
  <2>3. d \in Seq(1 .. MaxField) /\ Len(d) = Len(b.data) - n
    <3>1. PICK k : k = Len(b.data) - n
      OBVIOUS
    <3>2. PICK rest : rest = Drop(b.data, k)
      OBVIOUS
    <3>3. k \in 0 .. Len(b.data) /\ d = First(b.data, k)
      BY <2>1, <2>2, <3>1
    <3>4. d \in Seq(1 .. MaxField) /\ Len(d) = k
      BY <1>1, <3>2, <3>3, PartLength
    <3> QED  BY <3>1, <3>4
  <2>4. new = [b EXCEPT !.data = d]
    BY <1>2, <2>1 DEF fs_buffer_pull
  <2>5. new.room = b.room /\ new.data = d /\ new \in BufferRecord
    BY <2>3, <2>4 DEF BufferRecord
  <2> QED  BY <1>0, <1>1, <2>3, <2>5
<1>3. CASE ~from_tail
  <2>1. PICK d : d = Drop(b.data, n)
    OBVIOUS
  <2>2. d \in Seq(1 .. MaxField) /\ Len(d) = Len(b.data) - n
    BY <1>1, <2>1, PartLength
  <2>3. new = [room |-> b.room + n, data |-> d]
    BY <1>3, <2>1 DEF fs_buffer_pull
  <2>4. b.room + n \in 0 .. BufferSize
    BY <1>0, <1>1
  <2>5. new.room = b.room + n /\ new.data = d /\ new \in BufferRecord
    BY <2>2, <2>3, <2>4 DEF BufferRecord
  <2> QED  BY <1>0, <1>1, <2>2, <2>5
<1> QED  BY <1>2, <1>3

LEMMA GatherType ==
  ASSUME NEW S, NEW out \in Seq(S), NEW part \in Seq(S), NEW packed \in BOOLEAN
  PROVE  Gather(out, part, packed) \in Seq(S)
BY ConcatProperties DEF Gather

(* What a turn of the loop does to the state.                              *)
PullEffect(s, b, new) ==
  LET d == s.buf[b].data
  IN /\ new \in PullStates
     /\ \A x \in Buffers : x # b => new.buf[x] = s.buf[x]
     /\ IF s.n >= Len(d)
        THEN new.n = s.n - Len(d) /\ new.emptied = Append(s.emptied, b)
        ELSE new.n = 0 /\ new.emptied = s.emptied /\ Len(new.buf[b].data) = Len(d) - s.n

LEMMA PullPieceEffect ==
  ASSUME NEW s \in PullStates, NEW b \in Buffers, NEW from_tail \in BOOLEAN,
         NEW packed \in BOOLEAN, NEW new, new = PullPiece(s, b, from_tail, packed)
  PROVE  PullEffect(s, b, new)
<1>1. /\ s.n \in Nat /\ s.out \in Seq(1 .. MaxField) /\ s.buf \in BufferSet
      /\ s.emptied \in Seq(Buffers) /\ Fitting(s.buf)
  BY DEF PullStates
<1>2. PICK d : d = s.buf[b].data
  OBVIOUS
<1>3. PICK n : n = IF s.n >= Len(d) THEN Len(d) ELSE s.n
  OBVIOUS
<1>4. PICK part : part = First(d, n)
  OBVIOUS
<1>5. PICK memory : memory = Memory(part, packed)
  OBVIOUS
<1>6. PICK out : out = Gather(s.out, memory, packed)
  OBVIOUS
<1>7. PICK pulled : pulled = fs_buffer_pull(s.buf[b], n, from_tail)
  OBVIOUS
<1>8. PICK emptied : emptied = IF n = Len(d) THEN Append(s.emptied, b) ELSE s.emptied
  OBVIOUS
<1>9. PICK bf : bf = [s.buf EXCEPT ![b] = pulled]
  OBVIOUS
<1>10. new = [n |-> s.n - n, out |-> out, buf |-> bf, emptied |-> emptied]
  BY <1>2, <1>3, <1>4, <1>5, <1>6, <1>7, <1>8, <1>9 DEF PullPiece
<1>11. BufferSet = [Buffers -> BufferRecord]
  BY DEF BufferSet, BufferRecord
<1>12. /\ s.buf[b] \in BufferRecord /\ s.buf[b].room + Len(s.buf[b].data) <= BufferSize
       /\ d \in Seq(1 .. MaxField) /\ Len(d) \in Nat
  BY <1>1, <1>2, <1>11 DEF Fitting, BufferRecord
<1>13. n \in 0 .. Len(d) /\ n <= s.n
  BY <1>1, <1>3, <1>12
<1>14. /\ pulled \in BufferRecord /\ pulled.room + Len(pulled.data) <= BufferSize
       /\ Len(pulled.data) = Len(d) - n
  BY <1>2, <1>7, <1>12, <1>13, PullFits
<1>15. /\ bf \in [Buffers -> BufferRecord] /\ bf[b] = pulled
       /\ \A x \in Buffers : x # b => bf[x] = s.buf[x]
  BY <1>1, <1>9, <1>11, <1>14
<1>16. Fitting(bf)
  BY <1>1, <1>11, <1>14, <1>15 DEF Fitting
<1>17. out \in Seq(1 .. MaxField)
  <2>1. part \in Seq(1 .. MaxField)
    <3>1. PICK rest : rest = Drop(d, n)
      OBVIOUS
    <3> QED  BY <1>4, <1>12, <1>13, <3>1, PartLength
  <2>2. memory \in Seq(1 .. MaxField)
    BY <1>5, <2>1, MemoryLength
  <2> QED  BY <1>1, <1>6, <2>2, GatherType
<1>18. emptied \in Seq(Buffers)
  BY <1>1, <1>8
<1>19. s.n - n \in Nat
  BY <1>1, <1>12, <1>13
<1>20. new \in PullStates /\ new.n = s.n - n /\ new.buf = bf /\ new.emptied = emptied
  BY <1>10, <1>11, <1>15, <1>16, <1>17, <1>18, <1>19 DEF PullStates
<1>21. CASE s.n >= Len(d)
  BY <1>2, <1>3, <1>8, <1>15, <1>20, <1>21 DEF PullEffect
<1>22. CASE ~(s.n >= Len(d))
  <2>1. n = s.n /\ n # Len(d) /\ s.n - n = 0
    BY <1>1, <1>3, <1>12, <1>22
  <2> QED  BY <1>2, <1>8, <1>14, <1>15, <1>20, <1>22, <2>1 DEF PullEffect
<1> QED  BY <1>21, <1>22

(* The list without one more buffer.                                       *)
LEMMA DropOne ==
  ASSUME NEW S, NEW list \in Seq(S), NEW i \in Nat, i < Len(list),
         NEW d, d = Behind(list, i), NEW e, e = Behind(list, i + 1),
         NEW c, c = Upto(list, i), NEW f, f = Upto(list, i + 1)
  PROVE  /\ d \in Seq(S) /\ d # <<>> /\ Len(d) = Len(list) - i /\ d[1] = list[i + 1]
         /\ e \in Seq(S) /\ e = Behind(d, 1) /\ f = Append(c, list[i + 1])
<1>1. Len(list) \in Nat /\ i \in 0 .. Len(list) /\ i + 1 \in 0 .. Len(list)
  OBVIOUS
<1>2. /\ d \in Seq(S) /\ Len(d) = Len(list) - i
      /\ \A j \in 1 .. Len(list) - i : d[j] = list[i + j]
      /\ c \in Seq(S) /\ Len(c) = i /\ \A j \in 1 .. i : c[j] = list[j]
  <2>1. AreParts(S, list, Len(list), i, c, d)
    BY <1>1, CutMembers
  <2> QED  BY <2>1 DEF AreParts
<1>3. PICK k : k = i + 1
  OBVIOUS
<1>4. k \in 0 .. Len(list) /\ e = Behind(list, k) /\ f = Upto(list, k)
  BY <1>1, <1>3
<1>5. /\ e \in Seq(S) /\ Len(e) = Len(list) - k
      /\ \A j \in 1 .. Len(list) - k : e[j] = list[k + j]
      /\ f \in Seq(S) /\ Len(f) = k /\ \A j \in 1 .. k : f[j] = list[j]
  BY <1>4, CutMembers DEF AreParts
<1>6. d # <<>> /\ Len(d) \in Nat /\ d[1] = list[i + 1] /\ 1 \in 0 .. Len(d)
  BY <1>1, <1>2
<1>7. e = Behind(d, 1)
  <2>1. PICK g : g = Behind(d, 1)
    OBVIOUS
  <2>2. PICK h : h = Upto(d, 1)
    OBVIOUS
  <2>3. g \in Seq(S) /\ Len(g) = Len(d) - 1 /\ \A j \in 1 .. Len(d) - 1 : g[j] = d[1 + j]
    <3>1. AreParts(S, d, Len(d), 1, h, g)
      BY <1>2, <1>6, <2>1, <2>2, CutMembers
    <3> QED  BY <3>1 DEF AreParts
  <2>4. Len(g) = Len(e)
    BY <1>1, <1>2, <1>3, <1>5, <2>3
  <2>5. \A j \in 1 .. Len(e) : g[j] = e[j]
    <3> TAKE j \in 1 .. Len(e)
    <3>1. j \in 1 .. Len(d) - 1 /\ j \in 1 .. Len(list) - k
      BY <1>1, <1>5, <2>3, <2>4
    <3>2. g[j] = d[1 + j] /\ e[j] = list[k + j]
      BY <1>5, <2>3, <3>1
    <3>3. 1 + j \in 1 .. Len(list) - i /\ i + (1 + j) = k + j
      BY <1>1, <1>3, <3>1
    <3>4. d[1 + j] = list[i + (1 + j)]
      BY <1>2, <3>3
    <3> QED  BY <3>2, <3>3, <3>4
  <2>6. g = e
    BY <1>5, <2>3, <2>4, <2>5, SeqEqual
  <2> QED  BY <2>1, <2>6
<1>8. f = Append(c, list[i + 1])
  <2>1. PICK x \in S : x = list[i + 1]
    BY <1>1
  <2>2. PICK g : g = Append(c, x)
    OBVIOUS
  <2>3. /\ g \in Seq(S) /\ Len(g) = i + 1
        /\ \A j \in 1 .. i : g[j] = c[j]
        /\ g[i + 1] = x
    BY <1>2, <2>1, <2>2, AppendProperties
  <2>4. \A j \in 1 .. Len(f) : g[j] = f[j]
    <3> TAKE j \in 1 .. Len(f)
    <3>1. CASE j = i + 1
      BY <1>3, <1>5, <2>1, <2>3, <3>1
    <3>2. CASE j # i + 1
      <4>1. j \in 1 .. i /\ j \in 1 .. k
        BY <1>1, <1>3, <1>5, <3>2
      <4> QED  BY <1>2, <1>5, <2>3, <4>1
    <3> QED  BY <3>1, <3>2
  <2>5. g = f
    BY <1>3, <1>5, <2>3, <2>4, SeqEqual
  <2> QED  BY <2>1, <2>2, <2>5
<1> QED  BY <1>2, <1>5, <1>6, <1>7, <1>8

(* The state of the loop of a pull before it looks at buffer i + 1: the    *)
(* first buffers of the order are emptied, all so far while more is left   *)
(* to pull, and the others hold what is not pulled.                        *)
PullStage(s, g, order, bf, total, size, i) ==
  /\ s \in PullStates /\ g \in 0 .. i
  /\ s.emptied = Upto(order, g)
  /\ s.n <= size /\ (s.n > 0 => g = i)
  /\ Sound(s.buf, Behind(order, g), total - size + s.n)
  /\ \A b \in Buffers : b \notin ToSet(order) => s.buf[b] = bf[b]

(* The first of the buffers of a list loses some of its bytes.             *)
LEMMA FirstShrinks ==
  ASSUME NEW bf, NEW bf2, Fitting(bf), Fitting(bf2), NEW d \in Seq(Buffers), d # <<>>,
         NEW m, Sound(bf, d, m), NEW b, b = d[1], \A x \in Buffers : x # b => bf2[x] = bf[x],
         NEW n \in Nat, n < Len(bf[b].data), Len(bf2[b].data) = Len(bf[b].data) - n
  PROVE  Sound(bf2, d, m - n)
<1>0. bf \in BufferSet /\ bf2 \in BufferSet /\ ToSet(d) \subseteq Buffers
  BY MembersIn DEF Fitting
<1>1. 1 \in 1 .. Len(d) /\ b \in Buffers
  OBVIOUS
<1>2. /\ Sizes(bf) \in [Buffers -> Nat] /\ Sizes(bf2) \in [Buffers -> Nat]
      /\ \A x \in Buffers : Sizes(bf)[x] = Len(bf[x].data)
      /\ \A x \in Buffers : Sizes(bf2)[x] = Len(bf2[x].data)
  BY <1>0, SizesType
<1>3. bf[b].data \in Seq(1 .. MaxField) /\ bf2[b].data \in Seq(1 .. MaxField)
  BY <1>0, <1>1 DEF BufferSet
<1>4. NoDuplicates(d) /\ Adds(Sizes(bf), d, m)
  BY DEF Sound
<1>5. m \in Nat
  BY <1>2, <1>4, AddsNat
<1>6. \A x \in ToSet(d) : x = d[1] \/ Sizes(bf2)[x] = Sizes(bf)[x]
  BY <1>0, <1>2
<1>7. PICK w : w = Sizes(bf)
  OBVIOUS
<1>8. PICK v : v = Sizes(bf2)
  OBVIOUS
<1>9. Adds(v, d, m - w[d[1]] + v[d[1]])
  BY <1>1, <1>2, <1>4, <1>6, <1>7, <1>8, AddsChange
<1>10. m - w[d[1]] + v[d[1]] = m - n
  <2>1. w[d[1]] = Len(bf[b].data) /\ v[d[1]] = Len(bf[b].data) - n
    BY <1>1, <1>2, <1>7, <1>8
  <2>2. Len(bf[b].data) \in Nat
    BY <1>3
  <2> QED  BY <1>5, <2>1, <2>2
<1>11. \A x \in ToSet(d) : bf2[x].data # <<>>
  <2> TAKE x \in ToSet(d)
  <2>1. CASE x = b
    <3>1. Len(bf2[b].data) > 0
      BY <1>3
    <3> QED  BY <1>3, <2>1, <3>1
  <2>2. CASE x # b
    BY <1>0, <2>2 DEF Sound
  <2> QED  BY <2>1, <2>2
<1> QED  BY <1>4, <1>8, <1>9, <1>10, <1>11 DEF Sound

(* The others hold what the list holds without its first buffer.           *)
LEMMA OthersSound ==
  ASSUME NEW bf, NEW bf2, Fitting(bf), Fitting(bf2), NEW d \in Seq(Buffers), d # <<>>,
         NEW m, Sound(bf, d, m), NEW b, b = d[1], \A x \in Buffers : x # b => bf2[x] = bf[x],
         NEW e, e = Behind(d, 1)
  PROVE  Sound(bf2, e, m - Len(bf[b].data)) /\ Len(bf[b].data) <= m
<1>1. 1 \in 0 .. Len(d) /\ 1 \in 1 .. Len(d) /\ b \in Buffers /\ bf \in BufferSet
  BY DEF Fitting
<1>2. PICK c : c = Upto(d, 1)
  OBVIOUS
<1>3. /\ AreParts(Buffers, d, Len(d), 1, c, e)
      /\ NoDuplicates(d) => NoDuplicates(c) /\ NoDuplicates(e) /\ ToSet(c) \cap ToSet(e) = {}
      /\ ToSet(d) = ToSet(c) \cup ToSet(e)
  BY <1>1, <1>2, CutMembers
<1>4. c \in Seq(Buffers) /\ Len(c) = 1 /\ c[1] = b /\ e \in Seq(Buffers)
  BY <1>3 DEF AreParts
<1>5. c = <<b>>
  BY <1>4
<1>6. ToSet(c) = {b}
  BY <1>1, <1>5, SingleMembers
<1>7. NoDuplicates(d) /\ Adds(Sizes(bf), d, m) /\ Sizes(bf) \in [Buffers -> Nat]
      /\ Sizes(bf)[b] = Len(bf[b].data)
  BY <1>1, SizesType DEF Sound
<1>8. PICK k \in Nat : k <= m /\ Adds(Sizes(bf), c, k) /\ Adds(Sizes(bf), e, m - k)
  BY <1>1, <1>2, <1>7, AddsCut
<1>9. k = Len(bf[b].data)
  <2>1. Adds(Sizes(bf), c, Sizes(bf)[b])
    BY <1>1, <1>5, <1>7, AddsSingle
  <2>2. Len(c) \in Nat
    BY <1>4
  <2>3. PICK n : n = Sizes(bf)[b]
    OBVIOUS
  <2>4. k = n
    BY <1>8, <2>1, <2>2, <2>3, AddsUnique
  <2> QED  BY <1>7, <2>3, <2>4
<1>10. Sound(bf, e, m - k)
  BY <1>3, <1>7, <1>8 DEF Sound
<1>11. \A x \in ToSet(e) : bf2[x] = bf[x]
  BY <1>3, <1>4, <1>6, <1>7, MembersIn
<1> QED  BY <1>4, <1>8, <1>9, <1>10, <1>11, SoundStays

LEMMA PullTurnStage ==
  ASSUME NEW order \in Seq(Buffers), NoDuplicates(order), NEW bf, NEW total \in Nat,
         NEW size \in Nat, size <= total, NEW i \in Nat, i < Len(order), NEW s, NEW g,
         PullStage(s, g, order, bf, total, size, i), NEW from_tail \in BOOLEAN,
         NEW packed \in BOOLEAN, NEW new, new = PullTurn(s, order[i + 1], from_tail, packed)
  PROVE  \E h : PullStage(new, h, order, bf, total, size, i + 1)
<1>0. /\ s \in PullStates /\ g \in 0 .. i
      /\ s.emptied = Upto(order, g)
      /\ s.n <= size /\ (s.n > 0 => g = i)
      /\ Sound(s.buf, Behind(order, g), total - size + s.n)
      /\ \A b \in Buffers : b \notin ToSet(order) => s.buf[b] = bf[b]
  BY DEF PullStage
<1>1. s.n \in Nat /\ s.buf \in BufferSet /\ Fitting(s.buf)
  BY <1>0 DEF PullStates
<1>2. CASE s.n = 0
  <2>1. new = s
    BY <1>2 DEF PullTurn
  <2>2. g \in 0 .. i + 1 /\ ~(s.n > 0)
    BY <1>0, <1>1, <1>2
  <2>3. PullStage(new, g, order, bf, total, size, i + 1)
    BY <1>0, <2>1, <2>2 DEF PullStage
  <2> QED  BY <2>3
<1>3. CASE s.n # 0
  <2>1. g = i /\ new = PullPiece(s, order[i + 1], from_tail, packed)
    BY <1>0, <1>1, <1>3 DEF PullTurn
  <2>2. PICK b \in Buffers : b = order[i + 1]
    OBVIOUS
  <2>3. b \in ToSet(order)
    BY <2>2 DEF ToSet
  <2>4. PullEffect(s, b, new)
    BY <1>0, <2>1, <2>2, PullPieceEffect
  <2>5. PICK d : d = Behind(order, i)
    OBVIOUS
  <2>6. PICK e : e = Behind(order, i + 1)
    OBVIOUS
  <2>7. PICK c : c = Upto(order, i)
    OBVIOUS
  <2>8. PICK f : f = Upto(order, i + 1)
    OBVIOUS
  <2>9. /\ d \in Seq(Buffers) /\ d # <<>> /\ d[1] = b
        /\ e \in Seq(Buffers) /\ e = Behind(d, 1) /\ f = Append(c, b)
    BY <2>2, <2>5, <2>6, <2>7, <2>8, DropOne
  <2>10. PICK m : m = total - size + s.n
    OBVIOUS
  <2>11. m \in Nat /\ Sound(s.buf, d, m) /\ s.emptied = c
    BY <1>0, <1>1, <2>1, <2>5, <2>7, <2>10
  <2>12. PICK len : len = Len(s.buf[b].data)
    OBVIOUS
  <2>13. len \in Nat
    BY <1>1, <2>12 DEF BufferSet
  <2>14. /\ new \in PullStates /\ Fitting(new.buf)
         /\ \A x \in Buffers : x # b => new.buf[x] = s.buf[x]
    BY <2>4 DEF PullEffect, PullStates
  <2>15. \A x \in Buffers : x \notin ToSet(order) => new.buf[x] = bf[x]
    BY <1>0, <2>3, <2>14
  <2>16. CASE s.n >= len
    <3>1. new.n = s.n - len /\ new.emptied = f
      BY <2>4, <2>9, <2>11, <2>12, <2>16 DEF PullEffect
    <3>2. Sound(new.buf, e, m - len) /\ len <= m
      BY <1>1, <2>9, <2>11, <2>12, <2>14, OthersSound
    <3>3. m - len = total - size + new.n /\ new.n <= size /\ i + 1 \in 0 .. i + 1
      <4>1. m - len = total - size + new.n
        BY <1>1, <2>10, <2>13, <2>16, <3>1
      <4>2. new.n <= size
        BY <1>0, <1>1, <2>13, <2>16, <3>1
      <4> QED  BY <4>1, <4>2
    <3>4. Sound(new.buf, e, total - size + new.n)
      BY <3>2, <3>3
    <3>5. PullStage(new, i + 1, order, bf, total, size, i + 1)
      BY <2>6, <2>8, <2>14, <2>15, <3>1, <3>3, <3>4 DEF PullStage
    <3> QED  BY <3>5
  <2>17. CASE ~(s.n >= len)
    <3>1. /\ new.n = 0 /\ new.emptied = c
          /\ Len(new.buf[b].data) = Len(s.buf[b].data) - s.n
      BY <2>4, <2>11, <2>12, <2>17 DEF PullEffect
    <3>2. s.n < Len(s.buf[b].data)
      BY <1>1, <2>12, <2>13, <2>17
    <3>3. Sound(new.buf, d, m - s.n)
      BY <1>1, <2>9, <2>11, <2>14, <3>1, <3>2, FirstShrinks
    <3>4. m - s.n = total - size + new.n /\ new.n <= size /\ i \in 0 .. i + 1 /\ ~(new.n > 0)
      BY <1>0, <1>1, <2>10, <3>1
    <3>5. Sound(new.buf, d, total - size + new.n)
      BY <3>3, <3>4
    <3>6. PullStage(new, i, order, bf, total, size, i + 1)
      BY <2>5, <2>7, <2>14, <2>15, <3>1, <3>4, <3>5 DEF PullStage
    <3> QED  BY <3>6
  <2> QED  BY <2>16, <2>17
<1> QED  BY <1>2, <1>3

(* All that is asked for is pulled, from the first buffers of the order.   *)
PullStart(size, bf) == [n |-> size, out |-> <<>>, buf |-> bf, emptied |-> <<>>]
PullEnds(s, order, bf, left) ==
  \E g \in 0 .. Len(order) :
    /\ s.emptied = Upto(order, g) /\ Fitting(s.buf)
    /\ Sound(s.buf, Behind(order, g), left)
    /\ \A b \in Buffers : b \notin ToSet(order) => s.buf[b] = bf[b]

LEMMA PullAllGood ==
  ASSUME NEW bf, Fitting(bf), NEW order \in Seq(Buffers), NEW total, Sound(bf, order, total),
         NEW size \in Nat, size <= total, NEW from_tail \in BOOLEAN, NEW packed \in BOOLEAN,
         NEW st, st = PullStart(size, bf), NEW new, new = PullAll(st, order, from_tail, packed)
  PROVE  PullEnds(new, order, bf, total - size)
<1>0. NoDuplicates(order) /\ Len(order) \in Nat /\ total \in Nat
  <2>1. Sizes(bf) \in [Buffers -> Nat]
    BY SizesType DEF Fitting
  <2> QED  BY <2>1, AddsNat DEF Sound
<1>1. st \in PullStates
  <2>1. <<>> \in Seq(1 .. MaxField) /\ <<>> \in Seq(Buffers)
    OBVIOUS
  <2> QED  BY <2>1 DEF PullStates, Fitting, PullStart
<1>2. \A s \in PullStates, b \in Buffers : PullTurn(s, b, from_tail, packed) \in PullStates
  <2> TAKE s \in PullStates, b \in Buffers
  <2>1. PullPiece(s, b, from_tail, packed) \in PullStates
    BY PullPieceEffect DEF PullEffect
  <2> QED  BY <2>1 DEF PullTurn
<1>3. PICK stage \in [0 .. Len(order) -> PullStates] :
        /\ stage[0] = st /\ stage[Len(order)] = new
        /\ \A i \in 1 .. Len(order) :
             stage[i] = PullTurn(stage[i - 1], order[i], from_tail, packed)
  BY <1>1, <1>2, PullAllStages
<1>4. PICK S : S = {i \in Nat : i <= Len(order) =>
                      \E g : PullStage(stage[i], g, order, bf, total, size, i)}
  OBVIOUS
<1>5. 0 \in S
  <2>1. PICK c : c = Upto(order, 0)
    OBVIOUS
  <2>2. PICK d : d = Behind(order, 0)
    OBVIOUS
  <2>3. c = <<>> /\ d = order
    <3>1. AreParts(Buffers, order, Len(order), 0, c, d)
      BY <1>0, <2>1, <2>2, CutMembers
    <3>2. /\ c \in Seq(Buffers) /\ Len(c) = 0
          /\ d \in Seq(Buffers) /\ Len(d) = Len(order)
          /\ \A j \in 1 .. Len(order) : d[j] = order[j]
      BY <1>0, <3>1 DEF AreParts
    <3>3. d = order
      BY <1>0, <3>2, SeqEqual
    <3> QED  BY <3>2, <3>3
  <2>4. st.emptied = <<>> /\ st.n = size /\ st.buf = bf
    BY DEF PullStart
  <2>5. total - size + st.n = total
    BY <1>0, <2>4
  <2>6. PullStage(st, 0, order, bf, total, size, 0)
    BY <1>1, <2>1, <2>2, <2>3, <2>4, <2>5 DEF PullStage
  <2> QED  BY <1>3, <1>4, <2>6
<1>6. \A i \in Nat : i \in S => i + 1 \in S
  <2> TAKE i \in Nat
  <2> HAVE i \in S
  <2>1. CASE i + 1 <= Len(order)
    <3>1. i < Len(order) /\ i + 1 \in 1 .. Len(order) /\ (i + 1) - 1 = i
      BY <1>0, <2>1
    <3>2. PICK g : PullStage(stage[i], g, order, bf, total, size, i)
      BY <1>0, <1>4, <3>1
    <3>3. stage[i + 1] = PullTurn(stage[i], order[i + 1], from_tail, packed)
      BY <1>3, <3>1
    <3>4. \E h : PullStage(stage[i + 1], h, order, bf, total, size, i + 1)
      BY <1>0, <3>1, <3>2, <3>3, PullTurnStage
    <3> QED  BY <1>4, <3>4
  <2>2. CASE ~(i + 1 <= Len(order))
    BY <1>4, <2>2
  <2> QED  BY <2>1, <2>2
<1>7. PICK g : PullStage(new, g, order, bf, total, size, Len(order))
  <2>1. Len(order) \in S
    BY <1>0, <1>5, <1>6, SetInduction
  <2> QED  BY <1>0, <1>3, <1>4, <2>1
<1>8. /\ new \in PullStates /\ g \in 0 .. Len(order)
      /\ new.emptied = Upto(order, g)
      /\ new.n <= size /\ (new.n > 0 => g = Len(order))
      /\ Sound(new.buf, Behind(order, g), total - size + new.n)
      /\ \A b \in Buffers : b \notin ToSet(order) => new.buf[b] = bf[b]
  BY <1>7 DEF PullStage
<1>9. new.n = 0
  <2>1. SUFFICES ASSUME new.n # 0 PROVE FALSE
    OBVIOUS
  <2>2. new.n \in Nat /\ g = Len(order) /\ total - size + new.n # 0
    BY <1>0, <1>8, <2>1 DEF PullStates
  <2>3. PICK c : c = Upto(order, g)
    OBVIOUS
  <2>4. PICK d : d = Behind(order, g)
    OBVIOUS
  <2>5. d = <<>>
    <3>1. AreParts(Buffers, order, Len(order), g, c, d)
      BY <1>8, <2>3, <2>4, CutMembers
    <3>2. d \in Seq(Buffers) /\ Len(d) = 0
      BY <1>0, <2>2, <3>1 DEF AreParts
    <3> QED  BY <3>2
  <2>6. Adds(Sizes(new.buf), <<>>, total - size + new.n)
    BY <1>8, <2>4, <2>5 DEF Sound
  <2> QED  BY <2>2, <2>6, AddsEmpty
<1>10. total - size + new.n = total - size /\ Fitting(new.buf)
  BY <1>0, <1>8, <1>9 DEF PullStates
<1> QED  BY <1>8, <1>10 DEF PullEnds

LEMMA ReverseValues ==
  ASSUME NEW S, NEW list \in Seq(S), NEW r, r = Reverse(list)
  PROVE  /\ Len(list) \in Nat /\ r \in Seq(S) /\ Len(r) = Len(list)
         /\ \A i \in 1 .. Len(list) : r[i] = list[Len(list) - i + 1]
BY DEF Reverse

(* The buffers that a pull from the tail leaves are the first of the list. *)
LEMMA ReversedRest ==
  ASSUME NEW S, NEW list \in Seq(S), NEW r, r = Reverse(list), NEW g \in 0 .. Len(list),
         NEW d, d = Behind(r, g), NEW k, k = Len(list) - g
  PROVE  First(list, k) = Reverse(d)
<1>1. Len(list) \in Nat /\ r \in Seq(S) /\ Len(r) = Len(list)
      /\ \A i \in 1 .. Len(list) : r[i] = list[Len(list) - i + 1]
  BY ReverseValues
<1>2. k \in 0 .. Len(list) /\ g \in 0 .. Len(r)
  BY <1>1
<1>3. PICK c : c = Upto(r, g)
  OBVIOUS
<1>4. AreParts(S, r, Len(r), g, c, d)
  BY <1>1, <1>2, <1>3, CutMembers
<1>5. d \in Seq(S) /\ Len(d) = k /\ \A j \in 1 .. k : d[j] = r[g + j]
  BY <1>1, <1>4 DEF AreParts
<1>6. PICK e : e = First(list, k)
  OBVIOUS
<1>7. PICK f : f = Behind(list, k)
  OBVIOUS
<1>8. e \in Seq(S) /\ Len(e) = k /\ \A j \in 1 .. k : e[j] = list[j]
  <2>1. e = Upto(list, k)
    BY <1>6 DEF First, Upto
  <2>2. AreParts(S, list, Len(list), k, e, f)
    BY <1>1, <1>2, <1>7, <2>1, CutMembers
  <2> QED  BY <1>1, <2>2 DEF AreParts
<1>9. PICK v : v = Reverse(d)
  OBVIOUS
<1>10. v \in Seq(S) /\ Len(v) = k /\ \A i \in 1 .. k : v[i] = d[k - i + 1]
  <2>1. d \in Seq(S)
    BY <1>5
  <2>2. v \in Seq(S) /\ Len(v) = Len(d) /\ \A i \in 1 .. Len(d) : v[i] = d[Len(d) - i + 1]
    BY ONLY <1>9, <2>1, ReverseValues
  <2> QED  BY <1>5, <2>2
<1>11. \A i \in 1 .. k : v[i] = e[i]
  <2> TAKE i \in 1 .. k
  <2>1. /\ k - i + 1 \in 1 .. k /\ g + (k - i + 1) \in 1 .. Len(list)
        /\ Len(list) - (g + (k - i + 1)) + 1 = i
    BY <1>1, <1>2
  <2>2. v[i] = d[k - i + 1] /\ d[k - i + 1] = r[g + (k - i + 1)]
    BY <1>5, <1>10, <2>1
  <2>3. r[g + (k - i + 1)] = list[i]
    BY <1>1, <2>1
  <2> QED  BY <1>8, <2>2, <2>3
<1>12. v = e
  BY <1>2, <1>8, <1>10, <1>11, SeqEqual
<1> QED  BY <1>6, <1>9, <1>12

LEMMA ReverseSound ==
  ASSUME NEW bf, Fitting(bf), NEW c \in Seq(Buffers), NEW n, Sound(bf, c, n),
         NEW r, r = Reverse(c)
  PROVE  r \in Seq(Buffers) /\ ToSet(r) = ToSet(c) /\ Sound(bf, r, n)
<1>1. Sizes(bf) \in [Buffers -> Nat]
  BY SizesType DEF Fitting
<1>2. r \in Seq(Buffers) /\ ToSet(r) = ToSet(c) /\ NoDuplicates(r)
  BY ReverseMembers DEF Sound
<1>3. Adds(Sizes(bf), r, n)
  BY <1>1, AddsReverse DEF Sound
<1> QED  BY <1>2, <1>3 DEF Sound

(* What fs_buffer_list_pull frees and keeps.                               *)
Kept(l, st, from_tail) ==
  IF from_tail THEN First(chain[l], Len(chain[l]) - Len(st.emptied))
  ELSE Drop(chain[l], Len(st.emptied))

PullLeaves(l, bf, emptied, kept, left) ==
  /\ Fitting(bf) /\ emptied \in Seq(Buffers) /\ kept \in Seq(Buffers)
  /\ NoDuplicates(emptied) /\ Disjoint(emptied, kept)
  /\ ToSet(emptied) \cup ToSet(kept) = ToSet(chain[l])
  /\ Sound(bf, kept, left)
  /\ \A b \in Buffers : b \notin ToSet(chain[l]) => bf[b] = buf[b]

LEMMA PulledGood ==
  ASSUME FsInvariant, NEW l \in held, NEW n \in Nat, n <= total_length[l],
         NEW from_tail \in BOOLEAN, NEW st, st = Pulled(l, n, from_tail, FALSE),
         NEW kept, kept = Kept(l, st, from_tail)
  PROVE  PullLeaves(l, st.buf, st.emptied, kept, total_length[l] - n)
<1>1. PICK c : c = chain[l]
  OBVIOUS
<1>2. PICK order : order = IF from_tail THEN Reverse(c) ELSE c
  OBVIOUS
<1>3. PICK total : total = total_length[l]
  OBVIOUS
<1>4. /\ c \in Seq(Buffers) /\ total \in Nat /\ Fitting(buf) /\ Sound(buf, c, total) /\ n <= total
      /\ Len(c) \in Nat
  <2>1. l \in Lists
    BY DEF FsInvariant, BufferTypeOK
  <2> QED  BY <1>1, <1>3, <2>1 DEF FsInvariant, Once
<1>5. /\ order \in Seq(Buffers) /\ ToSet(order) = ToSet(c) /\ Sound(buf, order, total)
      /\ Len(order) = Len(c)
  <2>1. CASE from_tail
    <3>1. order = Reverse(c)
      BY <1>2, <2>1
    <3>2. Len(order) = Len(c)
      BY <1>4, <3>1 DEF Reverse
    <3> QED  BY <1>4, <3>1, <3>2, ReverseSound
  <2>2. CASE ~from_tail
    BY <1>2, <1>4, <2>2
  <2> QED  BY <2>1, <2>2
<1>6. PICK start : start = PullStart(n, buf)
  OBVIOUS
<1>7. st = PullAll(start, order, from_tail, FALSE)
  BY <1>1, <1>2, <1>6 DEF Pulled, PullStart
<1>8. PICK g \in 0 .. Len(order) :
        /\ st.emptied = Upto(order, g) /\ Fitting(st.buf)
        /\ Sound(st.buf, Behind(order, g), total - n)
        /\ \A b \in Buffers : b \notin ToSet(order) => st.buf[b] = buf[b]
  <2>1. FALSE \in BOOLEAN
    OBVIOUS
  <2>2. PullEnds(st, order, buf, total - n)
    BY <1>4, <1>5, <1>6, <1>7, <2>1, PullAllGood
  <2> QED  BY <2>2 DEF PullEnds
<1>9. PICK emptied : emptied = st.emptied
  OBVIOUS
<1>10. PICK rest : rest = Behind(order, g)
  OBVIOUS
<1>11. /\ AreParts(Buffers, order, Len(order), g, emptied, rest)
       /\ ToSet(order) = ToSet(emptied) \cup ToSet(rest)
       /\ NoDuplicates(emptied) /\ NoDuplicates(rest) /\ ToSet(emptied) \cap ToSet(rest) = {}
  <2>1. NoDuplicates(order)
    BY <1>5 DEF Sound
  <2> QED  BY <1>5, <1>8, <1>9, <1>10, <2>1, CutMembers
<1>12. emptied \in Seq(Buffers) /\ Len(emptied) = g /\ rest \in Seq(Buffers)
  BY <1>11 DEF AreParts
<1>13. kept \in Seq(Buffers) /\ ToSet(kept) = ToSet(rest) /\ Sound(st.buf, kept, total - n)
  <2>1. CASE from_tail
    <3>1. PICK k : k = Len(c) - g
      OBVIOUS
    <3>2. kept = First(c, k)
      BY <1>1, <1>9, <1>12, <2>1, <3>1 DEF Kept
    <3>3. order = Reverse(c) /\ g \in 0 .. Len(c)
      BY <1>2, <1>5, <2>1
    <3>4. First(c, k) = Reverse(rest)
      BY <1>4, <1>10, <3>1, <3>3, ReversedRest
    <3>5. kept = Reverse(rest)
      BY <3>2, <3>4
    <3>6. PICK bf : bf = st.buf
      OBVIOUS
    <3>7. PICK m : m = total - n
      OBVIOUS
    <3>8. Fitting(bf) /\ Sound(bf, rest, m)
      BY <1>8, <1>10, <3>6, <3>7
    <3>9. kept \in Seq(Buffers) /\ ToSet(kept) = ToSet(rest) /\ Sound(bf, kept, m)
      BY <1>12, <3>5, <3>8, ReverseSound
    <3> QED  BY <3>6, <3>7, <3>9
  <2>2. CASE ~from_tail
    <3>1. kept = rest
      BY <1>1, <1>2, <1>9, <1>10, <1>12, <2>2 DEF Drop, Behind, Kept
    <3> QED  BY <1>8, <1>10, <1>12, <3>1
  <2> QED  BY <2>1, <2>2
<1> QED  BY <1>1, <1>3, <1>5, <1>8, <1>9, <1>11, <1>12, <1>13 DEF Disjoint, PullLeaves

LEMMA PullStep ==
  ASSUME FsInvariant, NEW l \in held, NEW n \in 1 .. total_length[l], NEW from_tail \in BOOLEAN,
         fs_buffer_list_pull(l, n, from_tail)
  PROVE  FsInvariant'
<1>1. PICK st : st = Pulled(l, n, from_tail, FALSE)
  OBVIOUS
<1>2. PICK emptied : emptied = st.emptied
  OBVIOUS
<1>3. PICK kept : kept = Kept(l, st, from_tail)
  OBVIOUS
<1>4. /\ buf' = [b \in Buffers |-> IF b \in ToSet(emptied) THEN Fresh ELSE st.buf[b]]
      /\ chain' = [chain EXCEPT ![l] = kept]
      /\ tail' = [tail EXCEPT ![l] =
                    IF kept = <<>> THEN NULL ELSE IF from_tail THEN Last(kept) ELSE @]
      /\ total_length' = [total_length EXCEPT ![l] = @ - n]
      /\ FreeBuffers(emptied)
      /\ UNCHANGED <<free_lists, rx_lists, held, halted>>
  BY <1>1, <1>2, <1>3 DEF fs_buffer_list_pull, Kept
<1>5. /\ l \in Lists /\ total_length \in [Lists -> Nat] /\ total_length[l] \in Nat
      /\ waiting \in [Tasks -> Requests] /\ free_buffers \in Seq(Buffers)
      /\ tail \in [Lists -> Buffers \cup {NULL}] /\ chain \in [Lists -> Seq(Buffers)]
      /\ flags \subseteq {"FS_SPACE_AVAILABLE", "FS_DATA_AVAILABLE"} /\ halted \in BOOLEAN
      /\ ListsOnce(free_lists, rx_lists, held, waiting, chain)
      /\ FlagsExact
  BY DEF FsInvariant, BufferTypeOK
<1>6. n \in Nat /\ n <= total_length[l] /\ total_length[l] - n \in Nat
  BY <1>5
<1>7. /\ Fitting(st.buf) /\ emptied \in Seq(Buffers) /\ kept \in Seq(Buffers)
      /\ NoDuplicates(emptied) /\ Disjoint(emptied, kept)
      /\ ToSet(emptied) \cup ToSet(kept) = ToSet(chain[l])
      /\ Sound(st.buf, kept, total_length[l] - n)
      /\ \A b \in Buffers : b \notin ToSet(chain[l]) => st.buf[b] = buf[b]
  <2>1. PullLeaves(l, st.buf, st.emptied, kept, total_length[l] - n)
    BY <1>1, <1>3, <1>6, PulledGood
  <2> QED  BY <1>2, <2>1 DEF PullLeaves
<1>8. /\ free_buffers' = free_buffers \o emptied
      /\ emptied = <<>> => UNCHANGED <<flags, waiting>>
      /\ emptied # <<>> =>
           /\ flags' = flags \cup {"FS_SPACE_AVAILABLE"}
           /\ waiting' = fs_buffer_do_resume(waiting, Len(free_buffers'))
  BY <1>4 DEF FreeBuffers
<1>9. /\ Once(buf, chain, total_length, free_buffers)'
      /\ OthersStay({l}, buf, chain, total_length, buf', chain', total_length')
      /\ free_buffers = <<>> /\ emptied = <<>> <=> free_buffers' = <<>>
      /\ chain'[l] = kept /\ \A m \in Lists : m # l => chain'[m] = chain[m]
  <2>1. total_length' = [total_length EXCEPT ![l] = total_length[l] - n]
    BY <1>4
  <2>2. Released(l, st.buf, emptied, kept, total_length[l] - n)
    BY <1>4, <1>6, <1>7, <1>8, <2>1 DEF Released
  <2> QED  BY <2>2, ReleasedGood
<1>10. /\ waiting' \in [Tasks -> Requests]
       /\ \A t \in Tasks : SameRequest(waiting'[t], waiting[t])
       /\ \A t \in Tasks :
            waiting[t] # Idle /\ (waiting[t].resumed
              \/ (emptied # <<>> /\ waiting[t].need <= Len(free_buffers'))) => waiting'[t].resumed
  <2>1. CASE emptied = <<>>
    BY <1>5, <1>8, <2>1, RequestItself
  <2>2. CASE emptied # <<>>
    BY <1>5, <1>8, <2>2, DoResume
  <2> QED  BY <2>1, <2>2
<1>11. \A t \in Tasks : NotStarved(waiting'[t], Len(free_buffers'), Len(free_lists'))
  <2> TAKE t \in Tasks
  <2>1. waiting[t] \in Requests /\ NotStarved(waiting[t], Len(free_buffers), Len(free_lists))
    BY <1>5 DEF FsInvariant
  <2>2. CASE waiting[t] = Idle
    BY <1>10, <2>2 DEF SameRequest, NotStarved
  <2>3. CASE waiting[t] # Idle
    <3>1. /\ waiting'[t].need = waiting[t].need /\ waiting'[t].type = waiting[t].type
          /\ free_lists' = free_lists
      BY <1>4, <1>10, <2>3 DEF SameRequest
    <3>2. CASE emptied = <<>>
      <4>1. free_buffers' = free_buffers
        BY <1>5, <1>8, <3>2
      <4> QED  BY <1>10, <2>1, <2>3, <3>1, <4>1 DEF NotStarved
    <3>3. CASE emptied # <<>>
      BY <1>10, <2>1, <2>3, <3>1, <3>3 DEF NotStarved
    <3> QED  BY <3>2, <3>3
  <2> QED  BY <2>2, <2>3
<1>12. ListsOnce(free_lists, rx_lists, held, waiting, chain)'
  <2>1. KeepsSame(waiting, waiting')
    BY <1>10, SameKeeps
  <2>2. \A m \in ToSet(free_lists) : chain'[m] = chain[m]
    <3>1. ToSet(free_lists) \subseteq Lists /\ l \notin ToSet(free_lists)
      BY <1>5, MembersIn DEF ListsOnce
    <3> QED  BY <1>9, <3>1
  <2>3. ListsOnce(free_lists, rx_lists, held, waiting', chain')
    BY <1>5, <2>1, <2>2, ListsStay
  <2> QED  BY <1>4, <2>3
<1>13. FlagsExact'
  <2>1. rx_lists' = rx_lists
    BY <1>4
  <2> QED  BY <1>5, <1>8, <1>9, <2>1 DEF FlagsExact
<1>14. RestTyped'
  <2>1. flags' \subseteq {"FS_SPACE_AVAILABLE", "FS_DATA_AVAILABLE"}
    BY <1>5, <1>8
  <2>2. tail' \in [Lists -> Buffers \cup {NULL}]
    <3>1. PICK last : last = IF kept = <<>> THEN NULL ELSE IF from_tail THEN Last(kept) ELSE tail[l]
      OBVIOUS
    <3>2. kept # <<>> => Last(kept) \in Buffers
      BY <1>7, HeadLastMembers, MembersIn
    <3>3. last \in Buffers \cup {NULL} /\ tail' = [tail EXCEPT ![l] = last]
      BY <1>4, <1>5, <3>1, <3>2
    <3> QED  BY <1>5, <3>3
  <2>3. halted' = halted
    BY <1>4
  <2> QED  BY <1>5, <2>1, <2>2, <2>3 DEF RestTyped
<1> QED
  <2>1. {l} \subseteq held
    OBVIOUS
  <2> QED  BY <1>9, <1>10, <1>11, <1>12, <1>13, <1>14, <2>1, ResumeStep

----------------------------------------------------------------------------
(* fs_buffer_list_divide.                                                  *)

LEMMA LengthAdds ==
  ASSUME buf \in BufferSet, NEW list \in Seq(Buffers), NEW n, n = LengthOf(list)
  PROVE  Adds(Sizes(buf), list, n)
<1>1. \A k \in Nat, b \in Buffers : LengthTurn(k, b) \in Nat
  BY DEF LengthTurn, BufferSet
<1>2. PICK stage \in [0 .. Len(list) -> Nat] :
        /\ stage[0] = 0 /\ stage[Len(list)] = LengthOf(list)
        /\ \A i \in 1 .. Len(list) : stage[i] = LengthTurn(stage[i - 1], list[i])
  <2>1. PICK T : T = Nat
    OBVIOUS
  <2>2. 0 \in T /\ \A k \in T, b \in Buffers : LengthTurn(k, b) \in T
    BY <1>1, <2>1
  <2>3. \E stage \in [0 .. Len(list) -> T] :
          /\ stage[0] = 0 /\ stage[Len(list)] = LengthOf(list)
          /\ \A i \in 1 .. Len(list) : stage[i] = LengthTurn(stage[i - 1], list[i])
    BY <2>2, LengthStages
  <2> QED  BY <2>1, <2>3
<1>3. \A i \in 1 .. Len(list) : stage[i] = stage[i - 1] + Sizes(buf)[list[i]]
  <2> TAKE i \in 1 .. Len(list)
  <2>1. list[i] \in Buffers
    OBVIOUS
  <2>2. Sizes(buf)[list[i]] = Len(buf[list[i]].data)
    BY <2>1, SizesType
  <2> QED  BY <1>2, <2>2 DEF LengthTurn
<1>4. stage \in [0 .. Len(list) -> Int]
  BY <1>2
<1>5. IsSum(stage, Sizes(buf), list, Len(list), n)
  BY <1>2, <1>3, <1>4 DEF IsSum
<1> QED  BY <1>5 DEF Adds

(* Where the list is cut: this is the number of bytes that buffer i keeps. *)
CutAt(l, n, i, total) ==
  /\ i \in 1 .. Len(chain[l])
  /\ Ends(l, i) \in Nat /\ Ends(l, i - 1) \in Nat
  /\ Ends(l, i) >= n /\ Ends(l, i - 1) < n /\ Ends(l, i) <= total
  /\ Ends(l, i) = Ends(l, i - 1) + Len(buf[chain[l][i]].data)
  /\ Adds(Sizes(buf), First(chain[l], i), Ends(l, i))
  /\ Adds(Sizes(buf), Drop(chain[l], i), total - Ends(l, i))

LEMMA EndsAdds ==
  ASSUME buf \in BufferSet, NEW l, chain[l] \in Seq(Buffers), NEW i \in 0 .. Len(chain[l])
  PROVE  Adds(Sizes(buf), First(chain[l], i), Ends(l, i)) /\ Ends(l, i) \in Nat
<1>1. PICK c : c = First(chain[l], i)
  OBVIOUS
<1>2. PICK d : d = Drop(chain[l], i)
  OBVIOUS
<1>3. c \in Seq(Buffers)
  BY <1>1, <1>2, PartLength
<1>4. Adds(Sizes(buf), c, Ends(l, i))
  BY <1>1, <1>3, LengthAdds DEF Ends
<1>5. Sizes(buf) \in [Buffers -> Nat]
  BY SizesType
<1> QED  BY <1>1, <1>3, <1>4, <1>5, AddsNat

(* Buffer i adds its bytes.                                                *)
LEMMA EndsGrow ==
  ASSUME buf \in BufferSet, NEW l, chain[l] \in Seq(Buffers), NEW i \in 1 .. Len(chain[l])
  PROVE  Ends(l, i) = Ends(l, i - 1) + Len(buf[chain[l][i]].data)
<1>1. PICK k \in Nat : k = i - 1
  OBVIOUS
<1>2. k < Len(chain[l]) /\ k + 1 = i /\ k \in 0 .. Len(chain[l]) /\ i \in 0 .. Len(chain[l])
  BY <1>1
<1>3. PICK list : list = chain[l]
  OBVIOUS
<1>4. PICK b \in Buffers : b = list[k + 1]
  BY <1>2, <1>3
<1>5. PICK c : c = Upto(list, k)
  OBVIOUS
<1>6. PICK f : f = Upto(list, k + 1)
  OBVIOUS
<1>7. PICK d : d = Behind(list, k)
  OBVIOUS
<1>8. PICK e : e = Behind(list, k + 1)
  OBVIOUS
<1>9. f = Append(c, b)
  BY <1>2, <1>3, <1>4, <1>5, <1>6, <1>7, <1>8, DropOne
<1>10. c = First(chain[l], k) /\ f = First(chain[l], i)
  BY <1>2, <1>3, <1>5, <1>6 DEF First, Upto
<1>11. /\ Adds(Sizes(buf), c, Ends(l, k)) /\ Ends(l, k) \in Nat
       /\ Adds(Sizes(buf), f, Ends(l, i)) /\ Ends(l, i) \in Nat
  BY <1>2, <1>10, EndsAdds
<1>12. c \in Seq(Buffers) /\ f \in Seq(Buffers) /\ Len(f) \in Nat
  <2>1. AreParts(Buffers, list, Len(list), k, c, d)
    BY <1>2, <1>3, <1>5, <1>7, CutMembers
  <2>2. c \in Seq(Buffers)
    BY <2>1 DEF AreParts
  <2> QED  BY <1>9, <2>2
<1>13. /\ Sizes(buf) \in [Buffers -> Nat] /\ Sizes(buf)[b] = Len(buf[b].data)
  BY SizesType
<1>14. PICK w : w = Sizes(buf)
  OBVIOUS
<1>15. f = IF FALSE THEN sll_push(c, b) ELSE sll_append(c, b)
  BY <1>9 DEF sll_append
<1>16. Adds(w, f, Ends(l, k) + w[b])
  BY <1>11, <1>12, <1>13, <1>14, <1>15, AddsOneMore
<1>17. PICK m : m = Ends(l, k) + w[b]
  OBVIOUS
<1>18. Ends(l, i) = m
  BY <1>11, <1>12, <1>14, <1>16, <1>17, AddsUnique
<1> QED  BY <1>1, <1>2, <1>3, <1>4, <1>13, <1>14, <1>17, <1>18

LEMMA CutExists ==
  ASSUME FsInvariant, NEW l \in held, NEW n \in Nat \ {0}, n < total_length[l],
         NEW i, i = CHOOSE j \in 1 .. Len(chain[l]) :
                      Ends(l, j) >= n /\ \A k \in 1 .. j - 1 : Ends(l, k) < n
  PROVE  CutAt(l, n, i, total_length[l])
<1>1. /\ chain[l] \in Seq(Buffers) /\ total_length[l] \in Nat /\ buf \in BufferSet
      /\ Sound(buf, chain[l], total_length[l]) /\ Len(chain[l]) \in Nat
  BY DEF FsInvariant, BufferTypeOK, Once, Fitting
<1>2. Sizes(buf) \in [Buffers -> Nat]
  BY <1>1, SizesType
<1>3. Ends(l, 0) = 0
  <2>1. First(chain[l], 0) = <<>>
    BY <1>1 DEF First
  <2>2. Adds(Sizes(buf), <<>>, Ends(l, 0))
    <3>1. 0 \in 0 .. Len(chain[l])
      BY <1>1
    <3> QED  BY <1>1, <2>1, <3>1, EndsAdds
  <2> QED  BY <2>2, AddsEmpty
<1>4. Ends(l, Len(chain[l])) = total_length[l]
  <2>1. Len(chain[l]) \in 0 .. Len(chain[l])
    BY <1>1
  <2>2. First(chain[l], Len(chain[l])) = chain[l]
    BY <1>1 DEF First
  <2>3. Adds(Sizes(buf), chain[l], Ends(l, Len(chain[l])))
    BY <1>1, <2>1, <2>2, EndsAdds
  <2> QED  BY <1>1, <2>3, AddsUnique DEF Sound
<1>5. PICK D : D = {j \in 1 .. Len(chain[l]) : Ends(l, j) >= n}
  OBVIOUS
<1>6. D \subseteq Nat /\ D # {}
  <2>1. chain[l] # <<>>
    <3>1. chain[l] = <<>> => total_length[l] = 0
      BY <1>1, AddsEmpty DEF Sound
    <3> QED  BY <1>1, <3>1
  <2>2. Len(chain[l]) \in 1 .. Len(chain[l])
    BY <1>1, <2>1
  <2>3. Len(chain[l]) \in D
    BY <1>1, <1>4, <1>5, <2>2
  <2> QED  BY <1>5, <2>3
<1>7. PICK j \in D : \A k \in D : j <= k
  BY <1>6, LeastElement
<1>8. /\ j \in 1 .. Len(chain[l])
      /\ Ends(l, j) >= n /\ \A k \in 1 .. j - 1 : Ends(l, k) < n
  <2>1. j \in 1 .. Len(chain[l]) /\ Ends(l, j) >= n
    BY <1>5, <1>7
  <2>2. ASSUME NEW k \in 1 .. j - 1
        PROVE  Ends(l, k) < n
    <3>1. k \in 1 .. Len(chain[l]) /\ ~(j <= k) /\ k \in 0 .. Len(chain[l])
      BY <1>1, <2>1
    <3>2. ~(Ends(l, k) >= n)
      BY <1>5, <1>7, <3>1
    <3>3. Ends(l, k) \in Nat
      BY <1>1, <3>1, EndsAdds
    <3> QED  BY <3>2, <3>3
  <2> QED  BY <2>1, <2>2
<1>9. /\ i \in 1 .. Len(chain[l])
      /\ Ends(l, i) >= n /\ \A k \in 1 .. i - 1 : Ends(l, k) < n
  BY <1>8
<1>10. i \in 0 .. Len(chain[l]) /\ i - 1 \in 0 .. Len(chain[l])
  BY <1>1, <1>9
<1>11. Ends(l, i - 1) < n
  <2>1. CASE i = 1
    <3>1. i - 1 = 0 /\ 0 < n
      BY <2>1
    <3> QED  BY <1>3, <3>1
  <2>2. CASE i # 1
    <3>1. i - 1 \in 1 .. i - 1
      BY <1>1, <1>9, <2>2
    <3> QED  BY <1>9, <3>1
  <2> QED  BY <2>1, <2>2
<1>12. /\ Ends(l, i) \in Nat /\ Ends(l, i - 1) \in Nat
       /\ Adds(Sizes(buf), First(chain[l], i), Ends(l, i))
  BY <1>1, <1>10, EndsAdds
<1>13. Ends(l, i) = Ends(l, i - 1) + Len(buf[chain[l][i]].data)
  BY <1>1, <1>9, EndsGrow
<1>14. Ends(l, i) <= total_length[l]
       /\ Adds(Sizes(buf), Drop(chain[l], i), total_length[l] - Ends(l, i))
  <2>1. PICK c : c = First(chain[l], i)
    OBVIOUS
  <2>2. PICK d : d = Drop(chain[l], i)
    OBVIOUS
  <2>3. c = Upto(chain[l], i) /\ d = Behind(chain[l], i)
    BY <2>1, <2>2 DEF First, Drop, Upto, Behind
  <2>4. PICK k \in Nat : k <= total_length[l] /\ Adds(Sizes(buf), c, k)
                         /\ Adds(Sizes(buf), d, total_length[l] - k)
    BY <1>1, <1>2, <1>10, <2>3, AddsCut DEF Sound
  <2>5. Len(c) \in Nat
    BY <1>1, <1>10, <2>1, <2>2, PartLength
  <2>6. k = Ends(l, i)
    BY <1>12, <2>1, <2>4, <2>5, AddsUnique
  <2> QED  BY <2>2, <2>4, <2>6
<1> QED  BY <1>9, <1>11, <1>12, <1>13, <1>14 DEF CutAt

(* The list that gets the bytes is taken from the free ones.               *)
LEMMA NewListStep ==
  ASSUME FsInvariant, NEW l \in held, free_lists # <<>>, NEW m, m = Head(free_lists),
         Rearranged({l, m}, buf, chain, total_length, free_buffers,
                    buf', chain', total_length', free_buffers'),
         Len(free_buffers') <= Len(free_buffers), FlagsExact', RestTyped',
         UNCHANGED <<rx_lists, waiting>>, free_lists' = Tail(free_lists), held' = held \cup {m}
  PROVE  FsInvariant'
<1>1. /\ waiting \in [Tasks -> Requests] /\ free_lists \in Seq(Lists) /\ l \in Lists
      /\ Once(buf, chain, total_length, free_buffers)
      /\ ListsOnce(free_lists, rx_lists, held, waiting, chain)
  BY DEF FsInvariant, BufferTypeOK
<1>2. /\ Once(buf, chain, total_length, free_buffers)'
      /\ OthersStay({l, m}, buf, chain, total_length, buf', chain', total_length')
  BY <1>1, ListsChange
<1>3. /\ NoDuplicates(free_lists) /\ m \in ToSet(free_lists) /\ l \notin ToSet(free_lists)
      /\ ToSet(Tail(free_lists)) = ToSet(free_lists) \ {m} /\ ToSet(free_lists) \subseteq Lists
  <2>1. NoDuplicates(free_lists) /\ l \notin ToSet(free_lists)
    BY <1>1 DEF ListsOnce
  <2> QED  BY <1>1, <2>1, TailMembers, MembersIn
<1>4. \A k \in ToSet(Tail(free_lists)) : chain'[k] = chain[k]
  BY <1>2, <1>3 DEF OthersStay
<1>5. KeepsSame(waiting, waiting')
  BY DEF KeepsSame, Keeps
<1>6. ListsOnce(free_lists, rx_lists, held, waiting, chain)' /\ Len(free_lists') <= Len(free_lists)
  <2>1. /\ ListsOnce(Tail(free_lists), rx_lists, held \cup {Head(free_lists)}, waiting', chain')
        /\ Len(Tail(free_lists)) <= Len(free_lists)
    BY <1>1, <1>4, <1>5, ListTaken
  <2> QED  BY <2>1
<1>7. ASSUME NEW t \in Tasks
      PROVE  waiting'[t] = waiting[t] /\ (waiting[t].what = "push" => waiting[t].list \notin {l, m})
  <2>1. waiting[t].what = "push" => waiting[t].list \in Lists /\ waiting[t].list \notin held
    BY KeptNotHeld
  <2>2. waiting[t].what = "push" => waiting[t].list \notin ToSet(free_lists)
    BY <1>1, <2>1 DEF ListsOnce, Keeps
  <2> QED  BY <1>3, <2>1, <2>2
<1>8. waiting' \in [Tasks -> Requests]
  BY <1>1
<1> QED  BY <1>2, <1>6, <1>7, <1>8, GoOnStep

(* A buffer that is divided: its first bytes stay, the others go to a      *)
(* fresh one.                                                              *)
DividedBuffer(bf, b, new, this) ==
  [bf EXCEPT ![b].data = First(@, this), ![new].data = Drop(bf[b].data, this)]

DividedGood(bf, b, new, this, bf2) ==
  /\ Fitting(bf2) /\ \A x \in Buffers : x # b /\ x # new => bf2[x] = bf[x]
  /\ Len(bf2[b].data) = this /\ Len(bf2[new].data) = Len(bf[b].data) - this

LEMMA BufferDivided ==
  ASSUME NEW bf, Fitting(bf), NEW b \in Buffers, NEW new \in Buffers, b # new, bf[new] = Fresh,
         NEW this \in 0 .. Len(bf[b].data), NEW bf2,
         bf2 = DividedBuffer(bf, b, new, this)
  PROVE  DividedGood(bf, b, new, this, bf2)
<1>0. BufferSize \in Nat /\ BufferSet = [Buffers -> BufferRecord] /\ bf \in [Buffers -> BufferRecord]
  BY BufferAssumption DEF Fitting, BufferSet, BufferRecord
<1>1. PICK c : c = First(bf[b].data, this)
  OBVIOUS
<1>2. PICK d : d = Drop(bf[b].data, this)
  OBVIOUS
<1>3. /\ bf[b] \in BufferRecord /\ bf[b].room + Len(bf[b].data) <= BufferSize
      /\ bf[b].data \in Seq(1 .. MaxField) /\ Len(bf[b].data) \in Nat /\ bf[b].room \in Nat
  BY <1>0 DEF Fitting, BufferRecord
<1>4. /\ c \in Seq(1 .. MaxField) /\ Len(c) = this
      /\ d \in Seq(1 .. MaxField) /\ Len(d) = Len(bf[b].data) - this
  BY <1>1, <1>2, <1>3, PartLength
<1>5. PICK p \in BufferRecord : p = [bf[b] EXCEPT !.data = c]
  BY <1>3, <1>4 DEF BufferRecord
<1>6. PICK q \in BufferRecord : q = [bf[new] EXCEPT !.data = d]
  <2>1. bf[new] \in BufferRecord
    BY <1>0
  <2> QED  BY <1>4, <2>1 DEF BufferRecord
<1>7. p.room = bf[b].room /\ p.data = c /\ q.room = 0 /\ q.data = d
  BY <1>3, <1>5, <1>6 DEF BufferRecord, Fresh
<1>8. bf2 = [bf EXCEPT ![b] = p, ![new] = q]
  BY <1>1, <1>2, <1>5, <1>6 DEF DividedBuffer
<1>9. /\ bf2 \in [Buffers -> BufferRecord] /\ bf2[b] = p /\ bf2[new] = q
      /\ \A x \in Buffers : x # b /\ x # new => bf2[x] = bf[x]
  BY <1>0, <1>8
<1>10. p.room + Len(p.data) <= BufferSize /\ q.room + Len(q.data) <= BufferSize
  BY <1>0, <1>3, <1>4, <1>7
<1>11. Fitting(bf2)
  <2>1. \A x \in Buffers : bf2[x].room + Len(bf2[x].data) <= BufferSize
    <3> TAKE x \in Buffers
    <3>1. CASE x = b
      BY <1>9, <1>10, <3>1
    <3>2. CASE x = new
      BY <1>9, <1>10, <3>2
    <3>3. CASE x # b /\ x # new
      BY <1>9, <3>3 DEF Fitting
    <3> QED  BY <3>1, <3>2, <3>3
  <2> QED  BY <1>0, <1>9, <2>1 DEF Fitting
<1> QED  BY <1>4, <1>7, <1>9, <1>11 DEF DividedGood

(* What both ways to divide start from.                                    *)
CutParts(l, i, c, d, b) ==
  /\ c = First(chain[l], i) /\ d = Drop(chain[l], i) /\ b = chain[l][i] /\ b \in Buffers
  /\ c \in Seq(Buffers) /\ Len(c) = i /\ i \in 1 .. Len(c) /\ c[i] = b
  /\ d \in Seq(Buffers) /\ NoDuplicates(c) /\ NoDuplicates(d) /\ Disjoint(c, d)
  /\ ToSet(c) \cup ToSet(d) = ToSet(chain[l]) /\ b \in ToSet(c)
  /\ \A x \in ToSet(chain[l]) : buf[x].data # <<>>

LEMMA CutPartsExist ==
  ASSUME FsInvariant, NEW l \in held, NEW i \in 1 .. Len(chain[l]),
         NEW c, c = First(chain[l], i), NEW d, d = Drop(chain[l], i), NEW b, b = chain[l][i]
  PROVE  CutParts(l, i, c, d, b)
<1>1. /\ chain[l] \in Seq(Buffers) /\ Len(chain[l]) \in Nat
      /\ NoDuplicates(chain[l]) /\ \A x \in ToSet(chain[l]) : buf[x].data # <<>>
  BY DEF FsInvariant, BufferTypeOK, Once, Sound
<1>2. PICK list : list = chain[l]
  OBVIOUS
<1>3. c = Upto(list, i) /\ d = Behind(list, i) /\ i \in 0 .. Len(list) /\ list \in Seq(Buffers)
  BY <1>1, <1>2 DEF First, Drop, Upto, Behind
<1>4. /\ AreParts(Buffers, list, Len(list), i, c, d)
      /\ ToSet(list) = ToSet(c) \cup ToSet(d)
      /\ NoDuplicates(list) =>
           NoDuplicates(c) /\ NoDuplicates(d) /\ ToSet(c) \cap ToSet(d) = {}
  BY <1>3, CutMembers
<1>5. /\ c \in Seq(Buffers) /\ Len(c) = i /\ \A j \in 1 .. i : c[j] = list[j]
      /\ d \in Seq(Buffers)
  BY <1>4 DEF AreParts
<1>6. i \in 1 .. Len(c) /\ c[i] = b /\ b \in Buffers
  BY <1>1, <1>2, <1>5
<1>7. b \in ToSet(c)
  BY <1>6 DEF ToSet
<1> QED  BY <1>1, <1>2, <1>4, <1>5, <1>6, <1>7 DEF CutParts, Disjoint

Both(fn, l, x, m, y) == [fn EXCEPT ![l] = x, ![m] = y]

BothGood(S, T, fn, l, x, m, y, g) ==
  g \in [S -> T] /\ g[l] = x /\ g[m] = y /\ \A z \in S \ {l, m} : g[z] = fn[z]

LEMMA BothValues ==
  ASSUME NEW S, NEW T, NEW fn \in [S -> T], NEW l \in S, NEW m \in S, m # l,
         NEW x \in T, NEW y \in T
  PROVE  BothGood(S, T, fn, l, x, m, y, Both(fn, l, x, m, y))
BY DEF Both, BothGood

(* The list is cut behind buffer i.                                        *)
CutsBehind(l, m, n, i, c, d) ==
  /\ Ends(l, i) = n
  /\ chain' = Both(chain, l, c, m, d)
  /\ total_length' = Both(total_length, l, n, m, total_length[l] - n)
  /\ buf' = buf /\ free_buffers' = free_buffers

LEMMA CutBehind ==
  ASSUME FsInvariant, NEW l \in held, NEW m \in Lists, m # l, chain[m] = <<>>,
         NEW n, NEW i, CutAt(l, n, i, total_length[l]),
         NEW c, NEW d, NEW b, CutParts(l, i, c, d, b), CutsBehind(l, m, n, i, c, d)
  PROVE  Rearranged({l, m}, buf, chain, total_length, free_buffers,
                    buf', chain', total_length', free_buffers')
<1>0. /\ Ends(l, i) = n /\ chain' = Both(chain, l, c, m, d)
      /\ total_length' = Both(total_length, l, n, m, total_length[l] - n)
      /\ buf' = buf /\ free_buffers' = free_buffers
  BY DEF CutsBehind
<1>1. /\ c = First(chain[l], i) /\ d = Drop(chain[l], i)
      /\ c \in Seq(Buffers) /\ d \in Seq(Buffers) /\ NoDuplicates(c) /\ NoDuplicates(d)
      /\ Disjoint(c, d) /\ ToSet(c) \cup ToSet(d) = ToSet(chain[l])
      /\ \A x \in ToSet(chain[l]) : buf[x].data # <<>>
  BY DEF CutParts
<1>2. /\ chain \in [Lists -> Seq(Buffers)] /\ total_length \in [Lists -> Nat] /\ l \in Lists
      /\ free_buffers \in Seq(Buffers) /\ Fitting(buf) /\ FreeSound(buf, free_buffers)
      /\ Disjoint(chain[l], free_buffers) /\ total_length[l] \in Nat
  BY DEF FsInvariant, BufferTypeOK, Once
<1>3. /\ n \in Nat /\ n <= total_length[l]
      /\ Adds(Sizes(buf), c, n) /\ Adds(Sizes(buf), d, total_length[l] - n)
  BY <1>0, <1>1 DEF CutAt
<1>4. Sound(buf, c, n) /\ Sound(buf, d, total_length[l] - n)
  BY <1>1, <1>3 DEF Sound
<1>5. PICK k \in Nat : k = total_length[l] - n
  BY <1>2, <1>3
<1>6. /\ chain' \in [Lists -> Seq(Buffers)] /\ total_length' \in [Lists -> Nat]
      /\ chain'[l] = c /\ chain'[m] = d /\ total_length'[l] = n /\ total_length'[m] = k
      /\ \A x \in Lists \ {l, m} : chain'[x] = chain[x] /\ total_length'[x] = total_length[x]
  <2>1. total_length' = Both(total_length, l, n, m, k)
    BY <1>0, <1>5
  <2>2. /\ total_length' \in [Lists -> Nat] /\ total_length'[l] = n /\ total_length'[m] = k
        /\ \A x \in Lists \ {l, m} : total_length'[x] = total_length[x]
    <3>1. BothGood(Lists, Nat, total_length, l, n, m, k, Both(total_length, l, n, m, k))
      BY <1>2, <1>3, BothValues
    <3> QED  BY <2>1, <3>1 DEF BothGood
  <2>3. /\ chain' \in [Lists -> Seq(Buffers)] /\ chain'[l] = c /\ chain'[m] = d
        /\ \A x \in Lists \ {l, m} : chain'[x] = chain[x]
    <3>1. BothGood(Lists, Seq(Buffers), chain, l, c, m, d, Both(chain, l, c, m, d))
      BY <1>1, <1>2, BothValues
    <3> QED  BY <1>0, <3>1 DEF BothGood
  <2> QED  BY <2>2, <2>3
<1>7. \A x \in {l, m} : Sound(buf', chain'[x], total_length'[x]) /\ Disjoint(chain'[x], free_buffers')
  <2>1. Disjoint(c, free_buffers) /\ Disjoint(d, free_buffers)
    BY <1>1, <1>2 DEF Disjoint
  <2> QED  BY <1>0, <1>4, <1>5, <1>6, <2>1
<1>8. \A x, y \in {l, m} : x # y => Disjoint(chain'[x], chain'[y])
  BY <1>1, <1>6 DEF Disjoint
<1>9. Pool({l, m}, chain', free_buffers') = Pool({l, m}, chain, free_buffers)
  <2>1. MembersOf({l, m}, chain') = ToSet(c) \cup ToSet(d)
    BY <1>6 DEF MembersOf
  <2>2. MembersOf({l, m}, chain) = ToSet(chain[l])
    BY EmptySound DEF MembersOf
  <2> QED  BY <1>0, <1>1, <2>1, <2>2 DEF Pool
<1> QED  BY <1>0, <1>2, <1>6, <1>7, <1>8, <1>9 DEF Rearranged

(* The list is cut in buffer i.                                            *)
CutsWithin(l, m, n, i, c, d, b) ==
  LET new == Head(free_buffers)
  IN /\ Ends(l, i) # n /\ free_buffers # <<>>
     /\ buf' = DividedBuffer(buf, b, new, n - Ends(l, i - 1))
     /\ chain' = Both(chain, l, c, m, sll_push(d, new))
     /\ total_length' = Both(total_length, l, n, m, total_length[l] - n)
     /\ free_buffers' = Tail(free_buffers)

LEMMA CutWithin ==
  ASSUME FsInvariant, NEW l \in held, NEW m \in Lists, m # l, chain[m] = <<>>,
         NEW n \in Nat, NEW i, CutAt(l, n, i, total_length[l]),
         NEW c, NEW d, NEW b, CutParts(l, i, c, d, b), CutsWithin(l, m, n, i, c, d, b)
  PROVE  Rearranged({l, m}, buf, chain, total_length, free_buffers,
                    buf', chain', total_length', free_buffers')
<1>1. /\ c = First(chain[l], i) /\ d = Drop(chain[l], i) /\ b \in Buffers /\ b = chain[l][i]
      /\ c \in Seq(Buffers) /\ d \in Seq(Buffers) /\ NoDuplicates(c) /\ NoDuplicates(d)
      /\ Disjoint(c, d) /\ ToSet(c) \cup ToSet(d) = ToSet(chain[l])
      /\ \A x \in ToSet(chain[l]) : buf[x].data # <<>>
      /\ i \in 1 .. Len(c) /\ c[i] = b /\ b \in ToSet(c)
  BY DEF CutParts
<1>2. /\ chain \in [Lists -> Seq(Buffers)] /\ total_length \in [Lists -> Nat] /\ l \in Lists
      /\ free_buffers \in Seq(Buffers) /\ Fitting(buf) /\ buf \in BufferSet
      /\ NoDuplicates(free_buffers) /\ \A x \in ToSet(free_buffers) : buf[x] = Fresh
      /\ Disjoint(chain[l], free_buffers) /\ total_length[l] \in Nat
  BY DEF FsInvariant, BufferTypeOK, Once, FreeSound, Fitting
<1>3. PICK new, f, free, this :
        /\ Ends(l, i) # n /\ free_buffers # <<>> /\ new = Head(free_buffers)
        /\ this = n - Ends(l, i - 1) /\ buf' = DividedBuffer(buf, b, new, this)
        /\ f = sll_push(d, new) /\ chain' = Both(chain, l, c, m, f)
        /\ total_length' = Both(total_length, l, n, m, total_length[l] - n)
        /\ free = Tail(free_buffers) /\ free_buffers' = free
  BY DEF CutsWithin
<1>4. /\ new \in Buffers /\ new \in ToSet(free_buffers) /\ free \in Seq(Buffers)
      /\ NoDuplicates(free) /\ ToSet(free) = ToSet(free_buffers) \ {new}
      /\ buf[new] = Fresh /\ new \notin ToSet(chain[l]) /\ new # b
  <2>1. /\ new \in Buffers /\ new \in ToSet(free_buffers) /\ free \in Seq(Buffers)
        /\ NoDuplicates(free) /\ ToSet(free) = ToSet(free_buffers) \ {new}
    BY <1>2, <1>3, TailMembers
  <2> QED  BY <1>1, <1>2, <2>1 DEF Disjoint
<1>5. PICK e0 \in Nat, e \in Nat, total \in Nat, len \in Nat :
        /\ e0 = Ends(l, i - 1) /\ e = Ends(l, i) /\ total = total_length[l]
        /\ len = Len(buf[b].data)
        /\ e >= n /\ e0 < n /\ e <= total /\ e = e0 + len
        /\ Adds(Sizes(buf), c, e) /\ Adds(Sizes(buf), d, total - e)
        /\ e # n /\ this = n - e0
  <2>1. Len(buf[b].data) \in Nat
    <3>1. b \in Buffers /\ buf \in BufferSet
      BY <1>1, <1>2
    <3> QED  BY ONLY <3>1 DEF BufferSet
  <2> QED  BY <1>1, <1>2, <1>3, <2>1 DEF CutAt
<1>6. this \in Nat /\ 1 <= this /\ this < len /\ this \in 0 .. Len(buf[b].data) /\ this = n - e0
  <2>1. this \in Nat /\ 1 <= this /\ this < len
    BY <1>5, SMTT(30)
  <2> QED  BY <1>5, <2>1
<1>7. /\ Fitting(buf') /\ \A x \in Buffers : x # b /\ x # new => buf'[x] = buf[x]
      /\ Len(buf'[b].data) = this /\ Len(buf'[new].data) = len - this
  <2>1. buf' = DividedBuffer(buf, b, new, this)
    BY <1>3
  <2>2. /\ Fitting(buf') /\ \A x \in Buffers : x # b /\ x # new => buf'[x] = buf[x]
        /\ Len(buf'[b].data) = this /\ Len(buf'[new].data) = Len(buf[b].data) - this
    <3>1. DividedGood(buf, b, new, this, buf')
      BY <1>1, <1>2, <1>4, <1>6, <2>1, BufferDivided
    <3> QED  BY <3>1 DEF DividedGood
  <2> QED  BY <1>5, <2>2
<1>8. buf' \in BufferSet /\ buf'[b].data # <<>> /\ buf'[new].data # <<>>
  <2>1. buf' \in BufferSet
    BY <1>7 DEF Fitting
  <2>2. buf'[b].data \in Seq(1 .. MaxField) /\ buf'[new].data \in Seq(1 .. MaxField)
    BY <1>1, <1>4, <2>1 DEF BufferSet
  <2>3. Len(buf'[b].data) # 0 /\ Len(buf'[new].data) # 0
    <3>1. this # 0 /\ len - this # 0
      BY <1>5, <1>6
    <3> QED  BY <1>7, <3>1
  <2> QED  BY <2>1, <2>2, <2>3
<1>9. PICK w \in [Buffers -> Nat] : w = Sizes(buf) /\ w[b] = len
  BY <1>1, <1>2, <1>5, SizesType
<1>10. PICK v \in [Buffers -> Nat] :
         /\ v = Sizes(buf') /\ v[b] = this /\ v[new] = len - this
         /\ \A x \in Buffers : x # b /\ x # new => v[x] = w[x]
  <2>1. Sizes(buf') \in [Buffers -> Nat] /\ \A x \in Buffers : Sizes(buf')[x] = Len(buf'[x].data)
    BY <1>8, SizesType
  <2>2. \A x \in Buffers : w[x] = Len(buf[x].data)
    BY <1>2, <1>9, SizesType
  <2>3. PICK v : v = Sizes(buf')
    OBVIOUS
  <2>4. v \in [Buffers -> Nat] /\ v[b] = this /\ v[new] = len - this
    BY <1>1, <1>4, <1>7, <2>1, <2>3
  <2>5. \A x \in Buffers : x # b /\ x # new => v[x] = w[x]
    BY <1>7, <2>1, <2>2, <2>3
  <2> QED  BY <2>3, <2>4, <2>5
<1>11. Sound(buf', c, n)
  <2>1. \A x \in ToSet(c) : x = c[i] \/ v[x] = w[x]
    BY <1>1, <1>4, <1>10, MembersIn
  <2>2. Adds(v, c, e - w[c[i]] + v[c[i]])
    BY <1>1, <1>5, <1>9, <2>1, AddsChange
  <2>3. e - w[c[i]] + v[c[i]] = n
    <3>1. w[c[i]] = len /\ v[c[i]] = this
      BY <1>1, <1>9, <1>10
    <3> QED  BY <1>5, <1>6, <3>1
  <2>4. \A x \in ToSet(c) : buf'[x].data # <<>>
    BY <1>1, <1>4, <1>7, <1>8, MembersIn
  <2> QED  BY <1>1, <1>10, <2>2, <2>3, <2>4 DEF Sound
<1>13. PICK k \in Nat : k = total - n
  BY <1>5
<1>14. f \in Seq(Buffers) /\ ToSet(f) = ToSet(d) \cup {new} /\ NoDuplicates(f) /\ Sound(buf', f, k)
  <2>1. f = IF TRUE THEN sll_push(d, new) ELSE sll_append(d, new)
    BY <1>3
  <2>2. new \notin ToSet(d)
    BY <1>1, <1>4
  <2>3. f \in Seq(Buffers) /\ ToSet(f) = ToSet(d) \cup {new} /\ NoDuplicates(f)
    <3>1. d \in Seq(Buffers) /\ new \in Buffers /\ NoDuplicates(d) /\ f = sll_push(d, new)
      BY <1>1, <1>3, <1>4
    <3> QED  BY <2>2, <3>1, SllPushMembers
  <2>4. \A x \in ToSet(d) : x \in Buffers /\ x # b /\ x # new
    BY <1>1, <1>4, <2>2, MembersIn DEF Disjoint
  <2>5. Adds(v, d, total - e)
    <3>1. d \in Seq(Buffers) /\ Adds(w, d, total - e) /\ \A x \in ToSet(d) : v[x] = w[x]
      BY <1>1, <1>5, <1>9, <1>10, <2>4
    <3> QED  BY <3>1, AddsSame
  <2>6. Adds(v, f, (total - e) + v[new])
    BY <1>1, <1>4, <1>10, <2>1, <2>5, AddsOneMore
  <2>7. (total - e) + v[new] = k
    <3>1. v[new] = len - this
      BY <1>10
    <3>2. this = n - e0 /\ e = e0 + len /\ k = total - n
      BY <1>5, <1>6, <1>13
    <3>3. (total - e) + (len - this) = k
      BY ONLY <3>2, n \in Nat, k \in Nat, e0 \in Nat, len \in Nat, total \in Nat
    <3> QED  BY <3>1, <3>3
  <2>8. \A x \in ToSet(f) : buf'[x].data # <<>>
    BY <1>1, <1>7, <1>8, <2>3, <2>4
  <2> QED  BY <1>10, <2>3, <2>6, <2>7, <2>8 DEF Sound
<1>15. /\ chain' \in [Lists -> Seq(Buffers)] /\ total_length' \in [Lists -> Nat]
       /\ chain'[l] = c /\ chain'[m] = f /\ total_length'[l] = n /\ total_length'[m] = k
       /\ \A x \in Lists \ {l, m} : chain'[x] = chain[x] /\ total_length'[x] = total_length[x]
  <2>1. total_length' = Both(total_length, l, n, m, k)
    BY <1>3, <1>5, <1>13
  <2>2. /\ total_length' \in [Lists -> Nat] /\ total_length'[l] = n /\ total_length'[m] = k
        /\ \A x \in Lists \ {l, m} : total_length'[x] = total_length[x]
    <3>1. BothGood(Lists, Nat, total_length, l, n, m, k, Both(total_length, l, n, m, k))
      BY <1>2, BothValues
    <3> QED  BY <2>1, <3>1 DEF BothGood
  <2>3. /\ chain' \in [Lists -> Seq(Buffers)] /\ chain'[l] = c /\ chain'[m] = f
        /\ \A x \in Lists \ {l, m} : chain'[x] = chain[x]
    <3>1. BothGood(Lists, Seq(Buffers), chain, l, c, m, f, Both(chain, l, c, m, f))
      BY <1>1, <1>2, <1>14, BothValues
    <3> QED  BY <1>3, <3>1 DEF BothGood
  <2> QED  BY <2>2, <2>3
<1>16. \A x \in {l, m} : Sound(buf', chain'[x], total_length'[x]) /\ Disjoint(chain'[x], free)
  <2>1. Disjoint(c, free) /\ Disjoint(f, free)
    BY <1>1, <1>2, <1>4, <1>14 DEF Disjoint
  <2> QED  BY <1>11, <1>14, <1>15, <2>1
<1>17. \A x, y \in {l, m} : x # y => Disjoint(chain'[x], chain'[y])
  <2>1. Disjoint(c, f) /\ Disjoint(f, c)
    BY <1>1, <1>4, <1>14, SMTT(30) DEF Disjoint
  <2> QED  BY <1>15, <2>1
<1>18. FreeSound(buf', free)
  <2>1. \A x \in ToSet(free) : buf'[x] = Fresh
    BY <1>1, <1>2, <1>4, <1>7, MembersIn DEF Disjoint
  <2> QED  BY <1>4, <2>1 DEF FreeSound
<1>19. Pool({l, m}, chain, free_buffers) = ToSet(free_buffers) \cup ToSet(chain[l])
  <2>1. MembersOf({l, m}, chain) = ToSet(chain[l])
    BY EmptySound DEF MembersOf
  <2> QED  BY <2>1 DEF Pool
<1>20. Pool({l, m}, chain', free) = Pool({l, m}, chain, free_buffers)
  <2>1. MembersOf({l, m}, chain') = ToSet(c) \cup ToSet(f)
    BY <1>15 DEF MembersOf
  <2> QED  BY <1>1, <1>4, <1>14, <1>19, <2>1 DEF Pool
<1>21. \A x \in Buffers : x \notin Pool({l, m}, chain, free_buffers) => buf'[x] = buf[x]
  BY <1>1, <1>4, <1>7, <1>19
<1> QED  BY <1>2, <1>3, <1>4, <1>7, <1>15, <1>16, <1>17, <1>18, <1>20, <1>21 DEF Rearranged


(* The divided list keeps its first buffers, up to b; m gets its tail.     *)
DividedRest(l, m, b) ==
  /\ tail' = Both(tail, l, b, m, tail[l])
  /\ free_lists' = Tail(free_lists) /\ held' = held \cup {m}
  /\ UNCHANGED <<rx_lists, waiting, halted>>

LEMMA DividedStep ==
  ASSUME FsInvariant, NEW l \in held, free_lists # <<>>, NEW m \in Lists, m = Head(free_lists),
         m # l, NEW b \in Buffers, DividedRest(l, m, b),
         Rearranged({l, m}, buf, chain, total_length, free_buffers,
                    buf', chain', total_length', free_buffers'),
         UseBuffers(free_buffers'), Len(free_buffers') <= Len(free_buffers)
  PROVE  FsInvariant'
<1>1. /\ tail \in [Lists -> Buffers \cup {NULL}] /\ l \in Lists /\ FlagsExact
      /\ flags \subseteq {"FS_SPACE_AVAILABLE", "FS_DATA_AVAILABLE"}
      /\ halted \in BOOLEAN /\ free_buffers \in Seq(Buffers)
  BY DEF FsInvariant, BufferTypeOK
<1>2. free_buffers' \in Seq(Buffers)
  BY DEF Rearranged
<1>3. rx_lists' = rx_lists /\ waiting' = waiting /\ halted' = halted
      /\ free_lists' = Tail(free_lists) /\ held' = held \cup {m}
  BY DEF DividedRest
<1>4. FlagsExact' /\ flags' \subseteq {"FS_SPACE_AVAILABLE", "FS_DATA_AVAILABLE"}
  BY <1>1, <1>2, <1>3, FlagsUsed
<1>5. tail' \in [Lists -> Buffers \cup {NULL}]
  <2>1. b \in Buffers \cup {NULL} /\ tail[l] \in Buffers \cup {NULL}
    BY <1>1
  <2>2. BothGood(Lists, Buffers \cup {NULL}, tail, l, b, m, tail[l], Both(tail, l, b, m, tail[l]))
    BY <1>1, <2>1, BothValues
  <2> QED  BY <2>2 DEF BothGood, DividedRest
<1>6. RestTyped'
  BY <1>1, <1>3, <1>4, <1>5 DEF RestTyped
<1> QED  BY <1>3, <1>4, <1>6, NewListStep

(* The list that a divide takes is another one, and empty.                 *)
LEMMA FreeListIsOther ==
  ASSUME FsInvariant, NEW l \in held, free_lists # <<>>, NEW m, m = Head(free_lists)
  PROVE  m \in Lists /\ m # l /\ chain[m] = <<>>
<1>1. ListsOnce(free_lists, rx_lists, held, waiting, chain)
  BY DEF FsInvariant
<1>2. free_lists \in Seq(Lists) /\ ToSet(free_lists) \cap held = {}
      /\ \A x \in ToSet(free_lists) : chain[x] = <<>>
  BY <1>1 DEF ListsOnce
<1>3. m \in ToSet(free_lists)
  BY <1>2, HeadLastMembers
<1> QED  BY <1>2, <1>3, MembersIn

(* A divide at buffer i, where the first n bytes end.                      *)
CutPlace(l, n) ==
  CHOOSE j \in 1 .. Len(chain[l]) : Ends(l, j) >= n /\ \A k \in 1 .. j - 1 : Ends(l, k) < n

DivideAt(l, n, i, b, m) ==
  \/ halted' = TRUE /\ UNCHANGED <<buf, chain, tail, total_length, poolVars>>
  \/ /\ DividedRest(l, m, b) /\ free_buffers # <<>> /\ UseBuffers(Tail(free_buffers))
     /\ Ends(l, i) # n
     /\ buf' = DividedBuffer(buf, b, Head(free_buffers), n - Ends(l, i - 1))
     /\ chain' = Both(chain, l, First(chain[l], i), m, <<Head(free_buffers)>> \o Drop(chain[l], i))
     /\ total_length' = Both(total_length, l, n, m, total_length[l] - n)
  \/ /\ DividedRest(l, m, b) /\ UNCHANGED <<buf, free_buffers, flags>>
     /\ Ends(l, i) = n
     /\ chain' = Both(chain, l, First(chain[l], i), m, Drop(chain[l], i))
     /\ total_length' = Both(total_length, l, n, m, total_length[l] - n)

LEMMA DivideIs ==
  ASSUME NEW l, NEW n, fs_buffer_list_divide(l, n)
  PROVE  /\ n < total_length[l] /\ free_lists # <<>>
         /\ DivideAt(l, n, CutPlace(l, n), chain[l][CutPlace(l, n)], Head(free_lists))
<1>1. /\ n < total_length[l] /\ free_lists # <<>>
  BY DEF fs_buffer_list_divide
<1>2. \/ /\ Ends(l, CutPlace(l, n)) # n /\ free_buffers = <<>>
         /\ halted' = TRUE
         /\ UNCHANGED <<buf, chain, tail, total_length, poolVars>>
      \/ /\ Ends(l, CutPlace(l, n)) # n /\ free_buffers # <<>>
         /\ buf' = DividedBuffer(buf, chain[l][CutPlace(l, n)], Head(free_buffers),
                                 n - Ends(l, CutPlace(l, n) - 1))
         /\ chain' = Both(chain, l, First(chain[l], CutPlace(l, n)), Head(free_lists),
                          <<Head(free_buffers)>> \o Drop(chain[l], CutPlace(l, n)))
         /\ UseBuffers(Tail(free_buffers))
      \/ /\ ~(Ends(l, CutPlace(l, n)) # n)
         /\ chain' = Both(chain, l, First(chain[l], CutPlace(l, n)), Head(free_lists),
                          Drop(chain[l], CutPlace(l, n)))
         /\ UNCHANGED <<buf, free_buffers, flags>>
  BY Zenon DEF fs_buffer_list_divide, CutPlace, DividedBuffer, Both
<1>3. ~(Ends(l, CutPlace(l, n)) # n /\ free_buffers = <<>>) =>
        /\ tail' = Both(tail, l, chain[l][CutPlace(l, n)], Head(free_lists), tail[l])
        /\ total_length' = Both(total_length, l, n, Head(free_lists), total_length[l] - n)
        /\ free_lists' = Tail(free_lists)
        /\ held' = held \cup {Head(free_lists)}
        /\ UNCHANGED <<rx_lists, waiting, halted>>
  BY Zenon DEF fs_buffer_list_divide, CutPlace, Both
<1>4. CASE Ends(l, CutPlace(l, n)) # n /\ free_buffers = <<>>
  BY <1>1, <1>2, <1>4 DEF DivideAt
<1>5. CASE ~(Ends(l, CutPlace(l, n)) # n /\ free_buffers = <<>>)
  BY <1>1, <1>2, <1>3, <1>5 DEF DivideAt, DividedRest
<1> QED  BY <1>4, <1>5

LEMMA DivideStep ==
  ASSUME FsInvariant, NEW l \in held, NEW n \in 1 .. total_length[l], fs_buffer_list_divide(l, n)
  PROVE  FsInvariant'
<1>1. PICK i : i = CutPlace(l, n)
  OBVIOUS
<1>2. PICK b, m, c, d :
        /\ b = chain[l][i] /\ m = Head(free_lists)
        /\ c = First(chain[l], i) /\ d = Drop(chain[l], i)
  OBVIOUS
<1>3. n \in Nat \ {0} /\ n \in Nat /\ n < total_length[l] /\ free_lists # <<>>
  <2>1. total_length[l] \in Nat
    BY DEF FsInvariant, BufferTypeOK
  <2> QED  BY <2>1, DivideIs
<1>4. CutAt(l, n, i, total_length[l]) /\ i \in 1 .. Len(chain[l])
  <2>1. CutAt(l, n, i, total_length[l])
    BY <1>1, <1>3, CutExists DEF CutPlace
  <2> QED  BY <2>1 DEF CutAt
<1>5. CutParts(l, i, c, d, b) /\ b \in Buffers
  <2>1. CutParts(l, i, c, d, b)
    BY <1>2, <1>4, CutPartsExist
  <2> QED  BY <2>1 DEF CutParts
<1>6. m \in Lists /\ m # l /\ chain[m] = <<>>
  BY <1>2, <1>3, FreeListIsOther
<1>7. Len(free_buffers) \in Nat /\ free_buffers \in Seq(Buffers) /\ FlagsExact
  BY Counts DEF FsInvariant, BufferTypeOK
<1>8. \/ halted' = TRUE /\ UNCHANGED <<buf, chain, tail, total_length, poolVars>>
      \/ /\ CutsWithin(l, m, n, i, c, d, b) /\ DividedRest(l, m, b)
         /\ free_buffers # <<>> /\ UseBuffers(Tail(free_buffers))
      \/ /\ CutsBehind(l, m, n, i, c, d) /\ DividedRest(l, m, b)
         /\ UNCHANGED <<free_buffers, flags>>
  <2>1. DivideAt(l, n, i, b, m)
    BY <1>1, <1>2, DivideIs
  <2> QED  BY <1>2, <2>1 DEF DivideAt, UseBuffers, CutsWithin, CutsBehind, sll_push
<1>9. CASE halted' = TRUE /\ UNCHANGED <<buf, chain, tail, total_length, poolVars>>
  BY <1>9 DEF FsInvariant, poolVars, BufferTypeOK, FlagsExact
<1>10. CASE /\ CutsWithin(l, m, n, i, c, d, b) /\ DividedRest(l, m, b)
            /\ free_buffers # <<>> /\ UseBuffers(Tail(free_buffers))
  <2>1. Rearranged({l, m}, buf, chain, total_length, free_buffers,
                   buf', chain', total_length', free_buffers')
    BY <1>3, <1>4, <1>5, <1>6, <1>10, CutWithin
  <2>2. free_buffers' = Tail(free_buffers) /\ UseBuffers(free_buffers')
    BY <1>10 DEF UseBuffers
  <2>3. Len(free_buffers') <= Len(free_buffers)
    BY <1>7, <1>10, <2>2
  <2> QED  BY <1>2, <1>3, <1>5, <1>6, <1>10, <2>1, <2>2, <2>3, DividedStep
<1>11. CASE /\ CutsBehind(l, m, n, i, c, d) /\ DividedRest(l, m, b)
            /\ UNCHANGED <<free_buffers, flags>>
  <2>1. Rearranged({l, m}, buf, chain, total_length, free_buffers,
                   buf', chain', total_length', free_buffers')
    BY <1>3, <1>4, <1>5, <1>6, <1>11, CutBehind
  <2>2. UseBuffers(free_buffers')
    BY <1>7, <1>11 DEF UseBuffers, FlagsExact
  <2>3. Len(free_buffers') <= Len(free_buffers)
    BY <1>7, <1>11
  <2> QED  BY <1>2, <1>3, <1>5, <1>6, <1>11, <2>1, <2>2, <2>3, DividedStep
<1> QED  BY <1>8, <1>9, <1>10, <1>11


----------------------------------------------------------------------------
(* The theorems.                                                           *)

LEMMA SetToSeqExact ==
  ASSUME NEW S, IsFiniteSet(S), NEW order, order = SetToSeq(S)
  PROVE  order \in Seq(S) /\ NoDuplicates(order) /\ ToSet(order) = S
<1> DEFINE D == 1 .. Cardinality(S)
<1>1. Cardinality(S) \in Nat /\ ExistsBijection(D, S)
  BY FS_CardinalityType
<1>2. \E f \in [D -> S] : IsInjective(f)
  BY <1>1 DEF ExistsBijection, Bijection, Injection
<1>3. order \in [D -> S] /\ IsInjective(order)
  BY <1>2 DEF SetToSeq
<1>4. order \in Seq(S) /\ Len(order) = Cardinality(S) /\ NoDuplicates(order)
  BY <1>1, <1>3 DEF NoDuplicates, IsInjective
<1>5. order \in Injection(D, S)
  BY <1>3 DEF Injection
<1>6. Cardinality(D) = Cardinality(S)
  <2>1. Cardinality(D) = Cardinality(S) - 1 + 1
    BY <1>1, FS_Interval
  <2> QED  BY <1>1, <2>1
<1>7. order \in Surjection(D, S)
  BY <1>5, <1>6, FS_Injection
<1>8. \A x \in S : \E i \in D : order[i] = x
  BY <1>7 DEF Surjection
<1>9. ToSet(order) = S
  BY <1>3, <1>8 DEF ToSet
<1> QED  BY <1>4, <1>9

LEMMA FsInitial ==
  Init => FsInvariant
<1> SUFFICES ASSUME Init PROVE FsInvariant
  OBVIOUS
<1>1. /\ buf = [b \in Buffers |-> Fresh] /\ chain = [l \in Lists |-> <<>>]
      /\ tail = [l \in Lists |-> NULL] /\ total_length = [l \in Lists |-> 0]
      /\ free_buffers = SetToSeq(Buffers) /\ free_lists = SetToSeq(Lists)
      /\ rx_lists = <<>> /\ held = {}
      /\ flags = IF Buffers = {} THEN {} ELSE {"FS_SPACE_AVAILABLE"}
      /\ waiting = [t \in Tasks |-> Idle] /\ halted = FALSE
  BY DEF Init
<1>2. /\ free_buffers \in Seq(Buffers) /\ NoDuplicates(free_buffers)
      /\ ToSet(free_buffers) = Buffers
  BY <1>1, SetToSeqExact, BufferAssumption
<1>3. free_lists \in Seq(Lists) /\ NoDuplicates(free_lists) /\ ToSet(free_lists) = Lists
  BY <1>1, SetToSeqExact, BufferAssumption
<1>4. /\ buf \in BufferSet /\ \A b \in Buffers : buf[b] = Fresh
      /\ \A b \in Buffers : buf[b].room + Len(buf[b].data) <= BufferSize
  <2>1. Fresh \in BufferRecord /\ Fresh.room + Len(Fresh.data) <= BufferSize
    BY BufferAssumption DEF Fresh, BufferRecord
  <2> QED  BY <1>1, <2>1 DEF BufferSet, BufferRecord
<1>5. Idle \in Requests /\ Idle.what = "idle"
  BY DEF Idle, Requests
<1>6. \A l \in Lists : chain[l] = <<>> /\ total_length[l] = 0
  BY <1>1
<1>7. \A t \in Tasks : waiting[t] = Idle
  BY <1>1
<1>8. FlagsExact
  <2>1. free_buffers = <<>> <=> Buffers = {}
    <3>1. CASE free_buffers = <<>>
      BY <1>2, <3>1, EmptySound
    <3>2. CASE free_buffers # <<>>
      BY <1>2, <3>2, HeadLastMembers
    <3> QED  BY <3>1, <3>2
  <2> QED  BY <1>1, <2>1 DEF FlagsExact
<1>9. chain \in [Lists -> Seq(Buffers)] /\ total_length \in [Lists -> Nat]
  <2>1. <<>> \in Seq(Buffers) /\ 0 \in Nat
    BY EmptySound
  <2> QED  BY <1>1, <2>1
<1>10. BufferTypeOK
  <2>1. tail \in [Lists -> Buffers \cup {NULL}] /\ waiting \in [Tasks -> Requests]
    BY <1>1, <1>5
  <2>2. <<>> \in Seq(Lists) /\ FALSE \in BOOLEAN /\ {} \subseteq Lists
    OBVIOUS
  <2>3. flags \subseteq {"FS_SPACE_AVAILABLE", "FS_DATA_AVAILABLE"}
    BY <1>1
  <2>4. rx_lists \in Seq(Lists) /\ held \subseteq Lists /\ halted \in BOOLEAN
    BY <1>1, <2>2
  <2> QED  BY <1>2, <1>3, <1>4, <1>9, <2>1, <2>3, <2>4 DEF BufferTypeOK, BufferSet
<1>11. Once(buf, chain, total_length, free_buffers)
  <2>1. Fitting(buf) /\ FreeSound(buf, free_buffers)
    BY <1>2, <1>4 DEF Fitting, FreeSound
  <2>2. \A l \in Lists : /\ Sound(buf, chain[l], total_length[l])
                         /\ Disjoint(chain[l], free_buffers)
    BY <1>6, EmptySound DEF Disjoint
  <2>3. \A l, m \in Lists : l # m => Disjoint(chain[l], chain[m])
    BY <1>6, EmptySound DEF Disjoint
  <2> QED  BY <1>2, <1>9, <2>1, <2>2, <2>3 DEF Once
<1>12. ListsOnce(free_lists, rx_lists, held, waiting, chain)
  <2>1. /\ rx_lists \in Seq(Lists) /\ NoDuplicates(rx_lists) /\ ToSet(rx_lists) = {}
        /\ held = {}
    BY <1>1 DEF NoDuplicates, ToSet
  <2>2. \A l \in Lists, t \in Tasks : ~Keeps(waiting, t, l)
    BY <1>5, <1>7 DEF Keeps
  <2> QED  BY <1>3, <1>6, <2>1, <2>2 DEF ListsOnce
<1>13. \A t \in Tasks : Suffices(buf, chain, waiting[t])
  BY <1>5, <1>7 DEF Suffices
<1>14. \A t \in Tasks : NotStarved(waiting[t], Len(free_buffers), Len(free_lists))
  BY <1>7 DEF NotStarved
<1> QED  BY <1>8, <1>10, <1>11, <1>12, <1>13, <1>14 DEF FsInvariant

LEMMA FsKept ==
  FsInvariant /\ [Next]_vars => FsInvariant'
<1> SUFFICES ASSUME FsInvariant, [Next]_vars PROVE FsInvariant'
  OBVIOUS
<1>0. \A l \in held : total_length[l] \in Nat
  BY DEF FsInvariant, BufferTypeOK
<1>1. CASE UNCHANGED vars
  BY <1>1, NothingHappens
<1>2. CASE Push
  BY <1>2, PushStep DEF Push
<1>3. CASE Pull
  BY <1>3, PullStep DEF Pull
<1>4. CASE Update
  <2>1. PICK l \in held, field \in Fields : \E offset \in 0 .. total_length[l] :
          \E from_tail, packed \in BOOLEAN :
            fs_buffer_list_update(l, field, offset, from_tail, packed)
    BY <1>4 DEF Update
  <2>2. PICK offset \in Nat : \E from_tail, packed \in BOOLEAN :
          fs_buffer_list_update(l, field, offset, from_tail, packed)
    BY <1>0, <2>1
  <2> QED  BY <2>2, UpdateStep
<1>5. CASE Divide
  BY <1>5, DivideStep DEF Divide
<1>6. CASE \E mode \in Modes : fs_buffer_get_list(mode)
  BY <1>6, GetListStep
<1>7. CASE \E t \in Tasks : Resumed(t)
  BY <1>7, ResumedStep
<1>8. CASE \E l \in held : fs_buffer_add_list(l)
  BY <1>8, FreeListStep
<1>9. CASE \E l \in held, head \in BOOLEAN : fs_buffer_add_rx(l, head)
  BY <1>9, AddRxStep
<1>10. CASE \E l \in held, field \in Fields : fs_buffer_list_append(l, field)
  BY <1>10, AppendStep
<1>11. CASE \E l, m \in held : fs_buffer_list_move(l, m)
  BY <1>11, MoveStep
<1>12. CASE \E l, m \in held : fs_buffer_list_copy_data(l, m)
  BY <1>12, CopyStep
<1>13. CASE \E l, m \in held, head \in BOOLEAN : fs_buffer_list_move_data(l, m, head)
  BY <1>13, MoveDataStep
<1>14. CASE fs_buffer_get_rx
  BY <1>14, GetRxStep
<1>15. Next \/ UNCHANGED vars
  OBVIOUS
<1> QED  BY <1>15, <1>1, <1>2, <1>3, <1>4, <1>5, <1>6, <1>7, <1>8, <1>9, <1>10, <1>11, <1>12,
            <1>13, <1>14 DEF Next

(* fs_buffer.c: whatever operations run, in whatever order, by whatever    *)
(* tasks, the invariant holds.                                             *)
THEOREM FsAlways ==
  BufferSpec => []FsInvariant
<1> QED  BY FsInitial, FsKept, PTL DEF BufferSpec

(* The variables of fs_buffer.c keep their types, and the data of every    *)
(* buffer fits behind its head room.                                       *)
THEOREM BufferTypesHold ==
  BufferSpec => []BufferTypeOK
<1>1. FsInvariant => BufferTypeOK
  BY DEF FsInvariant
<1> QED  BY <1>1, FsAlways, PTL

(* FS_SPACE_AVAILABLE and FS_DATA_AVAILABLE, which fs_read and fs_write    *)
(* block on, say exactly whether the descriptor holds a free buffer and a  *)
(* received list.                                                          *)
THEOREM FlagsAlwaysExact ==
  BufferSpec => []FlagsExact
<1>1. FsInvariant => FlagsExact
  BY DEF FsInvariant
<1> QED  BY <1>1, FsAlways, PTL

(* No task is left asleep in fs_buffer_suspend when the buffers or lists   *)
(* it waits for are there: fs_buffer_add resumed it.                       *)
THEOREM WaitersNeverStarve ==
  BufferSpec => []NoStarvedWaiter
<1>1. FsInvariant => NoStarvedWaiter
  <2> SUFFICES ASSUME FsInvariant, NEW t \in Tasks, waiting[t] # Idle,
                      Available(waiting[t].type) >= waiting[t].need
               PROVE  waiting[t].resumed
    BY DEF NoStarvedWaiter
  <2>1. waiting[t] \in Requests
    BY DEF FsInvariant, BufferTypeOK
  <2>2. waiting[t].need \in Nat /\ Len(free_buffers) \in Nat /\ Len(free_lists) \in Nat
    BY <2>1, RequestKinds, Counts
  <2>3. NotStarved(waiting[t], Len(free_buffers), Len(free_lists))
    BY DEF FsInvariant
  <2> QED  BY <2>2, <2>3 DEF NotStarved, Available
<1> QED  BY <1>1, FsAlways, PTL


(* The length of a list is the number of bytes that its buffers hold.      *)
LEMMA BytesAdd ==
  ASSUME buf \in BufferSet, NEW list \in Seq(Buffers)
  PROVE  Adds(Sizes(buf), list, Len(BytesIn(list)))
<1>1. PICK w \in [Buffers -> Nat] : w = Sizes(buf) /\ \A b \in Buffers : w[b] = Len(buf[b].data)
  BY SizesType
<1>2. PICK k \in Nat : k = Len(list) /\ \A i \in 1 .. k : list[i] \in Buffers
  OBVIOUS
<1>3. PICK T : T = Seq(1 .. MaxField)
  OBVIOUS
<1>4. <<>> \in T /\ \A b \in Buffers : buf[b].data \in T
  BY <1>3 DEF BufferSet
<1>5. \A s \in T, b \in Buffers :
        BytesTurn(s, b) \in T /\ Len(BytesTurn(s, b)) = Len(s) + w[b]
  <2> TAKE s \in T, b \in Buffers
  <2>1. PICK c, d : c = s /\ d = buf[b].data
    OBVIOUS
  <2>2. c \in Seq(1 .. MaxField) /\ d \in Seq(1 .. MaxField) /\ Len(d) = w[b]
    BY <1>1, <1>3, <1>4, <2>1
  <2>3. c \o d \in Seq(1 .. MaxField) /\ Len(c \o d) = Len(c) + Len(d)
    BY <2>2, ConcatProperties
  <2> QED  BY <1>3, <2>1, <2>2, <2>3 DEF BytesTurn
<1>6. PICK stage \in [0 .. k -> T] :
        /\ stage[0] = <<>> /\ stage[k] = BytesIn(list)
        /\ \A i \in 1 .. k : stage[i] = BytesTurn(stage[i - 1], list[i])
  <2>1. \A s \in T, b \in Buffers : BytesTurn(s, b) \in T
    BY <1>5
  <2>2. \E stage \in [0 .. Len(list) -> T] :
          /\ stage[0] = <<>> /\ stage[Len(list)] = BytesIn(list)
          /\ \A i \in 1 .. Len(list) : stage[i] = BytesTurn(stage[i - 1], list[i])
    BY <1>4, <2>1, BytesStages, SMTT(30)
  <2> QED  BY <1>2, <2>2
<1>7. PICK e : e = [i \in 0 .. k |-> Len(stage[i])]
  OBVIOUS
<1>8. \A i \in 0 .. k : e[i] = Len(stage[i]) /\ e[i] \in Int
  BY <1>3, <1>6, <1>7
<1>9. e \in [0 .. k -> Int] /\ e[0] = 0 /\ e[k] = Len(BytesIn(list))
  <2>1. 0 \in 0 .. k /\ k \in 0 .. k /\ Len(<<>>) = 0
    OBVIOUS
  <2>2. e \in [0 .. k -> Int]
    BY <1>7, <1>8
  <2> QED  BY <1>6, <1>8, <2>1, <2>2
<1>10. \A i \in 1 .. k : e[i] = e[i - 1] + w[list[i]]
  <2> TAKE i \in 1 .. k
  <2>1. i \in 0 .. k /\ i - 1 \in 0 .. k
    OBVIOUS
  <2>2. stage[i - 1] \in T /\ stage[i] = BytesTurn(stage[i - 1], list[i]) /\ list[i] \in Buffers
    BY <1>2, <1>6, <2>1
  <2>3. Len(stage[i]) = Len(stage[i - 1]) + w[list[i]]
    BY <1>5, <2>2
  <2> QED  BY <1>8, <2>1, <2>3
<1> QED  BY <1>1, <1>2, <1>9, <1>10 DEF Adds, IsSum

(* total_length, which fs_buffer_list_pull asserts, is the number of bytes *)
(* of the chain after any operations, and no buffer of a chain is empty.   *)
THEOREM LengthsHold ==
  BufferSpec => []LengthExact
<1>1. FsInvariant => LengthExact
  <2> SUFFICES ASSUME FsInvariant, NEW l \in Lists
               PROVE  /\ total_length[l] = Len(Flat(l))
                      /\ \A b \in ToSet(chain[l]) : buf[b].data # <<>>
    BY DEF LengthExact
  <2>1. /\ Sound(buf, chain[l], total_length[l]) /\ chain[l] \in Seq(Buffers)
        /\ buf \in BufferSet
    BY DEF FsInvariant, Once, Fitting
  <2>2. Adds(Sizes(buf), chain[l], total_length[l]) /\ Len(chain[l]) \in Nat
    BY <2>1 DEF Sound
  <2>3. Adds(Sizes(buf), chain[l], Len(Flat(l)))
    BY <2>1, BytesAdd DEF Flat
  <2>4. total_length[l] = Len(Flat(l))
    BY <2>2, <2>3, AddsUnique
  <2> QED  BY <2>1, <2>4 DEF Sound
<1> QED  BY <1>1, FsAlways, PTL

(* A list without duplicates holds a member at one place.                  *)
PlacesIn(list, x, tag) == {<<tag, i>> : i \in {j \in DOMAIN list : list[j] = x}}

LEMMA OnePlace ==
  ASSUME NEW S, NEW list \in Seq(S), NEW x, NEW tag
  PROVE  /\ x \notin ToSet(list) => PlacesIn(list, x, tag) = {}
         /\ x \in ToSet(list) /\ NoDuplicates(list) => \E p : PlacesIn(list, x, tag) = {p}
<1>1. DOMAIN list = 1 .. Len(list)
  OBVIOUS
<1>2. x \notin ToSet(list) => PlacesIn(list, x, tag) = {}
  BY DEF PlacesIn, ToSet
<1>3. ASSUME x \in ToSet(list), NoDuplicates(list)
      PROVE  \E p : PlacesIn(list, x, tag) = {p}
  <2>1. PICK i \in 1 .. Len(list) : list[i] = x
    BY <1>1, <1>3 DEF ToSet
  <2>2. {j \in DOMAIN list : list[j] = x} = {i}
    BY <1>1, <1>3, <2>1 DEF NoDuplicates
  <2>3. PlacesIn(list, x, tag) = {<<tag, i>>}
    BY <2>2 DEF PlacesIn
  <2> QED  BY <2>3
<1> QED  BY <1>2, <1>3

LEMMA BufferOnce ==
  ASSUME FsInvariant, NEW b \in Buffers
  PROVE  \E p : Places(b) = {p}
<1>1. /\ chain \in [Lists -> Seq(Buffers)] /\ free_buffers \in Seq(Buffers)
      /\ NoDuplicates(free_buffers) /\ \A l \in Lists : NoDuplicates(chain[l])
      /\ \A l \in Lists : ToSet(chain[l]) \cap ToSet(free_buffers) = {}
      /\ \A l, m \in Lists : l # m => ToSet(chain[l]) \cap ToSet(chain[m]) = {}
      /\ b \in ToSet(free_buffers) \/ \E l \in Lists : b \in ToSet(chain[l])
  BY DEF FsInvariant, Once, Sound, FreeSound, Disjoint
<1>2. Places(b) = PlacesIn(free_buffers, b, "free")
                  \cup UNION {PlacesIn(chain[l], b, l) : l \in Lists}
  BY DEF Places, PlacesIn
<1>3. \A l \in Lists : b \notin ToSet(chain[l]) => PlacesIn(chain[l], b, l) = {}
  BY <1>1, OnePlace
<1>4. CASE b \in ToSet(free_buffers)
  <2>1. PICK p : PlacesIn(free_buffers, b, "free") = {p}
    BY <1>1, <1>4, OnePlace
  <2>2. \A l \in Lists : PlacesIn(chain[l], b, l) = {}
    BY <1>1, <1>3, <1>4
  <2>3. Places(b) = {p}
    BY <1>2, <2>1, <2>2
  <2> QED  BY <2>3
<1>5. CASE b \notin ToSet(free_buffers)
  <2>1. PICK l \in Lists : b \in ToSet(chain[l])
    BY <1>1, <1>5
  <2>2. PICK p : PlacesIn(chain[l], b, l) = {p}
    BY <1>1, <2>1, OnePlace
  <2>3. \A m \in Lists : m # l => PlacesIn(chain[m], b, m) = {}
    BY <1>1, <1>3, <2>1
  <2>4. PlacesIn(free_buffers, b, "free") = {}
    BY <1>1, <1>5, OnePlace
  <2>5. Places(b) = {p}
    BY <1>2, <2>1, <2>2, <2>3, <2>4
  <2> QED  BY <2>5
<1> QED  BY <1>4, <1>5

LEMMA ListOnce ==
  ASSUME FsInvariant, NEW l \in Lists
  PROVE  \E p : ListPlaces(l) = {p}
<1>1. ListsOnce(free_lists, rx_lists, held, waiting, chain)
  BY DEF FsInvariant
<1>2. PICK kept : kept = {u \in Tasks : waiting[u].what = "push" /\ waiting[u].list = l}
  OBVIOUS
<1>3. /\ free_lists \in Seq(Lists) /\ rx_lists \in Seq(Lists)
      /\ NoDuplicates(free_lists) /\ NoDuplicates(rx_lists)
      /\ ToSet(free_lists) \cap ToSet(rx_lists) = {} /\ ToSet(free_lists) \cap held = {}
      /\ ToSet(rx_lists) \cap held = {}
      /\ kept # {} <=> l \notin ToSet(free_lists) \cup ToSet(rx_lists) \cup held
      /\ \A t, u \in kept : t = u
  BY <1>1, <1>2 DEF ListsOnce, Keeps
<1>4. ListPlaces(l) = PlacesIn(free_lists, l, "free") \cup PlacesIn(rx_lists, l, "rx")
                      \cup {<<"held", m>> : m \in held \cap {l}}
                      \cup {<<"push", t>> : t \in kept}
  BY <1>2 DEF ListPlaces, PlacesIn
<1>5. /\ l \notin ToSet(free_lists) => PlacesIn(free_lists, l, "free") = {}
      /\ l \in ToSet(free_lists) => \E p : PlacesIn(free_lists, l, "free") = {p}
      /\ l \notin ToSet(rx_lists) => PlacesIn(rx_lists, l, "rx") = {}
      /\ l \in ToSet(rx_lists) => \E p : PlacesIn(rx_lists, l, "rx") = {p}
  BY <1>3, OnePlace
<1>6. /\ l \notin held => {<<"held", m>> : m \in held \cap {l}} = {}
      /\ l \in held => {<<"held", m>> : m \in held \cap {l}} = {<<"held", l>>}
  OBVIOUS
<1>7. /\ kept = {} => {<<"push", t>> : t \in kept} = {}
      /\ kept # {} => \E p : {<<"push", t>> : t \in kept} = {p}
  <2>1. kept # {} => \E t : kept = {t}
    BY <1>3
  <2>2. ASSUME NEW t, kept = {t}
        PROVE  {<<"push", u>> : u \in kept} = {<<"push", t>>}
    BY <2>2
  <2> QED  BY <2>1, <2>2
<1>8. CASE l \in ToSet(free_lists)
  BY <1>3, <1>4, <1>5, <1>6, <1>7, <1>8
<1>9. CASE l \in ToSet(rx_lists)
  BY <1>3, <1>4, <1>5, <1>6, <1>7, <1>9
<1>10. CASE l \in held
  BY <1>3, <1>4, <1>5, <1>6, <1>7, <1>10
<1>11. CASE l \notin ToSet(free_lists) \cup ToSet(rx_lists) \cup held
  BY <1>3, <1>4, <1>5, <1>6, <1>7, <1>11
<1> QED  BY <1>8, <1>9, <1>10, <1>11

(* No buffer and no list is lost, and none is in two places, whatever      *)
(* sequence of operations the lists went through.                          *)
THEOREM NothingIsLost ==
  BufferSpec => []NothingLost
<1>1. FsInvariant => NothingLost
  <2> SUFFICES ASSUME FsInvariant PROVE NothingLost
    OBVIOUS
  <2>1. \A b \in Buffers : Cardinality(Places(b)) = 1
    BY BufferOnce, FS_Singleton
  <2>2. \A l \in Lists : Cardinality(ListPlaces(l)) = 1
    BY ListOnce, FS_Singleton
  <2> QED  BY <2>1, <2>2 DEF NothingLost
<1> QED  BY <1>1, FsAlways, PTL

----------------------------------------------------------------------------
(* Pipes.  The messages that were not read lie one behind the other in     *)
(* what is left of the ring; a place counts on behind the end of the       *)
(* buffer, so that the places of a ring and its cells are one to one.      *)

(* The cells that a message takes.                                         *)
LEMMA Multiples ==
  ASSUME NEW a \in Nat, NEW b \in Nat \ {0}, a % b = 0
  PROVE  \E c \in Nat : a = c * b
<1>1. PICK c \in Int : c = a \div b
  OBVIOUS
<1>2. c * b <= a /\ a < (c + 1) * b
  BY <1>1
<1>3. a = c * b + (a % b)
  BY <1>1, <1>2
<1>4. a = c * b
  BY <1>3
<1>5. c >= 0
  BY <1>4
<1> QED  BY <1>4, <1>5

LEMMA CeilFits ==
  ASSUME NEW n \in Nat, NEW A, A = ALLIGN_CEIL(n)
  PROVE  /\ A \in Nat /\ n <= A
         /\ \A s \in PipeSizes : s >= HEADER + n => s >= HEADER + A
<1>1. PICK b \in Nat \ {0} : b = ALIGN
  BY PipeAssumption
<1>2. PICK c \in Nat : c = n + b - 1
  OBVIOUS
<1>3. PICK q \in Nat : q = c \div b /\ A = q * b
  BY <1>1, <1>2 DEF ALLIGN_CEIL
<1>4. q * b <= c /\ c < (q + 1) * b
  BY <1>3
<1>5. (q + 1) * b = q * b + b
  OBVIOUS
<1>6. A \in Nat /\ A <= c /\ c < A + b
  BY <1>3, <1>4, <1>5
<1>7. n <= A
  BY <1>2, <1>6
<1>8. ASSUME NEW s \in PipeSizes, s >= HEADER + n
      PROVE  s >= HEADER + A
  <2>1. PICK h \in Nat, t \in Nat : HEADER = h * b /\ s = t * b
    <3>1. /\ HEADER \in Nat /\ HEADER % b = 0
          /\ s \in Nat /\ s % b = 0
      BY <1>1, PipeAssumption
    <3>2. (\E d \in Nat : HEADER = d * b) /\ \E d \in Nat : s = d * b
      BY <3>1, Multiples
    <3> QED  BY <3>2
  <2>2. CASE t >= h + q
    <3>1. t * b >= (h + q) * b
      BY <2>2
    <3>2. (h + q) * b = h * b + q * b
      OBVIOUS
    <3> QED  BY <1>3, <2>1, <3>1, <3>2
  <2>3. CASE t < h + q
    <3>1. (t + 1) * b <= (h + q) * b
      BY <2>3
    <3>2. (h + q) * b = h * b + q * b /\ (t + 1) * b = t * b + b
      OBVIOUS
    <3>3. s + b <= HEADER + A
      BY <1>3, <2>1, <3>1, <3>2
    <3>4. s \in Nat /\ HEADER \in Nat
      BY PipeAssumption
    <3> QED  BY <1>2, <1>6, <1>8, <3>3, <3>4
  <2> QED  BY <2>1, <2>2, <2>3
<1> QED  BY <1>6, <1>7, <1>8

(* Arithmetic of a ring of s cells.                                        *)
LEMMA ModuloCell ==
  ASSUME NEW s \in Nat \ {0}, NEW w \in Nat, w < s + s
  PROVE  w % s = IF w < s THEN w ELSE w - s
<1>1. CASE w < s
  BY <1>1
<1>2. CASE ~(w < s)
  <2>1. PICK u \in 0 .. s - 1 : w = u + s
    BY <1>2
  <2>2. (u + s) % s = u
    BY <2>1
  <2> QED  BY <1>2, <2>1, <2>2
<1> QED  BY <1>1, <1>2

(* Places count on behind the end of a buffer of s bytes: place w is at    *)
(* this cell, and a position behind a message moves to this one.           *)
Cell(s, w) == IF w < s THEN w ELSE w - s
Rolled(s, i) == IF i > s THEN i % s ELSE IF i + HEADER > s THEN 0 ELSE i

(* The bytes of a message with its header.                                 *)
Takes(msg) == HEADER + ALLIGN_CEIL(Len(msg))
Messages == {m \in Seq(Nat) : Len(m) \in MessageSizes}

LEMMA MessageNeed ==
  ASSUME NEW msg \in Messages
  PROVE  /\ Len(msg) \in Nat /\ Takes(msg) \in Nat /\ HEADER \in Nat /\ HEADER >= 2
         /\ HEADER + Len(msg) <= Takes(msg)
         /\ \A s \in PipeSizes : Takes(msg) <= s
<1>1. Len(msg) \in MessageSizes /\ Len(msg) \in Nat
  BY PipeAssumption DEF Messages
<1>2. PICK n, A : n \in Nat /\ n = Len(msg) /\ A = ALLIGN_CEIL(n)
  BY <1>1
<1>3. /\ A \in Nat /\ n <= A
      /\ \A s \in PipeSizes : s >= HEADER + n => s >= HEADER + A
  BY <1>2, CeilFits
<1>4. Takes(msg) = HEADER + A
  BY <1>2 DEF Takes
<1>5. /\ HEADER \in Nat /\ HEADER >= 2
      /\ \A s \in PipeSizes : s \in Nat /\ s >= HEADER + n
  BY <1>1, <1>2, PipeAssumption
<1>6. \A s \in PipeSizes : HEADER + A <= s
  BY <1>3, <1>5
<1> QED  BY <1>1, <1>2, <1>3, <1>4, <1>5, <1>6

(* The message msg lies at place w.                                        *)
LiesAt(s, data, w, msg) ==
  /\ Cell(s, w) + HEADER <= s
  /\ data[Cell(s, w)] = 1 /\ data[Cell(s, w + 1)] = Len(msg)
  /\ \A k \in 1 .. Len(msg) : data[Cell(s, w + HEADER + k - 1)] = msg[k]

(* The messages lie at the places v, one behind the other, within the ring *)
(* that begins at the first; the next goes to the last place.              *)
Laid(s, data, msgs, v, n) ==
  /\ n = Len(msgs) /\ v[n + 1] <= v[1] + s
  /\ \A i, j \in 1 .. n + 1 : i < j => v[i] + Takes(msgs[i]) <= v[j]
  /\ \A i \in 1 .. n :
       /\ LiesAt(s, data, v[i], msgs[i])
       /\ Cell(s, v[i + 1]) = Rolled(s, Cell(s, v[i]) + Takes(msgs[i]))

PipeTypes ==
  /\ pipe_size \in PipeSizes /\ pipe_data \in [0 .. pipe_size - 1 -> Nat]
  /\ pipe_message \in Nat /\ pipe_message + HEADER <= pipe_size
  /\ pipe_free \in Nat /\ pipe_free + HEADER <= pipe_size
  /\ unread \in Seq(Messages) /\ mark \in Nat

PipeInvariant ==
  /\ PipeTypes
  /\ \E n \in Nat : \E v \in [1 .. n + 1 -> Nat] :
       /\ Laid(pipe_size, pipe_data, unread, v, n)
       /\ v[1] = pipe_message /\ Cell(pipe_size, v[n + 1]) = pipe_free
  /\ unread = <<>> => pipe_message = 0 /\ pipe_free = 0 /\ pipe_data[0] = 0
  /\ "DATA" \in pipe_flags <=> unread # <<>>

LEMMA PipeSize ==
  ASSUME NEW s \in PipeSizes
  PROVE  s \in Nat \ {0} /\ HEADER \in Nat \ {0} /\ HEADER >= 2 /\ s >= HEADER
BY PipeAssumption

(* A position behind a message is the cell of a place that is not before   *)
(* the end of the message, and a header fits there.                        *)
LEMMA NextPlace ==
  ASSUME NEW s \in PipeSizes, NEW v \in Nat, NEW need \in Nat, NEW m \in Nat, m + HEADER <= s,
         v + need < m + s \/ (m = 0 /\ v + need <= s),
         v >= s => v - s + need + HEADER <= s
  PROVE  \E w \in Nat : /\ v + need <= w /\ w <= m + s /\ Cell(s, w) + HEADER <= s
                        /\ Cell(s, w) = Rolled(s, Cell(s, v) + need)
<1>1. PICK h \in Nat \ {0} : h = HEADER /\ h <= s /\ s \in Nat \ {0}
  BY PipeSize
<1>2. m < s /\ v + need <= m + s /\ m + h <= s
  BY <1>1
<1>3. CASE v >= s
  <2>1. PICK p \in Nat : v = p + s
    BY <1>1, <1>3
  <2>2. Cell(s, v) = p /\ p + need + h <= s
    BY <1>1, <2>1 DEF Cell
  <2>3. Rolled(s, p + need) = p + need
    BY <1>1, <2>2 DEF Rolled
  <2>4. Cell(s, v + need) = p + need
    BY <1>1, <2>1, <2>2 DEF Cell
  <2> QED  BY <1>1, <1>2, <2>2, <2>3, <2>4
<1>4. CASE v < s
  <2>1. Cell(s, v) = v
    BY <1>1, <1>4 DEF Cell
  <2>2. CASE v + need > s
    <3>1. PICK w \in Nat : w = v + need /\ w < s + s /\ ~(w < s) /\ w > s
      BY <1>1, <1>2, <2>2
    <3>2. w % s = w - s
      BY <1>1, <3>1, ModuloCell
    <3>3. Rolled(s, w) = w - s /\ Cell(s, w) = w - s
      BY <1>1, <3>1, <3>2 DEF Rolled, Cell
    <3>4. w - s + h <= s /\ w <= m + s
      BY <1>1, <1>2, <3>1
    <3> QED  BY <1>1, <2>1, <3>1, <3>3, <3>4
  <2>3. CASE v + need <= s /\ v + need + h > s
    <3>1. Rolled(s, v + need) = 0 /\ Cell(s, s) = 0
      BY <1>1, <2>3 DEF Rolled, Cell
    <3>2. s <= m + s
      BY <1>1, <1>2
    <3> QED  BY <1>1, <2>1, <2>3, <3>1, <3>2
  <2>4. CASE v + need + h <= s
    <3>1. Rolled(s, v + need) = v + need /\ Cell(s, v + need) = v + need
      BY <1>1, <2>4 DEF Rolled, Cell
    <3> QED  BY <1>1, <1>2, <2>1, <2>4, <3>1
  <2> QED  BY <1>1, <2>2, <2>3, <2>4
<1> QED  BY <1>1, <1>3, <1>4

(* Each cell is at one place of the ring that begins at m.                 *)
LEMMA OneCell ==
  ASSUME NEW s \in Nat \ {0}, NEW m \in Nat, m < s,
         NEW a \in Nat, m <= a, a < m + s, NEW b \in Nat, m <= b, b < m + s,
         Cell(s, a) = Cell(s, b)
  PROVE  a = b
BY DEF Cell

LEMMA CellInRing ==
  ASSUME NEW s \in Nat \ {0}, NEW a \in Nat, a < s + s
  PROVE  Cell(s, a) \in 0 .. s - 1
BY DEF Cell

(* Byte k of a message whose header is at place w.                         *)
LEMMA AtCell ==
  ASSUME PipeTypes, NEW w \in Nat, NEW k \in Nat \ {0}, w + HEADER + k - 1 < pipe_size + pipe_size,
         Cell(pipe_size, w) + HEADER <= pipe_size
  PROVE  At(Cell(pipe_size, w), k) = Cell(pipe_size, w + HEADER + k - 1)
<1>1. PICK s \in Nat \ {0}, h \in Nat \ {0} : s = pipe_size /\ h = HEADER
  BY PipeSize DEF PipeTypes
<1>2. CASE w < s
  <2>1. PICK a \in Nat : a = w + h + k - 1 /\ a < s + s
    BY <1>1
  <2>2. a % s = Cell(s, a)
    BY <2>1, ModuloCell DEF Cell
  <2>3. Cell(s, w) = w
    BY <1>2 DEF Cell
  <2> QED  BY <1>1, <2>1, <2>2, <2>3 DEF At
<1>3. CASE ~(w < s)
  <2>1. PICK p \in Nat : w = p + s
    BY <1>3
  <2>2. PICK a \in Nat : a = p + h + k - 1 /\ a < s
    BY <1>1, <2>1
  <2>3. Cell(s, w) = p /\ Cell(s, w + h + k - 1) = a /\ a % s = a
    BY <2>1, <2>2 DEF Cell
  <2> QED  BY <1>1, <2>2, <2>3 DEF At
<1> QED  BY <1>2, <1>3

LEMMA RollOverRolled ==
  ASSUME NEW i
  PROVE  RollOver(i) = Rolled(pipe_size, i)
BY DEF RollOver, Rolled

(* The places of the messages rise.                                        *)
LEMMA PlacesRise ==
  ASSUME NEW s \in PipeSizes, NEW data, NEW msgs \in Seq(Messages), NEW n \in Nat,
         NEW v \in [1 .. n + 1 -> Nat], Laid(s, data, msgs, v, n)
  PROVE  /\ \A i \in 1 .. n : /\ msgs[i] \in Messages /\ Takes(msgs[i]) \in Nat
                              /\ v[i] + Takes(msgs[i]) <= v[i + 1]
                              /\ v[i] + Takes(msgs[i]) <= v[n + 1]
                              /\ v[i] < v[i + 1] /\ v[i] < v[n + 1] /\ v[1] <= v[i]
         /\ \A i \in 1 .. n + 1 : v[i] \in Nat /\ v[1] <= v[i] /\ v[i] <= v[n + 1]
         /\ \A i \in 2 .. n + 1 : v[2] <= v[i]
<1>1. \A i \in 1 .. n : /\ msgs[i] \in Messages /\ Takes(msgs[i]) \in Nat /\ Takes(msgs[i]) >= 2
  <2> TAKE i \in 1 .. n
  <2>1. msgs[i] \in Messages
    BY DEF Laid
  <2>2. PICK msg, need : msg \in Messages /\ msg = msgs[i] /\ need = Takes(msg)
    BY <2>1
  <2>3. need \in Nat /\ HEADER \in Nat /\ HEADER >= 2 /\ HEADER + Len(msg) <= need /\ Len(msg) \in Nat
    BY <2>2, MessageNeed
  <2> QED  BY <2>2, <2>3
<1>2. \A i, j \in 1 .. n + 1 : i < j => v[i] + Takes(msgs[i]) <= v[j]
  BY DEF Laid
<1>3. \A i \in 1 .. n + 1 : v[i] \in Nat
  OBVIOUS
<1>4. \A i, j \in 1 .. n + 1 : i < j => v[i] < v[j]
  <2> SUFFICES ASSUME NEW i \in 1 .. n + 1, NEW j \in 1 .. n + 1, i < j
               PROVE  v[i] < v[j]
    OBVIOUS
  <2>1. i \in 1 .. n
    OBVIOUS
  <2>2. v[i] + Takes(msgs[i]) <= v[j]
    BY <1>2
  <2>3. v[i] \in Nat /\ v[j] \in Nat /\ Takes(msgs[i]) \in Nat /\ Takes(msgs[i]) >= 2
    BY <1>1, <1>3, <2>1
  <2> QED  BY <2>2, <2>3
<1>5. \A i, j \in 1 .. n + 1 : i <= j => v[i] <= v[j]
  <2> SUFFICES ASSUME NEW i \in 1 .. n + 1, NEW j \in 1 .. n + 1, i <= j
               PROVE  v[i] <= v[j]
    OBVIOUS
  <2>1. CASE i = j
    BY <1>3, <2>1
  <2>2. CASE i < j
    BY <1>3, <1>4, <2>2
  <2> QED  BY <2>1, <2>2
<1>6. 1 \in 1 .. n + 1 /\ n + 1 \in 1 .. n + 1
  OBVIOUS
<1>7. \A i \in 1 .. n + 1 : v[i] \in Nat /\ v[1] <= v[i] /\ v[i] <= v[n + 1]
  BY <1>3, <1>5, <1>6
<1>8. \A i \in 2 .. n + 1 : v[2] <= v[i]
  <2> TAKE i \in 2 .. n + 1
  <2>1. 2 \in 1 .. n + 1 /\ i \in 1 .. n + 1 /\ 2 <= i
    OBVIOUS
  <2> QED  BY <1>5, <2>1
<1>9. \A i \in 1 .. n : /\ v[i] + Takes(msgs[i]) <= v[i + 1] /\ v[i] + Takes(msgs[i]) <= v[n + 1]
                        /\ v[i] < v[i + 1] /\ v[i] < v[n + 1]
  <2> TAKE i \in 1 .. n
  <2>1. i \in 1 .. n + 1 /\ i + 1 \in 1 .. n + 1 /\ i < i + 1 /\ i < n + 1
    OBVIOUS
  <2> QED  BY <1>2, <1>4, <1>6, <2>1
<1>10. \A i \in 1 .. n : i \in 1 .. n + 1
  OBVIOUS
<1> QED  BY <1>1, <1>7, <1>8, <1>9, <1>10

(* The first message is at pipe_message.                                   *)
LEMMA FirstMessage ==
  ASSUME PipeInvariant, unread # <<>>
  PROVE  /\ pipe_data[pipe_message] = 1
         /\ pipe_data[pipe_message + 1] = Len(unread[1]) /\ unread[1] \in Messages
         /\ \A k \in 1 .. Len(unread[1]) : pipe_data[At(pipe_message, k)] = unread[1][k]
<1>1. PICK s \in Nat \ {0}, h \in Nat \ {0} : s = pipe_size /\ h = HEADER /\ h >= 2 /\ h <= s
  BY PipeSize DEF PipeInvariant, PipeTypes
<1>2. PICK n, v : /\ n \in Nat /\ v \in [1 .. n + 1 -> Nat]
                  /\ Laid(pipe_size, pipe_data, unread, v, n) /\ v[1] = pipe_message
  BY DEF PipeInvariant
<1>3. n >= 1
  <2>1. n = Len(unread) /\ unread \in Seq(Messages)
    BY <1>2 DEF Laid, PipeInvariant, PipeTypes
  <2> QED  BY <1>2, <2>1, EmptySeq
<1>4. PICK msg, m : /\ msg = unread[1] /\ m = pipe_message /\ msg \in Messages /\ m \in Nat
                    /\ m + h <= s /\ LiesAt(s, pipe_data, m, msg)
                    /\ m + Takes(msg) <= m + s /\ pipe_size \in PipeSizes
  <2>1. 1 \in 1 .. n
    BY <1>2, <1>3
  <2>2. /\ unread[1] \in Messages /\ v[1] + Takes(unread[1]) <= v[n + 1]
        /\ Takes(unread[1]) \in Nat /\ v[n + 1] \in Nat
    <3>1. pipe_size \in PipeSizes /\ unread \in Seq(Messages)
      BY DEF PipeInvariant, PipeTypes
    <3>2. PICK s0, msgs, data : /\ s0 \in PipeSizes /\ msgs \in Seq(Messages) /\ s0 = pipe_size
                                /\ msgs = unread /\ data = pipe_data
      BY <3>1
    <3>3. Laid(s0, data, msgs, v, n)
      BY <1>2, <3>2
    <3>4. /\ \A i \in 1 .. n : msgs[i] \in Messages /\ Takes(msgs[i]) \in Nat
                             /\ v[i] + Takes(msgs[i]) <= v[n + 1]
          /\ \A i \in 1 .. n + 1 : v[i] \in Nat
      BY <1>2, <3>2, <3>3, PlacesRise
    <3>5. n + 1 \in 1 .. n + 1
      BY <1>2
    <3> QED  BY <2>1, <3>2, <3>4, <3>5
  <2>3. LiesAt(pipe_size, pipe_data, v[1], unread[1]) /\ v[n + 1] <= v[1] + pipe_size
    BY <1>2, <2>1 DEF Laid
  <2>4. pipe_message \in Nat /\ pipe_message + HEADER <= pipe_size /\ pipe_size \in PipeSizes
    BY DEF PipeInvariant, PipeTypes
  <2> QED  BY <1>1, <1>2, <2>2, <2>3, <2>4
<1>5. Cell(s, m) = m /\ Cell(s, m + 1) = m + 1
  BY <1>1, <1>4 DEF Cell
<1>6. \A k \in 1 .. Len(msg) : pipe_data[At(m, k)] = msg[k]
  <2> TAKE k \in 1 .. Len(msg)
  <2>1. Len(msg) \in Nat /\ Takes(msg) \in Nat /\ h + Len(msg) <= Takes(msg)
    BY <1>1, <1>4, MessageNeed
  <2>2. k \in Nat \ {0} /\ m + h + k - 1 < s + s
    BY <1>1, <1>4, <2>1
  <2>3. At(m, k) = Cell(s, m + h + k - 1)
    <3>1. At(Cell(pipe_size, m), k) = Cell(pipe_size, m + HEADER + k - 1)
      BY <1>1, <1>4, <1>5, <2>2, AtCell DEF PipeInvariant
    <3> QED  BY <1>1, <1>5, <3>1
  <2> QED  BY <1>1, <1>4, <2>3 DEF LiesAt
<1> QED  BY <1>4, <1>5, <1>6 DEF LiesAt

LEMMA PipeInvariantExact == PipeInvariant => PipeExact
<1> SUFFICES ASSUME PipeInvariant PROVE PipeExact
  OBVIOUS
<1>1. CASE unread = <<>>
  <2>1. pipe_message = 0 /\ pipe_data[0] = 0 /\ ("DATA" \in pipe_flags <=> unread # <<>>)
    BY <1>1 DEF PipeInvariant
  <2> QED  BY <1>1, <2>1 DEF PipeExact, Valid
<1>2. CASE unread # <<>>
  <2>1. PICK msg : msg = unread[1]
    OBVIOUS
  <2>2. /\ pipe_data[pipe_message] = 1
        /\ pipe_data[pipe_message + 1] = Len(msg) /\ msg \in Messages
        /\ \A k \in 1 .. Len(msg) : pipe_data[At(pipe_message, k)] = msg[k]
    BY <1>2, <2>1, FirstMessage
  <2>3. ReadBytes = [k \in 1 .. Len(msg) |-> pipe_data[At(pipe_message, k)]]
    BY <2>2 DEF ReadBytes
  <2>4. msg \in [1 .. Len(msg) -> Nat]
    BY <2>2 DEF Messages
  <2>5. ReadBytes = msg
    BY <2>2, <2>3, <2>4
  <2>6. Head(unread) = msg
    BY <1>2, <2>1 DEF PipeInvariant, PipeTypes
  <2>7. "DATA" \in pipe_flags <=> unread # <<>>
    BY DEF PipeInvariant
  <2> QED  BY <1>2, <2>2, <2>5, <2>6, <2>7 DEF PipeExact, Valid
<1> QED  BY <1>1, <1>2

LEMMA PipeInitial == PipeInit => PipeInvariant
<1> SUFFICES ASSUME PipeInit PROVE PipeInvariant
  OBVIOUS
<1>1. /\ pipe_size \in PipeSizes /\ pipe_data = [i \in 0 .. pipe_size - 1 |-> 0]
      /\ pipe_message = 0 /\ pipe_free = 0 /\ pipe_flags = {"SPACE"} /\ unread = <<>> /\ mark = 0
  BY DEF PipeInit
<1>2. /\ pipe_size \in Nat \ {0} /\ HEADER \in Nat /\ pipe_size >= HEADER
  BY <1>1, PipeSize
<1>3. PipeTypes
  BY <1>1, <1>2 DEF PipeTypes
<1>4. PICK v : v = [i \in 1 .. 0 + 1 |-> 0]
  OBVIOUS
<1>5. v \in [1 .. 0 + 1 -> Nat] /\ v[1] = 0 /\ v[0 + 1] = 0
  BY <1>4
<1>6. Laid(pipe_size, pipe_data, unread, v, 0)
  <2>1. Len(unread) = 0
    BY <1>1
  <2> QED  BY <1>2, <1>5, <2>1 DEF Laid
<1>7. Cell(pipe_size, v[0 + 1]) = 0
  BY <1>2, <1>5 DEF Cell
<1>8. \E n \in Nat : \E w \in [1 .. n + 1 -> Nat] :
        /\ Laid(pipe_size, pipe_data, unread, w, n)
        /\ w[1] = pipe_message /\ Cell(pipe_size, w[n + 1]) = pipe_free
  BY <1>1, <1>5, <1>6, <1>7
<1> QED  BY <1>1, <1>2, <1>3, <1>8 DEF PipeInvariant

(* A message is written only where it fits before the first one.           *)
LEMMA WriteRoom ==
  ASSUME PipeInvariant, NEW msg \in Messages, ~Valid \/ Room(Takes(msg)),
         NEW n \in Nat, NEW v \in [1 .. n + 1 -> Nat],
         Laid(pipe_size, pipe_data, unread, v, n), v[1] = pipe_message,
         Cell(pipe_size, v[n + 1]) = pipe_free
  PROVE  /\ \/ v[n + 1] + Takes(msg) < pipe_message + pipe_size
            \/ pipe_message = 0 /\ v[n + 1] + Takes(msg) <= pipe_size
         /\ v[n + 1] >= pipe_size => v[n + 1] - pipe_size + Takes(msg) + HEADER <= pipe_size
<1>1. PICK s \in Nat \ {0}, h \in Nat \ {0}, need \in Nat, m \in Nat, f \in Nat, w \in Nat :
        /\ s = pipe_size /\ h = HEADER /\ need = Takes(msg) /\ m = pipe_message /\ f = pipe_free
        /\ w = v[n + 1] /\ h <= s /\ need <= s /\ m + h <= s /\ f + h <= s
  <2>1. pipe_size \in PipeSizes /\ pipe_message \in Nat /\ pipe_free \in Nat
        /\ pipe_message + HEADER <= pipe_size /\ pipe_free + HEADER <= pipe_size
    BY DEF PipeInvariant, PipeTypes
  <2>2. pipe_size \in Nat \ {0} /\ HEADER \in Nat \ {0} /\ pipe_size >= HEADER
    BY <2>1, PipeSize
  <2>3. Takes(msg) \in Nat /\ Takes(msg) <= pipe_size
    BY <2>1, MessageNeed
  <2>4. v[n + 1] \in Nat
    OBVIOUS
  <2> QED  BY <2>1, <2>2, <2>3, <2>4
<1>2. Cell(s, w) = f
  BY <1>1
<1>3. CASE unread = <<>>
  <2>1. n = 0
    <3>1. Len(<<>>) = 0
      OBVIOUS
    <3> QED  BY <1>3, <3>1 DEF Laid
  <2>2. w = 0 /\ m = 0
    BY <1>1, <1>3, <2>1 DEF PipeInvariant
  <2> QED  BY <1>1, <2>2
<1>4. CASE unread # <<>>
  <2>1. Valid
    BY <1>4, FirstMessage DEF Valid
  <2>2. \/ f > m /\ f + need < s + m
        \/ f < m /\ f + need < m
    BY <1>1, <2>1 DEF Room
  <2>3. w > m /\ w <= m + s
    <3>1. n >= 1
      <4>1. n = Len(unread) /\ unread \in Seq(Messages)
        BY DEF Laid, PipeInvariant, PipeTypes
      <4> QED  BY <1>4, <4>1, EmptySeq
    <3>2. PICK s0, msgs, data : /\ s0 \in PipeSizes /\ msgs \in Seq(Messages) /\ s0 = pipe_size
                                /\ msgs = unread /\ data = pipe_data
      BY DEF PipeInvariant, PipeTypes
    <3>3. Laid(s0, data, msgs, v, n)
      BY <3>2
    <3>4. \A i \in 1 .. n : v[i] < v[n + 1]
      BY <3>2, <3>3, PlacesRise
    <3>5. v[n + 1] <= v[1] + pipe_size
      BY DEF Laid
    <3> QED  BY <1>1, <3>1, <3>4, <3>5
  <2>4. CASE w < s
    <3>1. f = w
      BY <1>2, <2>4 DEF Cell
    <3> QED  BY <1>1, <2>2, <2>3, <2>4, <3>1
  <2>5. CASE ~(w < s)
    <3>1. f = w - s
      BY <1>2, <2>5 DEF Cell
    <3>2. f < m /\ f + need < m
      BY <1>1, <2>2, <2>3, <3>1
    <3>3. w = f + s /\ m + h <= s
      BY <1>1, <2>5, <3>1
    <3>4. f + s + need < m + s /\ f + s - s + need + h <= s
      BY ONLY f \in Nat, s \in Nat, need \in Nat, m \in Nat, h \in Nat, <3>2, <3>3
    <3> QED  BY <1>1, <3>3, <3>4
  <2> QED  BY <2>4, <2>5
<1> QED  BY <1>3, <1>4

(* What a write leaves in the buffer.                                      *)
Hit(i, f, msg) == \E k \in DOMAIN msg : i = At(f, k)
ByteOf(i, f, msg) == msg[CHOOSE k \in DOMAIN msg : i = At(f, k)]
Written(data, f, msg) ==
  [i \in DOMAIN data |->
     CASE i = f -> 1
       [] i = f + 1 -> Len(msg)
       [] Hit(i, f, msg) -> ByteOf(i, f, msg)
       [] OTHER -> data[i]]

LEMMA WriteLays ==
  ASSUME PipeTypes, NEW w \in Nat, Cell(pipe_size, w) = pipe_free, NEW msg \in Messages,
         pipe_message <= w, w + Takes(msg) <= pipe_message + pipe_size,
         NEW new, new = Written(pipe_data, pipe_free, msg)
  PROVE  /\ new \in [0 .. pipe_size - 1 -> Nat] /\ LiesAt(pipe_size, new, w, msg)
         /\ \A a \in Nat : pipe_message <= a /\ a < w
                             => new[Cell(pipe_size, a)] = pipe_data[Cell(pipe_size, a)]
<1>1. PICK s \in Nat \ {0}, h \in Nat \ {0}, need \in Nat, m \in Nat, f \in Nat, len \in Nat :
        /\ s = pipe_size /\ h = HEADER /\ need = Takes(msg) /\ m = pipe_message /\ f = pipe_free
        /\ len = Len(msg) /\ h >= 2 /\ h + len <= need /\ m + h <= s /\ f + h <= s
  <2>1. pipe_size \in PipeSizes /\ pipe_message \in Nat /\ pipe_free \in Nat
        /\ pipe_message + HEADER <= pipe_size /\ pipe_free + HEADER <= pipe_size
    BY DEF PipeTypes
  <2>2. pipe_size \in Nat \ {0} /\ HEADER \in Nat \ {0}
    BY <2>1, PipeSize
  <2> QED  BY <2>1, <2>2, MessageNeed
<1>2. m <= w /\ w + need <= m + s /\ m < s /\ Cell(s, w) = f
  BY <1>1
<1>3. Cell(s, w + 1) = f + 1 /\ f + 1 < s
  BY <1>1, <1>2 DEF Cell
<1>4. PICK at : at = [k \in 1 .. len |-> At(f, k)]
  OBVIOUS
<1>5. \A k \in 1 .. len : at[k] = At(f, k) /\ at[k] = Cell(s, w + h + k - 1)
  <2> TAKE k \in 1 .. len
  <2>1. k \in Nat \ {0} /\ w + h + k - 1 < s + s
    BY <1>1, <1>2
  <2>2. At(Cell(pipe_size, w), k) = Cell(pipe_size, w + HEADER + k - 1)
    BY <1>1, <2>1, AtCell
  <2> QED  BY <1>1, <1>4, <2>2
<1>6. \A a, b \in Nat : m <= a /\ a < m + s /\ m <= b /\ b < m + s /\ Cell(s, a) = Cell(s, b) => a = b
  BY <1>2, OneCell
<1>7. \A a \in Nat : a < s + s => Cell(s, a) \in 0 .. s - 1
  BY CellInRing
<1>8. /\ \A k \in 1 .. len : at[k] # f /\ at[k] # f + 1 /\ at[k] \in 0 .. s - 1
      /\ \A j, k \in 1 .. len : at[j] = at[k] => j = k
  <2>1. \A k \in 1 .. len : /\ w + h + k - 1 \in Nat /\ m <= w + h + k - 1 /\ w + h + k - 1 < m + s
                            /\ w + h + k - 1 < s + s /\ w + h + k - 1 # w /\ w + h + k - 1 # w + 1
    BY <1>1, <1>2
  <2>2. w + 1 \in Nat /\ m <= w + 1 /\ w + 1 < m + s /\ w < m + s
    BY <1>1, <1>2
  <2>3. \A k \in 1 .. len : at[k] # f /\ at[k] # f + 1 /\ at[k] \in 0 .. s - 1
    <3> TAKE k \in 1 .. len
    <3>1. PICK b \in Nat : /\ b = w + h + k - 1 /\ m <= b /\ b < m + s /\ b < s + s
                          /\ b # w /\ b # w + 1
      BY <2>1
    <3>2. at[k] = Cell(s, b)
      BY <1>5, <3>1
    <3>3. Cell(s, b) # Cell(s, w) /\ Cell(s, b) # Cell(s, w + 1)
      BY <1>2, <1>6, <2>2, <3>1
    <3>4. Cell(s, b) \in 0 .. s - 1
      BY <1>7, <3>1
    <3> QED  BY <1>2, <1>3, <3>2, <3>3, <3>4
  <2>4. ASSUME NEW j \in 1 .. len, NEW k \in 1 .. len, at[j] = at[k]
        PROVE  j = k
    <3>1. w + h + j - 1 = w + h + k - 1
      BY <1>5, <1>6, <2>1, <2>4
    <3> QED  BY <3>1
  <2> QED  BY <2>3, <2>4
<1>9. /\ DOMAIN msg = 1 .. len /\ DOMAIN pipe_data = 0 .. s - 1
      /\ \A k \in 1 .. len : msg[k] \in Nat
      /\ \A i \in 0 .. s - 1 : pipe_data[i] \in Nat
  <2>1. msg \in Seq(Nat)
    BY DEF Messages
  <2>2. pipe_data \in [0 .. s - 1 -> Nat]
    BY <1>1 DEF PipeTypes
  <2>3. DOMAIN msg = 1 .. len /\ \A k \in 1 .. len : msg[k] \in Nat
    <3>1. len = Len(msg)
      BY <1>1
    <3> QED  BY ONLY <2>1, <3>1
  <2>4. DOMAIN pipe_data = 0 .. s - 1 /\ \A i \in 0 .. s - 1 : pipe_data[i] \in Nat
    BY ONLY <2>2
  <2> QED  BY <2>3, <2>4
<1>10. \A i \in 0 .. s - 1 :
         /\ i = f => new[i] = 1
         /\ i = f + 1 => new[i] = len
         /\ i # f /\ i # f + 1 /\ Hit(i, f, msg) => new[i] = ByteOf(i, f, msg)
         /\ i # f /\ i # f + 1 /\ ~Hit(i, f, msg) => new[i] = pipe_data[i]
  <2> TAKE i \in 0 .. s - 1
  <2>1. new[i] = CASE i = f -> 1
                   [] i = f + 1 -> len
                   [] Hit(i, f, msg) -> ByteOf(i, f, msg)
                   [] OTHER -> pipe_data[i]
    BY <1>1, <1>9 DEF Written
  <2>2. CASE i = f
    <3>1. f # f + 1
      BY <1>1
    <3>2. ~Hit(i, f, msg)
      BY <1>5, <1>8, <1>9, <2>2 DEF Hit
    <3> QED  BY <2>1, <2>2, <3>1, <3>2
  <2>3. CASE i = f + 1
    <3>1. i # f
      BY <1>1, <2>3
    <3>2. ~Hit(i, f, msg)
      BY <1>5, <1>8, <1>9, <2>3 DEF Hit
    <3> QED  BY <2>1, <2>3, <3>1, <3>2
  <2>4. CASE i # f /\ i # f + 1 /\ Hit(i, f, msg)
    BY <2>1, <2>4
  <2>5. CASE i # f /\ i # f + 1 /\ ~Hit(i, f, msg)
    BY <2>1, <2>5
  <2> QED  BY <2>2, <2>3, <2>4, <2>5
<1>11. f \in 0 .. s - 1 /\ f + 1 \in 0 .. s - 1
  BY <1>1, <1>3
<1>12. new[f] = 1
  BY <1>10, <1>11
<1>13. new[f + 1] = len
  BY <1>10, <1>11
<1>14. \A k \in 1 .. len : new[at[k]] = msg[k]
  <2> TAKE k \in 1 .. len
  <2>1. PICK i \in 0 .. s - 1 : i = at[k] /\ i # f /\ i # f + 1 /\ i = At(f, k)
    BY <1>5, <1>8
  <2>2. PICK c : c = CHOOSE j \in DOMAIN msg : i = At(f, j)
    OBVIOUS
  <2>3. c \in 1 .. len /\ i = At(f, c)
    BY <1>9, <2>1, <2>2
  <2>4. c = k
    BY <1>5, <1>8, <2>1, <2>3
  <2>5. Hit(i, f, msg) /\ ByteOf(i, f, msg) = msg[c]
    BY <1>9, <2>1, <2>2 DEF Hit, ByteOf
  <2> QED  BY <1>10, <2>1, <2>4, <2>5
<1>15. \A i \in 0 .. s - 1 : i # f /\ i # f + 1 /\ (\A k \in 1 .. len : i # at[k]) => new[i] = pipe_data[i]
  <2> SUFFICES ASSUME NEW i \in 0 .. s - 1, i # f, i # f + 1, \A k \in 1 .. len : i # at[k]
               PROVE  new[i] = pipe_data[i]
    OBVIOUS
  <2>1. ~Hit(i, f, msg)
    BY <1>5, <1>9 DEF Hit
  <2> QED  BY <1>10, <2>1
<1>16. \A i \in 0 .. s - 1 : new[i] \in Nat
  <2> TAKE i \in 0 .. s - 1
  <2>1. CASE i = f \/ i = f + 1
    BY <1>12, <1>13, <2>1
  <2>2. CASE \E k \in 1 .. len : i = at[k]
    BY <1>9, <1>14, <2>2
  <2>3. CASE i # f /\ i # f + 1 /\ \A k \in 1 .. len : i # at[k]
    BY <1>9, <1>15, <2>3
  <2> QED  BY <2>1, <2>2, <2>3
<1>17. new \in [0 .. s - 1 -> Nat]
  <2>1. new = [i \in 0 .. s - 1 |-> new[i]]
    BY <1>9 DEF Written
  <2> QED  BY <1>16, <2>1
<1>18. LiesAt(s, new, w, msg)
  BY <1>1, <1>2, <1>3, <1>5, <1>12, <1>13, <1>14 DEF LiesAt
<1>19. ASSUME NEW a \in Nat, m <= a, a < w
       PROVE  new[Cell(s, a)] = pipe_data[Cell(s, a)]
  <2>1. PICK i \in 0 .. s - 1 : i = Cell(s, a)
    <3>1. a < s + s
      BY <1>1, <1>2, <1>19
    <3> QED  BY <1>7, <3>1
  <2>2. a < m + s /\ w < m + s /\ w + 1 < m + s /\ w + 1 \in Nat /\ m <= w + 1 /\ a # w /\ a # w + 1
    BY <1>1, <1>2, <1>19
  <2>3. i # f /\ i # f + 1
    BY <1>2, <1>3, <1>6, <1>19, <2>1, <2>2
  <2>4. \A k \in 1 .. len : i # at[k]
    <3> TAKE k \in 1 .. len
    <3>1. PICK b \in Nat : b = w + h + k - 1 /\ m <= b /\ b < m + s /\ a # b
      BY <1>1, <1>2, <1>19
    <3>2. at[k] = Cell(s, b)
      BY <1>5, <3>1
    <3> QED  BY <1>6, <1>19, <2>1, <2>2, <3>1, <3>2
  <2> QED  BY <1>15, <2>1, <2>3, <2>4
<1> QED  BY <1>1, <1>17, <1>18, <1>19

(* The places from a to b hold the same in both buffers.                   *)
Same(s, new, data, a, b) ==
  \A c \in Nat : a <= c /\ c < b => new[Cell(s, c)] = data[Cell(s, c)]

(* The messages lie from place m to place w.                               *)
LaidTo(s, data, msgs, n, m, w) ==
  \E v \in [1 .. n + 1 -> Nat] : Laid(s, data, msgs, v, n) /\ v[1] = m /\ v[n + 1] = w

(* The message msg is added to the data behind the n messages at v, and    *)
(* the next one goes to place w.                                           *)
Added(s, data, new, v, n, msg, w) ==
  /\ v[1] < s /\ LiesAt(s, new, v[n + 1], msg) /\ Same(s, new, data, v[1], v[n + 1])
  /\ v[n + 1] + Takes(msg) <= w /\ w <= v[1] + s
  /\ Cell(s, w) = Rolled(s, Cell(s, v[n + 1]) + Takes(msg))

(* A message more, and a message less.                                     *)
LEMMA LaidMore ==
  ASSUME NEW s \in PipeSizes, NEW data, NEW msgs \in Seq(Messages), NEW n \in Nat,
         NEW v \in [1 .. n + 1 -> Nat], Laid(s, data, msgs, v, n),
         NEW new, NEW msg \in Messages, NEW w \in Nat, Added(s, data, new, v, n, msg, w),
         NEW later, later = Append(msgs, msg)
  PROVE  LaidTo(s, new, later, n + 1, v[1], w)
<1>0. /\ v[1] < s /\ LiesAt(s, new, v[n + 1], msg) /\ Same(s, new, data, v[1], v[n + 1])
      /\ v[n + 1] + Takes(msg) <= w /\ w <= v[1] + s
      /\ Cell(s, w) = Rolled(s, Cell(s, v[n + 1]) + Takes(msg))
  BY DEF Added
<1>1. PICK h \in Nat \ {0} : h = HEADER /\ h >= 2 /\ s \in Nat \ {0}
  BY PipeSize
<1>2. /\ \A i \in 1 .. n : /\ msgs[i] \in Messages /\ Takes(msgs[i]) \in Nat
                           /\ v[i] + Takes(msgs[i]) <= v[i + 1]
                           /\ v[i] + Takes(msgs[i]) <= v[n + 1]
      /\ \A i \in 1 .. n + 1 : v[i] \in Nat /\ v[1] <= v[i] /\ v[i] <= v[n + 1]
  BY PlacesRise
<1>3. PICK u : u = [i \in 1 .. n + 1 + 1 |-> IF i = n + 1 + 1 THEN w ELSE v[i]]
  OBVIOUS
<1>4. /\ u \in [1 .. n + 1 + 1 -> Nat] /\ u[n + 1 + 1] = w
      /\ \A i \in 1 .. n + 1 : u[i] = v[i] /\ i # n + 1 + 1
      /\ u[1] = v[1]
  <2>1. \A i \in 1 .. n + 1 : i \in 1 .. n + 1 + 1 /\ i # n + 1 + 1
    OBVIOUS
  <2>2. \A i \in 1 .. n + 1 + 1 : i # n + 1 + 1 => i \in 1 .. n + 1
    OBVIOUS
  <2> QED  BY <1>3, <2>1, <2>2
<1>5. /\ Len(later) = n + 1 /\ later[n + 1] = msg
      /\ \A i \in 1 .. n : later[i] = msgs[i]
  <2>1. n = Len(msgs)
    BY DEF Laid
  <2> QED  BY <2>1, AppendProperties
<1>6. v[n + 1] \in Nat /\ Takes(msg) \in Nat /\ Takes(msg) >= 2 /\ Len(msg) \in Nat
  <2>1. Takes(msg) \in Nat /\ HEADER \in Nat /\ HEADER >= 2 /\ HEADER + Len(msg) <= Takes(msg)
        /\ Len(msg) \in Nat
    BY MessageNeed
  <2>2. v[n + 1] \in Nat
    OBVIOUS
  <2> QED  BY <2>1, <2>2
<1>7. \A i, j \in 1 .. n + 1 + 1 : i < j => u[i] + Takes(later[i]) <= u[j]
  <2> SUFFICES ASSUME NEW i \in 1 .. n + 1 + 1, NEW j \in 1 .. n + 1 + 1, i < j
               PROVE  u[i] + Takes(later[i]) <= u[j]
    OBVIOUS
  <2>1. CASE j \in 1 .. n + 1
    <3>1. i \in 1 .. n + 1 /\ i \in 1 .. n
      BY <2>1
    <3>2. v[i] + Takes(msgs[i]) <= v[j]
      BY <2>1, <3>1 DEF Laid
    <3> QED  BY <1>4, <1>5, <2>1, <3>1, <3>2
  <2>2. CASE j = n + 1 + 1 /\ i \in 1 .. n
    <3>1. PICK a, b, c \in Nat : a = v[i] + Takes(msgs[i]) /\ b = v[n + 1] /\ c = Takes(msg)
      BY <1>2, <1>6, <2>2
    <3>2. a <= b /\ b + c <= w
      BY <1>0, <1>2, <2>2, <3>1
    <3>3. a <= w
      BY <3>1, <3>2
    <3>4. u[i] = v[i] /\ later[i] = msgs[i] /\ u[j] = w
      BY <1>4, <1>5, <2>2
    <3> QED  BY <3>1, <3>3, <3>4
  <2>3. CASE j = n + 1 + 1 /\ i = n + 1
    BY <1>0, <1>4, <1>5, <2>3
  <2>4. j \in 1 .. n + 1 \/ j = n + 1 + 1
    OBVIOUS
  <2>5. j = n + 1 + 1 => i \in 1 .. n \/ i = n + 1
    OBVIOUS
  <2> QED  BY <2>1, <2>2, <2>3, <2>4, <2>5
<1>8. ASSUME NEW i \in 1 .. n
      PROVE  LiesAt(s, new, v[i], msgs[i])
  <2>1. PICK m, p, need : m = msgs[i] /\ p = v[i] /\ need = Takes(m)
    OBVIOUS
  <2>2. LiesAt(s, data, p, m)
    BY <2>1 DEF Laid
  <2>3. /\ p \in Nat /\ v[1] <= p /\ p + need <= v[n + 1] /\ need \in Nat /\ Len(m) \in Nat
        /\ h + Len(m) <= need /\ m \in Messages
    <3>1. m \in Messages
      BY <1>2, <2>1
    <3>2. i \in 1 .. n + 1
      OBVIOUS
    <3>3. need \in Nat /\ Len(m) \in Nat /\ HEADER + Len(m) <= need
      BY <2>1, <3>1, MessageNeed
    <3> QED  BY <1>1, <1>2, <2>1, <3>1, <3>2, <3>3
  <2>4. \A a \in Nat : v[1] <= a /\ a < v[n + 1] => new[Cell(s, a)] = data[Cell(s, a)]
    BY <1>0 DEF Same
  <2>5. v[1] \in Nat /\ v[n + 1] \in Nat
    OBVIOUS
  <2>6. p < v[n + 1] /\ p + 1 < v[n + 1] /\ p + 1 \in Nat /\ v[1] <= p + 1
    BY <1>1, <2>3, <2>5
  <2>7. new[Cell(s, p)] = data[Cell(s, p)] /\ new[Cell(s, p + 1)] = data[Cell(s, p + 1)]
    BY <2>3, <2>4, <2>6
  <2>8. \A k \in 1 .. Len(m) : new[Cell(s, p + h + k - 1)] = data[Cell(s, p + h + k - 1)]
    <3> TAKE k \in 1 .. Len(m)
    <3>1. PICK a \in Nat : a = p + h + k - 1 /\ v[1] <= a /\ a < v[n + 1]
      BY <2>3, <2>5
    <3> QED  BY <2>4, <3>1
  <2> QED  BY <1>1, <2>1, <2>2, <2>7, <2>8 DEF LiesAt
<1>9. \A i \in 1 .. n + 1 :
        /\ LiesAt(s, new, u[i], later[i])
        /\ Cell(s, u[i + 1]) = Rolled(s, Cell(s, u[i]) + Takes(later[i]))
  <2> TAKE i \in 1 .. n + 1
  <2>1. CASE i \in 1 .. n
    <3>1. u[i] = v[i] /\ u[i + 1] = v[i + 1] /\ later[i] = msgs[i]
      <4>1. i + 1 \in 1 .. n + 1
        BY <2>1
      <4> QED  BY <1>4, <1>5, <2>1, <4>1
    <3>2. Cell(s, v[i + 1]) = Rolled(s, Cell(s, v[i]) + Takes(msgs[i]))
      BY <2>1 DEF Laid
    <3> QED  BY <1>8, <2>1, <3>1, <3>2
  <2>2. CASE i = n + 1
    BY <1>0, <1>4, <1>5, <2>2
  <2>3. i \in 1 .. n \/ i = n + 1
    OBVIOUS
  <2> QED  BY <2>1, <2>2, <2>3
<1>10. Laid(s, new, later, u, n + 1)
  BY <1>0, <1>4, <1>5, <1>7, <1>9 DEF Laid
<1> QED  BY <1>4, <1>10 DEF LaidTo

(* All but one of n messages lie from m on, with the next to be written at *)
(* f.                                                                      *)
LaidFrom(s, data, msgs, n, m, f) ==
  \E u \in [1 .. n -> Nat] : Laid(s, data, msgs, u, n - 1) /\ u[1] = m /\ Cell(s, u[n]) = f

LEMMA LaidLess ==
  ASSUME NEW s \in PipeSizes, NEW data, NEW msgs \in Seq(Messages), NEW n \in Nat, n >= 1,
         NEW v \in [1 .. n + 1 -> Nat], Laid(s, data, msgs, v, n), v[1] < s,
         NEW later, later = Tail(msgs)
  PROVE  LaidFrom(s, data, later, n, Cell(s, v[2]), Cell(s, v[n + 1]))
<1>1. PICK h \in Nat \ {0} : h = HEADER /\ h >= 2 /\ s \in Nat \ {0}
  BY PipeSize
<1>2. /\ \A i \in 1 .. n : /\ msgs[i] \in Messages /\ Takes(msgs[i]) \in Nat
                           /\ v[i] + Takes(msgs[i]) <= v[n + 1] /\ v[i] < v[n + 1]
                           /\ v[i] < v[i + 1]
      /\ \A i \in 1 .. n + 1 : v[i] \in Nat /\ v[i] <= v[n + 1]
      /\ \A i \in 2 .. n + 1 : v[2] <= v[i]
  BY PlacesRise
<1>3. v[n + 1] <= v[1] + s /\ v[1] \in Nat /\ v[2] \in Nat /\ v[1] < v[2] /\ v[n + 1] \in Nat
  <2>1. 1 \in 1 .. n /\ 2 \in 1 .. n + 1 /\ n + 1 \in 1 .. n + 1 /\ 1 \in 1 .. n + 1
    OBVIOUS
  <2>2. v[n + 1] <= v[1] + s
    BY DEF Laid
  <2> QED  BY <1>2, <2>1, <2>2
<1>4. PICK shift \in Nat : /\ shift = IF v[2] >= s THEN s ELSE 0
                           /\ shift <= v[2] /\ v[2] - shift = Cell(s, v[2])
  BY <1>1, <1>3 DEF Cell
<1>5. \A a \in Nat : v[2] <= a /\ a < s + s => a - shift \in Nat /\ Cell(s, a - shift) = Cell(s, a)
  BY <1>1, <1>3, <1>4 DEF Cell
<1>6. PICK u : u = [i \in 1 .. n |-> v[i + 1] - shift]
  OBVIOUS
<1>7. \A i \in 1 .. n : /\ i + 1 \in 2 .. n + 1 /\ u[i] = v[i + 1] - shift /\ u[i] \in Nat
                        /\ Cell(s, u[i]) = Cell(s, v[i + 1])
  <2> TAKE i \in 1 .. n
  <2>1. i + 1 \in 2 .. n + 1 /\ i + 1 \in 1 .. n + 1
    OBVIOUS
  <2>2. v[i + 1] \in Nat /\ v[2] <= v[i + 1] /\ v[i + 1] < s + s
    <3>1. v[i + 1] \in Nat /\ v[i + 1] <= v[n + 1] /\ v[2] <= v[i + 1]
      BY <1>2, <2>1
    <3>2. PICK a, b : a = v[i + 1] /\ b = v[n + 1]
      OBVIOUS
    <3>3. a \in Nat /\ b \in Nat /\ a <= b /\ b < s + s
      BY <1>1, <1>3, <3>1, <3>2
    <3>4. a < s + s
      BY <1>1, <3>3
    <3> QED  BY <3>1, <3>2, <3>4
  <2> QED  BY <1>5, <1>6, <2>1, <2>2
<1>8. u \in [1 .. n -> Nat]
  BY <1>6, <1>7
<1>9. Len(later) = n - 1 /\ \A i \in 1 .. n - 1 : later[i] = msgs[i + 1] /\ i + 1 \in 1 .. n
  <2>1. n = Len(msgs)
    BY DEF Laid
  <2>2. msgs # <<>>
    <3>1. Len(<<>>) = 0
      OBVIOUS
    <3> QED  BY <2>1, <3>1
  <2> QED  BY <2>1, <2>2, HeadTailProperties
<1>10. \A i, j \in 1 .. n : i < j => u[i] + Takes(later[i]) <= u[j]
  <2> SUFFICES ASSUME NEW i \in 1 .. n, NEW j \in 1 .. n, i < j
               PROVE  u[i] + Takes(later[i]) <= u[j]
    OBVIOUS
  <2>1. i \in 1 .. n - 1 /\ i + 1 \in 1 .. n + 1 /\ j + 1 \in 1 .. n + 1 /\ i + 1 < j + 1
    OBVIOUS
  <2>2. v[i + 1] + Takes(msgs[i + 1]) <= v[j + 1]
    BY <2>1 DEF Laid
  <2>3. v[i + 1] \in Nat /\ Takes(msgs[i + 1]) \in Nat /\ v[j + 1] \in Nat
    BY <1>2, <1>9, <2>1
  <2>4. u[i] = v[i + 1] - shift /\ u[j] = v[j + 1] - shift /\ later[i] = msgs[i + 1]
    BY <1>7, <1>9, <2>1
  <2>5. PICK a, b, c : a = v[i + 1] /\ b = Takes(msgs[i + 1]) /\ c = v[j + 1]
    OBVIOUS
  <2>6. a \in Nat /\ b \in Nat /\ c \in Nat /\ a + b <= c
    BY <2>2, <2>3, <2>5
  <2>7. (a - shift) + b <= c - shift
    BY <2>6
  <2> QED  BY <2>4, <2>5, <2>7
<1>11. ASSUME NEW i \in 1 .. n - 1
       PROVE  LiesAt(s, data, u[i], later[i])
  <2>1. PICK m, p, need : m = msgs[i + 1] /\ p = v[i + 1] /\ need = Takes(m)
    OBVIOUS
  <2>2. i \in 1 .. n /\ i + 1 \in 1 .. n /\ i + 1 \in 1 .. n + 1 /\ i + 1 \in 2 .. n + 1
    OBVIOUS
  <2>3. LiesAt(s, data, p, m)
    BY <2>1, <2>2 DEF Laid
  <2>4. m \in Messages
    BY <1>2, <2>1, <2>2
  <2>5. need \in Nat /\ Len(m) \in Nat /\ h + Len(m) <= need
    BY <1>1, <2>1, <2>4, MessageNeed
  <2>6. p \in Nat /\ v[2] <= p /\ p + need <= v[n + 1]
    BY <1>2, <2>1, <2>2
  <2>7. p + need < s + s
    BY <1>1, <1>3, <2>5, <2>6
  <2>8. PICK q \in Nat : q = p - shift /\ u[i] = q
    BY <1>7, <2>1, <2>2
  <2>9. Cell(s, q) = Cell(s, p) /\ Cell(s, q + 1) = Cell(s, p + 1)
    <3>1. p + 1 \in Nat /\ v[2] <= p + 1 /\ p + 1 < s + s /\ p < s + s
      BY <1>1, <1>3, <2>5, <2>6, <2>7
    <3>2. Cell(s, p - shift) = Cell(s, p) /\ Cell(s, p + 1 - shift) = Cell(s, p + 1)
      BY <1>5, <2>6, <3>1
    <3>3. p + 1 - shift = q + 1
      BY <2>6, <2>8
    <3> QED  BY <2>8, <3>2, <3>3
  <2>10. \A k \in 1 .. Len(m) : Cell(s, q + h + k - 1) = Cell(s, p + h + k - 1)
    <3> TAKE k \in 1 .. Len(m)
    <3>1. PICK a \in Nat : a = p + h + k - 1 /\ v[2] <= a /\ a < s + s
      <4>1. PICK b \in Nat, c \in Nat : b = v[2] /\ c = Len(m)
        BY <1>3, <2>5
      <4>2. k \in Nat /\ 1 <= k /\ k <= c
        BY <4>1
      <4>3. PICK a \in Nat : a = p + h + k - 1
        BY <2>6, <4>2
      <4>4. a >= p /\ a < p + h + c
        BY <2>6, <4>2, <4>3
      <4>5. b <= a
        BY <2>6, <4>1, <4>4
      <4>6. a < s + s
        BY <1>1, <2>5, <2>6, <2>7, <4>1, <4>4
      <4> QED  BY <4>1, <4>3, <4>5, <4>6
    <3>2. Cell(s, a - shift) = Cell(s, a)
      BY <1>5, <3>1
    <3>3. a - shift = q + h + k - 1
      BY <2>6, <2>8, <3>1
    <3> QED  BY <3>1, <3>2, <3>3
  <2>11. later[i] = m
    BY <1>9, <2>1
  <2>12. LiesAt(s, data, q, m)
    BY <1>1, <2>3, <2>9, <2>10 DEF LiesAt
  <2> QED  BY <2>8, <2>11, <2>12
<1>12. \A i \in 1 .. n - 1 : Cell(s, u[i + 1]) = Rolled(s, Cell(s, u[i]) + Takes(later[i]))
  <2> TAKE i \in 1 .. n - 1
  <2>1. i \in 1 .. n /\ i + 1 \in 1 .. n
    OBVIOUS
  <2>2. Cell(s, v[i + 1 + 1]) = Rolled(s, Cell(s, v[i + 1]) + Takes(msgs[i + 1]))
    BY <2>1 DEF Laid
  <2> QED  BY <1>7, <1>9, <2>1, <2>2
<1>13. u[n] <= u[1] + s
  <2>1. n \in 1 .. n /\ 1 \in 1 .. n
    OBVIOUS
  <2>2. u[n] = v[n + 1] - shift /\ u[1] = v[2] - shift
    BY <1>7, <2>1
  <2> QED  BY <1>1, <1>3, <2>2
<1>14. Laid(s, data, later, u, n - 1)
  <2>1. n - 1 + 1 = n
    OBVIOUS
  <2> QED  BY <1>9, <1>10, <1>11, <1>12, <1>13, <2>1 DEF Laid
<1>15. u[1] = Cell(s, v[2]) /\ Cell(s, u[n]) = Cell(s, v[n + 1])
  <2>1. n \in 1 .. n /\ 1 \in 1 .. n
    OBVIOUS
  <2> QED  BY <1>4, <1>7, <2>1
<1> QED  BY <1>8, <1>14, <1>15 DEF LaidFrom

(* Where pipe_write leaves the position to write at.                       *)
LEMMA WriteEnd ==
  ASSUME PipeTypes, NEW msg \in Messages
  PROVE  RollOver((IF pipe_free + HEADER = pipe_size THEN 0 ELSE pipe_free + HEADER)
                    + ALLIGN_CEIL(Len(msg)))
           = Rolled(pipe_size, pipe_free + Takes(msg))
<1>1. PICK s, h, f, A :
        /\ s \in Nat \ {0} /\ h \in Nat \ {0} /\ f \in Nat
        /\ s = pipe_size /\ h = HEADER /\ f = pipe_free /\ A = ALLIGN_CEIL(Len(msg)) /\ f + h <= s
  BY PipeSize DEF PipeTypes
<1>2. A \in Nat /\ Takes(msg) = h + A /\ h + A <= s
  <2>1. /\ Len(msg) \in Nat /\ Len(msg) \in MessageSizes
        /\ \A r \in PipeSizes : r >= HEADER + Len(msg)
    BY PipeAssumption DEF Messages
  <2>2. PICK len \in Nat : len = Len(msg)
    BY <2>1
  <2>3. A \in Nat /\ \A r \in PipeSizes : r >= HEADER + len => r >= HEADER + A
    BY <1>1, <2>2, CeilFits
  <2>4. pipe_size \in PipeSizes
    BY DEF PipeTypes
  <2>5. pipe_size >= HEADER + A
    BY <2>1, <2>2, <2>3, <2>4
  <2> QED  BY <1>1, <2>3, <2>5 DEF Takes
<1>3. SUFFICES Rolled(s, (IF f + h = s THEN 0 ELSE f + h) + A) = Rolled(s, f + (h + A))
  <2>1. \A i : RollOver(i) = Rolled(s, i)
    BY <1>1, RollOverRolled
  <2> QED  BY <1>1, <1>2, <1>3, <2>1
<1>4. CASE f + h = s
  <2>1. Rolled(s, 0 + A) = A
    BY <1>1, <1>2 DEF Rolled
  <2>2. CASE A = 0
    <3>1. Rolled(s, f + (h + A)) = 0
      BY <1>1, <1>4, <2>2 DEF Rolled
    <3> QED  BY <1>4, <2>1, <2>2, <3>1
  <2>3. CASE A > 0
    <3>1. PICK i \in Nat : i = f + (h + A) /\ i = s + A /\ i < s + s /\ i > s
      BY <1>1, <1>2, <1>4, <2>3
    <3>2. i % s = A
      BY <1>1, <1>2, <3>1, ModuloCell, SMTT(30)
    <3>3. Rolled(s, i) = A
      BY <1>2, <3>1, <3>2 DEF Rolled
    <3> QED  BY <1>4, <2>1, <3>1, <3>3
  <2> QED  BY <1>2, <2>2, <2>3
<1>5. CASE f + h # s
  <2>1. f + h + A = f + (h + A)
    BY <1>1, <1>2
  <2> QED  BY <1>5, <2>1
<1> QED  BY <1>4, <1>5

LEMMA WriteKeeps ==
  ASSUME PipeInvariant, NEW msg \in Messages, pipe_write(msg)
  PROVE  PipeInvariant'
<1>1. PICK s, m, f : /\ s \in PipeSizes /\ m \in Nat /\ f \in Nat /\ m + HEADER <= s /\ f + HEADER <= s
                     /\ s = pipe_size /\ m = pipe_message /\ f = pipe_free
  BY DEF PipeInvariant, PipeTypes
<1>2. s \in Nat \ {0} /\ HEADER \in Nat \ {0} /\ s >= HEADER /\ HEADER >= 2
  BY <1>1, PipeSize
<1>3. /\ Len(msg) \in Nat /\ Takes(msg) \in Nat
      /\ HEADER + Len(msg) <= Takes(msg) /\ Takes(msg) <= s
  BY <1>1, MessageNeed
<1>4. PICK n, v : /\ n \in Nat /\ v \in [1 .. n + 1 -> Nat] /\ Laid(s, pipe_data, unread, v, n)
                  /\ v[1] = m /\ Cell(s, v[n + 1]) = f
  BY <1>1 DEF PipeInvariant
<1>5. ~Valid \/ Room(Takes(msg))
  <2>1. ALLIGN_CEIL(Len(msg)) \in Nat
    BY <1>3, CeilFits
  <2>2. Takes(msg) = ALLIGN_CEIL(Len(msg)) + HEADER
    BY <1>2, <2>1 DEF Takes
  <2> QED  BY <2>2 DEF pipe_write
<1>6. PICK last \in Nat : last = v[n + 1] /\ m <= last
  <2>1. PICK msgs : msgs \in Seq(Messages) /\ msgs = unread
    BY DEF PipeInvariant, PipeTypes
  <2>2. \A i \in 1 .. n + 1 : v[i] \in Nat /\ v[1] <= v[i]
    BY <1>1, <1>4, <2>1, PlacesRise
  <2> QED  BY <1>4, <2>2
<1>7. /\ last + Takes(msg) < m + s \/ (m = 0 /\ last + Takes(msg) <= s)
      /\ last >= s => last - s + Takes(msg) + HEADER <= s
  BY <1>1, <1>4, <1>5, <1>6, WriteRoom
<1>8. PICK w \in Nat : /\ last + Takes(msg) <= w /\ w <= m + s /\ Cell(s, w) + HEADER <= s
                       /\ Cell(s, w) = Rolled(s, Cell(s, last) + Takes(msg))
  <2>1. PICK need \in Nat : need = Takes(msg)
    BY <1>3
  <2>2. /\ last + need < m + s \/ (m = 0 /\ last + need <= s)
        /\ last >= s => last - s + need + HEADER <= s
    BY <1>7, <2>1
  <2>3. m + HEADER <= s /\ s \in PipeSizes /\ m \in Nat
    BY <1>1
  <2>4. \E w \in Nat : /\ last + need <= w /\ w <= m + s /\ Cell(s, w) + HEADER <= s
                       /\ Cell(s, w) = Rolled(s, Cell(s, last) + need)
    BY <2>2, <2>3, NextPlace
  <2> QED  BY <2>1, <2>4
<1>9. PICK new : new = Written(pipe_data, f, msg)
  OBVIOUS
<1>10. /\ pipe_size' = s /\ pipe_message' = m /\ unread' = Append(unread, msg)
       /\ mark' = (mark + 1) % NumMarks
       /\ "DATA" \in pipe_flags'
  BY <1>1 DEF pipe_write
<1>11. pipe_data' = new
  <2>1. pipe_data' = Written(pipe_data, pipe_free, msg)
    BY Zenon DEF pipe_write, Written, Hit, ByteOf
  <2> QED  BY <1>1, <1>9, <2>1
<1>12. pipe_free' = Cell(s, w)
  <2>1. pipe_free' = RollOver((IF pipe_free + HEADER = pipe_size THEN 0 ELSE pipe_free + HEADER)
                                + ALLIGN_CEIL(Len(msg)))
    BY DEF pipe_write
  <2>2. pipe_free' = Rolled(s, f + Takes(msg))
    BY <1>1, <2>1, WriteEnd DEF PipeInvariant
  <2> QED  BY <1>4, <1>6, <1>8, <2>2
<1>13. /\ new \in [0 .. s - 1 -> Nat] /\ LiesAt(s, new, last, msg)
       /\ \A a \in Nat : m <= a /\ a < last => new[Cell(s, a)] = pipe_data[Cell(s, a)]
  <2>1. last + Takes(msg) <= m + s
    BY <1>1, <1>3, <1>6, <1>7, <1>2
  <2>2. PipeTypes /\ Cell(pipe_size, last) = pipe_free
    BY <1>1, <1>4, <1>6 DEF PipeInvariant
  <2>3. /\ new \in [0 .. pipe_size - 1 -> Nat] /\ LiesAt(pipe_size, new, last, msg)
        /\ \A a \in Nat : pipe_message <= a /\ a < last
                            => new[Cell(pipe_size, a)] = pipe_data[Cell(pipe_size, a)]
    BY <1>1, <1>6, <1>9, <2>1, <2>2, WriteLays
  <2> QED  BY <1>1, <2>3
<1>14. PICK later : later = Append(unread, msg)
  OBVIOUS
<1>15. LaidTo(s, new, later, n + 1, m, w)
  <2>1. PICK msgs : msgs \in Seq(Messages) /\ msgs = unread
    BY DEF PipeInvariant, PipeTypes
  <2>2. v[1] < s
    BY <1>1, <1>2, <1>4
  <2>3. LiesAt(s, new, v[n + 1], msg) /\ v[n + 1] + Takes(msg) <= w /\ w <= v[1] + s
    BY <1>4, <1>6, <1>8, <1>13
  <2>4. Same(s, new, pipe_data, v[1], v[n + 1])
    BY <1>4, <1>6, <1>13 DEF Same
  <2>5. Cell(s, w) = Rolled(s, Cell(s, v[n + 1]) + Takes(msg))
    BY <1>6, <1>8
  <2>6. LaidTo(s, new, later, n + 1, v[1], w)
    <3>1. /\ s \in PipeSizes /\ n \in Nat /\ v \in [1 .. n + 1 -> Nat]
          /\ later = Append(msgs, msg)
      BY <1>1, <1>4, <1>14, <2>1
    <3>2. Laid(s, pipe_data, msgs, v, n)
      BY <1>4, <2>1
    <3>3. PICK data : data = pipe_data
      OBVIOUS
    <3>4. Laid(s, data, msgs, v, n)
      BY <3>2, <3>3
    <3>5. Added(s, data, new, v, n, msg, w)
      BY <2>2, <2>3, <2>4, <2>5, <3>3 DEF Added
    <3>6. s \in PipeSizes /\ n \in Nat /\ v \in [1 .. n + 1 -> Nat] /\ msgs \in Seq(Messages)
      BY <2>1, <3>1
    <3> QED  BY <3>1, <3>4, <3>5, <3>6, LaidMore
  <2> QED  BY <1>4, <2>6
<1>16. unread' \in Seq(Messages) /\ unread' # <<>>
  <2>1. unread \in Seq(Messages)
    BY DEF PipeInvariant, PipeTypes
  <2>2. Append(unread, msg) \in Seq(Messages) /\ Append(unread, msg) # <<>>
    BY <2>1, AppendProperties
  <2> QED  BY <1>10, <2>2
<1>17. mark' \in Nat
  BY <1>10, PipeAssumption DEF PipeInvariant, PipeTypes
<1>18. PipeTypes'
  <2>1. Cell(s, w) \in Nat
    BY <1>2, <1>8 DEF Cell
  <2>2. pipe_data' \in [0 .. pipe_size' - 1 -> Nat]
    BY <1>10, <1>11, <1>13
  <2> QED  BY <1>1, <1>8, <1>10, <1>12, <1>16, <1>17, <2>1, <2>2 DEF PipeTypes
<1>19. \E k \in Nat : \E u \in [1 .. k + 1 -> Nat] :
         /\ Laid(pipe_size', pipe_data', unread', u, k)
         /\ u[1] = pipe_message' /\ Cell(pipe_size', u[k + 1]) = pipe_free'
  <2>1. PICK u \in [1 .. n + 1 + 1 -> Nat] : Laid(s, new, later, u, n + 1) /\ u[1] = m /\ u[n + 1 + 1] = w
    BY <1>15 DEF LaidTo
  <2>2. n + 1 \in Nat /\ unread' = later
    BY <1>4, <1>10, <1>14
  <2> QED  BY <1>10, <1>11, <1>12, <2>1, <2>2
<1> QED  BY <1>10, <1>16, <1>18, <1>19 DEF PipeInvariant


(* The position behind the first message is that of the second, and the    *)
(* position to write at only when there is no second one.                  *)
LEMMA NextToRead ==
  ASSUME PipeInvariant, unread # <<>>, NEW n \in Nat, NEW v \in [1 .. n + 1 -> Nat],
         Laid(pipe_size, pipe_data, unread, v, n), v[1] = pipe_message,
         Cell(pipe_size, v[n + 1]) = pipe_free,
         NEW next, next = RollOver(pipe_message + HEADER + ALLIGN_CEIL(pipe_data[pipe_message + 1]))
  PROVE  n >= 1 /\ next = Cell(pipe_size, v[2]) /\ (next = pipe_free <=> n = 1)
<1>1. PICK s, m, f : /\ s \in PipeSizes /\ m \in Nat /\ f \in Nat /\ m + HEADER <= s
                     /\ s = pipe_size /\ m = pipe_message /\ f = pipe_free
  BY DEF PipeInvariant, PipeTypes
<1>2. PICK h \in Nat \ {0} : h = HEADER /\ s \in Nat \ {0} /\ m < s
  BY <1>1, PipeSize
<1>3. n >= 1 /\ 1 \in 1 .. n /\ n = Len(unread)
  <2>1. n = Len(unread) /\ unread \in Seq(Messages)
    BY DEF Laid, PipeInvariant, PipeTypes
  <2> QED  BY <2>1, EmptySeq
<1>4. PICK msg : /\ msg = unread[1] /\ msg \in Messages /\ pipe_data[m + 1] = Len(msg)
  BY <1>1, FirstMessage
<1>5. Takes(msg) \in Nat /\ Len(msg) \in Nat
  BY <1>4, MessageNeed
<1>6. ALLIGN_CEIL(Len(msg)) \in Nat
  BY <1>5, CeilFits
<1>7. next = Rolled(s, m + Takes(msg))
  <2>1. next = Rolled(s, m + HEADER + ALLIGN_CEIL(Len(msg)))
    BY <1>1, <1>4, RollOverRolled
  <2>2. m + HEADER + ALLIGN_CEIL(Len(msg)) = m + Takes(msg)
    BY <1>1, <1>2, <1>6 DEF Takes
  <2> QED  BY <2>1, <2>2
<1>8. next = Cell(s, v[2])
  <2>1. Cell(s, v[1 + 1]) = Rolled(s, Cell(s, v[1]) + Takes(msg))
    BY <1>1, <1>3, <1>4 DEF Laid
  <2>2. Cell(s, v[1]) = m
    BY <1>1, <1>2 DEF Cell
  <2> QED  BY <1>7, <2>1, <2>2
<1>9. /\ v[1] \in Nat /\ v[2] \in Nat /\ v[n + 1] \in Nat /\ v[1] < v[2] /\ v[n + 1] <= m + s
      /\ n # 1 => v[2] < v[n + 1]
  <2>1. PICK msgs, data : msgs \in Seq(Messages) /\ msgs = unread /\ data = pipe_data
    BY DEF PipeInvariant, PipeTypes
  <2>2. Laid(s, data, msgs, v, n)
    BY <1>1, <2>1
  <2>3. /\ \A i \in 1 .. n : v[i] < v[i + 1] /\ v[i] < v[n + 1]
        /\ \A i \in 1 .. n + 1 : v[i] \in Nat
    BY <1>1, <2>1, <2>2, PlacesRise
  <2>4. 1 \in 1 .. n + 1 /\ 2 \in 1 .. n + 1 /\ n + 1 \in 1 .. n + 1 /\ (n # 1 => 2 \in 1 .. n)
    BY <1>3
  <2>5. v[n + 1] <= m + s
    BY <1>1, <2>2 DEF Laid
  <2> QED  BY <1>3, <2>3, <2>4, <2>5
<1>10. CASE n = 1
  BY <1>1, <1>3, <1>8, <1>10
<1>11. CASE n # 1
  <2>1. PICK a \in Nat, b \in Nat : a = v[2] /\ b = v[n + 1] /\ m < a /\ a < b /\ b <= m + s
    BY <1>1, <1>9, <1>11
  <2>2. Cell(s, a) # Cell(s, b)
    BY <1>1, <1>2, <2>1 DEF Cell
  <2> QED  BY <1>1, <1>3, <1>8, <1>11, <2>1, <2>2
<1> QED  BY <1>10, <1>11

LEMMA ReadKeeps ==
  ASSUME PipeInvariant, NEW size, pipe_read(size)
  PROVE  PipeInvariant'
<1>1. PICK s, m, f : /\ s \in PipeSizes /\ m \in Nat /\ f \in Nat /\ m + HEADER <= s /\ f + HEADER <= s
                     /\ s = pipe_size /\ m = pipe_message /\ f = pipe_free
  BY DEF PipeInvariant, PipeTypes
<1>2. PICK h \in Nat \ {0} : h = HEADER /\ s \in Nat \ {0} /\ m < s
  BY <1>1, PipeSize
<1>3. PICK n, v : /\ n \in Nat /\ v \in [1 .. n + 1 -> Nat] /\ Laid(s, pipe_data, unread, v, n)
                  /\ v[1] = m /\ Cell(s, v[n + 1]) = f
  BY <1>1 DEF PipeInvariant
<1>4. unread # <<>>
  <2>1. Valid
    BY DEF pipe_read
  <2> QED  BY <2>1, PipeInvariantExact DEF PipeExact
<1>5. PICK next : next = RollOver(pipe_message + HEADER + ALLIGN_CEIL(pipe_data[pipe_message + 1]))
  OBVIOUS
<1>6. n >= 1 /\ next = Cell(s, v[2]) /\ (next = f <=> n = 1)
  BY <1>1, <1>3, <1>4, <1>5, NextToRead
<1>7. /\ next = pipe_free => /\ pipe_message' = 0 /\ pipe_free' = 0
                             /\ pipe_data' = [pipe_data EXCEPT ![0] = 0]
                             /\ pipe_flags' = pipe_flags \ {"DATA"}
      /\ next # pipe_free => /\ pipe_message' = next
                             /\ pipe_free' = pipe_free /\ pipe_data' = pipe_data
                             /\ pipe_flags' = pipe_flags
      /\ unread' = Tail(unread) /\ pipe_size' = pipe_size /\ mark' = mark
  BY <1>5 DEF pipe_read
<1>8. PICK msgs : /\ msgs = unread /\ msgs \in Seq(Messages) /\ Len(msgs) = n /\ mark \in Nat
                  /\ pipe_data \in [0 .. s - 1 -> Nat]
  BY <1>1, <1>3 DEF PipeInvariant, PipeTypes, Laid
<1>9. PICK later : later = Tail(msgs)
  OBVIOUS
<1>10. later \in Seq(Messages) /\ Len(later) = n - 1 /\ unread' = later
  <2>1. Tail(msgs) \in Seq(Messages) /\ Len(Tail(msgs)) = Len(msgs) - 1
    BY <1>4, <1>8, HeadTailProperties
  <2> QED  BY <1>7, <1>8, <1>9, <2>1
<1>11. CASE next = f
  <2>1. n = 1 /\ Len(later) = 0
    BY <1>6, <1>10, <1>11
  <2>2. unread' = <<>>
    BY <1>10, <2>1, EmptySeq
  <2>3. PICK new : new = [pipe_data EXCEPT ![0] = 0] /\ pipe_data' = new
    BY <1>1, <1>7, <1>11
  <2>4. new \in [0 .. s - 1 -> Nat] /\ new[0] = 0
    BY <1>2, <1>8, <2>3
  <2>5. pipe_message' = 0 /\ pipe_free' = 0 /\ pipe_flags' = pipe_flags \ {"DATA"} /\ pipe_size' = s
    BY <1>1, <1>7, <1>11
  <2>6. PipeTypes'
    <3>1. pipe_size' \in PipeSizes /\ pipe_data' \in [0 .. pipe_size' - 1 -> Nat] /\ mark' \in Nat
      BY <1>1, <1>7, <1>8, <2>3, <2>4
    <3>2. 0 + HEADER <= pipe_size'
      BY <1>1, <1>2, <2>5
    <3> QED  BY <1>10, <2>5, <3>1, <3>2 DEF PipeTypes
  <2>7. PICK u : u = [i \in 1 .. 0 + 1 |-> 0]
    OBVIOUS
  <2>8. u \in [1 .. 0 + 1 -> Nat] /\ u[1] = 0 /\ u[0 + 1] = 0
    BY <2>7
  <2>9. Laid(s, new, later, u, 0)
    BY <1>2, <2>1, <2>8 DEF Laid
  <2>10. Cell(s, u[0 + 1]) = 0
    BY <1>2, <2>8 DEF Cell
  <2>11. \E k \in Nat : \E w \in [1 .. k + 1 -> Nat] :
           /\ Laid(pipe_size', pipe_data', unread', w, k)
           /\ w[1] = pipe_message' /\ Cell(pipe_size', w[k + 1]) = pipe_free'
    BY <1>10, <2>3, <2>5, <2>8, <2>9, <2>10
  <2> QED  BY <2>2, <2>3, <2>4, <2>5, <2>6, <2>11 DEF PipeInvariant
<1>12. CASE next # f
  <2>1. /\ pipe_message' = next /\ pipe_free' = f /\ pipe_data' = pipe_data
        /\ pipe_flags' = pipe_flags /\ pipe_size' = s /\ mark' = mark
    BY <1>1, <1>7, <1>12
  <2>2. n >= 2
    BY <1>3, <1>6, <1>12
  <2>3. unread' # <<>>
    <3>1. Len(<<>>) = 0
      OBVIOUS
    <3> QED  BY <1>3, <1>10, <2>2, <3>1
  <2>4. PICK u : /\ u \in [1 .. n -> Nat] /\ Laid(s, pipe_data, later, u, n - 1)
                 /\ u[1] = Cell(s, v[2]) /\ Cell(s, u[n]) = Cell(s, v[n + 1])
    <3>1. PICK data : data = pipe_data
      OBVIOUS
    <3>2. Laid(s, data, msgs, v, n) /\ v[1] < s /\ s \in PipeSizes /\ n \in Nat /\ n >= 1
          /\ v \in [1 .. n + 1 -> Nat] /\ msgs \in Seq(Messages)
      BY <1>1, <1>2, <1>3, <1>6, <1>8, <3>1
    <3>3. LaidFrom(s, data, later, n, Cell(s, v[2]), Cell(s, v[n + 1]))
      BY <1>9, <3>2, LaidLess
    <3> QED  BY <3>1, <3>3 DEF LaidFrom
  <2>5. next \in Nat /\ next + HEADER <= s
    <3>1. LiesAt(s, pipe_data, v[2], unread[2])
      BY <1>3, <2>2 DEF Laid
    <3>2. Cell(s, v[2]) + HEADER <= s
      BY <3>1 DEF LiesAt
    <3>3. v[2] \in Nat
      BY <1>3, <2>2
    <3>4. Cell(s, v[2]) \in Nat
      BY <1>2, <3>3 DEF Cell
    <3> QED  BY <1>6, <3>2, <3>4
  <2>6. PipeTypes'
    <3>1. pipe_size' \in PipeSizes /\ pipe_data' \in [0 .. pipe_size' - 1 -> Nat] /\ mark' \in Nat
      BY <1>1, <1>8, <2>1
    <3> QED  BY <1>1, <1>10, <2>1, <2>5, <3>1 DEF PipeTypes
  <2>7. \E k \in Nat : \E w \in [1 .. k + 1 -> Nat] :
          /\ Laid(pipe_size', pipe_data', unread', w, k)
          /\ w[1] = pipe_message' /\ Cell(pipe_size', w[k + 1]) = pipe_free'
    <3>1. PICK k \in Nat : k = n - 1 /\ k + 1 = n
      BY <1>3, <1>6
    <3>2. u \in [1 .. k + 1 -> Nat] /\ Laid(s, pipe_data, later, u, k)
      BY <2>4, <3>1
    <3>3. u[1] = next /\ Cell(s, u[k + 1]) = f
      BY <1>3, <1>6, <2>4, <3>1
    <3> QED  BY <1>10, <2>1, <3>2, <3>3
  <2>8. "DATA" \in pipe_flags' <=> unread' # <<>>
    <3>1. "DATA" \in pipe_flags
      BY <1>4 DEF PipeInvariant
    <3> QED  BY <2>1, <2>3, <3>1
  <2> QED  BY <2>3, <2>6, <2>7, <2>8 DEF PipeInvariant
<1> QED  BY <1>11, <1>12

LEMMA MessageIn ==
  ASSUME NEW n \in MessageSizes, mark \in Nat
  PROVE  Message(n) \in Messages
<1>1. n \in Nat
  BY PipeAssumption
<1>2. \A k \in 1 .. n : 10 * mark + k \in Nat
  OBVIOUS
<1>3. PICK f : f = Message(n) /\ f = [k \in 1 .. n |-> 10 * mark + k]
  BY DEF Message
<1>4. f \in [1 .. n -> Nat]
  BY <1>2, <1>3
<1>5. f \in Seq(Nat) /\ Len(f) = n
  BY <1>1, <1>3, <1>4
<1> QED  BY <1>3, <1>5 DEF Messages

LEMMA PipeStep ==
  ASSUME PipeInvariant, [PipeNext]_pipeVars
  PROVE  PipeInvariant'
<1>1. CASE \E n \in MessageSizes : pipe_write(Message(n))
  <2>1. PICK n \in MessageSizes : pipe_write(Message(n))
    BY <1>1
  <2>2. mark \in Nat
    BY DEF PipeInvariant, PipeTypes
  <2>3. Message(n) \in Messages
    BY <2>2, MessageIn
  <2> QED  BY <2>1, <2>3, WriteKeeps
<1>2. CASE \E size \in MessageSizes : pipe_read(size)
  BY <1>2, ReadKeeps
<1>3. CASE UNCHANGED pipeVars
  <2>1. /\ pipe_size' = pipe_size /\ pipe_data' = pipe_data /\ pipe_message' = pipe_message
        /\ pipe_free' = pipe_free /\ pipe_flags' = pipe_flags /\ unread' = unread /\ mark' = mark
    BY <1>3 DEF pipeVars
  <2> QED  BY <2>1 DEF PipeInvariant, PipeTypes
<1> QED  BY <1>1, <1>2, <1>3 DEF PipeNext

(* A reader of a pipe gets the messages whole and in the order they were   *)
(* written in, wherever they wrap at the end of the buffer, and the data   *)
(* flag says whether there is one, for every size of the buffer and every  *)
(* length of message that fits it (pipe_write, pipe_read).                 *)
THEOREM PipeAlwaysExact == PipeSpec => []PipeExact
<1>1. PipeInit => PipeInvariant
  BY PipeInitial
<1>2. PipeInvariant /\ [PipeNext]_pipeVars => PipeInvariant'
  BY PipeStep
<1>3. PipeInvariant => PipeExact
  BY PipeInvariantExact
<1> QED  BY <1>1, <1>2, <1>3, PTL DEF PipeSpec

=============================================================================
