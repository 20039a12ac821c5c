------------------------------ MODULE FsBuffer ------------------------------
(***************************************************************************)
(* fs_buffer.c: the buffers of a descriptor and the lists they are chained *)
(* in.  Every operation runs under the lock of the descriptor and is one   *)
(* step; a task that must wait for buffers (fs_buffer_suspend) gives the   *)
(* lock up and goes on in a later step.                                    *)
(*                                                                         *)
(* A program adds and reads fields, byte sequences in the order they have  *)
(* on the wire.  A field that is FS_BUFFER_PACKED is a number: the machine *)
(* holds it last byte first and the operation reverses it.                 *)
(***************************************************************************)
EXTENDS Integers, FiniteSets, Sll

CONSTANTS
  NULL,
  Tasks,
  Buffers,           \* FS_BUFFER_DATA.buffers
  Lists,             \* FS_BUFFER_DATA.buffer_lists
  BufferSize,        \* buffer_size
  ThresholdBuffers,  \* threshold_buffers
  ThresholdLists,    \* threshold_lists
  Modes,             \* FS_BUFFER_SUSPEND and FS_BUFFER_TH of the callers
  MaxField,          \* longest field a program adds
  MaxBytes           \* bytes that the lists hold together

ASSUME BufferAssumption ==
  /\ BufferSize \in Nat \ {0} /\ MaxField \in Nat \ {0} /\ MaxBytes \in Nat
  /\ ThresholdBuffers \in Nat /\ ThresholdLists \in Nat
  /\ Modes \subseteq [suspend : BOOLEAN, th : BOOLEAN]
  /\ IsFiniteSet(Buffers) /\ IsFiniteSet(Lists)

VARIABLES
  buf,           \* FS_BUFFER: room before the data, and the data
  chain,         \* buffers reached from list.head
  tail,          \* list.tail
  total_length,
  free_buffers,
  free_lists,
  rx_lists,
  held,          \* lists that a program works on
  flags,         \* FS.flags: FS_SPACE_AVAILABLE, FS_DATA_AVAILABLE
  waiting,       \* what each task waits for in fs_buffer_suspend
  halted         \* an assertion failed

poolVars == <<free_buffers, free_lists, rx_lists, held, flags, waiting>>
vars == <<buf, chain, tail, total_length, poolVars, halted>>

Fields == {[i \in 1 .. n |-> i] : n \in 1 .. MaxField}
Fresh  == [room |-> 0, data |-> <<>>]       \* fs_buffer_init
Idle   == [what |-> "idle"]

Least(a, b)   == IF a < b THEN a ELSE b
First(s, n)   == SubSeq(s, 1, n)
Drop(s, n)    == SubSeq(s, n + 1, Len(s))
CEIL_DIV(a, b) == (a + b - 1) \div b

(* How the machine holds a field, and fs_memcpy_r.                         *)
Memory(field, packed) == IF packed THEN Reverse(field) ELSE field

FS_BUFFER_SPACE(b)     == BufferSize - Len(b.data)

(* Mutant: the head room is not subtracted.                                *)
TailRoomAll(b)         == FS_BUFFER_SPACE(b)
FS_BUFFER_TAIL_ROOM(b) == FS_BUFFER_SPACE(b) - b.room

(* A tail that is the last buffer.                                         *)
TailSound(l) == tail[l] = IF chain[l] = <<>> THEN NULL ELSE Last(chain[l])

Bytes == MapThenSumSet(LAMBDA l : total_length[l], Lists)

(* The bytes in a list of buffers, and their number.                       *)
BytesIn(list)  == FoldLeft(LAMBDA bytes, b : bytes \o buf[b].data, <<>>, list)
LengthOf(list) == FoldLeft(LAMBDA n, b : n + Len(buf[b].data), 0, list)
Flat(l)        == BytesIn(chain[l])

----------------------------------------------------------------------------
(* fs_buffer_dataset                                                       *)
Init ==
  /\ buf = [b \in Buffers |-> Fresh]
  /\ chain = [l \in Lists |-> <<>>]
  /\ tail = [l \in Lists |-> NULL]
  /\ total_length = [l \in Lists |-> 0]
  /\ free_buffers = SetToSeq(Buffers)
  /\ free_lists = SetToSeq(Lists)
  /\ rx_lists = <<>>
  /\ held = {}
  /\ flags = IF Buffers = {} THEN {} ELSE {"FS_SPACE_AVAILABLE"}
  /\ waiting = [t \in Tasks |-> Idle]
  /\ halted = FALSE

----------------------------------------------------------------------------
(* Mutant: a task that waits for just n is not resumed.                    *)
ResumeBelow(w, n) ==
  [t \in Tasks |-> IF w[t] # Idle /\ w[t].need < n
                   THEN [w[t] EXCEPT !.resumed = TRUE] ELSE w[t]]

(* The resume of fs_buffer_add: every task that waits for no more than n.  *)
(* fs_buffer_do_resume does not look at the type of what it waits for.     *)
fs_buffer_do_resume(w, n) ==
  [t \in Tasks |-> IF w[t] # Idle /\ w[t].need <= n
                   THEN [w[t] EXCEPT !.resumed = TRUE] ELSE w[t]]

(* fs_buffer_add of free buffers, one after the other.                     *)
FreeBuffers(freed) ==
  /\ free_buffers' = free_buffers \o freed
  /\ IF freed = <<>>
     THEN UNCHANGED <<flags, waiting>>
     ELSE /\ flags' = flags \cup {"FS_SPACE_AVAILABLE"}
          /\ waiting' = fs_buffer_do_resume(waiting, Len(free_buffers'))

(* Mutant: fs_buffer_get without fd_space_consumed.                        *)
UseQuietly(left) == free_buffers' = left /\ flags' = flags

(* fs_buffer_get of the buffers that a push or a divide uses.              *)
UseBuffers(left) ==
  /\ free_buffers' = left
  /\ flags' = IF left = <<>> THEN flags \ {"FS_SPACE_AVAILABLE"} ELSE flags

Threshold(type) ==
  IF type = "buffer" THEN ThresholdBuffers ELSE ThresholdLists
Need(type, n, mode) == n + IF mode.th THEN Threshold(type) ELSE 0

(* The count that fs_buffer_do_suspend compares.                           *)
Available(type) == IF type = "buffer" THEN Len(free_buffers) ELSE Len(free_lists)

(* A task, not the one of the network, waits.                              *)
Wait(t, request) ==
  /\ waiting' = [waiting EXCEPT ![t] = [request EXCEPT !.resumed = FALSE]]
  /\ UNCHANGED <<buf, chain, tail, total_length, free_buffers, free_lists,
                 rx_lists, flags, halted>>

fs_buffer_suspend(request) == \E t \in Tasks : waiting[t] = Idle /\ Wait(t, request)

----------------------------------------------------------------------------
(* fs_buffer_push moves the data of the buffer when it lacks head room.    *)
fs_buffer_add_head(b, size) == [b EXCEPT !.room = @ + size]

fs_buffer_push(b, data, head, packed) ==
  LET n     == Len(data)
      moved == IF head /\ b.room < n THEN fs_buffer_add_head(b, n - b.room) ELSE b
  IN IF head
     THEN [room |-> moved.room - n, data |-> Memory(data, packed) \o b.data]
     ELSE [b EXCEPT !.data = @ \o Memory(data, packed)]

fs_buffer_pull(b, n, from_tail) ==
  IF from_tail THEN [b EXCEPT !.data = First(@, Len(@) - n)]
  ELSE [room |-> b.room + n, data |-> Drop(b.data, n)]

(* What a push works on: the list, the free buffers and the data that is   *)
(* left to push.                                                           *)
PushState(l, data) ==
  [chain |-> chain[l], total |-> total_length[l], free |-> free_buffers, buf |-> buf,
   left |-> data, status |-> "SUCCESS"]

(* Mutant: reverse without the case of a push at the head.                 *)
PackedOnly(head, packed) == packed

(* reverse: the data is pushed from its end.                               *)
FromEnd(head, packed) == packed # head

(* The space of the head or the tail buffer that a push can use.           *)
PushSpace(st, head) ==
  IF st.chain = <<>> THEN 0
  ELSE IF head THEN FS_BUFFER_SPACE(st.buf[Head(st.chain)])
  ELSE FS_BUFFER_TAIL_ROOM(st.buf[Last(st.chain)])

(* One turn of the loop of fs_buffer_list_push: a piece of the data goes   *)
(* to the head or the tail buffer, or to a new one if that is full.        *)
PushPiece(st, head, packed) ==
  LET full == PushSpace(st, head) = 0
      at   == IF full THEN Head(st.free)
              ELSE IF head THEN Head(st.chain) ELSE Last(st.chain)
      b    == st.buf[at]
      n    == Least(IF head THEN FS_BUFFER_SPACE(b) ELSE FS_BUFFER_TAIL_ROOM(b),
                    Len(st.left))
      back == FromEnd(head, packed)
      cut  == IF back THEN Len(st.left) - n ELSE n
      part == IF back THEN Drop(st.left, cut) ELSE First(st.left, cut)
  IN [chain |-> IF ~full THEN st.chain
                ELSE IF head THEN sll_push(st.chain, at) ELSE sll_append(st.chain, at),
      total |-> st.total + n,
      free  |-> IF full THEN Tail(st.free) ELSE st.free,
      buf   |-> [st.buf EXCEPT ![at] = fs_buffer_push(@, part, head, packed)],
      left  |-> IF back THEN First(st.left, cut) ELSE Drop(st.left, cut),
      status |-> st.status]

PushAll(st, head, packed) ==
  FoldLeft(LAMBDA s, i : IF s.left = <<>> THEN s ELSE PushPiece(s, head, packed),
           st, st.left)

(* The buffers that a push takes from the free ones.                       *)
NumBuffers(st, head) ==
  LET size == Len(st.left)
  IN CEIL_DIV(size - Least(PushSpace(st, head), size), BufferSize)

(* The list after a push.  sll_push and sll_append keep its tail.          *)
PushTo(l, st, head) ==
  /\ buf' = st.buf
  /\ chain' = [chain EXCEPT ![l] = st.chain]
  /\ tail' = [tail EXCEPT
       ![l] = IF st.chain # <<>> /\ (@ = NULL \/ ~head) THEN Last(st.chain) ELSE @]
  /\ total_length' = [total_length EXCEPT ![l] = st.total]
  /\ UseBuffers(st.free)
  /\ UNCHANGED <<free_lists, rx_lists, halted>>

(* fs_buffer_list_push of a field, at the head or at the tail.             *)
fs_buffer_list_push(l, field, head, packed, mode) ==
  LET data == Memory(field, packed)
      st   == PushState(l, data)
      n    == NumBuffers(st, head)
      need == Need("buffer", n, mode)
  IN /\ l \in held /\ (head \/ TailSound(l))
     /\ Bytes + Len(field) <= MaxBytes
     /\ \/ /\ n = 0 \/ Len(free_buffers) >= need
           /\ PushTo(l, PushAll(st, head, packed), head)
           /\ UNCHANGED <<held, waiting>>
        \/ /\ n > 0 /\ Len(free_buffers) < need /\ ~mode.suspend
           /\ UNCHANGED <<buf, chain, tail, total_length, poolVars, halted>>
        \/ /\ n > 0 /\ Len(free_buffers) < need /\ mode.suspend
           /\ held' = held \ {l}
           /\ fs_buffer_suspend([what |-> "push", list |-> l, data |-> data, head |-> head,
                                 packed |-> packed, type |-> "buffer", need |-> need,
                                 resumed |-> FALSE])

(* fs_buffer_get of a list.  Without FS_BUFFER_SUSPEND the threshold is    *)
(* not looked at.                                                          *)
PopList ==
  /\ held' = held \cup {Head(free_lists)}
  /\ free_lists' = Tail(free_lists)
  /\ UNCHANGED <<buf, chain, tail, total_length, free_buffers, rx_lists, flags, halted>>

fs_buffer_get_list(mode) ==
  LET need == Need("list", 1, mode)
  IN IF mode.suspend /\ Len(free_lists) < need
     THEN /\ fs_buffer_suspend([what |-> "list", type |-> "list", need |-> need,
                                resumed |-> FALSE])
          /\ UNCHANGED held
     ELSE free_lists # <<>> /\ PopList /\ UNCHANGED waiting

(* suspend_condition looks again, with the lock, at what the task waits    *)
(* for, and the operation goes on or waits again.                          *)
Resumed(t) ==
  LET w == waiting[t]
  IN /\ w # Idle /\ w.resumed
     /\ IF Available(w.type) < w.need
        THEN Wait(t, w) /\ UNCHANGED held
        ELSE /\ waiting' = [waiting EXCEPT ![t] = Idle]
             /\ IF w.what = "list"
                THEN PopList
                ELSE /\ PushTo(w.list, PushAll(PushState(w.list, w.data), w.head, w.packed),
                               w.head)
                     /\ held' = held \cup {w.list}

----------------------------------------------------------------------------
(* Mutant: the pieces of a packed field are stored in the order they come. *)
GatherForward(out, part, packed) == out \o part

(* Where a pull stores a piece: a packed field is filled from its end.     *)
Gather(out, part, packed) == IF packed THEN part \o out ELSE out \o part

(* One turn of the loop of fs_buffer_list_pull that removes data.  A       *)
(* buffer that is emptied leaves the list.                                 *)
PullPiece(st, b, from_tail, packed) ==
  LET d    == st.buf[b].data
      n    == IF st.n >= Len(d) THEN Len(d) ELSE st.n
      part == Memory(First(d, n), packed)
  IN [n   |-> st.n - n,
      out |-> Gather(st.out, part, packed),
      buf |-> [st.buf EXCEPT ![b] = fs_buffer_pull(@, n, from_tail)],
      emptied |-> IF n = Len(d) THEN Append(st.emptied, b) ELSE st.emptied]

PullAll(st, list, from_tail, packed) ==
  FoldLeft(LAMBDA s, b : IF s.n = 0 THEN s ELSE PullPiece(s, b, from_tail, packed),
           st, list)

Pulled(l, n, from_tail, packed) ==
  PullAll([n |-> n, out |-> <<>>, buf |-> buf, emptied |-> <<>>],
          IF from_tail THEN Reverse(chain[l]) ELSE chain[l], from_tail, packed)

(* fs_buffer_list_pull.  From the tail the data is thrown away (data is    *)
(* NULL).  The buffers that are emptied go back to the free ones.          *)
fs_buffer_list_pull(l, n, from_tail) ==
  LET st      == Pulled(l, n, from_tail, FALSE)
      emptied == st.emptied
      kept    == IF from_tail THEN First(chain[l], Len(chain[l]) - Len(emptied))
                 ELSE Drop(chain[l], Len(emptied))
  IN /\ l \in held /\ total_length[l] >= n
     /\ from_tail => TailSound(l)
     /\ buf' = [b \in Buffers |-> IF b \in ToSet(emptied) THEN Fresh ELSE st.buf[b]]
     /\ chain' = [chain EXCEPT ![l] = kept]
     /\ tail' = [tail EXCEPT ![l] =
                   IF kept = <<>> THEN NULL ELSE IF from_tail THEN Last(kept) ELSE @]
     /\ total_length' = [total_length EXCEPT ![l] = @ - n]
     /\ FreeBuffers(emptied)
     /\ UNCHANGED <<free_lists, rx_lists, held, halted>>

(* One turn of the loop of fs_buffer_list_pull with FS_BUFFER_INPLACE.     *)
PeekPiece(st, b, packed) ==
  LET d    == buf[b].data
      n    == IF st.n + st.off >= Len(d) THEN Len(d) - st.off ELSE st.n
      part == Memory(SubSeq(d, st.off + 1, st.off + n), packed)
  IN IF st.off > Len(d)
     THEN [st EXCEPT !.off = @ - Len(d)]
     ELSE [n |-> st.n - n, off |-> 0, out |-> Gather(st.out, part, packed)]

(* What fs_buffer_list_pull returns with FS_BUFFER_INPLACE.                *)
Peeked(l, n, offset, from_tail, packed) ==
  LET off == IF from_tail THEN total_length[l] - (offset + n) ELSE offset
  IN FoldLeft(LAMBDA st, b : IF st.n = 0 THEN st ELSE PeekPiece(st, b, packed),
              [n |-> n, off |-> off, out |-> <<>>], chain[l]).out

(* One turn of the loop of fs_buffer_list_push with FS_BUFFER_UPDATE.      *)
UpdatePiece(st, b, packed) ==
  LET d    == st.buf[b].data
      n    == IF Len(st.left) + st.off > Len(d) THEN Len(d) - st.off ELSE Len(st.left)
      cut  == IF packed THEN Len(st.left) - n ELSE n
      part == IF packed THEN Drop(st.left, cut) ELSE First(st.left, cut)
  IN IF st.off > 0 /\ st.off >= Len(d)
     THEN [st EXCEPT !.off = @ - Len(d)]
     ELSE [left |-> IF packed THEN First(st.left, cut) ELSE Drop(st.left, cut),
           off  |-> 0,
           buf  |-> [st.buf EXCEPT ![b].data =
                       First(d, st.off) \o Memory(part, packed) \o Drop(d, st.off + n)]]

UpdateAll(st, list, packed) ==
  FoldLeft(LAMBDA s, b : IF s.left = <<>> THEN s ELSE UpdatePiece(s, b, packed),
           st, list)

fs_buffer_list_update(l, field, offset, from_tail, packed) ==
  LET data == Memory(field, packed)
      off  == IF from_tail THEN total_length[l] - (Len(data) + offset) ELSE offset
  IN /\ l \in held /\ total_length[l] >= Len(data) + offset
     /\ buf' = UpdateAll([left |-> data, off |-> off, buf |-> buf], chain[l], packed).buf
     /\ UNCHANGED <<chain, tail, total_length, poolVars, halted>>

----------------------------------------------------------------------------
(* fs_buffer_list_divide: the bytes after the first n go to a new list.    *)
(* The new list gets the tail of the old one even when that is the buffer  *)
(* which is divided.  Without a free buffer to divide it the assertion     *)
(* fails.                                                                  *)
Ends(l, i) == LengthOf(First(chain[l], i))

fs_buffer_list_divide(l, n) ==
  LET i    == CHOOSE j \in 1 .. Len(chain[l]) :
                Ends(l, j) >= n /\ \A k \in 1 .. j - 1 : Ends(l, k) < n
      b    == chain[l][i]
      this == n - Ends(l, i - 1)
      m    == Head(free_lists)
      cut  == Ends(l, i) # n
      new  == Head(free_buffers)
  IN /\ l \in held /\ n < total_length[l] /\ free_lists # <<>>
     /\ \/ /\ cut /\ free_buffers = <<>>
           /\ halted' = TRUE
           /\ UNCHANGED <<buf, chain, tail, total_length, poolVars>>
        \/ /\ cut /\ free_buffers # <<>>
           /\ buf' = [buf EXCEPT ![b].data = First(@, this),
                                 ![new].data = Drop(buf[b].data, this)]
           /\ chain' = [chain EXCEPT ![l] = First(@, i),
                                     ![m] = <<new>> \o Drop(chain[l], i)]
           /\ UseBuffers(Tail(free_buffers))
        \/ /\ ~cut
           /\ chain' = [chain EXCEPT ![l] = First(@, i), ![m] = Drop(chain[l], i)]
           /\ UNCHANGED <<buf, free_buffers, flags>>
     /\ ~(cut /\ free_buffers = <<>>) =>
          /\ tail' = [tail EXCEPT ![l] = b, ![m] = tail[l]]
          /\ total_length' = [total_length EXCEPT ![l] = n, ![m] = total_length[l] - n]
          /\ free_lists' = Tail(free_lists)
          /\ held' = held \cup {m}
          /\ UNCHANGED <<rx_lists, waiting, halted>>

(* Mutant: the length of the source is not cleared.                        *)
MoveKeepsLength(dst, src) ==
  /\ {dst, src} \subseteq held /\ dst # src /\ chain[dst] = <<>>
  /\ chain' = [chain EXCEPT ![dst] = chain[src], ![src] = <<>>]
  /\ tail' = [tail EXCEPT ![dst] = tail[src], ![src] = NULL]
  /\ total_length' = [total_length EXCEPT ![dst] = total_length[src]]
  /\ UNCHANGED <<buf, poolVars, halted>>

(* fs_buffer_list_move to an empty list.                                   *)
fs_buffer_list_move(dst, src) ==
  /\ {dst, src} \subseteq held /\ dst # src /\ chain[dst] = <<>>
  /\ chain' = [chain EXCEPT ![dst] = chain[src], ![src] = <<>>]
  /\ tail' = [tail EXCEPT ![dst] = tail[src], ![src] = NULL]
  /\ total_length' = [total_length EXCEPT ![dst] = total_length[src], ![src] = 0]
  /\ UNCHANGED <<buf, poolVars, halted>>

(* fs_buffer_list_move_data without FS_BUFFER_COPY: the chains are joined. *)
fs_buffer_list_move_data(dst, src, head) ==
  /\ {dst, src} \subseteq held /\ dst # src
  /\ IF head THEN chain[src] # <<>> /\ TailSound(src)
     ELSE chain[dst] # <<>> /\ TailSound(dst)
  /\ chain' = [chain EXCEPT
       ![dst] = IF head THEN chain[src] \o @ ELSE @ \o chain[src], ![src] = <<>>]
  /\ tail' = [tail EXCEPT ![dst] = IF head THEN @ ELSE tail[src], ![src] = NULL]
  /\ total_length' = [total_length EXCEPT ![dst] = @ + total_length[src], ![src] = 0]
  /\ UNCHANGED <<buf, poolVars, halted>>

(* fs_buffer_list_move_data with FS_BUFFER_COPY, as ppp.c uses it: each    *)
(* buffer is pushed at the tail, until one finds no space.                 *)
CopyBuffer(st, b) ==
  LET next == [st EXCEPT !.left = buf[b].data]
  IN IF st.status = "SUCCESS" /\ NumBuffers(next, FALSE) <= Len(st.free)
     THEN PushAll(next, FALSE, FALSE)
     ELSE [st EXCEPT !.status = "FS_BUFFER_NO_SPACE"]

fs_buffer_list_copy_data(dst, src) ==
  /\ {dst, src} \subseteq held /\ dst # src /\ TailSound(dst)
  /\ Bytes + total_length[src] <= MaxBytes
  /\ PushTo(dst, FoldLeft(CopyBuffer, PushState(dst, <<>>), chain[src]), FALSE)
  /\ UNCHANGED <<held, waiting>>

(* Mutant: the buffers of the list are not freed.                          *)
FreeListOnly(l) ==
  /\ chain' = [chain EXCEPT ![l] = <<>>]
  /\ tail' = [tail EXCEPT ![l] = NULL]
  /\ total_length' = [total_length EXCEPT ![l] = 0]
  /\ free_lists' = sll_append(free_lists, l)
  /\ waiting' = fs_buffer_do_resume(waiting, Len(free_lists'))
  /\ UNCHANGED <<buf, free_buffers, rx_lists, flags, halted>>

(* fs_buffer_add of a free list: its buffers first, then the list.         *)
FreeList(l) ==
  /\ buf' = [b \in Buffers |-> IF b \in ToSet(chain[l]) THEN Fresh ELSE buf[b]]
  /\ chain' = [chain EXCEPT ![l] = <<>>]
  /\ tail' = [tail EXCEPT ![l] = NULL]
  /\ total_length' = [total_length EXCEPT ![l] = 0]
  /\ free_buffers' = free_buffers \o chain[l]
  /\ free_lists' = sll_append(free_lists, l)
  /\ flags' = IF chain[l] = <<>> THEN flags ELSE flags \cup {"FS_SPACE_AVAILABLE"}
  /\ waiting' = fs_buffer_do_resume(
       IF chain[l] = <<>> THEN waiting
       ELSE fs_buffer_do_resume(waiting, Len(free_buffers')), Len(free_lists'))
  /\ UNCHANGED <<rx_lists, halted>>

fs_buffer_add_list(l) == l \in held /\ FreeList(l) /\ held' = held \ {l}

(* fs_buffer_get and fs_buffer_list_append: a driver reads into a buffer.  *)
fs_buffer_list_append(l, field) ==
  /\ l \in held /\ TailSound(l) /\ Len(field) <= BufferSize /\ free_buffers # <<>>
  /\ Bytes + Len(field) <= MaxBytes
  /\ LET b == Head(free_buffers)
     IN /\ buf' = [buf EXCEPT ![b].data = field]
        /\ chain' = [chain EXCEPT ![l] = sll_append(@, b)]
        /\ tail' = [tail EXCEPT ![l] = b]
  /\ total_length' = [total_length EXCEPT ![l] = @ + Len(field)]
  /\ UseBuffers(Tail(free_buffers))
  /\ UNCHANGED <<free_lists, rx_lists, held, waiting, halted>>

(* fs_buffer_add to the received lists, at their end or at their head, and *)
(* fs_buffer_get of the first.                                             *)
fs_buffer_add_rx(l, head) ==
  /\ l \in held
  /\ rx_lists' = IF head THEN sll_push(rx_lists, l) ELSE sll_append(rx_lists, l)
  /\ held' = held \ {l}
  /\ flags' = flags \cup {"FS_DATA_AVAILABLE"}
  /\ UNCHANGED <<buf, chain, tail, total_length, free_buffers, free_lists, waiting, halted>>

fs_buffer_get_rx ==
  /\ rx_lists # <<>>
  /\ held' = held \cup {Head(rx_lists)}
  /\ rx_lists' = Tail(rx_lists)
  /\ flags' = IF Tail(rx_lists) = <<>> THEN flags \ {"FS_DATA_AVAILABLE"} ELSE flags
  /\ UNCHANGED <<buf, chain, tail, total_length, free_buffers, free_lists, waiting, halted>>

----------------------------------------------------------------------------
Push ==
  \E l \in held, field \in Fields, head, packed \in BOOLEAN, mode \in Modes :
    fs_buffer_list_push(l, field, head, packed, mode)

Pull ==
  \E l \in held, from_tail \in BOOLEAN : \E n \in 1 .. total_length[l] :
    fs_buffer_list_pull(l, n, from_tail)

Update ==
  \E l \in held, field \in Fields : \E offset \in 0 .. total_length[l] :
    \E from_tail, packed \in BOOLEAN :
      fs_buffer_list_update(l, field, offset, from_tail, packed)

Divide == \E l \in held : \E n \in 1 .. total_length[l] : fs_buffer_list_divide(l, n)

Next ==
  /\ ~halted
  /\ \/ Push \/ Pull \/ Update \/ Divide
     \/ \E mode \in Modes : fs_buffer_get_list(mode)
     \/ \E t \in Tasks : Resumed(t)
     \/ \E l \in held :
          \/ fs_buffer_add_list(l)
          \/ \E head \in BOOLEAN : fs_buffer_add_rx(l, head)
          \/ \E field \in Fields : fs_buffer_list_append(l, field)
          \/ \E m \in held :
               \/ fs_buffer_list_move(l, m) \/ fs_buffer_list_copy_data(l, m)
               \/ \E head \in BOOLEAN : fs_buffer_list_move_data(l, m, head)
     \/ fs_buffer_get_rx

BufferSpec == Init /\ [][Next]_vars

----------------------------------------------------------------------------
Requests ==
  {Idle}
  \cup [what : {"list"}, type : {"list"}, need : Nat, resumed : BOOLEAN]
  \cup [what : {"push"}, list : Lists, data : Seq(1 .. MaxField), head : BOOLEAN,
        packed : BOOLEAN, type : {"buffer"}, need : Nat, resumed : BOOLEAN]

(* The types of the variables; the data of a buffer fits behind its head   *)
(* room.                                                                   *)
BufferTypeOK ==
  /\ buf \in [Buffers -> [room : 0 .. BufferSize, data : Seq(1 .. MaxField)]]
  /\ \A b \in Buffers : buf[b].room + Len(buf[b].data) <= BufferSize
  /\ chain \in [Lists -> Seq(Buffers)]
  /\ tail \in [Lists -> Buffers \cup {NULL}]
  /\ total_length \in [Lists -> Nat]
  /\ free_buffers \in Seq(Buffers)
  /\ free_lists \in Seq(Lists) /\ rx_lists \in Seq(Lists) /\ held \subseteq Lists
  /\ flags \subseteq {"FS_SPACE_AVAILABLE", "FS_DATA_AVAILABLE"}
  /\ waiting \in [Tasks -> Requests]
  /\ halted \in BOOLEAN

(* Every buffer is free or in one chain, once: none is lost and none is    *)
(* used twice, whatever sequence of operations the lists went through.     *)
(* Every list is free, received, with a program or kept by a task that     *)
(* waits to push on it.                                                    *)
Places(b) ==
  {<<"free", i>> : i \in {j \in DOMAIN free_buffers : free_buffers[j] = b}}
  \cup UNION {{<<l, i>> : i \in {j \in DOMAIN chain[l] : chain[l][j] = b}} : l \in Lists}

ListPlaces(l) ==
  {<<"free", i>> : i \in {j \in DOMAIN free_lists : free_lists[j] = l}}
  \cup {<<"rx", i>> : i \in {j \in DOMAIN rx_lists : rx_lists[j] = l}}
  \cup {<<"held", m>> : m \in held \cap {l}}
  \cup {<<"push", t>> : t \in {u \in Tasks : waiting[u].what = "push" /\ waiting[u].list = l}}

NothingLost ==
  /\ \A b \in Buffers : Cardinality(Places(b)) = 1
  /\ \A l \in Lists : Cardinality(ListPlaces(l)) = 1

(* total_length is the number of bytes of the chain and no buffer of a     *)
(* chain is empty: fs_buffer_list_pull checks the first and asserts the    *)
(* second.                                                                 *)
LengthExact ==
  \A l \in Lists :
    /\ total_length[l] = Len(Flat(l))
    /\ \A b \in ToSet(chain[l]) : buf[b].data # <<>>

(* The flags that fs_read and fs_write block on say what the descriptor    *)
(* holds.                                                                  *)
FlagsExact ==
  /\ "FS_SPACE_AVAILABLE" \in flags <=> free_buffers # <<>>
  /\ "FS_DATA_AVAILABLE" \in flags <=> rx_lists # <<>>

(* No task sleeps in fs_buffer_suspend while what it waits for is there.   *)
NoStarvedWaiter ==
  \A t \in Tasks :
    waiting[t] # Idle /\ Available(waiting[t].type) >= waiting[t].need => waiting[t].resumed

(* What a pull returns, removing data or not, is the field at that place,  *)
(* in the byte order asked for, wherever the buffers are cut.              *)
ReadsExact ==
  \A l \in Lists, packed \in BOOLEAN : \A n \in 1 .. total_length[l] :
    /\ Pulled(l, n, FALSE, packed).out = Memory(First(Flat(l), n), packed)
    /\ \A offset \in 0 .. total_length[l] - n :
         /\ Peeked(l, n, offset, FALSE, packed)
              = Memory(SubSeq(Flat(l), offset + 1, offset + n), packed)
         /\ Peeked(l, n, offset, TRUE, packed)
              = Memory(First(Drop(Flat(l), total_length[l] - offset - n), n), packed)

(* The lists are sequences of bytes: no operation loses, repeats or        *)
(* reorders a byte, wherever the buffers are cut.                          *)
Abstract == INSTANCE ByteLists WITH content <- [l \in Lists |-> Flat(l)]
KeepsBytes == Abstract!Spec
============================================================================
