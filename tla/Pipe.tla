-------------------------------- MODULE Pipe --------------------------------
(***************************************************************************)
(* A pipe (fs/pipe.c): messages of any length in a circular buffer, each   *)
(* behind a header that is never split.  A read or a write runs with the   *)
(* lock of the pipe held, from fs_read and fs_write or called directly.    *)
(***************************************************************************)
EXTENDS Integers, Sequences

CONSTANTS
  PipeSizes,     \* sizes of the buffer
  HEADER,        \* sizeof(MSG_DATA): a cell for the flags, the next for the size
  ALIGN,         \* boundary of ALLIGN_CEIL
  MessageSizes,  \* bytes of a message
  NumMarks       \* messages that follow each other with different bytes

ASSUME PipeAssumption ==
  /\ HEADER \in Nat /\ HEADER >= 2 /\ ALIGN \in Nat \ {0} /\ HEADER % ALIGN = 0
  /\ MessageSizes \subseteq Nat /\ NumMarks \in Nat \ {0}
  /\ \A s \in PipeSizes : /\ s \in Nat /\ s % ALIGN = 0 /\ s >= HEADER
                          /\ \A n \in MessageSizes : s >= HEADER + n

VARIABLES
  pipe_size, pipe_data, pipe_message, pipe_free,
  pipe_flags,    \* FS_DATA_AVAILABLE and FS_SPACE_AVAILABLE of the descriptor
  unread,        \* the messages that were written and not read, for the properties
  mark           \* tells the bytes of the next message from those of the last

pipeVars == <<pipe_size, pipe_data, pipe_message, pipe_free, pipe_flags, unread, mark>>

ALLIGN_CEIL(n) == ((n + ALIGN - 1) \div ALIGN) * ALIGN

(* pipe_create                                                             *)
PipeInit ==
  /\ pipe_size \in PipeSizes
  /\ pipe_data = [i \in 0 .. pipe_size - 1 |-> 0]
  /\ pipe_message = 0 /\ pipe_free = 0
  /\ pipe_flags = {"SPACE"}
  /\ unread = <<>> /\ mark = 0

(* The next message, of n bytes.                                           *)
Message(n) == [k \in 1 .. n |-> 10 * mark + k]

(* There is a message to read.                                             *)
Valid == pipe_data[pipe_message] = 1

(* Mutant: the header is not counted.                                      *)
RoomForData(need) ==
  \/ pipe_free > pipe_message /\ pipe_free + need - HEADER < pipe_size + pipe_message
  \/ pipe_free < pipe_message /\ pipe_free + need - HEADER < pipe_message

(* Space for the bytes between the two positions, less one.                *)
Room(need) ==
  \/ pipe_free > pipe_message /\ pipe_free + need < pipe_size + pipe_message
  \/ pipe_free < pipe_message /\ pipe_free + need < pipe_message

(* A position behind a message, where the next header has to fit.          *)
RollOver(i) ==
  IF i > pipe_size THEN i % pipe_size ELSE IF i + HEADER > pipe_size THEN 0 ELSE i

(* Position of byte k of a message whose header is at i: the bytes behind  *)
(* the end of the buffer are at its start.                                 *)
At(i, k) == (i + HEADER + k - 1) % pipe_size

pipe_write(data) ==
  LET free == RollOver((IF pipe_free + HEADER = pipe_size THEN 0 ELSE pipe_free + HEADER)
                         + ALLIGN_CEIL(Len(data)))
  IN  /\ ~ Valid \/ Room(ALLIGN_CEIL(Len(data)) + HEADER)
      /\ pipe_data' = [i \in DOMAIN pipe_data |->
           CASE i = pipe_free -> 1
             [] i = pipe_free + 1 -> Len(data)
             [] \E k \in DOMAIN data : i = At(pipe_free, k) ->
                  data[CHOOSE k \in DOMAIN data : i = At(pipe_free, k)]
             [] OTHER -> pipe_data[i]]
      /\ pipe_free' = free
      /\ pipe_flags' = {"DATA"} \cup
           IF \/ free > pipe_message /\ free + HEADER >= pipe_size + pipe_message
              \/ free < pipe_message /\ free + HEADER >= pipe_message
           THEN pipe_flags \ {"SPACE"} ELSE pipe_flags
      /\ unread' = Append(unread, data)
      /\ mark' = (mark + 1) % NumMarks
      /\ UNCHANGED <<pipe_size, pipe_message>>

(* What pipe_read copies to its caller.                                    *)
ReadBytes == [k \in 1 .. pipe_data[pipe_message + 1] |-> pipe_data[At(pipe_message, k)]]

(* A read of up to size bytes; a message that is longer stays.             *)
pipe_read(size) ==
  LET n    == pipe_data[pipe_message + 1]
      next == RollOver(pipe_message + HEADER + ALLIGN_CEIL(n))
  IN  /\ Valid /\ size >= n
      /\ IF next = pipe_free
         THEN /\ pipe_message' = 0 /\ pipe_free' = 0
              /\ pipe_data' = [pipe_data EXCEPT ![0] = 0]
              /\ pipe_flags' = pipe_flags \ {"DATA"}
         ELSE /\ pipe_message' = next
              /\ UNCHANGED <<pipe_free, pipe_data, pipe_flags>>
      /\ unread' = Tail(unread)
      /\ UNCHANGED <<pipe_size, mark>>

PipeNext ==
  \/ \E n \in MessageSizes : pipe_write(Message(n))
  \/ \E size \in MessageSizes : pipe_read(size)

PipeSpec == PipeInit /\ [][PipeNext]_pipeVars

----------------------------------------------------------------------------
(* A pipe gives its messages back whole and in the order they were written *)
(* in, wherever they wrap, and says so: the next read finds the oldest     *)
(* message, with every byte, and none when all have been read; the data    *)
(* flag tells which (pipe_write, pipe_read).                               *)
PipeExact ==
  /\ Valid <=> unread # <<>>
  /\ Valid => ReadBytes = Head(unread)
  /\ "DATA" \in pipe_flags <=> unread # <<>>
============================================================================
