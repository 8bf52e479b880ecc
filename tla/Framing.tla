------------------------------ MODULE Framing ------------------------------
(***************************************************************************)
(* The buffers of messages: a protocol_message (header and body, as on the *)
(* wire) and a tagged_message (body only) hold their content in themselves *)
(* if it is short, and in a block of the heap otherwise.  protocol_message *)
(* moves by handing over its block, tagged_message by copying.             *)
(*                                                                         *)
(* The content of a body is one value; bodies have one of a few lengths.   *)
(* The header of a message that comes in is any number of 32 bits; it      *)
(* passes through int, size_t and uint32_t on its way to a block.          *)
(***************************************************************************)
EXTENDS Naturals, FiniteSets

CONSTANTS
  Object,      \* places for messages
  Length,      \* lengths of the bodies that the controller makes
  Header,      \* numbers in the headers of the messages that come in
  Half,        \* 2^31: the first number that does not fit an int
  SizeMod,     \* 2^64: the first number that does not fit a size_t
  MaxNormal,   \* max_normal_body_length, max_normal_msg_size
  Content,     \* what is in a body
  Block        \* blocks of the heap

header_length == 4

ASSUME LengthAssumption ==
  /\ Half \in Nat \ {0} /\ SizeMod \in Nat /\ MaxNormal \in Nat
  /\ header_length + 2 * Half < SizeMod
  /\ Length \subseteq 0..(Half - 1) /\ Header \subseteq 0..(2 * Half - 1)

VARIABLES
  msg,      \* the messages
  heap,     \* the blocks
  failed,   \* an allocation has failed: nobody catches it, the process ends
  faulty,   \* history: a block was freed that was not allocated, or used when it was not,
            \* or beyond its end
  meant,    \* history: length and content each message was given
  sane      \* history: every header that came in fits an int

frameVars == <<msg, heap, failed, faulty, meant, sane>>

EmptyBuffer == [header |-> 0, body |-> 0]
Static == 0          \* data_ points to the buffer in the message
ASSUME BlockAssumption == Static \notin Block
Dead == [kind |-> "none", data |-> Static, dynamic_alloc |-> FALSE, length |-> 0, own |-> EmptyBuffer]
NoContent == [length |-> 0, body |-> 0]
NewMessage(kind) == [Dead EXCEPT !.kind = kind]

FrameInit ==
  /\ msg = [o \in Object |-> Dead]
  /\ heap = [b \in Block |-> [allocated |-> FALSE, bytes |-> 0, content |-> EmptyBuffer]]
  /\ failed = FALSE /\ faulty = FALSE
  /\ meant = [o \in Object |-> NoContent] /\ sane = TRUE

\* A message with the heap around it.
State(m) == [m |-> m, heap |-> heap, failed |-> failed, faulty |-> faulty]

\* Bytes before the body.
Overhead(m) == IF m.kind = "tagged" THEN 0 ELSE header_length

Get(st) == IF st.m.data = Static THEN st.m.own ELSE st.heap[st.m.data].content

\* The first n bytes of the buffer are written, or some of them; nothing is after a
\* failed allocation.
Put(st, c, n) ==
  IF st.failed THEN st
  ELSE IF st.m.data = Static THEN [st EXCEPT !.m.own = c]
  ELSE [st EXCEPT !.heap[st.m.data].content = c,
                  !.faulty = @ \/ ~ st.heap[st.m.data].allocated
                               \/ n > st.heap[st.m.data].bytes]

PutBody(st, d) == Put(st, [Get(st) EXCEPT !.body = d], Overhead(st.m) + st.m.length)

Free(st) ==
  IF ~ st.m.dynamic_alloc THEN st
  ELSE [st EXCEPT !.heap[st.m.data].allocated = FALSE,
                  !.faulty = @ \/ ~ st.heap[st.m.data].allocated]

\* A size_t becomes a uint32_t.
AsUint32(n) == n % (2 * Half)

\* A uint32_t that is taken for an int becomes a size_t: from Half on it is negative.
AsSize(n) == IF n < Half THEN n ELSE SizeMod - (2 * Half - n)

\* The size of the block, with the header, wraps in a size_t.  No heap has as much as a
\* negative number asks for.
Allocate(st, n) ==
  LET bytes == (Overhead(st.m) + n) % SizeMod
      b == CHOOSE c \in Block : ~ st.heap[c].allocated
  IN IF n <= MaxNormal
     THEN [st EXCEPT !.m.data = Static, !.m.dynamic_alloc = FALSE, !.m.length = n]
     ELSE IF bytes >= SizeMod - Half THEN [st EXCEPT !.failed = TRUE]
     ELSE [st EXCEPT !.m.data = b, !.m.dynamic_alloc = TRUE, !.m.length = AsUint32(n),
                     !.heap[b] = [allocated |-> TRUE, bytes |-> bytes, content |-> EmptyBuffer]]

set_body_length(st, n) == Allocate(Free(st), n)

encode_header(st, n) == Put(st, [Get(st) EXCEPT !.header = AsUint32(n)], header_length)

set_message(st, n, c) == PutBody(encode_header(set_body_length(st, n), n), c)

\* The header of the next message, n, has been read into the buffer.
decode_header(st, n) ==
  LET read == encode_header(st, n)
      len == AsSize(Get(read).header)
  IN encode_header(set_body_length(read, len), len)

Into(o, st, given) ==
  /\ msg' = [msg EXCEPT ![o] = st.m]
  /\ heap' = st.heap /\ failed' = st.failed /\ faulty' = st.faulty
  /\ meant' = [meant EXCEPT ![o] = given]

Room == \E b \in Block : ~ heap[b].allocated
-----------------------------------------------------------------------------
\* A message to an agent gets its frame.
NewProtocolMessage(o, n, c) ==
  /\ msg[o].kind = "none" /\ Room
  /\ Into(o, set_message(State(NewMessage("protocol")), n, c), [length |-> n, body |-> c])
  /\ UNCHANGED sane

\* A session reads header and body into its one read_msg_, again and again.
ReadMessage(o, n, c) ==
  /\ msg[o].kind \in {"none", "read"} /\ Room
  /\ LET old == IF msg[o].kind = "none" THEN NewMessage("read") ELSE msg[o]
     IN Into(o, PutBody(decode_header(State(old), n), c), [length |-> n, body |-> c])
  /\ sane' = (sane /\ n < Half)

\* Mutant: the source keeps its block.
MutMoveShares(o, p) ==
  /\ msg[o].kind = "protocol" /\ msg[p].kind = "none"
  /\ msg' = [msg EXCEPT ![p] = msg[o], ![o].kind = "moved"]
  /\ meant' = [meant EXCEPT ![p] = meant[o], ![o] = NoContent]
  /\ UNCHANGED <<heap, failed, faulty, sane>>

\* The move constructor.
MoveProtocolMessage(o, p) ==
  /\ msg[o].kind = "protocol" /\ msg[p].kind = "none"
  /\ msg' = [msg EXCEPT
       ![p] = IF msg[o].dynamic_alloc THEN [msg[o] EXCEPT !.own = EmptyBuffer]
              ELSE [msg[o] EXCEPT !.data = Static],
       ![o].kind = "moved", ![o].dynamic_alloc = FALSE]
  /\ meant' = [meant EXCEPT ![p] = meant[o], ![o] = NoContent]
  /\ UNCHANGED <<heap, failed, faulty, sane>>

\* A body with a tag, from or for the queues between the threads.
NewTaggedMessage(o, n, c) ==
  /\ msg[o].kind = "none" /\ Room
  /\ LET st == Allocate(State(NewMessage("tagged")), n)
     IN Into(o, PutBody(st, c), [length |-> n, body |-> c])
  /\ UNCHANGED sane

\* The copy and the move constructor.
CopyTaggedMessage(o, p) ==
  /\ msg[o].kind = "tagged" /\ msg[p].kind = "none" /\ Room
  /\ LET st == Allocate(State(NewMessage("tagged")), msg[o].length)
     IN Into(p, PutBody(st, Get(State(msg[o])).body), meant[o])
  /\ UNCHANGED sane

AssignTaggedMessage(o, p) ==
  /\ o # p /\ msg[o].kind = "tagged" /\ msg[p].kind = "tagged" /\ Room
  /\ LET st == Allocate(Free(State(msg[p])), msg[o].length)
     IN Into(p, PutBody(st, Get(State(msg[o])).body), meant[o])
  /\ UNCHANGED sane

Destroy(o) ==
  /\ msg[o].kind # "none"
  /\ LET st == Free(State(msg[o])) IN Into(o, [st EXCEPT !.m = Dead], NoContent)
  /\ UNCHANGED sane

\* A block that was misused may be anything afterwards: the behaviour stops there.
FrameNext ==
  /\ ~ failed /\ ~ faulty
  /\ \/ \E o \in Object, n \in Length, c \in Content :
          NewProtocolMessage(o, n, c) \/ NewTaggedMessage(o, n, c)
     \/ \E o \in Object, n \in Header, c \in Content : ReadMessage(o, n, c)
     \/ \E o, p \in Object :
          MoveProtocolMessage(o, p) \/ CopyTaggedMessage(o, p) \/ AssignTaggedMessage(o, p)
     \/ \E o \in Object : Destroy(o)

FrameSpec == FrameInit /\ [][FrameNext]_frameVars
-----------------------------------------------------------------------------
(***************************************************************************)
(* "Disable dynamic_alloc_ in other so we don't free twice.  I hope I got  *)
(* it right..." (protocol_message.cc:45): no block is freed twice, used    *)
(* after it was freed or written beyond its end, each belongs to one       *)
(* message, and none is forgotten.                                         *)
(***************************************************************************)
BlocksOwned ==
  LET owner(b) == {o \in Object : msg[o].dynamic_alloc /\ msg[o].data = b}
  IN /\ ~ faulty
     /\ \A b \in Block : Cardinality(owner(b)) = IF heap[b].allocated THEN 1 ELSE 0

(***************************************************************************)
(* Whatever has become of its buffers, a message holds what it was given,  *)
(* behind a header with its length: what goes on the wire, and what is     *)
(* handed on of a body that was read.                                      *)
(***************************************************************************)
FramesHold ==
  \A o \in Object : msg[o].kind \in {"protocol", "read", "tagged"} =>
    /\ msg[o].length = meant[o].length
    /\ Get(State(msg[o])).body = meant[o].body
    /\ msg[o].kind # "tagged" => Get(State(msg[o])).header = meant[o].length

(***************************************************************************)
(* The buffers of messages are sound: both of the above, after any moves,  *)
(* copies and uses of the one read_msg_ of a session, as long as each      *)
(* header that was read is a number an int holds.  A header of Half or     *)
(* more becomes a size near SizeMod: the allocation fails, or it wraps     *)
(* when the header is added and the block is too short for the header.     *)
(***************************************************************************)
BuffersSound == sane => ~ failed /\ BlocksOwned /\ FramesHold
=============================================================================
