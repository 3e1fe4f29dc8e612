------------------------------ MODULE Receiver ------------------------------
(***************************************************************************)
(* network.cpp, the incoming half: recv_callback finds the messages in the *)
(* bytes of one connection, however TCP cuts them into segments.  A frame  *)
(* is the magic, a length and that many bytes, which begin with the id.    *)
(*                                                                         *)
(* One step is one iteration of the loop of recv_callback, which runs in   *)
(* an interrupt and so to its end before anything else of this client.     *)
(***************************************************************************)
EXTENDS Integers, SequencesExt

CONSTANTS
    Base,         \* a byte is a number below Base (256)
    Magic,        \* MAGIC, bytes that are all different
    WordSize,     \* sizeof(u32), the bytes of a length and of an id
    BufferCap,    \* IN_MESSAGE_BUFFER_CAP
    Sizes,        \* msg_sizes: the size of the message with each id
    MaxStream,    \* bound: bytes of one connection
    MaxSegment,   \* bound: bytes of one segment
    MaxConns      \* bound: connections that use the slot in turn

Byte == 0 .. Base - 1

ASSUME BaseAssumption == Base \in Nat /\ Base >= 2
ASSUME MagicAssumption ==
    /\ Magic \in Seq(Byte)
    /\ Len(Magic) >= 1
    /\ \A j, k \in 1 .. Len(Magic) : Magic[j] = Magic[k] => j = k
ASSUME WordAssumption == WordSize \in Nat \ {0}
\* The static_assert on IN_MESSAGE_BUFFER_CAP, and room for a length in it.
ASSUME CapAssumption == BufferCap \in Nat /\ WordSize <= BufferCap
ASSUME SizesAssumption == Sizes \in Seq(Nat)
ASSUME BoundsAssumption == {MaxStream, MaxSegment, MaxConns} \subseteq Nat

VARIABLES
    magic,        \* recved_magic
    msgLen,       \* current_in_msg_len, 0 while the length is awaited
    buffer,       \* the first recved_len bytes of message_buffer
    rest,         \* the bytes of the pbuf from offset on
    stream,       \* all the bytes of this connection copied so far
    handled,      \* the messages given to handle_incoming_msg
    conns         \* how many connections have used the slot

vars == <<magic, msgLen, buffer, rest, stream, handled, conns>>

Fresh == magic = 0 /\ msgLen = 0 /\ buffer = << >>

Init ==
    /\ Fresh
    /\ rest = << >>
    /\ stream = << >>
    /\ handled = << >>
    /\ conns = 1

\* ntohl, and what it is as an isize.
Number(s) == FoldLeft(LAMBDA n, b : Base * n + b, 0, s)
Signed(n) == IF 2 * n >= Base ^ WordSize THEN n - Base ^ WordSize ELSE n

\* TCP delivers bytes, cut as it likes.
Segment ==
    /\ rest = << >>
    /\ \E n \in 1 .. MaxSegment :
          /\ Len(stream) + n <= MaxStream
          /\ \E s \in [1 .. n -> Byte] : rest' = s
    /\ UNCHANGED <<magic, msgLen, buffer, stream, handled, conns>>

\* try_receive: copy what is there of the size bytes that are wanted.
Copied(size) == IF size - Len(buffer) < Len(rest) THEN size - Len(buffer) ELSE Len(rest)
Received(size) == buffer \o SubSeq(rest, 1, Copied(size))
Complete(size) == Len(Received(size)) = size

Advance(size) == rest' = SubSeq(rest, Copied(size) + 1, Len(rest))

Consume(size) ==
    /\ Advance(size)
    /\ stream' = stream \o SubSeq(rest, 1, Copied(size))

\* reset_recv
Reset == magic' = 0 /\ msgLen' = 0 /\ buffer' = << >>

\* The magic's bytes seen so far, after one more.
NextMagicNoRestart(b) ==   \* broken: a wrong byte is never the magic's first
    IF b = Magic[magic + 1] THEN magic + 1 ELSE 0
NextMagic(b) ==
    IF b = Magic[magic + 1] THEN magic + 1
    ELSE IF b = Magic[1] THEN 1 ELSE 0

ReceiveMagic ==
    /\ rest # << >>
    /\ magic < Len(Magic)
    /\ Consume(1)
    /\ magic' = NextMagic(Received(1)[1])
    /\ buffer' = << >>
    /\ UNCHANGED <<msgLen, handled, conns>>

OutOfRangeLate(n) ==   \* broken: one byte more than the buffer holds
    n \notin WordSize .. BufferCap + 1
OutOfRange(n) == n \notin WordSize .. BufferCap

ReceiveLength ==
    /\ rest # << >>
    /\ magic = Len(Magic)
    /\ msgLen = 0
    /\ Consume(WordSize)
    /\ IF Complete(WordSize)
         THEN LET n == Signed(Number(Received(WordSize)))
              IN  IF OutOfRange(n) THEN Reset
                  ELSE msgLen' = n /\ buffer' = << >> /\ UNCHANGED magic
         ELSE buffer' = Received(WordSize) /\ UNCHANGED <<magic, msgLen>>
    /\ UNCHANGED <<handled, conns>>

\* msg_count and msg_sizes: is there a message with this id and size?
IsMessage(id, size) == id \in 1 .. Len(Sizes) /\ Sizes[id] = size

\* What is handled of the body of a frame: one message or none.
Dispatch(body) ==
    LET id == Number(SubSeq(body, 1, WordSize))
        data == SubSeq(body, WordSize + 1, Len(body))
    IN  IF IsMessage(id, Len(data)) THEN <<[id |-> id, data |-> data]>> ELSE << >>

ReceiveBody ==
    /\ rest # << >>
    /\ magic = Len(Magic)
    /\ msgLen # 0
    /\ Consume(msgLen)
    /\ IF Complete(msgLen)
         THEN /\ Reset
              /\ handled' = handled \o Dispatch(Received(msgLen))
         ELSE /\ buffer' = Received(msgLen)
              /\ UNCHANGED <<magic, msgLen, handled>>
    /\ UNCHANGED conns

\* The connection ends, and another one takes the slot: new_connection_callback.
Reconnect ==
    /\ rest = << >>
    /\ conns < MaxConns
    /\ Reset
    /\ stream' = << >>
    /\ handled' = << >>
    /\ conns' = conns + 1
    /\ UNCHANGED rest

Loop == ReceiveMagic \/ ReceiveLength \/ ReceiveBody

Next == Segment \/ Loop \/ Reconnect

Spec == Init /\ [][Next]_vars
=============================================================================
