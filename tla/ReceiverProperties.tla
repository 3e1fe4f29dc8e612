-------------------------- MODULE ReceiverProperties --------------------------
(***************************************************************************)
(* What must hold of the incoming stream: recv_callback handles exactly    *)
(* the messages that the stream as a whole contains.                       *)
(***************************************************************************)
EXTENDS Receiver

\* The type invariant, and the bound of message_buffer: what is received for the
\* magic, a length or a body never exceeds what the buffer holds, and is never
\* complete when the next byte is awaited.
TypeOK ==
    /\ magic \in 0 .. Len(Magic)
    /\ msgLen \in {0} \cup WordSize .. BufferCap
    /\ buffer \in Seq(Byte)
    /\ rest \in Seq(Byte)
    /\ stream \in Seq(Byte)
    /\ handled \in Seq([id : 1 .. Len(Sizes), data : Seq(Byte)])
    /\ conns \in Nat
Wanted == IF magic < Len(Magic) THEN 1 ELSE IF msgLen = 0 THEN WordSize ELSE msgLen
BufferHolds ==
    /\ Len(buffer) < Wanted
    /\ Wanted <= BufferCap
    /\ magic < Len(Magic) => msgLen = 0

\* Every iteration of the loop of recv_callback copies something, so the callback,
\* an interrupt, comes to an end.
EveryIterationReads ==
    [][rest # << >> => Len(rest') < Len(rest)]_vars

-----------------------------------------------------------------------------
\* The messages of a stream, by their definition: find the magic, read a length,
\* take that many bytes, go on after them.
MagicAt(s, q) == SubSeq(s, q, q + Len(Magic) - 1) = Magic

\* Where a magic that a whole length follows begins, from p on, and the first of them.
Starts(s, p) == {q \in p .. Len(s) - Len(Magic) - WordSize + 1 : MagicAt(s, q)}
FirstStart(s, p) == CHOOSE q \in Starts(s, p) : \A r \in Starts(s, p) : q <= r

\* The length behind a magic at q, and where the body begins.
BodyAt(q) == q + Len(Magic) + WordSize
LengthAt(s, q) == Signed(Number(SubSeq(s, q + Len(Magic), BodyAt(q) - 1)))

\* The messages that begin at p or later, with From for those that follow a frame.
Messages(s, p, From) ==
    LET q == FirstStart(s, p)
        n == LengthAt(s, q)
        body == BodyAt(q)
    IN  IF Starts(s, p) = {} THEN << >>
        ELSE IF n \notin WordSize .. BufferCap THEN From[body]
        ELSE IF body + n - 1 > Len(s) THEN << >>
        ELSE Dispatch(SubSeq(s, body, body + n - 1)) \o From[body + n]

MessagesFrom(s) ==
    LET From[p \in 1 .. Len(s) + 1] == Messages(s, p, From) IN From

MessagesOf(s) == MessagesFrom(s)[1]

\* However the stream was cut, and whatever stands between two frames, what has
\* been handled is what the stream contains.
HandlesTheStream == handled = MessagesOf(stream)
===============================================================================
