---------------------------- MODULE ReceiverProofs ----------------------------
(***************************************************************************)
(* For every magic, word size, buffer and set of messages: the buffer      *)
(* never overflows, the loop of recv_callback ends, and what it handles    *)
(* are the messages of the stream, however TCP cuts it.                    *)
(***************************************************************************)
EXTENDS ReceiverProperties, SequenceTheorems, WellFoundedInduction, TLAPS

IInv == TypeOK /\ BufferHolds

USE BaseAssumption, MagicAssumption, WordAssumption, CapAssumption, SizesAssumption

\* What a part of a sequence of bytes is.
LEMMA Part ==
    ASSUME NEW s \in Seq(Byte), NEW m \in Nat \ {0}, NEW n \in Int, n <= Len(s)
    PROVE  /\ SubSeq(s, m, n) \in Seq(Byte)
           /\ Len(SubSeq(s, m, n)) = IF m <= n THEN n - m + 1 ELSE 0
<1>1. \A i \in m .. n : s[i] \in Byte
  BY LenProperties
<1> QED
  BY <1>1, SubSeqProperties

\* try_receive, called while size bytes are wanted and fewer are there: it takes
\* at least one byte of the segment and never more than are wanted.
LEMMA TryReceive ==
    ASSUME TypeOK, rest # << >>, NEW size \in Nat, Len(buffer) < size, Consume(size)
    PROVE  /\ Copied(size) \in 1 .. Len(rest)
           /\ rest' \in Seq(Byte)
           /\ Len(rest') < Len(rest)
           /\ stream' \in Seq(Byte)
           /\ Received(size) \in Seq(Byte)
           /\ Len(Received(size)) <= size
<1>1. Len(rest) \in Nat \ {0} /\ Len(buffer) \in Nat
  BY EmptySeq, LenProperties DEF TypeOK
<1>2. Copied(size) \in 1 .. Len(rest) /\ Copied(size) <= size - Len(buffer)
  BY <1>1 DEF Copied
<1>3. /\ SubSeq(rest, 1, Copied(size)) \in Seq(Byte)
      /\ Len(SubSeq(rest, 1, Copied(size))) = Copied(size)
  BY <1>1, <1>2, Part DEF TypeOK
<1>4. /\ rest' \in Seq(Byte)
      /\ Len(rest') = Len(rest) - Copied(size)
  <2>1. Copied(size) + 1 \in Nat \ {0} /\ Len(rest) <= Len(rest)
    BY <1>1, <1>2
  <2>2. /\ SubSeq(rest, Copied(size) + 1, Len(rest)) \in Seq(Byte)
        /\ Len(SubSeq(rest, Copied(size) + 1, Len(rest))) =
              IF Copied(size) + 1 <= Len(rest) THEN Len(rest) - (Copied(size) + 1) + 1 ELSE 0
    BY <2>1, <1>1, Part DEF TypeOK
  <2> QED
    BY <2>2, <1>1, <1>2 DEF Consume, Advance
<1>5. stream' \in Seq(Byte)
  BY <1>3, ConcatProperties DEF TypeOK, Consume
<1>6. /\ Received(size) \in Seq(Byte)
      /\ Len(Received(size)) = Len(buffer) + Copied(size)
  BY <1>3, ConcatProperties DEF TypeOK, Received
<1> QED
  BY <1>1, <1>2, <1>4, <1>5, <1>6

\* A message that is dispatched has the id and the data of one that is known.
LEMMA DispatchType ==
    ASSUME NEW body \in Seq(Byte)
    PROVE  Dispatch(body) \in Seq([id : 1 .. Len(Sizes), data : Seq(Byte)])
<1> DEFINE id == Number(SubSeq(body, 1, WordSize))
           data == SubSeq(body, WordSize + 1, Len(body))
<1>1. data \in Seq(Byte)
  BY LenProperties, Part
<1>2. CASE IsMessage(id, Len(data))
  <2>1. Dispatch(body) = <<[id |-> id, data |-> data]>>
    BY <1>2 DEF Dispatch
  <2>2. [id |-> id, data |-> data] \in [id : 1 .. Len(Sizes), data : Seq(Byte)]
    BY <1>1, <1>2 DEF IsMessage
  <2> HIDE DEF id, data
  <2> QED
    BY <2>1, <2>2
<1>3. CASE ~IsMessage(id, Len(data))
  <2>1. Dispatch(body) = << >>
    BY <1>3 DEF Dispatch
  <2> QED
    BY <2>1, EmptySeq
<1> QED
  BY <1>2, <1>3

-----------------------------------------------------------------------------
\* Nothing has been received when the slot is first used.
LEMMA InitHolds == Init => IInv
<1> SUFFICES ASSUME Init PROVE IInv
  OBVIOUS
<1>1. TypeOK
  BY EmptySeq DEF Init, Fresh, TypeOK
<1>2. BufferHolds
  BY LenProperties DEF Init, Fresh, BufferHolds, Wanted
<1> QED
  BY <1>1, <1>2 DEF IInv

\* The magic: one byte at a time.
LEMMA ReceiveMagicHolds == IInv /\ ReceiveMagic => IInv' /\ Len(rest') < Len(rest)
<1> SUFFICES ASSUME IInv, ReceiveMagic PROVE IInv' /\ Len(rest') < Len(rest)
  OBVIOUS
<1> USE DEF IInv
<1>1. TypeOK /\ rest # << >> /\ Len(buffer) < 1 /\ Consume(1) /\ Wanted = 1
  BY DEF ReceiveMagic, BufferHolds, Wanted
<1>2. /\ rest' \in Seq(Byte) /\ Len(rest') < Len(rest) /\ stream' \in Seq(Byte)
  BY <1>1, TryReceive
<1>3. magic' \in 0 .. Len(Magic) /\ msgLen = 0
  <2>1. Len(Magic) \in Nat /\ magic \in 0 .. Len(Magic) /\ magic < Len(Magic)
    BY <1>1, LenProperties DEF TypeOK, ReceiveMagic
  <2> QED
    BY <2>1 DEF ReceiveMagic, NextMagic, BufferHolds
<1>4. TypeOK'
  BY <1>1, <1>2, <1>3, EmptySeq DEF ReceiveMagic, TypeOK
<1>5. BufferHolds'
  <2>1. buffer' = << >> /\ msgLen' = 0
    BY <1>3 DEF ReceiveMagic
  <2> QED
    BY <2>1, <1>3 DEF BufferHolds, Wanted
<1> QED
  BY <1>2, <1>4, <1>5

\* The length: it is used only if the buffer holds that many bytes.
LEMMA ReceiveLengthHolds == IInv /\ ReceiveLength => IInv' /\ Len(rest') < Len(rest)
<1> SUFFICES ASSUME IInv, ReceiveLength PROVE IInv' /\ Len(rest') < Len(rest)
  OBVIOUS
<1> USE DEF IInv
<1>1. /\ TypeOK /\ rest # << >> /\ Consume(WordSize)
      /\ Len(buffer) < WordSize /\ WordSize \in Nat
      /\ magic = Len(Magic) /\ msgLen = 0 /\ Len(Magic) \in Nat \ {0}
  BY LenProperties DEF ReceiveLength, BufferHolds, Wanted
<1>2. /\ rest' \in Seq(Byte) /\ Len(rest') < Len(rest) /\ stream' \in Seq(Byte)
      /\ Received(WordSize) \in Seq(Byte) /\ Len(Received(WordSize)) <= WordSize
  BY <1>1, TryReceive
<1>3. CASE ~Complete(WordSize)
  <2>1. buffer' = Received(WordSize) /\ magic' = magic /\ msgLen' = 0
    BY <1>1, <1>3 DEF ReceiveLength
  <2>2. Len(Received(WordSize)) < WordSize
    BY <1>1, <1>2, <1>3, LenProperties DEF Complete
  <2>3. TypeOK'
    BY <1>1, <1>2, <2>1 DEF ReceiveLength, TypeOK
  <2>4. BufferHolds'
    BY <1>1, <2>1, <2>2 DEF BufferHolds, Wanted
  <2> QED
    BY <1>2, <2>3, <2>4
<1>4. CASE Complete(WordSize)
  <2> DEFINE n == Signed(Number(Received(WordSize)))
  <2>1. CASE OutOfRange(n)
    <3>1. magic' = 0 /\ msgLen' = 0 /\ buffer' = << >>
      BY <1>4, <2>1 DEF ReceiveLength, Reset
    <3>2. TypeOK'
      BY <1>1, <1>2, <3>1, EmptySeq DEF ReceiveLength, TypeOK
    <3>3. BufferHolds'
      BY <1>1, <3>1 DEF BufferHolds, Wanted
    <3> QED
      BY <1>2, <3>2, <3>3
  <2>2. CASE ~OutOfRange(n)
    <3>1. msgLen' = n /\ buffer' = << >> /\ magic' = magic
      BY <1>4, <2>2 DEF ReceiveLength
    <3>2. n \in WordSize .. BufferCap
      BY <2>2 DEF OutOfRange
    <3> HIDE DEF n
    <3>3. TypeOK'
      BY <1>1, <1>2, <3>1, <3>2, EmptySeq DEF ReceiveLength, TypeOK
    <3>4. BufferHolds'
      BY <1>1, <3>1, <3>2 DEF BufferHolds, Wanted
    <3> QED
      BY <1>2, <3>3, <3>4
  <2> QED
    BY <2>1, <2>2
<1> QED
  BY <1>3, <1>4

\* The body: as many bytes as the length said.
LEMMA ReceiveBodyHolds == IInv /\ ReceiveBody => IInv' /\ Len(rest') < Len(rest)
<1> SUFFICES ASSUME IInv, ReceiveBody PROVE IInv' /\ Len(rest') < Len(rest)
  OBVIOUS
<1> USE DEF IInv
<1>1. /\ TypeOK /\ rest # << >> /\ Consume(msgLen)
      /\ magic = Len(Magic) /\ msgLen # 0 /\ Len(Magic) \in Nat \ {0}
      /\ msgLen \in WordSize .. BufferCap /\ msgLen \in Nat
      /\ Len(buffer) < msgLen
  BY LenProperties DEF ReceiveBody, TypeOK, BufferHolds, Wanted
<1>2. /\ rest' \in Seq(Byte) /\ Len(rest') < Len(rest) /\ stream' \in Seq(Byte)
      /\ Received(msgLen) \in Seq(Byte) /\ Len(Received(msgLen)) <= msgLen
  BY <1>1, TryReceive
<1>3. CASE ~Complete(msgLen)
  <2>1. /\ buffer' = Received(msgLen) /\ magic' = magic /\ msgLen' = msgLen
        /\ handled' = handled
    BY <1>3 DEF ReceiveBody
  <2>2. Len(Received(msgLen)) < msgLen
    BY <1>1, <1>2, <1>3, LenProperties DEF Complete
  <2>3. TypeOK'
    BY <1>1, <1>2, <2>1 DEF ReceiveBody, TypeOK
  <2>4. BufferHolds'
    BY <1>1, <2>1, <2>2 DEF BufferHolds, Wanted
  <2> QED
    BY <1>2, <2>3, <2>4
<1>4. CASE Complete(msgLen)
  <2>1. /\ magic' = 0 /\ msgLen' = 0 /\ buffer' = << >>
        /\ handled' = handled \o Dispatch(Received(msgLen))
    BY <1>4 DEF ReceiveBody, Reset
  <2>2. handled' \in Seq([id : 1 .. Len(Sizes), data : Seq(Byte)])
    BY <1>1, <1>2, <2>1, DispatchType, ConcatProperties DEF TypeOK
  <2>3. TypeOK'
    BY <1>1, <1>2, <2>1, <2>2, EmptySeq DEF ReceiveBody, TypeOK
  <2>4. BufferHolds'
    BY <1>1, <2>1 DEF BufferHolds, Wanted
  <2> QED
    BY <1>2, <2>3, <2>4
<1> QED
  BY <1>3, <1>4

\* A segment and a new connection.
LEMMA SegmentHolds == IInv /\ Segment => IInv'
<1> SUFFICES ASSUME IInv, Segment PROVE IInv'
  OBVIOUS
<1>1. PICK n \in 1 .. MaxSegment : \E s \in [1 .. n -> Byte] : rest' = s
  BY DEF Segment
<1>2. rest' \in Seq(Byte)
  BY <1>1, BoundsAssumption
<1> QED
  BY <1>2 DEF IInv, TypeOK, BufferHolds, Wanted, Segment

LEMMA ReconnectHolds == IInv /\ Reconnect => IInv'
<1> SUFFICES ASSUME IInv, Reconnect PROVE IInv'
  OBVIOUS
<1>1. /\ magic' = 0 /\ msgLen' = 0 /\ buffer' = << >> /\ stream' = << >>
      /\ handled' = << >> /\ conns' = conns + 1 /\ rest' = rest
  BY DEF Reconnect, Reset
<1>2. TypeOK'
  BY <1>1, EmptySeq, LenProperties DEF IInv, TypeOK
<1>3. BufferHolds'
  BY <1>1, LenProperties DEF BufferHolds, Wanted
<1> QED
  BY <1>2, <1>3 DEF IInv

-----------------------------------------------------------------------------
LEMMA NextHolds == IInv /\ [Next]_vars => IInv'
<1> SUFFICES ASSUME IInv, [Next]_vars PROVE IInv'
  OBVIOUS
<1>1. CASE Loop
  BY <1>1, ReceiveMagicHolds, ReceiveLengthHolds, ReceiveBodyHolds DEF Loop
<1>2. CASE Segment
  BY <1>2, SegmentHolds
<1>3. CASE Reconnect
  BY <1>3, ReconnectHolds
<1>4. CASE UNCHANGED vars
  BY <1>4 DEF vars, IInv, TypeOK, BufferHolds, Wanted
<1> QED
  BY <1>1, <1>2, <1>3, <1>4 DEF Next

\* The parser's types and bounds are inductive.
THEOREM ReceiverInvariance == Spec => []IInv
  BY InitHolds, NextHolds, PTL DEF Spec

\* message_buffer never overflows: whatever a client sends, in whatever pieces,
\* recv_callback never keeps more bytes than the buffer has.
THEOREM BufferNeverOverflows == Spec => []BufferHolds
<1>1. IInv => BufferHolds
  BY DEF IInv
<1> QED
  BY ReceiverInvariance, <1>1, PTL

\* Every iteration of recv_callback's loop shortens what is left of the segment,
\* so the interrupt ends after at most as many iterations as there are bytes.
THEOREM TheCallbackEnds == Spec => EveryIterationReads
<1>1. IInv /\ [Next]_vars => [rest # << >> => Len(rest') < Len(rest)]_vars
  <2> SUFFICES ASSUME IInv, Next, rest # << >>
               PROVE  Len(rest') < Len(rest)
    OBVIOUS
  <2>1. ~Segment /\ ~Reconnect
    BY DEF Segment, Reconnect
  <2> QED
    BY <2>1, ReceiveMagicHolds, ReceiveLengthHolds, ReceiveBodyHolds DEF Next, Loop
<1> QED
  BY ReceiverInvariance, <1>1, PTL DEF Spec, EveryIterationReads

-----------------------------------------------------------------------------
\* From here on: what has been handled is what the stream contains.  First the
\* reference parser: that MessagesFrom is the function its equation describes.

\* Every set of numbers that is not empty has a least one.
LEMMA LeastNumber ==
    ASSUME NEW T \in SUBSET Nat, T # {}
    PROVE  \E x \in T : \A y \in T : x <= y
<1> DEFINE R == OpToRel(<, Nat)
<1>1. IsWellFoundedOn(R, Nat)
  BY NatLessThanWellFounded
<1>2. ASSUME NEW m \in Nat, NEW n \in Nat, m < n PROVE <<m, n>> \in R
  BY <1>2 DEF OpToRel
<1> HIDE DEF R
<1>3. PICK x \in T : \A y \in T : ~(<<y, x>> \in R)
  BY <1>1, WFMin, Zenon
<1>4. ASSUME NEW y \in T PROVE x <= y
  <2>1. x \in Nat /\ y \in Nat
    OBVIOUS
  <2>2. ~(y < x)
    BY <2>1, <1>2, <1>3, Zenon
  <2> QED
    BY <2>1, <2>2
<1> QED
  BY <1>4

\* Induction on a set of numbers.
LEMMA EveryNumber ==
    ASSUME NEW S \in SUBSET Nat, 0 \in S, \A n \in Nat : n \in S => n + 1 \in S
    PROVE  S = Nat
<1>1. SUFFICES ASSUME Nat \ S # {} PROVE FALSE
  OBVIOUS
<1>2. PICK x \in Nat \ S : \A y \in Nat \ S : x <= y
  BY <1>1, LeastNumber
<1>3. x # 0 /\ x - 1 \in Nat
  BY <1>2
<1>4. x - 1 \in S
  BY <1>2, <1>3
<1>5. (x - 1) + 1 \in S
  BY <1>3, <1>4
<1> QED
  BY <1>2, <1>3, <1>5

\* The first start is the least of all.
LEMMA FirstIsLeast ==
    ASSUME NEW s \in Seq(Byte), NEW p \in Nat \ {0}, Starts(s, p) # {}
    PROVE  /\ FirstStart(s, p) \in Starts(s, p)
           /\ \A r \in Starts(s, p) : FirstStart(s, p) <= r
<1>1. Starts(s, p) \in SUBSET Nat
  BY DEF Starts
<1>2. \E q \in Starts(s, p) : \A r \in Starts(s, p) : q <= r
  BY <1>1, LeastNumber
<1> QED
  BY <1>2, Zenon DEF FirstStart

LEMMA LeastIsFirst ==
    ASSUME NEW s \in Seq(Byte), NEW p \in Nat \ {0}, NEW q \in Starts(s, p),
           \A r \in Starts(s, p) : q <= r
    PROVE  FirstStart(s, p) = q
<1>1. /\ FirstStart(s, p) \in Starts(s, p)
      /\ FirstStart(s, p) <= q
  BY FirstIsLeast
<1>2. q <= FirstStart(s, p)
  BY <1>1
<1>3. q \in Int /\ FirstStart(s, p) \in Int
  BY <1>1 DEF Starts
<1> QED
  BY <1>1, <1>2, <1>3

\* Where the search goes on after a frame: later, and at most behind the stream.
LEMMA SearchGoesOn ==
    ASSUME NEW s \in Seq(Byte), NEW p \in 1 .. Len(s) + 1, Starts(s, p) # {}
    PROVE  LET body == BodyAt(FirstStart(s, p))
               n == LengthAt(s, FirstStart(s, p))
           IN  /\ body \in p + 1 .. Len(s) + 1
               /\ n \in WordSize .. BufferCap =>
                    /\ n \in Nat \ {0}
                    /\ body + n - 1 <= Len(s) => body + n \in p + 1 .. Len(s) + 1
<1> DEFINE q == FirstStart(s, p)
           n == LengthAt(s, q)
<1>1. Len(Magic) \in Nat \ {0} /\ Len(s) \in Nat
  BY LenProperties
<1>2. q \in Starts(s, p)
  BY FirstIsLeast
<1>3. q \in p .. Len(s) - Len(Magic) - WordSize + 1
  BY <1>2 DEF Starts
<1> HIDE DEF q, n
<1>4. BodyAt(q) \in p + 1 .. Len(s) + 1
  BY <1>1, <1>3 DEF BodyAt
<1>5. ASSUME n \in WordSize .. BufferCap
      PROVE  /\ n \in Nat \ {0}
             /\ BodyAt(q) + n - 1 <= Len(s) => BodyAt(q) + n \in p + 1 .. Len(s) + 1
  BY <1>1, <1>4, <1>5
<1> QED
  BY <1>4, <1>5 DEF q, n

\* Only what is known of later places matters.
LEMMA LaterPlacesDecide ==
    ASSUME NEW s \in Seq(Byte), NEW p \in 1 .. Len(s) + 1, NEW f, NEW g,
           \A r \in p + 1 .. Len(s) + 1 : f[r] = g[r]
    PROVE  Messages(s, p, f) = Messages(s, p, g)
<1> DEFINE q == FirstStart(s, p)
           n == LengthAt(s, q)
           body == BodyAt(q)
<1>1. CASE Starts(s, p) = {}
  BY <1>1 DEF Messages
<1>2. CASE Starts(s, p) # {}
  <2>1. /\ body \in p + 1 .. Len(s) + 1
        /\ n \in WordSize .. BufferCap =>
             /\ n \in Nat \ {0}
             /\ body + n - 1 <= Len(s) => body + n \in p + 1 .. Len(s) + 1
    BY <1>2, SearchGoesOn
  <2>2. f[body] = g[body]
    BY <2>1
  <2>3. ASSUME n \in WordSize .. BufferCap, ~(body + n - 1 > Len(s))
        PROVE  f[body + n] = g[body + n]
    <3> HIDE DEF body, n
    <3>1. body + n - 1 <= Len(s)
      BY <2>1, <2>3, LenProperties
    <3> QED
      BY <2>1, <2>3, <3>1
  <2> QED
    BY <1>2, <2>2, <2>3 DEF Messages
<1> QED
  BY <1>1, <1>2

MessageSeqs == Seq([id : 1 .. Len(Sizes), data : Seq(Byte)])

LEMMA MessagesType ==
    ASSUME NEW s \in Seq(Byte), NEW p \in 1 .. Len(s) + 1, NEW f,
           \A r \in p + 1 .. Len(s) + 1 : f[r] \in MessageSeqs
    PROVE  Messages(s, p, f) \in MessageSeqs
<1> DEFINE q == FirstStart(s, p)
           n == LengthAt(s, q)
           body == BodyAt(q)
<1>1. CASE Starts(s, p) = {}
  BY <1>1, EmptySeq DEF Messages, MessageSeqs
<1>2. CASE Starts(s, p) # {}
  <2>1. /\ body \in p + 1 .. Len(s) + 1
        /\ n \in WordSize .. BufferCap =>
             /\ n \in Nat \ {0}
             /\ body + n - 1 <= Len(s) => body + n \in p + 1 .. Len(s) + 1
    BY <1>2, SearchGoesOn
  <2>2. f[body] \in MessageSeqs
    BY <2>1
  <2>3. ASSUME n \in WordSize .. BufferCap, ~(body + n - 1 > Len(s))
        PROVE  Dispatch(SubSeq(s, body, body + n - 1)) \o f[body + n] \in MessageSeqs
    <3> HIDE DEF body, n
    <3>1. body + n - 1 <= Len(s) /\ body + n - 1 \in Int /\ body \in Nat \ {0}
      BY <2>1, <2>3, LenProperties
    <3>2. f[body + n] \in MessageSeqs
      BY <2>1, <2>3, <3>1
    <3>3. SubSeq(s, body, body + n - 1) \in Seq(Byte)
      BY <3>1, Part
    <3>4. Dispatch(SubSeq(s, body, body + n - 1)) \in MessageSeqs
      BY <3>3, DispatchType DEF MessageSeqs
    <3> QED
      BY <3>2, <3>4, ConcatProperties DEF MessageSeqs
  <2>4. CASE n \notin WordSize .. BufferCap
    <3>1. Messages(s, p, f) = f[body]
      BY <1>2, <2>4 DEF Messages
    <3> QED
      BY <3>1, <2>2
  <2>5. CASE n \in WordSize .. BufferCap /\ body + n - 1 > Len(s)
    <3>1. Messages(s, p, f) = << >>
      BY <1>2, <2>5 DEF Messages
    <3> QED
      BY <3>1, EmptySeq DEF MessageSeqs
  <2>6. CASE n \in WordSize .. BufferCap /\ ~(body + n - 1 > Len(s))
    <3>1. Messages(s, p, f) = Dispatch(SubSeq(s, body, body + n - 1)) \o f[body + n]
      BY <1>2, <2>6 DEF Messages
    <3> QED
      BY <3>1, <2>3, <2>6
  <2> QED
    BY <2>4, <2>5, <2>6
<1> QED
  BY <1>1, <1>2

\* Read from its end, a stream gives every place its messages.
LEMMA MessagesExist ==
    ASSUME NEW s \in Seq(Byte)
    PROVE  \E f : f = [p \in 1 .. Len(s) + 1 |-> Messages(s, p, f)]
<1> DEFINE N == Len(s) + 1
           Fns == [1 .. N -> MessageSeqs]
           Right(f, k) == \A p \in 1 .. N : p > N - k => f[p] = Messages(s, p, f)
           S == {k \in Nat : \E f \in Fns : Right(f, k)}
<1>1. N \in Nat \ {0}
  BY LenProperties
<1>2. 0 \in S
  <2>1. << >> \in MessageSeqs
    BY EmptySeq DEF MessageSeqs
  <2> DEFINE f0 == [p \in 1 .. N |-> << >>]
  <2>2. f0 \in Fns
    BY <2>1
  <2>3. Right(f0, 0)
    BY <1>1
  <2> QED
    BY <2>2, <2>3
<1>3. ASSUME NEW k \in Nat, k \in S PROVE k + 1 \in S
  <2>1. PICK f \in Fns : Right(f, k)
    BY <1>3
  <2>2. CASE N - k < 1
    <3>1. Right(f, k + 1)
      BY <1>1, <2>1, <2>2
    <3> QED
      BY <3>1
  <2>3. CASE N - k >= 1
    <3> DEFINE c == N - k
               m == Messages(s, c, f)
               g == [f EXCEPT ![c] = m]
    <3>1. c \in 1 .. N
      BY <1>1, <2>3
    <3>2. \A r \in c + 1 .. N : f[r] \in MessageSeqs
      BY <1>1, <3>1
    <3>3. m \in MessageSeqs
      BY <3>1, <3>2, MessagesType
    <3> HIDE DEF m
    <3>4. g \in Fns
      BY <3>3
    <3>5. ASSUME NEW p \in 1 .. N, p > N - (k + 1) PROVE g[p] = Messages(s, p, g)
      <4>1. p >= c
        BY <1>1, <3>5
      <4> HIDE DEF c
      <4>2. \A r \in p + 1 .. N : f[r] = g[r]
        BY <1>1, <3>1, <4>1
      <4> HIDE DEF g
      <4>3. Messages(s, p, f) = Messages(s, p, g)
        BY <4>2, LaterPlacesDecide
      <4>4. CASE p = c
        <5>1. g[p] = m
          BY <4>4, <3>1 DEF g
        <5> QED
          BY <5>1, <4>3, <4>4 DEF m
      <4>5. CASE p # c
        <5>1. p > N - k
          <6> HIDE DEF N
          <6>1. p \in Int /\ c \in Int
            BY <1>1 DEF c
          <6>2. p > c
            BY <6>1, <4>1, <4>5
          <6> QED
            BY <6>2 DEF c
        <5>2. f[p] = Messages(s, p, f)
          BY <5>1, <2>1
        <5>3. g[p] = f[p]
          BY <4>5, <3>1 DEF g
        <5> QED
          BY <5>2, <5>3, <4>3
      <4> QED
        BY <4>4, <4>5
    <3> HIDE DEF g
    <3>6. Right(g, k + 1)
      BY <3>5
    <3> QED
      BY <3>4, <3>6
  <2> HIDE DEF S, N
  <2>4. N - k < 1 \/ N - k >= 1
    BY <1>1
  <2> QED
    BY <2>2, <2>3, <2>4
<1>4. S = Nat
  <2> HIDE DEF S
  <2>1. S \in SUBSET Nat
    BY DEF S
  <2> QED
    BY <1>2, <1>3, <2>1, EveryNumber
<1>5. PICK f \in Fns : Right(f, N)
  BY <1>1, <1>4
<1>6. \A p \in 1 .. N : f[p] = Messages(s, p, f)
  BY <1>1, <1>5
<1>7. f = [p \in 1 .. N |-> f[p]]
  OBVIOUS
<1> QED
  BY <1>6, <1>7

\* So MessagesFrom is what its equation says, and gives messages.
LEMMA MessagesFromIs ==
    ASSUME NEW s \in Seq(Byte)
    PROVE  \A p \in 1 .. Len(s) + 1 :
             MessagesFrom(s)[p] = Messages(s, p, MessagesFrom(s))
<1>1. MessagesFrom(s) = [p \in 1 .. Len(s) + 1 |-> Messages(s, p, MessagesFrom(s))]
  BY MessagesExist, Zenon DEF MessagesFrom
<1> DEFINE f == MessagesFrom(s)
           N == Len(s) + 1
<1>2. f = [p \in 1 .. N |-> Messages(s, p, f)]
  BY <1>1
<1> HIDE DEF f, N
<1>3. \A p \in 1 .. N : f[p] = Messages(s, p, f)
  BY <1>2
<1> QED
  BY <1>3 DEF f, N

LEMMA MessagesFromType ==
    ASSUME NEW s \in Seq(Byte)
    PROVE  \A p \in 1 .. Len(s) + 1 : MessagesFrom(s)[p] \in MessageSeqs
<1> DEFINE N == Len(s) + 1
           f == MessagesFrom(s)
           S == {k \in Nat : \A p \in 1 .. N : p > N - k => f[p] \in MessageSeqs}
<1>1. N \in Nat \ {0}
  BY LenProperties
<1>2. 0 \in S
  BY <1>1
<1>3. ASSUME NEW k \in Nat, k \in S PROVE k + 1 \in S
  <2>1. ASSUME NEW p \in 1 .. N, p > N - (k + 1) PROVE f[p] \in MessageSeqs
    <3>1. \A r \in p + 1 .. N : r > N - k
      BY <1>1, <2>1
    <3>2. \A r \in p + 1 .. N : f[r] \in MessageSeqs
      BY <1>1, <1>3, <3>1
    <3>3. Messages(s, p, f) \in MessageSeqs
      <4> HIDE DEF f
      <4> QED
        BY <3>2, MessagesType
    <3> QED
      BY <3>3, MessagesFromIs
  <2> QED
    BY <2>1
<1>4. S = Nat
  <2> HIDE DEF S
  <2>1. S \in SUBSET Nat
    BY DEF S
  <2> QED
    BY <1>2, <1>3, <2>1, EveryNumber
<1>5. N \in S
  BY <1>1, <1>4
<1> QED
  BY <1>1, <1>5

-----------------------------------------------------------------------------
\* The parser and the stream.  What it has handled so far is what every longer
\* stream begins with, and its state says how the bytes since p are to be read.

Extends(t, s) ==
    /\ Len(s) <= Len(t)
    /\ \A i \in 1 .. Len(s) : t[i] = s[i]

\* The last k bytes, none of them before p, are the first k of the magic.
EndsInMagic(s, p, k) ==
    /\ k <= Len(s) + 1 - p
    /\ \A i \in 1 .. k : s[Len(s) - k + i] = Magic[i]

\* While the magic is awaited: how much of it is there, and none was overlooked.
Hunting(p) ==
    /\ \A k \in 1 .. Len(Magic) : EndsInMagic(stream, p, k) <=> k = magic
    /\ \A q \in p .. Len(stream) - Len(Magic) + 1 : ~MagicAt(stream, q)

\* After it: the first magic from p on, the length behind it and the bytes so far.
FrameStart ==
    Len(stream) + 1 - Len(buffer) - Len(Magic) - (IF msgLen = 0 THEN 0 ELSE WordSize)
InFrame(p) ==
    /\ p <= FrameStart
    /\ MagicAt(stream, FrameStart)
    /\ \A q \in p .. FrameStart - 1 : ~MagicAt(stream, q)
    /\ buffer = SubSeq(stream, Len(stream) - Len(buffer) + 1, Len(stream))
    /\ msgLen # 0 => msgLen = LengthAt(stream, FrameStart)

Reading(p) == IF magic < Len(Magic) THEN Hunting(p) ELSE InFrame(p)

HandledUpTo(p) ==
    \A t \in Seq(Byte) :
      Extends(t, stream) => MessagesOf(t) = handled \o MessagesFrom(t)[p]

Parsed == \E p \in 1 .. Len(stream) + 1 : HandledUpTo(p) /\ Reading(p)

\* What a longer stream leaves as it was.
LEMMA SamePart ==
    ASSUME NEW s \in Seq(Byte), NEW t \in Seq(Byte), Extends(t, s),
           NEW m \in Nat \ {0}, NEW n \in Int, n <= Len(s)
    PROVE  SubSeq(t, m, n) = SubSeq(s, m, n)
<1>1. Len(s) \in Nat /\ Len(t) \in Nat
  BY LenProperties
<1>2. /\ \A i \in m .. n : s[i] \in Byte /\ t[i] = s[i]
  BY <1>1, LenProperties DEF Extends
<1>3. /\ SubSeq(s, m, n) \in Seq(Byte)
      /\ Len(SubSeq(s, m, n)) = IF m <= n THEN n - m + 1 ELSE 0
      /\ \A i \in 1 .. n - m + 1 : SubSeq(s, m, n)[i] = s[m + i - 1]
  BY <1>2, SubSeqProperties
<1>4. /\ SubSeq(t, m, n) \in Seq(Byte)
      /\ Len(SubSeq(t, m, n)) = IF m <= n THEN n - m + 1 ELSE 0
      /\ \A i \in 1 .. n - m + 1 : SubSeq(t, m, n)[i] = t[m + i - 1]
  <2>1. \A i \in m .. n : t[i] \in Byte
    BY <1>2
  <2> QED
    BY <2>1, SubSeqProperties
<1>5. ASSUME NEW i \in 1 .. Len(SubSeq(t, m, n))
      PROVE  SubSeq(t, m, n)[i] = SubSeq(s, m, n)[i]
  <2>1. i \in 1 .. n - m + 1 /\ m + i - 1 \in m .. n
    BY <1>4
  <2> QED
    BY <2>1, <1>2, <1>3, <1>4
<1> QED
  BY <1>3, <1>4, <1>5, SeqEqual

LEMMA SameMagic ==
    ASSUME NEW s \in Seq(Byte), NEW t \in Seq(Byte), Extends(t, s),
           NEW q \in Nat \ {0}, q + Len(Magic) - 1 <= Len(s)
    PROVE  MagicAt(t, q) <=> MagicAt(s, q)
<1>1. q + Len(Magic) - 1 \in Int
  BY LenProperties
<1> QED
  BY <1>1, SamePart DEF MagicAt

LEMMA ExtendsFurther ==
    ASSUME NEW s \in Seq(Byte), NEW u \in Seq(Byte), NEW t \in Seq(Byte),
           Extends(u, s), Extends(t, u)
    PROVE  Extends(t, s)
<1>1. Len(s) \in Nat /\ Len(u) \in Nat /\ Len(t) \in Nat
  BY LenProperties
<1> QED
  BY <1>1 DEF Extends

LEMMA ConcatExtends ==
    ASSUME NEW s \in Seq(Byte), NEW x \in Seq(Byte)
    PROVE  /\ s \o x \in Seq(Byte)
           /\ Len(s \o x) = Len(s) + Len(x)
           /\ Extends(s \o x, s)
<1>1. Len(s) \in Nat /\ Len(x) \in Nat
  BY LenProperties
<1> QED
  BY <1>1, ConcatProperties DEF Extends

\* The magic, byte by byte.
LEMMA MagicBytes ==
    ASSUME NEW s \in Seq(Byte), NEW q \in Nat \ {0}, q + Len(Magic) - 1 <= Len(s)
    PROVE  MagicAt(s, q) <=> \A i \in 1 .. Len(Magic) : s[q + i - 1] = Magic[i]
<1> DEFINE n == q + Len(Magic) - 1
<1>1. Len(s) \in Nat /\ Len(Magic) \in Nat \ {0} /\ n \in Int
  BY LenProperties
<1>2. \A i \in q .. n : s[i] \in Byte
  BY <1>1, LenProperties
<1>3. /\ SubSeq(s, q, n) \in Seq(Byte)
      /\ Len(SubSeq(s, q, n)) = IF q <= n THEN n - q + 1 ELSE 0
      /\ \A i \in 1 .. n - q + 1 : SubSeq(s, q, n)[i] = s[q + i - 1]
  BY <1>1, <1>2, SubSeqProperties
<1>4. Len(SubSeq(s, q, n)) = Len(Magic) /\ n - q + 1 = Len(Magic)
  BY <1>1, <1>3
<1>5. SubSeq(s, q, n) = Magic <=> \A i \in 1 .. Len(Magic) : SubSeq(s, q, n)[i] = Magic[i]
  BY <1>3, <1>4, SeqEqual
<1> QED
  BY <1>3, <1>4, <1>5 DEF MagicAt

\* The end of a sequence grows with it.
LEMMA EndGrows ==
    ASSUME NEW s \in Seq(Byte), NEW x \in Seq(Byte), NEW b \in Seq(Byte),
           Len(b) <= Len(s), b = SubSeq(s, Len(s) - Len(b) + 1, Len(s))
    PROVE  b \o x = SubSeq(s \o x, Len(s \o x) - Len(b \o x) + 1, Len(s \o x))
<1>1. Len(s) \in Nat /\ Len(x) \in Nat /\ Len(b) \in Nat
  BY LenProperties
<1>2. /\ s \o x \in Seq(Byte) /\ Len(s \o x) = Len(s) + Len(x)
      /\ \A i \in 1 .. Len(s) + Len(x) :
           (s \o x)[i] = IF i <= Len(s) THEN s[i] ELSE x[i - Len(s)]
  BY ConcatProperties
<1>3. /\ b \o x \in Seq(Byte) /\ Len(b \o x) = Len(b) + Len(x)
      /\ \A i \in 1 .. Len(b) + Len(x) :
           (b \o x)[i] = IF i <= Len(b) THEN b[i] ELSE x[i - Len(b)]
  BY ConcatProperties
<1> DEFINE d == Len(s) - Len(b)
           e == SubSeq(s \o x, d + 1, Len(s) + Len(x))
<1>4. d \in Nat /\ Len(s \o x) - Len(b \o x) = d
  BY <1>1, <1>2, <1>3
<1>5. \A i \in 1 .. Len(b) : b[i] = s[d + i]
  <2>1. \A i \in d + 1 .. Len(s) : s[i] \in Byte
    BY <1>1, <1>4, LenProperties
  <2>2. \A i \in 1 .. Len(s) - (d + 1) + 1 :
          SubSeq(s, d + 1, Len(s))[i] = s[(d + 1) + i - 1]
    BY <1>1, <1>4, <2>1, SubSeqProperties
  <2>3. Len(s) - (d + 1) + 1 = Len(b)
    BY <1>1
  <2>4. \A i \in 1 .. Len(b) : (d + 1) + i - 1 = d + i
    BY <1>1, <1>4
  <2> DEFINE y == SubSeq(s, d + 1, Len(s))
             at(i) == s[d + i]
  <2>5. b = y
    OBVIOUS
  <2>6. \A i \in 1 .. Len(b) : y[i] = at(i)
    <3> HIDE DEF d
    <3> QED
      BY <2>2, <2>3, <2>4
  <2> HIDE DEF y, at
  <2>7. \A i \in 1 .. Len(b) : b[i] = at(i)
    BY <2>5, <2>6
  <2> QED
    BY <2>7 DEF at
<1>6. /\ e \in Seq(Byte)
      /\ Len(e) = Len(b) + Len(x)
      /\ \A i \in 1 .. Len(b) + Len(x) : e[i] = (s \o x)[d + i]
  <2> DEFINE n == Len(s) + Len(x)
             y == s \o x
  <2>1. \A i \in d + 1 .. n : y[i] \in Byte
    BY <1>1, <1>2, <1>4, LenProperties
  <2>2. n - (d + 1) + 1 = Len(b) + Len(x) /\ d + 1 \in Int /\ n \in Int
    BY <1>1
  <2> HIDE DEF d, n, y
  <2>3. /\ SubSeq(y, d + 1, n) \in Seq(Byte)
        /\ Len(SubSeq(y, d + 1, n)) = IF d + 1 <= n THEN n - (d + 1) + 1 ELSE 0
        /\ \A i \in 1 .. n - (d + 1) + 1 : SubSeq(y, d + 1, n)[i] = y[(d + 1) + i - 1]
    BY <2>1, <2>2, SubSeqProperties
  <2>4. \A i \in 1 .. Len(b) + Len(x) : (d + 1) + i - 1 = d + i
    BY <1>1, <1>4
  <2>5. Len(SubSeq(y, d + 1, n)) = Len(b) + Len(x)
    BY <1>1, <1>4, <2>2, <2>3
  <2>6. \A i \in 1 .. Len(b) + Len(x) : SubSeq(y, d + 1, n)[i] = y[d + i]
    <3> DEFINE z == SubSeq(y, d + 1, n)
    <3>1. \A i \in 1 .. n - (d + 1) + 1 : z[i] = y[(d + 1) + i - 1]
      BY <2>3
    <3> HIDE DEF z
    <3>2. \A i \in 1 .. Len(b) + Len(x) : z[i] = y[d + i]
      BY <2>2, <2>4, <3>1
    <3> QED
      BY <3>2 DEF z
  <2> QED
    BY <2>3, <2>5, <2>6 DEF n, y
<1> DEFINE y == s \o x
           z == b \o x
<1>7. ASSUME NEW i \in 1 .. Len(z) PROVE z[i] = e[i]
  <2> DEFINE j == d + i
  <2>1. i \in 1 .. Len(b) + Len(x) /\ j \in 1 .. Len(s) + Len(x)
    BY <1>1, <1>3, <1>4
  <2>2. \A k \in 1 .. Len(s) + Len(x) : y[k] = IF k <= Len(s) THEN s[k] ELSE x[k - Len(s)]
    BY <1>2
  <2>3. \A k \in 1 .. Len(b) + Len(x) : z[k] = IF k <= Len(b) THEN b[k] ELSE x[k - Len(b)]
    BY <1>3
  <2>4. e[i] = y[j]
    <3> HIDE DEF e, d
    <3> QED
      BY <1>6, <2>1
  <2>5. CASE i <= Len(b)
    <3>1. j <= Len(s) /\ i \in 1 .. Len(b)
      BY <1>1, <2>1, <2>5
    <3>2. b[i] = s[j]
      <4> HIDE DEF d
      <4> QED
        BY <1>5, <3>1
    <3> HIDE DEF j, y, z, e
    <3> QED
      BY <2>1, <2>2, <2>3, <2>4, <2>5, <3>1, <3>2
  <2>6. CASE ~(i <= Len(b))
    <3>1. ~(j <= Len(s)) /\ j - Len(s) = i - Len(b)
      BY <1>1, <2>1, <2>6
    <3> HIDE DEF j, y, z, e
    <3> QED
      BY <2>1, <2>2, <2>3, <2>4, <2>6, <3>1
  <2> QED
    BY <2>5, <2>6
<1>8. z = e
  <2>1. /\ z \in Seq(Byte) /\ e \in Seq(Byte) /\ Len(z) = Len(e)
    BY <1>3, <1>6
  <2> HIDE DEF e, z
  <2> QED
    BY <1>7, <2>1, SeqEqual
<1> QED
  BY <1>2, <1>4, <1>8

\* A frame that has been recognised is recognised in every longer stream.
LEMMA FrameFound ==
    ASSUME NEW s \in Seq(Byte), NEW t \in Seq(Byte), Extends(t, s),
           NEW p \in Nat \ {0}, NEW q \in Nat, p <= q, BodyAt(q) - 1 <= Len(s),
           MagicAt(s, q), \A r \in p .. q - 1 : ~MagicAt(s, r)
    PROVE  /\ Starts(t, p) # {}
           /\ FirstStart(t, p) = q
           /\ LengthAt(t, q) = LengthAt(s, q)
<1>1. /\ Len(s) \in Nat /\ Len(t) \in Nat /\ Len(Magic) \in Nat \ {0}
      /\ Len(s) <= Len(t) /\ q \in Nat \ {0}
  BY LenProperties DEF Extends
<1>2. q + Len(Magic) + WordSize - 1 <= Len(s)
  BY DEF BodyAt
<1>3. q \in Starts(t, p)
  <2>1. q + Len(Magic) - 1 <= Len(s)
    BY <1>1, <1>2
  <2>2. MagicAt(t, q)
    BY <1>1, <2>1, SameMagic
  <2>3. q \in p .. Len(t) - Len(Magic) - WordSize + 1
    BY <1>1, <1>2
  <2> QED
    BY <2>2, <2>3 DEF Starts
<1>4. ASSUME NEW r \in Starts(t, p) PROVE q <= r
  <2>1. r \in p .. Len(t) - Len(Magic) - WordSize + 1 /\ MagicAt(t, r)
    BY DEF Starts
  <2>2. r \in Nat \ {0}
    BY <2>1
  <2>3. SUFFICES ASSUME r < q PROVE FALSE
    BY <2>2
  <2>4. r + Len(Magic) - 1 <= Len(s) /\ r \in p .. q - 1
    BY <1>1, <1>2, <2>1, <2>3
  <2>5. MagicAt(s, r)
    BY <2>1, <2>2, <2>4, SameMagic
  <2> QED
    BY <2>4, <2>5
<1>5. FirstStart(t, p) = q
  BY <1>3, <1>4, LeastIsFirst
<1>6. LengthAt(t, q) = LengthAt(s, q)
  <2>1. /\ q + Len(Magic) \in Nat \ {0} /\ BodyAt(q) - 1 \in Int
    BY <1>1 DEF BodyAt
  <2>2. SubSeq(t, q + Len(Magic), BodyAt(q) - 1) = SubSeq(s, q + Len(Magic), BodyAt(q) - 1)
    BY <2>1, SamePart
  <2> QED
    BY <2>2 DEF LengthAt
<1> QED
  BY <1>3, <1>5, <1>6

\* One iteration of the loop: the same bytes go to the stream and to the buffer.
LEMMA BytesRead ==
    ASSUME TypeOK, rest # << >>, NEW size \in Nat, Len(buffer) < size, Consume(size)
    PROVE  \E x \in Seq(Byte) :
             /\ Len(x) \in 1 .. size - Len(buffer)
             /\ stream' = stream \o x
             /\ Received(size) = buffer \o x
             /\ Received(size) \in Seq(Byte)
             /\ Len(Received(size)) = Len(buffer) + Len(x)
<1> DEFINE x == SubSeq(rest, 1, Copied(size))
<1>1. Len(rest) \in Nat \ {0} /\ Len(buffer) \in Nat
  BY EmptySeq, LenProperties DEF TypeOK
<1>2. Copied(size) \in 1 .. Len(rest) /\ Copied(size) <= size - Len(buffer)
  BY <1>1 DEF Copied
<1>3. x \in Seq(Byte) /\ Len(x) = Copied(size)
  BY <1>1, <1>2, Part DEF TypeOK
<1>4. stream' = stream \o x /\ Received(size) = buffer \o x
  BY DEF Consume, Received
<1> HIDE DEF x
<1>5. Len(x) \in 1 .. size - Len(buffer)
  BY <1>1, <1>2, <1>3
<1>6. buffer \o x \in Seq(Byte) /\ Len(buffer \o x) = Len(buffer) + Len(x)
  <2>1. buffer \in Seq(Byte) /\ x \in Seq(Byte)
    BY <1>3 DEF TypeOK
  <2> QED
    BY <2>1, ConcatExtends
<1> QED
  BY <1>3, <1>4, <1>5, <1>6

\* What has been handled stays handled while nothing more is.
LEMMA HandledStays ==
    ASSUME NEW p, HandledUpTo(p), stream \in Seq(Byte), stream' \in Seq(Byte),
           Extends(stream', stream), handled' = handled
    PROVE  HandledUpTo(p)'
<1>1. SUFFICES ASSUME NEW t \in Seq(Byte), Extends(t, stream')
               PROVE  MessagesOf(t) = handled \o MessagesFrom(t)[p]
  BY DEF HandledUpTo
<1>2. Extends(t, stream)
  BY <1>1, ExtendsFurther
<1> QED
  BY <1>2 DEF HandledUpTo

\* After a frame the search starts afresh.
LEMMA StartsAfresh ==
    ASSUME NEW s \in Seq(Byte)
    PROVE  /\ \A k \in 1 .. Len(Magic) : ~EndsInMagic(s, Len(s) + 1, k)
           /\ \A q \in Len(s) + 1 .. Len(s) - Len(Magic) + 1 : ~MagicAt(s, q)
           /\ Len(s) + 1 \in 1 .. Len(s) + 1
<1>1. Len(s) \in Nat /\ Len(Magic) \in Nat \ {0}
  BY LenProperties
<1> QED
  BY <1>1 DEF EndsInMagic

\* What has been handled is what the stream contains: the bytes since p are not a
\* whole frame yet.
LEMMA NothingPending ==
    ASSUME IInv, NEW p \in 1 .. Len(stream) + 1, Reading(p)
    PROVE  MessagesFrom(stream)[p] = << >>
<1>1. /\ stream \in Seq(Byte) /\ Len(stream) \in Nat /\ Len(buffer) \in Nat
      /\ Len(Magic) \in Nat \ {0} /\ Len(buffer) < Wanted
  BY LenProperties DEF IInv, TypeOK, BufferHolds
<1>2. MessagesFrom(stream)[p] = Messages(stream, p, MessagesFrom(stream))
  BY <1>1, MessagesFromIs
<1>3. CASE magic < Len(Magic)
  <2>1. \A q \in p .. Len(stream) - Len(Magic) + 1 : ~MagicAt(stream, q)
    BY <1>3 DEF Reading, Hunting
  <2>2. Starts(stream, p) = {}
    BY <1>1, <2>1 DEF Starts
  <2> QED
    BY <1>2, <2>2 DEF Messages
<1>4. CASE ~(magic < Len(Magic)) /\ msgLen = 0
  <2>1. /\ FrameStart = Len(stream) + 1 - Len(buffer) - Len(Magic)
        /\ \A q \in p .. FrameStart - 1 : ~MagicAt(stream, q)
    BY <1>1, <1>4 DEF Reading, InFrame, FrameStart
  <2>2. Len(buffer) < WordSize
    BY <1>1, <1>4 DEF Wanted
  <2>3. Starts(stream, p) = {}
    BY <1>1, <2>1, <2>2 DEF Starts
  <2> QED
    BY <1>2, <2>3 DEF Messages
<1>5. CASE ~(magic < Len(Magic)) /\ msgLen # 0
  <2> DEFINE q == FrameStart
  <2>1. /\ q = Len(stream) + 1 - Len(buffer) - Len(Magic) - WordSize
        /\ p <= q /\ MagicAt(stream, q)
        /\ \A r \in p .. q - 1 : ~MagicAt(stream, r)
        /\ msgLen = LengthAt(stream, q)
    BY <1>1, <1>5 DEF Reading, InFrame, FrameStart
  <2>2. /\ Len(buffer) < msgLen
        /\ msgLen \in WordSize .. BufferCap
    BY <1>1, <1>5 DEF Wanted, IInv, TypeOK
  <2> HIDE DEF q
  <2>3. /\ q \in Nat /\ BodyAt(q) = Len(stream) + 1 - Len(buffer)
        /\ BodyAt(q) - 1 <= Len(stream)
    BY <1>1, <2>1 DEF BodyAt
  <2>4. Extends(stream, stream)
    BY <1>1 DEF Extends
  <2>5. Starts(stream, p) # {} /\ FirstStart(stream, p) = q
    BY <1>1, <2>1, <2>3, <2>4, FrameFound
  <2>6. BodyAt(q) + msgLen - 1 > Len(stream)
    BY <1>1, <2>2, <2>3
  <2>7. Messages(stream, p, MessagesFrom(stream)) = << >>
    BY <2>1, <2>2, <2>5, <2>6 DEF Messages
  <2> QED
    BY <1>2, <2>7
<1> QED
  BY <1>3, <1>4, <1>5

LEMMA ConcatBytes ==
    \A s, x \in Seq(Byte) :
      /\ Len(s \o x) = Len(s) + Len(x)
      /\ \A i \in 1 .. Len(s) + Len(x) :
           (s \o x)[i] = IF i <= Len(s) THEN s[i] ELSE x[i - Len(s)]
<1> TAKE s, x \in Seq(Byte)
<1> QED
  BY ConcatProperties

\* One more byte: the magic's bytes are all different, so what NextMagic makes of
\* a wrong byte is all that can be kept.
LEMMA OneByteMore ==
    ASSUME NEW s \in Seq(Byte), NEW b \in Byte, NEW p \in 1 .. Len(s) + 1,
           magic \in 0 .. Len(Magic) - 1,
           \A k \in 1 .. Len(Magic) : EndsInMagic(s, p, k) <=> k = magic
    PROVE  \A k \in 1 .. Len(Magic) :
             EndsInMagic(s \o <<b>>, p, k) <=> k = NextMagic(b)
<1> DEFINE s2 == s \o <<b>>
<1>1. Len(s) \in Nat /\ Len(Magic) \in Nat \ {0} /\ magic + 1 \in 1 .. Len(Magic)
  BY LenProperties
<1>2. <<b>> \in Seq(Byte) /\ Len(<<b>>) = 1 /\ <<b>>[1] = b
  OBVIOUS
<1>3. /\ Len(s2) = Len(s) + 1
      /\ s2[Len(s) + 1] = b
      /\ \A i \in 1 .. Len(s) : s2[i] = s[i]
  <2> DEFINE x == <<b>>
  <2>1. x \in Seq(Byte) /\ Len(x) = 1 /\ x[1] = b
    BY <1>2
  <2> HIDE DEF x
  <2>2. /\ Len(s \o x) = Len(s) + 1
        /\ \A i \in 1 .. Len(s) + 1 :
             (s \o x)[i] = IF i <= Len(s) THEN s[i] ELSE x[i - Len(s)]
    <3>1. /\ Len(s \o x) = Len(s) + Len(x)
          /\ \A i \in 1 .. Len(s) + Len(x) :
               (s \o x)[i] = IF i <= Len(s) THEN s[i] ELSE x[i - Len(s)]
      BY <2>1, ConcatBytes, Zenon
    <3> QED
      BY <2>1, <3>1, Zenon
  <2>3. (s \o x)[Len(s) + 1] = x[(Len(s) + 1) - Len(s)] /\ (Len(s) + 1) - Len(s) = 1
    BY <1>1, <2>2
  <2>4. \A i \in 1 .. Len(s) : (s \o x)[i] = s[i]
    BY <1>1, <2>2
  <2>5. (s \o x)[Len(s) + 1] = b
    BY <2>1, <2>3
  <2> QED
    BY <2>2, <2>4, <2>5 DEF x
<1> HIDE DEF s2
<1>4. EndsInMagic(s2, p, 1) <=> b = Magic[1]
  <2>1. EndsInMagic(s2, p, 1) <=> \A i \in 1 .. 1 : s2[Len(s) + 1 - 1 + i] = Magic[i]
    BY <1>1, <1>3 DEF EndsInMagic
  <2>2. \A i \in 1 .. 1 : i = 1 /\ Len(s) + 1 - 1 + i = Len(s) + 1
    BY <1>1
  <2> QED
    BY <1>3, <2>1, <2>2
<1>5. ASSUME NEW k \in 2 .. Len(Magic)
      PROVE  EndsInMagic(s2, p, k) <=> k = magic + 1 /\ b = Magic[k]
  <2>1. k - 1 \in 1 .. Len(Magic)
    OBVIOUS
  <2>2. EndsInMagic(s, p, k - 1) <=> k - 1 = magic
    BY <2>1
  <2>3. ASSUME k <= Len(s) + 2 - p, NEW i \in 1 .. k - 1
        PROVE  /\ Len(s) + 1 - k + i = Len(s) - (k - 1) + i
               /\ s2[Len(s) + 1 - k + i] = s[Len(s) - (k - 1) + i]
    <3>1. Len(s) + 1 - k + i = Len(s) - (k - 1) + i
      BY <1>1
    <3>2. Len(s) - (k - 1) + i \in 1 .. Len(s)
      BY <1>1, <2>3
    <3> QED
      BY <1>3, <3>1, <3>2
  <2>4. k <= Len(s) + 2 - p <=> k - 1 <= Len(s) + 1 - p
    BY <1>1
  <2>5. Len(s) + 1 - k + k = Len(s) + 1
    BY <1>1
  <2>6. CASE k <= Len(s) + 2 - p
    <3>1. EndsInMagic(s2, p, k) <=>
            /\ \A i \in 1 .. k - 1 : s2[Len(s) + 1 - k + i] = Magic[i]
            /\ s2[Len(s) + 1 - k + k] = Magic[k]
      <4> DEFINE At(i) == s2[Len(s) + 1 - k + i] = Magic[i]
      <4>1. EndsInMagic(s2, p, k) <=> \A i \in 1 .. k : At(i)
        <5>1. k <= Len(s2) + 1 - p
          BY <1>1, <1>3, <2>6
        <5>2. EndsInMagic(s2, p, k) <=> \A i \in 1 .. k : s2[Len(s2) - k + i] = Magic[i]
          BY <5>1, Zenon DEF EndsInMagic
        <5>3. Len(s2) = Len(s) + 1
          BY <1>3
        <5>4. \A i \in 1 .. k : s2[Len(s2) - k + i] = Magic[i] <=> At(i)
          BY <5>3
        <5> HIDE DEF At
        <5> QED
          BY <5>2, <5>4
      <4>2. 1 .. k = (1 .. k - 1) \cup {k}
        OBVIOUS
      <4> HIDE DEF At
      <4>3. (\A i \in 1 .. k : At(i)) <=> (\A i \in 1 .. k - 1 : At(i)) /\ At(k)
        BY <4>2, Zenon
      <4> QED
        BY <4>1, <4>3 DEF At
    <3>2. EndsInMagic(s, p, k - 1) <=>
            \A i \in 1 .. k - 1 : s[Len(s) - (k - 1) + i] = Magic[i]
      BY <2>4, <2>6 DEF EndsInMagic
    <3>3. EndsInMagic(s2, p, k) <=> EndsInMagic(s, p, k - 1) /\ b = Magic[k]
      BY <1>3, <2>3, <2>5, <2>6, <3>1, <3>2
    <3> QED
      BY <2>2, <3>3
  <2>7. CASE ~(k <= Len(s) + 2 - p)
    <3>1. ~EndsInMagic(s2, p, k)
      BY <1>1, <1>3, <2>7 DEF EndsInMagic
    <3>2. ~EndsInMagic(s, p, k - 1)
      BY <2>4, <2>7 DEF EndsInMagic
    <3> QED
      BY <2>2, <3>1, <3>2
  <2> QED
    BY <2>6, <2>7
<1>6. ASSUME NEW k \in 1 .. Len(Magic)
      PROVE  EndsInMagic(s2, p, k) <=> k = NextMagic(b)
  <2>1. CASE b = Magic[magic + 1]
    <3>1. NextMagic(b) = magic + 1
      BY <2>1 DEF NextMagic
    <3>2. CASE k = 1
      <4>1. b = Magic[1] <=> magic + 1 = 1
        BY <1>1, <2>1
      <4> QED
        BY <1>4, <3>1, <3>2, <4>1
    <3>3. CASE k \in 2 .. Len(Magic)
      BY <1>5, <2>1, <3>1, <3>3
    <3> QED
      BY <1>1, <3>2, <3>3
  <2>2. CASE b # Magic[magic + 1] /\ b = Magic[1]
    <3>1. NextMagic(b) = 1
      BY <2>2 DEF NextMagic
    <3>2. CASE k = 1
      BY <1>4, <2>2, <3>1, <3>2
    <3>3. CASE k \in 2 .. Len(Magic)
      BY <1>5, <2>2, <3>1, <3>3
    <3> QED
      BY <1>1, <3>2, <3>3
  <2>3. CASE b # Magic[magic + 1] /\ b # Magic[1]
    <3>1. NextMagic(b) = 0
      BY <2>3 DEF NextMagic
    <3>2. CASE k = 1
      BY <1>4, <2>3, <3>1, <3>2
    <3>3. CASE k \in 2 .. Len(Magic)
      BY <1>5, <2>3, <3>1, <3>3
    <3> QED
      BY <1>1, <3>2, <3>3
  <2> QED
    BY <2>1, <2>2, <2>3
<1> QED
  BY <1>6 DEF s2

LEMMA InitParsed == Init => Parsed
<1> SUFFICES ASSUME Init PROVE Parsed
  OBVIOUS
<1>1. /\ stream = << >> /\ handled = << >> /\ magic = 0
      /\ stream \in Seq(Byte) /\ Len(stream) + 1 = 1 /\ Len(Magic) \in Nat \ {0}
  BY EmptySeq, LenProperties DEF Init, Fresh
<1>2. HandledUpTo(1)
  <2>1. SUFFICES ASSUME NEW t \in Seq(Byte)
                 PROVE  MessagesOf(t) = << >> \o MessagesFrom(t)[1]
    BY <1>1 DEF HandledUpTo
  <2>2. 1 \in 1 .. Len(t) + 1
    BY LenProperties
  <2>3. MessagesFrom(t)[1] \in MessageSeqs
    BY <2>2, MessagesFromType
  <2> QED
    BY <2>3, ConcatEmptySeq DEF MessagesOf, MessageSeqs
<1>3. Hunting(1)
  <2>1. \A k \in 1 .. Len(Magic) : k # magic
    BY <1>1
  <2> QED
    BY <1>1, <2>1, StartsAfresh DEF Hunting
<1>4. 1 \in 1 .. Len(stream) + 1
  BY <1>1
<1> QED
  BY <1>1, <1>2, <1>3, <1>4 DEF Parsed, Reading

LEMMA MagicParsed == IInv /\ Parsed /\ ReceiveMagic => Parsed'
<1> SUFFICES ASSUME IInv, Parsed, ReceiveMagic PROVE Parsed'
  OBVIOUS
<1>1. PICK p \in 1 .. Len(stream) + 1 : HandledUpTo(p) /\ Reading(p)
  BY DEF Parsed
<1>2. /\ TypeOK /\ rest # << >> /\ Consume(1) /\ Len(buffer) < 1
      /\ magic < Len(Magic) /\ magic' = NextMagic(Received(1)[1])
      /\ buffer' = << >> /\ msgLen' = 0 /\ handled' = handled
      /\ stream \in Seq(Byte) /\ buffer \in Seq(Byte)
  BY DEF IInv, TypeOK, BufferHolds, Wanted, ReceiveMagic
<1>3. PICK x \in Seq(Byte) :
        /\ Len(x) \in 1 .. 1 - Len(buffer)
        /\ stream' = stream \o x
        /\ Received(1) = buffer \o x
  BY <1>2, BytesRead
<1>4. /\ Len(stream) \in Nat /\ Len(buffer) = 0 /\ Len(x) = 1
      /\ Len(Magic) \in Nat \ {0} /\ magic \in 0 .. Len(Magic) - 1
      /\ Len(<< >>) = 0
  <2>1. /\ Len(stream) \in Nat /\ Len(buffer) \in Nat /\ Len(x) \in Nat
        /\ Len(Magic) \in Nat
    BY <1>2, <1>3, LenProperties
  <2>2. Len(Magic) >= 1 /\ magic \in 0 .. Len(Magic)
    BY <1>2 DEF TypeOK
  <2>3. Len(buffer) < 1 /\ magic < Len(Magic) /\ Len(x) \in 1 .. 1 - Len(buffer)
    BY <1>2, <1>3
  <2>4. Len(<< >>) = 0
    OBVIOUS
  <2>5. Len(buffer) = 0
    BY <2>1, <2>3
  <2>6. Len(x) = 1
    BY <2>3, <2>5
  <2>7. Len(Magic) # 0 /\ magic \in 0 .. Len(Magic) - 1
    BY <2>1, <2>2, <2>3
  <2> QED
    BY <2>1, <2>4, <2>5, <2>6, <2>7
<1>5. x[1] \in Byte /\ x = <<x[1]>> /\ Received(1) = x
  <2>1. x[1] \in Byte
    <3>1. x \in [1 .. Len(x) -> Byte]
      BY LenProperties, Zenon
    <3> QED
      BY <1>4, <3>1
  <2>2. <<x[1]>> \in Seq(Byte) /\ Len(<<x[1]>>) = 1 /\ <<x[1]>>[1] = x[1]
    BY <2>1
  <2>3. x = <<x[1]>>
    BY <1>4, <2>2, SeqEqual
  <2>4. buffer = << >>
    BY <1>2, <1>4, EmptySeq
  <2>5. << >> \o x = x
    BY ConcatEmptySeq
  <2> QED
    BY <1>3, <2>1, <2>3, <2>4, <2>5
<1> DEFINE b == x[1]
<1>6. b \in Byte /\ stream' = stream \o <<b>> /\ magic' = NextMagic(b)
  <2>1. stream' = stream \o x /\ magic' = NextMagic(Received(1)[1])
    BY <1>2, <1>3
  <2> QED
    BY ONLY <1>5, <2>1
<1>7. /\ stream' \in Seq(Byte) /\ Len(stream') = Len(stream) + 1
      /\ Extends(stream', stream)
  <2>1. stream \in Seq(Byte) /\ stream' = stream \o x /\ Len(x) = 1
    BY <1>2, <1>3, <1>4
  <2>2. /\ stream \o x \in Seq(Byte) /\ Len(stream \o x) = Len(stream) + Len(x)
        /\ Extends(stream \o x, stream)
    BY <2>1, ConcatExtends
  <2> QED
    BY ONLY <2>1, <2>2
<1>8. p \in 1 .. Len(stream') + 1
  BY <1>4, <1>7
<1>9. HandledUpTo(p)'
  BY <1>1, <1>2, <1>7, HandledStays
<1>10. /\ \A k \in 1 .. Len(Magic) : EndsInMagic(stream, p, k) <=> k = magic
       /\ \A q \in p .. Len(stream) - Len(Magic) + 1 : ~MagicAt(stream, q)
  BY <1>1, <1>2 DEF Reading, Hunting
<1> HIDE DEF b
<1>11. \A k \in 1 .. Len(Magic) : EndsInMagic(stream', p, k) <=> k = magic'
  BY <1>2, <1>4, <1>6, <1>10, OneByteMore
<1>12. \A q \in p .. Len(stream) - Len(Magic) + 1 : ~MagicAt(stream', q)
  <2> TAKE q \in p .. Len(stream) - Len(Magic) + 1
  <2>1. q \in Nat \ {0} /\ q + Len(Magic) - 1 <= Len(stream)
    BY <1>4
  <2> QED
    BY <1>2, <1>7, <1>10, <2>1, SameMagic
\* Where a magic would end with the new byte.
<1> DEFINE e == Len(stream') - Len(Magic) + 1
<1>13. EndsInMagic(stream', p, Len(Magic)) <=> p <= e /\ MagicAt(stream', e)
  <2>1. Len(Magic) <= Len(stream') + 1 - p <=> p <= e
    BY <1>4, <1>7
  <2>2. \A i \in 1 .. Len(Magic) : Len(stream') - Len(Magic) + i = e + i - 1
    BY <1>4, <1>7
  <2>3. CASE p <= e
    <3>1. e \in Nat \ {0} /\ e + Len(Magic) - 1 <= Len(stream')
      BY <1>4, <1>7, <2>3
    <3> HIDE DEF e
    <3>2. MagicAt(stream', e) <=> \A i \in 1 .. Len(Magic) : stream'[e + i - 1] = Magic[i]
      BY <1>7, <3>1, MagicBytes
    <3> QED
      BY <2>1, <2>2, <2>3, <3>2 DEF EndsInMagic
  <2>4. CASE ~(p <= e)
    BY <2>1, <2>4 DEF EndsInMagic
  <2> QED
    BY <2>3, <2>4
<1>14. CASE magic' < Len(Magic)
  <2>1. ~EndsInMagic(stream', p, Len(Magic))
    BY <1>4, <1>11, <1>14
  <2>2. \A q \in p .. Len(stream') - Len(Magic) + 1 : ~MagicAt(stream', q)
    <3> TAKE q \in p .. Len(stream') - Len(Magic) + 1
    <3>1. CASE q = e
      <4> HIDE DEF e
      <4>1. p <= q
        BY <1>4, <1>7
      <4> QED
        BY <1>13, <2>1, <3>1, <4>1
    <3>2. CASE q # e
      <4>1. q \in p .. Len(stream) - Len(Magic) + 1
        <5>1. e = Len(stream) - Len(Magic) + 2
          BY <1>4, <1>7
        <5>2. q \in p .. e
          OBVIOUS
        <5> HIDE DEF e
        <5> QED
          BY <1>4, <3>2, <5>1, <5>2
      <4> QED
        BY <1>12, <4>1
    <3> QED
      BY <3>1, <3>2
  <2>3. Reading(p)'
    BY <1>11, <1>14, <2>2 DEF Reading, Hunting
  <2> QED
    BY <1>8, <1>9, <2>3 DEF Parsed
<1>15. CASE ~(magic' < Len(Magic))
  <2>1. magic' = Len(Magic)
    BY <1>2, <1>4, <1>6, <1>15 DEF NextMagic
  <2>2. p <= e /\ MagicAt(stream', e)
    BY <1>4, <1>11, <1>13, <2>1
  <2>3. FrameStart' = e
    BY <1>2, <1>4, <1>7 DEF FrameStart
  <2>4. \A q \in p .. e - 1 : ~MagicAt(stream', q)
    BY <1>4, <1>7, <1>12
  <2>5. buffer' = SubSeq(stream', Len(stream') - Len(buffer') + 1, Len(stream'))
    <3>1. Len(stream') - Len(buffer') + 1 = Len(stream') + 1 /\ Len(stream') \in Nat
      BY <1>2, <1>4, <1>7
    <3>2. SubSeq(stream', Len(stream') + 1, Len(stream')) = << >>
      BY <3>1, SubSeqEmpty
    <3> QED
      BY <1>2, <3>1, <3>2
  <2> HIDE DEF e
  <2>6. InFrame(p)'
    BY <1>2, <2>2, <2>3, <2>4, <2>5 DEF InFrame
  <2> QED
    BY <1>8, <1>9, <1>15, <2>6 DEF Parsed, Reading
<1> QED
  BY <1>14, <1>15

\* What the bytes of one iteration add to a frame, whose first byte is at q.
Header == IF msgLen = 0 THEN 0 ELSE WordSize

LEMMA FrameGrows ==
    ASSUME IInv, NEW p \in 1 .. Len(stream) + 1, magic = Len(Magic), InFrame(p),
           NEW x \in Seq(Byte), stream' = stream \o x
    PROVE  /\ stream' \in Seq(Byte) /\ Extends(stream', stream)
           /\ p \in 1 .. Len(stream') + 1
           /\ FrameStart \in Nat \ {0} /\ p <= FrameStart
           /\ Len(stream') =
                FrameStart + Len(Magic) + Header + Len(buffer) + Len(x) - 1
           /\ MagicAt(stream', FrameStart)
           /\ \A r \in p .. FrameStart - 1 : ~MagicAt(stream', r)
           /\ buffer \o x =
                SubSeq(stream', FrameStart + Len(Magic) + Header, Len(stream'))
           /\ msgLen # 0 => LengthAt(stream', FrameStart) = msgLen
<1> DEFINE q == FrameStart
<1>1. /\ stream \in Seq(Byte) /\ buffer \in Seq(Byte)
      /\ Len(Magic) >= 1
  BY DEF IInv, TypeOK
<1>2. /\ Len(stream) \in Nat /\ Len(buffer) \in Nat /\ Len(x) \in Nat
      /\ Len(Magic) \in Nat /\ Header \in Nat
  BY <1>1, LenProperties DEF Header
<1>3. stream' \in Seq(Byte) /\ Len(stream') = Len(stream) + Len(x) /\ Extends(stream', stream)
  BY <1>1, ConcatExtends
<1>4. /\ p <= q /\ MagicAt(stream, q)
      /\ \A r \in p .. q - 1 : ~MagicAt(stream, r)
      /\ buffer = SubSeq(stream, Len(stream) - Len(buffer) + 1, Len(stream))
      /\ msgLen # 0 => msgLen = LengthAt(stream, q)
  BY DEF InFrame
<1>5. q = Len(stream) + 1 - Len(buffer) - Len(Magic) - Header
  BY DEF FrameStart, Header
<1> HIDE DEF q
<1>6. q \in Nat \ {0}
  BY <1>2, <1>4, <1>5
<1>7. p \in 1 .. Len(stream') + 1
  BY <1>2, <1>3
<1>8. Len(stream') = q + Len(Magic) + Header + Len(buffer) + Len(x) - 1
  BY <1>2, <1>3, <1>5, <1>6
<1>9. q + Len(Magic) + Header - 1 <= Len(stream)
  BY <1>2, <1>5, <1>6
<1>10. MagicAt(stream', q)
  <2>1. q + Len(Magic) - 1 <= Len(stream)
    BY <1>2, <1>6, <1>9
  <2> QED
    BY <1>1, <1>3, <1>4, <1>6, <2>1, SameMagic
<1>11. ASSUME NEW r \in p .. q - 1 PROVE ~MagicAt(stream', r)
  <2>1. r \in Nat \ {0} /\ r + Len(Magic) - 1 <= Len(stream)
    BY <1>2, <1>6, <1>9
  <2> QED
    BY <1>1, <1>3, <1>4, <2>1, SameMagic
<1>12. buffer \o x = SubSeq(stream', q + Len(Magic) + Header, Len(stream'))
  <2>1. Len(buffer) <= Len(stream)
    BY <1>2, <1>5, <1>6
  <2>2. buffer \o x =
          SubSeq(stream \o x, Len(stream \o x) - Len(buffer \o x) + 1, Len(stream \o x))
    BY <1>1, <1>4, <2>1, EndGrows
  <2>3. Len(buffer \o x) = Len(buffer) + Len(x)
    BY <1>1, ConcatExtends
  <2>4. Len(stream') - Len(buffer \o x) + 1 = q + Len(Magic) + Header
    BY <1>2, <1>6, <1>8, <2>3
  <2> QED
    BY <2>2, <2>4
<1>13. ASSUME msgLen # 0 PROVE LengthAt(stream', q) = msgLen
  <2>1. Header = WordSize
    BY <1>13 DEF Header
  <2>2. q + Len(Magic) \in Nat \ {0} /\ BodyAt(q) - 1 \in Int /\ BodyAt(q) - 1 <= Len(stream)
    BY <1>2, <1>6, <1>9, <2>1 DEF BodyAt
  <2>3. SubSeq(stream', q + Len(Magic), BodyAt(q) - 1) =
          SubSeq(stream, q + Len(Magic), BodyAt(q) - 1)
    BY <1>1, <1>3, <2>2, SamePart
  <2> QED
    BY <1>4, <1>13, <2>3 DEF LengthAt
<1> QED
  BY <1>3, <1>4, <1>6, <1>7, <1>8, <1>10, <1>11, <1>12, <1>13 DEF q

\* While what is wanted is not complete the frame stays the same.
LEMMA FrameGoesOn ==
    ASSUME IInv, NEW p \in 1 .. Len(stream) + 1, HandledUpTo(p),
           magic = Len(Magic), InFrame(p),
           NEW x \in Seq(Byte), stream' = stream \o x,
           magic' = magic, msgLen' = msgLen, handled' = handled,
           buffer' = buffer \o x
    PROVE  Parsed'
<1> DEFINE q == FrameStart
<1>1. /\ stream \in Seq(Byte) /\ buffer \in Seq(Byte)
      /\ Len(Magic) \in Nat /\ Len(buffer) \in Nat /\ Len(x) \in Nat /\ Header \in Nat
  BY LenProperties DEF IInv, TypeOK, Header
<1>2. /\ stream' \in Seq(Byte) /\ Extends(stream', stream)
      /\ p \in 1 .. Len(stream') + 1
      /\ q \in Nat \ {0} /\ p <= q
      /\ Len(stream') = q + Len(Magic) + Header + Len(buffer) + Len(x) - 1
      /\ MagicAt(stream', q)
      /\ \A r \in p .. q - 1 : ~MagicAt(stream', r)
      /\ buffer \o x = SubSeq(stream', q + Len(Magic) + Header, Len(stream'))
      /\ msgLen # 0 => LengthAt(stream', q) = msgLen
  BY FrameGrows
<1> HIDE DEF q
<1>3. HandledUpTo(p)'
  BY <1>1, <1>2, HandledStays
<1>4. Len(buffer') = Len(buffer) + Len(x)
  BY <1>1, ConcatExtends
<1>5. FrameStart' = q /\ Len(stream') - Len(buffer') + 1 = q + Len(Magic) + Header
  <2>1. FrameStart' = Len(stream') + 1 - Len(buffer') - Len(Magic) - Header
    BY DEF FrameStart, Header
  <2>2. /\ Len(stream') = q + Len(Magic) + Header + Len(buffer) + Len(x) - 1
        /\ q \in Nat
    BY <1>2
  <2>3. /\ Len(buffer) \in Nat /\ Len(x) \in Nat /\ Len(Magic) \in Nat /\ Header \in Nat
    BY <1>1
  <2> QED
    BY ONLY <1>4, <2>1, <2>2, <2>3
<1>6. InFrame(p)'
  BY <1>2, <1>5 DEF InFrame
<1>7. ~(magic' < Len(Magic))
  BY <1>1
<1> QED
  BY <1>2, <1>3, <1>6, <1>7 DEF Parsed, Reading

\* After a frame that is complete or refused the search starts afresh.
LEMMA FrameEnds ==
    ASSUME IInv, stream' \in Seq(Byte), Reset,
           NEW p, p = Len(stream') + 1,
           \A t \in Seq(Byte) :
             Extends(t, stream') => MessagesOf(t) = handled' \o MessagesFrom(t)[p]
    PROVE  Parsed'
<1>1. magic' = 0 /\ Len(Magic) \in Nat \ {0}
  BY LenProperties DEF Reset
<1>2. HandledUpTo(p)'
  BY DEF HandledUpTo
<1>3. /\ \A k \in 1 .. Len(Magic) : ~EndsInMagic(stream', p, k)
      /\ \A q \in p .. Len(stream') - Len(Magic) + 1 : ~MagicAt(stream', q)
      /\ p \in 1 .. Len(stream') + 1
  BY StartsAfresh
<1>4. \A k \in 1 .. Len(Magic) : k # magic'
  BY <1>1
<1>5. Hunting(p)'
  BY <1>3, <1>4 DEF Hunting
<1> QED
  BY <1>1, <1>2, <1>3, <1>5 DEF Parsed, Reading

LEMMA LengthParsed == IInv /\ Parsed /\ ReceiveLength => Parsed'
<1> SUFFICES ASSUME IInv, Parsed, ReceiveLength PROVE Parsed'
  OBVIOUS
<1>1. PICK p \in 1 .. Len(stream) + 1 : HandledUpTo(p) /\ Reading(p)
  BY DEF Parsed
<1>2. /\ TypeOK /\ rest # << >> /\ Consume(WordSize) /\ Len(buffer) < WordSize
      /\ magic = Len(Magic) /\ msgLen = 0 /\ handled' = handled
      /\ stream \in Seq(Byte) /\ buffer \in Seq(Byte)
      /\ Len(Magic) \in Nat \ {0} /\ Len(buffer) \in Nat
  BY LenProperties DEF IInv, TypeOK, BufferHolds, Wanted, ReceiveLength
<1>3. InFrame(p) /\ Header = 0
  BY <1>1, <1>2 DEF Reading, Header
<1>4. PICK x \in Seq(Byte) :
        /\ Len(x) \in 1 .. WordSize - Len(buffer)
        /\ stream' = stream \o x
        /\ Received(WordSize) = buffer \o x
        /\ Len(Received(WordSize)) = Len(buffer) + Len(x)
  BY <1>2, BytesRead
<1>5. CASE ~Complete(WordSize)
  <2>1. buffer' = buffer \o x /\ magic' = magic /\ msgLen' = msgLen
    BY <1>4, <1>5 DEF ReceiveLength
  <2> QED
    BY <1>1, <1>2, <1>3, <1>4, <2>1, FrameGoesOn
<1>6. CASE Complete(WordSize)
  <2> DEFINE q == FrameStart
             n == Signed(Number(Received(WordSize)))
  <2>1. /\ stream' \in Seq(Byte) /\ Extends(stream', stream)
        /\ p \in 1 .. Len(stream') + 1
        /\ q \in Nat \ {0} /\ p <= q
        /\ Len(stream') = q + Len(Magic) + Header + Len(buffer) + Len(x) - 1
        /\ MagicAt(stream', q)
        /\ \A r \in p .. q - 1 : ~MagicAt(stream', r)
        /\ buffer \o x = SubSeq(stream', q + Len(Magic) + Header, Len(stream'))
    BY <1>2, <1>3, <1>4, FrameGrows
  <2> HIDE DEF q
  <2>2. Len(buffer) + Len(x) = WordSize
    BY <1>4, <1>6 DEF Complete
  <2>3. Len(stream') = q + Len(Magic) + WordSize - 1 /\ BodyAt(q) = Len(stream') + 1
    <3>1. Len(stream') = q + Len(Magic) + 0 + Len(buffer) + Len(x) - 1
      BY <1>3, <2>1
    <3>2. Len(x) \in Nat
      BY LenProperties
    <3>3. /\ Len(buffer) \in Nat /\ Len(Magic) \in Nat \ {0} /\ q \in Nat \ {0}
          /\ WordSize \in Nat
      BY <1>2, <2>1
    <3> QED
      BY ONLY <2>2, <3>1, <3>2, <3>3 DEF BodyAt
  <2>4. LengthAt(stream', q) = n
    <3>1. q + Len(Magic) + Header = q + Len(Magic) /\ BodyAt(q) - 1 = Len(stream')
      BY <1>2, <1>3, <2>1, <2>3
    <3> QED
      BY <1>4, <2>1, <3>1 DEF LengthAt
  <2> HIDE DEF n
  <2>5. CASE OutOfRange(n)
    <3>1. Reset
      BY <1>2, <1>6, <2>5 DEF ReceiveLength, n
    <3>2. PICK r : r = Len(stream') + 1
      OBVIOUS
    <3>3. ASSUME NEW t \in Seq(Byte), Extends(t, stream')
          PROVE  MessagesOf(t) = handled' \o MessagesFrom(t)[r]
      <4>1. Extends(t, stream)
        BY <1>2, <2>1, <3>3, ExtendsFurther
      <4>2. MessagesOf(t) = handled \o MessagesFrom(t)[p]
        BY <1>1, <4>1 DEF HandledUpTo
      <4>3. Starts(t, p) # {} /\ FirstStart(t, p) = q /\ LengthAt(t, q) = n
        <5>1. BodyAt(q) - 1 <= Len(stream')
          BY <2>1, <2>3
        <5> QED
          BY <2>1, <2>4, <3>3, <5>1, FrameFound
      <4>4. Messages(t, p, MessagesFrom(t)) = MessagesFrom(t)[BodyAt(q)]
        BY <2>5, <4>3 DEF Messages, OutOfRange
      <4>5. p \in 1 .. Len(t) + 1
        BY <2>1, <3>3, LenProperties DEF Extends
      <4>6. MessagesFrom(t)[p] = MessagesFrom(t)[r]
        BY <2>3, <3>2, <4>4, <4>5, MessagesFromIs
      <4> QED
        BY <1>2, <4>2, <4>6
    <3> QED
      BY <2>1, <3>1, <3>2, <3>3, FrameEnds
  <2>6. CASE ~OutOfRange(n)
    <3>1. msgLen' = n /\ buffer' = << >> /\ magic' = magic
      BY <1>2, <1>6, <2>6 DEF ReceiveLength, n
    <3>2. n # 0
      BY <2>6 DEF OutOfRange
    <3>3. HandledUpTo(p)'
      BY <1>1, <1>2, <2>1, HandledStays
    <3>4. Len(buffer') = 0 /\ Len(stream') \in Nat
      BY <2>1, <3>1, LenProperties
    <3>5. FrameStart' = q
      <4>1. FrameStart' = Len(stream') + 1 - Len(buffer') - Len(Magic) - WordSize
        BY <3>1, <3>2 DEF FrameStart
      <4> QED
        BY <1>2, <2>1, <2>3, <3>4, <4>1
    <3>6. buffer' = SubSeq(stream', Len(stream') - Len(buffer') + 1, Len(stream'))
      <4>1. Len(stream') - Len(buffer') + 1 = Len(stream') + 1
        BY <3>4
      <4>2. SubSeq(stream', Len(stream') + 1, Len(stream')) = << >>
        BY <3>4, SubSeqEmpty
      <4> QED
        BY <3>1, <4>1, <4>2
    <3>7. InFrame(p)'
      BY <2>1, <2>4, <3>1, <3>5, <3>6 DEF InFrame
    <3>8. ~(magic' < Len(Magic))
      BY <1>2, <3>1
    <3> QED
      BY <2>1, <3>3, <3>7, <3>8 DEF Parsed, Reading
  <2> QED
    BY <2>5, <2>6
<1> QED
  BY <1>5, <1>6

LEMMA MessagesAssociate ==
    \A h, d, m \in MessageSeqs : (h \o d) \o m = h \o (d \o m)
<1> DEFINE M == [id : 1 .. Len(Sizes), data : Seq(Byte)]
<1>1. MessageSeqs = Seq(M)
  BY DEF MessageSeqs
<1> HIDE DEF M
<1>2. ASSUME NEW h \in Seq(M), NEW d \in Seq(M), NEW m \in Seq(M)
      PROVE  (h \o d) \o m = h \o (d \o m)
  BY ConcatAssociative
<1> QED
  BY <1>1, <1>2

LEMMA BodyParsed == IInv /\ Parsed /\ ReceiveBody => Parsed'
<1> SUFFICES ASSUME IInv, Parsed, ReceiveBody PROVE Parsed'
  OBVIOUS
<1>1. PICK p \in 1 .. Len(stream) + 1 : HandledUpTo(p) /\ Reading(p)
  BY DEF Parsed
<1>2. /\ TypeOK /\ rest # << >> /\ Consume(msgLen) /\ Len(buffer) < msgLen
      /\ magic = Len(Magic) /\ msgLen # 0
      /\ msgLen \in WordSize .. BufferCap /\ msgLen \in Nat
      /\ stream \in Seq(Byte) /\ buffer \in Seq(Byte)
      /\ Len(Magic) \in Nat \ {0} /\ Len(buffer) \in Nat
  BY LenProperties DEF IInv, TypeOK, BufferHolds, Wanted, ReceiveBody
<1>3. InFrame(p) /\ Header = WordSize
  BY <1>1, <1>2 DEF Reading, Header
<1>4. PICK x \in Seq(Byte) :
        /\ Len(x) \in 1 .. msgLen - Len(buffer)
        /\ stream' = stream \o x
        /\ Received(msgLen) = buffer \o x
        /\ Received(msgLen) \in Seq(Byte)
        /\ Len(Received(msgLen)) = Len(buffer) + Len(x)
  BY <1>2, BytesRead
<1>5. CASE ~Complete(msgLen)
  <2>1. buffer' = buffer \o x /\ magic' = magic /\ msgLen' = msgLen /\ handled' = handled
    BY <1>4, <1>5 DEF ReceiveBody
  <2> QED
    BY <1>1, <1>2, <1>3, <1>4, <2>1, FrameGoesOn
<1>6. CASE Complete(msgLen)
  <2> DEFINE q == FrameStart
             body == Received(msgLen)
  <2>1. /\ stream' \in Seq(Byte) /\ Extends(stream', stream)
        /\ p \in 1 .. Len(stream') + 1
        /\ q \in Nat \ {0} /\ p <= q
        /\ Len(stream') = q + Len(Magic) + Header + Len(buffer) + Len(x) - 1
        /\ MagicAt(stream', q)
        /\ \A r \in p .. q - 1 : ~MagicAt(stream', r)
        /\ buffer \o x = SubSeq(stream', q + Len(Magic) + Header, Len(stream'))
        /\ LengthAt(stream', q) = msgLen
    BY <1>2, <1>3, <1>4, FrameGrows
  <2> HIDE DEF q
  <2>2. Len(buffer) + Len(x) = msgLen
    BY <1>4, <1>6 DEF Complete
  <2>3. BodyAt(q) + msgLen = Len(stream') + 1 /\ BodyAt(q) \in Nat \ {0}
    <3>1. Len(stream') = q + Len(Magic) + WordSize + Len(buffer) + Len(x) - 1
      BY <1>3, <2>1
    <3>2. Len(x) \in Nat
      BY LenProperties
    <3>3. /\ Len(buffer) \in Nat /\ Len(Magic) \in Nat \ {0} /\ q \in Nat \ {0}
          /\ WordSize \in Nat /\ msgLen \in Nat
      BY <1>2, <2>1
    <3> QED
      BY ONLY <2>2, <3>1, <3>2, <3>3 DEF BodyAt
  <2>4. body = SubSeq(stream', BodyAt(q), Len(stream'))
    BY <1>3, <1>4, <2>1 DEF BodyAt
  <2>5. Reset /\ handled' = handled \o Dispatch(body)
    BY <1>6 DEF ReceiveBody
  <2>6. body \in Seq(Byte) /\ Len(stream') \in Nat
    BY <1>4, <2>1, LenProperties
  <2> HIDE DEF body
  <2>7. PICK r : r = Len(stream') + 1
    OBVIOUS
  <2>8. ASSUME NEW t \in Seq(Byte), Extends(t, stream')
        PROVE  MessagesOf(t) = handled' \o MessagesFrom(t)[r]
    <3>1. Extends(t, stream)
      BY <1>2, <2>1, <2>8, ExtendsFurther
    <3>2. MessagesOf(t) = handled \o MessagesFrom(t)[p]
      BY <1>1, <3>1 DEF HandledUpTo
    <3>3. BodyAt(q) - 1 <= Len(stream')
      BY <1>2, <2>3, <2>6
    <3>4. Starts(t, p) # {} /\ FirstStart(t, p) = q /\ LengthAt(t, q) = msgLen
      BY <2>1, <2>8, <3>3, FrameFound
    <3>5. BodyAt(q) + msgLen - 1 = Len(stream') /\ BodyAt(q) + msgLen = r
      BY <1>2, <2>3, <2>6, <2>7
    <3>6. Len(stream') <= Len(t) /\ Len(t) \in Nat
      BY <2>8, LenProperties DEF Extends
    <3>7. ~(BodyAt(q) + msgLen - 1 > Len(t))
      BY <2>6, <3>5, <3>6
    <3>8. SubSeq(t, BodyAt(q), BodyAt(q) + msgLen - 1) = body
      <4>1. SubSeq(t, BodyAt(q), Len(stream')) = SubSeq(stream', BodyAt(q), Len(stream'))
        <5>1. Len(stream') \in Int /\ Len(stream') <= Len(stream')
          BY <2>6
        <5> QED
          BY <2>1, <2>3, <2>8, <5>1, SamePart
      <4> QED
        BY <2>4, <3>5, <4>1
    <3>9. Messages(t, p, MessagesFrom(t)) = Dispatch(body) \o MessagesFrom(t)[r]
      BY <1>2, <3>4, <3>5, <3>7, <3>8 DEF Messages
    <3>10. p \in 1 .. Len(t) + 1 /\ r \in 1 .. Len(t) + 1
      BY <2>1, <2>6, <2>7, <3>6
    <3>11. MessagesFrom(t)[p] = Dispatch(body) \o MessagesFrom(t)[r]
      BY <3>9, <3>10, MessagesFromIs
    <3>12. /\ handled \in MessageSeqs /\ Dispatch(body) \in MessageSeqs
           /\ MessagesFrom(t)[r] \in MessageSeqs
      <4>1. handled \in MessageSeqs
        BY <1>2 DEF TypeOK, MessageSeqs
      <4>2. Dispatch(body) \in MessageSeqs
        BY <2>6, DispatchType DEF MessageSeqs
      <4> QED
        BY <3>10, <4>1, <4>2, MessagesFromType
    <3>13. (handled \o Dispatch(body)) \o MessagesFrom(t)[r] =
              handled \o (Dispatch(body) \o MessagesFrom(t)[r])
      BY <3>12, MessagesAssociate, Zenon
    <3> QED
      BY <2>5, <3>2, <3>11, <3>13
  <2> QED
    BY <2>1, <2>5, <2>7, <2>8, FrameEnds
<1> QED
  BY <1>5, <1>6

\* A new connection finds a parser that hunts for the magic in an empty stream.
LEMMA ReconnectParsed == IInv /\ Reconnect => Parsed'
<1> SUFFICES ASSUME IInv, Reconnect PROVE Parsed'
  OBVIOUS
<1>1. Reset /\ stream' = << >> /\ handled' = << >>
  BY DEF Reconnect
<1>2. PICK p : p = 1
  OBVIOUS
<1>3. stream' \in Seq(Byte) /\ Len(stream') = 0
  BY <1>1, EmptySeq
<1>4. ASSUME NEW t \in Seq(Byte), Extends(t, stream')
      PROVE  MessagesOf(t) = handled' \o MessagesFrom(t)[p]
  <2>1. 1 \in 1 .. Len(t) + 1
    BY LenProperties
  <2>2. MessagesFrom(t)[1] \in MessageSeqs
    BY <2>1, MessagesFromType
  <2>3. << >> \o MessagesFrom(t)[1] = MessagesFrom(t)[1]
    BY <2>2, ConcatEmptySeq DEF MessageSeqs
  <2> QED
    BY <1>1, <1>2, <2>3 DEF MessagesOf
<1>5. p = Len(stream') + 1
  BY <1>2, <1>3
<1> QED
  BY <1>1, <1>3, <1>4, <1>5, FrameEnds

LEMMA NextParsed == IInv /\ Parsed /\ [Next]_vars => Parsed'
<1> SUFFICES ASSUME IInv, Parsed, [Next]_vars PROVE Parsed'
  OBVIOUS
<1>1. CASE Loop
  BY <1>1, MagicParsed, LengthParsed, BodyParsed DEF Loop
<1>2. CASE Segment
  BY <1>2 DEF Segment, Parsed, HandledUpTo, Reading, Hunting, InFrame, FrameStart
<1>3. CASE Reconnect
  BY <1>3, ReconnectParsed
<1>4. CASE UNCHANGED vars
  BY <1>4 DEF vars, Parsed, HandledUpTo, Reading, Hunting, InFrame, FrameStart
<1> QED
  BY <1>1, <1>2, <1>3, <1>4 DEF Next

LEMMA ParsedIsHandled == IInv /\ Parsed => HandlesTheStream
<1> SUFFICES ASSUME IInv, Parsed PROVE HandlesTheStream
  OBVIOUS
<1>1. PICK p \in 1 .. Len(stream) + 1 : HandledUpTo(p) /\ Reading(p)
  BY DEF Parsed
<1>2. stream \in Seq(Byte) /\ handled \in MessageSeqs
  BY DEF IInv, TypeOK, MessageSeqs
<1>3. Extends(stream, stream)
  BY <1>2, LenProperties DEF Extends
<1>4. MessagesOf(stream) = handled \o MessagesFrom(stream)[p]
  BY <1>1, <1>2, <1>3 DEF HandledUpTo
<1>5. MessagesFrom(stream)[p] = << >>
  BY <1>1, NothingPending
<1>6. handled \o << >> = handled
  BY <1>2, ConcatEmptySeq DEF MessageSeqs
<1> QED
  BY <1>4, <1>5, <1>6 DEF HandlesTheStream

\* recv_callback's state always describes the bytes since the last frame, and what
\* it has handled is what every continuation of the stream begins with.
THEOREM ParserInvariance == Spec => [](IInv /\ Parsed)
<1>1. Init => IInv /\ Parsed
  BY InitHolds, InitParsed
<1>2. IInv /\ Parsed /\ [Next]_vars => (IInv /\ Parsed)'
  BY NextHolds, NextParsed
<1> QED
  BY <1>1, <1>2, PTL DEF Spec

\* For every magic of different bytes, word size, buffer and set of messages, and
\* however TCP cuts the stream: recv_callback handles exactly the messages that the
\* stream contains, in their order.
THEOREM AlwaysHandlesTheStream == Spec => []HandlesTheStream
  BY ParserInvariance, ParsedIsHandled, PTL
=============================================================================
