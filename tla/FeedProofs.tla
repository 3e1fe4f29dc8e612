------------------------------ MODULE FeedProofs ------------------------------
(***************************************************************************)
(* What the clients are sent, for every capacity, number of clients and    *)
(* set of connections: no byte twice and none out of order, with callbacks *)
(* at any time; and, when none comes while a client is being timed out,    *)
(* Broadcast implements Feed.                                              *)
(***************************************************************************)
EXTENDS BroadcastProofs, SequenceTheorems

\* One connection's bytes are in order: SentInOrder is this of every connection.
InOrder(h) ==
    /\ h # << >> => h[1][2] = 1
    /\ \A k \in 1 .. Len(h) - 1 :
          \/ h[k + 1][1] = h[k][1] /\ h[k + 1][2] = h[k][2] + 1
          \/ h[k + 1][1] > h[k][1] /\ h[k + 1][2] = 1

\* h ends with the first n bytes of message s, and what comes before them is of
\* earlier messages.
EndsWith(h, s, n) ==
    /\ n <= Len(h)
    /\ \A k \in 1 .. n : h[Len(h) - n + k] = <<s, k>>
    /\ n < Len(h) => h[Len(h) - n][1] < s

-----------------------------------------------------------------------------
\* The inductive invariant.  Types: a connection's bytes are a sequence, and
\* network_loop's index and pcb are a slot and a connection, or none.
ConnRecord == [state : {"new", "open", "gone"}, slot : Slots, unacked : Nat,
               sent : Seq(Nat \X Nat)]

StreamTypes ==
    /\ client \in [Slots -> ClientRecord]
    /\ conn \in [Conns -> ConnRecord]
    /\ pc.i \in Slots /\ pc.tpcb \in Conns \cup {NoConn}

\* A connection is in its own slot or in none, a new one in none, and the one that
\* network_loop is closing was in one and no longer is: so nothing more is sent on it.
SlotsHeld ==
    \A c \in Conns :
        /\ \A i \in Slots : client[i].pcb = c => conn[c].state # "new" /\ conn[c].slot = i
        /\ pc.at = "closing" /\ pc.tpcb = c => conn[c].state # "new" /\ ~Listens(c)

\* The message whose bytes a listening client is given next, and how many of them
\* it has been given.
NextMessage == IF outLen = Idle THEN posted - ring.size + 1 ELSE buffer.seq
Given(c) == IF outLen = Idle THEN 0 ELSE client[conn[c].slot].written

\* What a connection was sent is in order, and for one that listens goes on with the
\* next byte of that message.
StreamOK(c) ==
    /\ conn[c].unacked <= Len(conn[c].sent)
    /\ conn[c].state = "new" => conn[c].sent = << >>
    /\ InOrder(conn[c].sent)
    /\ Listens(c) => EndsWith(conn[c].sent, NextMessage, Given(c))

Streams == \A c \in Conns : StreamOK(c)

StreamInv == StreamTypes /\ SlotsHeld /\ Streams

-----------------------------------------------------------------------------
\* The first bytes of what is in order are in order.
LEMMA PrefixInOrder ==
    ASSUME NEW h \in Seq(Nat \X Nat), NEW n \in 0 .. Len(h), InOrder(h)
    PROVE  /\ SubSeq(h, 1, n) \in Seq(Nat \X Nat) /\ Len(SubSeq(h, 1, n)) = n
           /\ \A k \in 1 .. n : SubSeq(h, 1, n)[k] = h[k]
           /\ InOrder(SubSeq(h, 1, n))
<1> DEFINE p == SubSeq(h, 1, n)
<1>1. /\ p \in Seq(Nat \X Nat) /\ Len(p) = n /\ Len(h) \in Nat
      /\ \A k \in 1 .. n : p[k] = h[k]
  OBVIOUS
<1> HIDE DEF p
<1>2. p # << >> => p[1][2] = 1
  BY <1>1 DEF InOrder
<1>3. ASSUME NEW k \in 1 .. Len(p) - 1
      PROVE  \/ p[k + 1][1] = p[k][1] /\ p[k + 1][2] = p[k][2] + 1
             \/ p[k + 1][1] > p[k][1] /\ p[k + 1][2] = 1
  <2>1. k \in 1 .. Len(h) - 1 /\ k \in 1 .. n /\ k + 1 \in 1 .. n
    BY <1>1
  <2>2. p[k] = h[k] /\ p[k + 1] = h[k + 1]
    BY <1>1, <2>1
  <2> QED  BY <2>1, <2>2 DEF InOrder
<1> QED
  BY <1>1, <1>2, <1>3 DEF InOrder, p

\* Some bytes of a message.
LEMMA BytesAre ==
    ASSUME NEW m \in Messages, NEW f \in Nat, NEW n \in Nat
    PROVE  Bytes(m, f, n) \in Seq(Nat \X Nat) /\ Len(Bytes(m, f, n)) = n
<1>1. m.seq \in Nat  BY DEF Messages
<1> QED
  BY <1>1 DEF Bytes

\* The next bytes of the message go on in order.
LEMMA BytesGoOn ==
    ASSUME NEW h \in Seq(Nat \X Nat), InOrder(h), NEW m \in Messages,
           NEW n \in Nat, EndsWith(h, m.seq, n), NEW k \in Nat
    PROVE  LET g == h \o Bytes(m, n, k)
           IN  /\ g \in Seq(Nat \X Nat) /\ Len(g) = Len(h) + k
               /\ InOrder(g) /\ EndsWith(g, m.seq, n + k)
<1> DEFINE b == Bytes(m, n, k)
           g == h \o b
<1>1. /\ b \in Seq(Nat \X Nat) /\ Len(b) = k /\ m.seq \in Nat
      /\ \A j \in 1 .. k : b[j] = <<m.seq, n + j>>
  <2>1. m.seq \in Nat  BY DEF Messages
  <2> QED  BY <2>1 DEF Bytes
<1> HIDE DEF b
<1>2. /\ g \in Seq(Nat \X Nat) /\ Len(g) = Len(h) + k /\ Len(h) \in Nat
      /\ \A j \in 1 .. Len(h) : g[j] = h[j] /\ h[j] \in Nat \X Nat
      /\ n <= Len(h) /\ (Len(h) > 0 => h # << >>)
      /\ \A j \in 1 .. k : g[Len(h) + j] = <<m.seq, n + j>>
  <2>1. /\ h \o b \in Seq(Nat \X Nat) /\ Len(h \o b) = Len(h) + Len(b) /\ Len(h) \in Nat
        /\ \A j \in 1 .. Len(h) + Len(b) : (h \o b)[j] = IF j <= Len(h) THEN h[j] ELSE b[j - Len(h)]
    <3>1. h \in Seq(Nat \X Nat) /\ b \in Seq(Nat \X Nat)  BY <1>1
    <3>2. Len(h) \in Nat  BY <3>1
    <3> QED  BY <3>1, <3>2, ConcatProperties, Zenon
  <2>2. ASSUME NEW j \in 1 .. Len(h) PROVE g[j] = h[j]
    BY <1>1, <2>1
  <2>3. ASSUME NEW j \in 1 .. k PROVE g[Len(h) + j] = <<m.seq, n + j>>
    <3>1. /\ Len(h) + j \in 1 .. Len(h) + Len(b) /\ ~(Len(h) + j <= Len(h))
          /\ Len(h) + j - Len(h) = j
      BY <1>1, <2>1
    <3>2. (h \o b)[Len(h) + j] = b[j]
      BY <2>1, <3>1
    <3> QED  BY <1>1, <3>2
  <2>4. n <= Len(h)  BY DEF EndsWith
  <2>5. (Len(h) > 0 => h # << >>) /\ \A j \in 1 .. Len(h) : h[j] \in Nat \X Nat  OBVIOUS
  <2> QED  BY <1>1, <2>1, <2>2, <2>3, <2>4, <2>5
<1> HIDE DEF g
<1>3. EndsWith(g, m.seq, n + k)
  <2>1. n + k <= Len(g)
    BY <1>2 DEF EndsWith
  <2>2. ASSUME NEW j \in 1 .. n + k
        PROVE  g[Len(g) - (n + k) + j] = <<m.seq, j>>
    <3>1. CASE j <= n
      <4>1. Len(g) - (n + k) + j = Len(h) - n + j /\ Len(h) - n + j \in 1 .. Len(h)
            /\ j \in 1 .. n
        BY <1>2, <3>1
      <4> QED  BY <1>2, <4>1 DEF EndsWith
    <3>2. CASE j > n
      <4>1. j - n \in 1 .. k /\ Len(g) - (n + k) + j = Len(h) + (j - n) /\ n + (j - n) = j
        BY <1>2, <3>2
      <4> QED  BY <1>2, <4>1
    <3> QED  BY <3>1, <3>2
  <2>3. n + k < Len(g) => g[Len(g) - (n + k)][1] < m.seq
    <3> SUFFICES ASSUME n + k < Len(g) PROVE g[Len(g) - (n + k)][1] < m.seq
      OBVIOUS
    <3>1. Len(g) - (n + k) = Len(h) - n /\ Len(h) - n \in 1 .. Len(h) /\ n < Len(h)
      BY <1>2
    <3> QED  BY <1>2, <3>1 DEF EndsWith
  <2> QED  BY <2>1, <2>2, <2>3 DEF EndsWith
<1>4. InOrder(g)
  <2>1. ASSUME g # << >> PROVE g[1][2] = 1
    <3>1. CASE Len(h) > 0
      <4>1. g[1] = h[1] /\ h # << >>  BY <1>2, <3>1
      <4> QED  BY <4>1 DEF InOrder
    <3>2. CASE Len(h) = 0
      <4>1. n = 0 /\ 1 \in 1 .. k
        BY <1>2, <2>1, <3>2 DEF EndsWith
      <4>2. g[Len(h) + 1] = <<m.seq, n + 1>>
        BY <1>2, <4>1
      <4> QED  BY <3>2, <4>1, <4>2
    <3> QED  BY <1>2, <3>1, <3>2
  <2>2. ASSUME NEW j \in 1 .. Len(g) - 1
        PROVE  \/ g[j + 1][1] = g[j][1] /\ g[j + 1][2] = g[j][2] + 1
               \/ g[j + 1][1] > g[j][1] /\ g[j + 1][2] = 1
    <3>0. j \in Nat /\ 1 <= j /\ j < Len(h) + k /\ Len(h) \in Nat
      <4>1. Len(h) \in Nat /\ Len(g) = Len(h) + k  BY <1>2
      <4> QED  BY <2>2, <4>1
    <3>1. CASE j < Len(h)
      <4>1. j \in 1 .. Len(h) - 1 /\ j \in 1 .. Len(h) /\ j + 1 \in 1 .. Len(h)
        BY <3>0, <3>1
      <4>2. g[j] = h[j] /\ g[j + 1] = h[j + 1]
        BY <1>2, <4>1
      <4> QED  BY <4>1, <4>2 DEF InOrder
    <3>2. CASE j = Len(h)
      <4>0. 1 \in 1 .. k /\ j + 1 = Len(h) + 1 /\ j \in 1 .. Len(h)
        BY <3>0, <3>2
      <4>1. 1 \in 1 .. k /\ j + 1 = Len(h) + 1 /\ g[j] = h[j]
        BY <1>2, <4>0
      <4>2. g[j + 1] = <<m.seq, n + 1>>
        BY <1>2, <4>1
      <4>3. CASE n > 0
        <5>1. n \in 1 .. n /\ Len(h) - n + n = Len(h)
          BY <1>2, <4>3
        <5>2. h[j] = <<m.seq, n>>
          BY <3>2, <5>1 DEF EndsWith
        <5> QED  BY <1>1, <4>1, <4>2, <5>2
      <4>4. CASE n = 0
        <5>1. h[j][1] < m.seq /\ h[j][1] \in Nat
          <6>1. Len(h) - n = j /\ n < Len(h) /\ h[j] \in Nat \X Nat
            BY <1>2, <2>2, <3>2, <4>4
          <6> QED  BY <6>1 DEF EndsWith
        <5> QED  BY <1>1, <4>1, <4>2, <4>4, <5>1
      <4> QED  BY <4>3, <4>4
    <3>3. CASE j > Len(h)
      <4>1. j - Len(h) \in 1 .. k /\ j + 1 - Len(h) \in 1 .. k
            /\ Len(h) + (j - Len(h)) = j /\ Len(h) + (j + 1 - Len(h)) = j + 1
        BY <3>0, <3>3
      <4>2. g[j] = <<m.seq, n + (j - Len(h))>> /\ g[j + 1] = <<m.seq, n + (j + 1 - Len(h))>>
        BY <1>2, <4>1
      <4> QED  BY <1>1, <1>2, <4>2
    <3> QED  BY <3>0, <3>1, <3>2, <3>3
  <2> QED  BY <2>1, <2>2 DEF InOrder
<1> QED
  BY <1>2, <1>3, <1>4 DEF g, b

-----------------------------------------------------------------------------
LEMMA StreamsInit == Init => StreamInv
<1> SUFFICES ASSUME Init PROVE StreamInv
  OBVIOUS
<1> USE ClientsAssumption, ConnsAssumption
<1>1. /\ client = [i \in Slots |->
                     [pcb |-> NoConn, written |-> 0, acked |-> 0, timer |-> "never"]]
      /\ conn = [c \in Conns |->
                   [state |-> "new", slot |-> 0, unacked |-> 0, sent |-> << >>]]
      /\ pc = [at |-> "check", i |-> 0, tpcb |-> NoConn] /\ 0 \in Slots
  BY DEF Init, Slots
<1>2. StreamTypes
  BY <1>1 DEF StreamTypes, ConnRecord, ClientRecord, Timers
<1>3. SlotsHeld
  BY <1>1 DEF SlotsHeld
<1>4. ASSUME NEW c \in Conns PROVE StreamOK(c)
  <2>1. conn[c].sent = << >> /\ conn[c].unacked = 0 /\ ~Listens(c)
    BY <1>1 DEF Listens
  <2> QED  BY <2>1 DEF StreamOK, InOrder
<1> QED
  BY <1>2, <1>3, <1>4 DEF StreamInv, Streams

\* A connection that ends keeps what its client has acknowledged.
LEMMA GoneRecord ==
    ASSUME StreamInv, NEW c \in Conns
    PROVE  /\ Gone(c) \in ConnRecord
           /\ Gone(c).state = "gone" /\ Gone(c).slot = conn[c].slot /\ Gone(c).unacked = 0
           /\ Gone(c).sent = Acked(c)
           /\ InOrder(Acked(c))
<1>1. conn[c] \in ConnRecord /\ StreamOK(c)
  BY DEF StreamInv, StreamTypes, Streams
<1>2. conn[c].sent \in Seq(Nat \X Nat) /\ conn[c].unacked \in Nat
      /\ Len(conn[c].sent) \in Nat
  BY <1>1 DEF ConnRecord
<1>3. Len(conn[c].sent) - conn[c].unacked \in 0 .. Len(conn[c].sent) /\ InOrder(conn[c].sent)
  BY <1>1, <1>2 DEF StreamOK
<1>4. Acked(c) \in Seq(Nat \X Nat) /\ InOrder(Acked(c))
  BY <1>2, <1>3, PrefixInOrder DEF Acked
<1> DEFINE r == conn[c]
           a == Acked(c)
           g == Gone(c)
<1>5. g = [r EXCEPT !.state = "gone", !.unacked = 0, !.sent = a]
  BY DEF Gone
<1>6. r \in ConnRecord /\ a \in Seq(Nat \X Nat)
  BY <1>1, <1>4
<1> HIDE DEF r, a, g
<1>7. /\ g \in ConnRecord /\ g.state = "gone" /\ g.slot = r.slot /\ g.unacked = 0
      /\ g.sent = a
  BY ONLY <1>5, <1>6 DEF ConnRecord
<1> QED
  BY <1>4, <1>7 DEF r, a, g

\* Whatever step is taken, a connection that is not given bytes stays in order: its
\* bytes stay, or the tail is lost with the connection; and if it listens it did
\* before and goes on where it was, or it is new.
LEMMA StreamsStay ==
    ASSUME StreamInv, NEW c \in Conns,
           conn'[c] \in ConnRecord, NextMessage' = NextMessage,
           \/ /\ conn'[c].sent = conn[c].sent /\ conn'[c].unacked <= conn[c].unacked
              /\ conn'[c].state = "new" => conn[c].state = "new"
              /\ Listens(c)' => \/ Listens(c) /\ Given(c)' = Given(c)
                                \/ conn[c].sent = << >> /\ Given(c)' = 0
           \/ conn'[c] = Gone(c) /\ ~Listens(c)'
    PROVE  StreamOK(c)'
<1>1. StreamOK(c) /\ conn[c] \in ConnRecord
  BY DEF StreamInv, Streams, StreamTypes
<1>2. CASE conn'[c] = Gone(c) /\ ~Listens(c)'
  <2>1. /\ conn'[c].unacked = 0 /\ conn'[c].state = "gone" /\ InOrder(conn'[c].sent)
        /\ conn'[c].sent \in Seq(Nat \X Nat)
    BY <1>2, GoneRecord DEF ConnRecord
  <2>2. 0 <= Len(conn'[c].sent)
    BY <2>1
  <2> QED  BY <1>2, <2>1, <2>2 DEF StreamOK
<1>3. CASE /\ conn'[c].sent = conn[c].sent /\ conn'[c].unacked <= conn[c].unacked
           /\ conn'[c].state = "new" => conn[c].state = "new"
           /\ Listens(c)' => \/ Listens(c) /\ Given(c)' = Given(c)
                             \/ conn[c].sent = << >> /\ Given(c)' = 0
  <2>1. conn'[c].unacked <= Len(conn'[c].sent)
    <3>1. conn[c].unacked \in Nat /\ conn'[c].unacked \in Nat /\ Len(conn[c].sent) \in Nat
      BY <1>1 DEF ConnRecord
    <3> QED  BY <1>1, <1>3, <3>1 DEF StreamOK
  <2>2. ASSUME Listens(c)' PROVE EndsWith(conn'[c].sent, NextMessage', Given(c)')
    <3>1. CASE Listens(c) /\ Given(c)' = Given(c)
      BY <1>1, <1>3, <3>1 DEF StreamOK
    <3>2. CASE conn[c].sent = << >> /\ Given(c)' = 0
      BY <1>3, <3>2 DEF EndsWith
    <3> QED  BY <1>3, <2>2, <3>1, <3>2
  <2> QED  BY <1>1, <1>3, <2>1, <2>2 DEF StreamOK
<1> QED
  BY <1>2, <1>3
\* A new connection is given the first free slot, or is shut out.
LEMMA NewConnectionStreams ==
    ASSUME StreamInv, NEW c \in Conns, NewConnection(c)
    PROVE  StreamInv'
<1> USE ConnsAssumption
<1>1. /\ UNCHANGED <<ring, posted, buffer, outLen, pc>>
      /\ conn[c].state = "new" /\ conn[c].sent = << >> /\ conn[c].unacked = 0
      /\ client \in [Slots -> ClientRecord] /\ conn \in [Conns -> ConnRecord]
      /\ \A i \in Slots : client[i].pcb # c
      /\ NextMessage' = NextMessage
  <2>1. conn[c].state = "new" /\ UNCHANGED <<ring, posted, buffer, outLen, pc>>
    BY DEF NewConnection, queueVars, sendVars
  <2>2. conn[c].sent = << >> /\ conn[c].unacked <= 0 /\ conn[c].unacked \in Nat
    BY <2>1 DEF StreamInv, Streams, StreamOK, StreamTypes, ConnRecord
  <2> QED  BY <2>1, <2>2 DEF StreamInv, StreamTypes, SlotsHeld, NextMessage
<1>2. CASE \E i \in Slots : /\ client[i].pcb = NoConn
                            /\ client' = [client EXCEPT ![i] = NewClient(i, c)]
                            /\ conn' = [conn EXCEPT ![c].state = "open", ![c].slot = i]
  <2>1. PICK i \in Slots : /\ client[i].pcb = NoConn
                           /\ client' = [client EXCEPT ![i] = NewClient(i, c)]
                           /\ conn' = [conn EXCEPT ![c].state = "open", ![c].slot = i]
    BY <1>2
  <2>2. /\ NewClient(i, c) \in ClientRecord
        /\ NewClient(i, c).pcb = c /\ NewClient(i, c).written = 0
    BY DEF NewClient, ClientRecord, Timers
  <2>3. /\ client' \in [Slots -> ClientRecord] /\ client'[i].pcb = c
        /\ client'[i].written = 0
        /\ \A j \in Slots : j # i => client'[j] = client[j]
    BY <1>1, <2>1, <2>2
  <2>4. /\ conn' \in [Conns -> ConnRecord] /\ conn'[c].state = "open" /\ conn'[c].slot = i
        /\ conn'[c].unacked = 0 /\ conn'[c].sent = << >>
        /\ \A d \in Conns : d # c => conn'[d] = conn[d]
    BY <1>1, <2>1 DEF ConnRecord
  <2>5. StreamTypes'
    BY <1>1, <2>3, <2>4 DEF StreamInv, StreamTypes
  <2>6. \A d \in Conns : d # c => (Listens(d)' <=> Listens(d)) /\ (Listens(d) => conn[d].slot # i)
    <3> SUFFICES ASSUME NEW d \in Conns, d # c
                 PROVE  (Listens(d)' <=> Listens(d)) /\ (Listens(d) => conn[d].slot # i)
      OBVIOUS
    <3>1. conn'[d].slot = conn[d].slot /\ conn[d].slot \in Slots
      BY <1>1, <2>4 DEF ConnRecord
    <3>2. CASE conn[d].slot = i
      BY <2>1, <2>3, <3>1, <3>2 DEF Listens
    <3>3. CASE conn[d].slot # i
      BY <2>3, <3>1, <3>3 DEF Listens
    <3> QED  BY <3>2, <3>3
  <2>7. SlotsHeld'
    <3> SUFFICES ASSUME NEW d \in Conns
                 PROVE  /\ \A j \in Slots : client'[j].pcb = d =>
                              conn'[d].state # "new" /\ conn'[d].slot = j
                        /\ pc'.at = "closing" /\ pc'.tpcb = d =>
                              conn'[d].state # "new" /\ ~Listens(d)'
      BY DEF SlotsHeld
    <3>1. CASE d = c
      BY <1>1, <2>3, <2>4, <3>1 DEF StreamInv, SlotsHeld
    <3>2. CASE d # c
      BY <1>1, <2>3, <2>4, <2>6, <3>2 DEF StreamInv, SlotsHeld
    <3> QED  BY <3>1, <3>2
  <2>8. ASSUME NEW d \in Conns PROVE StreamOK(d)'
    <3>1. CASE d = c
      <4>1. Given(d)' = 0
        BY <2>3, <2>4, <3>1 DEF Given
      <4> QED  BY <1>1, <2>4, <3>1, <4>1, StreamsStay
    <3>2. CASE d # c
      <4>1. conn'[d] = conn[d] /\ (Listens(d)' => Listens(d) /\ Given(d)' = Given(d))
        <5>1. conn'[d] = conn[d] /\ conn[d].slot \in Slots
          BY <1>1, <2>4, <3>2 DEF ConnRecord
        <5> QED  BY <1>1, <2>3, <2>6, <3>2, <5>1 DEF Given
      <4>2. conn'[d] \in ConnRecord /\ conn'[d].unacked <= conn[d].unacked
        BY <1>1, <2>4, <4>1 DEF ConnRecord
      <4> QED  BY <1>1, <4>1, <4>2, StreamsStay
    <3> QED  BY <3>1, <3>2
  <2> QED  BY <2>5, <2>7, <2>8 DEF StreamInv, Streams
<1>3. CASE conn' = [conn EXCEPT ![c] = Gone(c)] /\ UNCHANGED client
  <2>1. /\ conn' \in [Conns -> ConnRecord] /\ conn'[c] = Gone(c)
        /\ conn'[c].slot = conn[c].slot /\ conn'[c].state = "gone"
        /\ \A d \in Conns : d # c => conn'[d] = conn[d]
    BY <1>1, <1>3, GoneRecord
  <2>2. StreamTypes' /\ SlotsHeld'
    BY <1>1, <1>3, <2>1 DEF StreamInv, StreamTypes, SlotsHeld, Listens
  <2>3. ~Listens(c)'
    <3>1. conn[c].slot \in Slots  BY <1>1 DEF ConnRecord
    <3> QED  BY <1>1, <1>3, <2>1, <3>1 DEF Listens
  <2>4. ASSUME NEW d \in Conns PROVE StreamOK(d)'
    <3>1. CASE d = c
      BY <1>1, <2>1, <2>3, <3>1, StreamsStay
    <3>2. CASE d # c
      <4>1. conn'[d] = conn[d] /\ conn'[d] \in ConnRecord /\ conn'[d].unacked <= conn[d].unacked
        BY <1>1, <2>1, <3>2 DEF ConnRecord
      <4>2. Listens(d)' = Listens(d) /\ Given(d)' = Given(d)
        BY <1>1, <1>3, <4>1 DEF Listens, Given
      <4> QED  BY <1>1, <4>1, <4>2, StreamsStay
    <3> QED  BY <3>1, <3>2
  <2> QED  BY <2>2, <2>4 DEF StreamInv, Streams
<1> QED
  BY <1>2, <1>3 DEF NewConnection
\* Every step that gives a client no bytes and takes no new one: slots may be given
\* up, and connections end that are in none.
LEMMA NothingSent ==
    ASSUME StreamInv, outLen' = outLen, NextMessage' = NextMessage,
           client' \in [Slots -> ClientRecord], conn' \in [Conns -> ConnRecord],
           pc'.i \in Slots, pc'.tpcb \in Conns \cup {NoConn},
           \A i \in Slots : /\ client'[i].pcb \in {client[i].pcb, NoConn}
                            /\ client'[i].written = client[i].written,
           \A c \in Conns :
               /\ conn'[c].slot = conn[c].slot
               /\ \/ /\ conn'[c].sent = conn[c].sent /\ conn'[c].unacked <= conn[c].unacked
                     /\ conn'[c].state = conn[c].state
                  \/ conn'[c] = Gone(c) /\ ~Listens(c)',
           pc'.at = "closing" =>
               \/ pc' = pc
               \/ \E i \in Slots : /\ pc'.tpcb = client[i].pcb
                                   /\ client'[i].pcb = NoConn
    PROVE  StreamInv'
<1> USE ConnsAssumption
<1>1. /\ client \in [Slots -> ClientRecord] /\ conn \in [Conns -> ConnRecord]
      /\ \A c \in Conns : conn[c].slot \in Slots
  BY DEF StreamInv, StreamTypes, ConnRecord
<1>2. \A c \in Conns : /\ \A i \in Slots : client'[i].pcb = c => client[i].pcb = c
                       /\ Listens(c)' => Listens(c) /\ Given(c)' = Given(c)
                       /\ conn'[c].state = "new" => conn[c].state = "new"
  <2> SUFFICES ASSUME NEW c \in Conns
               PROVE  /\ \A i \in Slots : client'[i].pcb = c => client[i].pcb = c
                      /\ Listens(c)' => Listens(c) /\ Given(c)' = Given(c)
                      /\ conn'[c].state = "new" => conn[c].state = "new"
    OBVIOUS
  <2>1. \A i \in Slots : client'[i].pcb = c => client[i].pcb = c
    OBVIOUS
  <2>2. Listens(c)' => Listens(c) /\ Given(c)' = Given(c)
    BY <1>1, <2>1 DEF Listens, Given
  <2>3. conn'[c].state = "new" => conn[c].state = "new"
    BY GoneRecord
  <2> QED  BY <2>1, <2>2, <2>3
<1>3. SlotsHeld'
  <2> SUFFICES ASSUME NEW c \in Conns
               PROVE  /\ \A i \in Slots : client'[i].pcb = c =>
                            conn'[c].state # "new" /\ conn'[c].slot = i
                      /\ pc'.at = "closing" /\ pc'.tpcb = c =>
                            conn'[c].state # "new" /\ ~Listens(c)'
    BY DEF SlotsHeld
  <2>1. ASSUME NEW i \in Slots, client'[i].pcb = c
        PROVE  conn'[c].state # "new" /\ conn'[c].slot = i
    BY <1>2, <2>1 DEF StreamInv, SlotsHeld
  <2>2. ASSUME pc'.at = "closing", pc'.tpcb = c
        PROVE  conn'[c].state # "new" /\ ~Listens(c)'
    <3>1. CASE pc' = pc
      BY <1>2, <2>2, <3>1 DEF StreamInv, SlotsHeld
    <3>2. CASE \E i \in Slots : pc'.tpcb = client[i].pcb /\ client'[i].pcb = NoConn
      <4>1. PICK i \in Slots : client[i].pcb = c /\ client'[i].pcb = NoConn
        BY <2>2, <3>2
      <4>2. conn[c].state # "new" /\ conn[c].slot = i
        BY <4>1 DEF StreamInv, SlotsHeld
      <4>3. ~Listens(c)'
        BY <4>1, <4>2 DEF Listens
      <4> QED  BY <1>2, <4>2, <4>3
    <3> QED  BY <2>2, <3>1, <3>2
  <2> QED  BY <2>1, <2>2
<1>4. ASSUME NEW c \in Conns PROVE StreamOK(c)'
  <2>1. conn'[c] \in ConnRecord  OBVIOUS
  <2>2. CASE conn'[c] = Gone(c) /\ ~Listens(c)'
    BY <2>1, <2>2, StreamsStay
  <2>3. CASE /\ conn'[c].sent = conn[c].sent /\ conn'[c].unacked <= conn[c].unacked
             /\ conn'[c].state = conn[c].state
    BY <1>2, <2>1, <2>3, StreamsStay
  <2> QED  BY <2>2, <2>3
<1> QED
  BY <1>3, <1>4 DEF StreamInv, StreamTypes, Streams

\* network_loop's steps that only look, and a message that is posted behind the others.
LEMMA LookingStreams ==
    ASSUME QueueInv, StreamInv, Enqueue \/ CheckTimeout \/ Decide \/ UNCHANGED vars
    PROVE  StreamInv'
<1>1. UNCHANGED <<client, conn, outLen, buffer>>
  BY DEF Enqueue, CheckTimeout, Decide, queueVars, sendVars, vars
<1>2. NextMessage' = NextMessage
  <2>1. ring.size \in Nat /\ posted \in Nat
    BY DEF QueueInv, RingOK, RingType
  <2>2. posted' - ring'.size = posted - ring.size
    <3>1. CASE Enqueue /\ HasRoom(ring)
      <4>1. /\ posted' = posted + 1
            /\ \E l \in Lengths : ring' = Pushed(ring, [seq |-> posted + 1, len |-> l])
        BY <3>1 DEF Enqueue
      <4>2. ring'.size = ring.size + 1
        BY <4>1 DEF Pushed
      <4> QED  BY <2>1, <4>1, <4>2
    <3>2. CASE ~(Enqueue /\ HasRoom(ring))
      <4>1. ring' = ring /\ posted' = posted
        BY <3>2 DEF Enqueue, CheckTimeout, Decide, queueVars, vars
      <4> QED  BY <4>1
    <3> QED  BY <3>1, <3>2
  <2> QED  BY <1>1, <2>2 DEF NextMessage
<1>3. /\ pc'.at = "closing" => pc' = pc
      /\ pc'.i \in Slots /\ pc'.tpcb \in Conns \cup {NoConn}
  <2>1. 0 \in Slots /\ pc.i \in Slots /\ pc.tpcb \in Conns \cup {NoConn}
    BY ClientsAssumption DEF Slots, StreamInv, StreamTypes
  <2> QED  BY <2>1 DEF Enqueue, CheckTimeout, Decide, AtSlot, Goto, vars
<1>4. /\ client' \in [Slots -> ClientRecord] /\ conn' \in [Conns -> ConnRecord]
      /\ \A c \in Conns : conn[c].unacked <= conn[c].unacked
  BY <1>1 DEF StreamInv, StreamTypes, ConnRecord
<1> QED
  BY <1>1, <1>2, <1>3, <1>4, NothingSent

\* The callbacks of a connection that is open, and the passing of time.
LEMMA AcknowledgedStreams ==
    ASSUME StreamInv, NEW c \in Conns, Acknowledged(c)
    PROVE  StreamInv'
<1> DEFINE i == conn[c].slot
<1>1. /\ UNCHANGED <<ring, posted, buffer, outLen, pc>>
      /\ client \in [Slots -> ClientRecord] /\ conn \in [Conns -> ConnRecord]
      /\ i \in Slots /\ conn[c].unacked \in Nat
      /\ pc.i \in Slots /\ pc.tpcb \in Conns \cup {NoConn}
  BY DEF Acknowledged, queueVars, sendVars, StreamInv, StreamTypes, ConnRecord
<1>2. PICK n \in 1 .. conn[c].unacked :
        /\ client' = [client EXCEPT ![i].acked = client[i].acked + n,
                                    ![i].timer = TimeoutAfter(client[i].acked + n)]
        /\ conn' = [conn EXCEPT ![c].unacked = @ - n]
  BY DEF Acknowledged
<1>3. n \in Nat /\ conn[c].unacked - n \in Nat /\ conn[c].unacked - n <= conn[c].unacked
  BY <1>1
<1>4. TimeoutAfter(client[i].acked + n) \in Timers /\ client[i].acked + n \in Nat
  BY <1>1, <1>3 DEF TimeoutAfter, Timers, ClientRecord
<1>5. /\ client' \in [Slots -> ClientRecord]
      /\ \A j \in Slots : /\ client'[j].pcb = client[j].pcb
                          /\ client'[j].written = client[j].written
  BY <1>1, <1>2, <1>4 DEF ClientRecord
<1> HIDE DEF i
<1>6. /\ conn' \in [Conns -> ConnRecord]
      /\ \A d \in Conns : /\ conn'[d].slot = conn[d].slot /\ conn'[d].sent = conn[d].sent
                          /\ conn'[d].state = conn[d].state
                          /\ conn'[d].unacked <= conn[d].unacked
  <2>1. /\ conn'[c] \in ConnRecord /\ conn'[c].slot = conn[c].slot
        /\ conn'[c].sent = conn[c].sent /\ conn'[c].state = conn[c].state
        /\ conn'[c].unacked = conn[c].unacked - n
    <3>1. conn[c] \in ConnRecord /\ conn'[c] = [conn[c] EXCEPT !.unacked = conn[c].unacked - n]
      BY <1>1, <1>2
    <3> QED  BY <1>3, <3>1 DEF ConnRecord
  <2>2. \A d \in Conns : d # c => conn'[d] = conn[d] /\ conn[d].unacked <= conn[d].unacked
    BY <1>1, <1>2 DEF ConnRecord
  <2>3. conn' \in [Conns -> ConnRecord]
    BY <1>1, <1>2, <2>1
  <2> QED  BY <1>3, <2>1, <2>2, <2>3
<1>7. NextMessage' = NextMessage
  BY <1>1 DEF NextMessage
<1> QED
  BY <1>1, <1>5, <1>6, <1>7, NothingSent

LEMMA DisconnectedStreams ==
    ASSUME StreamInv, NEW c \in Conns, Disconnected(c)
    PROVE  StreamInv'
<1>1. /\ UNCHANGED <<ring, posted, buffer, outLen, pc>>
      /\ client \in [Slots -> ClientRecord] /\ conn \in [Conns -> ConnRecord]
      /\ conn[c].slot \in Slots
      /\ pc.i \in Slots /\ pc.tpcb \in Conns \cup {NoConn}
      /\ client' = [client EXCEPT ![conn[c].slot].pcb = NoConn]
      /\ conn' = [conn EXCEPT ![c] = Gone(c)]
  BY DEF Disconnected, queueVars, sendVars, StreamInv, StreamTypes, ConnRecord
<1>2. /\ client' \in [Slots -> ClientRecord] /\ client'[conn[c].slot].pcb = NoConn
      /\ \A j \in Slots : /\ client'[j].pcb \in {client[j].pcb, NoConn}
                          /\ client'[j].written = client[j].written
  BY <1>1 DEF ClientRecord
<1>3. /\ conn' \in [Conns -> ConnRecord] /\ conn'[c] = Gone(c) /\ conn'[c].slot = conn[c].slot
      /\ \A d \in Conns : d # c => conn'[d] = conn[d] /\ conn[d].unacked <= conn[d].unacked
  BY <1>1, GoneRecord DEF ConnRecord
<1>4. ~Listens(c)'
  BY <1>2, <1>3, ConnsAssumption DEF Listens
<1>5. NextMessage' = NextMessage
  BY <1>1 DEF NextMessage
<1>6. \A d \in Conns :
        /\ conn'[d].slot = conn[d].slot
        /\ \/ /\ conn'[d].sent = conn[d].sent /\ conn'[d].unacked <= conn[d].unacked
              /\ conn'[d].state = conn[d].state
           \/ conn'[d] = Gone(d) /\ ~Listens(d)'
  BY <1>3, <1>4
<1> QED
  BY <1>1, <1>2, <1>3, <1>5, <1>6, NothingSent

LEMMA TimeoutReachedStreams ==
    ASSUME StreamInv, NEW i \in Slots, TimeoutReached(i)
    PROVE  StreamInv'
<1>1. /\ UNCHANGED <<ring, posted, buffer, outLen, pc, conn>>
      /\ pc.i \in Slots /\ pc.tpcb \in Conns \cup {NoConn}
      /\ client' = [client EXCEPT ![i].timer = "due"]
      /\ client \in [Slots -> ClientRecord] /\ conn \in [Conns -> ConnRecord]
  BY DEF TimeoutReached, queueVars, sendVars, StreamInv, StreamTypes
<1>2. /\ client' \in [Slots -> ClientRecord]
      /\ \A j \in Slots : /\ client'[j].pcb = client[j].pcb
                          /\ client'[j].written = client[j].written
  BY <1>1 DEF ClientRecord, Timers
<1>3. conn' \in [Conns -> ConnRecord] /\ \A c \in Conns : conn'[c].unacked <= conn[c].unacked
  BY <1>1 DEF ConnRecord
<1>4. NextMessage' = NextMessage
  BY <1>1 DEF NextMessage
<1> QED
  BY <1>1, <1>2, <1>3, <1>4, NothingSent

\* A client that is timed out: its slot is given up, then its connection is closed,
\* whatever came between.
LEMMA TimedOutStreams ==
    ASSUME StreamInv, Detach \/ CloseConnection
    PROVE  StreamInv'
<1> USE ConnsAssumption
<1>1. /\ UNCHANGED <<ring, posted, buffer, outLen>>
      /\ client \in [Slots -> ClientRecord] /\ conn \in [Conns -> ConnRecord]
      /\ NextMessage' = NextMessage /\ pc.i \in Slots /\ pc.tpcb \in Conns \cup {NoConn}
  BY DEF Detach, CloseConnection, queueVars, sendVars, StreamInv, StreamTypes, NextMessage
<1>4. pc'.i \in Slots /\ pc'.tpcb \in Conns \cup {NoConn}
  <2>1. 0 \in Slots /\ client[pc.i].pcb \in Conns \cup {NoConn}
    BY <1>1, ClientsAssumption DEF Slots, ClientRecord
  <2> QED  BY <1>1, <2>1 DEF Detach, CloseConnection, AtSlot, Goto
<1>2. CASE Detach
  <2>1. /\ client' = [client EXCEPT ![pc.i].pcb = NoConn] /\ conn' = conn
        /\ pc'.tpcb = client[pc.i].pcb
    BY <1>2 DEF Detach, AtSlot
  <2>2. /\ client' \in [Slots -> ClientRecord] /\ client'[pc.i].pcb = NoConn
        /\ \A j \in Slots : /\ client'[j].pcb \in {client[j].pcb, NoConn}
                            /\ client'[j].written = client[j].written
    BY <1>1, <2>1 DEF ClientRecord
  <2>3. conn' \in [Conns -> ConnRecord] /\ \A c \in Conns : conn'[c].unacked <= conn[c].unacked
    BY <1>1, <2>1 DEF ConnRecord
  <2> QED  BY <1>1, <2>1, <2>2, <2>3, <1>4, NothingSent
<1>3. CASE CloseConnection
  <2>1. pc.at = "closing" /\ client' = client /\ pc'.at # "closing"
    BY <1>3 DEF CloseConnection, AtSlot, Goto
  <2>2. CASE conn' = conn
    <3>1. conn' \in [Conns -> ConnRecord] /\ \A c \in Conns : conn'[c].unacked <= conn[c].unacked
      BY <1>1, <2>2 DEF ConnRecord
    <3> QED  BY <1>1, <2>1, <2>2, <3>1, <1>4, NothingSent
  <2>3. CASE pc.tpcb \in Conns /\ conn' = [conn EXCEPT ![pc.tpcb] = Gone(pc.tpcb)]
    <3>0. PICK t \in Conns : t = pc.tpcb
      BY <2>3
    <3>1. /\ conn' \in [Conns -> ConnRecord] /\ conn'[t] = Gone(t)
          /\ conn'[t].slot = conn[t].slot
          /\ \A d \in Conns : d # t => conn'[d] = conn[d] /\ conn[d].unacked <= conn[d].unacked
      BY <1>1, <2>3, <3>0, GoneRecord DEF ConnRecord
    <3>2. ~Listens(t)'
      <4>1. ~Listens(t)
        BY <2>1, <3>0 DEF StreamInv, SlotsHeld
      <4> QED  BY <2>1, <3>1, <4>1 DEF Listens
    <3>3. \A d \in Conns :
            /\ conn'[d].slot = conn[d].slot
            /\ \/ /\ conn'[d].sent = conn[d].sent /\ conn'[d].unacked <= conn[d].unacked
                  /\ conn'[d].state = conn[d].state
               \/ conn'[d] = Gone(d) /\ ~Listens(d)'
      BY <3>1, <3>2
    <3> QED  BY <1>1, <2>1, <3>1, <3>3, <1>4, NothingSent
  <2>4. pc.tpcb \in Conns \/ conn' = conn
    <3>1. pc.tpcb \in Conns \cup {NoConn}  BY DEF StreamInv, StreamTypes
    <3> QED  BY <1>3, <3>1 DEF CloseConnection
  <2> QED  BY <1>3, <2>2, <2>3, <2>4 DEF CloseConnection
<1> QED
  BY <1>2, <1>3
USE CapacityAssumption, LengthsAssumption, MessagesAssumption

\* The oldest message's number, and that it is a message.
LEMMA OldestMessage ==
    ASSUME QueueInv, ring.size > 0
    PROVE  /\ Peek(ring) \in Messages /\ Peek(ring).seq = posted - ring.size + 1
           /\ Peek(ring).len \in Nat \ {0}
           /\ ring.size \in Nat /\ posted \in Nat
<1>1. /\ RingType /\ ring.size \in 1 .. Capacity /\ posted \in Nat
      /\ 1 \in 1 .. Capacity /\ 1 \in 1 .. ring.size /\ ring.front \in Places
      /\ ring.data \in [Places -> Messages]
  <2>1. /\ RingType /\ ring.size \in 0 .. Capacity /\ posted \in 0 .. MaxMessages
        /\ ring.front \in Places /\ ring.data \in [Places -> Messages]
    BY DEF QueueInv, RingOK, RingType
  <2>2. \A s \in 0 .. Capacity : s > 0 => s \in 1 .. Capacity /\ 1 \in 1 .. Capacity /\ 1 \in 1 .. s
    OBVIOUS
  <2>3. \A m \in 0 .. MaxMessages : m \in Nat
    OBVIOUS
  <2> QED  BY <2>1, <2>2, <2>3, Zenon
<1>2. PlaceOf(ring, 1) = ring.front
  BY <1>1, PlacesOfTheRing
<1>3. Peek(ring).seq = posted - ring.size + 1 /\ Peek(ring).len \in Lengths
  BY <1>1, <1>2 DEF QueueInv, RingOK, RingIsFifo, WaitingAreMessages, Peek
<1>4. Peek(ring) \in Messages
  BY <1>1 DEF Peek
<1>5. Peek(ring).len \in Nat \ {0} /\ ring.size \in Nat
  <2>1. \A s \in 1 .. Capacity : s \in Nat
    OBVIOUS
  <2> QED  BY <1>1, <1>3, <2>1, Zenon
<1> QED
  BY <1>1, <1>3, <1>4, <1>5

\* A message is begun: every client that listens is given it from its first byte.
LEMMA BeginMessageStreams ==
    ASSUME QueueInv, StreamInv, BeginMessage
    PROVE  StreamInv'
<1>1. /\ UNCHANGED <<ring, posted, conn>> /\ outLen = Idle /\ ring.size > 0
      /\ buffer' = Peek(ring) /\ outLen' = Peek(ring).len
      /\ pc'.at = "check" /\ pc'.i = 0 /\ pc'.tpcb = NoConn /\ 0 \in Slots
      /\ client \in [Slots -> ClientRecord] /\ conn \in [Conns -> ConnRecord]
  BY ClientsAssumption DEF BeginMessage, queueVars, Goto, QueueInv, LoopOK, StreamInv,
                           StreamTypes, Slots
<1>2. NextMessage' = NextMessage /\ outLen' # Idle
  BY <1>1, OldestMessage DEF NextMessage, Idle
<1>3. /\ client' \in [Slots -> ClientRecord]
      /\ \A i \in Slots : /\ client'[i].pcb = client[i].pcb
                          /\ client[i].pcb # NoConn => client'[i].written = 0
  BY <1>1 DEF BeginMessage, Restart, ClientRecord
<1>4. StreamTypes'
  BY <1>1, <1>3 DEF StreamTypes
<1>5. SlotsHeld'
  BY <1>1, <1>3 DEF StreamInv, SlotsHeld
<1>6. ASSUME NEW c \in Conns PROVE StreamOK(c)'
  <2>1. /\ conn'[c] = conn[c] /\ conn[c] \in ConnRecord /\ conn[c].slot \in Slots
        /\ conn[c].unacked <= conn[c].unacked
    BY <1>1 DEF ConnRecord
  <2>2. Listens(c)' => Listens(c) /\ Given(c)' = Given(c)
    BY <1>1, <1>2, <1>3, <2>1, ConnsAssumption DEF Listens, Given
  <2> QED  BY <1>2, <2>1, <2>2, StreamsStay
<1> QED
  BY <1>4, <1>5, <1>6 DEF StreamInv, Streams

\* What ends with bytes of one message ends with bytes of messages before the next.
LEMMA MessageEnds ==
    ASSUME NEW h \in Seq(Nat \X Nat), NEW s \in Nat, NEW n \in Nat, EndsWith(h, s, n)
    PROVE  EndsWith(h, s + 1, 0)
<1>1. Len(h) \in Nat /\ n <= Len(h) /\ \A k \in 1 .. Len(h) : h[k] \in Nat \X Nat
  BY DEF EndsWith
<1>2. ASSUME 0 < Len(h) PROVE h[Len(h)][1] < s + 1
  <2>1. CASE n = 0
    <3>1. h[Len(h)][1] < s /\ h[Len(h)][1] \in Nat
      BY <1>1, <1>2, <2>1 DEF EndsWith
    <3> QED  BY <3>1
  <2>2. CASE n > 0
    <3>1. n \in 1 .. n /\ Len(h) - n + n = Len(h)
      BY <1>1, <2>2
    <3>2. h[Len(h)] = <<s, n>>
      BY <3>1 DEF EndsWith
    <3> QED  BY <3>2
  <2> QED  BY <2>1, <2>2
<1> QED
  BY <1>1, <1>2 DEF EndsWith

\* What try_send makes of the clients and their connections.
LEMMA TrySendRecords ==
    ASSUME QueueInv, StreamInv, NEW w \in Writes, TrySend(w)
    PROVE  /\ client' \in [Slots -> ClientRecord] /\ conn' \in [Conns -> ConnRecord]
           /\ \A i \in Slots :
                /\ w[i] = Lost => client'[i].pcb = NoConn /\ client'[i].written = client[i].written
                /\ w[i] # Lost => /\ w[i] \in Nat /\ client'[i].pcb = client[i].pcb
                                  /\ client'[i].written = client[i].written + w[i]
                /\ client'[i].acked = client[i].acked
           /\ \A c \in Conns :
                /\ conn'[c].slot = conn[c].slot
                /\ ~Listens(c) => conn'[c] = conn[c]
                /\ Listens(c) /\ w[conn[c].slot] = Lost => conn'[c] = Gone(c)
                /\ Listens(c) /\ w[conn[c].slot] # Lost =>
                     /\ conn'[c].state = conn[c].state
                     /\ conn'[c].unacked = conn[c].unacked + w[conn[c].slot]
                     /\ conn'[c].sent = conn[c].sent \o
                          Bytes(buffer, client[conn[c].slot].written, w[conn[c].slot])
<1>1. /\ client \in [Slots -> ClientRecord] /\ conn \in [Conns -> ConnRecord]
      /\ outLen # Idle /\ outLen \in Nat \ {0}
      /\ ring.size > 0 /\ buffer = Peek(ring)
  <2>1. outLen # Idle  BY DEF TrySend, QueueInv, LoopOK
  <2> QED  BY <2>1, LengthOrIdle DEF StreamInv, StreamTypes, QueueInv, SendsTheOldest
<1>2. buffer \in Messages
  BY <1>1, OldestMessage
<1>3. \A i \in Slots : w[i] \in Lost .. outLen /\ (w[i] # Lost => w[i] \in Nat)
  BY <1>1 DEF Writes, Lost
<1>4. ASSUME NEW i \in Slots
      PROVE  /\ client'[i] \in ClientRecord
             /\ w[i] = Lost => client'[i].pcb = NoConn /\ client'[i].written = client[i].written
             /\ w[i] # Lost => /\ w[i] \in Nat /\ client'[i].pcb = client[i].pcb
                               /\ client'[i].written = client[i].written + w[i]
             /\ client'[i].acked = client[i].acked
  <2>1. client'[i] = IF w[i] = Lost THEN [client[i] EXCEPT !.pcb = NoConn]
                     ELSE IF w[i] = 0 THEN client[i]
                     ELSE [client[i] EXCEPT !.written = client[i].written + w[i], !.timer = "armed"]
    BY DEF TrySend
  <2>2. client[i] \in ClientRecord /\ client[i].written \in Nat
    BY <1>1 DEF ClientRecord
  <2>3. CASE w[i] = Lost
    <3>1. client'[i] = [client[i] EXCEPT !.pcb = NoConn]  BY <2>1, <2>3
    <3> QED  BY <2>2, <2>3, <3>1 DEF ClientRecord
  <2>4. CASE w[i] # Lost /\ w[i] = 0
    <3>1. client'[i] = client[i]  BY <2>1, <2>4, Zenon
    <3> QED  BY <2>2, <2>4, <3>1
  <2>5. CASE w[i] # Lost /\ w[i] # 0
    <3>1. client'[i] = [client[i] EXCEPT !.written = client[i].written + w[i], !.timer = "armed"]
      BY <2>1, <2>5, Zenon
    <3>2. w[i] \in Nat  BY <1>3, <2>5
    <3> DEFINE r == client[i]
               n == w[i]
               q == client'[i]
    <3>3. r \in ClientRecord /\ n \in Nat  BY <2>2, <3>2
    <3>4. q = [r EXCEPT !.written = r.written + n, !.timer = "armed"]  BY ONLY <3>1
    <3> HIDE DEF r, n, q
    <3>5. q \in ClientRecord /\ q.pcb = r.pcb /\ q.written = r.written + n /\ q.acked = r.acked
      BY ONLY <3>3, <3>4, WrittenRecord
    <3> QED  BY <2>5, <3>2, <3>5 DEF r, n, q
  <2> QED  BY <2>3, <2>4, <2>5
<1>5. ASSUME NEW c \in Conns
      PROVE  /\ conn'[c] \in ConnRecord /\ conn'[c].slot = conn[c].slot
             /\ ~Listens(c) => conn'[c] = conn[c]
             /\ Listens(c) /\ w[conn[c].slot] = Lost => conn'[c] = Gone(c)
             /\ Listens(c) /\ w[conn[c].slot] # Lost =>
                  /\ conn'[c].state = conn[c].state
                  /\ conn'[c].unacked = conn[c].unacked + w[conn[c].slot]
                  /\ conn'[c].sent = conn[c].sent \o
                       Bytes(buffer, client[conn[c].slot].written, w[conn[c].slot])
  <2> DEFINE r == conn[c]
             i == conn[c].slot
             n == w[i]
             b == Bytes(buffer, client[i].written, n)
             q == conn'[c]
  <2>1. q = IF ~Listens(c) THEN r
            ELSE IF n = Lost THEN Gone(c)
            ELSE [r EXCEPT !.unacked = r.unacked + n, !.sent = r.sent \o b]
    BY DEF TrySend
  <2>2. r \in ConnRecord /\ i \in Slots /\ client[i].written \in Nat
    <3>1. i \in Slots  BY <1>1 DEF ConnRecord
    <3> QED  BY <1>1, <3>1 DEF ClientRecord
  <2>3. n # Lost => n \in Nat /\ b \in Seq(Nat \X Nat)
    <3> SUFFICES ASSUME n # Lost PROVE n \in Nat /\ b \in Seq(Nat \X Nat)
      OBVIOUS
    <3>1. n \in Nat  BY <1>3, <2>2
    <3>2. buffer.seq \in Nat  BY <1>2 DEF Messages
    <3> QED  BY <2>2, <3>1, <3>2 DEF Bytes
  <2>4. Gone(c) \in ConnRecord /\ Gone(c).slot = r.slot
    BY GoneRecord
  <2>5. i = r.slot  OBVIOUS
  <2> HIDE DEF r, i, n, b, q
  <2>6. CASE ~Listens(c)
    BY <2>1, <2>2, <2>6 DEF q, r
  <2>7. CASE Listens(c) /\ n = Lost
    BY <2>1, <2>4, <2>7 DEF q, r, n, i
  <2>8. CASE Listens(c) /\ n # Lost
    <3>1. q = [r EXCEPT !.unacked = r.unacked + n, !.sent = r.sent \o b]
      BY <2>1, <2>8
    <3>2. r.unacked + n \in Nat /\ r.sent \o b \in Seq(Nat \X Nat)
      BY <2>2, <2>3, <2>8 DEF ConnRecord
    <3> DEFINE u == r.unacked + n
               s == r.sent \o b
    <3>3. u \in Nat /\ s \in Seq(Nat \X Nat) /\ q = [r EXCEPT !.unacked = u, !.sent = s]
      BY <3>1, <3>2
    <3> HIDE DEF u, s
    <3>4. /\ q \in ConnRecord /\ q.slot = r.slot /\ q.state = r.state /\ q.unacked = u
          /\ q.sent = s
      BY ONLY <2>2, <3>3 DEF ConnRecord
    <3> QED  BY <2>8, <3>4 DEF q, r, n, i, b, u, s
  <2> QED  BY <2>6, <2>7, <2>8
<1>6. DOMAIN client' = Slots /\ DOMAIN conn' = Conns
      /\ client' = [i \in Slots |-> client'[i]] /\ conn' = [c \in Conns |-> conn'[c]]
  BY DEF TrySend
<1> QED
  BY <1>4, <1>5, <1>6
\* A pass over the clients: each is given the next bytes of the message, and if all
\* have acknowledged it the next message is to be given.
LEMMA TrySendStreams ==
    ASSUME QueueInv, StreamInv, NEW w \in Writes, TrySend(w)
    PROVE  StreamInv'
<1> USE ConnsAssumption
<1>1. /\ client \in [Slots -> ClientRecord] /\ conn \in [Conns -> ConnRecord]
      /\ outLen # Idle /\ pc'.at = "check" /\ pc'.i = 0 /\ pc'.tpcb = NoConn /\ 0 \in Slots
      /\ ring.size > 0 /\ buffer = Peek(ring) /\ buffer' = buffer
  <2>1. pc.at = "send" /\ pc' = [at |-> "check", i |-> 0, tpcb |-> NoConn] /\ buffer' = buffer
    BY DEF TrySend, Goto
  <2>2. outLen # Idle  BY <2>1 DEF QueueInv, LoopOK
  <2>3. ring.size > 0 /\ buffer = Peek(ring)  BY <2>2 DEF QueueInv, SendsTheOldest
  <2>4. 0 \in Slots  BY ClientsAssumption DEF Slots
  <2> QED  BY <2>1, <2>2, <2>3, <2>4 DEF StreamInv, StreamTypes
<1>2. /\ client' \in [Slots -> ClientRecord] /\ conn' \in [Conns -> ConnRecord]
      /\ \A i \in Slots :
           /\ w[i] = Lost => client'[i].pcb = NoConn
           /\ w[i] # Lost => /\ w[i] \in Nat /\ client'[i].pcb = client[i].pcb
                             /\ client'[i].written = client[i].written + w[i]
  BY TrySendRecords
<1>3. \A c \in Conns :
        /\ conn'[c].slot = conn[c].slot
        /\ ~Listens(c) => conn'[c] = conn[c]
        /\ Listens(c) /\ w[conn[c].slot] = Lost => conn'[c] = Gone(c)
        /\ Listens(c) /\ w[conn[c].slot] # Lost =>
             /\ conn'[c].state = conn[c].state
             /\ conn'[c].unacked = conn[c].unacked + w[conn[c].slot]
             /\ conn'[c].sent = conn[c].sent \o
                  Bytes(buffer, client[conn[c].slot].written, w[conn[c].slot])
  BY TrySendRecords
<1>4. \A c \in Conns : /\ \A i \in Slots : client'[i].pcb = c => client[i].pcb = c
                       /\ Listens(c)' => Listens(c) /\ w[conn[c].slot] # Lost
                       /\ conn[c].slot \in Slots
  <2>1. \A c \in Conns : conn[c].slot \in Slots
    BY <1>1 DEF ConnRecord
  <2>2. \A i \in Slots : client'[i].pcb \in {client[i].pcb, NoConn}
    BY <1>2
  <2> QED  BY <1>2, <1>3, <2>1, <2>2 DEF Listens
<1>5. StreamTypes'
  BY <1>1, <1>2 DEF StreamTypes
<1>6. SlotsHeld'
  <2> SUFFICES ASSUME NEW c \in Conns, NEW i \in Slots, client'[i].pcb = c
               PROVE  conn'[c].state # "new" /\ conn'[c].slot = i
    BY <1>1 DEF SlotsHeld
  <2>1. client[i].pcb = c /\ conn[c].state # "new" /\ conn[c].slot = i
    BY <1>4 DEF StreamInv, SlotsHeld
  <2>2. Gone(c).state = "gone"  BY GoneRecord
  <2>3. conn'[c].state \in {conn[c].state, "gone"} /\ conn'[c].slot = conn[c].slot
    BY <1>3, <2>2
  <2> QED  BY <2>1, <2>3
<1>7. NextMessage = buffer.seq /\ buffer \in Messages /\ buffer.seq \in Nat
      /\ NextMessage' = IF outLen' = Idle THEN buffer.seq + 1 ELSE buffer.seq
  <2>1. /\ buffer \in Messages /\ buffer.seq = posted - ring.size + 1
        /\ ring.size \in Nat /\ posted \in Nat
    BY <1>1, OldestMessage
  <2>2. NextMessage = buffer.seq /\ buffer.seq \in Nat
    BY <1>1, <2>1 DEF NextMessage, Messages
  <2>3. outLen' = Idle => posted' = posted /\ ring'.size = ring.size - 1
    <3> SUFFICES ASSUME outLen' = Idle PROVE posted' = posted /\ ring'.size = ring.size - 1
      OBVIOUS
    <3>1. posted' = posted /\ ring' = Popped(ring)
      BY <1>1 DEF TrySend, EndMessage
    <3>2. DOMAIN ring = {"data", "front", "back", "size"}
      BY DEF QueueInv, RingOK, RingType
    <3> QED  BY <3>1, <3>2 DEF Popped
  <2>4. NextMessage' = IF outLen' = Idle THEN buffer.seq + 1 ELSE buffer.seq
    BY <1>1, <2>1, <2>3 DEF NextMessage
  <2> QED  BY <2>1, <2>2, <2>4
<1>8. ASSUME NEW c \in Conns PROVE StreamOK(c)'
  <2> DEFINE i == conn[c].slot
             h == conn[c].sent
             n == client[i].written
             g == h \o Bytes(buffer, n, w[i])
  <2>1. StreamOK(c) /\ conn[c] \in ConnRecord /\ i \in Slots /\ h \in Seq(Nat \X Nat)
        /\ Len(h) \in Nat /\ conn[c].unacked \in Nat /\ n \in Nat
    <3>1. conn[c] \in ConnRecord /\ i \in Slots /\ h \in Seq(Nat \X Nat) /\ conn[c].unacked \in Nat
      BY <1>1, <1>4 DEF ConnRecord
    <3>2. n \in Nat
      BY <1>1, <3>1 DEF ClientRecord
    <3> QED  BY <3>1, <3>2 DEF StreamInv, Streams
  <2>2. CASE ~Listens(c)
    <3>1. conn'[c] = conn[c] /\ ~Listens(c)'
      BY <1>3, <1>4, <2>2
    <3> QED  BY <2>1, <3>1 DEF StreamOK
  <2>3. CASE Listens(c) /\ w[i] = Lost
    <3>1. conn'[c] = Gone(c) /\ ~Listens(c)'
      BY <1>3, <1>4, <2>3
    <3>2. /\ Gone(c) \in ConnRecord /\ Gone(c).state = "gone" /\ Gone(c).unacked = 0
          /\ InOrder(Gone(c).sent)
      BY GoneRecord
    <3>3. Gone(c).unacked <= Len(Gone(c).sent)
      <4>1. Gone(c).sent \in Seq(Nat \X Nat)  BY <3>2 DEF ConnRecord
      <4>2. Len(Gone(c).sent) \in Nat  BY <4>1
      <4> QED  BY <3>2, <4>2
    <3> QED  BY <3>1, <3>2, <3>3 DEF StreamOK
  <2>4. CASE Listens(c) /\ w[i] # Lost
    <3>1. /\ conn'[c].sent = g /\ conn'[c].unacked = conn[c].unacked + w[i]
          /\ conn'[c].slot = i /\ conn'[c].state = conn[c].state
          /\ w[i] \in Nat /\ client'[i].written = n + w[i]
      BY <1>2, <1>3, <2>1, <2>4
    <3>2. conn[c].state # "new"
      BY <2>1, <2>4 DEF Listens, StreamInv, SlotsHeld
    <3>3. InOrder(h) /\ EndsWith(h, buffer.seq, n) /\ conn[c].unacked <= Len(h)
      BY <1>1, <1>7, <2>1, <2>4 DEF StreamOK, Given
    <3>4. /\ g \in Seq(Nat \X Nat) /\ Len(g) = Len(h) + w[i]
          /\ InOrder(g) /\ EndsWith(g, buffer.seq, n + w[i])
      BY <1>7, <2>1, <3>1, <3>3, BytesGoOn
    <3>5. EndsWith(g, buffer.seq + 1, 0)
      <4>1. n + w[i] \in Nat  BY <2>1, <3>1
      <4> HIDE DEF g
      <4> QED  BY <1>7, <3>4, <4>1, MessageEnds
    <3>6. EndsWith(conn'[c].sent, NextMessage', Given(c)')
      <4>1. CASE outLen' = Idle
        <5>1. NextMessage' = buffer.seq + 1 /\ Given(c)' = 0  BY <1>7, <4>1 DEF Given
        <5> QED  BY <3>1, <3>5, <5>1
      <4>2. CASE outLen' # Idle
        <5>1. NextMessage' = buffer.seq /\ Given(c)' = client'[conn'[c].slot].written
          BY <1>7, <4>2 DEF Given
        <5>2. Given(c)' = n + w[i]  BY <3>1, <5>1
        <5> HIDE DEF g, n
        <5> QED  BY <3>1, <3>4, <5>1, <5>2
      <4> QED  BY <4>1, <4>2
    <3>7. conn'[c].unacked <= Len(conn'[c].sent)
      BY <2>1, <3>1, <3>3, <3>4
    <3> QED  BY <3>1, <3>2, <3>4, <3>6, <3>7 DEF StreamOK
  <2> QED  BY <2>2, <2>3, <2>4
<1> QED
  BY <1>5, <1>6, <1>8 DEF StreamInv, Streams

-----------------------------------------------------------------------------
LEMMA StreamStep ==
    ASSUME QueueInv, StreamInv, [Next]_vars
    PROVE  StreamInv'
<1>1. CASE Enqueue \/ CheckTimeout \/ Decide \/ UNCHANGED vars
  BY <1>1, LookingStreams
<1>2. CASE Detach \/ CloseConnection
  BY <1>2, TimedOutStreams
<1>3. CASE BeginMessage
  BY <1>3, BeginMessageStreams
<1>4. CASE \E w \in Writes : TrySend(w)
  BY <1>4, TrySendStreams
<1>5. CASE \E c \in Conns : Callback(c)
  BY <1>5, NewConnectionStreams, AcknowledgedStreams, DisconnectedStreams DEF Callback
<1>6. CASE \E i \in Slots : TimeoutReached(i)
  BY <1>6, TimeoutReachedStreams
<1> QED
  BY <1>1, <1>2, <1>3, <1>4, <1>5, <1>6 DEF Next, NetworkLoop

\* What is sent follows the queue, callbacks or not.
THEOREM StreamInvariance == Spec => [](QueueInv /\ StreamInv)
<1>1. Init => QueueInv /\ StreamInv
  BY InitHolds, StreamsInit
<1>2. QueueInv /\ StreamInv /\ [Next]_vars => (QueueInv /\ StreamInv)'
  BY NextHolds, StreamStep
<1> QED
  BY <1>1, <1>2, PTL DEF Spec

\* try_send gives no client a byte of out_message_buffer twice, leaves none out and
\* begins each message at its first byte, whichever callbacks come between the steps
\* of network_loop, and also when one comes while a client is being timed out.
THEOREM AlwaysSentInOrder == Spec => []SentInOrder
<1>1. QueueInv /\ StreamInv => SentInOrder
  BY DEF StreamInv, Streams, StreamOK, InOrder, SentInOrder
<1> QED
  BY StreamInvariance, <1>1, PTL
-----------------------------------------------------------------------------
\* Append and Tail, element by element.
LEMMA AppendIs ==
    ASSUME NEW S, NEW q \in Seq(S), NEW e \in S, NEW n, n = Len(q)
    PROVE  Append(q, e) = [k \in 1 .. n + 1 |-> IF k <= n THEN q[k] ELSE e]
<1>1. n \in Nat  OBVIOUS
<1>2. /\ Append(q, e) \in Seq(S) /\ Len(Append(q, e)) = n + 1
      /\ \A k \in 1 .. n : Append(q, e)[k] = q[k]
      /\ Append(q, e)[n + 1] = e
  BY AppendProperties
<1>3. Append(q, e) \in [1 .. n + 1 -> S]
  BY <1>2, LenProperties
<1>4. ASSUME NEW k \in 1 .. n + 1
      PROVE  Append(q, e)[k] = IF k <= n THEN q[k] ELSE e
  <2>1. k \in 1 .. n \/ (k = n + 1 /\ ~(k <= n))  BY <1>1
  <2> QED  BY <1>1, <1>2, <2>1
<1> QED
  BY <1>3, <1>4

LEMMA TailIs ==
    ASSUME NEW S, NEW q \in Seq(S), q # << >>, NEW n, n = Len(q)
    PROVE  Tail(q) = [k \in 1 .. n - 1 |-> q[k + 1]]
<1>1. /\ Tail(q) \in Seq(S) /\ Len(Tail(q)) = n - 1
      /\ \A k \in 1 .. n - 1 : Tail(q)[k] = q[k + 1]
  BY HeadTailProperties
<1>2. Tail(q) \in [1 .. n - 1 -> S]
  BY <1>1, LenProperties
<1> QED
  BY <1>1, <1>2

\* Broadcast implements Feed.  The ring's contents are a queue: a push appends to
\* it, a pop takes its head away.
LEMMA ContentsOfTheRing ==
    ASSUME RingOK
    PROVE  /\ Contents(ring) \in Seq(Messages) /\ Len(Contents(ring)) = ring.size
           /\ \A k \in 1 .. ring.size : Contents(ring)[k] = ring.data[PlaceOf(ring, k)]
           /\ ring.size > 0 => Contents(ring) # << >> /\ Head(Contents(ring)) = Peek(ring)
<1>1. /\ RingType /\ ring.size \in 0 .. Capacity /\ ring.size \in Nat
      /\ ring.data \in [Places -> Messages]
  BY DEF RingOK, RingType
<1>2. \A k \in 1 .. ring.size : PlaceOf(ring, k) \in Places
  <2> TAKE k \in 1 .. ring.size
  <2>1. k \in 1 .. Capacity  BY <1>1
  <2> QED  BY <1>1, <2>1, PlacesOfTheRing
<1>3. Contents(ring) = [k \in 1 .. ring.size |-> ring.data[PlaceOf(ring, k)]]
  BY DEF Contents
<1>4. \A k \in 1 .. ring.size : ring.data[PlaceOf(ring, k)] \in Messages
  BY <1>1, <1>2
<1>5. Contents(ring) \in Seq(Messages) /\ Len(Contents(ring)) = ring.size
  BY <1>1, <1>3, <1>4
<1>6. ASSUME ring.size > 0 PROVE Contents(ring) # << >> /\ Head(Contents(ring)) = Peek(ring)
  <2>1. 1 \in 1 .. ring.size /\ 1 \in 1 .. Capacity
    BY <1>1, <1>6
  <2>2. Contents(ring)[1] = Peek(ring)
    BY <1>1, <1>3, <2>1, PlacesOfTheRing DEF Peek
  <2> QED  BY <1>5, <1>6, <2>2
<1> QED
  BY <1>3, <1>5, <1>6

LEMMA PushAppends ==
    ASSUME RingOK, HasRoom(ring), posted < MaxMessages, NEW l \in Lengths,
           ring' = Pushed(ring, [seq |-> posted + 1, len |-> l]),
           posted' = posted + 1
    PROVE  Contents(ring)' = Append(Contents(ring), [seq |-> posted + 1, len |-> l])
<1> DEFINE m == [seq |-> posted + 1, len |-> l]
<1>1. /\ RingType /\ ring.size \in 0 .. Capacity - 1 /\ ring.size \in Nat
      /\ ring.front \in Places /\ ring.back \in Places /\ ring.data \in [Places -> Messages]
  BY DEF RingOK, RingType, HasRoom
<1>2. ring.back = PlaceOf(ring, ring.size + 1)
  BY <1>1 DEF RingOK, RingIsFifo
<1>3. m \in Messages
  <2>1. posted + 1 \in 0 .. MaxMessages  BY DEF RingOK, RingType
  <2> QED  BY <2>1 DEF Messages
<1>4. /\ ring'.data = [ring.data EXCEPT ![ring.back] = m]
      /\ ring'.front = ring.front /\ ring'.size = ring.size + 1
  BY DEF Pushed
<1> HIDE DEF m
<1>5. \A k \in 1 .. Capacity : PlaceOf(ring', k) = PlaceOf(ring, k)
  BY <1>4 DEF PlaceOf
<1>6. ASSUME NEW k \in 1 .. ring.size
      PROVE  ring'.data[PlaceOf(ring', k)] = Contents(ring)[k]
  <2>1. k \in 1 .. Capacity /\ ring.size + 1 \in 1 .. Capacity /\ k # ring.size + 1
    BY <1>1
  <2>2. PlaceOf(ring, k) \in Places /\ PlaceOf(ring, k) # ring.back
    BY <1>1, <1>2, <2>1, PlacesOfTheRing
  <2> QED  BY <1>1, <1>4, <1>5, <2>1, <2>2, ContentsOfTheRing
<1>7. ring'.data[PlaceOf(ring', ring.size + 1)] = m
  <2>1. ring.size + 1 \in 1 .. Capacity  BY <1>1
  <2> QED  BY <1>1, <1>2, <1>4, <1>5, <2>1
<1>8. Contents(ring)' = [k \in 1 .. ring.size + 1 |-> ring'.data[PlaceOf(ring', k)]]
  BY <1>4 DEF Contents
<1>9. /\ Append(Contents(ring), m) =
           [k \in 1 .. ring.size + 1 |-> IF k <= ring.size THEN Contents(ring)[k] ELSE m]
  <2>1. Contents(ring) \in Seq(Messages) /\ Len(Contents(ring)) = ring.size
    BY ContentsOfTheRing
  <2> QED  BY <1>3, <2>1, AppendIs
<1>10. \A k \in 1 .. ring.size + 1 : ring'.data[PlaceOf(ring', k)] =
         IF k <= ring.size THEN Contents(ring)[k] ELSE m
  <2> TAKE k \in 1 .. ring.size + 1
  <2>1. k \in 1 .. ring.size \/ k = ring.size + 1  BY <1>1
  <2>2. k <= ring.size <=> k \in 1 .. ring.size  BY <1>1
  <2>3. ~(ring.size + 1 <= ring.size)  BY <1>1
  <2> QED  BY <1>6, <1>7, <2>1, <2>2, <2>3
<1> QED
  BY <1>8, <1>9, <1>10 DEF m

LEMMA PopTakesTheHead ==
    ASSUME RingOK, ring.size > 0, ring' = Popped(ring)
    PROVE  Contents(ring)' = Tail(Contents(ring))
<1>1. /\ RingType /\ ring.size \in 1 .. Capacity /\ ring.size \in Nat /\ ring.front \in Places
  BY DEF RingOK, RingType
<1>2. IncIndex(ring.front) = IF ring.front = Capacity - 1 THEN 0 ELSE ring.front + 1
  BY <1>1, IncIndexGoesRound
<1>3. /\ ring'.data = ring.data /\ ring'.front = IncIndex(ring.front)
      /\ ring'.size = ring.size - 1
  BY <1>1 DEF Popped, RingType
<1>4. \A k \in 1 .. ring.size - 1 : PlaceOf(ring', k) = PlaceOf(ring, k + 1)
  BY <1>1, <1>2, <1>3 DEF PlaceOf, Places
<1>5. Contents(ring)' = [k \in 1 .. ring.size - 1 |-> ring.data[PlaceOf(ring, k + 1)]]
  <2>1. Contents(ring)' = [k \in 1 .. ring.size - 1 |-> ring.data[PlaceOf(ring', k)]]
    BY <1>3 DEF Contents
  <2> QED  BY <1>4, <2>1
<1>6. Tail(Contents(ring)) = [k \in 1 .. ring.size - 1 |-> Contents(ring)[k + 1]]
  <2>1. /\ Contents(ring) \in Seq(Messages) /\ Len(Contents(ring)) = ring.size
        /\ Contents(ring) # << >>
    BY ContentsOfTheRing
  <2> QED  BY <2>1, TailIs
<1>7. \A k \in 1 .. ring.size - 1 : Contents(ring)[k + 1] = ring.data[PlaceOf(ring, k + 1)]
  <2> TAKE k \in 1 .. ring.size - 1
  <2>1. k + 1 \in 1 .. ring.size  BY <1>1
  <2> QED  BY <2>1, ContentsOfTheRing
<1> QED
  BY <1>5, <1>6, <1>7
-----------------------------------------------------------------------------
\* What a client has heard is what it was sent but the bytes not acknowledged.  A
\* connection that ends, and one that is given more bytes, has heard what it had.
LEMMA GoneHeard ==
    ASSUME StreamInv, NEW c \in Conns, conn'[c] = Gone(c)
    PROVE  Acked(c)' = Acked(c)
<1>1. Gone(c) \in ConnRecord /\ Gone(c).unacked = 0 /\ Gone(c).sent = Acked(c)
  BY GoneRecord
<1>2. Acked(c) \in Seq(Nat \X Nat) /\ Len(Acked(c)) \in Nat
  <2>1. Acked(c) \in Seq(Nat \X Nat)  BY <1>1 DEF ConnRecord
  <2> QED  BY <2>1
<1>3. Acked(c)' = SubSeq(Acked(c), 1, Len(Acked(c)) - 0)
  BY <1>1 DEF Acked
<1>4. SubSeq(Acked(c), 1, Len(Acked(c))) = Acked(c)
  BY <1>2, SubSeqFull
<1> QED
  BY <1>2, <1>3, <1>4

LEMMA GivenButNotHeard ==
    ASSUME NEW S, NEW h \in Seq(S), NEW b \in Seq(S), NEW u \in 0 .. Len(h)
    PROVE  SubSeq(h \o b, 1, Len(h \o b) - (u + Len(b))) = SubSeq(h, 1, Len(h) - u)
<1> DEFINE g == h \o b
           n == Len(h) - u
<1>1. Len(h) \in Nat /\ Len(b) \in Nat /\ n \in 0 .. Len(h) /\ n \in Int
  <2>1. Len(h) \in Nat /\ Len(b) \in Nat  OBVIOUS
  <2> QED  BY <2>1
<1>2. g \in Seq(S) /\ Len(g) = Len(h) + Len(b)
      /\ \A k \in 1 .. Len(h) + Len(b) : g[k] = IF k <= Len(h) THEN h[k] ELSE b[k - Len(h)]
  BY ConcatProperties
<1>3. Len(g) - (u + Len(b)) = n
  BY <1>1, <1>2
<1>4. \A k \in 1 .. n : h[k] \in S /\ g[k] = h[k]
  <2> TAKE k \in 1 .. n
  <2>1. k \in 1 .. Len(h) /\ k \in 1 .. Len(h) + Len(b) /\ k <= Len(h)  BY <1>1
  <2> QED  BY <1>2, <2>1, ElementOfSeq
<1> HIDE DEF g, n
<1>5. /\ SubSeq(h, 1, n) \in Seq(S) /\ Len(SubSeq(h, 1, n)) = n
      /\ SubSeq(g, 1, n) \in Seq(S) /\ Len(SubSeq(g, 1, n)) = n
      /\ \A k \in 1 .. n : SubSeq(h, 1, n)[k] = h[k] /\ SubSeq(g, 1, n)[k] = g[k]
  <2>1. 1 \in Int /\ (IF 1 <= n THEN n - 1 + 1 ELSE 0) = n /\ n - 1 + 1 = n
        /\ \A k \in 1 .. n : 1 + k - 1 = k
    BY <1>1
  <2>2. \A k \in 1 .. n : h[k] \in S /\ g[k] \in S
    BY <1>4
  <2> QED  BY <1>1, <2>1, <2>2, SubSeqProperties
<1>6. SubSeq(g, 1, n) = SubSeq(h, 1, n)
  <2>1. \A k \in 1 .. Len(SubSeq(g, 1, n)) : SubSeq(g, 1, n)[k] = SubSeq(h, 1, n)[k]
    BY <1>4, <1>5
  <2> QED  BY <1>5, <2>1, SeqEqual
<1> QED
  BY <1>3, <1>6 DEF g, n

\* What an acknowledgement adds is the next bytes of the message.
LEMMA HeardIsNext ==
    ASSUME NEW h \in Seq(Nat \X Nat), NEW m \in Messages, NEW a \in Nat, NEW u \in Nat,
           EndsWith(h, m.seq, a + u), NEW n \in 1 .. u
    PROVE  SubSeq(h, 1, Len(h) - (u - n)) = SubSeq(h, 1, Len(h) - u) \o Bytes(m, a, n)
<1> DEFINE l == Len(h)
           p == SubSeq(h, 1, l - u)
           b == Bytes(m, a, n)
           q == SubSeq(h, 1, l - u + n)
<1>1. l \in Nat /\ a + u <= l /\ n \in Nat /\ n <= u /\ m.seq \in Nat
  BY DEF EndsWith, Messages
<1>2. b \in Seq(Nat \X Nat) /\ Len(b) = n /\ \A k \in 1 .. n : b[k] = <<m.seq, a + k>>
  BY <1>1 DEF Bytes
<1>3. /\ p \in Seq(Nat \X Nat) /\ Len(p) = l - u
      /\ \A k \in 1 .. l - u : p[k] = h[k]
  <2>1. l - u \in Int /\ l - u >= 0 /\ \A k \in 1 .. l - u : k \in 1 .. Len(h) /\ 1 + k - 1 = k
    BY <1>1
  <2>2. \A k \in 1 .. l - u : h[k] \in Nat \X Nat
    BY <2>1, ElementOfSeq
  <2>3. (IF 1 <= l - u THEN l - u - 1 + 1 ELSE 0) = l - u /\ l - u - 1 + 1 = l - u
    BY <2>1
  <2> HIDE DEF l
  <2> QED  BY <2>1, <2>2, <2>3, SubSeqProperties
<1>4. /\ q \in Seq(Nat \X Nat) /\ Len(q) = l - u + n
      /\ \A k \in 1 .. l - u + n : q[k] = h[k]
  <2>1. l - u + n \in Int /\ l - u + n >= 0
        /\ \A k \in 1 .. l - u + n : k \in 1 .. Len(h) /\ 1 + k - 1 = k
    BY <1>1
  <2>2. \A k \in 1 .. l - u + n : h[k] \in Nat \X Nat
    BY <2>1, ElementOfSeq
  <2>3. (IF 1 <= l - u + n THEN l - u + n - 1 + 1 ELSE 0) = l - u + n
        /\ l - u + n - 1 + 1 = l - u + n
    BY <1>1, <2>1
  <2> HIDE DEF l
  <2> QED  BY <2>1, <2>2, <2>3, SubSeqProperties
<1>5. \A k \in 1 .. n : h[l - u + k] = <<m.seq, a + k>>
  <2> TAKE k \in 1 .. n
  <2>1. a + k \in 1 .. a + u /\ l - (a + u) + (a + k) = l - u + k
    BY <1>1
  <2> QED  BY <2>1 DEF EndsWith
<1> HIDE DEF l, p, q, b
<1>6. /\ p \o b \in Seq(Nat \X Nat) /\ Len(p \o b) = l - u + n
      /\ \A k \in 1 .. l - u + n : (p \o b)[k] = IF k <= l - u THEN p[k] ELSE b[k - (l - u)]
  <2>1. /\ p \o b \in Seq(Nat \X Nat) /\ Len(p \o b) = Len(p) + Len(b)
        /\ \A k \in 1 .. Len(p) + Len(b) :
              (p \o b)[k] = IF k <= Len(p) THEN p[k] ELSE b[k - Len(p)]
    BY <1>2, <1>3, ConcatProperties
  <2> QED  BY <1>2, <1>3, <2>1
<1>7. ASSUME NEW k \in 1 .. l - u + n PROVE q[k] = (p \o b)[k]
  <2>1. CASE k <= l - u
    <3>1. k \in 1 .. l - u  BY <1>1, <2>1
    <3> QED  BY <1>3, <1>4, <1>6, <2>1, <3>1
  <2>2. CASE k > l - u
    <3>1. k - (l - u) \in 1 .. n /\ l - u + (k - (l - u)) = k /\ ~(k <= l - u)
      BY <1>1, <2>2
    <3>2. h[k] = <<m.seq, a + (k - (l - u))>>
      BY <1>5, <3>1
    <3> QED  BY <1>2, <1>4, <1>6, <3>1, <3>2
  <2>3. k <= l - u \/ k > l - u  BY <1>1
  <2> QED  BY <2>1, <2>2, <2>3
<1>8. q = p \o b
  <2>1. Len(q) = Len(p \o b) /\ \A k \in 1 .. Len(q) : q[k] = (p \o b)[k]
    BY <1>4, <1>6, <1>7
  <2> QED  BY <1>4, <1>6, <2>1, SeqEqual
<1>9. l - (u - n) = l - u + n
  BY <1>1
<1> QED
  BY <1>8, <1>9 DEF l, q, p, b
-----------------------------------------------------------------------------
\* The refinement, step by step.
SendInv == QueueInv /\ ClientsInv /\ StreamInv

\* A connection that listens, its slot and the message that is being sent.
LEMMA Listener ==
    ASSUME SendInv, NEW c \in Conns, Listens(c), NEW i, i = conn[c].slot
    PROVE  /\ i \in Slots /\ client[i] \in ClientRecord /\ client[i].pcb = c
           /\ \A j \in Slots : client[j].pcb = c => j = i
           /\ conn[c] \in ConnRecord /\ conn[c].state = "open"
           /\ client[i].written \in Nat /\ client[i].acked \in Nat /\ conn[c].unacked \in Nat
           /\ conn[c].unacked = client[i].written - client[i].acked
           /\ outLen = Idle => conn[c].unacked = 0
           /\ outLen # Idle =>
                 /\ client[i].written <= outLen /\ PlaceIn(c) = client[i].acked
                 /\ EndsWith(conn[c].sent, buffer.seq, client[i].written)
<1> USE ConnsAssumption
<1>1. conn[c] \in ConnRecord /\ i \in Slots /\ client[i] \in ClientRecord /\ client[i].pcb = c
  <2>1. conn[c] \in ConnRecord /\ client \in [Slots -> ClientRecord]
    BY DEF SendInv, StreamInv, StreamTypes
  <2>2. i \in Slots  BY <2>1 DEF ConnRecord
  <2> QED  BY <2>1, <2>2 DEF Listens
<1>2. client[i].written \in Nat /\ client[i].acked \in Nat /\ conn[c].unacked \in Nat
  BY <1>1 DEF ConnRecord, ClientRecord
<1>3. /\ conn[c].state = "open"
      /\ conn[c].unacked = client[i].written - client[i].acked
      /\ outLen # Idle => client[i].written <= outLen
      /\ outLen = Idle => conn[c].unacked = 0
  BY <1>1 DEF SendInv, ClientsInv, SlotsAgree, Open
<1>4. \A j \in Slots : client[j].pcb = c => j = i
  BY DEF SendInv, StreamInv, SlotsHeld
<1>5. outLen # Idle => /\ PlaceIn(c) = client[i].acked
                       /\ EndsWith(conn[c].sent, buffer.seq, client[i].written)
  BY DEF SendInv, StreamInv, Streams, StreamOK, NextMessage, Given, PlaceIn
<1> QED
  BY <1>1, <1>2, <1>3, <1>4, <1>5

\* What is being sent is the head of the queue.
LEMMA SendsTheHead ==
    ASSUME SendInv, outLen # Idle
    PROVE  /\ Contents(ring) # << >> /\ Head(Contents(ring)) = buffer /\ buffer.len = outLen
           /\ buffer \in Messages /\ ring.size > 0 /\ outLen \in Nat \ {0}
<1>1. RingOK /\ ring.size > 0 /\ buffer = Peek(ring) /\ outLen = buffer.len
  BY DEF SendInv, QueueInv, SendsTheOldest
<1> QED
  BY <1>1, ContentsOfTheRing, OldestMessage, LengthOrIdle DEF SendInv

LEMMA FeedInit == Init => F!Init
<1> SUFFICES ASSUME Init PROVE F!Init
  OBVIOUS
<1>1. /\ posted = 0 /\ ring.size = 0
      /\ \A c \in Conns : ~Listens(c) /\ conn[c].sent = << >> /\ conn[c].unacked = 0
  BY ConnsAssumption, ClientsAssumption DEF Init, EmptyRing, Listens, Slots
<1>2. Contents(ring) = << >>
  BY <1>1 DEF Contents
<1>3. {c \in Conns : Listens(c)} = {}
  BY <1>1
<1>4. \A c \in Conns : PlaceIn(c) = 0 /\ Acked(c) = << >>
  BY <1>1 DEF PlaceIn, Acked
<1> QED
  BY <1>1, <1>2, <1>3, <1>4 DEF F!Init

\* A step in which clients are lost, or none is, and the others hear nothing.
LEMMA LeaveOrStay ==
    ASSUME posted' = posted, ring' = ring,
           \A c \in Conns : /\ Listens(c)' => Listens(c) /\ PlaceIn(c)' = PlaceIn(c)
                            /\ Acked(c)' = Acked(c)
    PROVE  F!Leave
<1> DEFINE stay == {c \in Conns : Listens(c)'}
<1>1. stay \subseteq {c \in Conns : Listens(c)}
  OBVIOUS
<1>2. {c \in Conns : Listens(c)}' = stay
  OBVIOUS
<1>3. [c \in Conns |-> PlaceIn(c)]' =
        [c \in Conns |-> IF c \in stay THEN [d \in Conns |-> PlaceIn(d)][c] ELSE 0]
  <2>1. \A c \in Conns : ~Listens(c)' => PlaceIn(c)' = 0
    BY DEF PlaceIn
  <2> QED  BY <2>1
<1>4. [c \in Conns |-> Acked(c)]' = [c \in Conns |-> Acked(c)]
  OBVIOUS
<1>5. Contents(ring)' = Contents(ring)
  BY DEF Contents, PlaceOf
<1> HIDE DEF stay
<1> QED
  BY <1>1, <1>2, <1>3, <1>4, <1>5 DEF F!Leave

LEMMA EnqueuePosts ==
    ASSUME SendInv, Enqueue
    PROVE  F!Next
<1>1. /\ UNCHANGED <<client, conn, outLen>> /\ posted < MaxMessages /\ RingOK
  BY DEF Enqueue, sendVars, SendInv, QueueInv
<1>2. CASE HasRoom(ring)
  <2>1. PICK l \in Lengths : ring' = Pushed(ring, [seq |-> posted + 1, len |-> l])
    BY <1>2 DEF Enqueue
  <2>2. posted' = posted + 1
    BY <1>2 DEF Enqueue
  <2>3. Contents(ring)' = Append(Contents(ring), [seq |-> posted + 1, len |-> l])
    BY <1>1, <1>2, <2>1, <2>2, PushAppends
  <2>4. /\ {c \in Conns : Listens(c)}' = {c \in Conns : Listens(c)}
        /\ [c \in Conns |-> PlaceIn(c)]' = [c \in Conns |-> PlaceIn(c)]
        /\ [c \in Conns |-> Acked(c)]' = [c \in Conns |-> Acked(c)]
    BY <1>1 DEF Listens, PlaceIn, Acked
  <2>5. F!Post
    BY <2>2, <2>3, <2>4 DEF F!Post
  <2> QED  BY <2>5 DEF F!Next
<1>3. CASE ~HasRoom(ring)
  <2>1. ring' = ring /\ posted' = posted
    BY <1>3 DEF Enqueue
  <2>2. F!Leave
    BY <1>1, <2>1, LeaveOrStay DEF Listens, PlaceIn, Acked
  <2> QED  BY <2>2 DEF F!Next
<1> QED
  BY <1>2, <1>3

\* The steps that nobody hears.
LEMMA NothingHeard ==
    ASSUME SendInv, \/ CheckTimeout \/ Decide \/ UNCHANGED vars
                    \/ \E i \in Slots : TimeoutReached(i)
                    \/ BeginMessage
    PROVE  F!Leave
<1>1. /\ UNCHANGED <<ring, posted, conn>>
      /\ client \in [Slots -> ClientRecord] /\ \A c \in Conns : conn[c].slot \in Slots
  BY DEF CheckTimeout, Decide, vars, TimeoutReached, BeginMessage, queueVars, SendInv,
         StreamInv, StreamTypes, ConnRecord
<1>2. CASE CheckTimeout \/ Decide \/ UNCHANGED vars
  <2>1. UNCHANGED <<client, outLen>>
    BY <1>2 DEF CheckTimeout, Decide, vars, sendVars
  <2> QED  BY <1>1, <2>1, LeaveOrStay DEF Listens, PlaceIn, Acked
<1>3. CASE \E i \in Slots : TimeoutReached(i)
  <2>1. PICK i \in Slots : client' = [client EXCEPT ![i].timer = "due"]
    BY <1>3 DEF TimeoutReached
  <2>2. outLen' = outLen
    BY <1>3 DEF TimeoutReached, sendVars
  <2>3. \A j \in Slots : client'[j].pcb = client[j].pcb /\ client'[j].acked = client[j].acked
    BY <1>1, <2>1 DEF ClientRecord
  <2> QED  BY <1>1, <2>2, <2>3, LeaveOrStay DEF Listens, PlaceIn, Acked
<1>4. CASE BeginMessage
  <2>1. outLen = Idle
    BY <1>4 DEF BeginMessage, SendInv, QueueInv, LoopOK
  <2>2. \A j \in Slots : /\ client'[j].pcb = client[j].pcb
                         /\ client[j].pcb # NoConn => client'[j].acked = 0
    BY <1>1, <1>4 DEF BeginMessage, Restart, ClientRecord
  <2> QED  BY <1>1, <2>1, <2>2, ConnsAssumption, LeaveOrStay DEF Listens, PlaceIn, Acked
<1> QED
  BY <1>2, <1>3, <1>4
LEMMA NewConnectionJoins ==
    ASSUME SendInv, NEW c \in Conns, NewConnection(c)
    PROVE  F!Next
<1> USE ConnsAssumption
<1>1. /\ UNCHANGED <<ring, posted, outLen>>
      /\ conn[c].state = "new" /\ conn[c].sent = << >> /\ conn[c].unacked = 0
      /\ client \in [Slots -> ClientRecord] /\ conn \in [Conns -> ConnRecord]
      /\ \A d \in Conns : conn[d].slot \in Slots
      /\ \A j \in Slots : client[j].pcb # c
  <2>1. conn[c].state = "new" /\ UNCHANGED <<ring, posted, outLen>>
    BY DEF NewConnection, queueVars, sendVars
  <2>2. conn[c].sent = << >> /\ conn[c].unacked <= 0 /\ conn[c].unacked \in Nat
    BY <2>1 DEF SendInv, StreamInv, Streams, StreamOK, StreamTypes, ConnRecord
  <2> QED  BY <2>1, <2>2 DEF SendInv, StreamInv, StreamTypes, ConnRecord, SlotsHeld
<1>2. ~Listens(c)
  BY <1>1 DEF Listens
<1>3. CASE \E i \in Slots : /\ client[i].pcb = NoConn
                            /\ client' = [client EXCEPT ![i] = NewClient(i, c)]
                            /\ conn' = [conn EXCEPT ![c].state = "open", ![c].slot = i]
  <2>1. PICK i \in Slots : /\ client[i].pcb = NoConn
                           /\ client' = [client EXCEPT ![i] = NewClient(i, c)]
                           /\ conn' = [conn EXCEPT ![c].state = "open", ![c].slot = i]
    BY <1>3
  <2>2. /\ client'[i].pcb = c /\ client'[i].acked = 0
        /\ \A j \in Slots : j # i => client'[j] = client[j]
    BY <1>1, <2>1 DEF NewClient
  <2>3. /\ conn'[c].slot = i /\ conn'[c].unacked = 0 /\ conn'[c].sent = << >>
        /\ \A d \in Conns : d # c => conn'[d] = conn[d]
    BY <1>1, <2>1 DEF ConnRecord
  <2>4. Listens(c)' /\ PlaceIn(c)' = 0 /\ PlaceIn(c) = 0
    BY <1>2, <2>2, <2>3 DEF Listens, PlaceIn
  <2>5. ASSUME NEW d \in Conns, d # c
        PROVE  (Listens(d)' <=> Listens(d)) /\ PlaceIn(d)' = PlaceIn(d)
    <3>1. conn'[d].slot = conn[d].slot /\ conn[d].slot \in Slots
      BY <1>1, <2>3, <2>5
    <3>2. CASE conn[d].slot = i
      <4>1. ~Listens(d) /\ ~Listens(d)'
        BY <2>1, <2>2, <2>5, <3>1, <3>2 DEF Listens
      <4> QED  BY <4>1 DEF PlaceIn
    <3>3. CASE conn[d].slot # i
      BY <1>1, <2>2, <3>1, <3>3 DEF Listens, PlaceIn
    <3> QED  BY <3>2, <3>3
  <2>6. \A d \in Conns : Acked(d)' = Acked(d)
    BY <1>1, <2>3 DEF Acked
  <2>7. Acked(c) = << >>
    BY <1>1 DEF Acked
  <2>8. {d \in Conns : Listens(d)}' = {d \in Conns : Listens(d)} \cup {c}
    BY <2>4, <2>5
  <2>9. /\ [d \in Conns |-> PlaceIn(d)]' = [d \in Conns |-> PlaceIn(d)]
        /\ [d \in Conns |-> Acked(d)]' = [d \in Conns |-> Acked(d)]
        /\ Contents(ring)' = Contents(ring)
    BY <1>1, <2>4, <2>5, <2>6 DEF Contents, PlaceOf
  <2>10. F!Join(c)
    BY <1>1, <1>2, <2>7, <2>8, <2>9 DEF F!Join
  <2> QED  BY <2>10 DEF F!Next
<1>4. CASE conn' = [conn EXCEPT ![c] = Gone(c)] /\ UNCHANGED client
  <2>1. /\ conn'[c] = Gone(c) /\ Gone(c).slot = conn[c].slot
        /\ \A d \in Conns : d # c => conn'[d] = conn[d]
    BY <1>1, <1>4, GoneRecord DEF SendInv
  <2>2. Acked(c)' = Acked(c)
    BY <2>1, GoneHeard DEF SendInv
  <2>3. \A d \in Conns : /\ Listens(d)' => Listens(d) /\ PlaceIn(d)' = PlaceIn(d)
                         /\ Acked(d)' = Acked(d)
    <3> TAKE d \in Conns
    <3>1. CASE d = c
      BY <1>1, <1>4, <2>1, <2>2, <3>1 DEF Listens
    <3>2. CASE d # c
      <4>1. conn'[d] = conn[d]  BY <2>1, <3>2
      <4> QED  BY <1>1, <1>4, <4>1 DEF Listens, PlaceIn, Acked
    <3> QED  BY <3>1, <3>2
  <2>4. F!Leave
    BY <1>1, <2>3, LeaveOrStay
  <2> QED  BY <2>4 DEF F!Next
<1> QED
  BY <1>3, <1>4 DEF NewConnection

\* sent_callback: the client hears the next bytes of the message that is being sent.
LEMMA AcknowledgedHears ==
    ASSUME SendInv, ~Interrupts, NEW c \in Conns, Acknowledged(c)
    PROVE  F!Next
<1> DEFINE i == conn[c].slot
           a == client[i].acked
           u == conn[c].unacked
           h == conn[c].sent
<1>1. /\ UNCHANGED <<ring, posted, outLen>> /\ pc.at # "closing" /\ conn[c].state = "open"
      /\ client \in [Slots -> ClientRecord] /\ conn \in [Conns -> ConnRecord]
      /\ \A d \in Conns : conn[d].slot \in Slots
  BY DEF Acknowledged, queueVars, sendVars, MayCallBack, InWindow, SendInv, StreamInv,
         StreamTypes, ConnRecord
<1>2. Listens(c)
  BY <1>1, OpenListens DEF Listens, SendInv
<1>3. /\ i \in Slots /\ client[i] \in ClientRecord /\ client[i].pcb = c
      /\ \A j \in Slots : client[j].pcb = c => j = i
      /\ a \in Nat /\ u \in Nat /\ client[i].written = a + u /\ h \in Seq(Nat \X Nat)
      /\ conn[c] \in ConnRecord
      /\ outLen = Idle => u = 0
      /\ outLen # Idle => /\ a + u <= outLen /\ PlaceIn(c) = a
                          /\ EndsWith(h, buffer.seq, a + u)
  <2>1. /\ i \in Slots /\ client[i] \in ClientRecord /\ client[i].pcb = c
        /\ \A j \in Slots : client[j].pcb = c => j = i
        /\ conn[c] \in ConnRecord
        /\ client[i].written \in Nat /\ client[i].acked \in Nat /\ conn[c].unacked \in Nat
        /\ conn[c].unacked = client[i].written - client[i].acked
        /\ outLen = Idle => conn[c].unacked = 0
        /\ outLen # Idle => /\ client[i].written <= outLen /\ PlaceIn(c) = client[i].acked
                            /\ EndsWith(conn[c].sent, buffer.seq, client[i].written)
    BY <1>2, Listener
  <2>2. client[i].written = a + u  BY <2>1
  <2>3. h \in Seq(Nat \X Nat)  BY <2>1 DEF ConnRecord
  <2> QED  BY <2>1, <2>2, <2>3
<1>4. PICK n \in 1 .. u :
        /\ client' = [client EXCEPT ![i].acked = a + n, ![i].timer = TimeoutAfter(a + n)]
        /\ conn' = [conn EXCEPT ![c].unacked = @ - n]
  BY DEF Acknowledged
<1>5. n \in Nat /\ n <= u /\ u # 0 /\ outLen # Idle
  BY <1>3, <1>4
<1>6. /\ Contents(ring) # << >> /\ Head(Contents(ring)) = buffer /\ buffer.len = outLen
      /\ buffer \in Messages /\ outLen \in Nat
  BY <1>5, SendsTheHead
<1>7. /\ client'[i].acked = a + n
      /\ \A j \in Slots : /\ client'[j].pcb = client[j].pcb
                          /\ j # i => client'[j] = client[j]
  BY <1>1, <1>3, <1>4 DEF ClientRecord
<1>8. /\ conn'[c].unacked = u - n /\ conn'[c].sent = h
      /\ \A d \in Conns : conn'[d].slot = conn[d].slot /\ (d # c => conn'[d] = conn[d])
  BY <1>1, <1>3, <1>4 DEF ConnRecord
<1>9. \A d \in Conns : Listens(d)' <=> Listens(d)
  BY <1>1, <1>7, <1>8 DEF Listens
<1>10. PlaceIn(c)' = PlaceIn(c) + n
  BY <1>1, <1>2, <1>3, <1>5, <1>7, <1>8, <1>9 DEF PlaceIn
<1>11. \A d \in Conns : d # c => PlaceIn(d)' = PlaceIn(d) /\ Acked(d)' = Acked(d)
  <2> SUFFICES ASSUME NEW d \in Conns, d # c
               PROVE  PlaceIn(d)' = PlaceIn(d) /\ Acked(d)' = Acked(d)
    OBVIOUS
  <2>1. Acked(d)' = Acked(d)
    BY <1>8 DEF Acked
  <2>2. Listens(d) => conn[d].slot # i
    BY <1>3 DEF Listens
  <2>3. PlaceIn(d)' = PlaceIn(d)
    BY <1>1, <1>7, <1>8, <1>9, <2>2 DEF PlaceIn
  <2> QED  BY <2>1, <2>3
<1>12. Acked(c)' = Acked(c) \o Bytes(buffer, a, n)
  <2>1. Acked(c)' = SubSeq(h, 1, Len(h) - (u - n))
    BY <1>8 DEF Acked
  <2>2. Acked(c) = SubSeq(h, 1, Len(h) - u)
    BY DEF Acked
  <2>3. EndsWith(h, buffer.seq, a + u) /\ h \in Seq(Nat \X Nat) /\ a \in Nat /\ u \in Nat
    BY <1>3, <1>5
  <2> HIDE DEF h, u, a
  <2>4. n \in 1 .. u  OBVIOUS
  <2>5. SubSeq(h, 1, Len(h) - (u - n)) = SubSeq(h, 1, Len(h) - u) \o Bytes(buffer, a, n)
    <3>1. buffer \in Messages  BY <1>6
    <3> QED  BY ONLY <2>3, <2>4, <3>1, HeardIsNext
  <2> QED  BY <2>1, <2>2, <2>5, Zenon
<1>13. n \in 1 .. Head(Contents(ring)).len - PlaceIn(c)
  BY <1>3, <1>5, <1>6
<1> HIDE DEF i, a, u, h
<1>14. /\ Contents(ring)' = Contents(ring) /\ posted' = posted
       /\ {d \in Conns : Listens(d)}' = {d \in Conns : Listens(d)}
  BY <1>1, <1>9 DEF Contents, PlaceOf
<1> DEFINE place == [d \in Conns |-> PlaceIn(d)]
           heard == [d \in Conns |-> Acked(d)]
<1>15. place' = [place EXCEPT ![c] = @ + n]
  BY <1>10, <1>11
<1>16. heard' = [heard EXCEPT ![c] = @ \o F!Bytes(Head(Contents(ring)), place[c], n)]
  <2>1. Acked(c)' = heard[c] \o F!Bytes(Head(Contents(ring)), place[c], n)
    BY <1>3, <1>5, <1>6, <1>12 DEF Bytes, F!Bytes
  <2> QED  BY <1>11, <2>1
<1>17. F!Hear(c)
  <2>1. c \in {d \in Conns : Listens(d)} /\ n \in 1 .. Head(Contents(ring)).len - place[c]
    BY <1>2, <1>13
  <2> QED  BY <1>6, <1>14, <1>15, <1>16, <2>1 DEF F!Hear
<1> QED
  BY <1>17 DEF F!Next
\* Clients that leave: by themselves, or given up for a timeout.
LEMMA DisconnectedLeaves ==
    ASSUME SendInv, NEW c \in Conns, Disconnected(c)
    PROVE  F!Leave
<1>1. /\ UNCHANGED <<ring, posted, outLen>>
      /\ client \in [Slots -> ClientRecord] /\ conn \in [Conns -> ConnRecord]
      /\ \A d \in Conns : conn[d].slot \in Slots
      /\ client' = [client EXCEPT ![conn[c].slot].pcb = NoConn]
      /\ conn' = [conn EXCEPT ![c] = Gone(c)]
  BY DEF Disconnected, queueVars, sendVars, SendInv, StreamInv, StreamTypes, ConnRecord
<1>2. /\ conn'[c] = Gone(c) /\ Gone(c).slot = conn[c].slot
      /\ \A d \in Conns : d # c => conn'[d] = conn[d]
  BY <1>1, GoneRecord DEF SendInv
<1>3. \A j \in Slots : /\ client'[j].pcb \in {client[j].pcb, NoConn}
                       /\ client'[j].acked = client[j].acked
  BY <1>1 DEF ClientRecord
<1>4. client'[conn[c].slot].pcb = NoConn
  BY <1>1 DEF ClientRecord
<1>5. Acked(c)' = Acked(c)
  BY <1>2, GoneHeard DEF SendInv
<1>6. \A d \in Conns : /\ Listens(d)' => Listens(d) /\ PlaceIn(d)' = PlaceIn(d)
                       /\ Acked(d)' = Acked(d)
  <2> TAKE d \in Conns
  <2>1. CASE d = c
    BY <1>2, <1>4, <1>5, <2>1, ConnsAssumption DEF Listens
  <2>2. CASE d # c
    <3>1. conn'[d] = conn[d]  BY <1>2, <2>2
    <3> QED  BY <1>1, <1>3, <3>1, ConnsAssumption DEF Listens, PlaceIn, Acked
  <2> QED  BY <2>1, <2>2
<1> QED
  BY <1>1, <1>6, LeaveOrStay

LEMMA TimedOutLeaves ==
    ASSUME SendInv, Detach \/ CloseConnection
    PROVE  F!Leave
<1> USE ConnsAssumption
<1>1. /\ UNCHANGED <<ring, posted, outLen>> /\ pc.i \in Slots
      /\ client \in [Slots -> ClientRecord] /\ conn \in [Conns -> ConnRecord]
      /\ \A d \in Conns : conn[d].slot \in Slots
  BY DEF Detach, CloseConnection, queueVars, sendVars, SendInv, StreamInv, StreamTypes,
         ConnRecord
<1>2. CASE Detach
  <2>1. client' = [client EXCEPT ![pc.i].pcb = NoConn] /\ conn' = conn
    BY <1>2 DEF Detach
  <2>2. \A j \in Slots : /\ client'[j].pcb \in {client[j].pcb, NoConn}
                         /\ client'[j].acked = client[j].acked
    BY <1>1, <2>1 DEF ClientRecord
  <2> QED  BY <1>1, <2>1, <2>2, LeaveOrStay DEF Listens, PlaceIn, Acked
<1>3. CASE CloseConnection
  <2>1. pc.at = "closing" /\ client' = client /\ pc.tpcb \in Conns
    BY <1>3 DEF CloseConnection, SendInv, ClientsInv, GivenUp
  <2>2. CASE conn' = conn
    BY <1>1, <2>1, <2>2, LeaveOrStay DEF Listens, PlaceIn, Acked
  <2>3. CASE conn' = [conn EXCEPT ![pc.tpcb] = Gone(pc.tpcb)]
    <3>1. PICK t \in Conns : t = pc.tpcb
      BY <2>1
    <3>2. /\ conn'[t] = Gone(t) /\ Gone(t).slot = conn[t].slot
          /\ \A d \in Conns : d # t => conn'[d] = conn[d]
      BY <1>1, <2>3, <3>1, GoneRecord DEF SendInv
    <3>3. Acked(t)' = Acked(t)
      BY <3>2, GoneHeard DEF SendInv
    <3>4. \A d \in Conns : /\ Listens(d)' => Listens(d) /\ PlaceIn(d)' = PlaceIn(d)
                           /\ Acked(d)' = Acked(d)
      <4> TAKE d \in Conns
      <4>1. conn'[d].slot = conn[d].slot
        BY <3>2
      <4>2. Acked(d)' = Acked(d)
        <5>1. CASE d = t  BY <3>3, <5>1
        <5>2. CASE d # t
          <6>1. conn'[d] = conn[d]  BY <3>2, <5>2
          <6> QED  BY <6>1 DEF Acked
        <5> QED  BY <5>1, <5>2
      <4> QED  BY <1>1, <2>1, <4>1, <4>2 DEF Listens, PlaceIn
    <3> QED  BY <1>1, <3>4, LeaveOrStay
  <2> QED  BY <1>3, <2>2, <2>3 DEF CloseConnection
<1> QED
  BY <1>2, <1>3

\* try_send: clients are lost and nothing more is heard, or all that are there have
\* heard the whole message, none can be lost, and it is retired.
LEMMA TrySendRetires ==
    ASSUME SendInv, NEW w \in Writes, TrySend(w)
    PROVE  F!Next
<1> USE ConnsAssumption
<1>1. /\ posted' = posted /\ outLen # Idle
      /\ client \in [Slots -> ClientRecord] /\ conn \in [Conns -> ConnRecord]
      /\ \A d \in Conns : conn[d].slot \in Slots
  <2>1. posted' = posted /\ outLen # Idle
    BY DEF TrySend, SendInv, QueueInv, LoopOK
  <2> QED  BY <2>1 DEF SendInv, StreamInv, StreamTypes, ConnRecord
<1>2. /\ Contents(ring) # << >> /\ Head(Contents(ring)) = buffer /\ buffer.len = outLen
      /\ ring.size > 0 /\ outLen \in Nat \ {0} /\ buffer \in Messages
  BY <1>1, SendsTheHead
<1>3. \A i \in Slots : /\ w[i] = Lost => client'[i].pcb = NoConn
                       /\ w[i] # Lost => w[i] \in Nat /\ client'[i].pcb = client[i].pcb
                       /\ client'[i].acked = client[i].acked
  BY TrySendRecords DEF SendInv
<1>4. \A c \in Conns :
        /\ conn'[c].slot = conn[c].slot
        /\ ~Listens(c) => conn'[c] = conn[c]
        /\ Listens(c) /\ w[conn[c].slot] = Lost => conn'[c] = Gone(c)
        /\ Listens(c) /\ w[conn[c].slot] # Lost =>
             /\ conn'[c].unacked = conn[c].unacked + w[conn[c].slot]
             /\ conn'[c].sent = conn[c].sent \o
                  Bytes(buffer, client[conn[c].slot].written, w[conn[c].slot])
  BY TrySendRecords DEF SendInv
<1>5. ASSUME NEW c \in Conns
      PROVE  Acked(c)' = Acked(c)
  <2> DEFINE i == conn[c].slot
             h == conn[c].sent
             u == conn[c].unacked
             b == Bytes(buffer, client[i].written, w[i])
  <2>1. CASE ~Listens(c)
    <3>1. conn'[c] = conn[c]  BY <1>4, <2>1
    <3> QED  BY <3>1 DEF Acked
  <2>2. CASE Listens(c) /\ w[i] = Lost
    <3>1. conn'[c] = Gone(c)  BY <1>4, <2>2
    <3> QED  BY <3>1, GoneHeard DEF SendInv
  <2>3. CASE Listens(c) /\ w[i] # Lost
    <3>1. /\ conn'[c].unacked = u + w[i] /\ conn'[c].sent = h \o b /\ w[i] \in Nat
      BY <1>1, <1>3, <1>4, <2>3
    <3>2. b \in Seq(Nat \X Nat) /\ Len(b) = w[i]
      <4>1. client[i].written \in Nat
        <5>1. i \in Slots  BY <1>1
        <5> QED  BY <1>1, <5>1 DEF ClientRecord
      <4> QED  BY <1>2, <3>1, <4>1, BytesAre
    <3>3. h \in Seq(Nat \X Nat) /\ u \in 0 .. Len(h)
      <4>1. conn[c] \in ConnRecord /\ u <= Len(h)
        BY DEF SendInv, StreamInv, Streams, StreamOK, StreamTypes
      <4>2. h \in Seq(Nat \X Nat) /\ u \in Nat
        BY <4>1 DEF ConnRecord
      <4>3. Len(h) \in Nat  BY <4>2
      <4> QED  BY <4>1, <4>2, <4>3
    <3>4. SubSeq(h \o b, 1, Len(h \o b) - (u + Len(b))) = SubSeq(h, 1, Len(h) - u)
      <4> HIDE DEF h, u, b
      <4> QED  BY ONLY <3>2, <3>3, GivenButNotHeard
    <3>5. Acked(c)' = SubSeq(h \o b, 1, Len(h \o b) - (u + Len(b)))
      BY <3>1, <3>2 DEF Acked
    <3>6. Acked(c) = SubSeq(h, 1, Len(h) - u)
      BY DEF Acked
    <3> QED  BY <3>4, <3>5, <3>6
  <2> QED  BY <2>1, <2>2, <2>3
<1>6. ASSUME NEW c \in Conns, Listens(c)'
      PROVE  /\ Listens(c) /\ w[conn[c].slot] # Lost
             /\ client'[conn'[c].slot].acked = client[conn[c].slot].acked
  BY <1>1, <1>3, <1>4, <1>6 DEF Listens
<1>7. CASE ~DoneSending
  <2>1. ring' = ring /\ outLen' = outLen
    BY <1>7 DEF TrySend
  <2>2. \A c \in Conns : /\ Listens(c)' => Listens(c) /\ PlaceIn(c)' = PlaceIn(c)
                         /\ Acked(c)' = Acked(c)
    <3> SUFFICES ASSUME NEW c \in Conns
                 PROVE  /\ Listens(c)' => Listens(c) /\ PlaceIn(c)' = PlaceIn(c)
                        /\ Acked(c)' = Acked(c)
      OBVIOUS
    <3>1. ASSUME Listens(c)' PROVE Listens(c) /\ PlaceIn(c)' = PlaceIn(c)
      BY <1>6, <2>1, <3>1 DEF PlaceIn
    <3> QED  BY <1>5, <3>1
  <2>3. F!Leave
    BY <1>1, <2>1, <2>2, LeaveOrStay
  <2> QED  BY <2>3 DEF F!Next
<1>8. CASE DoneSending
  <2>1. ring' = Popped(ring) /\ outLen' = Idle
    BY <1>8 DEF TrySend, EndMessage
  <2>2. Contents(ring)' = Tail(Contents(ring))
    BY <1>2, <2>1, PopTakesTheHead DEF SendInv, QueueInv
  <2>3. ASSUME NEW c \in Conns, Listens(c)
        PROVE  PlaceIn(c) = outLen /\ w[conn[c].slot] = 0
    <3> DEFINE i == conn[c].slot
    <3>1. /\ i \in Slots /\ client[i].pcb = c
          /\ client[i].written \in Nat /\ client[i].acked \in Nat /\ conn[c].unacked \in Nat
          /\ conn[c].unacked = client[i].written - client[i].acked
          /\ client[i].written <= outLen /\ PlaceIn(c) = client[i].acked
      BY <1>1, <2>3, Listener
    <3>2. client[i].acked >= outLen
      BY <1>8, <3>1 DEF DoneSending
    <3>3. client[i].acked = outLen /\ client[i].written = outLen
      BY <1>2, <3>1, <3>2
    <3>4. ~MayWrite(i)
      BY <1>2, <3>3 DEF MayWrite
    <3> QED  BY <3>1, <3>3, <3>4 DEF Writes
  <2>4. \A c \in Conns : Listens(c)' <=> Listens(c)
    <3> SUFFICES ASSUME NEW c \in Conns, Listens(c) PROVE Listens(c)'
      BY <1>6
    <3>1. w[conn[c].slot] # Lost
      BY <2>3 DEF Lost
    <3> QED  BY <1>1, <1>3, <1>4, <3>1 DEF Listens
  <2>5. /\ {c \in Conns : Listens(c)}' = {c \in Conns : Listens(c)}
        /\ [c \in Conns |-> PlaceIn(c)]' = [c \in Conns |-> 0]
        /\ [c \in Conns |-> Acked(c)]' = [c \in Conns |-> Acked(c)]
    BY <1>5, <2>1, <2>4 DEF PlaceIn
  <2>6. \A c \in {d \in Conns : Listens(d)} :
           [d \in Conns |-> PlaceIn(d)][c] = Head(Contents(ring)).len
    BY <1>2, <2>3
  <2>7. F!Retire
    BY <1>1, <1>2, <2>2, <2>5, <2>6 DEF F!Retire
  <2> QED  BY <2>7 DEF F!Next
<1> QED
  BY <1>7, <1>8

LEMMA FeedStep ==
    ASSUME SendInv, ~Interrupts, [Next]_vars
    PROVE  F!Next
<1>1. CASE Enqueue
  BY <1>1, EnqueuePosts
<1>2. CASE \/ CheckTimeout \/ Decide \/ UNCHANGED vars \/ BeginMessage
           \/ \E i \in Slots : TimeoutReached(i)
  BY <1>2, NothingHeard DEF F!Next
<1>3. CASE Detach \/ CloseConnection
  BY <1>3, TimedOutLeaves DEF F!Next
<1>4. CASE \E w \in Writes : TrySend(w)
  BY <1>4, TrySendRetires
<1>5. CASE \E c \in Conns : Callback(c)
  <2>1. PICK c \in Conns : Callback(c)
    BY <1>5
  <2>2. CASE NewConnection(c)
    BY <2>2, NewConnectionJoins
  <2>3. CASE Acknowledged(c)
    BY <2>3, AcknowledgedHears
  <2>4. CASE Disconnected(c)
    BY <2>4, DisconnectedLeaves DEF F!Next
  <2> QED  BY <2>1, <2>2, <2>3, <2>4 DEF Callback
<1> QED
  BY <1>1, <1>2, <1>3, <1>4, <1>5 DEF Next, NetworkLoop

\* What network_loop, try_send, the queue and lwIP's callbacks do together is what
\* the machine promises its clients: each of them hears whole messages in the order
\* they were posted, and none is popped before all who are still there have it.
THEOREM ClientsHearTheFeed == ~Interrupts => (Spec => ImplementsFeed)
<1> SUFFICES ASSUME ~Interrupts PROVE Spec => ImplementsFeed
  OBVIOUS
<1>1. Spec => [](QueueInv /\ ClientsInv)
  BY ClientsInvariance
<1>2. QueueInv /\ ClientsInv /\ StreamInv /\ [Next]_vars => [F!Next]_F!feedVars
  BY FeedStep DEF SendInv
<1> QED
  BY <1>1, <1>2, FeedInit, StreamInvariance, PTL DEF Spec, ImplementsFeed, F!Spec
================================================================================
