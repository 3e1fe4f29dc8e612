---------------------------- MODULE BroadcastProofs ----------------------------
(***************************************************************************)
(* For every capacity, number of clients and set of connections, and with  *)
(* callbacks at any time: the ring is a queue, and what is being sent is   *)
(* its oldest message.                                                     *)
(***************************************************************************)
EXTENDS BroadcastProperties, TLAPS

USE CapacityAssumption, LengthsAssumption, MessagesAssumption

\* inc_index goes round.
LEMMA IncIndexGoesRound ==
    ASSUME NEW p \in Places
    PROVE  IncIndex(p) = IF p = Capacity - 1 THEN 0 ELSE p + 1
  BY DEF IncIndex, Places

\* The inductive invariant: the types of the queue and of what is being sent, the
\* two properties, and what network_loop relies on from one step to the next.
RingType ==
    /\ ring \in [data : [Places -> Messages], front : Places, back : Places,
                 size : 0 .. Capacity]
    /\ posted \in 0 .. MaxMessages

WaitingAreMessages ==
    \A k \in 1 .. ring.size : ring.data[PlaceOf(ring, k)].len \in Lengths

RingOK == RingType /\ RingIsFifo /\ WaitingAreMessages

LoopOK ==
    /\ outLen \in {Idle} \cup Lengths
    /\ pc.at = "send" => outLen # Idle
    /\ pc.at = "serialize" => ring.size > 0 /\ outLen = Idle

QueueInv == RingOK /\ SendsTheOldest /\ LoopOK

-----------------------------------------------------------------------------
\* The slot of the k-th oldest message, and its neighbours: the ring is walked
\* from front, and the slots of different messages differ.
LEMMA PlacesOfTheRing ==
    ASSUME RingType, NEW k \in 1 .. Capacity
    PROVE  /\ PlaceOf(ring, k) \in Places
           /\ PlaceOf(ring, 1) = ring.front
           /\ k < Capacity => PlaceOf(ring, k + 1) = IncIndex(PlaceOf(ring, k))
           /\ \A j \in 1 .. Capacity : PlaceOf(ring, j) = PlaceOf(ring, k) => j = k
<1>1. ring.front \in Places /\ Capacity \in Nat \ {0}
  BY DEF RingType
<1>2. PlaceOf(ring, k) \in Places
  BY <1>1 DEF PlaceOf, Places
<1>3. PlaceOf(ring, 1) = ring.front
  BY <1>1 DEF PlaceOf, Places
<1>4. k < Capacity => PlaceOf(ring, k + 1) = IncIndex(PlaceOf(ring, k))
  <2>1. IncIndex(PlaceOf(ring, k)) =
          IF PlaceOf(ring, k) = Capacity - 1 THEN 0 ELSE PlaceOf(ring, k) + 1
    BY <1>2, IncIndexGoesRound
  <2> QED
    BY <1>1, <2>1 DEF PlaceOf, Places
<1>5. \A j \in 1 .. Capacity : PlaceOf(ring, j) = PlaceOf(ring, k) => j = k
  BY <1>1 DEF PlaceOf, Places
<1> QED
  BY <1>2, <1>3, <1>4, <1>5

\* A push puts the message behind the others and leaves them alone.
LEMMA PushKeepsTheQueue ==
    ASSUME RingOK, HasRoom(ring), posted < MaxMessages, NEW l \in Lengths,
           ring' = Pushed(ring, [seq |-> posted + 1, len |-> l]),
           posted' = posted + 1
    PROVE  /\ RingOK'
           /\ ring'.size = ring.size + 1
           /\ ring.size > 0 => Peek(ring)' = Peek(ring)
<1> DEFINE m == [seq |-> posted + 1, len |-> l]
<1>1. /\ RingType /\ ring.size \in 0 .. Capacity - 1 /\ Capacity \in Nat \ {0}
      /\ ring.back \in Places /\ ring.front \in Places
      /\ ring.data \in [Places -> Messages] /\ posted \in 0 .. MaxMessages
      /\ MaxMessages \in Nat
  BY DEF RingOK, RingType, HasRoom
<1>2. m \in Messages /\ m.seq = posted + 1 /\ m.len = l
  BY <1>1 DEF Messages
<1>3. ring.back = PlaceOf(ring, ring.size + 1)
  BY <1>1 DEF RingOK, RingIsFifo
<1> HIDE DEF m
<1>4. /\ ring'.data = [ring.data EXCEPT ![ring.back] = m]
      /\ ring'.front = ring.front
      /\ ring'.back = IncIndex(ring.back)
      /\ ring'.size = ring.size + 1
      /\ ring' = [data |-> ring'.data, front |-> ring'.front, back |-> ring'.back,
                  size |-> ring'.size]
  BY DEF Pushed, m
<1>5. IncIndex(ring.back) \in Places
  <2>1. IncIndex(ring.back) = IF ring.back = Capacity - 1 THEN 0 ELSE ring.back + 1
    BY <1>1, IncIndexGoesRound
  <2> QED
    BY <1>1, <2>1 DEF Places
<1>6. RingType'
  <2>1. ring'.data \in [Places -> Messages]
    BY <1>1, <1>2, <1>4
  <2>2. /\ ring'.front \in Places /\ ring'.back \in Places
        /\ ring'.size \in 0 .. Capacity /\ posted' \in 0 .. MaxMessages
    BY <1>1, <1>4, <1>5
  <2>3. ring' \in [data : [Places -> Messages], front : Places, back : Places,
                   size : 0 .. Capacity]
    BY <1>4, <2>1, <2>2
  <2> QED
    BY <2>2, <2>3 DEF RingType
<1>7. \A k \in 1 .. Capacity : PlaceOf(ring', k) = PlaceOf(ring, k)
  BY <1>4 DEF PlaceOf
<1>8. \A k \in 1 .. ring.size : ring'.data[PlaceOf(ring, k)] = ring.data[PlaceOf(ring, k)]
  <2> TAKE k \in 1 .. ring.size
  <2>1. k \in 1 .. Capacity /\ ring.size + 1 \in 1 .. Capacity /\ k # ring.size + 1
    BY <1>1
  <2>2. PlaceOf(ring, k) \in Places /\ PlaceOf(ring, k) # ring.back
    BY <1>1, <1>3, <2>1, PlacesOfTheRing
  <2> QED
    BY <1>1, <1>4, <2>2
<1>9. ring'.data[PlaceOf(ring, ring.size + 1)] = m
  BY <1>1, <1>3, <1>4
<1>10. RingIsFifo'
  <2>1. \A k \in 1 .. ring'.size :
           ring'.data[PlaceOf(ring', k)].seq = posted' - ring'.size + k
    <3> TAKE k \in 1 .. ring'.size
    <3>0. k \in 1 .. Capacity /\ k \in 1 .. ring.size + 1
      BY <1>1, <1>4
    <3>1. CASE k = ring.size + 1
      BY <1>1, <1>2, <1>4, <1>7, <1>9, <3>0, <3>1
    <3>2. CASE k \in 1 .. ring.size
      <4>1. ring.data[PlaceOf(ring, k)].seq = posted - ring.size + k
        BY <3>2 DEF RingOK, RingIsFifo
      <4> QED
        BY <1>1, <1>4, <1>7, <1>8, <3>0, <3>2, <4>1
    <3> QED
      BY <1>1, <3>0, <3>1, <3>2
  <2>2. ring'.back = IF ring'.size = Capacity THEN ring'.front
                                              ELSE PlaceOf(ring', ring'.size + 1)
    <3>1. ring.size + 1 \in 1 .. Capacity
      BY <1>1
    <3>2. CASE ring.size + 1 < Capacity
      <4>1. PlaceOf(ring, ring.size + 2) = IncIndex(ring.back)
        <5>1. PlaceOf(ring, (ring.size + 1) + 1) = IncIndex(PlaceOf(ring, ring.size + 1))
          BY <1>1, <3>1, <3>2, PlacesOfTheRing
        <5>2. (ring.size + 1) + 1 = ring.size + 2
          BY <1>1
        <5> QED
          BY <1>3, <5>1, <5>2
      <4>2. PlaceOf(ring', ring.size + 2) = PlaceOf(ring, ring.size + 2)
        BY <1>1, <1>7, <3>2
      <4>3. ring'.size + 1 = ring.size + 2 /\ ring'.size # Capacity
        BY <1>1, <1>4, <3>2
      <4> QED
        BY <1>4, <4>1, <4>2, <4>3
    <3>3. CASE ring.size + 1 = Capacity
      <4>1. IncIndex(ring.back) = IF ring.back = Capacity - 1 THEN 0 ELSE ring.back + 1
        BY <1>1, IncIndexGoesRound
      <4>2. IncIndex(ring.back) = ring.front
        BY <1>1, <1>3, <3>3, <4>1 DEF PlaceOf, Places
      <4> QED
        BY <1>4, <3>3, <4>2
    <3> QED
      BY <1>1, <3>1, <3>2, <3>3
  <2> QED
    BY <2>1, <2>2 DEF RingIsFifo
<1>11. WaitingAreMessages'
  <2> SUFFICES ASSUME NEW k \in 1 .. ring'.size
               PROVE  ring'.data[PlaceOf(ring', k)].len \in Lengths
    BY DEF WaitingAreMessages
  <2>0. k \in 1 .. Capacity /\ k \in 1 .. ring.size + 1
    BY <1>1, <1>4
  <2>1. CASE k = ring.size + 1
    BY <1>2, <1>7, <1>9, <2>0, <2>1
  <2>2. CASE k \in 1 .. ring.size
    BY <1>7, <1>8, <2>0, <2>2 DEF RingOK, WaitingAreMessages
  <2> QED
    BY <1>1, <2>0, <2>1, <2>2
<1>12. ring.size > 0 => Peek(ring)' = Peek(ring)
  <2> SUFFICES ASSUME ring.size > 0 PROVE Peek(ring)' = Peek(ring)
    OBVIOUS
  <2>1. 1 \in 1 .. Capacity /\ 1 \in 1 .. ring.size
    BY <1>1
  <2>2. PlaceOf(ring, 1) = ring.front
    BY <1>1, <2>1, PlacesOfTheRing
  <2> QED
    BY <1>4, <1>8, <2>1, <2>2 DEF Peek
<1> QED
  BY <1>4, <1>6, <1>10, <1>11, <1>12 DEF RingOK

\* A pop takes the oldest message away and leaves the others alone.
LEMMA PopKeepsTheQueue ==
    ASSUME RingOK, ring.size > 0, ring' = Popped(ring), posted' = posted
    PROVE  RingOK'
<1>1. /\ RingType /\ ring.size \in 1 .. Capacity /\ Capacity \in Nat \ {0}
      /\ ring.back \in Places /\ ring.front \in Places
      /\ posted \in 0 .. MaxMessages /\ MaxMessages \in Nat
  BY DEF RingOK, RingType
<1>2. IncIndex(ring.front) = IF ring.front = Capacity - 1 THEN 0 ELSE ring.front + 1
  BY <1>1, IncIndexGoesRound
<1>3. /\ ring'.data = ring.data /\ ring'.back = ring.back
      /\ ring'.front = IncIndex(ring.front) /\ ring'.size = ring.size - 1
  BY <1>1 DEF Popped, RingType
<1>4. RingType'
  <2>1. IncIndex(ring.front) \in Places /\ ring.size - 1 \in 0 .. Capacity
    BY <1>1, <1>2 DEF Places
  <2> QED
    BY <1>1, <2>1 DEF RingType, Popped
<1>5. \A k \in 1 .. Capacity - 1 : PlaceOf(ring', k) = PlaceOf(ring, k + 1)
  BY <1>1, <1>2, <1>3 DEF PlaceOf, Places
<1>6. RingIsFifo'
  <2>1. \A k \in 1 .. ring'.size :
           ring'.data[PlaceOf(ring', k)].seq = posted' - ring'.size + k
    <3> TAKE k \in 1 .. ring'.size
    <3>1. k + 1 \in 1 .. ring.size /\ k \in 1 .. Capacity - 1
      BY <1>1, <1>3
    <3>2. ring.data[PlaceOf(ring, k + 1)].seq = posted - ring.size + (k + 1)
      BY <3>1 DEF RingOK, RingIsFifo
    <3> QED
      BY <1>1, <1>3, <1>5, <3>1, <3>2
  <2>2. ring'.size # Capacity
    BY <1>1, <1>3
  <2>3. ring'.back = PlaceOf(ring', ring'.size + 1)
    <3>1. CASE ring.size = Capacity
      <4>1. ring.back = ring.front
        BY <3>1 DEF RingOK, RingIsFifo
      <4>2. PlaceOf(ring', Capacity) = ring.front
        BY <1>1, <1>2, <1>3 DEF PlaceOf, Places
      <4>3. ring'.size + 1 = Capacity
        BY <1>1, <1>3, <3>1
      <4> QED
        BY <1>3, <4>1, <4>2, <4>3
    <3>2. CASE ring.size < Capacity
      <4>1. ring.back = PlaceOf(ring, ring.size + 1)
        BY <1>1, <3>2 DEF RingOK, RingIsFifo
      <4>2. ring.size \in 1 .. Capacity - 1 /\ ring'.size + 1 = ring.size
        BY <1>1, <1>3, <3>2
      <4> QED
        BY <1>3, <1>5, <4>1, <4>2
    <3> QED
      BY <1>1, <3>1, <3>2
  <2> QED
    BY <2>1, <2>2, <2>3 DEF RingIsFifo
<1>7. WaitingAreMessages'
  <2> SUFFICES ASSUME NEW k \in 1 .. ring'.size
               PROVE  ring'.data[PlaceOf(ring', k)].len \in Lengths
    BY DEF WaitingAreMessages
  <2>1. k + 1 \in 1 .. ring.size /\ k \in 1 .. Capacity - 1
    BY <1>1, <1>3
  <2> QED
    BY <1>3, <1>5, <2>1 DEF RingOK, WaitingAreMessages
<1> QED
  BY <1>4, <1>6, <1>7 DEF RingOK

-----------------------------------------------------------------------------
LEMMA InitHolds == Init => QueueInv
<1> SUFFICES ASSUME Init PROVE QueueInv
  OBVIOUS
<1>1. /\ ring = [data |-> [p \in Places |-> NoMessage], front |-> 0, back |-> 0,
                 size |-> 0]
      /\ posted = 0 /\ outLen = Idle /\ pc.at = "check"
  BY DEF Init, EmptyRing
<1>2. RingType
  <2>1. [p \in Places |-> NoMessage] \in [Places -> Messages]
    BY DEF NoMessage, Messages
  <2> QED
    BY <1>1, <2>1 DEF RingType, Places
<1>3. RingIsFifo
  BY <1>1 DEF RingIsFifo, PlaceOf
<1> QED
  BY <1>1, <1>2, <1>3 DEF QueueInv, RingOK, WaitingAreMessages, SendsTheOldest, LoopOK

\* A message is posted, or the queue overflows.
LEMMA EnqueueHolds == QueueInv /\ Enqueue => QueueInv'
<1> SUFFICES ASSUME QueueInv, Enqueue PROVE QueueInv'
  OBVIOUS
<1>1. /\ RingOK /\ SendsTheOldest /\ LoopOK
      /\ ring.size \in 0 .. Capacity
      /\ buffer' = buffer /\ outLen' = outLen /\ pc' = pc /\ posted < MaxMessages
  BY DEF QueueInv, RingOK, RingType, Enqueue, sendVars
<1>2. CASE HasRoom(ring)
  <2>1. PICK l \in Lengths : ring' = Pushed(ring, [seq |-> posted + 1, len |-> l])
    BY <1>2 DEF Enqueue
  <2>2. posted' = posted + 1
    BY <1>2 DEF Enqueue
  <2>3. /\ RingOK' /\ ring'.size = ring.size + 1
        /\ ring.size > 0 => Peek(ring)' = Peek(ring)
    BY <1>1, <1>2, <2>1, <2>2, PushKeepsTheQueue
  <2>4. SendsTheOldest' /\ LoopOK'
    BY <1>1, <2>3 DEF SendsTheOldest, LoopOK
  <2> QED
    BY <2>3, <2>4 DEF QueueInv
<1>3. CASE ~HasRoom(ring)
  <2>1. ring' = ring /\ posted' = posted
    BY <1>3 DEF Enqueue
  <2> QED
    BY <1>1, <2>1 DEF QueueInv, RingOK, RingType, RingIsFifo, WaitingAreMessages,
                      SendsTheOldest, LoopOK, Peek, PlaceOf
<1> QED
  BY <1>2, <1>3

\* What leaves the queue, the buffer and network_loop's place alone.
LEMMA ElsewhereHolds ==
    QueueInv /\ UNCHANGED <<ring, posted, sendVars>>
    /\ pc'.at \in {"check", "expired", "closing", "undefined", "decide", pc.at}
        => QueueInv'
  BY DEF QueueInv, RingOK, RingType, RingIsFifo, WaitingAreMessages, SendsTheOldest,
         LoopOK, Peek, PlaceOf, sendVars

\* The decision what to do next.
LEMMA DecideHolds == QueueInv /\ Decide => QueueInv'
<1> SUFFICES ASSUME QueueInv, Decide PROVE QueueInv'
  OBVIOUS
<1>1. ring' = ring /\ posted' = posted /\ buffer' = buffer /\ outLen' = outLen
  BY DEF Decide, queueVars, sendVars
<1>2. pc'.at = IF outLen > 0 THEN "send"
               ELSE IF ring.size > 0 THEN "serialize" ELSE "check"
  BY DEF Decide, Goto
<1>3. RingOK' /\ SendsTheOldest'
  BY <1>1 DEF QueueInv, RingOK, RingType, RingIsFifo, WaitingAreMessages,
              SendsTheOldest, Peek, PlaceOf
<1>4. LoopOK'
  <2>1. outLen \in {Idle} \cup Lengths /\ Lengths \subseteq Nat \ {0}
    BY DEF QueueInv, LoopOK
  <2>2. outLen > 0 <=> outLen # Idle
    BY <2>1 DEF Idle
  <2> QED
    BY <1>1, <1>2, <2>1, <2>2 DEF LoopOK
<1> QED
  BY <1>3, <1>4 DEF QueueInv

\* The oldest message is serialised.
LEMMA BeginMessageHolds == QueueInv /\ BeginMessage => QueueInv'
<1> SUFFICES ASSUME QueueInv, BeginMessage PROVE QueueInv'
  OBVIOUS
<1>1. /\ ring' = ring /\ posted' = posted /\ pc'.at = "check"
      /\ buffer' = Peek(ring) /\ outLen' = Peek(ring).len /\ ring.size > 0
  BY DEF BeginMessage, queueVars, Goto, QueueInv, LoopOK
<1>2. RingOK'
  BY <1>1 DEF QueueInv, RingOK, RingType, RingIsFifo, WaitingAreMessages, PlaceOf
<1>3. Peek(ring).len \in Lengths
  <2>1. RingType /\ 1 \in 1 .. ring.size /\ 1 \in 1 .. Capacity
    BY <1>1 DEF QueueInv, RingOK, RingType
  <2>2. PlaceOf(ring, 1) = ring.front
    BY <2>1, PlacesOfTheRing
  <2> QED
    BY <2>1, <2>2 DEF QueueInv, RingOK, WaitingAreMessages, Peek
<1>4. SendsTheOldest' /\ LoopOK'
  BY <1>1, <1>3 DEF SendsTheOldest, LoopOK, Peek
<1> QED
  BY <1>2, <1>4 DEF QueueInv

\* A pass over the clients: the message goes on being sent, or is popped.
LEMMA TrySendHolds == ASSUME NEW w PROVE QueueInv /\ TrySend(w) => QueueInv'
<1> SUFFICES ASSUME QueueInv, TrySend(w) PROVE QueueInv'
  OBVIOUS
<1>1. posted' = posted /\ buffer' = buffer /\ pc'.at = "check"
  BY DEF TrySend, Goto
<1>2. CASE DoneSending
  <2>1. ring.size > 0 /\ ring' = Popped(ring) /\ outLen' = Idle
    BY <1>2 DEF TrySend, EndMessage
  <2>2. RingOK'
    BY <1>1, <2>1, PopKeepsTheQueue DEF QueueInv
  <2>3. SendsTheOldest' /\ LoopOK'
    BY <1>1, <2>1 DEF SendsTheOldest, LoopOK
  <2> QED
    BY <2>2, <2>3 DEF QueueInv
<1>3. CASE ~DoneSending
  <2>1. ring' = ring /\ outLen' = outLen
    BY <1>3 DEF TrySend
  <2> QED
    BY <1>1, <2>1, ElsewhereHolds DEF sendVars
<1> QED
  BY <1>2, <1>3

-----------------------------------------------------------------------------
LEMMA NextHolds == QueueInv /\ [Next]_vars => QueueInv'
<1> SUFFICES ASSUME QueueInv, [Next]_vars PROVE QueueInv'
  OBVIOUS
<1>1. CASE Enqueue
  BY <1>1, EnqueueHolds
<1>2. CASE CheckTimeout \/ Detach \/ CloseConnection
  <2>1. ring' = ring /\ posted' = posted /\ buffer' = buffer /\ outLen' = outLen
    BY <1>2 DEF CheckTimeout, Detach, CloseConnection, queueVars, sendVars
  <2>2. pc'.at \in {"check", "expired", "closing", "undefined", "decide"}
    BY <1>2 DEF CheckTimeout, Detach, CloseConnection, Goto, AtSlot
  <2> QED
    BY <2>1, <2>2, ElsewhereHolds DEF sendVars
<1>3. CASE Decide
  BY <1>3, DecideHolds
<1>4. CASE BeginMessage
  BY <1>4, BeginMessageHolds
<1>5. CASE \E w \in Writes : TrySend(w)
  BY <1>5, TrySendHolds
<1>6. CASE \E c \in Conns : Callback(c)
  <2>1. PICK c \in Conns : NewConnection(c) \/ Acknowledged(c) \/ Disconnected(c)
    BY <1>6 DEF Callback
  <2>2. ring' = ring /\ posted' = posted /\ buffer' = buffer /\ outLen' = outLen /\ pc' = pc
    BY <2>1 DEF NewConnection, Acknowledged, Disconnected, queueVars, sendVars
  <2> QED
    BY <2>2, ElsewhereHolds DEF sendVars
<1>7. CASE \E i \in Slots : TimeoutReached(i)
  <2>1. ring' = ring /\ posted' = posted /\ buffer' = buffer /\ outLen' = outLen /\ pc' = pc
    BY <1>7 DEF TimeoutReached, queueVars, sendVars
  <2> QED
    BY <2>1, ElsewhereHolds DEF sendVars
<1>8. CASE UNCHANGED vars
  <2>1. ring' = ring /\ posted' = posted /\ buffer' = buffer /\ outLen' = outLen /\ pc' = pc
    BY <1>8 DEF vars
  <2> QED
    BY <2>1, ElsewhereHolds DEF sendVars
<1> QED
  BY <1>1, <1>2, <1>3, <1>4, <1>5, <1>6, <1>7, <1>8 DEF Next, NetworkLoop

\* The queue's part of the state is inductive on its own, callbacks or not.
THEOREM QueueInvariance == Spec => []QueueInv
  BY InitHolds, NextHolds, PTL DEF Spec

\* The ring of impl/queue.hpp is a queue, whoever pushes between which steps.
THEOREM RingIsAlwaysFifo == Spec => []RingIsFifo
<1>1. QueueInv => RingIsFifo
  BY DEF QueueInv, RingOK
<1> QED
  BY QueueInvariance, <1>1, PTL

\* The message in out_message_buffer is the one that will be popped, and
\* pop_blocking, called under the lwIP lock, finds it there.
THEOREM TheOldestIsSent == Spec => []SendsTheOldest
<1>1. QueueInv => SendsTheOldest
  BY DEF QueueInv
<1> QED
  BY QueueInvariance, <1>1, PTL
-----------------------------------------------------------------------------
\* The clients, when no callback comes while one of them is being timed out
\* (with one, a connection may be closed twice or be left behind: see the README).
\* A slot given up in a timeout is still occupied and due before, and its
\* connection is nobody's but network_loop's after.
ClientRecord == [pcb : Conns \cup {NoConn}, written : Nat, acked : Nat, timer : Timers]

ConnType(c) ==
    /\ DOMAIN conn[c] = {"state", "slot", "unacked", "sent"}
    /\ conn[c].slot \in Slots /\ conn[c].unacked \in Nat
    /\ conn[c].state \in {"new", "open", "gone"}
    /\ conn[c].state = "new" => conn[c].unacked = 0

ClientTypes ==
    /\ client \in [Slots -> ClientRecord]
    /\ DOMAIN conn = Conns
    /\ \A c \in Conns : ConnType(c)
    /\ pc.i \in Slots

GivenUp ==
    /\ pc.at = "expired" => Open(pc.i) /\ client[pc.i].timer = "due"
    /\ pc.at = "closing" => pc.tpcb \in Conns /\ \A i \in Slots : client[i].pcb # pc.tpcb

ClientsInv == ClientTypes /\ SlotsAgree /\ NoOrphanConnection /\ TimedWhileOwing /\ GivenUp

LEMMA ClientsInit == Init => ClientsInv
<1> SUFFICES ASSUME Init PROVE ClientsInv
  OBVIOUS
<1> USE ClientsAssumption, ConnsAssumption
<1>1. /\ client = [i \in Slots |->
                     [pcb |-> NoConn, written |-> 0, acked |-> 0, timer |-> "never"]]
      /\ conn = [c \in Conns |->
                   [state |-> "new", slot |-> 0, unacked |-> 0, sent |-> << >>]]
      /\ pc = [at |-> "check", i |-> 0, tpcb |-> NoConn] /\ 0 \in Slots
  BY DEF Init, Slots
<1>2. \A i \in Slots : ~Open(i)
  BY <1>1 DEF Open
<1>3. client \in [Slots -> ClientRecord]
  BY <1>1 DEF ClientRecord, Timers
<1>4. DOMAIN conn = Conns /\ \A c \in Conns : conn[c].state = "new" /\ ConnType(c)
  BY <1>1 DEF ConnType
<1> QED
  BY <1>1, <1>2, <1>3, <1>4
     DEF ClientsInv, ClientTypes, SlotsAgree, NoOrphanConnection, TimedWhileOwing, GivenUp

\* Steps that touch neither the clients nor what is being sent.
LEMMA ElsewhereKeepsClients ==
    ASSUME ClientsInv, UNCHANGED <<client, conn, outLen>>, pc'.i \in Slots,
           pc'.at \in {"expired", "closing"} => pc' = pc \/ (Open(pc'.i) /\ pc'.at = "expired"
                                                          /\ client[pc'.i].timer = "due"),
           pc.at = "closing" => pc' = pc
    PROVE  ClientsInv'
  BY DEF ClientsInv, ClientTypes, ConnType, SlotsAgree, NoOrphanConnection, TimedWhileOwing,
         GivenUp, Open, Listens

\* Outside the window, a connection that is open listens, and no other slot has it.
LEMMA OpenListens ==
    ASSUME ClientsInv, pc.at # "closing", NEW c \in Conns, conn[c].state = "open"
    PROVE  /\ client[conn[c].slot].pcb = c /\ conn[c].slot \in Slots
           /\ \A j \in Slots : j # conn[c].slot => client[j].pcb # c
<1>1. client[conn[c].slot].pcb = c /\ conn[c].slot \in Slots
  BY DEF ClientsInv, ClientTypes, ConnType, NoOrphanConnection, Listens
<1>2. ASSUME NEW j \in Slots, client[j].pcb = c
      PROVE  conn[c].slot = j
  BY <1>2, ConnsAssumption DEF ClientsInv, SlotsAgree, Open
<1> QED
  BY <1>1, <1>2

\* A connection ends, and its slot is given up with it or was before.
LEMMA GoneKeepsType ==
    ASSUME ClientTypes, NEW c \in Conns, NEW d \in Conns,
           conn'[d] = conn[d] \/ (d = c /\ conn'[d] = Gone(c))
    PROVE  /\ ConnType(d)' /\ conn'[d].slot = conn[d].slot
           /\ conn'[d].state \in {conn[d].state, "gone"}
           /\ d # c => conn'[d] = conn[d]
<1>1. CASE conn'[d] = conn[d]
  BY <1>1 DEF ClientTypes, ConnType
<1>2. CASE d = c /\ conn'[d] = Gone(c)
  <2>1. ConnType(c)  BY DEF ClientTypes
  <2>2. /\ DOMAIN Gone(c) = DOMAIN conn[c] /\ Gone(c).state = "gone" /\ Gone(c).unacked = 0
        /\ Gone(c).slot = conn[c].slot
    BY <2>1 DEF ConnType, Gone
  <2> QED  BY <1>2, <2>1, <2>2 DEF ConnType
<1> QED
  BY <1>1, <1>2

LEMMA LengthOrIdle ==
    ASSUME QueueInv
    PROVE  outLen = Idle \/ outLen \in Nat \ {0}
  BY LengthsAssumption DEF QueueInv, LoopOK

LEMMA NewConnectionHolds ==
    ASSUME QueueInv, ClientsInv, ~Interrupts, NEW c \in Conns, NewConnection(c)
    PROVE  ClientsInv'
<1> USE ConnsAssumption
<1>1. /\ UNCHANGED <<outLen, pc>> /\ pc.at \notin {"expired", "closing"}
      /\ conn[c].state = "new" /\ ConnType(c) /\ conn[c].unacked = 0
      /\ client \in [Slots -> ClientRecord]
  BY DEF NewConnection, sendVars, MayCallBack, InWindow, ClientsInv, ClientTypes, ConnType
<1>2. \A j \in Slots : client[j].pcb # c
  BY <1>1 DEF ClientsInv, SlotsAgree, Open
<1>3. CASE \E i \in Slots : /\ client[i].pcb = NoConn
                            /\ client' = [client EXCEPT ![i] = NewClient(i, c)]
                            /\ conn' = [conn EXCEPT ![c].state = "open", ![c].slot = i]
  <2>1. PICK i \in Slots : /\ client[i].pcb = NoConn
                           /\ client' = [client EXCEPT ![i] = NewClient(i, c)]
                           /\ conn' = [conn EXCEPT ![c].state = "open", ![c].slot = i]
    BY <1>3
  <2>2. /\ NewClient(i, c) \in ClientRecord
        /\ NewClient(i, c).pcb = c /\ NewClient(i, c).written = 0 /\ NewClient(i, c).acked = 0
        /\ NewClient(i, c).timer = "never"
    BY DEF NewClient, ClientRecord, Timers
  <2>3. /\ client' \in [Slots -> ClientRecord] /\ client'[i] = NewClient(i, c)
        /\ \A j \in Slots : j # i => client'[j] = client[j]
    BY <1>1, <2>1, <2>2
  <2>4. /\ DOMAIN conn' = Conns /\ conn'[c].state = "open" /\ conn'[c].slot = i
        /\ conn'[c].unacked = 0 /\ ConnType(c)'
        /\ \A d \in Conns : d # c => conn'[d] = conn[d]
    BY <1>1, <2>1 DEF ClientsInv, ClientTypes, ConnType
  <2>5. ClientTypes'
    BY <1>1, <2>3, <2>4 DEF ClientsInv, ClientTypes, ConnType
  <2>6. NoOrphanConnection'
    <3> SUFFICES ASSUME NEW d \in Conns, conn'[d].state = "open" PROVE Listens(d)'
      BY DEF NoOrphanConnection
    <3>1. CASE d = c  BY <2>2, <2>3, <2>4, <3>1 DEF Listens
    <3>2. CASE d # c
      <4>1. conn[d].state = "open"  BY <2>4, <3>2
      <4>2. client[conn[d].slot].pcb = d /\ conn[d].slot \in Slots
        BY <1>1, <4>1, OpenListens
      <4>3. conn[d].slot # i  BY <2>1, <4>2
      <4> QED  BY <2>3, <2>4, <3>2, <4>2, <4>3 DEF Listens
    <3> QED  BY <3>1, <3>2
  <2>7. SlotsAgree'
    <3> SUFFICES ASSUME NEW j \in Slots, client'[j].pcb # NoConn
                 PROVE  LET d == client'[j].pcb
                        IN  /\ conn'[d].state = "open" /\ conn'[d].slot = j
                            /\ conn'[d].unacked = client'[j].written - client'[j].acked
                            /\ outLen # Idle => client'[j].written <= outLen
                            /\ outLen = Idle => conn'[d].unacked = 0
      BY <1>1 DEF SlotsAgree, Open
    <3>1. CASE j = i
      <4>1. outLen # Idle => 0 <= outLen
        BY LengthOrIdle
      <4> QED  BY <2>2, <2>3, <2>4, <3>1, <4>1
    <3>2. CASE j # i
      <4>1. client[j].pcb \in Conns \ {c}  BY <1>1, <1>2, <2>3, <3>2 DEF ClientRecord
      <4> QED  BY <2>3, <2>4, <3>2, <4>1 DEF ClientsInv, SlotsAgree, Open
    <3> QED  BY <3>1, <3>2
  <2>8. TimedWhileOwing' /\ GivenUp'
    BY <1>1, <2>2, <2>3 DEF ClientsInv, TimedWhileOwing, GivenUp, Open
  <2> QED  BY <2>5, <2>6, <2>7, <2>8 DEF ClientsInv
<1>4. CASE conn' = [conn EXCEPT ![c] = Gone(c)] /\ UNCHANGED client
  <2>1. \A d \in Conns : /\ ConnType(d)' /\ conn'[d].slot = conn[d].slot
                         /\ conn'[d].state \in {conn[d].state, "gone"}
                         /\ d # c => conn'[d] = conn[d]
    BY <1>4, GoneKeepsType DEF ClientsInv, ClientTypes
  <2>2. DOMAIN conn' = Conns  BY <1>4 DEF ClientsInv, ClientTypes
  <2>3. ClientTypes' /\ GivenUp' /\ TimedWhileOwing'
    BY <1>1, <1>4, <2>1, <2>2 DEF ClientsInv, ClientTypes, GivenUp, TimedWhileOwing, Open
  <2>4. SlotsAgree'
    BY <1>1, <1>2, <1>4, <2>1 DEF ClientsInv, SlotsAgree, Open, ClientRecord
  <2>5. NoOrphanConnection'
    BY <1>1, <1>4, <2>1 DEF ClientsInv, NoOrphanConnection, Listens
  <2> QED  BY <2>3, <2>4, <2>5 DEF ClientsInv
<1> QED
  BY <1>3, <1>4 DEF NewConnection
\* An acknowledgement comes for what its slot has written.
LEMMA AcknowledgedHolds ==
    ASSUME QueueInv, ClientsInv, ~Interrupts, NEW c \in Conns, Acknowledged(c)
    PROVE  ClientsInv'
<1> USE ConnsAssumption
<1> DEFINE i == conn[c].slot
<1>1. /\ UNCHANGED <<outLen, pc>> /\ pc.at \notin {"expired", "closing"}
      /\ conn[c].state = "open" /\ ConnType(c) /\ client \in [Slots -> ClientRecord]
  BY DEF Acknowledged, sendVars, MayCallBack, InWindow, ClientsInv, ClientTypes
<1>2. /\ client[i].pcb = c /\ i \in Slots
      /\ \A j \in Slots : j # i => client[j].pcb # c
  BY <1>1, OpenListens
<1>3. /\ conn[c].unacked = client[i].written - client[i].acked
      /\ outLen # Idle => client[i].written <= outLen
      /\ outLen = Idle => conn[c].unacked = 0
      /\ client[i].written \in Nat /\ client[i].acked \in Nat /\ conn[c].unacked \in Nat
  BY <1>1, <1>2 DEF ClientsInv, SlotsAgree, Open, ClientRecord, ConnType
<1>4. PICK n \in 1 .. conn[c].unacked :
        /\ client' = [client EXCEPT ![i].acked = client[i].acked + n,
                                    ![i].timer = TimeoutAfter(client[i].acked + n)]
        /\ conn' = [conn EXCEPT ![c].unacked = @ - n]
  BY DEF Acknowledged
<1> DEFINE a == client[i].acked + n
<1>5. outLen \in Nat \ {0} /\ a \in Nat /\ a <= client[i].written /\ client[i].written > 0
  BY <1>3, <1>4, LengthOrIdle
<1>6. TimeoutAfter(a) \in Timers /\ (TimeoutAfter(a) # "never" <=> a < outLen)
  BY DEF TimeoutAfter, Timers
<1>7. /\ client' \in [Slots -> ClientRecord]
      /\ client'[i].pcb = c /\ client'[i].written = client[i].written
      /\ client'[i].acked = a /\ client'[i].timer = TimeoutAfter(a)
      /\ \A j \in Slots : j # i => client'[j] = client[j]
  BY <1>1, <1>2, <1>4, <1>5, <1>6 DEF ClientRecord
<1>8. /\ DOMAIN conn' = Conns /\ conn'[c].state = "open" /\ conn'[c].slot = i
      /\ conn'[c].unacked = conn[c].unacked - n /\ ConnType(c)'
      /\ \A d \in Conns : d # c => conn'[d] = conn[d]
  BY <1>1, <1>3, <1>4 DEF ClientsInv, ClientTypes, ConnType
<1> HIDE DEF i, a
<1>9. ClientTypes'
  BY <1>1, <1>7, <1>8 DEF ClientsInv, ClientTypes, ConnType
<1>10. SlotsAgree'
  <2>1. /\ conn'[c].unacked = client'[i].written - client'[i].acked
        /\ outLen # Idle /\ client'[i].written <= outLen
    BY <1>3, <1>4, <1>5, <1>7, <1>8 DEF a, Idle
  <2>2. ASSUME NEW j \in Slots, j # i, client'[j].pcb # NoConn
        PROVE  LET d == client'[j].pcb
               IN  /\ conn'[d].state = "open" /\ conn'[d].slot = j
                   /\ conn'[d].unacked = client'[j].written - client'[j].acked
                   /\ client'[j].written <= outLen
    <3>1. client[j].pcb \in Conns \ {c} /\ client'[j] = client[j]
      BY <1>1, <1>2, <1>7, <2>2 DEF ClientRecord
    <3> QED  BY <1>8, <2>1, <2>2, <3>1 DEF ClientsInv, SlotsAgree, Open
  <2> QED  BY <1>1, <1>7, <1>8, <2>1, <2>2 DEF SlotsAgree, Open
<1>11. NoOrphanConnection'
  <2> SUFFICES ASSUME NEW d \in Conns, conn'[d].state = "open" PROVE Listens(d)'
    BY DEF NoOrphanConnection
  <2>1. CASE d = c  BY <1>7, <1>8, <2>1 DEF Listens
  <2>2. CASE d # c
    <3>1. client[conn[d].slot].pcb = d /\ conn[d].slot \in Slots
      BY <1>1, <1>8, <2>2, OpenListens
    <3> QED  BY <1>2, <1>7, <1>8, <2>2, <3>1 DEF Listens
  <2> QED  BY <2>1, <2>2
<1>12. TimedWhileOwing' /\ GivenUp'
  <2>1. outLen # Idle /\ client'[i].written > 0 /\ (client'[i].timer # "never" <=> client'[i].acked < outLen)
    BY <1>5, <1>6, <1>7 DEF Idle
  <2>2. \A j \in Slots : j # i => client'[j] = client[j]  BY <1>7
  <2> QED  BY <1>1, <2>1, <2>2 DEF ClientsInv, TimedWhileOwing, GivenUp, Open
<1> QED
  BY <1>9, <1>10, <1>11, <1>12 DEF ClientsInv

\* Some slots are given up, each with the connection it had; nothing else changes
\* in them.
LEMMA SlotsGivenUp ==
    ASSUME ClientsInv, pc.at \notin {"expired", "closing"},
           pc'.at \notin {"expired", "closing"}, pc'.i \in Slots,
           UNCHANGED outLen, NEW lost, lost \subseteq Slots,
           client' \in [Slots -> ClientRecord], DOMAIN conn' = Conns,
           \A i \in Slots : client'[i] = IF i \in lost THEN [client[i] EXCEPT !.pcb = NoConn]
                                         ELSE client[i],
           \A c \in Conns : conn'[c] = conn[c] \/ conn'[c] = Gone(c),
           \A c \in Conns : conn[c].state = "open" =>
               conn'[c] = IF conn[c].slot \in lost THEN Gone(c) ELSE conn[c]
    PROVE  ClientsInv'
<1> USE ConnsAssumption
<1>1. client \in [Slots -> ClientRecord] /\ \A c \in Conns : ConnType(c)
  BY DEF ClientsInv, ClientTypes
<1>2. \A i \in Slots : /\ i \in lost => client'[i].pcb = NoConn
                       /\ i \notin lost => client'[i] = client[i]
  BY <1>1 DEF ClientRecord
<1>3. \A c \in Conns : ConnType(c)' /\ conn'[c].state \in {conn[c].state, "gone"}
  BY GoneKeepsType DEF ClientsInv, ClientTypes
<1>4. ClientTypes'
  BY <1>3 DEF ClientTypes
<1>5. SlotsAgree'
  <2> SUFFICES ASSUME NEW i \in Slots, client'[i].pcb # NoConn
               PROVE  LET d == client'[i].pcb
                      IN  /\ conn'[d].state = "open" /\ conn'[d].slot = i
                          /\ conn'[d].unacked = client'[i].written - client'[i].acked
                          /\ outLen # Idle => client'[i].written <= outLen
                          /\ outLen = Idle => conn'[d].unacked = 0
    BY DEF SlotsAgree, Open
  <2>1. i \notin lost /\ client'[i] = client[i] /\ client[i].pcb \in Conns
    BY <1>1, <1>2 DEF ClientRecord
  <2>2. conn[client[i].pcb].state = "open" /\ conn[client[i].pcb].slot = i
    BY <2>1 DEF ClientsInv, SlotsAgree, Open
  <2>3. conn'[client[i].pcb] = conn[client[i].pcb]
    BY <2>1, <2>2
  <2> QED  BY <2>1, <2>2, <2>3 DEF ClientsInv, SlotsAgree, Open
<1>6. NoOrphanConnection'
  <2> SUFFICES ASSUME NEW c \in Conns, conn'[c].state = "open" PROVE Listens(c)'
    BY DEF NoOrphanConnection
  <2>1. conn[c].state = "open"
    BY <1>3
  <2>2. client[conn[c].slot].pcb = c /\ conn[c].slot \in Slots
    BY <2>1, OpenListens
  <2>3. conn[c].slot \notin lost
    <3>1. Gone(c).state = "gone"  BY <1>1 DEF Gone, ConnType
    <3> QED  BY <2>1, <3>1
  <2> QED  BY <1>2, <2>1, <2>2, <2>3 DEF Listens
<1>7. TimedWhileOwing' /\ GivenUp'
  BY <1>2 DEF ClientsInv, TimedWhileOwing, GivenUp, Open
<1> QED
  BY <1>4, <1>5, <1>6, <1>7 DEF ClientsInv

LEMMA DisconnectedHolds ==
    ASSUME ClientsInv, ~Interrupts, NEW c \in Conns, Disconnected(c)
    PROVE  ClientsInv'
<1>1. /\ UNCHANGED <<outLen, pc>> /\ pc.at \notin {"expired", "closing"}
      /\ conn[c].state = "open" /\ client \in [Slots -> ClientRecord]
      /\ DOMAIN conn = Conns /\ pc.i \in Slots
      /\ client' = [client EXCEPT ![conn[c].slot].pcb = NoConn]
      /\ conn' = [conn EXCEPT ![c] = Gone(c)]
  BY DEF Disconnected, sendVars, MayCallBack, InWindow, ClientsInv, ClientTypes
<1>2. conn[c].slot \in Slots
  BY <1>1, OpenListens
<1>3. \A d \in Conns : conn[d].state = "open" /\ d # c => conn[d].slot # conn[c].slot
  BY <1>1, OpenListens
<1>4. \A i \in Slots : client'[i] = IF i \in {conn[c].slot}
                                    THEN [client[i] EXCEPT !.pcb = NoConn] ELSE client[i]
  BY <1>1, <1>2
<1>5. client' \in [Slots -> ClientRecord]
  BY <1>1, <1>2 DEF ClientRecord
<1>6. \A d \in Conns : /\ conn'[d] = conn[d] \/ conn'[d] = Gone(d)
                       /\ conn[d].state = "open" =>
                            conn'[d] = IF conn[d].slot \in {conn[c].slot} THEN Gone(d) ELSE conn[d]
  BY <1>1, <1>3
<1>7. DOMAIN conn' = Conns /\ {conn[c].slot} \subseteq Slots
  BY <1>1, <1>2
<1> QED
  BY <1>1, <1>4, <1>5, <1>6, <1>7, SlotsGivenUp
LEMMA TimeoutReachedHolds ==
    ASSUME ClientsInv, NEW i \in Slots, TimeoutReached(i)
    PROVE  ClientsInv'
<1>1. /\ UNCHANGED <<outLen, pc, conn>> /\ client[i].timer = "armed"
      /\ client' = [client EXCEPT ![i].timer = "due"] /\ client \in [Slots -> ClientRecord]
  BY DEF TimeoutReached, sendVars, ClientsInv, ClientTypes
<1>2. /\ client' \in [Slots -> ClientRecord]
      /\ \A j \in Slots : /\ client'[j].pcb = client[j].pcb
                          /\ client'[j].written = client[j].written
                          /\ client'[j].acked = client[j].acked
                          /\ client'[j].timer # "never" <=> client[j].timer # "never"
                          /\ client[j].timer = "due" => client'[j].timer = "due"
  BY <1>1 DEF ClientRecord, Timers
<1>3. ClientTypes' /\ SlotsAgree'
  BY <1>1, <1>2 DEF ClientsInv, ClientTypes, ConnType, SlotsAgree, Open
<1>4. NoOrphanConnection' /\ TimedWhileOwing' /\ GivenUp'
  BY <1>1, <1>2 DEF ClientsInv, ClientTypes, ConnType, NoOrphanConnection, Listens,
                    TimedWhileOwing, GivenUp, Open
<1> QED
  BY <1>3, <1>4 DEF ClientsInv

\* network_loop's steps that only look.
LEMMA LookingHolds ==
    ASSUME ClientsInv, Enqueue \/ CheckTimeout \/ Decide
    PROVE  ClientsInv'
<1> USE ClientsAssumption
<1>1. UNCHANGED <<client, conn, outLen>> /\ pc.i \in Slots /\ 0 \in Slots
  BY DEF Enqueue, CheckTimeout, Decide, sendVars, ClientsInv, ClientTypes, Slots
<1>2. CASE Enqueue
  <2>1. pc' = pc  BY <1>2 DEF Enqueue
  <2> QED  BY <1>1, <2>1, ElsewhereKeepsClients
<1>3. CASE CheckTimeout
  <2>1. /\ pc.at = "check" /\ pc'.i \in Slots
        /\ pc'.at \in {"expired", "closing"} =>
             pc'.at = "expired" /\ Open(pc'.i) /\ client[pc'.i].timer = "due"
    BY <1>1, <1>3 DEF CheckTimeout, AtSlot, Goto, Open
  <2> QED  BY <1>1, <2>1, ElsewhereKeepsClients
<1>4. CASE Decide
  <2>1. pc.at = "decide" /\ pc'.i = 0 /\ pc'.at \notin {"expired", "closing"}
    BY <1>4 DEF Decide, Goto
  <2> QED  BY <1>1, <2>1, ElsewhereKeepsClients
<1> QED
  BY <1>2, <1>3, <1>4

\* The slot is given up first, and the connection it had closed then.
LEMMA DetachHolds ==
    ASSUME ClientsInv, Detach
    PROVE  ClientsInv'
<1> USE ConnsAssumption
<1> DEFINE i == pc.i
           t == client[i].pcb
<1>1. /\ pc.at = "expired" /\ i \in Slots /\ t \in Conns
      /\ client \in [Slots -> ClientRecord]
      /\ client' = [client EXCEPT ![i].pcb = NoConn] /\ UNCHANGED <<conn, outLen>>
      /\ pc'.at = "closing" /\ pc'.i = i /\ pc'.tpcb = t
  BY DEF Detach, AtSlot, sendVars, ClientsInv, ClientTypes, GivenUp, Open, ClientRecord
<1>2. conn[t].state = "open" /\ conn[t].slot = i
  BY <1>1 DEF ClientsInv, SlotsAgree, Open
<1> HIDE DEF i, t
<1>3. /\ client' \in [Slots -> ClientRecord] /\ client'[i].pcb = NoConn
      /\ \A j \in Slots : j # i => client'[j] = client[j]
  BY <1>1 DEF ClientRecord
<1>4. \A j \in Slots : j # i => client[j].pcb # t
  BY <1>1, <1>2 DEF ClientsInv, SlotsAgree, Open
<1>5. ClientTypes' /\ GivenUp'
  BY <1>1, <1>3, <1>4 DEF ClientsInv, ClientTypes, ConnType, GivenUp
<1>6. SlotsAgree' /\ TimedWhileOwing'
  BY <1>1, <1>3 DEF ClientsInv, SlotsAgree, TimedWhileOwing, Open
<1>7. NoOrphanConnection'
  <2> SUFFICES ASSUME NEW c \in Conns, conn[c].state = "open", c # t
               PROVE  Listens(c)'
    BY <1>1 DEF NoOrphanConnection
  <2>1. client[conn[c].slot].pcb = c /\ conn[c].slot \in Slots
    BY <1>1, OpenListens
  <2>2. conn[c].slot # i
    BY <2>1 DEF t
  <2> QED  BY <1>1, <1>3, <2>1, <2>2 DEF Listens
<1> QED
  BY <1>5, <1>6, <1>7 DEF ClientsInv

LEMMA CloseConnectionHolds ==
    ASSUME ClientsInv, CloseConnection
    PROVE  ClientsInv'
<1> USE ConnsAssumption, ClientsAssumption
<1>1. /\ pc.at = "closing" /\ UNCHANGED <<client, outLen>> /\ pc.i \in Slots /\ 0 \in Slots
      /\ client \in [Slots -> ClientRecord] /\ DOMAIN conn = Conns
      /\ pc.tpcb \in Conns /\ \A i \in Slots : client[i].pcb # pc.tpcb
  BY DEF CloseConnection, sendVars, ClientsInv, ClientTypes, GivenUp, Slots
<1>2. pc'.i \in Slots /\ pc'.at \in {"check", "decide", "undefined"}
  BY <1>1 DEF CloseConnection, AtSlot, Goto
<1>3. CASE pc.tpcb \in Conns /\ conn' = [conn EXCEPT ![pc.tpcb] = Gone(pc.tpcb)]
  <2>1. \A d \in Conns : /\ ConnType(d)' /\ conn'[d].slot = conn[d].slot
                         /\ conn'[d].state \in {conn[d].state, "gone"}
                         /\ d # pc.tpcb => conn'[d] = conn[d]
    BY <1>1, <1>3, GoneKeepsType DEF ClientsInv, ClientTypes
  <2>2. conn'[pc.tpcb].state = "gone"
    BY <1>1, <1>3 DEF Gone, ClientsInv, ClientTypes, ConnType
  <2>3. ClientTypes' /\ GivenUp' /\ TimedWhileOwing'
    BY <1>1, <1>2, <1>3, <2>1 DEF ClientsInv, ClientTypes, GivenUp, TimedWhileOwing, Open
  <2>4. SlotsAgree'
    BY <1>1, <2>1 DEF ClientsInv, SlotsAgree, Open, ClientRecord
  <2>5. NoOrphanConnection'
    BY <1>1, <1>2, <2>1, <2>2 DEF ClientsInv, NoOrphanConnection, Listens
  <2> QED  BY <2>3, <2>4, <2>5 DEF ClientsInv
<1>4. CASE ~(pc.tpcb # NoConn /\ conn[pc.tpcb].state = "open")
  <2>1. conn' = conn  BY <1>4 DEF CloseConnection
  <2>2. \A c \in Conns : conn[c].state = "open" => Listens(c)
    BY <1>1, <1>4 DEF ClientsInv, NoOrphanConnection
  <2>3. ClientTypes' /\ GivenUp' /\ TimedWhileOwing' /\ SlotsAgree'
    BY <1>1, <1>2, <2>1 DEF ClientsInv, ClientTypes, ConnType, GivenUp, TimedWhileOwing, Open, SlotsAgree
  <2>4. NoOrphanConnection'
    BY <1>1, <2>1, <2>2 DEF NoOrphanConnection, Listens
  <2> QED  BY <2>3, <2>4 DEF ClientsInv
<1> QED
  BY <1>1, <1>3, <1>4 DEF CloseConnection

\* A new message: nothing of the one before is in flight any more.
LEMMA BeginMessageKeepsClients ==
    ASSUME QueueInv, QueueInv', ClientsInv, BeginMessage
    PROVE  ClientsInv'
<1> USE ConnsAssumption, ClientsAssumption
<1>1. /\ UNCHANGED conn /\ outLen = Idle /\ outLen' # Idle /\ outLen' \in Nat \ {0}
      /\ pc.at = "serialize" /\ pc'.at = "check" /\ pc'.i \in Slots
      /\ client \in [Slots -> ClientRecord]
  <2>1. outLen' \in Nat \ {0}
    <3>1. Peek(ring).len \in Lengths
      <4>1. RingType /\ 1 \in 1 .. ring.size /\ 1 \in 1 .. Capacity
        BY DEF QueueInv, RingOK, RingType, LoopOK, BeginMessage
      <4>2. PlaceOf(ring, 1) = ring.front
        BY <4>1, PlacesOfTheRing
      <4> QED
        BY <4>1, <4>2 DEF QueueInv, RingOK, WaitingAreMessages, Peek
    <3> QED  BY <3>1 DEF BeginMessage
  <2>2. pc.at = "serialize" /\ pc' = [at |-> "check", i |-> 0, tpcb |-> NoConn] /\ conn' = conn
    BY DEF BeginMessage, Goto
  <2>3. outLen = Idle /\ client \in [Slots -> ClientRecord]
    BY <2>2 DEF QueueInv, LoopOK, ClientsInv, ClientTypes
  <2> QED  BY <2>1, <2>2, <2>3 DEF Slots, Idle
<1>2. /\ client' \in [Slots -> ClientRecord]
      /\ \A i \in Slots : /\ client'[i].pcb = client[i].pcb /\ client'[i].timer = client[i].timer
                          /\ Open(i) => client'[i].written = 0 /\ client'[i].acked = 0
  BY <1>1 DEF BeginMessage, Restart, ClientRecord, Open
<1>3. \A i \in Slots : Open(i) => /\ conn[client[i].pcb].state = "open"
                                  /\ conn[client[i].pcb].slot = i
                                  /\ conn[client[i].pcb].unacked = 0
                                  /\ client[i].timer = "never"
  BY <1>1 DEF ClientsInv, SlotsAgree, TimedWhileOwing
<1>4. ClientTypes' /\ GivenUp'
  BY <1>1, <1>2 DEF ClientsInv, ClientTypes, ConnType, GivenUp
<1>5. SlotsAgree' /\ TimedWhileOwing'
  BY <1>1, <1>2, <1>3 DEF SlotsAgree, TimedWhileOwing, Open
<1>6. NoOrphanConnection'
  BY <1>1, <1>2 DEF ClientsInv, ClientTypes, ConnType, NoOrphanConnection, Listens
<1> QED
  BY <1>4, <1>5, <1>6 DEF ClientsInv

(***************************************************************************)
(* What try_send makes of a client's record when it wrote something.       *)
(***************************************************************************)
LEMMA WrittenRecord ==
    ASSUME NEW r \in ClientRecord, NEW n \in Nat,
           NEW q, q = [r EXCEPT !.written = r.written + n, !.timer = "armed"]
    PROVE  /\ q \in ClientRecord /\ q.pcb = r.pcb
           /\ q.written = r.written + n
           /\ q.acked = r.acked /\ q.timer = "armed"
<1>1. r.written + n \in Nat  BY DEF ClientRecord
<1> DEFINE m == r.written + n
<1>2. m \in Nat  BY <1>1
<1>3. q = [r EXCEPT !.written = m, !.timer = "armed"]  OBVIOUS
<1>4. "armed" \in Timers  BY DEF Timers
<1> HIDE DEF m
<1>5. /\ q \in ClientRecord /\ q.pcb = r.pcb /\ q.written = m
      /\ q.acked = r.acked /\ q.timer = "armed"
  BY <1>2, <1>3, <1>4 DEF ClientRecord
<1> QED  BY <1>5 DEF m

\* A pass over the clients: each is given more of the message, or is found gone; and
\* if all had acknowledged it before, nothing is given.
LEMMA TrySendKeepsClients ==
    ASSUME QueueInv, ClientsInv, NEW w \in Writes, TrySend(w)
    PROVE  ClientsInv'
<1> USE ConnsAssumption, ClientsAssumption
<1>1. /\ pc.at = "send" /\ pc'.at = "check" /\ pc'.i \in Slots /\ outLen \in Nat \ {0}
      /\ outLen # Idle /\ client \in [Slots -> ClientRecord]
      /\ \A c \in Conns : ConnType(c)
  <2>1. client \in [Slots -> ClientRecord] /\ \A c \in Conns : ConnType(c)
    BY DEF ClientsInv, ClientTypes
  <2>2. pc.at = "send" /\ pc' = [at |-> "check", i |-> 0, tpcb |-> NoConn]
    BY DEF TrySend, Goto
  <2>3. outLen # Idle /\ 0 \in Slots
    BY <2>2 DEF QueueInv, LoopOK, Slots
  <2>4. outLen \in Nat \ {0}
    BY <2>3, LengthOrIdle
  <2> QED  BY <2>1, <2>2, <2>3, <2>4
<1>2. \A i \in Slots : /\ w[i] \in Lost .. outLen
                       /\ w[i] # 0 => MayWrite(i) /\ w[i] <= outLen - client[i].written
  BY DEF Writes
<1>3. \A i \in Slots : Open(i) =>
        /\ client[i].pcb \in Conns /\ conn[client[i].pcb].state = "open"
        /\ conn[client[i].pcb].slot = i
        /\ conn[client[i].pcb].unacked = client[i].written - client[i].acked
        /\ client[i].written <= outLen /\ client[i].acked <= client[i].written
  BY <1>1 DEF ClientsInv, SlotsAgree, Open, ClientRecord, ConnType
<1>4. /\ client' \in [Slots -> ClientRecord]
      /\ \A i \in Slots :
           /\ w[i] = Lost => client'[i].pcb = NoConn
           /\ w[i] = 0 => client'[i] = client[i]
           /\ w[i] > 0 => /\ client'[i].pcb = client[i].pcb
                          /\ client'[i].written = client[i].written + w[i]
                          /\ client'[i].acked = client[i].acked
                          /\ client'[i].timer = "armed"
  <2>1. client' = [i \in Slots |->
                     IF w[i] = Lost THEN [client[i] EXCEPT !.pcb = NoConn]
                     ELSE IF w[i] = 0 THEN client[i]
                     ELSE [client[i] EXCEPT !.written = @ + w[i], !.timer = "armed"]]
    BY DEF TrySend
  <2> SUFFICES ASSUME NEW i \in Slots
               PROVE  /\ client'[i] \in ClientRecord
                      /\ w[i] = Lost => client'[i].pcb = NoConn
                      /\ w[i] = 0 => client'[i] = client[i]
                      /\ w[i] > 0 => /\ client'[i].pcb = client[i].pcb
                                     /\ client'[i].written = client[i].written + w[i]
                                     /\ client'[i].acked = client[i].acked
                                     /\ client'[i].timer = "armed"
    BY <2>1
  <2>2. client[i] \in ClientRecord /\ w[i] \in Lost .. outLen  BY <1>1, <1>2
  <2>3. CASE w[i] = Lost
    <3>1. client'[i] = [client[i] EXCEPT !.pcb = NoConn]  BY <2>1, <2>3
    <3> QED  BY <2>2, <2>3, <3>1 DEF ClientRecord, Lost
  <2>4. CASE w[i] = 0
    <3>1. w[i] # Lost  BY <2>4 DEF Lost
    <3>2. client'[i] = client[i]  BY <2>1, <2>4, <3>1, Zenon
    <3> QED  BY <2>2, <2>4, <3>2 DEF Lost
  <2>5. CASE w[i] > 0
    <3>1. w[i] \in Nat /\ w[i] # Lost /\ w[i] # 0  BY <1>1, <2>2, <2>5 DEF Lost
    <3>2. client'[i] = [client[i] EXCEPT !.written = client[i].written + w[i], !.timer = "armed"]
      BY <2>1, <3>1, Zenon
    <3>3. /\ client'[i] \in ClientRecord /\ client'[i].pcb = client[i].pcb
          /\ client'[i].written = client[i].written + w[i]
          /\ client'[i].acked = client[i].acked /\ client'[i].timer = "armed"
      <4> DEFINE r == client[i]
                 n == w[i]
                 q == client'[i]
      <4>1. r \in ClientRecord /\ n \in Nat  BY <2>2, <3>1
      <4>2. q = [r EXCEPT !.written = r.written + n, !.timer = "armed"]  BY ONLY <3>2
      <4> HIDE DEF r, n, q
      <4>3. /\ q \in ClientRecord /\ q.pcb = r.pcb /\ q.written = r.written + n
            /\ q.acked = r.acked /\ q.timer = "armed"
        BY ONLY <4>1, <4>2, WrittenRecord
      <4> QED  BY <4>3 DEF r, n, q
    <3> QED  BY <3>1, <3>3
  <2> QED  BY <1>1, <2>2, <2>3, <2>4, <2>5 DEF Lost
<1>5. \A c \in Conns : Listens(c) => conn[c].slot \in Slots /\ Open(conn[c].slot)
  BY <1>1 DEF Listens, Open, ConnType
<1>6. DOMAIN conn' = Conns
      /\ \A c \in Conns :
           /\ ConnType(c)' /\ conn'[c].slot = conn[c].slot
           /\ ~Listens(c) => conn'[c] = conn[c]
           /\ Listens(c) /\ w[conn[c].slot] = Lost => conn'[c].state = "gone"
           /\ Listens(c) /\ w[conn[c].slot] # Lost =>
                /\ conn'[c].state = conn[c].state
                /\ conn'[c].unacked = conn[c].unacked + w[conn[c].slot]
  <2>1. /\ DOMAIN conn' = Conns
        /\ \A c \in Conns : conn'[c] =
             IF ~Listens(c) THEN conn[c]
             ELSE IF w[conn[c].slot] = Lost THEN Gone(c)
             ELSE [conn[c] EXCEPT !.unacked = @ + w[conn[c].slot],
                                  !.sent = @ \o Bytes(buffer, client[conn[c].slot].written,
                                                      w[conn[c].slot])]
    BY DEF TrySend
  <2> SUFFICES ASSUME NEW c \in Conns
               PROVE  /\ ConnType(c)' /\ conn'[c].slot = conn[c].slot
                      /\ ~Listens(c) => conn'[c] = conn[c]
                      /\ Listens(c) /\ w[conn[c].slot] = Lost => conn'[c].state = "gone"
                      /\ Listens(c) /\ w[conn[c].slot] # Lost =>
                           /\ conn'[c].state = conn[c].state
                           /\ conn'[c].unacked = conn[c].unacked + w[conn[c].slot]
    BY <2>1
  <2>2. CASE ~Listens(c)  BY <1>1, <2>1, <2>2 DEF ConnType
  <2>3. CASE Listens(c) /\ w[conn[c].slot] = Lost
    <3>1. conn'[c] = Gone(c)  BY <2>1, <2>3
    <3>2. Gone(c).state = "gone"  BY <1>1 DEF Gone, ConnType
    <3>3. ConnType(c)' /\ conn'[c].slot = conn[c].slot
      BY <3>1, GoneKeepsType DEF ClientsInv
    <3> QED  BY <2>3, <3>1, <3>2, <3>3
  <2>4. CASE Listens(c) /\ w[conn[c].slot] # Lost
    <3>1. w[conn[c].slot] \in Nat /\ conn[c].state = "open"
      <4>1. client[conn[c].slot].pcb = c /\ conn[c].slot \in Slots /\ Open(conn[c].slot)
        BY <1>5, <2>4 DEF Listens
      <4> QED  BY <1>2, <1>3, <2>4, <4>1 DEF Lost
    <3>2. /\ DOMAIN conn'[c] = {"state", "slot", "unacked", "sent"}
          /\ conn'[c].state = "open" /\ conn'[c].slot = conn[c].slot
          /\ conn'[c].unacked = conn[c].unacked + w[conn[c].slot]
      <4>1. conn'[c] = [conn[c] EXCEPT !.unacked = @ + w[conn[c].slot],
                                       !.sent = @ \o Bytes(buffer, client[conn[c].slot].written,
                                                           w[conn[c].slot])]
        BY <2>1, <2>4
      <4>2. ConnType(c)  BY <1>1
      <4> QED  BY <3>1, <4>1, <4>2 DEF ConnType
    <3> QED  BY <1>1, <2>4, <3>1, <3>2 DEF ConnType
  <2> QED  BY <2>2, <2>3, <2>4
<1>7. outLen' = outLen \/ (DoneSending /\ outLen' = Idle)
  BY DEF TrySend, EndMessage
<1>8. DoneSending => \A i \in Slots : Open(i) =>
        client[i].acked = outLen /\ client[i].written = outLen /\ w[i] = 0
  BY <1>1, <1>2, <1>3 DEF DoneSending, Open, MayWrite, ClientRecord
<1>9. ClientTypes' /\ GivenUp'
  BY <1>1, <1>4, <1>6 DEF ClientTypes, GivenUp
<1>10. ASSUME NEW i \in Slots, client'[i].pcb # NoConn
       PROVE  /\ Open(i) /\ w[i] \in Nat /\ client'[i].pcb = client[i].pcb
              /\ client'[i].written = client[i].written + w[i]
              /\ client'[i].acked = client[i].acked
              /\ w[i] = 0 => client'[i].timer = client[i].timer
              /\ w[i] # 0 => client'[i].timer = "armed"
              /\ w[i] + client[i].written <= outLen
  <2>1. w[i] # Lost /\ w[i] \in Nat  BY <1>2, <1>4, <1>10 DEF Lost
  <2>2. Open(i)  BY <1>2, <1>4, <1>10, <2>1 DEF Open, MayWrite
  <2> QED  BY <1>1, <1>2, <1>3, <1>4, <2>1, <2>2 DEF ClientRecord
<1>11. SlotsAgree'
  <2> SUFFICES ASSUME NEW i \in Slots, client'[i].pcb # NoConn
               PROVE  LET d == client'[i].pcb
                      IN  /\ conn'[d].state = "open" /\ conn'[d].slot = i
                          /\ conn'[d].unacked = client'[i].written - client'[i].acked
                          /\ outLen' # Idle => client'[i].written <= outLen'
                          /\ outLen' = Idle => conn'[d].unacked = 0
    BY DEF SlotsAgree, Open
  <2> DEFINE d == client[i].pcb
  <2>1. /\ Open(i) /\ w[i] \in Nat /\ client'[i].pcb = d
        /\ client'[i].written = client[i].written + w[i]
        /\ client'[i].acked = client[i].acked
        /\ w[i] + client[i].written <= outLen
    BY <1>10
  <2>2. /\ d \in Conns /\ conn[d].state = "open" /\ conn[d].slot = i /\ Listens(d)
        /\ conn[d].unacked = client[i].written - client[i].acked
        /\ client[i].written \in Nat /\ client[i].acked \in Nat
    BY <1>1, <1>3, <2>1 DEF Listens, ClientRecord
  <2>3. /\ conn'[d].state = "open" /\ conn'[d].slot = i
        /\ conn'[d].unacked = conn[d].unacked + w[i]
    BY <1>6, <2>1, <2>2 DEF Lost
  <2>4. outLen' = Idle => client[i].acked = client[i].written /\ w[i] = 0
    BY <1>1, <1>7, <1>8, <2>1
  <2>5. outLen' # Idle => outLen' = outLen
    BY <1>7
  <2> HIDE DEF d
  <2> QED  BY <2>1, <2>2, <2>3, <2>4, <2>5
<1>12. NoOrphanConnection'
  <2> SUFFICES ASSUME NEW c \in Conns, conn'[c].state = "open" PROVE Listens(c)'
    BY DEF NoOrphanConnection
  <2>1. Listens(c)
    <3>1. conn[c].state = "open"  BY <1>6 DEF Listens
    <3> QED  BY <1>1, <3>1 DEF ClientsInv, NoOrphanConnection
  <2>2. w[conn[c].slot] # Lost /\ conn[c].slot \in Slots /\ conn'[c].slot = conn[c].slot
    BY <1>5, <1>6, <2>1
  <2>3. client'[conn[c].slot].pcb = client[conn[c].slot].pcb
    <3>1. w[conn[c].slot] = 0 \/ w[conn[c].slot] > 0  BY <1>2, <2>2 DEF Lost
    <3> QED  BY <1>4, <2>2, <3>1
  <2> QED  BY <2>1, <2>2, <2>3 DEF Listens
<1>13. TimedWhileOwing'
  <2> SUFFICES ASSUME NEW i \in Slots, client'[i].pcb # NoConn
               PROVE  client'[i].timer # "never" <=>
                        outLen' # Idle /\ client'[i].written > 0 /\ client'[i].acked < outLen'
    BY DEF TimedWhileOwing, Open
  <2>1. /\ Open(i) /\ w[i] \in Nat
        /\ client'[i].written = client[i].written + w[i]
        /\ client'[i].acked = client[i].acked
        /\ w[i] = 0 => client'[i].timer = client[i].timer
        /\ w[i] # 0 => client'[i].timer = "armed"
        /\ w[i] + client[i].written <= outLen
    BY <1>10
  <2>2. /\ client[i].timer # "never" <=> client[i].written > 0 /\ client[i].acked < outLen
        /\ client[i].written \in Nat /\ client[i].acked \in Nat
        /\ client[i].acked <= client[i].written
    BY <1>1, <1>3, <2>1 DEF ClientsInv, TimedWhileOwing, ClientRecord
  <2>3. CASE outLen' = outLen
    BY <1>1, <2>1, <2>2, <2>3
  <2>4. CASE DoneSending /\ outLen' = Idle
    BY <1>1, <1>8, <2>1, <2>2, <2>4
  <2> QED  BY <1>7, <2>3, <2>4
<1> QED
  BY <1>9, <1>11, <1>12, <1>13 DEF ClientsInv

LEMMA ClientsStep ==
    ASSUME QueueInv, QueueInv', ClientsInv, ~Interrupts, [Next]_vars
    PROVE  ClientsInv'
<1>1. CASE Enqueue \/ CheckTimeout \/ Decide
  BY <1>1, LookingHolds
<1>2. CASE Detach
  BY <1>2, DetachHolds
<1>3. CASE CloseConnection
  BY <1>3, CloseConnectionHolds
<1>4. CASE BeginMessage
  BY <1>4, BeginMessageKeepsClients
<1>5. CASE \E w \in Writes : TrySend(w)
  BY <1>5, TrySendKeepsClients
<1>6. CASE \E c \in Conns : Callback(c)
  BY <1>6, NewConnectionHolds, AcknowledgedHolds, DisconnectedHolds DEF Callback
<1>7. CASE \E i \in Slots : TimeoutReached(i)
  BY <1>7, TimeoutReachedHolds
<1>8. CASE UNCHANGED vars
  BY <1>8, ElsewhereKeepsClients DEF vars, ClientsInv, ClientTypes
<1> QED
  BY <1>1, <1>2, <1>3, <1>4, <1>5, <1>6, <1>7, <1>8 DEF Next, NetworkLoop

\* The clients' part of the state is inductive with the queue's, if no callback comes
\* between reading a slot that is due and closing its connection.
THEOREM ClientsInvariance == ~Interrupts => (Spec => [](QueueInv /\ ClientsInv))
<1> SUFFICES ASSUME ~Interrupts PROVE Spec => [](QueueInv /\ ClientsInv)
  OBVIOUS
<1>1. Init => QueueInv /\ ClientsInv
  BY InitHolds, ClientsInit
<1>2. QueueInv /\ ClientsInv /\ [Next]_vars => (QueueInv /\ ClientsInv)'
  BY NextHolds, ClientsStep
<1> QED
  BY <1>1, <1>2, PTL DEF Spec

\* new_connection_callback, the callbacks of a connection, try_send and the timeout
\* keep slots and connections matched: a slot counts what its own connection has in
\* flight, and no connection is left without a slot.
THEOREM SlotsAlwaysServeConnections == ~Interrupts => (Spec => []SlotsServeConnections)
<1>1. QueueInv /\ ClientsInv => SlotsServeConnections
  BY DEF ClientsInv, SlotsServeConnections
<1> QED
  BY ClientsInvariance, <1>1, PTL

\* ack_timeout runs exactly while a client owes acknowledgements.
THEOREM AlwaysTimedWhileOwing == ~Interrupts => (Spec => []TimedWhileOwing)
<1>1. QueueInv /\ ClientsInv => TimedWhileOwing
  BY DEF ClientsInv
<1> QED
  BY ClientsInvariance, <1>1, PTL

\* process_outgoing_messages gives up only clients that owe an acknowledgement.
THEOREM OnlyTheLateAreEverDropped == ~Interrupts => (Spec => OnlyTheLateAreDropped)
<1> SUFFICES ASSUME ~Interrupts PROVE Spec => OnlyTheLateAreDropped
  OBVIOUS
<1>1. QueueInv /\ ClientsInv /\ [Next]_vars
        => [pc.at = "expired" /\ pc'.at = "closing" => Open(pc.i) /\ client[pc.i].acked < outLen]_vars
  <2> SUFFICES ASSUME ClientsInv, pc.at = "expired"
               PROVE  Open(pc.i) /\ client[pc.i].acked < outLen
    OBVIOUS
  <2> QED
    BY DEF ClientsInv, ClientTypes, GivenUp, TimedWhileOwing
<1> QED
  BY ClientsInvariance, <1>1, PTL DEF Spec, OnlyTheLateAreDropped
================================================================================
