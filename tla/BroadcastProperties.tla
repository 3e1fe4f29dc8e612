-------------------------- MODULE BroadcastProperties --------------------------
(***************************************************************************)
(* What must hold of the outgoing messages, and what they promise (Feed).  *)
(***************************************************************************)
EXTENDS Broadcast

Messages == [seq : 0 .. MaxMessages, len : Lengths \cup {0}]
Open(i) == client[i].pcb # NoConn
Timers == {"never", "armed", "due"}

\* The type invariant of the out-message queue and the clients.
TypeOK ==
    /\ ring \in [data : [Places -> Messages], front : Places, back : Places,
                 size : 0 .. Capacity]
    /\ posted \in 0 .. MaxMessages
    /\ full \in BOOLEAN
    /\ buffer \in Messages
    /\ outLen \in {Idle} \cup Lengths
    /\ client \in [Slots -> [pcb : Conns \cup {NoConn}, written : Nat, acked : Nat,
                             timer : Timers]]
    /\ conn \in [Conns -> [state : {"new", "open", "gone"}, slot : Slots,
                           unacked : Nat, sent : Seq(Nat \X Nat)]]
    /\ pc \in [at : {"check", "expired", "closing", "decide", "serialize", "send",
                     "undefined"},
               i : Slots, tpcb : Conns \cup {NoConn}]

-----------------------------------------------------------------------------
\* The ring is a queue: the slots from front on hold the messages posted last,
\* in the order they were posted, so a push never overwrites one that waits,
\* peek needs no lock, and back is where the next one goes.
RingIsFifo ==
    /\ \A k \in 1 .. ring.size :
          ring.data[PlaceOf(ring, k)].seq = posted - ring.size + k
    /\ ring.back = IF ring.size = Capacity THEN ring.front
                                           ELSE PlaceOf(ring, ring.size + 1)

\* While a message is being sent it is still the oldest of the queue: what is
\* popped in the end is what was sent, and pop_blocking, called with the lwIP
\* lock held, never has to wait.
SendsTheOldest ==
    outLen # Idle => /\ ring.size > 0
                     /\ buffer = Peek(ring)
                     /\ outLen = buffer.len

\* A client's slot and its connection agree: the connection is alive, its
\* callbacks work on this slot and no other, and the bytes in flight are those
\* written and not acknowledged, never more than the message has.
SlotsAgree ==
    \A i \in Slots : Open(i) =>
        LET c == client[i].pcb
        IN  /\ conn[c].state = "open"
            /\ conn[c].slot = i
            /\ conn[c].unacked = client[i].written - client[i].acked
            /\ outLen # Idle => client[i].written <= outLen
            /\ outLen = Idle => conn[c].unacked = 0

\* No connection is left behind: one that is alive occupies a slot, or is the
\* one that network_loop is closing.
NoOrphanConnection ==
    \A c \in Conns : conn[c].state = "open" =>
        Listens(c) \/ (pc.at = "closing" /\ pc.tpcb = c)

\* The slots of clients and the connections of lwIP stand for one another: every
\* occupied slot keeps account of one open connection, and every open connection
\* has its slot or is being closed.
SlotsServeConnections == SlotsAgree /\ NoOrphanConnection

\* A client is timed exactly while it has bytes to acknowledge of a message it
\* has begun to receive, so one that owes nothing is never disconnected for it.
TimedWhileOwing ==
    \A i \in Slots : Open(i) =>
        (client[i].timer # "never" <=>
            outLen # Idle /\ client[i].written > 0 /\ client[i].acked < outLen)

\* Whatever happens while a client is being timed out, no connection is given a
\* byte twice or out of order, and each message only from its first byte on.
SentInOrder ==
    \A c \in Conns :
        LET h == conn[c].sent
        IN  /\ h # << >> => h[1][2] = 1
            /\ \A k \in 1 .. Len(h) - 1 :
                  \/ h[k + 1][1] = h[k][1] /\ h[k + 1][2] = h[k][2] + 1
                  \/ h[k + 1][1] > h[k][1] /\ h[k + 1][2] = 1

-----------------------------------------------------------------------------
\* A client is given up for a timeout only while it owes an acknowledgement: an
\* answer that came late, but before the slot was given up, is not lost.
OnlyTheLateAreDropped ==
    [][pc.at = "expired" /\ pc'.at = "closing" =>
          /\ Open(pc.i)
          /\ client[pc.i].acked < outLen]_vars

\* Every message that is posted is retired in the end, whatever the clients do,
\* unless the queue overflows.
EveryMessageLeaves ==
    \A m \in 1 .. MaxMessages :
        posted >= m ~> (posted - ring.size >= m \/ full)

-----------------------------------------------------------------------------
\* Broadcast implements Feed: the ring is the queue, the occupied slots are the
\* listeners, what they have acknowledged is what they have heard, and so each
\* hears whole messages in order and none is popped before all have it.
PlaceIn(c) == IF Listens(c) /\ outLen # Idle THEN client[conn[c].slot].acked ELSE 0

F == INSTANCE Feed WITH
        waiting <- Contents(ring),
        members <- {c \in Conns : Listens(c)},
        place <- [c \in Conns |-> PlaceIn(c)],
        heard <- [c \in Conns |-> Acked(c)]

ImplementsFeed == F!Spec
================================================================================
