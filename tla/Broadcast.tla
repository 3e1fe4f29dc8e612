------------------------------ MODULE Broadcast ------------------------------
(***************************************************************************)
(* network.cpp, the outgoing half: messages posted by either core wait in  *)
(* a ring; network_loop serialises the oldest one into out_message_buffer, *)
(* hands it to every connected client as its TCP send buffer allows, and   *)
(* pops it when every client has acknowledged all of it.  A client that    *)
(* does not acknowledge in time is disconnected.                           *)
(*                                                                         *)
(* lwIP runs its callbacks in an interrupt of the core that runs           *)
(* network_loop.  try_send holds the lwIP lock, so it is one step; the     *)
(* rest of process_outgoing_messages does not, and a callback may come     *)
(* between any two of its steps.                                           *)
(***************************************************************************)
EXTENDS Ring

CONSTANTS
    ClientCapacity,   \* CLIENT_CAPACITY
    Conns,            \* the connections that are ever made, each at most once
    NoConn,           \* nullptr
    Lengths,          \* the lengths of a serialised message
    MaxMessages,      \* bound: messages ever posted
    Interrupts        \* may a callback come while a client is being timed out?

ASSUME ClientsAssumption == ClientCapacity \in Nat \ {0}
ASSUME ConnsAssumption == NoConn \notin Conns
ASSUME LengthsAssumption == Lengths \subseteq Nat \ {0}
ASSUME MessagesAssumption == MaxMessages \in Nat
ASSUME InterruptsAssumption == Interrupts \in BOOLEAN

Slots == 0 .. ClientCapacity - 1

NoMessage == [seq |-> 0, len |-> 0]   \* a slot of the ring never written
Idle == -1                            \* out_message_len between two messages
Lost == -1                            \* tcp_write returned ERR_CONN

VARIABLES
    ring,     \* out_message_queue
    posted,   \* how many messages enqueue_message has accepted
    full,     \* enqueue_message found no room and called panic
    buffer,   \* out_message_buffer: the message serialised last
    outLen,   \* out_message_len
    client,   \* clients: pcb, written_len, acked_len, ack_timeout of each slot
    conn,     \* TCP: each connection's state and callback argument, the bytes
              \* tcp_write accepted, and how many of them are not acknowledged
    pc        \* network_loop's place, its index i and its local tpcb

vars == <<ring, posted, full, buffer, outLen, client, conn, pc>>
queueVars == <<ring, posted, full>>
sendVars == <<buffer, outLen>>

Init ==
    /\ ring = EmptyRing(NoMessage)
    /\ posted = 0
    /\ full = FALSE
    /\ buffer = NoMessage
    /\ outLen = Idle
    /\ client = [i \in Slots |->
                   [pcb |-> NoConn, written |-> 0, acked |-> 0, timer |-> "never"]]
    /\ conn = [c \in Conns |->
                 [state |-> "new", slot |-> 0, unacked |-> 0, sent |-> << >>]]
    /\ pc = [at |-> "check", i |-> 0, tpcb |-> NoConn]

\* A full queue is a panic, which stops both cores; so does, for the model, an
\* undefined close.
Running == ~full /\ pc.at # "undefined"

\* network_loop's program counter.
Goto(at) == pc' = [at |-> at, i |-> 0, tpcb |-> NoConn]
AtSlot(at, i, tpcb) == pc' = [at |-> at, i |-> i, tpcb |-> tpcb]

-----------------------------------------------------------------------------
(* enqueue_message, from core 0, a handler or network_loop itself *)

Enqueue ==
    /\ Running
    /\ posted < MaxMessages
    /\ \/ /\ HasRoom(ring)
          /\ \E l \in Lengths : ring' = Pushed(ring, [seq |-> posted + 1, len |-> l])
          /\ posted' = posted + 1
          /\ full' = FALSE
       \/ /\ ~HasRoom(ring)
          /\ full' = TRUE
          /\ UNCHANGED <<ring, posted>>
    /\ UNCHANGED <<sendVars, client, conn, pc>>

-----------------------------------------------------------------------------
(* lwIP's callbacks.  A connection's callbacks work on the slot that was   *)
(* registered with tcp_arg, whoever occupies it by now.                    *)

InWindow == pc.at \in {"expired", "closing"}
MayCallBack == Running /\ (InWindow => Interrupts)

\* The bytes of a connection that its client has acknowledged; when it closes,
\* the rest is lost.
Acked(c) == SubSeq(conn[c].sent, 1, Len(conn[c].sent) - conn[c].unacked)

GoneUnclosed(c) == conn[c]   \* broken: the pcb is forgotten but never closed
Gone(c) == [conn[c] EXCEPT !.state = "gone", !.unacked = 0, !.sent = Acked(c)]

\* What a new client's slot is set to.
NewClientStillTimed(i, c) ==   \* broken: ack_timeout is not reset
    [client[i] EXCEPT !.pcb = c, !.written = 0, !.acked = 0]
NewClient(i, c) == [pcb |-> c, written |-> 0, acked |-> 0, timer |-> "never"]

\* new_connection_callback: the first free slot, or none and the door.
NewConnection(c) ==
    /\ MayCallBack
    /\ conn[c].state = "new"
    /\ \/ \E i \in Slots :
             /\ client[i].pcb = NoConn
             /\ \A j \in Slots : j < i => client[j].pcb # NoConn
             /\ client' = [client EXCEPT ![i] = NewClient(i, c)]
             /\ conn' = [conn EXCEPT ![c].state = "open", ![c].slot = i]
       \/ /\ \A i \in Slots : client[i].pcb # NoConn
          /\ conn' = [conn EXCEPT ![c] = Gone(c)]
          /\ UNCHANGED client
    /\ UNCHANGED <<queueVars, sendVars, pc>>

\* The timeout of a client that has acknowledged a bytes of the message.
TimeoutAlways(a) == "armed"   \* broken: a client that owes nothing is timed too
TimeoutOnlyOnce(a) == "never" \* broken: the first acknowledgement ends the timeout
TimeoutAfter(a) == IF a < outLen THEN "armed" ELSE "never"

\* sent_callback: n more bytes are acknowledged.
Acknowledged(c) ==
    /\ MayCallBack
    /\ conn[c].state = "open"
    /\ \E n \in 1 .. conn[c].unacked :
          LET i == conn[c].slot
              a == client[i].acked + n
          IN  /\ client' = [client EXCEPT ![i].acked = a, ![i].timer = TimeoutAfter(a)]
              /\ conn' = [conn EXCEPT ![c].unacked = @ - n]
    /\ UNCHANGED <<queueVars, sendVars, pc>>

\* recv_callback without data, and err_callback: the connection is over.
Disconnected(c) ==
    /\ MayCallBack
    /\ conn[c].state = "open"
    /\ client' = [client EXCEPT ![conn[c].slot].pcb = NoConn]
    /\ conn' = [conn EXCEPT ![c] = Gone(c)]
    /\ UNCHANGED <<queueVars, sendVars, pc>>

\* ACK_TIMEOUT_MS have passed since a client's timeout was set.
TimeoutReached(i) ==
    /\ Running
    /\ client[i].timer = "armed"
    /\ client' = [client EXCEPT ![i].timer = "due"]
    /\ UNCHANGED <<queueVars, sendVars, conn, pc>>

-----------------------------------------------------------------------------
(* process_outgoing_messages *)

\* The test of one client: not connected, not due, or due.
CheckTimeout ==
    /\ Running
    /\ pc.at = "check"
    /\ IF client[pc.i].pcb # NoConn /\ client[pc.i].timer = "due"
         THEN AtSlot("expired", pc.i, NoConn)
         ELSE IF pc.i + 1 \in Slots THEN AtSlot("check", pc.i + 1, NoConn)
                                    ELSE Goto("decide")
    /\ UNCHANGED <<queueVars, sendVars, client, conn>>

\* The pcb is read again, and the slot given up.
Detach ==
    /\ Running
    /\ pc.at = "expired"
    /\ AtSlot("closing", pc.i, client[pc.i].pcb)
    /\ client' = [client EXCEPT ![pc.i].pcb = NoConn]
    /\ UNCHANGED <<queueVars, sendVars, conn>>

\* close_connection; with a pcb that is null or already freed its effect is
\* undefined, and the model stops there.
CloseConnection ==
    /\ Running
    /\ pc.at = "closing"
    /\ IF pc.tpcb # NoConn /\ conn[pc.tpcb].state = "open"
         THEN /\ conn' = [conn EXCEPT ![pc.tpcb] = Gone(pc.tpcb)]
              /\ IF pc.i + 1 \in Slots THEN AtSlot("check", pc.i + 1, NoConn)
                                       ELSE Goto("decide")
         ELSE /\ Goto("undefined")
              /\ UNCHANGED conn
    /\ UNCHANGED <<queueVars, sendVars, client>>

\* Is a message being sent, is one waiting, or is there nothing to do?
Decide ==
    /\ Running
    /\ pc.at = "decide"
    /\ Goto(IF outLen > 0 THEN "send"
            ELSE IF ring.size > 0 THEN "serialize" ELSE "check")
    /\ UNCHANGED <<queueVars, sendVars, client, conn>>

\* Every client starts at the message's first byte.
RestartAckedOnly(k) == [k EXCEPT !.acked = 0]   \* broken: written_len is kept
Restart(k) == [k EXCEPT !.written = 0, !.acked = 0]

\* The loop over the clients, and serialize_message.
BeginMessage ==
    /\ Running
    /\ pc.at = "serialize"
    /\ client' = [i \in Slots |->
                    IF client[i].pcb = NoConn THEN client[i] ELSE Restart(client[i])]
    /\ buffer' = Peek(ring)
    /\ outLen' = Peek(ring).len
    /\ Goto("check")
    /\ UNCHANGED <<queueVars, conn>>

\* What tcp_write may do for slot i: take some of the rest, take nothing (no
\* send buffer, or an error that is not fatal), or find the client gone.
MayWrite(i) == client[i].pcb # NoConn /\ client[i].written < outLen

Writes == {w \in [Slots -> Lost .. outLen] :
             \A i \in Slots : IF MayWrite(i) THEN w[i] <= outLen - client[i].written
                                             ELSE w[i] = 0}

Listens(c) == client[conn[c].slot].pcb = c

\* Bytes from + 1 to from + n of message m.
BytesFromTheStart(m, from, n) ==   \* broken: tcp_write without + written_len
    [k \in 1 .. n |-> <<m.seq, k>>]
Bytes(m, from, n) == [k \in 1 .. n |-> <<m.seq, from + k>>]

\* done_sending looks at what had been acknowledged before the pass.
DoneWriting ==   \* broken: what was written counts, acknowledged or not
    \A i \in Slots : client[i].pcb # NoConn => client[i].written >= outLen
DoneSending == \A i \in Slots : client[i].pcb # NoConn => client[i].acked >= outLen

\* pop_blocking would wait for ever if the queue were empty.
EndWithoutMark ==   \* broken: out_message_len is not reset
    ring.size > 0 /\ ring' = Popped(ring) /\ UNCHANGED outLen
EndMessage == ring.size > 0 /\ ring' = Popped(ring) /\ outLen' = Idle

\* try_send, one pass over the clients.
TrySend(w) ==
    /\ Running
    /\ pc.at = "send"
    /\ client' = [i \in Slots |->
                    IF w[i] = Lost THEN [client[i] EXCEPT !.pcb = NoConn]
                    ELSE IF w[i] = 0 THEN client[i]
                    ELSE [client[i] EXCEPT !.written = @ + w[i], !.timer = "armed"]]
    /\ conn' = [c \in Conns |->
                  LET i == conn[c].slot
                  IN  IF ~Listens(c) THEN conn[c]
                      ELSE IF w[i] = Lost THEN Gone(c)
                      ELSE [conn[c] EXCEPT
                              !.unacked = @ + w[i],
                              !.sent = @ \o Bytes(buffer, client[i].written, w[i])]]
    /\ IF DoneSending THEN EndMessage ELSE UNCHANGED <<ring, outLen>>
    /\ Goto("check")
    /\ UNCHANGED <<posted, full, buffer>>

-----------------------------------------------------------------------------
NetworkLoop ==
    \/ CheckTimeout
    \/ Detach
    \/ CloseConnection
    \/ Decide
    \/ BeginMessage
    \/ \E w \in Writes : TrySend(w)

Callback(c) == NewConnection(c) \/ Acknowledged(c) \/ Disconnected(c)

Next ==
    \/ Enqueue
    \/ NetworkLoop
    \/ \E c \in Conns : Callback(c)
    \/ \E i \in Slots : TimeoutReached(i)

Spec == Init /\ [][Next]_vars

\* network_loop runs for ever, time passes, and lwIP's memory is not withheld
\* from one client for ever.
Fairness ==
    /\ WF_vars(NetworkLoop)
    /\ \A i \in Slots : WF_vars(TimeoutReached(i))
    /\ \A i \in Slots : SF_vars(\E w \in Writes : w[i] # 0 /\ TrySend(w))

FairSpec == Spec /\ Fairness
=============================================================================
