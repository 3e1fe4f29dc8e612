-------------------------------- MODULE Feed --------------------------------
(***************************************************************************)
(* What the machine promises the clients that watch it: every client hears *)
(* the messages in the order they were posted, each from its first byte to *)
(* its last, beginning with the one that is being sent when it joins, and  *)
(* no message is retired before every client that is still there has all   *)
(* of it.  A client may leave, or be made to leave, at any time.           *)
(***************************************************************************)
EXTENDS Integers, Sequences

CONSTANTS Conns,    \* the connections that clients make
          Lengths   \* the lengths a message may have

VARIABLES posted,   \* how many messages have been posted
          waiting,  \* the messages not yet retired, the oldest first
          members,  \* the connections that listen
          place,    \* how much of the oldest message each of them has heard
          heard     \* all the bytes each connection has heard

feedVars == <<posted, waiting, members, place, heard>>

\* Bytes from + 1 to from + n of message m.
Bytes(m, from, n) == [k \in 1 .. n |-> <<m.seq, from + k>>]

Init ==
    /\ posted = 0
    /\ waiting = << >>
    /\ members = {}
    /\ place = [c \in Conns |-> 0]
    /\ heard = [c \in Conns |-> << >>]

Post ==
    /\ posted' = posted + 1
    /\ \E l \in Lengths : waiting' = Append(waiting, [seq |-> posted + 1, len |-> l])
    /\ UNCHANGED <<members, place, heard>>

Join(c) ==
    /\ c \notin members
    /\ heard[c] = << >>
    /\ members' = members \cup {c}
    /\ UNCHANGED <<posted, waiting, place, heard>>

\* A listener hears more of the oldest message.
Hear(c) ==
    /\ waiting # << >>
    /\ c \in members
    /\ \E n \in 1 .. Head(waiting).len - place[c] :
          /\ place' = [place EXCEPT ![c] = @ + n]
          /\ heard' = [heard EXCEPT ![c] = @ \o Bytes(Head(waiting), place[c], n)]
    /\ UNCHANGED <<posted, waiting, members>>

Leave ==
    /\ \E stay \in SUBSET members :
          /\ members' = stay
          /\ place' = [c \in Conns |-> IF c \in stay THEN place[c] ELSE 0]
    /\ UNCHANGED <<posted, waiting, heard>>

Retire ==
    /\ waiting # << >>
    /\ \A c \in members : place[c] = Head(waiting).len
    /\ waiting' = Tail(waiting)
    /\ place' = [c \in Conns |-> 0]
    /\ UNCHANGED <<posted, members, heard>>

Next == Post \/ Retire \/ Leave \/ \E c \in Conns : Join(c) \/ Hear(c)

Spec == Init /\ [][Next]_feedVars
=============================================================================
