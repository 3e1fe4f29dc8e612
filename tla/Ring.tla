-------------------------------- MODULE Ring --------------------------------
(***************************************************************************)
(* impl/queue.hpp: the bounded queue both cores push to, a ring of slots   *)
(* under a spin lock.  A push and a pop are each one critical section, so  *)
(* each is one operator on the record [data, front, back, size].           *)
(***************************************************************************)
EXTENDS Integers, Sequences

CONSTANT Capacity
ASSUME CapacityAssumption == Capacity \in Nat \ {0}

Places == 0 .. Capacity - 1

EmptyRing(unset) ==
    [data |-> [p \in Places |-> unset], front |-> 0, back |-> 0, size |-> 0]

IncIndex(p) == (p + 1) % Capacity

HasRoom(q) == q.size < Capacity

Pushed(q, m) ==
    [data  |-> [q.data EXCEPT ![q.back] = m],
     front |-> q.front,
     back  |-> IncIndex(q.back),
     size  |-> q.size + 1]

PoppedInPlace(q) == [q EXCEPT !.size = @ - 1]   \* broken: front stays
Popped(q) == [q EXCEPT !.size = @ - 1, !.front = IncIndex(@)]

\* An unlocked read of the front slot, whatever it holds.
Peek(q) == q.data[q.front]

-----------------------------------------------------------------------------
\* The k-th oldest element's slot, and the queue the ring stands for.
PlaceOf(q, k) == IF q.front + k - 1 < Capacity THEN q.front + k - 1
                                               ELSE q.front + k - 1 - Capacity

Contents(q) == [k \in 1 .. q.size |-> q.data[PlaceOf(q, k)]]
=============================================================================
