----------------------------- MODULE MC_Broadcast -----------------------------
(* Broadcast for TLC: connections are interchangeable.                       *)
EXTENDS BroadcastProperties, TLC

ConnSymmetry == Permutations(Conns)
===============================================================================
