------------------------------ MODULE MC_Receiver ------------------------------
(* Receiver for TLC: bytes are ternary digits, the magic has two of them, and *)
(* there is a message without data and one with a byte of data.               *)
EXTENDS ReceiverProperties

MCMagic == <<1, 2>>
MCSizes == <<0, 1>>
================================================================================
