------------------------------- MODULE Messages -------------------------------
(***************************************************************************)
(* The messages of the program: the widths of their fields, in bytes and   *)
(* in their order.  Each field is aligned to its width.                    *)
(***************************************************************************)
EXTENDS Integers

u64 == 8
u32 == 4
i32 == 4
f32 == 4
bool == 1

Settings == [i \in 1..7 |-> f32]

OutgoingMessages == <<<<u64, u64, i32>>, <<f32, f32, f32, f32>>, Settings, <<i32, i32>>>>
IncomingMessages == <<<<bool>>, Settings, <<>>, <<u32>>, <<f32, f32, i32>>>>

(* GetStatusMessage has no field and says so: sizeof would be 1. *)
SizesSaid == [m \in {3} |-> 0]
===============================================================================
