-------------------------------- MODULE Wire --------------------------------
(***************************************************************************)
(* Messages as bytes.  write_struct and read_struct go over the fields of  *)
(* a struct, whose number boost::pfr finds out, and turn each value round: *)
(* the processor keeps the least significant byte first, the wire the most *)
(* significant.  Clients are external; they write and expect the fields in *)
(* the order of messages.hpp, as wireshark_dissector.lua does.             *)
(*                                                                         *)
(* A struct is the widths of its fields.  Byte b of field i is <<i, b>>,   *)
(* b = 1 being the least significant.                                      *)
(***************************************************************************)
EXTENDS Reflection

CONSTANTS
  OutMessages,  \* by OUTGOING_ID, counted from 1
  InMessages,   \* by INCOMING_ID, counted from 1
  SizeSaid      \* SIZE of those incoming messages that have one

(* A struct is as long as its fields if no field has to be aligned. *)
EvenlySized(widths) == widths # <<>> /\ \A i \in 1..Len(widths) : widths[i] = widths[1]

ASSUME MessagesAssumption ==
  /\ OutMessages \in Seq(Seq({1, 4, 8}))
  /\ InMessages \in Seq(Seq({1, 2, 4}))
  /\ \A m \in 1..Len(InMessages) :
       IF m \in DOMAIN SizeSaid THEN InMessages[m] = <<>> /\ SizeSaid[m] = 0
       ELSE EvenlySized(InMessages[m])

VARIABLES
  task,   \* "idle"; "write", "sent": a message of ours; "read", "handled": one of a client
  id,     \* its OUTGOING_ID or INCOMING_ID
  curr,   \* FieldCount - CurrField
  bytes,  \* written so far, or to be read; after the id
  fields  \* the fields' bytes in memory: to be written, or read so far

wireVars == <<task, id, curr, bytes, fields>>

(* What such a struct looks like in memory, value by value. *)
Memory(widths) == [i \in 1..Len(widths) |-> [b \in 1..widths[i] |-> <<i, b>>]]

(* tuple_size_v and msg_size *)
FieldCount(widths) == TupleSize(widths, widths)
MsgSize(m) ==
  IF m \in DOMAIN SizeSaid THEN SizeSaid[m] ELSE StructSize(InMessages[m], InMessages[m])

-----------------------------------------------------------------------------
Htonl(word) == Reverse(word)

WriteWordsInPlace(value) ==  \* broken: the halves of a 64-bit value stay where they are
  IF Len(value) = 8 THEN Htonl(SubSeq(value, 1, 4)) \o Htonl(SubSeq(value, 5, 8))
  ELSE IF Len(value) = 4 THEN Htonl(value) ELSE value

(* write_val.  (For two bytes it takes htonl, which is wrong; no message has *)
(* such a field.)                                                            *)
WriteVal(value) ==
  IF Len(value) = 8 THEN Htonl(SubSeq(value, 5, 8)) \o Htonl(SubSeq(value, 1, 4))
  ELSE IF Len(value) = 4 THEN Htonl(value) ELSE value

ReadVal(width) ==
  IF width = 1 THEN SubSeq(bytes, 1, width) ELSE Htonl(SubSeq(bytes, 1, width))

(* What network order means, of a value and of a whole message. *)
NetworkOrder(value) == Reverse(value)
InOrder(widths) == [i \in 1..Len(widths) |-> NetworkOrder(Memory(widths)[i])]
OnTheWire(widths) == FlattenSeq(InOrder(widths))

-----------------------------------------------------------------------------
WireInit == task = "idle" /\ id = 0 /\ curr = 0 /\ bytes = <<>> /\ fields = <<>>

(* serialize_message *)
Serialize(m) ==
  /\ task = "idle" /\ task' = "write"
  /\ id' = m /\ curr' = 0 /\ bytes' = <<>> /\ fields' = Memory(OutMessages[m])

WriteField ==
  /\ task = "write" /\ curr < FieldCount(OutMessages[id])
  /\ bytes' = bytes \o WriteVal(Get(fields, curr)) /\ curr' = curr + 1
  /\ UNCHANGED <<task, id, fields>>

Send ==
  /\ task = "write" /\ curr = FieldCount(OutMessages[id])
  /\ task' = "sent" /\ UNCHANGED <<id, curr, bytes, fields>>

(* handle_incoming_msg, read_struct *)
Receive(m) ==
  /\ task = "idle" /\ task' = "read"
  /\ id' = m /\ curr' = 0 /\ bytes' = OnTheWire(InMessages[m]) /\ fields' = <<>>

ReadField ==
  /\ task = "read" /\ curr < FieldCount(InMessages[id])
  /\ LET width == Get(InMessages[id], curr)
     IN  /\ fields' = Append(fields, ReadVal(width))
         /\ bytes' = SubSeq(bytes, width + 1, Len(bytes))
  /\ curr' = curr + 1 /\ UNCHANGED <<task, id>>

HandleMessage ==
  /\ task = "read" /\ curr = FieldCount(InMessages[id])
  /\ task' = "handled" /\ UNCHANGED <<id, curr, bytes, fields>>

AnotherMessage ==
  /\ task \in {"sent", "handled"} /\ task' = "idle"
  /\ id' = 0 /\ curr' = 0 /\ bytes' = <<>> /\ fields' = <<>>

WireNext ==
  \/ (\E m \in 1..Len(OutMessages) : Serialize(m)) \/ WriteField \/ Send
  \/ (\E m \in 1..Len(InMessages) : Receive(m)) \/ ReadField \/ HandleMessage
  \/ AnotherMessage

WireSpec == WireInit /\ [][WireNext]_wireVars

-----------------------------------------------------------------------------
(* A client gets every field of every message, in order and most significant *)
(* byte first, 64-bit timestamps included; and of a client's message the     *)
(* program reads what was written, uses up all of it, and expects just that  *)
(* size (msg_sizes, by which recv_callback throws other lengths away).       *)
WireCarriesFields ==
  /\ task = "sent" => bytes = OnTheWire(OutMessages[id])
  /\ task = "handled" => /\ fields = Memory(InMessages[id]) /\ bytes = <<>>
                         /\ MsgSize(id) = Len(OnTheWire(InMessages[id]))
=============================================================================
