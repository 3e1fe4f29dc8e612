------------------------------ MODULE Debounce ------------------------------
(***************************************************************************)
(* One switch of the machine.  Every edge of its pin raises an interrupt   *)
(* on core 0 that puts off the next reading by 20 ms.  get_switch, called  *)
(* by core 0 and, for the brew log, by core 1, takes a reading that is     *)
(* due, keeps it, and asks for no other until the next edge.               *)
(***************************************************************************)

VARIABLES
  level,      \* the switch is pressed (the pin is low)
  edge,       \* an edge whose interrupt has not run yet
  transition, \* switch_transition_time: "due" (reached), "later" or "never"
  lastState,  \* last_state
  sampler,    \* per core, where get_switch is: "idle", "sample", "store" or "clear"
  sample,     \* per core, the level it has read
  aged,       \* per core, whether an edge was handled after it read the level
  overwritten \* an aged reading was kept, and no edge was handled since

debounceVars == <<level, edge, transition, lastState, sampler, sample, aged, overwritten>>

Samplers == {"core0", "core1"}

DebounceTypeOK ==
  /\ level \in BOOLEAN /\ edge \in BOOLEAN /\ lastState \in BOOLEAN /\ overwritten \in BOOLEAN
  /\ transition \in {"due", "later", "never"}
  /\ sampler \in [Samplers -> {"idle", "sample", "store", "clear"}]
  /\ sample \in [Samplers -> BOOLEAN] /\ aged \in [Samplers -> BOOLEAN]

(* switch_transition_time begins as nil_time, which is always reached. *)
DebounceInit ==
  /\ level \in BOOLEAN /\ edge = FALSE /\ transition = "due" /\ lastState = FALSE
  /\ sampler = [c \in Samplers |-> "idle"] /\ sample = [c \in Samplers |-> FALSE]
  /\ aged = [c \in Samplers |-> FALSE] /\ overwritten = FALSE

(* The switch is turned, or bounces. *)
TurnLevel ==
  /\ level' = ~level /\ edge' = TRUE
  /\ UNCHANGED <<transition, lastState, sampler, sample, aged, overwritten>>

(* gpio_irq_handler *)
RisingEdgeOnly == level  \* broken: the interrupt is enabled for one kind of edge
AnyEdge == TRUE

EdgeInterrupt ==
  /\ edge /\ edge' = FALSE
  /\ IF AnyEdge THEN /\ transition' = "later" /\ overwritten' = FALSE
                     /\ aged' = [c \in Samplers |-> TRUE]
                ELSE UNCHANGED <<transition, overwritten, aged>>
  /\ UNCHANGED <<level, lastState, sampler, sample>>

TransitionOver ==
  /\ transition = "later" /\ transition' = "due"
  /\ UNCHANGED <<level, edge, lastState, sampler, sample, aged, overwritten>>

(* get_switch: time_reached, gpio_get, last_state = and transition_time =.   *)
AtSwitch(c, here, next) == sampler[c] = here /\ sampler' = [sampler EXCEPT ![c] = next]

FindDue(c) ==
  /\ AtSwitch(c, "idle", "sample") /\ transition = "due"
  /\ UNCHANGED <<level, edge, transition, lastState, sample, aged, overwritten>>

ReadLevel(c) ==
  /\ AtSwitch(c, "sample", "store")
  /\ sample' = [sample EXCEPT ![c] = level] /\ aged' = [aged EXCEPT ![c] = FALSE]
  /\ UNCHANGED <<level, edge, transition, lastState, overwritten>>

Keep(c) ==
  /\ AtSwitch(c, "store", "clear")
  /\ lastState' = sample[c] /\ overwritten' = (overwritten \/ aged[c])
  /\ UNCHANGED <<level, edge, transition, sample, aged>>

AskNoMore(c) ==
  /\ AtSwitch(c, "clear", "idle")
  /\ transition' = "never" /\ overwritten' = (overwritten \/ aged[c])
  /\ UNCHANGED <<level, edge, lastState, sample, aged>>

DebounceNext ==
  \/ TurnLevel \/ EdgeInterrupt \/ TransitionOver
  \/ \E c \in Samplers : FindDue(c) \/ ReadLevel(c) \/ Keep(c) \/ AskNoMore(c)

DebounceSpec == DebounceInit /\ [][DebounceNext]_debounceVars

-----------------------------------------------------------------------------
(* Once nothing more will be read, the machine knows the position of its     *)
(* switch, however it bounced and whichever core read it - unless the        *)
(* interrupt of the last edge came between a core's reading of the pin and   *)
(* its last store.  That the code loses, until the switch is turned again.   *)
RestingSwitchIsKnown ==
  transition = "never" /\ ~edge /\ (\A c \in Samplers : sampler[c] = "idle")
    => lastState = level \/ overwritten
=============================================================================
