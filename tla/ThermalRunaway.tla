--------------------------- MODULE ThermalRunaway ---------------------------
(***************************************************************************)
(* The thermal runaway check of main_loop.  While the heater is all but    *)
(* fully on and the pump off, the water must gain HeatingGain degrees      *)
(* before a deadline, over and over; otherwise the machine panics.         *)
(*                                                                         *)
(* A step is one call of has_fault, a tick after the one before.  samples  *)
(* is what the check never keeps: the temperatures seen since the heater   *)
(* and the pump last entered the window, by which it can be judged.        *)
(***************************************************************************)
EXTENDS Integers, Sequences

CONSTANTS
  HeatingGain,   \* HEATING_GAIN
  DeadlineTicks, \* DEADLINE_S
  MaxTemp        \* bound: temperatures are 0..MaxTemp

ASSUME HeatingAssumption ==
  HeatingGain \in Nat \ {0} /\ DeadlineTicks \in Nat \ {0} /\ MaxTemp \in Nat

VARIABLES
  deadline,  \* ticks to go, 0 once reached (nil_time always is)
  goalTemp,  \* goal_temp
  faulted,   \* has_fault returned true, and check_thermals panicked
  samples    \* the temperatures of this stay in the window, the oldest first

thermalVars == <<deadline, goalTemp, faulted, samples>>

Temps == 0..MaxTemp
SampleBound == 2 * DeadlineTicks + 1  \* bound: older samples are forgotten

ThermalTypeOK ==
  /\ deadline \in 0..DeadlineTicks /\ goalTemp \in 0..(MaxTemp + HeatingGain)
  /\ faulted \in BOOLEAN /\ samples \in Seq(Temps)

ThermalInit == deadline = 0 /\ goalTemp = 0 /\ faulted = FALSE /\ samples = <<>>

(* deadline_enabled is false *)
PauseCheck ==  \* broken: the goal waits for the heater to come back on
  deadline' = (IF deadline > 0 THEN deadline - 1 ELSE 0) /\ UNCHANGED goalTemp
DropGoal == deadline' = 0 /\ goalTemp' = 0

OutOfWindow ==
  /\ ~faulted /\ DropGoal /\ samples' = <<>> /\ UNCHANGED faulted

(* deadline_enabled is true.  A tick has gone by since the last call. *)
DeadlineReached == deadline <= 1

Sampled(t) ==
  samples' = IF Len(samples) < SampleBound THEN Append(samples, t) ELSE Append(Tail(samples), t)

NewGoal(t) ==
  /\ ~faulted /\ t >= goalTemp
  /\ goalTemp' = t + HeatingGain /\ deadline' = DeadlineTicks
  /\ Sampled(t) /\ UNCHANGED faulted

StillHeating(t) ==
  /\ ~faulted /\ t < goalTemp /\ ~DeadlineReached
  /\ deadline' = deadline - 1
  /\ Sampled(t) /\ UNCHANGED <<goalTemp, faulted>>

RunsAway(t) ==
  /\ ~faulted /\ t < goalTemp /\ DeadlineReached
  /\ faulted' = TRUE /\ deadline' = 0
  /\ Sampled(t) /\ UNCHANGED goalTemp

(* After the panic somebody turns the machine off and on. *)
PowerCycle ==
  faulted /\ deadline' = 0 /\ goalTemp' = 0 /\ faulted' = FALSE /\ samples' = <<>>

ThermalNext ==
  \/ OutOfWindow \/ PowerCycle
  \/ \E t \in Temps : NewGoal(t) \/ StillHeating(t) \/ RunsAway(t)

ThermalSpec == ThermalInit /\ [][ThermalNext]_thermalVars

-----------------------------------------------------------------------------
GainedSince(i) == \E j \in i..Len(samples) : samples[j] >= samples[i] + HeatingGain

(* The verdict, by the temperatures alone.  The machine panics only if the   *)
(* water did not gain enough over the deadline's length, heater on and pump  *)
(* off all the while: a heater that does what the check assumes of it is     *)
(* never accused.  And it does panic before twice that time has gone by      *)
(* with no such gain between any two moments of it.                          *)
RunawayVerdict ==
  /\ faulted => /\ Len(samples) > DeadlineTicks
                /\ ~GainedSince(Len(samples) - DeadlineTicks)
  /\ Len(samples) = SampleBound /\ (\A i \in 1..SampleBound : ~GainedSince(i)) => faulted
=============================================================================
