--------------------------------- MODULE Psm ---------------------------------
(***************************************************************************)
(* One phase-skipping dimmer (struct PSM) and the pump's click counter.    *)
(*                                                                         *)
(* The mains raises an interrupt on core 0 at every zero crossing.  Every  *)
(* second one adds the set value to an accumulator and lets the next       *)
(* cycle pass whenever a full cycle's worth has come together.  Core 0     *)
(* sets the value with the interrupt on, takes the count of passed cycles  *)
(* in two steps and so does core 1, which throws its count away.           *)
(***************************************************************************)
EXTENDS Integers

CONSTANTS
  MaxValue,   \* max_value, 100
  Requests,   \* what set() is called with
  MaxPulses   \* bound: passed cycles counted

ASSUME DimmerAssumption == MaxValue \in Nat \ {0} /\ Requests \subseteq Nat /\ MaxPulses \in Nat

VARIABLES
  setValue, accumulator, divider, pin, counter,
  dark,       \* next_update_time is not reached
  setting,    \* the value set() still has to pull the pin low for, or -1
  counting,   \* the handler has loaded the counter to increment it: its value, or -1
  reading,    \* per core, what get_and_reset_pump_clicks has loaded, or -1
  fired,      \* cycles passed and counted so far
  demand,     \* sum of the set values the handler has added
  taken,      \* clicks core 0 was given
  discarded,  \* clicks core 1 threw away
  overlapped  \* two of the handler, core 0 and core 1 were at the counter at once

counterVars == <<counter, counting, reading, fired, taken, discarded, overlapped>>
psmVars == <<setValue, accumulator, divider, pin, dark, setting, demand, counterVars>>

Readers == {"core0", "core1"}

PsmTypeOK ==
  /\ setValue \in 0..MaxValue /\ accumulator \in 0..(MaxValue - 1) /\ divider \in 0..1
  /\ pin \in BOOLEAN /\ dark \in BOOLEAN
  /\ setting = -1 \/ setting \in Nat
  /\ counter \in Nat /\ fired \in Nat /\ demand \in Nat

PsmInit ==
  /\ setValue = 0 /\ accumulator = 0 /\ divider = 0 /\ pin = FALSE /\ dark = FALSE
  /\ setting = -1 /\ demand = 0
  /\ counter = 0 /\ counting = -1 /\ reading = [c \in Readers |-> -1]
  /\ fired = 0 /\ taken = 0 /\ discarded = 0 /\ overlapped = FALSE

-----------------------------------------------------------------------------
(* set(): the value, and then the pin.  The interrupt may come in between.   *)
Core0Runs == counting = -1

Set(v) ==
  /\ Core0Runs /\ setting = -1 /\ reading["core0"] = -1
  /\ setValue' = (IF v < MaxValue THEN v ELSE MaxValue) /\ setting' = v
  /\ UNCHANGED <<accumulator, divider, pin, dark, demand, counterVars>>

LeavePin == FALSE  \* broken: the next crossing is relied on to pull the pin low
LowerPin == setting = 0

SetDone ==
  /\ Core0Runs /\ setting # -1 /\ setting' = -1
  /\ pin' = (pin /\ ~LowerPin)
  /\ UNCHANGED <<setValue, accumulator, divider, dark, demand, counterVars>>

-----------------------------------------------------------------------------
(* zero_crossing_handler, in an interrupt of core 0.  It works off a crossing *)
(* only 6 ms after the last one, and of those every second.                   *)
Meeting ==
  \/ counting # -1 /\ \E c \in Readers : reading[c] # -1
  \/ \A c \in Readers : reading[c] # -1
NoteMeeting == overlapped' = (overlapped \/ Meeting')

SkipCrossing ==
  /\ ~dark /\ Core0Runs /\ divider = 0
  /\ dark' = TRUE /\ divider' = 1
  /\ UNCHANGED <<setValue, accumulator, pin, setting, demand, counterVars>>

HoldBack ==
  /\ ~dark /\ Core0Runs /\ divider = 1 /\ accumulator + setValue < MaxValue
  /\ dark' = TRUE /\ divider' = 0
  /\ accumulator' = accumulator + setValue /\ demand' = demand + setValue
  /\ pin' = FALSE
  /\ UNCHANGED <<setValue, setting, counterVars>>

KeepNothing == 0  \* broken: a passed cycle takes all that has accumulated
Remainder == accumulator + setValue - MaxValue

LetPass ==
  /\ ~dark /\ Core0Runs /\ divider = 1 /\ accumulator + setValue >= MaxValue
  /\ fired < MaxPulses
  /\ dark' = TRUE /\ divider' = 0
  /\ accumulator' = Remainder /\ demand' = demand + setValue
  /\ pin' = TRUE
  /\ counting' = counter
  /\ UNCHANGED <<setValue, setting, counter, reading, fired, taken, discarded>>
  /\ NoteMeeting

(* counter += 1, the store *)
Count ==
  /\ counting # -1
  /\ counter' = counting + 1 /\ fired' = fired + 1 /\ counting' = -1
  /\ UNCHANGED <<setValue, accumulator, divider, pin, dark, setting, demand, reading,
                 taken, discarded, overlapped>>

(* 6 ms go by. *)
Brighten ==
  /\ dark /\ dark' = FALSE
  /\ UNCHANGED <<setValue, accumulator, divider, pin, setting, demand, counterVars>>

-----------------------------------------------------------------------------
(* get_and_reset_pump_clicks, on core 0 for update_sensors and on core 1     *)
(* when a shot begins.  Core 0 does nothing while its interrupt runs.        *)
RunsBesidesHandler(c) == TRUE  \* broken: the interrupt is enabled on the other core
MayRun(c) == c = "core0" => Core0Runs

Load(c) ==
  /\ MayRun(c) /\ (c = "core0" => setting = -1)
  /\ reading[c] = -1 /\ reading' = [reading EXCEPT ![c] = counter]
  /\ UNCHANGED <<setValue, accumulator, divider, pin, dark, setting, demand,
                 counter, counting, fired, taken, discarded>>
  /\ NoteMeeting

Zero(c) ==
  /\ MayRun(c) /\ reading[c] # -1
  /\ counter' = 0 /\ reading' = [reading EXCEPT ![c] = -1]
  /\ taken' = IF c = "core0" THEN taken + reading[c] ELSE taken
  /\ discarded' = IF c = "core1" THEN discarded + reading[c] ELSE discarded
  /\ UNCHANGED <<setValue, accumulator, divider, pin, dark, setting, demand,
                 counting, fired, overlapped>>

PsmNext ==
  \/ (\E v \in Requests : Set(v)) \/ SetDone
  \/ SkipCrossing \/ HoldBack \/ LetPass \/ Count \/ Brighten
  \/ \E c \in Readers : Load(c) \/ Zero(c)

PsmSpec == PsmInit /\ [][PsmNext]_psmVars

-----------------------------------------------------------------------------
(* An output that is set to zero is off as soon as set() returns and stays   *)
(* off, wherever the zero-crossing interrupt came and whatever the           *)
(* accumulator still holds.                                                  *)
OffIsOff == setting = -1 /\ setValue = 0 => ~pin

(* Over any stretch of settings the mains cycles that pass are the demand    *)
(* divided by a full cycle: a remainder is neither lost nor grows.           *)
PulsesFollowDemand ==
  counting = -1 => fired * MaxValue + accumulator = demand /\ accumulator < MaxValue

(* No click is counted twice, whichever way the two cores and the interrupt  *)
(* meet at the counter, and none is lost unless two of them did meet.        *)
ClicksAreCountedOnce ==
  /\ taken + counter <= fired
  /\ ~overlapped => taken + discarded + counter = fired
=============================================================================
