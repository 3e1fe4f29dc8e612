-------------------------------- MODULE Scale --------------------------------
(***************************************************************************)
(* The scale during a shot.  A tare takes a number of readings, which come *)
(* in read_weight whenever the two converters have delivered; a shot that  *)
(* began with the scale connected starts one after a while, and ends by    *)
(* weight when it is done.  The scale may come off at any time: then a     *)
(* tare is not started, or stands still, and does not count as taring.     *)
(*                                                                         *)
(* zeroed is what matters of the offsets: they were taken in this shot.    *)
(***************************************************************************)
EXTENDS Integers

CONSTANT TareSteps  \* SCALE_TARE_STEPS

ASSUME TareAssumption == TareSteps \in Nat \ {0}

VARIABLES
  connected,   \* scale_state.connected
  tareStep,    \* scale_state.tare_step
  turn,        \* main_loop in a shot: "check", "read" or "resume"; outside, "idle"
  hasScales,   \* locals of BrewState::coroutine
  tareStarted,
  tareDone,
  ownTare,     \* the tare under way was started by this shot
  zeroed,
  cameOff,     \* the scale was found disconnected in this shot
  weighed      \* the last resume compared the weight with brew_weight

brewingVars == <<hasScales, tareStarted, tareDone>>
scaleVars == <<connected, tareStep, turn, brewingVars, ownTare, zeroed, cameOff, weighed>>

ScaleTypeOK ==
  /\ connected \in BOOLEAN /\ tareStep \in -1..(TareSteps - 1)
  /\ turn \in {"idle", "check", "read", "resume"}
  /\ \A b \in {hasScales, tareStarted, tareDone, ownTare, zeroed, cameOff, weighed} : b \in BOOLEAN

(* tare_step is 0: the scales are tared as soon as they deliver. *)
ScaleInit ==
  /\ connected = FALSE /\ tareStep = 0 /\ turn = "idle"
  /\ hasScales = FALSE /\ tareStarted = FALSE /\ tareDone = FALSE
  /\ ownTare = FALSE /\ zeroed = FALSE /\ cameOff = FALSE /\ weighed = FALSE

IsTaring == connected /\ tareStep >= 0

-----------------------------------------------------------------------------
(* scale_start_tare *)
GoOnTaring == tareStep  \* broken: only the sums are reset
FirstTareStep == 0

StartTare(own) ==
  IF connected THEN tareStep' = FirstTareStep /\ ownTare' = own ELSE UNCHANGED <<tareStep, ownTare>>

(* read_weight: hx711_get has nothing, finds no scale, or delivers. *)
TareReading ==
  IF tareStep < 0 THEN UNCHANGED <<tareStep, ownTare, zeroed>>
  ELSE IF tareStep + 1 >= TareSteps
       THEN tareStep' = -1 /\ zeroed' = (zeroed \/ ownTare) /\ ownTare' = FALSE
       ELSE tareStep' = tareStep + 1 /\ UNCHANGED <<ownTare, zeroed>>

NoScale == connected' = FALSE /\ cameOff' = TRUE /\ UNCHANGED <<tareStep, ownTare, zeroed>>
Reading == connected' = TRUE /\ UNCHANGED cameOff /\ TareReading
NoData == UNCHANGED <<connected, cameOff, tareStep, ownTare, zeroed>>

ReadWeight ==
  /\ turn \in {"idle", "read"} /\ turn' = IF turn = "read" THEN "resume" ELSE "idle"
  /\ NoData \/ NoScale \/ Reading
  /\ UNCHANGED <<brewingVars, weighed>>

-----------------------------------------------------------------------------
(* The end of the prefill in StandbyState::coroutine *)
TareInStandby ==
  /\ turn = "idle" /\ StartTare(FALSE)
  /\ UNCHANGED <<connected, turn, brewingVars, zeroed, cameOff, weighed>>

BeginShot ==
  /\ turn = "idle" /\ turn' = "check"
  /\ hasScales' = connected /\ tareStarted' = FALSE /\ tareDone' = FALSE
  /\ ownTare' = FALSE /\ zeroed' = FALSE /\ cameOff' = ~connected /\ weighed' = FALSE
  /\ UNCHANGED <<connected, tareStep>>

(* BrewState::check_transitions: a scale slightly below zero is tared at once. *)
CheckShot ==
  /\ turn = "check" /\ turn' = "read"
  /\ zeroed' \in IF connected /\ ~IsTaring THEN {zeroed, TRUE} ELSE {zeroed}
  /\ UNCHANGED <<connected, tareStep, brewingVars, ownTare, cameOff, weighed>>

(* One pass of BrewState::coroutine; ms_before_tare may have gone by or not. *)
TestsWeight(done) == hasScales /\ done

ResumeShot ==
  /\ turn = "resume" /\ turn' = "check"
  /\ UNCHANGED <<connected, hasScales, zeroed, cameOff>>
  /\ \/ /\ ~tareStarted  \* not yet
        /\ weighed' = TestsWeight(tareDone)
        /\ UNCHANGED <<tareStarted, tareDone, tareStep, ownTare>>
     \/ /\ hasScales /\ ~tareStarted /\ tareStarted' = TRUE
        /\ StartTare(TRUE)
        /\ tareDone' = ~IsTaring' /\ weighed' = TestsWeight(tareDone')
     \/ /\ hasScales /\ tareStarted
        /\ tareDone' = ~IsTaring /\ weighed' = TestsWeight(tareDone')
        /\ UNCHANGED <<tareStarted, tareStep, ownTare>>

EndShot ==
  /\ turn # "idle" /\ turn' = "idle" /\ weighed' = FALSE
  /\ UNCHANGED <<connected, tareStep, brewingVars, ownTare, zeroed, cameOff>>

ScaleNext ==
  ReadWeight \/ TareInStandby \/ BeginShot \/ CheckShot \/ ResumeShot \/ EndShot

ScaleSpec == ScaleInit /\ [][ScaleNext]_scaleVars

-----------------------------------------------------------------------------
(* A shot is ended by its weight only with offsets taken in that shot, by    *)
(* however many readings that takes and whatever tare was under way before;  *)
(* unless the scale was found disconnected meanwhile, when the old offsets   *)
(* and the last weight are used as they are.                                 *)
WeighedAfterTare == weighed => zeroed \/ cameOff
=============================================================================
