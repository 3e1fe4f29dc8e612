------------------------------ MODULE Actuators ------------------------------
(***************************************************************************)
(* The regulator switches and set points of src/control/control.cpp, the   *)
(* outputs of src/hardware/hardware.cpp they drive, and what the entry and *)
(* exit hooks of src/control/states.hpp do to them.                        *)
(*                                                                         *)
(* A record of Actuators is the whole of it:                               *)
(*   boilerOn, pumpOn   heater_enabled, pump_enabled                       *)
(*   heater, pump       the PSM set value of the output is not zero        *)
(*   solenoid           the three-way valve is energised                   *)
(*   pressure, flow     where target_pressure and target_flow come from    *)
(*   temp               the target the heater PID was last given           *)
(* Lights are left out.                                                    *)
(***************************************************************************)

States == {"Off", "Standby", "Brew", "Steam", "Backflush", "Descale", "Manual"}

(* curr_state_id = -1 between two states, next_state = -1: no state at all. *)
NoState == "None"

Pressures == {"unset", "preinfusion", "brew", "manual"}
Flows     == {"unlimited", "manual"}
Temps     == {"unset", "brew", "steam"}

ActuatorSet ==
  [boilerOn : BOOLEAN, heater : BOOLEAN, pumpOn : BOOLEAN, pump : BOOLEAN,
   solenoid : BOOLEAN, pressure : Pressures, flow : Flows, temp : Temps]

InitialActuators ==
  [boilerOn |-> FALSE, heater |-> FALSE, pumpOn |-> FALSE, pump |-> FALSE,
   solenoid |-> FALSE, pressure |-> "unset", flow |-> "unlimited", temp |-> "unset"]

-----------------------------------------------------------------------------
(* control::set_boiler_enabled and set_pump_enabled: switching a regulator off *)
(* also zeroes its output, switching it on leaves the output to update().      *)
SetBoilerLeavesOutput(on, a) == [a EXCEPT !.boilerOn = on]  \* broken: no set_heater(0)
SetBoiler(on, a) == [a EXCEPT !.boilerOn = on, !.heater = on /\ a.heater]

SetPumpLeavesOutput(on, a) == [a EXCEPT !.pumpOn = on]  \* broken: no set_pump(0)
SetPumpEnabled(on, a) == [a EXCEPT !.pumpOn = on, !.pump = on /\ a.pump]

(* control::update: an enabled regulator gives its output any value, a      *)
(* disabled one leaves the output as the state's coroutine set it.          *)
Regulate(a, heat, push) ==
  [a EXCEPT !.heater = IF a.boilerOn THEN heat ELSE a.heater,
            !.pump   = IF a.pumpOn THEN push ELSE a.pump]

(* The three outputs that panic() holds at zero. *)
Quiet(a) == ~a.heater /\ ~a.pump /\ ~a.solenoid

SilenceHeaterOnly(a) == [a EXCEPT !.heater = FALSE]  \* broken: the pump runs on
Silence(a) == [a EXCEPT !.heater = FALSE, !.pump = FALSE, !.solenoid = FALSE]

-----------------------------------------------------------------------------
OnEnter(s, a) ==
  CASE s = "Off"       -> [SetBoiler(FALSE, SetPumpEnabled(FALSE, a)) EXCEPT !.solenoid = FALSE]
    [] s = "Standby"   -> [SetBoiler(TRUE, a) EXCEPT !.flow = "unlimited", !.temp = "brew"]
    [] s = "Brew"      -> [SetPumpEnabled(TRUE, a) EXCEPT !.solenoid = TRUE, !.flow = "unlimited"]
    [] s = "Steam"     -> [SetBoiler(FALSE, SetPumpEnabled(FALSE, a)) EXCEPT !.temp = "steam"]
    [] s = "Backflush" -> a
    [] s = "Descale"   -> [SetBoiler(FALSE, a) EXCEPT !.solenoid = FALSE]
    [] s = "Manual"    -> [SetPumpEnabled(TRUE, a) EXCEPT
                              !.solenoid = TRUE, !.flow = "manual", !.pressure = "manual"]

OnExit(s, a) ==
  CASE s = "Off"                             -> a
    [] s \in {"Standby", "Descale"}          -> [a EXCEPT !.pump = FALSE, !.solenoid = FALSE]
    [] s \in {"Brew", "Backflush", "Manual"} -> [SetPumpEnabled(FALSE, a) EXCEPT !.solenoid = FALSE]
    [] s = "Steam"                           -> [a EXCEPT !.pump = FALSE, !.heater = FALSE]
=============================================================================
