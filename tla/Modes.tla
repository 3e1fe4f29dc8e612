-------------------------------- MODULE Modes --------------------------------
(***************************************************************************)
(* What the machine promises whoever stands in front of it, cores, locks   *)
(* and coroutines left aside: it is always in one mode, changes mode only  *)
(* along the arrows below, powers an output only in a mode that may use    *)
(* it, and once it has failed it stays put and only switches off.          *)
(***************************************************************************)
VARIABLES
  mode,    \* one of Modes
  live,    \* the outputs under power
  failed   \* the machine has stopped for good

modesVars == <<mode, live, failed>>

Modes == {"Off", "Standby", "Brew", "Steam", "Backflush", "Descale", "Manual"}
Services == {"Backflush", "Descale", "Manual"}

(* A descale never heats, steam never opens the brew valve, Off is dead. *)
Allowed(m) ==
  CASE m = "Off"     -> {}
    [] m = "Descale" -> {"pump", "valve"}
    [] m = "Steam"   -> {"pump", "heater"}
    [] OTHER         -> {"pump", "heater", "valve"}

(* Shots and steam are started from Standby alone; every other mode can be   *)
(* reached from any mode, because a request may arrive late.                 *)
Arrow(m, n) ==
  \/ n \in {"Off", "Standby"} \cup Services
  \/ m = "Standby" /\ n \in {"Brew", "Steam"}

ModesInit == mode = "Off" /\ live = {} /\ failed = FALSE

Work ==
  /\ ~failed
  /\ mode' = mode
  /\ live' \in SUBSET Allowed(mode)
  /\ failed' = failed

Change ==
  /\ ~failed
  /\ \E n \in Modes : Arrow(mode, n) /\ mode' = n
  /\ live' \in SUBSET Allowed(mode')
  /\ failed' = failed

Fail == ~failed /\ failed' = TRUE /\ UNCHANGED <<mode, live>>

ShutDown ==
  /\ failed
  /\ live' \in SUBSET live
  /\ UNCHANGED <<mode, failed>>

ModesNext == Work \/ Change \/ Fail \/ ShutDown

ModesSpec == ModesInit /\ [][ModesNext]_modesVars
=============================================================================
