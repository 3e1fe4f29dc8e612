------------------------------ MODULE MC_Parts ------------------------------
(***************************************************************************)
(* The parts that share no state with one another, each checked by itself: *)
(* a behaviour is one of one part, the others stay at their first state.   *)
(***************************************************************************)
EXTENDS Watchdog, Psm, ThermalRunaway, Debounce, BrewLog, QueueStart, Scale, Calendar, Wire,
        Messages, Classic

Parts == {"watchdog", "dimmer", "thermal", "debounce", "brewlog", "queue", "scale", "calendar", "wire",
          "reflection", "classic"}

VARIABLE part

PartsInit ==
  /\ part \in Parts
  /\ WatchdogInit /\ PsmInit /\ ThermalInit /\ BrewInit /\ QueueInit /\ ScaleInit
  /\ CalendarInit /\ WireInit /\ ReflectionInit /\ ClassicInit
  /\ DebounceInit /\ (part # "debounce" => ~level)

Rests(p, vars) == IF part = p THEN TRUE ELSE UNCHANGED vars

PartsNext ==
  /\ \/ part = "watchdog" /\ WatchdogNext
     \/ part = "dimmer"   /\ PsmNext
     \/ part = "thermal"  /\ ThermalNext
     \/ part = "debounce" /\ DebounceNext
     \/ part = "brewlog"  /\ BrewNext
     \/ part = "queue"    /\ QueueNext
     \/ part = "scale"    /\ ScaleNext
     \/ part = "calendar" /\ CalendarNext
     \/ part = "wire"     /\ WireNext
     \/ part = "reflection" /\ ReflectionNext
     \/ part = "classic"  /\ ClassicNext
  /\ Rests("watchdog", watchdogVars) /\ Rests("dimmer", psmVars) /\ Rests("thermal", thermalVars)
  /\ Rests("debounce", debounceVars) /\ Rests("brewlog", brewVars) /\ Rests("queue", queueVars)
  /\ Rests("scale", scaleVars) /\ Rests("calendar", calendarVars) /\ Rests("wire", wireVars)
  /\ Rests("reflection", reflectionVars) /\ Rests("classic", classicVars)
  /\ UNCHANGED part

PartsSpec ==
  PartsInit /\ [][PartsNext]_<<part, watchdogVars, psmVars, thermalVars, debounceVars, brewVars,
                               queueVars, scaleVars, calendarVars, wireVars, reflectionVars,
                               classicVars>>
=============================================================================
