------------------------------- MODULE BrewLog -------------------------------
(***************************************************************************)
(* The SD card and the log of each shot.  Core 1 learns of a change of     *)
(* state only by looking at curr_state_id once a round; between two looks  *)
(* core 0 may go through several states, and -1 is one of the values core  *)
(* 1 may see.  What it does about the card and the log depends on the last *)
(* two values it saw, and on brew_start_time, which core 0 sets.           *)
(***************************************************************************)
EXTENDS Naturals

CONSTANT MaxShots  \* bound: shots pulled

ASSUME ShotsAssumption == MaxShots \in Nat

VARIABLES
  shown,       \* curr_state_id; "Standby" is every state but Off and Brew, "none" is -1
  leaving,     \* core 0: the last state whose entry is complete
  fiveSeconds, \* five seconds have passed since brew_start_time
  shots,       \* shots begun
  lasted,      \* the shots that took five seconds or more
  round,       \* where core 1 is in its round
  seen,        \* old_state_id
  glimpsed,    \* new_state_id
  mounted,     \* the card is mounted, stdout.txt is open
  logShot,     \* brew_log_filename: the shot it was made up for, or 0
  fate,        \* of each shot's log: "none", "open", "kept", "lost", "deleted"
  intoOff      \* the shots after which the first thing core 1 saw was Off

shotVars == <<shown, leaving, fiveSeconds, shots, lasted>>
logVars == <<mounted, logShot, fate, intoOff>>
brewVars == <<shotVars, round, seen, glimpsed, logVars>>

ShownStates == {"Off", "Standby", "Brew"}
Shots == 1..MaxShots

BrewTypeOK ==
  /\ shown \in ShownStates \cup {"none"} /\ leaving \in ShownStates
  /\ fiveSeconds \in BOOLEAN /\ shots \in 0..MaxShots /\ lasted \subseteq Shots
  /\ round \in {"sleep", "card", "open", "close", "unlink", "write"}
  /\ seen \in ShownStates \cup {"none"} /\ glimpsed \in ShownStates \cup {"none"}
  /\ mounted \in BOOLEAN /\ logShot \in 0..MaxShots
  /\ fate \in [Shots -> {"none", "open", "kept", "lost", "deleted"}]
  /\ intoOff \subseteq Shots

BrewInit ==
  /\ shown = "Off" /\ leaving = "Off" /\ fiveSeconds = TRUE /\ shots = 0 /\ lasted = {}
  /\ round = "sleep" /\ seen = "Off" /\ glimpsed = "Off"
  /\ mounted = FALSE /\ logShot = 0
  /\ fate = [s \in Shots |-> "none"] /\ intoOff = {}

-----------------------------------------------------------------------------
(* Core 0 and time. *)
ShowNone ==
  /\ shown = leaving /\ shown' = "none"
  /\ lasted' = IF shown = "Brew" /\ fiveSeconds THEN lasted \cup {shots} ELSE lasted
  /\ UNCHANGED <<leaving, fiveSeconds, shots, round, seen, glimpsed, logVars>>

ShowState(s) ==
  /\ shown = "none" /\ s # leaving
  /\ shown' = s /\ leaving' = s
  /\ UNCHANGED <<fiveSeconds, shots, lasted, round, seen, glimpsed, logVars>>

(* The state is shown before on_enter sets brew_start_time. *)
ShowBrew ==
  /\ shown = "none" /\ leaving = "Standby" /\ shots < MaxShots
  /\ shown' = "Brew" /\ shots' = shots + 1
  /\ UNCHANGED <<leaving, fiveSeconds, lasted, round, seen, glimpsed, logVars>>

StampShot ==
  /\ shown = "Brew" /\ leaving # "Brew"
  /\ leaving' = "Brew" /\ fiveSeconds' = FALSE
  /\ UNCHANGED <<shown, shots, lasted, round, seen, glimpsed, logVars>>

FiveSecondsPass ==
  /\ ~fiveSeconds /\ fiveSeconds' = TRUE
  /\ UNCHANGED <<shown, leaving, shots, lasted, round, seen, glimpsed, logVars>>

-----------------------------------------------------------------------------
(* Core 1's round: it looks, works through core1_on_state_change, and adds a *)
(* row to the log if the machine brews by then.                              *)
AtRound(here, next) == round = here /\ round' = next

Glimpse ==
  /\ AtRound("sleep", IF shown = seen THEN "write" ELSE "card")
  /\ glimpsed' = shown
  /\ intoOff' = IF seen = "Brew" /\ shown = "Off" THEN intoOff \cup {logShot} ELSE intoOff
  /\ UNCHANGED <<shotVars, seen, mounted, logShot, fate>>

(* sd_card::init or sd_card::deinit.  (A card that cannot be mounted is a    *)
(* panic.)                                                                   *)
MountedBy == mounted \/ seen = "Off"

Card ==
  /\ AtRound("card", "open")
  /\ mounted' = (MountedBy /\ glimpsed # "Off")
  /\ UNCHANGED <<shotVars, seen, glimpsed, logShot, fate, intoOff>>

(* open_brew_log_file: the clock, the directory or the file may fail. *)
OpenLog ==
  /\ round = "open" /\ glimpsed = "Brew" /\ round' = "close"
  /\ logShot' = shots
  /\ \E opened \in BOOLEAN :
       fate' = IF mounted /\ opened THEN [fate EXCEPT ![shots] = "open"] ELSE fate
  /\ UNCHANGED <<shotVars, seen, glimpsed, mounted, intoOff>>

NoShotBegins ==
  /\ round = "open" /\ glimpsed # "Brew" /\ round' = "close"
  /\ UNCHANGED <<shotVars, seen, glimpsed, logVars>>

(* f_close.  On a card that is not mounted any more it fails, and what the   *)
(* file system had not written yet is lost.                                  *)
ShotSeenToEndInStandby == seen = "Brew" /\ glimpsed = "Standby"  \* broken: -1 is not thought of
ShotSeenToEnd == seen = "Brew"

CloseLog ==
  /\ round = "close" /\ ShotSeenToEnd /\ round' = "unlink"
  /\ fate' = IF logShot > 0 /\ fate[logShot] = "open"
             THEN [fate EXCEPT ![logShot] = IF mounted THEN "kept" ELSE "lost"] ELSE fate
  /\ UNCHANGED <<shotVars, seen, glimpsed, mounted, logShot, intoOff>>

(* f_unlink, if the last shot to begin began less than five seconds ago. *)
UnlinkLog ==
  /\ AtRound("unlink", "write") /\ seen' = glimpsed
  /\ fate' = IF ~fiveSeconds /\ mounted /\ logShot > 0 /\ fate[logShot] = "kept"
             THEN [fate EXCEPT ![logShot] = "deleted"] ELSE fate
  /\ UNCHANGED <<shotVars, glimpsed, mounted, logShot, intoOff>>

NoShotEnds ==
  /\ round = "close" /\ ~ShotSeenToEnd /\ round' = "write" /\ seen' = glimpsed
  /\ UNCHANGED <<shotVars, glimpsed, logVars>>

(* The rest of network_loop.  A row for a log that is not open is an error   *)
(* that is printed.                                                          *)
WriteRow ==
  /\ AtRound("write", "sleep")
  /\ UNCHANGED <<shotVars, seen, glimpsed, logVars>>

BrewNext ==
  \/ ShowNone \/ (\E s \in ShownStates \ {"Brew"} : ShowState(s)) \/ ShowBrew \/ StampShot
  \/ FiveSecondsPass
  \/ Glimpse \/ Card \/ OpenLog \/ NoShotBegins
  \/ CloseLog \/ UnlinkLog \/ NoShotEnds \/ WriteRow

BrewSpec == BrewInit /\ [][BrewNext]_brewVars

-----------------------------------------------------------------------------
(* Between two rounds, whatever core 1 saw and missed: the card is mounted   *)
(* unless the machine was last seen Off; no log is left open but that of a   *)
(* shot not seen to end; a log is lost only if Off was the first thing seen  *)
(* after the shot (the card is unmounted before the log is closed), and      *)
(* deleted only if the shot was short or the next one had begun.             *)
ShotsAreLogged ==
  round \in {"sleep", "write"} =>
    /\ mounted <=> seen # "Off"
    /\ \A s \in 1..shots :
         /\ fate[s] = "open" => seen = "Brew" /\ logShot = s
         /\ fate[s] = "lost" => s \in intoOff
         /\ fate[s] = "deleted" => s \notin lasted \/ s < shots
=============================================================================
