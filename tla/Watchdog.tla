------------------------------ MODULE Watchdog ------------------------------
(***************************************************************************)
(* The hardware watchdog and the two loops that keep it quiet.             *)
(*                                                                         *)
(* Core 0 feeds it once a pass of protocol::main_loop, and from            *)
(* network_loop on only if core 1 has shown itself (core1_alive) since the *)
(* last time.  It reads the flag under a mutex it only tries to take, so a *)
(* pass may go by without a decision.  A core in panic() feeds it too.     *)
(*                                                                         *)
(* Time is a count of ticks.  A loop that runs comes round within its      *)
(* bound; a core that hangs (Stall) does nothing ever after.               *)
(***************************************************************************)
EXTENDS Naturals

CONSTANTS
  Period,    \* watchdog_enable's argument, 1000 ms
  Pass,      \* core 0: longest time between two looks at the flag
  Sleep,     \* core 1: network_loop sleeps this long, so two beats are so far apart
  Round,     \* core 1: longest time between two beats
  Hold,      \* core 1: longest time it holds the mutex
  Writing,   \* both cores stand still this long, for settings::update, between two feedings
  PanicPass  \* longest time between two feedings in panic(), the lockout included

ASSUME TicksAssumption ==
  /\ {Period, Pass, Sleep, Round, Hold, Writing, PanicPass} \subseteq Nat
  /\ Pass + Hold < Sleep /\ Sleep <= Round
  /\ Round + 2 * Pass + Hold + Writing + PanicPass < Period

VARIABLES
  enabled,     \* core1_watchdog_enabled
  alive,       \* core1_alive
  aliveMutex,  \* owner of core1_alive_mutex when time passes: "core1" or "free"
  panicking,   \* the core in panic(); it holds the other
  stalled,     \* the cores that hang
  sinceLook,   \* ticks since core 0 began its pass, or the panicking core its pass
  sinceBeat,   \* ticks since core 1's last beat
  hungry,      \* ticks since watchdog_update
  written,     \* of these, ticks spent writing to the flash
  unnoticed    \* ticks since a core hung with nobody in panic() to answer for it

watchdogVars == <<enabled, alive, aliveMutex, panicking, stalled,
                  sinceLook, sinceBeat, hungry, written, unnoticed>>

WatchedCores == {"core0", "core1"}
Works(c) == c \notin stalled /\ panicking = "none"
InPanic(c) == panicking = c /\ c \notin stalled

WatchdogTypeOK ==
  /\ enabled \in BOOLEAN /\ alive \in BOOLEAN /\ aliveMutex \in {"free", "core1"}
  /\ panicking \in WatchedCores \cup {"none"} /\ stalled \subseteq WatchedCores
  /\ sinceLook \in Nat /\ sinceBeat \in Nat /\ hungry \in Nat
  /\ written \in Nat /\ unnoticed \in Nat

(* main(): the watchdog is on, core 1 is still connecting. *)
WatchdogInit ==
  /\ enabled = FALSE /\ alive = FALSE /\ aliveMutex = "free"
  /\ panicking = "none" /\ stalled = {}
  /\ sinceLook = 0 /\ sinceBeat = 0 /\ hungry = 0 /\ written = 0 /\ unnoticed = 0

FeedDog == hungry' = 0 /\ written' = 0

-----------------------------------------------------------------------------
(* Core 0: what main_loop does between mutex_try_enter and mutex_exit. *)
FeedForBothOnly ==  \* broken: core 1 is asked for before it is expected to answer
  IF alive THEN FeedDog /\ alive' = FALSE ELSE UNCHANGED <<alive, hungry, written>>
FeedAndKeepFlag ==  \* broken: the flag is not taken back
  IF ~enabled \/ alive THEN FeedDog /\ UNCHANGED alive ELSE UNCHANGED <<alive, hungry, written>>
FeedForBoth ==
  IF ~enabled \/ alive THEN FeedDog /\ alive' = FALSE ELSE UNCHANGED <<alive, hungry, written>>

Look ==
  /\ Works("core0") /\ sinceLook' = 0
  /\ IF aliveMutex = "free" THEN FeedForBoth ELSE UNCHANGED <<alive, hungry, written>>
  /\ UNCHANGED <<enabled, aliveMutex, panicking, stalled, sinceBeat, unnoticed>>

(* Core 1 enters network_loop. *)
Enable ==
  /\ Works("core1") /\ ~enabled
  /\ enabled' = TRUE /\ sinceBeat' = 0
  /\ UNCHANGED <<alive, aliveMutex, panicking, stalled, sinceLook, hungry, written, unnoticed>>

(* Core 1, once a round after its sleep: takes the mutex and sets the flag. *)
Beat ==
  /\ Works("core1") /\ enabled /\ aliveMutex = "free" /\ sinceBeat >= Sleep
  /\ aliveMutex' = "core1" /\ alive' = TRUE /\ sinceBeat' = 0
  /\ UNCHANGED <<enabled, panicking, stalled, sinceLook, hungry, written, unnoticed>>

Release ==
  /\ Works("core1") /\ aliveMutex = "core1"
  /\ aliveMutex' = "free"
  /\ UNCHANGED <<enabled, alive, panicking, stalled, sinceLook, sinceBeat, hungry, written, unnoticed>>

(* A core calls panic(), which holds the other one. *)
EnterPanic(c) ==
  /\ Works(c) /\ panicking' = c /\ sinceLook' = 0 /\ unnoticed' = 0
  /\ UNCHANGED <<enabled, alive, aliveMutex, stalled, sinceBeat, hungry, written>>

PanicFeeds(c) ==
  /\ InPanic(c) /\ FeedDog /\ sinceLook' = 0
  /\ UNCHANGED <<enabled, alive, aliveMutex, panicking, stalled, sinceBeat, unnoticed>>

-----------------------------------------------------------------------------
(* The environment.  A core hangs: in a loop, a fault or a deadlock. *)
Stall(c) ==
  /\ c \notin stalled /\ panicking \in {"none", c}
  /\ stalled' = stalled \cup {c}
  /\ UNCHANGED <<enabled, alive, aliveMutex, panicking, sinceLook, sinceBeat, hungry, written, unnoticed>>

(* Whether the watchdog is meant to notice: before network_loop core 1 is not. *)
Watching == stalled # {} /\ (enabled \/ "core0" \in stalled) /\ ~\E c \in WatchedCores : InPanic(c)
Unnoticed == unnoticed' = IF Watching THEN unnoticed + 1 ELSE 0

(* One tick, if no loop has to come round first. *)
Tick ==
  /\ hungry < Period
  /\ Works("core0") => sinceLook < Pass
  /\ \A c \in WatchedCores : InPanic(c) => sinceLook < PanicPass
  /\ Works("core1") /\ enabled => sinceBeat < IF aliveMutex = "core1" THEN Hold ELSE Round
  /\ sinceLook' = IF Works("core0") \/ \E c \in WatchedCores : InPanic(c) THEN sinceLook + 1 ELSE 0
  /\ sinceBeat' = IF Works("core1") /\ enabled THEN sinceBeat + 1 ELSE 0
  /\ hungry' = hungry + 1 /\ Unnoticed
  /\ UNCHANGED <<enabled, alive, aliveMutex, panicking, stalled, written>>

(* One tick in which core 1 writes to the flash and core 0 is held. *)
WriteTick ==
  /\ hungry < Period /\ written < Writing /\ Works("core1") /\ enabled
  /\ hungry' = hungry + 1 /\ written' = written + 1 /\ Unnoticed
  /\ UNCHANGED <<enabled, alive, aliveMutex, panicking, stalled, sinceLook, sinceBeat>>

(* The watchdog resets the board. *)
Bite ==
  /\ hungry = Period
  /\ enabled' = FALSE /\ alive' = FALSE /\ aliveMutex' = "free"
  /\ panicking' = "none" /\ stalled' = {}
  /\ sinceLook' = 0 /\ sinceBeat' = 0 /\ hungry' = 0 /\ written' = 0 /\ unnoticed' = 0

WatchdogNext ==
  \/ Look \/ Enable \/ Beat \/ Release \/ Tick \/ WriteTick \/ Bite
  \/ \E c \in WatchedCores : EnterPanic(c) \/ PanicFeeds(c) \/ Stall(c)

WatchdogSpec == WatchdogInit /\ [][WatchdogNext]_watchdogVars

-----------------------------------------------------------------------------
(* The board is never reset while no core hangs, in panic() or out of it:    *)
(* core 0 takes the flag back every time it feeds and may find the mutex     *)
(* taken, and still every round of core 1 reaches the watchdog.              *)
OnlyAHangBites == stalled = {} => hungry < Period

(* A core that hangs is noticed: the flag it may have left behind buys one   *)
(* more feeding, at the next pass, and no second one.                        *)
HangsAreNoticed == unnoticed <= Period + Pass
=============================================================================
