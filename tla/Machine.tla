------------------------------- MODULE Machine -------------------------------
(***************************************************************************)
(* The two cores around the coroutines.                                    *)
(*                                                                         *)
(* Core 0 runs protocol::main_loop: take a scheduled state change, else    *)
(* check the switches, else run one cycle of the current state.  A change  *)
(* of state is several steps (impl/state_machine.hpp), because core 1 can  *)
(* read curr_state_id and queue messages in between.                       *)
(*                                                                         *)
(* Core 1 runs protocol::network_loop and, in an interrupt, the handlers   *)
(* of network/messages.cpp.  A handler reads curr_state_id, decides, and   *)
(* only then takes the lock and writes next_state.                         *)
(*                                                                         *)
(* Either core may call panic(), which stops the other core first.         *)
(***************************************************************************)
EXTENDS Routines

CONSTANTS
  Commands,      \* the client messages in use
  Switches,      \* the switches somebody turns
  SensorBacklog, \* no sensor message is queued behind this many others (5)
  ClientsWait    \* clients ask for nothing while a request is still scheduled

AllCommands == {"powerOn", "powerOff", "backflush", "descale", "stop", "manual", "status", "settings"}
AllSwitches == {"steam", "brew", "power"}

ASSUME CommandsAssumption == Commands \subseteq AllCommands
ASSUME SwitchesAssumption == Switches \subseteq AllSwitches
ASSUME BacklogAssumption == SensorBacklog \in Nat
ASSUME ClientsAssumption == ClientsWait \in BOOLEAN

VARIABLES
  pc,           \* core 0: where main_loop or change_state is
  target, from, \* change_state's T::ID and old_state while a change is under way
  lastPressed,  \* is_power_just_pressed's last_pressed
  handler,      \* core 1: the message handler, and the state it decided on or read
  sensorDue,    \* core 1: network_loop found room for a sensor message
  halted        \* the core held by multicore_lockout

routineVars == <<act, co, awaiter, qlen, panic, nextState>>
switchVars  == <<pc, target, from>>
core1Vars   == <<handler, sensorDue>>
inputVars   == <<sw, prefill>>
vars == <<cur, routineVars, mutex, switchVars, lastPressed, core1Vars, inputVars, halted>>

Cores == {"core0", "core1"}
Other(c) == CHOOSE d \in Cores : d # c
Runs(c) == c \notin panic /\ halted # c

(* One network::enqueue_message outside a coroutine. *)
PostPastTheEnd(n, c) ==  \* broken: room for one message more than there is
  IF qlen + n <= QueueCapacity + 1
  THEN qlen' = qlen + n /\ UNCHANGED panic
  ELSE qlen' = QueueCapacity /\ panic' = panic \cup {c}
Post(n, c) ==
  IF qlen + n <= QueueCapacity
  THEN qlen' = qlen + n /\ UNCHANGED panic
  ELSE qlen' = QueueCapacity /\ panic' = panic \cup {c}

(* main() and main_loop before its first pass: enter_state<OffState>() with  *)
(* no announcement, outputs low since hardware::init.                        *)
Init ==
  /\ cur = "Off" /\ act = OnEnter("Off", InitialActuators)
  /\ co = FreshFrame /\ awaiter = "none"
  /\ sw \in [AllSwitches -> {FALSE}] /\ prefill = FALSE
  /\ nextState = NoState /\ mutex = "free"
  /\ qlen = 0 /\ panic = {} /\ halted = "none"
  /\ pc = "top" /\ target = NoState /\ from = NoState
  /\ lastPressed = FALSE
  /\ handler = [pc |-> "idle", state |-> NoState] /\ sensorDue = FALSE

-----------------------------------------------------------------------------
(* Core 0.  hardware::read_temp finds a broken sensor: in check_thermals,    *)
(* which may also find a runaway, in OffState::on_exit, or in update_sensors. *)
SensorPanic ==
  /\ panic' = panic \cup {"core0"}
  /\ UNCHANGED <<act, co, awaiter, qlen, nextState>>

Fault ==
  /\ pc = "top" \/ (pc = "leave" /\ cur = "Off")
  /\ SensorPanic
  /\ UNCHANGED <<cur, mutex, switchVars, lastPressed, core1Vars, inputVars, halted>>

BeginSwitch(s) == pc' = "leave" /\ target' = s /\ UNCHANGED from

(* mutex_try_enter fails while core 1 holds the mutex; nothing may be scheduled. *)
SkipScheduled ==
  /\ pc = "top"
  /\ mutex = "core1" \/ nextState = NoState
  /\ pc' = "check"
  /\ UNCHANGED <<cur, routineVars, mutex, target, from, lastPressed, core1Vars, inputVars, halted>>

(* change_state returns at once when the machine is in that state already.   *)
AlreadyThere == nextState = cur

TakeScheduled ==
  /\ pc = "top"
  /\ mutex = "free" /\ nextState # NoState
  /\ \/ /\ AlreadyThere
        /\ nextState' = NoState
        /\ UNCHANGED <<mutex, switchVars>>
     \/ /\ ~AlreadyThere
        /\ mutex' = "core0"
        /\ BeginSwitch(nextState)
        /\ UNCHANGED nextState
  /\ UNCHANGED <<cur, act, co, awaiter, qlen, panic, lastPressed, core1Vars, inputVars, halted>>

(* leave_state: on_exit, destroy the coroutine, curr_state_id = -1. *)
LeaveState ==
  /\ pc = "leave"
  /\ act' = OnExit(cur, act)
  /\ Destroy
  /\ from' = cur /\ cur' = NoState
  /\ prefill' \in IF cur = "Off" THEN BOOLEAN ELSE {prefill}
  /\ pc' = "enter"
  /\ UNCHANGED <<sw, nextState, mutex, qlen, panic, target, lastPressed, core1Vars, halted>>

(* enter_state: curr_state_id = T::ID, on_enter, create the coroutine. *)
EnterState ==
  /\ pc = "enter"
  /\ cur' = target
  /\ act' = OnEnter(target, act)
  /\ co' = FreshFrame
  /\ pc' = "announce"
  /\ UNCHANGED <<awaiter, nextState, mutex, qlen, panic, target, from,
                 lastPressed, core1Vars, inputVars, halted>>

(* Back in the loop: a scheduled change is done with, any other leaves the   *)
(* mailbox alone.                                                            *)
FinishAndClear == /\ nextState' = NoState  \* broken: clears it after every change
                  /\ mutex' = IF mutex = "core0" THEN "free" ELSE mutex
FinishChange ==
  IF mutex = "core0"
  THEN nextState' = NoState /\ mutex' = "free"
  ELSE UNCHANGED <<nextState, mutex>>

(* on_state_change, whose message may be the one too many. *)
AnnounceState ==
  /\ pc = "announce"
  /\ Post(1, "core0")
  /\ IF qlen = QueueCapacity
     THEN UNCHANGED <<switchVars, nextState, mutex>>
     ELSE pc' = "top" /\ target' = NoState /\ from' = NoState /\ FinishChange
  /\ UNCHANGED <<cur, act, co, awaiter, lastPressed, core1Vars, inputVars, halted>>

-----------------------------------------------------------------------------
(* check_transitions of the states that follow the switches. *)
SteamFromAnywhere ==  \* broken: the steam switch works in every state
  CASE cur \notin {"Off", "Steam"} /\ sw.steam -> "Steam"
    [] cur = "Standby" /\ sw.brew /\ ~sw.steam -> "Brew"
    [] cur = "Brew" /\ ~sw.brew -> "Standby"
    [] cur = "Steam" /\ ~sw.steam -> "Standby"
    [] OTHER -> NoState
SwitchTarget ==
  CASE cur = "Standby" /\ sw.steam -> "Steam"
    [] cur = "Standby" /\ sw.brew /\ ~sw.steam -> "Brew"
    [] cur = "Brew" /\ ~sw.brew -> "Standby"
    [] cur = "Steam" /\ ~sw.steam -> "Standby"
    [] OTHER -> NoState

FollowSwitch ==
  /\ pc = "check"
  /\ SwitchTarget # NoState
  /\ BeginSwitch(SwitchTarget)
  /\ UNCHANGED <<cur, routineVars, mutex, lastPressed, core1Vars, inputVars, halted>>

(* hardware::is_power_just_pressed: an edge, told once. *)
JustPressed == sw.power /\ ~lastPressed
ObservePress == lastPressed' = (lastPressed \/ sw.power)  \* broken: no release
ObservePower == lastPressed' = sw.power

(* The power switch turns the machine on, and off from everywhere else. *)
FollowPower ==
  /\ pc = "check"
  /\ SwitchTarget = NoState
  /\ JustPressed
  /\ ObservePower
  /\ BeginSwitch(IF cur = "Off" THEN "Standby" ELSE "Off")
  /\ UNCHANGED <<cur, routineVars, mutex, core1Vars, inputVars, halted>>

(* Off restarts the loop before sensors, coroutine and regulators. *)
StayOff ==
  /\ pc = "check"
  /\ cur = "Off" /\ ~JustPressed
  /\ ObservePower
  /\ pc' = "top"
  /\ UNCHANGED <<cur, routineVars, mutex, target, from, core1Vars, inputVars, halted>>

RunCycle ==
  /\ pc = "check"
  /\ cur # "Off" /\ SwitchTarget = NoState /\ ~JustPressed
  /\ ObservePower
  /\ RoutineStep \/ RoutineWaits \/ SensorPanic
  /\ pc' = "top"
  /\ UNCHANGED <<cur, mutex, target, from, core1Vars, inputVars, halted>>

Loop ==
  \/ SkipScheduled \/ TakeScheduled
  \/ LeaveState \/ EnterState \/ AnnounceState
  \/ FollowSwitch \/ FollowPower \/ StayOff \/ RunCycle

Core0 == Runs("core0") /\ (Loop \/ Fault)
-----------------------------------------------------------------------------
(* Core 1.  What a handler asks for, given the state it reads: the state to  *)
(* schedule, or no state when the message is ignored.                        *)
Decision(msg, s) ==
  CASE msg = "powerOn"   /\ s = "Off"                      -> "Standby"
    [] msg = "powerOff"  /\ s # "Off"                      -> "Off"
    [] msg = "backflush" /\ s = "Standby"                  -> "Backflush"
    [] msg = "descale"   /\ s = "Standby"                  -> "Descale"
    [] msg = "manual"    /\ s = "Standby"                  -> "Manual"
    [] msg = "manual"    /\ s = "Manual"                   -> "Standby"
    [] msg = "stop"      /\ s \in {"Backflush", "Descale"} -> "Standby"
    [] OTHER -> NoState

(* The read of curr_state_id that settles the matter. *)
Decide ==
  /\ handler.pc = "idle"
  /\ ClientsWait => nextState = NoState
  /\ \E msg \in Commands :
       /\ Decision(msg, cur) # NoState
       /\ handler' = [pc |-> "decided", state |-> Decision(msg, cur)]
  /\ UNCHANGED <<cur, routineVars, mutex, switchVars, lastPressed, sensorDue, inputVars, halted>>

(* schedule_state_change: lock, then write and unlock. *)
LockMailbox ==
  /\ handler.pc = "decided"
  /\ mutex = "free"
  /\ mutex' = "core1"
  /\ handler' = [handler EXCEPT !.pc = "locked"]
  /\ UNCHANGED <<cur, routineVars, switchVars, lastPressed, sensorDue, inputVars, halted>>

WriteMailbox ==
  /\ handler.pc = "locked"
  /\ nextState' = handler.state
  /\ mutex' = "free"
  /\ handler' = [pc |-> "idle", state |-> NoState]
  /\ UNCHANGED <<cur, act, co, awaiter, qlen, panic, switchVars, lastPressed,
                 sensorDue, inputVars, halted>>

(* GetStatusMessage::handle reads the state first ... *)
ReadStatus ==
  /\ handler.pc = "idle" /\ "status" \in Commands
  /\ handler' = [pc |-> "status", state |-> cur]
  /\ UNCHANGED <<cur, routineVars, mutex, switchVars, lastPressed, sensorDue, inputVars, halted>>

(* ... and then queues the announcement, the settings, and what the         *)
(* maintenance programme is at when one is running by now.                  *)
ReplyStatus ==
  /\ handler.pc = "status"
  /\ Post(IF cur \in {"Backflush", "Descale"} THEN 3 ELSE 2, "core1")
  /\ handler' = [pc |-> "idle", state |-> NoState]
  /\ UNCHANGED <<cur, act, co, awaiter, nextState, mutex, switchVars, lastPressed,
                 sensorDue, inputVars, halted>>

(* SettingsUpdateMessage::handle stores the settings and tells every client. *)
UpdateSettings ==
  /\ handler.pc = "idle" /\ "settings" \in Commands
  /\ Post(1, "core1")
  /\ UNCHANGED <<cur, act, co, awaiter, nextState, mutex, switchVars, lastPressed,
                 core1Vars, inputVars, halted>>

(* network_loop: a message is through to every client, and popped. *)
PopMessage ==
  /\ handler.pc = "idle"
  /\ qlen > 0 /\ qlen' = qlen - 1
  /\ UNCHANGED <<cur, act, co, awaiter, panic, nextState, mutex, switchVars, lastPressed,
                 core1Vars, inputVars, halted>>

(* network_loop: see that the machine is on and the queue short ... *)
CheckBacklog ==
  /\ handler.pc = "idle" /\ ~sensorDue
  /\ cur # "Off" /\ qlen < SensorBacklog
  /\ sensorDue' = TRUE
  /\ UNCHANGED <<cur, routineVars, mutex, switchVars, lastPressed, handler, inputVars, halted>>

(* ... and queue the sensor message; an interrupt may have come in between. *)
SendSensors ==
  /\ handler.pc = "idle" /\ sensorDue
  /\ Post(1, "core1")
  /\ sensorDue' = FALSE
  /\ UNCHANGED <<cur, act, co, awaiter, nextState, mutex, switchVars, lastPressed,
                 handler, inputVars, halted>>

Handlers ==
  \/ Decide \/ LockMailbox \/ WriteMailbox
  \/ ReadStatus \/ ReplyStatus \/ UpdateSettings

NetworkLoop == PopMessage \/ CheckBacklog \/ SendSensors

Core1 == Runs("core1") /\ (Handlers \/ NetworkLoop)

-----------------------------------------------------------------------------
(* panic(): hold the other core, then keep the outputs down for ever.  Two   *)
(* cores that panic at once: one of them is held before it gets that far.    *)
Lockout(c) ==
  /\ c \in panic /\ halted = "none"
  /\ halted' = Other(c)
  /\ UNCHANGED <<cur, routineVars, mutex, switchVars, lastPressed, core1Vars, inputVars>>

PanicLoop(c) ==
  /\ c \in panic /\ halted = Other(c)
  /\ act' = Silence(act)
  /\ UNCHANGED <<cur, co, awaiter, qlen, panic, nextState, mutex, switchVars,
                 lastPressed, core1Vars, inputVars, halted>>

(* Somebody turns a switch; 100 ms go by after the machine left Off. *)
TurnSwitch ==
  /\ \E w \in Switches : sw' = [sw EXCEPT ![w] = ~@]
  /\ UNCHANGED <<cur, routineVars, mutex, switchVars, lastPressed, core1Vars, prefill, halted>>

StartWindowCloses ==
  /\ prefill /\ prefill' = FALSE
  /\ UNCHANGED <<cur, routineVars, mutex, switchVars, lastPressed, core1Vars, sw, halted>>

Environment == TurnSwitch \/ StartWindowCloses

Next ==
  \/ Core0 \/ Core1
  \/ \E c \in Cores : Lockout(c) \/ PanicLoop(c)
  \/ Environment

Spec == Init /\ [][Next]_vars

(* Each core keeps running; a handler that has begun is an interrupt that is *)
(* not left half way; panic() runs.  Nobody has to turn a switch or send     *)
(* anything, and time may stand still.                                       *)
Fairness ==
  /\ WF_vars(Core0)
  /\ WF_vars(Runs("core1") /\ (LockMailbox \/ WriteMailbox \/ ReplyStatus))
  /\ \A c \in Cores : WF_vars(Lockout(c)) /\ WF_vars(PanicLoop(c))

FairSpec == Spec /\ Fairness

-----------------------------------------------------------------------------
Points(s) ==
  CASE s = "Off"       -> {"start"}
    [] s = "Standby"   -> {"start", "fillDelay", "filling", "settle", "idle", "warn", "vent"}
    [] s = "Brew"      -> {"start", "brewing", "none"}
    [] s = "Steam"     -> {"start", "heatUp", "steaming"}
    [] s = "Backflush" -> {"start", "bfFill", "bfRise", "bfHold", "bfRest", "bfSwitch", "none"}
    [] s = "Descale"   -> {"start", "clean", "soak", "refill", "rinse", "none"}
    [] s = "Manual"    -> {"start", "manual", "none"}
    [] OTHER           -> {"none"}

AllPoints == UNION {Points(s) : s \in States}
MaxCount == BackflushCycles + DescaleCycles + RinseCycles

TypeOK ==
  /\ cur \in States \cup {NoState}
  /\ act \in ActuatorSet
  /\ co \in [at : AllPoints, n : 0..MaxCount, k : {0, 1}]
  /\ awaiter \in AllPoints
  /\ sw \in [AllSwitches -> BOOLEAN] /\ prefill \in BOOLEAN
  /\ nextState \in States \cup {NoState}
  /\ mutex \in {"free", "core0", "core1"}
  /\ qlen \in 0..QueueCapacity
  /\ panic \subseteq Cores /\ halted \in {"none"} \cup Cores
  /\ pc \in {"top", "check", "leave", "enter", "announce"}
  /\ target \in States \cup {NoState} /\ from \in States \cup {NoState}
  /\ lastPressed \in BOOLEAN
  /\ handler \in [pc : {"idle", "decided", "locked", "status"}, state : States \cup {NoState}]
  /\ sensorDue \in BOOLEAN
=============================================================================
