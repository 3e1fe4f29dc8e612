------------------------------ MODULE Routines ------------------------------
(***************************************************************************)
(* The coroutines of src/control/states.cpp on the runtime of              *)
(* src/control/impl/coroutine.hpp: one static frame, one pointer to the    *)
(* awaiter it is suspended on.  One action per suspension point: what the  *)
(* coroutine does from there to the next one, followed by                  *)
(* control::update(), which ends every cycle of the main loop.             *)
(*                                                                         *)
(* Time and sensor readings are abstract: a delay may or may not have      *)
(* elapsed, a pressure may or may not have passed its threshold.  The      *)
(* scale and the flow meter that end a shot are abstract too.              *)
(***************************************************************************)
EXTENDS Naturals, Actuators

CONSTANTS
  BackflushCycles,  \* cycles of each of the two backflush rounds (5)
  DescaleCycles,    \* clean-and-soak cycles of a descale (7)
  RinseCycles,      \* rinses that end a descale (8)
  QueueCapacity     \* out_message_queue's capacity (20)

ASSUME CyclesAssumption ==
  /\ BackflushCycles \in Nat \ {0}
  /\ DescaleCycles \in Nat \ {0}
  /\ RinseCycles \in Nat \ {0}

ASSUME QueueAssumption == QueueCapacity \in Nat \ {0}

VARIABLES
  cur,        \* statemachine::curr_state_id
  act,        \* the regulators and outputs
  co,         \* the coroutine frame: where it is suspended and its locals
  awaiter,    \* Coroutine::curr_awaiter, named after the point it belongs to
  sw,         \* the debounced switches, as get_switch reports them
  prefill,    \* cold start, and less than 100 ms since the machine left Off
  nextState,  \* protocol.cpp's next_state
  mutex,      \* owner of next_state_mutex
  qlen,       \* messages in out_message_queue
  panic       \* the cores that have called panic()

-----------------------------------------------------------------------------
(* The frame.  n counts cycles; k holds the one other local that matters:   *)
(* the round of a backflush, preinfusion_done, valve_open or `initial`.     *)
Frame(at, n, k) == [at |-> at, n |-> n, k |-> k]
NoFrame == Frame("none", 0, 0)
FreshFrame == Frame("start", 0, 0)

(* co_await of an Awaiter: await_suspend publishes it in curr_awaiter. *)
Await(at, n, k) == co' = Frame(at, n, k) /\ awaiter' = at

(* co_await next_cycle, which has no awaiter to consult. *)
Yield(at, n, k) == co' = Frame(at, n, k) /\ awaiter' = "none"

(* Coroutine::handle().destroy(): by the main loop when the body has         *)
(* returned, by leave_state when it has not.                                 *)
DestroyLeakingAwaiter == co' = NoFrame /\ UNCHANGED awaiter  \* broken: curr_awaiter stays
Destroy == co' = NoFrame /\ awaiter' = "none"

(* control::update() at the end of the cycle. *)
Drive(a) == \E heat, push \in BOOLEAN : act' = Regulate(a, heat, push)

NoPost == UNCHANGED <<qlen, panic>>
NoRequest == UNCHANGED nextState

(* n calls of network::enqueue_message and what the coroutine does next.     *)
(* A full queue is a panic on this core, with the outputs as they were; the  *)
(* coroutine, already resumed, gets no further.                              *)
PostThen(n, before, next) ==
  \/ /\ qlen + n <= QueueCapacity
     /\ qlen' = qlen + n
     /\ UNCHANGED panic
     /\ next
  \/ /\ qlen + n > QueueCapacity
     /\ qlen' = QueueCapacity
     /\ panic' = panic \cup {"core0"}
     /\ act' = before
     /\ awaiter' = "none"
     /\ UNCHANGED <<co, nextState>>

(* protocol::schedule_state_change on core 0: a blocking lock, so the step  *)
(* waits while core 1 holds the mutex.                                      *)
Schedule(s) == mutex = "free" /\ nextState' = s

StandstillPumping(a) == [a EXCEPT !.solenoid = FALSE]  \* broken: the pump stays
Standstill(a) == [a EXCEPT !.pump = FALSE, !.solenoid = FALSE]
-----------------------------------------------------------------------------
StandbyStart ==
  /\ cur = "Standby" /\ co.at = "start"
  /\ \/ /\ prefill
        /\ Await("fillDelay", 0, 0)
        /\ Drive([act EXCEPT !.pump = TRUE, !.solenoid = TRUE])
     \/ /\ ~prefill
        /\ Await("idle", 0, 0)
        /\ Drive(act)
  /\ NoPost /\ NoRequest

(* 200 ms, then every 10 ms until the pressure rises or 12 s have passed. *)
StandbyPrefill ==
  /\ co.at \in {"fillDelay", "filling"}
  /\ \/ /\ Await("filling", 0, 0)
        /\ Drive(act)
     \/ /\ co.at = "filling"
        /\ Await("settle", 0, 0)
        /\ Drive(Standstill(act))
  /\ NoPost /\ NoRequest

StandbySettled ==
  /\ co.at = "settle"
  /\ Await("idle", 0, 0)
  /\ Drive(act)
  /\ NoPost /\ NoRequest

(* Every 25 s: vent the boiler if its pressure is high, after a 5 s warning. *)
StandbyIdle ==
  /\ co.at = "idle"
  /\ \/ Await("warn", 0, 0) /\ Drive(act)
     \/ Await("idle", 0, 0) /\ Drive([act EXCEPT !.solenoid = FALSE])
  /\ NoPost /\ NoRequest

StandbyVent ==
  /\ co.at \in {"warn", "vent"}
  /\ \/ /\ co.at = "warn"
        /\ Await("vent", 0, 0)
        /\ Drive([act EXCEPT !.solenoid = TRUE])
     \/ /\ Await("idle", 0, 0)
        /\ Drive([act EXCEPT !.solenoid = FALSE])
  /\ NoPost /\ NoRequest

-----------------------------------------------------------------------------
(* One pass of the loop of BrewState::coroutine.  The first pass sets the    *)
(* preinfusion pressure; a pass after preinfusion sets the brew pressure,    *)
(* once.  Reaching the wanted weight stops the pump and ends the coroutine.  *)
BrewPass(done, a) ==
  \E over \in {done, TRUE} :
    LET b == IF over /\ ~done THEN [a EXCEPT !.pressure = "brew"] ELSE a
    IN  \/ Yield("brewing", 0, IF over THEN 1 ELSE 0) /\ Drive(b)
        \/ Destroy /\ Drive([SetPumpEnabled(FALSE, b) EXCEPT !.solenoid = FALSE])

PreinfuseAsBefore(a) == a  \* broken: whatever pressure was set last
Preinfuse(a) == [a EXCEPT !.pressure = "preinfusion"]

BrewStep ==
  /\ \/ /\ cur = "Brew" /\ co.at = "start"
        /\ BrewPass(FALSE, Preinfuse(act))
     \/ /\ co.at = "brewing"
        /\ BrewPass(co.k = 1, act)
  /\ NoPost /\ NoRequest

-----------------------------------------------------------------------------
(* SteamState: full heat up to the steam temperature, then on and off        *)
(* around it; the pump trickles while the steam valve is found open.         *)
(* The pass made when the temperature is first reached finds it reached and  *)
(* the valve shut.                                                           *)
SteamStart ==
  /\ cur = "Steam" /\ co.at = "start"
  /\ \/ Await("heatUp", 0, 0) /\ Drive([act EXCEPT !.heater = TRUE])
     \/ Yield("steaming", 0, 0) /\ Drive([act EXCEPT !.heater = FALSE])
  /\ NoPost /\ NoRequest

SteamReached ==
  /\ co.at = "heatUp"
  /\ Yield("steaming", 0, 0)
  /\ Drive([act EXCEPT !.heater = FALSE])
  /\ NoPost /\ NoRequest

SteamPass ==
  /\ co.at = "steaming"
  /\ \E heat \in BOOLEAN :
       \/ Yield("steaming", 0, co.k) /\ Drive([act EXCEPT !.heater = heat])
       \/ /\ Yield("steaming", 0, 1 - co.k)
          /\ Drive([act EXCEPT !.heater = heat, !.pump = (co.k = 0)])
  /\ NoPost /\ NoRequest

-----------------------------------------------------------------------------
(* BackflushState: pressurise until the pressure stops rising, release,      *)
(* rest; twice BackflushCycles times, with a turn of the steam switch after  *)
(* each round (on after the first, off after the second).                    *)
Pressurise(a) ==
  [SetPumpEnabled(TRUE, a) EXCEPT !.solenoid = TRUE, !.pressure = "brew"]

RoundConfirmed(round) == sw.steam = (round = 0)

(* Start a cycle of a round, the `posts`-th message of this step announcing it. *)
BackflushCycle(n, round, posts) ==
  PostThen(posts, act, Await("bfFill", n, round) /\ Drive(Pressurise(act)) /\ NoRequest)

(* A round has been confirmed; `posts` messages were queued on the way here. *)
BackflushNextRound(round, posts) ==
  \/ round = 0 /\ BackflushCycle(0, 1, posts + 1)
  \/ round = 1 /\ PostThen(posts, act, Destroy /\ Drive(act) /\ Schedule("Standby"))

BackflushStart ==
  /\ cur = "Backflush" /\ co.at = "start"
  /\ BackflushCycle(0, 0, 1)

BackflushRise ==
  /\ co.at \in {"bfFill", "bfRise"}
  /\ \/ Await("bfRise", co.n, co.k)
     \/ co.at = "bfRise" /\ Await("bfHold", co.n, co.k)
  /\ Drive(act)
  /\ NoPost /\ NoRequest

BackflushRelease ==
  /\ co.at = "bfHold"
  /\ Await("bfRest", co.n, co.k)
  /\ Drive([SetPumpEnabled(FALSE, act) EXCEPT !.solenoid = FALSE, !.pressure = "brew"])
  /\ NoPost /\ NoRequest

BackflushRested ==
  /\ co.at = "bfRest"
  /\ \/ /\ co.n + 1 < BackflushCycles
        /\ BackflushCycle(co.n + 1, co.k, 1)
     \/ /\ co.n + 1 >= BackflushCycles
        /\ ~RoundConfirmed(co.k)
        /\ PostThen(1, act, Await("bfSwitch", 0, co.k) /\ Drive(act) /\ NoRequest)
     \/ /\ co.n + 1 >= BackflushCycles
        /\ RoundConfirmed(co.k)
        /\ BackflushNextRound(co.k, 1)

BackflushConfirmed ==
  /\ co.at = "bfSwitch"
  /\ RoundConfirmed(co.k)
  /\ BackflushNextRound(co.k, 0)

-----------------------------------------------------------------------------
(* DescaleState: cycles of pumping and soaking, then rinses.  Pumping counts *)
(* time only while the steam switch is off, and each pass sets the pump      *)
(* accordingly: so a pumping loop can only time out after a pass that ran    *)
(* the pump.                                                                 *)
Pumping(a) == [a EXCEPT !.pump = ~sw.steam]
Toggled == IF sw.brew THEN 1 ELSE 0

CleanFrom(n, posts) ==
  PostThen(posts, act, Await("clean", n, 0) /\ Drive(Pumping(act)) /\ NoRequest)

(* Ask for a full tank, and wait for a turn of the brew switch. *)
RefillFrom(n, before) ==
  PostThen(1, before, Yield("refill", n, Toggled) /\ Drive(before) /\ NoRequest)

DescaleStart ==
  /\ cur = "Descale" /\ co.at = "start"
  /\ CleanFrom(0, 1)

DescaleClean ==
  /\ co.at = "clean"
  /\ \/ CleanFrom(co.n, 0)
     \/ /\ act.pump
        /\ PostThen(1, act, /\ Await("soak", co.n, 0)
                           /\ Drive([act EXCEPT !.pump = FALSE])
                           /\ NoRequest)

DescaleSoaked ==
  /\ co.at = "soak"
  /\ \/ co.n + 1 < DescaleCycles /\ CleanFrom(co.n + 1, 1)
     \/ co.n + 1 >= DescaleCycles /\ RefillFrom(0, act)

DescaleRefill ==
  /\ co.at = "refill"
  /\ \/ /\ Toggled = co.k
        /\ Yield("refill", co.n, co.k)
        /\ Drive(act)
        /\ NoPost /\ NoRequest
     \/ /\ Toggled # co.k
        /\ PostThen(1, act, /\ Await("rinse", co.n, co.k)
                           /\ Drive([Pumping(act) EXCEPT !.solenoid = (co.n % 2 = 1)])
                           /\ NoRequest)

(* A rinse ends when the tank must be empty or the brew switch is turned back. *)
DescaleRinse ==
  /\ co.at = "rinse"
  /\ \/ /\ Toggled # co.k
        /\ Await("rinse", co.n, co.k)
        /\ Drive(Pumping(act))
        /\ NoPost /\ NoRequest
     \/ /\ Toggled = co.k \/ act.pump
        /\ co.n + 1 < RinseCycles
        /\ RefillFrom(co.n + 1, Standstill(act))
     \/ /\ Toggled = co.k \/ act.pump
        /\ co.n + 1 >= RinseCycles
        /\ Destroy
        /\ Drive(Standstill(act))
        /\ NoPost
        /\ Schedule("Standby")

-----------------------------------------------------------------------------
(* ManualControlState: until the requested time is over. *)
ManualOverUnsaid == Destroy /\ NoRequest  \* broken: nothing is scheduled
ManualOver == Destroy /\ Schedule("Standby")

ManualStep ==
  /\ \/ cur = "Manual" /\ co.at = "start"
     \/ co.at = "manual"
  /\ \/ Yield("manual", 0, 0) /\ NoRequest
     \/ ManualOver
  /\ Drive(act)
  /\ NoPost

-----------------------------------------------------------------------------
(* No coroutine, or its awaiter is not ready: only control::update() runs.  *)
(* The awaiter consulted is curr_awaiter, whatever frame there is.          *)
RoutineWaits ==
  /\ \/ co.at = "none"
     \/ /\ awaiter # "none"
        /\ awaiter = "bfSwitch" => ~RoundConfirmed(co.k)
  /\ Drive(act)
  /\ UNCHANGED <<co, awaiter>>
  /\ NoPost /\ NoRequest

RoutineStep ==
  \/ StandbyStart \/ StandbyPrefill \/ StandbySettled \/ StandbyIdle \/ StandbyVent
  \/ BrewStep
  \/ SteamStart \/ SteamReached \/ SteamPass
  \/ BackflushStart \/ BackflushRise \/ BackflushRelease
  \/ BackflushRested \/ BackflushConfirmed
  \/ DescaleStart \/ DescaleClean \/ DescaleSoaked \/ DescaleRefill \/ DescaleRinse
  \/ ManualStep
=============================================================================
