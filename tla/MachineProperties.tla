-------------------------- MODULE MachineProperties --------------------------
(***************************************************************************)
(* What must hold of the two cores and the coroutines together.            *)
(***************************************************************************)
EXTENDS Machine

(* An idle machine is dead: nothing heats, pumps or opens while it is Off,   *)
(* and no regulator is on that could.  It rests on every exit hook having    *)
(* undone what its coroutine did, wherever the coroutine was.                *)
OffIsInert ==
  cur = "Off" =>
    /\ ~act.boilerOn /\ ~act.pumpOn
    /\ Quiet(act)

(* Between two states, when core 1 reads -1, no coroutine is alive and no    *)
(* water moves, whichever state was left and at whatever point.              *)
SwitchingIsDry ==
  cur = NoState =>
    /\ co = NoFrame /\ awaiter = "none"
    /\ ~act.pumpOn /\ ~act.pump /\ ~act.solenoid

(* The pump is under power only when the pressure regulator drives it in a   *)
(* state that brews, or at the points of a coroutine that pump by hand.      *)
NoOrphanPump ==
  /\ act.pumpOn => cur \in {"Brew", "Backflush", "Manual"}
  /\ act.pump => \/ act.pumpOn
                 \/ cur = "Standby" /\ co.at \in {"fillDelay", "filling"}
                 \/ cur = "Steam" /\ co.at = "steaming" /\ co.k = 1
                 \/ cur = "Descale" /\ co.at \in {"clean", "rinse"}

(* The valve is energised only where water is meant to pass. *)
NoOrphanValve ==
  act.solenoid =>
    \/ act.pumpOn
    \/ cur = "Standby" /\ co.at \in {"fillDelay", "filling", "vent"}
    \/ cur = "Descale" /\ co.at = "rinse" /\ co.n % 2 = 1

(* The heater is under power only when its regulator is on, and then aims at *)
(* the brewing temperature, or when the steam coroutine is running.  A       *)
(* descale never heats.                                                      *)
NoOrphanHeat ==
  /\ act.boilerOn => act.temp = "brew" /\ cur \notin {"Off", "Steam", "Descale"}
  /\ act.heater => \/ act.boilerOn
                   \/ cur = "Steam" /\ co.at \in {"heatUp", "steaming"}

(* No output is under power except on behalf of the regulator or of the      *)
(* coroutine that is running now.                                            *)
NoOrphanOutput == NoOrphanPump /\ NoOrphanValve /\ NoOrphanHeat

(* Water under regulation is regulated to the set points of the state that   *)
(* pushes it, not to those a previous state left behind.  (The flow limit of *)
(* a backflush is not among them: see the README.)                           *)
SetPointsAreFresh ==
  act.pumpOn /\ act.pump =>
    /\ cur = "Brew" => act.pressure \in {"preinfusion", "brew"} /\ act.flow = "unlimited"
    /\ cur = "Backflush" => act.pressure = "brew"
    /\ cur = "Manual" => act.pressure = "manual" /\ act.flow = "manual"

(* The coroutine and the awaiter the loop consults are those of the current  *)
(* state: a state never resumes, or waits on, what another left in the one   *)
(* static buffer.                                                            *)
CoroutineIsOwn ==
  /\ cur # NoState => co.at \in Points(cur)
  /\ awaiter \in {"none", co.at}
  /\ co.at \in {"none", "start"} => awaiter = "none"

(* Core 1 sees no state at all exactly between the two halves of a change,   *)
(* and a change always has somewhere else to go.                             *)
ChangeIsAChange ==
  /\ cur = NoState <=> pc = "enter"
  /\ pc \in {"leave", "enter", "announce"} => target # NoState
  /\ pc = "leave" => target # cur
  /\ pc \in {"enter", "announce"} => from \notin {NoState, target}
  /\ pc = "announce" => cur = target

(* A maintenance programme or manual control that has run to its end always  *)
(* has a way out scheduled: nothing else would take the machine out of those *)
(* states, and in manual control the pump is still on.  It holds if clients  *)
(* wait; a request repeated in the state it asks for is dropped, and can     *)
(* take the coroutine's own request with it.                                 *)
EndedProgrammeLeaves ==
  /\ ClientsWait
  /\ cur \in {"Backflush", "Descale", "Manual"} /\ co.at = "none"
  => nextState # NoState

-----------------------------------------------------------------------------
(* A scheduled request leaves the mailbox only when the machine is in the    *)
(* state it asked for, and nobody replaces it while core 0 carries it out.   *)
(* (Before that, a later request may replace it.)                            *)
NoRequestDropped ==
  [][/\ nextState # NoState /\ nextState' = NoState => cur = nextState
     /\ mutex = "core0" => nextState' \in {nextState, NoState}]_vars

(* Once one core holds the other, the machine never changes state again and  *)
(* no output that is off is ever powered.                                    *)
PanicIsFinal ==
  [][halted # "none" => /\ UNCHANGED <<cur, halted>>
                        /\ \A o \in {"heater", "pump", "solenoid"} : act'[o] => act[o]]_vars

(* The machine implements the modes it promises.  While a change is under    *)
(* way it is still in the mode it leaves.                                    *)
ModeNow == IF cur = NoState THEN from ELSE cur

LiveOutputs ==
  {o \in {"pump", "heater", "valve"} :
     \/ o = "pump" /\ act.pump
     \/ o = "heater" /\ act.heater
     \/ o = "valve" /\ act.solenoid}

M == INSTANCE Modes WITH mode <- ModeNow, live <- LiveOutputs, failed <- (halted # "none")

ImplementsModes == M!ModesSpec

-----------------------------------------------------------------------------
QuietClients == <>[](handler.pc = "idle")
SettledSwitches == <>[][UNCHANGED sw]_vars

(* A panic on either core, at any point, ends with all three outputs off for *)
(* good, although the other core keeps driving them until it is held.        *)
PanicShutsDown == (panic # {}) ~> [](Quiet(act))

(* A remote power-off that was accepted turns the machine off, if clients    *)
(* leave the mailbox alone at last and only power messages are in use.       *)
RemoteOffHonoured ==
  QuietClients =>
    ((handler.pc = "decided" /\ handler.state = "Off") ~> (cur = "Off" \/ panic # {}))

(* Once switches and clients are left alone, the loop has seen the position  *)
(* of the power switch: no state's restart of the loop hides it for ever.    *)
PowerSwitchSeen ==
  (QuietClients /\ SettledSwitches) => <>[](lastPressed = sw.power \/ panic # {})

-----------------------------------------------------------------------------
(* What makes the above inductive.  A core that is in panic() or held does   *)
(* not run, and a core is held only by one that is in panic().               *)
HeldByPanic == halted # "none" => Other(halted) \in panic

(* The mutex and next_state: only requests for these states are scheduled.   *)
Requestable == {"Off", "Standby", "Backflush", "Descale", "Manual"}

MailboxIsLocked ==
  /\ nextState \in Requestable \cup {NoState}
  /\ handler.pc \in {"decided", "locked"} => handler.state \in Requestable
  /\ mutex = "core1" <=> handler.pc = "locked"
  /\ mutex = "core0" => /\ pc \in {"leave", "enter", "announce"}
                        /\ nextState = target

(* Brew and Steam are entered from Standby; the boiler may stay on between   *)
(* two states only if it could be on in the one that is left.                *)
ChangeIsAnArrow ==
  /\ pc = "leave" /\ target \in {"Brew", "Steam"} => cur = "Standby"
  /\ pc = "enter" /\ target \in {"Brew", "Steam"} => from = "Standby"
  /\ pc = "enter" /\ act.boilerOn => from \notin {"Off", "Steam", "Descale"}

(* The set points, before anything pumps to them. *)
SetPoints ==
  /\ co.at = "start" => ~act.pump
  /\ cur = "Brew" => /\ act.flow = "unlimited"
                     /\ act.pumpOn /\ co.at # "start" => act.pressure \in {"preinfusion", "brew"}
  /\ cur = "Backflush" /\ act.pumpOn => act.pressure = "brew"
  /\ cur = "Manual" => act.pressure = "manual" /\ act.flow = "manual"

Outputs ==
  OffIsInert /\ SwitchingIsDry /\ NoOrphanPump /\ NoOrphanValve /\ NoOrphanHeat /\ SetPoints

Control ==
  CoroutineIsOwn /\ ChangeIsAChange /\ HeldByPanic /\ MailboxIsLocked /\ ChangeIsAnArrow

(* The inductive invariant of the proofs. *)
Inductive == TypeOK /\ Outputs /\ Control

(* What EndedProgrammeLeaves rests on beside it.  A programme is begun only  *)
(* on a request, which stays in the mailbox until it has begun; a handler    *)
(* that has decided to ask for one decided so in Standby, and while clients  *)
(* wait nothing else can be asked for before it does; and the request in the *)
(* mailbox of a programme at its end is for another state.                   *)
Programmes == {"Backflush", "Descale", "Manual"}

ProgrammesAreAskedFor ==
  /\ pc = "announce" => co.at = "start"
  /\ target \in Programmes => mutex = "core0"
  /\ ClientsWait /\ handler.pc \in {"decided", "locked"} /\ handler.state \in Programmes
     => nextState = NoState /\ cur \notin Programmes
  /\ ClientsWait /\ cur \in Programmes /\ co.at = "none"
     => nextState \notin {NoState, cur}

-----------------------------------------------------------------------------
(* What wireshark_dissector.lua, lines 11 to 18, knows of the states that a  *)
(* State Change message may carry.                                           *)
NamedStates == {"Off", "Standby", "Brew", "Steam", "Backflush", "Descale"}

(* The state a status request is answered with has a name on the wire. *)
StatusHasName == handler.pc = "status" => handler.state \in NamedStates

(* The state a change is announced with has a name on the wire. *)
AnnouncedHasName == pc = "announce" => cur \in NamedStates
=============================================================================
