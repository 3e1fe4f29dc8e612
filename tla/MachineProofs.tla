---------------------------- MODULE MachineProofs ----------------------------
(***************************************************************************)
(* Proofs that the machine keeps its invariants and implements its modes,  *)
(* for any number of cycles, any queue, any clients and any switches.      *)
(***************************************************************************)
EXTENDS MachineProperties, TLAPS

USE CyclesAssumption, QueueAssumption, CommandsAssumption, SwitchesAssumption,
    BacklogAssumption, ClientsAssumption

(* The state a coroutine acts on, apart from the state of the cores. *)
LocalType ==
  /\ act \in ActuatorSet
  /\ co \in [at : AllPoints, n : 0..MaxCount, k : {0, 1}]
  /\ awaiter \in AllPoints
  /\ nextState \in Requestable \cup {NoState}
  /\ qlen \in 0..QueueCapacity
  /\ panic \subseteq Cores

Local == LocalType /\ Outputs /\ CoroutineIsOwn

(* Points of different states differ but for the first and the last. *)
LEMMA PointsOfStates ==
  /\ Points("Off") = {"start"}
  /\ Points("Standby") = {"start", "fillDelay", "filling", "settle", "idle", "warn", "vent"}
  /\ Points("Brew") = {"start", "brewing", "none"}
  /\ Points("Steam") = {"start", "heatUp", "steaming"}
  /\ Points("Backflush") = {"start", "bfFill", "bfRise", "bfHold", "bfRest", "bfSwitch", "none"}
  /\ Points("Descale") = {"start", "clean", "soak", "refill", "rinse", "none"}
  /\ Points("Manual") = {"start", "manual", "none"}
  /\ AllPoints = {"start", "fillDelay", "filling", "settle", "idle", "warn", "vent",
                  "brewing", "heatUp", "steaming",
                  "bfFill", "bfRise", "bfHold", "bfRest", "bfSwitch",
                  "clean", "soak", "refill", "rinse", "manual", "none"}
<1>1. /\ Points("Off") = {"start"}
      /\ Points("Standby") = {"start", "fillDelay", "filling", "settle", "idle", "warn", "vent"}
      /\ Points("Brew") = {"start", "brewing", "none"}
      /\ Points("Steam") = {"start", "heatUp", "steaming"}
      /\ Points("Backflush") = {"start", "bfFill", "bfRise", "bfHold", "bfRest", "bfSwitch", "none"}
      /\ Points("Descale") = {"start", "clean", "soak", "refill", "rinse", "none"}
      /\ Points("Manual") = {"start", "manual", "none"}
  BY DEF Points
<1>2. AllPoints = Points("Off") \cup Points("Standby") \cup Points("Brew") \cup Points("Steam")
                  \cup Points("Backflush") \cup Points("Descale") \cup Points("Manual")
  BY DEF AllPoints, States
<1> QED BY <1>1, <1>2

(* control::update() touches the outputs of enabled regulators and no more. *)
LEMMA DriveFields ==
  ASSUME NEW a \in ActuatorSet, Drive(a)
  PROVE  /\ act' \in ActuatorSet
         /\ act'.boilerOn = a.boilerOn /\ act'.pumpOn = a.pumpOn
         /\ act'.solenoid = a.solenoid
         /\ act'.pressure = a.pressure /\ act'.flow = a.flow /\ act'.temp = a.temp
         /\ ~a.boilerOn => act'.heater = a.heater
         /\ ~a.pumpOn => act'.pump = a.pump
<1>1. PICK heat \in BOOLEAN, push \in BOOLEAN : act' = Regulate(a, heat, push)
  BY DEF Drive
<1>2. Regulate(a, heat, push) \in ActuatorSet
  BY DEF Regulate, ActuatorSet
<1> QED BY <1>1, <1>2 DEF Regulate, ActuatorSet

(* Actuators b under which a cycle of state s may end with its coroutine at  *)
(* point `at` of frame (n, k): the output invariants, for b instead of act'. *)
Fits(s, b, at, n, k) ==
  /\ b.pumpOn => s \in {"Brew", "Backflush", "Manual"}
  /\ b.pump => \/ b.pumpOn
               \/ s = "Standby" /\ at \in {"fillDelay", "filling"}
               \/ s = "Steam" /\ at = "steaming" /\ k = 1
               \/ s = "Descale" /\ at \in {"clean", "rinse"}
  /\ b.solenoid => \/ b.pumpOn
                   \/ s = "Standby" /\ at \in {"fillDelay", "filling", "vent"}
                   \/ s = "Descale" /\ at = "rinse" /\ n % 2 = 1
  /\ b.boilerOn => b.temp = "brew" /\ s \notin {"Off", "Steam", "Descale"}
  /\ b.heater => b.boilerOn \/ (s = "Steam" /\ at \in {"heatUp", "steaming"})
  /\ s = "Brew" => /\ b.flow = "unlimited"
                   /\ b.pumpOn => b.pressure \in {"preinfusion", "brew"}
  /\ s = "Backflush" /\ b.pumpOn => b.pressure = "brew"
  /\ s = "Manual" => b.pressure = "manual" /\ b.flow = "manual"

(* A cycle that regulates such actuators keeps the invariants. *)
LEMMA CycleKeeps ==
  ASSUME LocalType, cur \in States \ {"Off"}, cur' = cur,
         NEW b \in ActuatorSet, Drive(b),
         NEW at \in Points(cur) \ {"start"}, NEW n \in 0..MaxCount, NEW k \in {0, 1},
         co' = Frame(at, n, k),
         awaiter' \in {"none", at},
         Fits(cur, b, at, n, k),
         nextState' \in Requestable \cup {NoState},
         qlen' \in 0..QueueCapacity, panic' \subseteq Cores
  PROVE  Local'
<1>1. /\ act' \in ActuatorSet
      /\ act'.boilerOn = b.boilerOn /\ act'.pumpOn = b.pumpOn
      /\ act'.solenoid = b.solenoid
      /\ act'.pressure = b.pressure /\ act'.flow = b.flow /\ act'.temp = b.temp
      /\ ~b.boilerOn => act'.heater = b.heater
      /\ ~b.pumpOn => act'.pump = b.pump
  BY DriveFields
<1>2. co'.at = at /\ co'.n = n /\ co'.k = k
  BY DEF Frame
<1>3. cur \in States /\ cur # NoState /\ cur # "Off"
  BY DEF States, NoState
<1>4. LocalType'
  <2>1. at \in AllPoints BY <1>3 DEF AllPoints
  <2>2. co' \in [at : AllPoints, n : 0..MaxCount, k : {0, 1}]
    BY <2>1 DEF Frame
  <2>3. awaiter' \in AllPoints BY <2>1, PointsOfStates
  <2>4. MaxCount' = MaxCount /\ AllPoints' = AllPoints OBVIOUS
  <2> QED BY <1>1, <2>2, <2>3 DEF LocalType
<1>5. Outputs'
  <2>1. OffIsInert' BY <1>3 DEF OffIsInert
  <2>2. SwitchingIsDry' BY <1>3 DEF SwitchingIsDry
  <2>3. NoOrphanPump' BY <1>1, <1>2 DEF Fits, NoOrphanPump
  <2>4. NoOrphanValve' BY <1>1, <1>2 DEF Fits, NoOrphanValve
  <2>5. NoOrphanHeat' BY <1>1, <1>2 DEF Fits, NoOrphanHeat
  <2>6. SetPoints' BY <1>1, <1>2 DEF Fits, SetPoints
  <2> QED BY <2>1, <2>2, <2>3, <2>4, <2>5, <2>6 DEF Outputs
<1>6. CoroutineIsOwn'
  BY <1>2, <1>3 DEF CoroutineIsOwn
<1> QED BY <1>4, <1>5, <1>6 DEF Local

(* What the invariants say of the actuators in a state that is not Off. *)
LEMMA LocalFits ==
  ASSUME Local, cur \in States \ {"Off"}, co.at # "start"
  PROVE  Fits(cur, act, co.at, co.n, co.k)
<1>1. cur # "Off" OBVIOUS
<1> QED BY <1>1 DEF Local, Outputs, Fits, NoOrphanPump, NoOrphanValve, NoOrphanHeat, SetPoints

(* Before its first cycle a state neither pumps nor opens the valve unless   *)
(* the regulator is on.                                                      *)
LEMMA StartFits ==
  ASSUME Local, cur \in States \ {"Off"}, co.at = "start"
  PROVE  /\ ~act.pump
         /\ act.pumpOn => cur \in {"Brew", "Backflush", "Manual"}
         /\ act.solenoid => act.pumpOn
         /\ act.boilerOn => act.temp = "brew" /\ cur \notin {"Off", "Steam", "Descale"}
         /\ act.heater => act.boilerOn
         /\ cur = "Brew" => act.flow = "unlimited"
         /\ cur = "Manual" => act.pressure = "manual" /\ act.flow = "manual"
BY DEF Local, Outputs, NoOrphanPump, NoOrphanValve, NoOrphanHeat, SetPoints

-----------------------------------------------------------------------------
LEMMA StandbyKeeps ==
  ASSUME Local, cur \in States \ {"Off"}, cur' = cur,
         StandbyStart \/ StandbyPrefill \/ StandbySettled \/ StandbyIdle \/ StandbyVent
  PROVE  Local'
<1>1. cur = "Standby"
  BY PointsOfStates DEF Local, CoroutineIsOwn, States, NoState,
     StandbyStart, StandbyPrefill, StandbySettled, StandbyIdle, StandbyVent
<1>2. act \in ActuatorSet /\ LocalType BY DEF Local, LocalType
<1>3. ASSUME NEW b \in ActuatorSet, NEW at \in Points("Standby") \ {"start"},
             Drive(b), Await(at, 0, 0), NoPost, NoRequest, Fits(cur, b, at, 0, 0)
      PROVE  Local'
  <2>1. 0 \in 0..MaxCount BY DEF MaxCount, CyclesAssumption
  <2>2. nextState' \in Requestable \cup {NoState} /\ qlen' \in 0..QueueCapacity /\ panic' \subseteq Cores
    BY <1>2, <1>3 DEF LocalType, NoPost, NoRequest
  <2>3. co' = Frame(at, 0, 0) /\ awaiter' \in {"none", at}
    BY <1>3 DEF Await
  <2> QED BY <1>1, <1>2, <1>3, <2>1, <2>2, <2>3, CycleKeeps
<1>4. ASSUME co.at # "start" PROVE Fits("Standby", act, co.at, co.n, co.k)
  BY <1>1, <1>4, LocalFits
<1>5. CASE StandbyStart
  <2>1. CASE prefill
    <3>1. [act EXCEPT !.pump = TRUE, !.solenoid = TRUE] \in ActuatorSet
      BY <1>2 DEF ActuatorSet
    <3>2. Fits("Standby", [act EXCEPT !.pump = TRUE, !.solenoid = TRUE], "fillDelay", 0, 0)
      BY <1>1, <1>2, <1>5, StartFits DEF Fits, StandbyStart, ActuatorSet
    <3> QED BY <1>1, <1>3, <1>5, <2>1, <3>1, <3>2, PointsOfStates DEF StandbyStart
  <2>2. CASE ~prefill
    <3>1. Fits("Standby", act, "idle", 0, 0)
      BY <1>1, <1>5, StartFits DEF Fits, StandbyStart
    <3> QED BY <1>1, <1>2, <1>3, <1>5, <2>2, <3>1, PointsOfStates DEF StandbyStart
  <2> QED BY <2>1, <2>2
<1>6. CASE StandbyPrefill
  <2>1. co.at \in {"fillDelay", "filling"} BY <1>6 DEF StandbyPrefill
  <2>2. CASE Await("filling", 0, 0) /\ Drive(act)
    <3>1. Fits("Standby", act, "filling", 0, 0)
      BY <1>4, <2>1 DEF Fits
    <3> QED BY <1>1, <1>2, <1>3, <1>6, <2>2, <3>1, PointsOfStates DEF StandbyPrefill
  <2>3. CASE Await("settle", 0, 0) /\ Drive(Standstill(act))
    <3>1. Standstill(act) \in ActuatorSet
      BY <1>2 DEF ActuatorSet, Standstill
    <3>2. Fits("Standby", Standstill(act), "settle", 0, 0)
      BY <1>2, <1>4, <2>1 DEF Fits, Standstill, ActuatorSet
    <3> QED BY <1>1, <1>3, <1>6, <2>3, <3>1, <3>2, PointsOfStates DEF StandbyPrefill
  <2> QED BY <1>6, <2>2, <2>3 DEF StandbyPrefill
<1>7. CASE StandbySettled
  <2>1. Fits("Standby", act, "idle", 0, 0)
    BY <1>4, <1>7 DEF Fits, StandbySettled
  <2> QED BY <1>1, <1>2, <1>3, <1>7, <2>1, PointsOfStates DEF StandbySettled
<1>8. CASE StandbyIdle
  <2>1. Fits("Standby", act, "warn", 0, 0)
    BY <1>4, <1>8 DEF Fits, StandbyIdle
  <2>2. [act EXCEPT !.solenoid = FALSE] \in ActuatorSet
    BY <1>2 DEF ActuatorSet
  <2>3. Fits("Standby", [act EXCEPT !.solenoid = FALSE], "idle", 0, 0)
    BY <1>2, <1>4, <1>8 DEF Fits, StandbyIdle, ActuatorSet
  <2> QED BY <1>1, <1>2, <1>3, <1>8, <2>1, <2>2, <2>3, PointsOfStates DEF StandbyIdle
<1>9. CASE StandbyVent
  <2>1. co.at \in {"warn", "vent"} BY <1>9 DEF StandbyVent
  <2>2. [act EXCEPT !.solenoid = TRUE] \in ActuatorSet /\ [act EXCEPT !.solenoid = FALSE] \in ActuatorSet
    BY <1>2 DEF ActuatorSet
  <2>3. Fits("Standby", [act EXCEPT !.solenoid = TRUE], "vent", 0, 0)
    BY <1>2, <1>4, <2>1 DEF Fits, ActuatorSet
  <2>4. Fits("Standby", [act EXCEPT !.solenoid = FALSE], "idle", 0, 0)
    BY <1>2, <1>4, <2>1 DEF Fits, ActuatorSet
  <2> QED BY <1>1, <1>3, <1>9, <2>2, <2>3, <2>4, PointsOfStates DEF StandbyVent
<1> QED BY <1>5, <1>6, <1>7, <1>8, <1>9

LEMMA SetPumpFields ==
  ASSUME NEW a \in ActuatorSet, NEW on \in BOOLEAN
  PROVE  /\ SetPumpEnabled(on, a) \in ActuatorSet
         /\ SetPumpEnabled(on, a).pumpOn = on
         /\ SetPumpEnabled(on, a).pump <=> on /\ a.pump
         /\ SetPumpEnabled(on, a).solenoid = a.solenoid
         /\ SetPumpEnabled(on, a).boilerOn = a.boilerOn
         /\ SetPumpEnabled(on, a).heater = a.heater
         /\ SetPumpEnabled(on, a).pressure = a.pressure
         /\ SetPumpEnabled(on, a).flow = a.flow
         /\ SetPumpEnabled(on, a).temp = a.temp
BY DEF SetPumpEnabled, ActuatorSet

(* Pump regulator off and valve shut, as a shot or a pressurisation ends. *)
LEMMA StoppedFields ==
  ASSUME NEW a \in ActuatorSet,
         NEW c, c = [SetPumpEnabled(FALSE, a) EXCEPT !.solenoid = FALSE]
  PROVE  /\ c \in ActuatorSet
         /\ ~c.pumpOn /\ ~c.pump /\ ~c.solenoid
         /\ c.boilerOn = a.boilerOn /\ c.heater = a.heater
         /\ c.temp = a.temp /\ c.flow = a.flow
BY DEF SetPumpEnabled, ActuatorSet

LEMMA BrewKeeps ==
  ASSUME Local, cur \in States \ {"Off"}, cur' = cur, BrewStep
  PROVE  Local'
<1>1. cur = "Brew"
  BY PointsOfStates DEF Local, CoroutineIsOwn, States, NoState, BrewStep
<1>2. act \in ActuatorSet /\ LocalType BY DEF Local, LocalType
<1>3. 0 \in 0..MaxCount BY DEF MaxCount, CyclesAssumption
<1>4. nextState' \in Requestable \cup {NoState} /\ qlen' \in 0..QueueCapacity /\ panic' \subseteq Cores
  BY <1>2 DEF LocalType, BrewStep, NoPost, NoRequest
<1>5. ASSUME NEW a \in ActuatorSet, NEW done \in BOOLEAN, BrewPass(done, a),
             Fits("Brew", a, "brewing", 0, 0)
      PROVE  Local'
  <2>1. PICK over \in {done, TRUE} :
          LET b == IF over /\ ~done THEN [a EXCEPT !.pressure = "brew"] ELSE a
          IN  \/ Yield("brewing", 0, IF over THEN 1 ELSE 0) /\ Drive(b)
              \/ Destroy /\ Drive([SetPumpEnabled(FALSE, b) EXCEPT !.solenoid = FALSE])
    BY <1>5 DEF BrewPass
  <2> DEFINE b == IF over /\ ~done THEN [a EXCEPT !.pressure = "brew"] ELSE a
             c == [SetPumpEnabled(FALSE, b) EXCEPT !.solenoid = FALSE]
  <2>2. b \in ActuatorSet BY DEF ActuatorSet, Pressures
  <2>3. /\ b.pumpOn = a.pumpOn /\ b.pump = a.pump /\ b.solenoid = a.solenoid
        /\ b.boilerOn = a.boilerOn /\ b.heater = a.heater /\ b.temp = a.temp /\ b.flow = a.flow
        /\ b.pressure \in {a.pressure, "brew"}
    BY DEF ActuatorSet
  <2>4. /\ c \in ActuatorSet
        /\ ~c.pumpOn /\ ~c.pump /\ ~c.solenoid
        /\ c.boilerOn = b.boilerOn /\ c.heater = b.heater /\ c.temp = b.temp /\ c.flow = b.flow
    <3> HIDE DEF b
    <3> QED BY <2>2, StoppedFields
  <2>5. CASE Yield("brewing", 0, IF over THEN 1 ELSE 0) /\ Drive(b)
    <3>1. ASSUME NEW k \in {0, 1} PROVE Fits("Brew", b, "brewing", 0, k)
      BY <1>5, <2>3 DEF Fits
    <3> HIDE DEF b
    <3>2. PICK k \in {0, 1} : co' = Frame("brewing", 0, k) /\ awaiter' = "none"
      BY <2>5 DEF Yield
    <3> QED BY <1>1, <1>2, <1>3, <1>4, <2>2, <2>5, <3>1, <3>2, CycleKeeps, PointsOfStates
  <2>6. CASE Destroy /\ Drive(c)
    <3>1. Fits("Brew", c, "none", 0, 0)
      BY <1>5, <2>3, <2>4 DEF Fits
    <3> HIDE DEF b, c
    <3>2. co' = Frame("none", 0, 0) /\ awaiter' = "none"
      BY <2>6 DEF Destroy, NoFrame
    <3> QED BY <1>1, <1>2, <1>3, <1>4, <2>4, <2>6, <3>1, <3>2, CycleKeeps, PointsOfStates
  <2> QED BY <2>1, <2>5, <2>6
<1>6. CASE co.at = "start" /\ BrewPass(FALSE, Preinfuse(act))
  <2>1. Preinfuse(act) \in ActuatorSet /\ Preinfuse(act).pressure = "preinfusion"
    BY <1>2 DEF Preinfuse, ActuatorSet, Pressures
  <2>2. Fits("Brew", Preinfuse(act), "brewing", 0, 0)
    BY <1>1, <1>2, <1>6, StartFits DEF Fits, Preinfuse, ActuatorSet
  <2> QED BY <1>5, <1>6, <2>1, <2>2
<1>7. CASE co.at = "brewing" /\ BrewPass(co.k = 1, act)
  <2>1. Fits("Brew", act, "brewing", 0, 0)
    BY <1>1, <1>7, LocalFits DEF Fits
  <2> QED BY <1>2, <1>5, <1>7, <2>1
<1> QED BY <1>6, <1>7 DEF BrewStep

LEMMA SteamKeeps ==
  ASSUME Local, cur \in States \ {"Off"}, cur' = cur, SteamStart \/ SteamReached \/ SteamPass
  PROVE  Local'
<1>1. cur = "Steam"
  BY PointsOfStates DEF Local, CoroutineIsOwn, States, NoState, SteamStart, SteamReached, SteamPass
<1>2. act \in ActuatorSet /\ LocalType /\ co.k \in {0, 1} BY DEF Local, LocalType
<1>3. ASSUME NEW heat \in BOOLEAN, NEW push \in BOOLEAN,
             NEW at \in {"heatUp", "steaming"}, NEW k \in {0, 1},
             push => at = "steaming" /\ k = 1,
             Drive([act EXCEPT !.heater = heat, !.pump = push]),
             co' = Frame(at, 0, k), awaiter' \in {"none", at}, NoPost, NoRequest
      PROVE  Local'
  <2> DEFINE b == [act EXCEPT !.heater = heat, !.pump = push]
  <2>1. b \in ActuatorSet BY <1>2 DEF ActuatorSet
  <2>2. ~act.pumpOn /\ ~act.solenoid /\ ~act.boilerOn
    BY <1>1 DEF Local, Outputs, NoOrphanPump, NoOrphanValve, NoOrphanHeat
  <2>3. Fits("Steam", b, at, 0, k)
    BY <1>2, <1>3, <2>2 DEF Fits, ActuatorSet
  <2>4. 0 \in 0..MaxCount BY DEF MaxCount, CyclesAssumption
  <2>5. nextState' \in Requestable \cup {NoState} /\ qlen' \in 0..QueueCapacity /\ panic' \subseteq Cores
    BY <1>2, <1>3 DEF LocalType, NoPost, NoRequest
  <2>6. Drive(b) BY <1>3
  <2> HIDE DEF b
  <2> QED BY <1>1, <1>2, <1>3, <2>1, <2>3, <2>4, <2>5, <2>6, CycleKeeps, PointsOfStates
<1>4. ASSUME NEW heat \in BOOLEAN
      PROVE  [act EXCEPT !.heater = heat] = [act EXCEPT !.heater = heat, !.pump = act.pump]
  BY <1>2 DEF ActuatorSet
<1>5. act.pump \in BOOLEAN BY <1>2 DEF ActuatorSet
<1>6. act.pump => co.at = "steaming" /\ co.k = 1
  BY <1>1 DEF Local, Outputs, NoOrphanPump
<1>7. CASE SteamStart
  <2>1. ~act.pump BY <1>6, <1>7 DEF SteamStart
  <2>2. CASE Await("heatUp", 0, 0) /\ Drive([act EXCEPT !.heater = TRUE])
    BY <1>3, <1>4, <1>5, <1>7, <2>1, <2>2 DEF SteamStart, Await
  <2>3. CASE Yield("steaming", 0, 0) /\ Drive([act EXCEPT !.heater = FALSE])
    BY <1>3, <1>4, <1>5, <1>7, <2>1, <2>3 DEF SteamStart, Yield
  <2> QED BY <1>7, <2>2, <2>3 DEF SteamStart
<1>8. CASE SteamReached
  <2>1. ~act.pump BY <1>6, <1>8 DEF SteamReached
  <2> QED BY <1>3, <1>4, <1>5, <1>8, <2>1 DEF SteamReached, Yield
<1>9. CASE SteamPass
  <2>1. PICK heat \in BOOLEAN :
          \/ Yield("steaming", 0, co.k) /\ Drive([act EXCEPT !.heater = heat])
          \/ /\ Yield("steaming", 0, 1 - co.k)
             /\ Drive([act EXCEPT !.heater = heat, !.pump = (co.k = 0)])
    BY <1>9 DEF SteamPass
  <2>2. CASE Yield("steaming", 0, co.k) /\ Drive([act EXCEPT !.heater = heat])
    BY <1>2, <1>3, <1>4, <1>5, <1>6, <1>9, <2>2 DEF SteamPass, Yield
  <2>3. CASE /\ Yield("steaming", 0, 1 - co.k)
             /\ Drive([act EXCEPT !.heater = heat, !.pump = (co.k = 0)])
    <3>1. 1 - co.k \in {0, 1} /\ (co.k = 0) \in BOOLEAN /\ (co.k = 0 => 1 - co.k = 1)
      BY <1>2
    <3> QED BY <1>3, <1>9, <2>3, <3>1 DEF SteamPass, Yield
  <2> QED BY <2>1, <2>2, <2>3
<1> QED BY <1>7, <1>8, <1>9

(* A full queue stops the coroutine where it is, with the outputs as they    *)
(* were or both of its own put down.                                         *)
LEMMA QueuePanicKeeps ==
  ASSUME Local, cur \in States \ {"Off"}, cur' = cur,
         act' \in {act, Standstill(act)}, UNCHANGED <<co, nextState>>,
         awaiter' = "none", qlen' = QueueCapacity, panic' = panic \cup {"core0"}
  PROVE  Local'
<1>1. act \in ActuatorSet /\ act' \in ActuatorSet
  BY DEF Local, LocalType, Standstill, ActuatorSet
<1>2. /\ act'.boilerOn = act.boilerOn /\ act'.pumpOn = act.pumpOn /\ act'.heater = act.heater
      /\ act'.pressure = act.pressure /\ act'.flow = act.flow /\ act'.temp = act.temp
      /\ act'.pump => act.pump
      /\ act'.solenoid => act.solenoid
  BY <1>1 DEF Standstill, ActuatorSet
<1>3. LocalType'
  BY <1>1, PointsOfStates DEF Local, LocalType, Cores, QueueAssumption
<1>4. Outputs'
  <2>1. OffIsInert' BY DEF OffIsInert
  <2>2. SwitchingIsDry' BY DEF SwitchingIsDry, States, NoState
  <2>3. NoOrphanPump' BY <1>2 DEF Local, Outputs, NoOrphanPump
  <2>4. NoOrphanValve' BY <1>2 DEF Local, Outputs, NoOrphanValve
  <2>5. NoOrphanHeat' BY <1>2 DEF Local, Outputs, NoOrphanHeat
  <2>6. SetPoints' BY <1>2 DEF Local, Outputs, SetPoints
  <2> QED BY <2>1, <2>2, <2>3, <2>4, <2>5, <2>6 DEF Outputs
<1>5. CoroutineIsOwn'
  BY DEF Local, CoroutineIsOwn
<1> QED BY <1>3, <1>4, <1>5 DEF Local

LEMMA PressuriseFields ==
  ASSUME NEW a \in ActuatorSet
  PROVE  /\ Pressurise(a) \in ActuatorSet
         /\ Pressurise(a).pumpOn /\ Pressurise(a).pressure = "brew"
         /\ Pressurise(a).boilerOn = a.boilerOn /\ Pressurise(a).heater = a.heater
         /\ Pressurise(a).temp = a.temp
BY DEF Pressurise, SetPumpEnabled, ActuatorSet, Pressures

LEMMA BackflushKeeps ==
  ASSUME Local, cur \in States \ {"Off"}, cur' = cur,
         BackflushStart \/ BackflushRise \/ BackflushRelease \/ BackflushRested \/ BackflushConfirmed
  PROVE  Local'
<1>1. cur = "Backflush"
  BY PointsOfStates DEF Local, CoroutineIsOwn, States, NoState,
     BackflushStart, BackflushRise, BackflushRelease, BackflushRested, BackflushConfirmed
<1>2. act \in ActuatorSet /\ LocalType /\ co.k \in {0, 1} /\ co.n \in 0..MaxCount
  BY DEF Local, LocalType
<1>3. MaxCount \in Nat /\ BackflushCycles <= MaxCount /\ BackflushCycles \in Nat
  BY DEF MaxCount, CyclesAssumption
<1>4. ASSUME NEW b \in ActuatorSet, NEW at \in Points("Backflush") \ {"start"},
             NEW n \in 0..MaxCount, NEW k \in {0, 1},
             Drive(b), co' = Frame(at, n, k), awaiter' \in {"none", at},
             Fits("Backflush", b, at, n, k),
             nextState' \in {nextState, "Standby"},
             qlen' \in 0..QueueCapacity, UNCHANGED panic
      PROVE  Local'
  <2>1. nextState' \in Requestable \cup {NoState} /\ panic' \subseteq Cores
    BY <1>2, <1>4 DEF LocalType, Requestable
  <2> QED BY <1>1, <1>2, <1>4, <2>1, CycleKeeps
<1>5. ASSUME NEW n \in 0..MaxCount, NEW k \in {0, 1}, NEW posts \in {1, 2},
             BackflushCycle(n, k, posts),
             Fits("Backflush", act, "bfFill", 0, 0) \/ co.at = "start"
      PROVE  Local'
  <2>1. CASE /\ qlen + posts <= QueueCapacity /\ qlen' = qlen + posts /\ UNCHANGED panic
             /\ Await("bfFill", n, k) /\ Drive(Pressurise(act)) /\ NoRequest
    <3>1. Fits("Backflush", Pressurise(act), "bfFill", n, k)
      BY <1>1, <1>2, <1>5, PressuriseFields, StartFits DEF Fits
    <3>2. qlen' \in 0..QueueCapacity
      BY <1>2, <2>1, QueueAssumption DEF LocalType
    <3> QED BY <1>2, <1>4, <2>1, <3>1, <3>2, PressuriseFields, PointsOfStates DEF Await, NoRequest
  <2>2. CASE /\ qlen' = QueueCapacity /\ panic' = panic \cup {"core0"} /\ act' = act
             /\ awaiter' = "none" /\ UNCHANGED <<co, nextState>>
    BY <2>2, QueuePanicKeeps
  <2> QED BY <1>5, <2>1, <2>2 DEF BackflushCycle, PostThen
<1>6. ASSUME co.at # "start"
      PROVE  Fits("Backflush", act, co.at, co.n, co.k)
  BY <1>1, <1>6, LocalFits
<1>7. ASSUME NEW at, NEW n, NEW k, NEW at2, NEW n2, NEW k2,
             Fits("Backflush", act, at, n, k)
      PROVE  Fits("Backflush", act, at2, n2, k2)
  BY <1>7 DEF Fits
<1>8. ASSUME NEW posts \in {0, 1}, BackflushNextRound(co.k, posts), co.at # "start"
      PROVE  Local'
  <2>1. CASE co.k = 0 /\ BackflushCycle(0, 1, posts + 1)
    <3>1. posts + 1 \in {1, 2} /\ 0 \in 0..MaxCount BY <1>3
    <3> QED BY <1>5, <1>6, <1>7, <1>8, <2>1, <3>1
  <2>2. CASE co.k = 1 /\ PostThen(posts, act, Destroy /\ Drive(act) /\ Schedule("Standby"))
    <3>1. CASE /\ qlen + posts <= QueueCapacity /\ qlen' = qlen + posts /\ UNCHANGED panic
               /\ Destroy /\ Drive(act) /\ Schedule("Standby")
      <4>1. qlen' \in 0..QueueCapacity /\ 0 \in 0..MaxCount
        BY <1>2, <1>3, <3>1, QueueAssumption DEF LocalType
      <4>2. Fits("Backflush", act, "none", 0, 0) BY <1>6, <1>7, <1>8
      <4> QED BY <1>2, <1>4, <3>1, <4>1, <4>2, PointsOfStates DEF Destroy, NoFrame, Schedule
    <3>2. CASE /\ qlen' = QueueCapacity /\ panic' = panic \cup {"core0"} /\ act' = act
               /\ awaiter' = "none" /\ UNCHANGED <<co, nextState>>
      BY <3>2, QueuePanicKeeps
    <3> QED BY <2>2, <3>1, <3>2 DEF PostThen
  <2> QED BY <1>8, <2>1, <2>2 DEF BackflushNextRound
<1>9. CASE BackflushStart
  <2>1. 0 \in 0..MaxCount BY <1>3
  <2> QED BY <1>5, <1>9, <2>1 DEF BackflushStart
<1>10. CASE BackflushRise
  <2>1. Fits("Backflush", act, "bfRise", co.n, co.k) /\ Fits("Backflush", act, "bfHold", co.n, co.k)
    BY <1>6, <1>7, <1>10 DEF BackflushRise
  <2>2. qlen' \in 0..QueueCapacity BY <1>2, <1>10 DEF BackflushRise, NoPost, LocalType
  <2> QED BY <1>2, <1>4, <1>10, <2>1, <2>2, PointsOfStates DEF BackflushRise, Await, NoPost, NoRequest
<1>11. CASE BackflushRelease
  <2> DEFINE c == [SetPumpEnabled(FALSE, act) EXCEPT !.solenoid = FALSE]
             b == [SetPumpEnabled(FALSE, act) EXCEPT !.solenoid = FALSE, !.pressure = "brew"]
  <2>1. b = [c EXCEPT !.pressure = "brew"]
    BY <1>2 DEF SetPumpEnabled, ActuatorSet
  <2>2. /\ c \in ActuatorSet
        /\ ~c.pumpOn /\ ~c.pump /\ ~c.solenoid
        /\ c.boilerOn = act.boilerOn /\ c.heater = act.heater /\ c.temp = act.temp
    BY <1>2, StoppedFields
  <2>3. /\ b \in ActuatorSet
        /\ ~b.pumpOn /\ ~b.pump /\ ~b.solenoid
        /\ b.boilerOn = act.boilerOn /\ b.heater = act.heater /\ b.temp = act.temp
    <3> HIDE DEF b, c
    <3> QED BY <2>1, <2>2 DEF ActuatorSet, Pressures
  <2>4. Fits("Backflush", b, "bfRest", co.n, co.k)
    <3> HIDE DEF b, c
    <3> QED BY <1>6, <1>11, <2>3 DEF Fits, BackflushRelease
  <2>5. qlen' \in 0..QueueCapacity BY <1>2, <1>11 DEF BackflushRelease, NoPost, LocalType
  <2>6. Drive(b) BY <1>11 DEF BackflushRelease
  <2> HIDE DEF b, c
  <2> QED BY <1>2, <1>4, <1>11, <2>3, <2>4, <2>5, <2>6, PointsOfStates
          DEF BackflushRelease, Await, NoPost, NoRequest
<1>12. CASE BackflushRested
  <2>1. co.at # "start" BY <1>12 DEF BackflushRested
  <2>2. CASE co.n + 1 < BackflushCycles /\ BackflushCycle(co.n + 1, co.k, 1)
    <3>1. co.n + 1 \in 0..MaxCount BY <1>2, <1>3, <2>2
    <3> QED BY <1>2, <1>5, <1>6, <1>7, <2>1, <2>2, <3>1
  <2>3. CASE PostThen(1, act, Await("bfSwitch", 0, co.k) /\ Drive(act) /\ NoRequest)
    <3>1. CASE /\ qlen + 1 <= QueueCapacity /\ qlen' = qlen + 1 /\ UNCHANGED panic
               /\ Await("bfSwitch", 0, co.k) /\ Drive(act) /\ NoRequest
      <4>1. qlen' \in 0..QueueCapacity /\ 0 \in 0..MaxCount
        BY <1>2, <1>3, <3>1, QueueAssumption DEF LocalType
      <4>2. Fits("Backflush", act, "bfSwitch", 0, co.k) BY <1>6, <1>7, <2>1
      <4> QED BY <1>2, <1>4, <3>1, <4>1, <4>2, PointsOfStates DEF Await, NoRequest
    <3>2. CASE /\ qlen' = QueueCapacity /\ panic' = panic \cup {"core0"} /\ act' = act
               /\ awaiter' = "none" /\ UNCHANGED <<co, nextState>>
      BY <3>2, QueuePanicKeeps
    <3> QED BY <2>3, <3>1, <3>2 DEF PostThen
  <2>4. CASE BackflushNextRound(co.k, 1)
    BY <1>8, <2>1, <2>4
  <2> QED BY <1>12, <2>2, <2>3, <2>4 DEF BackflushRested
<1>13. CASE BackflushConfirmed
  BY <1>8, <1>13 DEF BackflushConfirmed
<1> QED BY <1>9, <1>10, <1>11, <1>12, <1>13

LEMMA DescaleKeeps ==
  ASSUME Local, cur \in States \ {"Off"}, cur' = cur, sw \in [AllSwitches -> BOOLEAN],
         DescaleStart \/ DescaleClean \/ DescaleSoaked \/ DescaleRefill \/ DescaleRinse
  PROVE  Local'
<1>1. cur = "Descale"
  BY PointsOfStates DEF Local, CoroutineIsOwn, States, NoState,
     DescaleStart, DescaleClean, DescaleSoaked, DescaleRefill, DescaleRinse
<1>2. act \in ActuatorSet /\ LocalType /\ co.k \in {0, 1} /\ co.n \in 0..MaxCount
  BY DEF Local, LocalType
<1>3. MaxCount \in Nat /\ DescaleCycles <= MaxCount /\ RinseCycles <= MaxCount
      /\ DescaleCycles \in Nat /\ RinseCycles \in Nat
  BY DEF MaxCount, CyclesAssumption
<1>4. Toggled \in {0, 1} BY DEF Toggled
<1>5. ~act.pumpOn /\ ~act.boilerOn /\ ~act.heater
  BY <1>1 DEF Local, Outputs, NoOrphanPump, NoOrphanHeat
(* The only outputs that a descale moves are the pump and the valve. *)
<1>6. ASSUME NEW b \in ActuatorSet,
             NEW at \in {"clean", "soak", "refill", "rinse", "none"},
             NEW n \in 0..MaxCount, NEW k \in {0, 1},
             ~b.pumpOn, ~b.boilerOn, ~b.heater,
             b.pump => at \in {"clean", "rinse"},
             b.solenoid => at = "rinse" /\ n % 2 = 1,
             Drive(b), co' = Frame(at, n, k), awaiter' \in {"none", at},
             nextState' \in {nextState, "Standby"},
             qlen' \in 0..QueueCapacity, UNCHANGED panic
      PROVE  Local'
  <2>1. nextState' \in Requestable \cup {NoState} /\ panic' \subseteq Cores
    BY <1>2, <1>6 DEF LocalType, Requestable
  <2>2. Fits("Descale", b, at, n, k) BY <1>6 DEF Fits
  <2> QED BY <1>1, <1>2, <1>6, <2>1, <2>2, CycleKeeps, PointsOfStates
<1>7. /\ Pumping(act) \in ActuatorSet
      /\ ~Pumping(act).pumpOn /\ ~Pumping(act).boilerOn /\ ~Pumping(act).heater
      /\ Pumping(act).solenoid = act.solenoid
  BY <1>2, <1>5 DEF Pumping, ActuatorSet, AllSwitches
<1>8. /\ Standstill(act) \in ActuatorSet
      /\ ~Standstill(act).pumpOn /\ ~Standstill(act).boilerOn /\ ~Standstill(act).heater
      /\ ~Standstill(act).pump /\ ~Standstill(act).solenoid
  BY <1>2, <1>5 DEF Standstill, ActuatorSet
<1>9. act.pump => co.at \in {"clean", "rinse"}
  BY <1>1, <1>5 DEF Local, Outputs, NoOrphanPump
<1>10. act.solenoid => co.at = "rinse" /\ co.n % 2 = 1
  BY <1>1, <1>5 DEF Local, Outputs, NoOrphanValve
<1>11. ASSUME NEW before \in {act, Standstill(act)},
              qlen' = QueueCapacity, panic' = panic \cup {"core0"}, act' = before,
              awaiter' = "none", UNCHANGED <<co, nextState>>
       PROVE  Local'
  BY <1>11, QueuePanicKeeps
<1>12. ASSUME NEW posts \in {0, 1}, qlen' = qlen + posts, qlen + posts <= QueueCapacity
       PROVE  qlen' \in 0..QueueCapacity
  BY <1>2, <1>12, QueueAssumption DEF LocalType
<1>13. ASSUME NEW n \in 0..MaxCount, NEW posts \in {0, 1}, CleanFrom(n, posts), ~act.solenoid
       PROVE  Local'
  <2>1. CASE /\ qlen + posts <= QueueCapacity /\ qlen' = qlen + posts /\ UNCHANGED panic
             /\ Await("clean", n, 0) /\ Drive(Pumping(act)) /\ NoRequest
    BY <1>6, <1>7, <1>12, <1>13, <2>1 DEF Await, NoRequest
  <2>2. CASE /\ qlen' = QueueCapacity /\ panic' = panic \cup {"core0"} /\ act' = act
             /\ awaiter' = "none" /\ UNCHANGED <<co, nextState>>
    BY <1>11, <2>2
  <2> QED BY <1>13, <2>1, <2>2 DEF CleanFrom, PostThen
<1>14. ASSUME NEW n \in 0..MaxCount, NEW before \in {act, Standstill(act)}, RefillFrom(n, before),
              before = act => ~act.pump /\ ~act.solenoid
       PROVE  Local'
  <2>1. /\ before \in ActuatorSet /\ ~before.pumpOn /\ ~before.boilerOn /\ ~before.heater
        /\ ~before.pump /\ ~before.solenoid
    BY <1>2, <1>5, <1>8, <1>14
  <2>2. CASE /\ qlen + 1 <= QueueCapacity /\ qlen' = qlen + 1 /\ UNCHANGED panic
             /\ Yield("refill", n, Toggled) /\ Drive(before) /\ NoRequest
    BY <1>4, <1>6, <1>12, <2>1, <2>2 DEF Yield, NoRequest
  <2>3. CASE /\ qlen' = QueueCapacity /\ panic' = panic \cup {"core0"} /\ act' = before
             /\ awaiter' = "none" /\ UNCHANGED <<co, nextState>>
    BY <1>11, <2>3
  <2> QED BY <1>14, <2>2, <2>3 DEF RefillFrom, PostThen
<1>15. CASE DescaleStart
  <2>1. ~act.solenoid BY <1>10, <1>15 DEF DescaleStart
  <2>2. 0 \in 0..MaxCount BY <1>3
  <2> QED BY <1>13, <1>15, <2>1, <2>2 DEF DescaleStart
<1>16. CASE DescaleClean
  <2>1. ~act.solenoid BY <1>10, <1>16 DEF DescaleClean
  <2>2. CASE CleanFrom(co.n, 0) BY <1>2, <1>13, <2>1, <2>2
  <2>3. CASE PostThen(1, act, /\ Await("soak", co.n, 0)
                              /\ Drive([act EXCEPT !.pump = FALSE])
                              /\ NoRequest)
    <3> DEFINE b == [act EXCEPT !.pump = FALSE]
    <3>1. b \in ActuatorSet /\ ~b.pumpOn /\ ~b.boilerOn /\ ~b.heater /\ ~b.pump /\ ~b.solenoid
      BY <1>2, <1>5, <2>1 DEF ActuatorSet
    <3>2. CASE /\ qlen + 1 <= QueueCapacity /\ qlen' = qlen + 1 /\ UNCHANGED panic
               /\ Await("soak", co.n, 0) /\ Drive(b) /\ NoRequest
      <4> HIDE DEF b
      <4> QED BY <1>2, <1>6, <1>12, <3>1, <3>2 DEF Await, NoRequest
    <3>3. CASE /\ qlen' = QueueCapacity /\ panic' = panic \cup {"core0"} /\ act' = act
               /\ awaiter' = "none" /\ UNCHANGED <<co, nextState>>
      BY <1>11, <3>3
    <3> QED BY <2>3, <3>2, <3>3 DEF PostThen
  <2> QED BY <1>16, <2>2, <2>3 DEF DescaleClean
<1>17. CASE DescaleSoaked
  <2>1. ~act.solenoid /\ ~act.pump BY <1>9, <1>10, <1>17 DEF DescaleSoaked
  <2>2. CASE co.n + 1 < DescaleCycles /\ CleanFrom(co.n + 1, 1)
    <3>1. co.n + 1 \in 0..MaxCount BY <1>2, <1>3, <2>2
    <3> QED BY <1>13, <2>1, <2>2, <3>1
  <2>3. CASE RefillFrom(0, act)
    <3>1. 0 \in 0..MaxCount BY <1>3
    <3> QED BY <1>14, <2>1, <2>3, <3>1
  <2> QED BY <1>17, <2>2, <2>3 DEF DescaleSoaked
<1>18. CASE DescaleRefill
  <2>1. ~act.solenoid /\ ~act.pump BY <1>9, <1>10, <1>18 DEF DescaleRefill
  <2>2. CASE Yield("refill", co.n, co.k) /\ Drive(act) /\ NoPost /\ NoRequest
    <3>1. qlen' \in 0..QueueCapacity BY <1>2, <2>2 DEF NoPost, LocalType
    <3> QED BY <1>2, <1>5, <1>6, <2>1, <2>2, <3>1 DEF Yield, NoPost, NoRequest
  <2>3. CASE PostThen(1, act, /\ Await("rinse", co.n, co.k)
                              /\ Drive([Pumping(act) EXCEPT !.solenoid = (co.n % 2 = 1)])
                              /\ NoRequest)
    <3> DEFINE b == [Pumping(act) EXCEPT !.solenoid = (co.n % 2 = 1)]
    <3>1. b \in ActuatorSet /\ ~b.pumpOn /\ ~b.boilerOn /\ ~b.heater /\ (b.solenoid => co.n % 2 = 1)
      BY <1>7 DEF ActuatorSet
    <3>2. CASE /\ qlen + 1 <= QueueCapacity /\ qlen' = qlen + 1 /\ UNCHANGED panic
               /\ Await("rinse", co.n, co.k) /\ Drive(b) /\ NoRequest
      <4> HIDE DEF b
      <4> QED BY <1>2, <1>6, <1>12, <3>1, <3>2 DEF Await, NoRequest
    <3>3. CASE /\ qlen' = QueueCapacity /\ panic' = panic \cup {"core0"} /\ act' = act
               /\ awaiter' = "none" /\ UNCHANGED <<co, nextState>>
      BY <1>11, <3>3
    <3> QED BY <2>3, <3>2, <3>3 DEF PostThen
  <2> QED BY <1>18, <2>2, <2>3 DEF DescaleRefill
<1>19. CASE DescaleRinse
  <2>1. CASE Await("rinse", co.n, co.k) /\ Drive(Pumping(act)) /\ NoPost /\ NoRequest
    <3>1. qlen' \in 0..QueueCapacity BY <1>2, <2>1 DEF NoPost, LocalType
    <3> QED BY <1>2, <1>6, <1>7, <1>10, <2>1, <3>1 DEF Await, NoPost, NoRequest
  <2>2. CASE co.n + 1 < RinseCycles /\ RefillFrom(co.n + 1, Standstill(act))
    <3>1. co.n + 1 \in 0..MaxCount BY <1>2, <1>3, <2>2
    <3>2. Standstill(act) = act => ~act.pump /\ ~act.solenoid BY <1>8
    <3> QED BY <1>14, <2>2, <3>1, <3>2
  <2>3. CASE Destroy /\ Drive(Standstill(act)) /\ NoPost /\ Schedule("Standby")
    <3>1. qlen' \in 0..QueueCapacity /\ 0 \in 0..MaxCount
      BY <1>2, <1>3, <2>3 DEF NoPost, LocalType
    <3> QED BY <1>6, <1>8, <2>3, <3>1 DEF Destroy, NoFrame, NoPost, Schedule
  <2> QED BY <1>19, <2>1, <2>2, <2>3 DEF DescaleRinse
<1> QED BY <1>15, <1>16, <1>17, <1>18, <1>19

LEMMA ManualKeeps ==
  ASSUME Local, cur \in States \ {"Off"}, cur' = cur, ManualStep
  PROVE  Local'
<1>1. cur = "Manual"
  BY PointsOfStates DEF Local, CoroutineIsOwn, States, NoState, ManualStep
<1>2. act \in ActuatorSet /\ LocalType BY DEF Local, LocalType
<1>3. 0 \in 0..MaxCount BY DEF MaxCount, CyclesAssumption
<1>4. Fits("Manual", act, "manual", 0, 0) /\ Fits("Manual", act, "none", 0, 0)
  <2>1. CASE co.at = "start" BY <1>1, <2>1, StartFits DEF Fits
  <2>2. CASE co.at # "start" BY <1>1, <2>2, LocalFits DEF Fits
  <2> QED BY <2>1, <2>2
<1>5. Drive(act) /\ qlen' \in 0..QueueCapacity /\ panic' \subseteq Cores
  BY <1>2 DEF ManualStep, NoPost, LocalType
<1>6. nextState' \in Requestable \cup {NoState}
  BY <1>2 DEF ManualStep, ManualOver, NoRequest, Schedule, LocalType, Requestable
<1>7. \/ co' = Frame("manual", 0, 0) /\ awaiter' = "none"
      \/ co' = Frame("none", 0, 0) /\ awaiter' = "none"
  BY DEF ManualStep, ManualOver, Destroy, NoFrame, Yield
<1> QED BY <1>1, <1>2, <1>3, <1>4, <1>5, <1>6, <1>7, CycleKeeps, PointsOfStates

(* A cycle in which the coroutine is not resumed. *)
LEMMA WaitKeeps ==
  ASSUME Local, cur \in States \ {"Off"}, cur' = cur, RoutineWaits
  PROVE  Local'
<1>1. act \in ActuatorSet /\ LocalType /\ co \in [at : AllPoints, n : 0..MaxCount, k : {0, 1}]
  BY DEF Local, LocalType
<1>2. cur # NoState /\ co.at \in Points(cur) /\ awaiter \in {"none", co.at}
      /\ (co.at = "start" => awaiter = "none")
  BY DEF Local, CoroutineIsOwn, States, NoState
<1>3. co.at # "start" BY <1>2 DEF RoutineWaits
<1>4. co' = Frame(co.at, co.n, co.k) BY <1>1 DEF RoutineWaits, Frame
<1>5. nextState' \in Requestable \cup {NoState} /\ qlen' \in 0..QueueCapacity /\ panic' \subseteq Cores
  BY <1>1 DEF RoutineWaits, NoPost, NoRequest, LocalType
<1>6. Drive(act) /\ awaiter' = awaiter BY DEF RoutineWaits
<1> QED BY <1>1, <1>2, <1>3, <1>4, <1>5, <1>6, LocalFits, CycleKeeps

LEMMA CycleIsLocal ==
  ASSUME Local, cur \in States \ {"Off"}, cur' = cur, sw \in [AllSwitches -> BOOLEAN],
         RoutineStep \/ RoutineWaits
  PROVE  Local'
BY StandbyKeeps, BrewKeeps, SteamKeeps, BackflushKeeps, DescaleKeeps, ManualKeeps, WaitKeeps
   DEF RoutineStep

-----------------------------------------------------------------------------
(* Nothing that the output invariants speak of has changed. *)
LEMMA OutputsFrame ==
  ASSUME Outputs, CoroutineIsOwn, UNCHANGED <<cur, act, co, awaiter>>
  PROVE  Outputs' /\ CoroutineIsOwn'
BY DEF Outputs, CoroutineIsOwn, OffIsInert, SwitchingIsDry, NoOrphanPump, NoOrphanValve,
       NoOrphanHeat, SetPoints

LEMMA InitInductive == Init => Inductive
<1> SUFFICES ASSUME Init PROVE Inductive
  OBVIOUS
<1>1. /\ act = [boilerOn |-> FALSE, heater |-> FALSE, pumpOn |-> FALSE, pump |-> FALSE,
                solenoid |-> FALSE, pressure |-> "unset", flow |-> "unlimited", temp |-> "unset"]
  BY DEF Init, OnEnter, InitialActuators, SetBoiler, SetPumpEnabled
<1>2. TypeOK
  <2>1. act \in ActuatorSet BY <1>1 DEF ActuatorSet, Pressures, Flows, Temps
  <2>2. co \in [at : AllPoints, n : 0..MaxCount, k : {0, 1}]
    BY PointsOfStates DEF Init, FreshFrame, Frame, MaxCount, CyclesAssumption
  <2>3. sw \in [AllSwitches -> BOOLEAN] BY DEF Init
  <2>4. qlen \in 0..QueueCapacity BY QueueAssumption DEF Init
  <2> QED BY <2>1, <2>2, <2>3, <2>4, PointsOfStates DEF Init, TypeOK, States, NoState, Cores
<1>3. Outputs
  BY <1>1 DEF Init, Outputs, OffIsInert, SwitchingIsDry, NoOrphanPump, NoOrphanValve, NoOrphanHeat,
              SetPoints, Quiet, NoState
<1>4. Control
  BY PointsOfStates DEF Init, Control, CoroutineIsOwn, ChangeIsAChange, HeldByPanic, MailboxIsLocked,
              ChangeIsAnArrow, NoState, FreshFrame, Frame
<1> QED BY <1>2, <1>3, <1>4 DEF Inductive

(* One cycle of a running state. *)
LEMMA RunCycleKeeps ==
  ASSUME Inductive, Runs("core0"), RunCycle
  PROVE  Inductive'
<1>1. cur \in States \ {"Off"}
  BY DEF Inductive, TypeOK, Control, ChangeIsAChange, RunCycle
<1>2. Local /\ sw \in [AllSwitches -> BOOLEAN]
  BY DEF Inductive, TypeOK, Control, Local, LocalType, MailboxIsLocked
<1>3. Local'
  <2>1. CASE RoutineStep \/ RoutineWaits
    BY <1>1, <1>2, <2>1, CycleIsLocal DEF RunCycle
  <2>2. CASE SensorPanic
    <3>1. LocalType' BY <1>2, <2>2 DEF RunCycle, SensorPanic, Local, LocalType, Cores
    <3>2. Outputs' /\ CoroutineIsOwn'
      BY <1>2, <2>2, OutputsFrame DEF RunCycle, SensorPanic, Local
    <3> QED BY <3>1, <3>2 DEF Local
  <2> QED BY <2>1, <2>2 DEF RunCycle
<1>4. panic \subseteq panic'
  BY DEF RunCycle, SensorPanic, RoutineWaits, RoutineStep, NoPost, PostThen,
     StandbyStart, StandbyPrefill, StandbySettled, StandbyIdle, StandbyVent, BrewStep,
     SteamStart, SteamReached, SteamPass, BackflushStart, BackflushRise, BackflushRelease,
     BackflushRested, BackflushConfirmed, BackflushCycle, BackflushNextRound,
     DescaleStart, DescaleClean, DescaleSoaked, DescaleRefill, DescaleRinse, CleanFrom, RefillFrom,
     ManualStep
<1>5. TypeOK'
  <2>1. pc' = "top" /\ UNCHANGED <<cur, mutex, target, from, core1Vars, inputVars, halted>>
    BY DEF RunCycle
  <2>2. lastPressed' \in BOOLEAN BY <1>2 DEF RunCycle, ObservePower, AllSwitches
  <2> QED BY <1>3, <2>1, <2>2 DEF Inductive, TypeOK, Local, LocalType, core1Vars, inputVars,
                                 Requestable, States
<1>6. Control'
  <2>1. pc = "check" /\ pc' = "top" /\ UNCHANGED <<cur, mutex, target, from, core1Vars, halted>>
    BY DEF RunCycle
  <2>2. HeldByPanic' BY <1>4, <2>1 DEF Inductive, Control, HeldByPanic
  <2>3. MailboxIsLocked' BY <1>3, <2>1 DEF Inductive, Control, MailboxIsLocked, core1Vars, Local, LocalType
  <2>4. ChangeIsAChange' BY <2>1 DEF Inductive, Control, ChangeIsAChange
  <2>5. ChangeIsAnArrow' BY <2>1 DEF Inductive, Control, ChangeIsAnArrow
  <2> QED BY <1>3, <2>2, <2>3, <2>4, <2>5 DEF Control, Local
<1> QED BY <1>3, <1>5, <1>6 DEF Inductive, Local

(* A step that leaves the mode, the outputs and the coroutine alone. *)
LEMMA QuietStep ==
  ASSUME Inductive, TypeOK', UNCHANGED <<cur, act, co, awaiter>>,
         HeldByPanic', MailboxIsLocked', ChangeIsAChange', ChangeIsAnArrow'
  PROVE  Inductive'
BY OutputsFrame DEF Inductive, Control

LEMMA ChooseOther == Other("core0") = "core1" /\ Other("core1") = "core0"
BY DEF Other, Cores

LEMMA PostType ==
  ASSUME qlen \in 0..QueueCapacity, panic \subseteq Cores,
         NEW n \in Nat, NEW c \in Cores, Post(n, c)
  PROVE  qlen' \in 0..QueueCapacity /\ panic' \subseteq Cores /\ panic \subseteq panic'
BY QueueAssumption DEF Post

(* Core 0 outside the cycle of a state. *)
LEMMA FaultKeeps ==
  ASSUME Inductive, Fault
  PROVE  Inductive'
<1>1. TypeOK'
  BY DEF Inductive, TypeOK, Fault, SensorPanic, switchVars, core1Vars, inputVars, Cores
<1>2. HeldByPanic' /\ MailboxIsLocked' /\ ChangeIsAChange' /\ ChangeIsAnArrow'
  BY DEF Inductive, Control, HeldByPanic, MailboxIsLocked, ChangeIsAChange, ChangeIsAnArrow,
         Fault, SensorPanic, switchVars, core1Vars
<1>3. UNCHANGED <<cur, act, co, awaiter>> BY DEF Fault, SensorPanic
<1> QED BY <1>1, <1>2, <1>3, QuietStep

LEMMA MailboxStepsKeep ==
  ASSUME Inductive, SkipScheduled \/ TakeScheduled
  PROVE  Inductive'
<1>1. UNCHANGED <<cur, act, co, awaiter, qlen, panic, halted, lastPressed, core1Vars, inputVars, from>>
  BY DEF SkipScheduled, TakeScheduled, BeginSwitch, routineVars, switchVars
<1>2. TypeOK'
  BY <1>1 DEF Inductive, TypeOK, SkipScheduled, TakeScheduled, BeginSwitch, AlreadyThere,
     routineVars, switchVars, core1Vars, inputVars
<1>3. HeldByPanic' BY <1>1 DEF Inductive, Control, HeldByPanic
<1>4. MailboxIsLocked'
  BY <1>1 DEF Inductive, Control, MailboxIsLocked, SkipScheduled, TakeScheduled, BeginSwitch,
     AlreadyThere, routineVars, switchVars, core1Vars
<1>5. ChangeIsAChange'
  BY <1>1 DEF Inductive, Control, ChangeIsAChange, SkipScheduled, TakeScheduled, BeginSwitch,
     AlreadyThere, switchVars
<1>6. ChangeIsAnArrow'
  BY <1>1 DEF Inductive, Control, ChangeIsAnArrow, MailboxIsLocked, Requestable, NoState,
     SkipScheduled, TakeScheduled, BeginSwitch, AlreadyThere, switchVars
<1> QED BY <1>1, <1>2, <1>3, <1>4, <1>5, <1>6, QuietStep

LEMMA SwitchTargetIsAnArrow ==
  /\ SwitchTarget \in {"Standby", "Brew", "Steam", NoState}
  /\ SwitchTarget \in {"Brew", "Steam"} => cur = "Standby"
  /\ SwitchTarget # cur \/ SwitchTarget = NoState
BY DEF SwitchTarget, NoState

LEMMA SwitchStepsKeep ==
  ASSUME Inductive, FollowSwitch \/ FollowPower \/ StayOff
  PROVE  Inductive'
<1>1. UNCHANGED <<cur, routineVars, mutex, halted, core1Vars, inputVars, from>> /\ pc = "check"
  BY DEF FollowSwitch, FollowPower, StayOff, BeginSwitch
<1>2. \/ pc' = "top" /\ target' = target
      \/ /\ pc' = "leave" /\ target' \in {"Off", "Standby", "Brew", "Steam"} /\ target' # cur
         /\ target' \in {"Brew", "Steam"} => cur = "Standby"
  <2>1. CASE FollowSwitch
    BY <2>1, SwitchTargetIsAnArrow DEF FollowSwitch, BeginSwitch
  <2>2. CASE FollowPower
    BY <2>2 DEF FollowPower, BeginSwitch
  <2>3. CASE StayOff
    BY <2>3 DEF StayOff
  <2> QED BY <2>1, <2>2, <2>3
<1>3. lastPressed' \in BOOLEAN
  BY DEF Inductive, TypeOK, FollowSwitch, FollowPower, StayOff, ObservePower, AllSwitches
<1>4. TypeOK'
  BY <1>1, <1>2, <1>3 DEF Inductive, TypeOK, routineVars, core1Vars, inputVars, States
<1>5. HeldByPanic' BY <1>1 DEF Inductive, Control, HeldByPanic, routineVars
<1>6. MailboxIsLocked'
  BY <1>1, <1>2 DEF Inductive, Control, MailboxIsLocked, routineVars, core1Vars
<1>7. ChangeIsAChange'
  BY <1>1, <1>2 DEF Inductive, Control, ChangeIsAChange, NoState
<1>8. ChangeIsAnArrow'
  BY <1>1, <1>2 DEF Inductive, Control, ChangeIsAnArrow
<1>9. UNCHANGED <<cur, act, co, awaiter>> BY <1>1 DEF routineVars
<1> QED BY <1>4, <1>5, <1>6, <1>7, <1>8, <1>9, QuietStep

LEMMA AnnounceKeeps ==
  ASSUME Inductive, AnnounceState
  PROVE  Inductive'
<1>1. UNCHANGED <<cur, act, co, awaiter, lastPressed, core1Vars, inputVars, halted>> /\ pc = "announce"
  BY DEF AnnounceState
<1>2. qlen' \in 0..QueueCapacity /\ panic' \subseteq Cores /\ panic \subseteq panic'
  BY PostType DEF AnnounceState, Inductive, TypeOK, Cores
<1>3. \/ UNCHANGED <<pc, target, from, nextState, mutex>>
      \/ /\ pc' = "top" /\ target' = NoState /\ from' = NoState
         /\ \/ mutex = "core0" /\ nextState' = NoState /\ mutex' = "free"
            \/ mutex # "core0" /\ UNCHANGED <<nextState, mutex>>
  BY DEF AnnounceState, FinishChange, switchVars
<1>4. TypeOK'
  BY <1>1, <1>2, <1>3 DEF Inductive, TypeOK, core1Vars, inputVars
<1>5. HeldByPanic' BY <1>1, <1>2 DEF Inductive, Control, HeldByPanic
<1>6. MailboxIsLocked'
  BY <1>1, <1>3 DEF Inductive, Control, MailboxIsLocked, core1Vars
<1>7. ChangeIsAChange' BY <1>1, <1>3 DEF Inductive, Control, ChangeIsAChange
<1>8. ChangeIsAnArrow' BY <1>1, <1>3 DEF Inductive, Control, ChangeIsAnArrow
<1> QED BY <1>1, <1>4, <1>5, <1>6, <1>7, <1>8, QuietStep

-----------------------------------------------------------------------------
(* The exit hooks shut the pump and the valve; only the boiler may stay on,  *)
(* and only when it was.                                                     *)
LEMMA OnExitDries ==
  ASSUME Outputs, NEW a, a = act, a \in ActuatorSet, NEW s \in States, s = cur
  PROVE  /\ OnExit(s, a) \in ActuatorSet
         /\ ~OnExit(s, a).pumpOn /\ ~OnExit(s, a).pump /\ ~OnExit(s, a).solenoid
         /\ OnExit(s, a).boilerOn = a.boilerOn
         /\ OnExit(s, a).heater => OnExit(s, a).boilerOn
         /\ OnExit(s, a).temp = a.temp
<1>1. CASE s = "Off"
  BY <1>1 DEF OnExit, Outputs, OffIsInert, Quiet, ActuatorSet
<1>2. CASE s = "Standby"
  BY <1>2 DEF OnExit, Outputs, NoOrphanPump, NoOrphanHeat, ActuatorSet
<1>3. CASE s = "Descale"
  BY <1>3 DEF OnExit, Outputs, NoOrphanPump, NoOrphanHeat, ActuatorSet
<1>4. CASE s \in {"Brew", "Backflush", "Manual"}
  <2>1. OnExit(s, a) = [SetPumpEnabled(FALSE, a) EXCEPT !.solenoid = FALSE]
    BY <1>4 DEF OnExit
  <2>2. a.heater => a.boilerOn BY <1>4 DEF Outputs, NoOrphanHeat
  <2> QED BY <2>1, <2>2, StoppedFields
<1>5. CASE s = "Steam"
  BY <1>5 DEF OnExit, Outputs, NoOrphanPump, NoOrphanValve, ActuatorSet
<1> QED BY <1>1, <1>2, <1>3, <1>4, <1>5 DEF States

LEMMA LeaveKeeps ==
  ASSUME Inductive, LeaveState
  PROVE  Inductive'
<1>1. /\ cur \in States /\ cur # NoState /\ target # cur /\ target # NoState
      /\ target \in {"Brew", "Steam"} => cur = "Standby"
  BY DEF Inductive, TypeOK, Control, ChangeIsAChange, ChangeIsAnArrow, LeaveState
<1>2. /\ act' \in ActuatorSet
      /\ ~act'.pumpOn /\ ~act'.pump /\ ~act'.solenoid
      /\ act'.boilerOn = act.boilerOn
      /\ act'.heater => act'.boilerOn
      /\ act'.temp = act.temp
  BY <1>1, OnExitDries DEF Inductive, TypeOK, LeaveState
<1>3. /\ co' = Frame("none", 0, 0) /\ awaiter' = "none" /\ cur' = NoState /\ from' = cur
      /\ pc = "leave" /\ pc' = "enter"
      /\ UNCHANGED <<sw, nextState, mutex, qlen, panic, target, lastPressed, core1Vars, halted>>
  BY DEF LeaveState, Destroy, NoFrame
<1>4. act.boilerOn => act.temp = "brew" /\ cur \notin {"Off", "Steam", "Descale"}
  BY DEF Inductive, Outputs, NoOrphanHeat
<1>5. TypeOK'
  <2>1. co' \in [at : AllPoints, n : 0..MaxCount, k : {0, 1}] /\ awaiter' \in AllPoints
    BY <1>3, PointsOfStates DEF Frame, MaxCount, CyclesAssumption
  <2>2. prefill' \in BOOLEAN BY DEF Inductive, TypeOK, LeaveState
  <2> QED BY <1>1, <1>2, <1>3, <2>1, <2>2 DEF Inductive, TypeOK, core1Vars
<1>6. Outputs'
  BY <1>2, <1>3, <1>4 DEF Outputs, OffIsInert, SwitchingIsDry, NoOrphanPump, NoOrphanValve,
     NoOrphanHeat, SetPoints, NoState, NoFrame, Frame
<1>7. Control'
  <2>1. CoroutineIsOwn' BY <1>3 DEF CoroutineIsOwn, NoState, Frame
  <2>2. ChangeIsAChange' BY <1>1, <1>3 DEF ChangeIsAChange
  <2>3. HeldByPanic' BY <1>3 DEF Inductive, Control, HeldByPanic
  <2>4. MailboxIsLocked' BY <1>3 DEF Inductive, Control, MailboxIsLocked, core1Vars
  <2>5. ChangeIsAnArrow' BY <1>1, <1>2, <1>3, <1>4 DEF ChangeIsAnArrow
  <2> QED BY <2>1, <2>2, <2>3, <2>4, <2>5 DEF Control
<1> QED BY <1>5, <1>6, <1>7 DEF Inductive

LEMMA SetBoilerFields ==
  ASSUME NEW a \in ActuatorSet, NEW on \in BOOLEAN
  PROVE  /\ SetBoiler(on, a) \in ActuatorSet
         /\ SetBoiler(on, a).boilerOn = on
         /\ SetBoiler(on, a).heater <=> on /\ a.heater
         /\ SetBoiler(on, a).pumpOn = a.pumpOn
         /\ SetBoiler(on, a).pump = a.pump
         /\ SetBoiler(on, a).solenoid = a.solenoid
         /\ SetBoiler(on, a).pressure = a.pressure
         /\ SetBoiler(on, a).flow = a.flow
         /\ SetBoiler(on, a).temp = a.temp
BY DEF SetBoiler, ActuatorSet

(* The entry hooks, on outputs that are dry: only the regulators of the      *)
(* state entered are on, and their set points are its own.                   *)
LEMMA OnEnterFields ==
  ASSUME NEW s \in States, NEW a \in ActuatorSet,
         ~a.pumpOn, ~a.pump, ~a.solenoid, a.heater => a.boilerOn,
         a.boilerOn => a.temp = "brew"
  PROVE  LET b == OnEnter(s, a)
         IN  /\ b \in ActuatorSet /\ ~b.pump
             /\ b.pumpOn <=> s \in {"Brew", "Manual"}
             /\ b.solenoid => b.pumpOn
             /\ b.heater => b.boilerOn
             /\ b.boilerOn => b.temp = "brew" /\ s \notin {"Off", "Steam", "Descale"}
             /\ s = "Brew" => b.flow = "unlimited"
             /\ s = "Manual" => b.pressure = "manual" /\ b.flow = "manual"
<1> DEFINE off == SetPumpEnabled(FALSE, a)
           on == SetPumpEnabled(TRUE, a)
<1>1. CASE s = "Off"
  <2>1. OnEnter(s, a) = [SetBoiler(FALSE, off) EXCEPT !.solenoid = FALSE]
    BY <1>1 DEF OnEnter
  <2> HIDE DEF off
  <2>2. off \in ActuatorSet /\ ~off.pumpOn /\ ~off.pump BY SetPumpFields DEF off
  <2>3. /\ SetBoiler(FALSE, off) \in ActuatorSet /\ ~SetBoiler(FALSE, off).boilerOn
        /\ ~SetBoiler(FALSE, off).heater /\ ~SetBoiler(FALSE, off).pump
        /\ ~SetBoiler(FALSE, off).pumpOn
    BY <2>2, SetBoilerFields
  <2> QED BY <1>1, <2>1, <2>3 DEF ActuatorSet
<1>2. CASE s = "Standby"
  <2>1. OnEnter(s, a) = [SetBoiler(TRUE, a) EXCEPT !.flow = "unlimited", !.temp = "brew"]
    BY <1>2 DEF OnEnter
  <2>2. /\ SetBoiler(TRUE, a) \in ActuatorSet /\ ~SetBoiler(TRUE, a).pump
        /\ ~SetBoiler(TRUE, a).pumpOn /\ ~SetBoiler(TRUE, a).solenoid
        /\ SetBoiler(TRUE, a).boilerOn
    BY SetBoilerFields
  <2> QED BY <1>2, <2>1, <2>2 DEF ActuatorSet, Flows, Temps
<1>3. CASE s = "Brew"
  <2>1. OnEnter(s, a) = [on EXCEPT !.solenoid = TRUE, !.flow = "unlimited"]
    BY <1>3 DEF OnEnter
  <2> HIDE DEF on
  <2>2. /\ on \in ActuatorSet /\ on.pumpOn /\ ~on.pump
        /\ on.boilerOn = a.boilerOn /\ on.heater = a.heater /\ on.temp = a.temp
    BY SetPumpFields DEF on
  <2> QED BY <1>3, <2>1, <2>2 DEF ActuatorSet, Flows
<1>4. CASE s = "Steam"
  <2>1. OnEnter(s, a) = [SetBoiler(FALSE, off) EXCEPT !.temp = "steam"]
    BY <1>4 DEF OnEnter
  <2> HIDE DEF off
  <2>2. off \in ActuatorSet /\ ~off.pumpOn /\ ~off.pump /\ ~off.solenoid
    BY SetPumpFields DEF off
  <2>3. /\ SetBoiler(FALSE, off) \in ActuatorSet /\ ~SetBoiler(FALSE, off).boilerOn
        /\ ~SetBoiler(FALSE, off).heater /\ ~SetBoiler(FALSE, off).pump
        /\ ~SetBoiler(FALSE, off).pumpOn /\ ~SetBoiler(FALSE, off).solenoid
    BY <2>2, SetBoilerFields
  <2> QED BY <1>4, <2>1, <2>3 DEF ActuatorSet, Temps
<1>5. CASE s = "Backflush"
  BY <1>5 DEF OnEnter
<1>6. CASE s = "Descale"
  <2>1. OnEnter(s, a) = [SetBoiler(FALSE, a) EXCEPT !.solenoid = FALSE]
    BY <1>6 DEF OnEnter
  <2>2. /\ SetBoiler(FALSE, a) \in ActuatorSet /\ ~SetBoiler(FALSE, a).boilerOn
        /\ ~SetBoiler(FALSE, a).heater /\ ~SetBoiler(FALSE, a).pump
        /\ ~SetBoiler(FALSE, a).pumpOn
    BY SetBoilerFields
  <2> QED BY <1>6, <2>1, <2>2 DEF ActuatorSet
<1>7. CASE s = "Manual"
  <2>1. OnEnter(s, a) = [on EXCEPT !.solenoid = TRUE, !.flow = "manual", !.pressure = "manual"]
    BY <1>7 DEF OnEnter
  <2> HIDE DEF on
  <2>2. /\ on \in ActuatorSet /\ on.pumpOn /\ ~on.pump
        /\ on.boilerOn = a.boilerOn /\ on.heater = a.heater /\ on.temp = a.temp
    BY SetPumpFields DEF on
  <2> QED BY <1>7, <2>1, <2>2 DEF ActuatorSet, Flows, Pressures
<1> QED BY <1>1, <1>2, <1>3, <1>4, <1>5, <1>6, <1>7 DEF States

LEMMA EnterKeeps ==
  ASSUME Inductive, EnterState
  PROVE  Inductive'
<1>1. /\ cur = NoState /\ target \in States /\ target # NoState /\ from \in States
      /\ from \notin {NoState, target}
      /\ act \in ActuatorSet /\ ~act.pumpOn /\ ~act.pump /\ ~act.solenoid
      /\ awaiter = "none"
  BY DEF Inductive, TypeOK, Control, ChangeIsAChange, Outputs, SwitchingIsDry, EnterState
<1>2. act.heater => act.boilerOn
  BY <1>1 DEF Inductive, Outputs, NoOrphanHeat, NoState
<1>3. act.boilerOn => act.temp = "brew"
  BY DEF Inductive, Outputs, NoOrphanHeat
<1>4. /\ act' \in ActuatorSet /\ ~act'.pump
      /\ act'.pumpOn <=> target \in {"Brew", "Manual"}
      /\ act'.solenoid => act'.pumpOn
      /\ act'.heater => act'.boilerOn
      /\ act'.boilerOn => act'.temp = "brew" /\ target \notin {"Off", "Steam", "Descale"}
      /\ target = "Brew" => act'.flow = "unlimited"
      /\ target = "Manual" => act'.pressure = "manual" /\ act'.flow = "manual"
  BY <1>1, <1>2, <1>3, OnEnterFields DEF EnterState
<1>5. /\ co' = Frame("start", 0, 0) /\ cur' = target /\ pc = "enter" /\ pc' = "announce"
      /\ UNCHANGED <<awaiter, nextState, mutex, qlen, panic, target, from,
                     lastPressed, core1Vars, inputVars, halted>>
  BY DEF EnterState, FreshFrame
<1>6. TypeOK'
  <2>1. co' \in [at : AllPoints, n : 0..MaxCount, k : {0, 1}]
    BY <1>5, PointsOfStates DEF Frame, MaxCount, CyclesAssumption
  <2> QED BY <1>1, <1>4, <1>5, <2>1 DEF Inductive, TypeOK, core1Vars, inputVars
<1>7. Outputs'
  <2>1. cur' # NoState /\ co'.at = "start" BY <1>1, <1>5 DEF Frame
  <2>2. OffIsInert' BY <1>4, <1>5 DEF OffIsInert, Quiet
  <2>3. SwitchingIsDry' BY <2>1 DEF SwitchingIsDry
  <2>4. NoOrphanPump' BY <1>4, <1>5 DEF NoOrphanPump
  <2>5. NoOrphanValve' BY <1>4, <1>5 DEF NoOrphanValve
  <2>6. NoOrphanHeat' BY <1>4, <1>5 DEF NoOrphanHeat
  <2>7. SetPoints' BY <1>4, <1>5, <2>1 DEF SetPoints
  <2> QED BY <2>2, <2>3, <2>4, <2>5, <2>6, <2>7 DEF Outputs
<1>8. Control'
  <2>1. CoroutineIsOwn'
    <3>1. "start" \in Points(target) BY <1>1, PointsOfStates DEF States
    <3> QED BY <1>1, <1>5, <3>1 DEF CoroutineIsOwn, Frame
  <2>2. ChangeIsAChange' BY <1>1, <1>5 DEF ChangeIsAChange
  <2>3. HeldByPanic' BY <1>5 DEF Inductive, Control, HeldByPanic
  <2>4. MailboxIsLocked' BY <1>5 DEF Inductive, Control, MailboxIsLocked, core1Vars
  <2>5. ChangeIsAnArrow' BY <1>5 DEF ChangeIsAnArrow
  <2> QED BY <2>1, <2>2, <2>3, <2>4, <2>5 DEF Control
<1> QED BY <1>6, <1>7, <1>8 DEF Inductive

-----------------------------------------------------------------------------
(* What a handler asks for is one of the states clients may ask for. *)
LEMMA DecisionIsRequestable ==
  ASSUME NEW msg, NEW s, Decision(msg, s) # NoState
  PROVE  Decision(msg, s) \in Requestable
BY DEF Decision, Requestable

LEMMA HandlersKeep ==
  ASSUME Inductive, Decide \/ LockMailbox \/ WriteMailbox
  PROVE  Inductive'
<1>1. UNCHANGED <<cur, act, co, awaiter, qlen, panic, halted, lastPressed, sensorDue, inputVars,
                  pc, target, from>>
  BY DEF Decide, LockMailbox, WriteMailbox, routineVars, switchVars
<1>2. Requestable \subseteq States BY DEF Requestable, States
<1>3. /\ nextState' \in Requestable \cup {NoState} /\ mutex' \in {"free", "core0", "core1"}
      /\ handler' \in [pc : {"idle", "decided", "locked", "status"}, state : States \cup {NoState}]
      /\ handler'.pc \in {"decided", "locked"} => handler'.state \in Requestable
      /\ mutex' = "core1" <=> handler'.pc = "locked"
      /\ mutex' = "core0" => mutex = "core0" /\ nextState' = nextState
  <2>1. CASE Decide
    <3>1. PICK msg \in Commands :
             /\ Decision(msg, cur) # NoState
             /\ handler' = [pc |-> "decided", state |-> Decision(msg, cur)]
      BY <2>1 DEF Decide
    <3>2. UNCHANGED <<mutex, nextState>> /\ handler.pc = "idle" BY <2>1 DEF Decide, routineVars
    <3> QED BY <1>2, <3>1, <3>2, DecisionIsRequestable DEF Inductive, TypeOK, Control, MailboxIsLocked
  <2>2. CASE LockMailbox
    BY <1>2, <2>2 DEF LockMailbox, routineVars, Inductive, TypeOK, Control, MailboxIsLocked
  <2>3. CASE WriteMailbox
    BY <1>2, <2>3 DEF WriteMailbox, Inductive, TypeOK, Control, MailboxIsLocked
  <2> QED BY <2>1, <2>2, <2>3
<1>4. TypeOK' BY <1>1, <1>2, <1>3 DEF Inductive, TypeOK, inputVars
<1>5. HeldByPanic' BY <1>1 DEF Inductive, Control, HeldByPanic
<1>6. MailboxIsLocked' BY <1>1, <1>3 DEF Inductive, Control, MailboxIsLocked
<1>7. ChangeIsAChange' BY <1>1 DEF Inductive, Control, ChangeIsAChange
<1>8. ChangeIsAnArrow' BY <1>1 DEF Inductive, Control, ChangeIsAnArrow
<1> QED BY <1>1, <1>4, <1>5, <1>6, <1>7, <1>8, QuietStep

(* The handlers that only post, and the network loop. *)
LEMMA PostersKeep ==
  ASSUME Inductive, ReadStatus \/ ReplyStatus \/ UpdateSettings \/ NetworkLoop
  PROVE  Inductive'
<1>1. UNCHANGED <<cur, act, co, awaiter, nextState, mutex, halted, lastPressed, inputVars,
                  pc, target, from>>
  BY DEF ReadStatus, ReplyStatus, UpdateSettings, NetworkLoop, PopMessage, CheckBacklog, SendSensors,
         routineVars, switchVars, core1Vars
<1>2. /\ handler' \in [pc : {"idle", "decided", "locked", "status"}, state : States \cup {NoState}]
      /\ handler.pc \in {"idle", "status"} /\ handler'.pc \in {"idle", "status"}
      /\ sensorDue' \in BOOLEAN
  <2>1. handler \in [pc : {"idle", "decided", "locked", "status"}, state : States \cup {NoState}]
        /\ sensorDue \in BOOLEAN /\ cur \in States \cup {NoState}
    BY DEF Inductive, TypeOK
  <2>2. CASE ReadStatus BY <2>1, <2>2 DEF ReadStatus
  <2>3. CASE ReplyStatus BY <2>1, <2>3 DEF ReplyStatus
  <2>4. CASE UpdateSettings BY <2>1, <2>4 DEF UpdateSettings, core1Vars
  <2>5. CASE NetworkLoop
    BY <2>1, <2>5 DEF NetworkLoop, PopMessage, CheckBacklog, SendSensors, core1Vars
  <2> QED BY <2>2, <2>3, <2>4, <2>5
<1>3. qlen' \in 0..QueueCapacity /\ panic' \subseteq Cores /\ panic \subseteq panic'
  <2>1. CASE \E n \in {1, 2, 3} : Post(n, "core1")
    BY <2>1, PostType DEF Inductive, TypeOK, Cores
  <2>2. CASE UNCHANGED panic /\ qlen' \in {qlen, qlen - 1} /\ (qlen' = qlen \/ qlen > 0)
    BY <2>2, QueueAssumption DEF Inductive, TypeOK
  <2> QED BY <2>1, <2>2 DEF ReadStatus, ReplyStatus, UpdateSettings, NetworkLoop, PopMessage,
                            CheckBacklog, SendSensors, routineVars
<1>4. TypeOK' BY <1>1, <1>2, <1>3 DEF Inductive, TypeOK, inputVars
<1>5. HeldByPanic' BY <1>1, <1>3 DEF Inductive, Control, HeldByPanic
<1>6. MailboxIsLocked' BY <1>1, <1>2 DEF Inductive, Control, MailboxIsLocked
<1>7. ChangeIsAChange' BY <1>1 DEF Inductive, Control, ChangeIsAChange
<1>8. ChangeIsAnArrow' BY <1>1 DEF Inductive, Control, ChangeIsAnArrow
<1> QED BY <1>1, <1>4, <1>5, <1>6, <1>7, <1>8, QuietStep

-----------------------------------------------------------------------------
LEMMA SilenceFields ==
  ASSUME NEW a \in ActuatorSet
  PROVE  /\ Silence(a) \in ActuatorSet
         /\ ~Silence(a).heater /\ ~Silence(a).pump /\ ~Silence(a).solenoid
         /\ Silence(a).boilerOn = a.boilerOn /\ Silence(a).pumpOn = a.pumpOn
         /\ Silence(a).pressure = a.pressure /\ Silence(a).flow = a.flow
         /\ Silence(a).temp = a.temp
BY DEF Silence, ActuatorSet

(* panic() on either core: it lowers outputs and touches nothing else. *)
LEMMA PanicKeeps ==
  ASSUME Inductive, NEW c \in Cores, Lockout(c) \/ PanicLoop(c)
  PROVE  Inductive'
<1>1. CASE Lockout(c)
  <2>1. UNCHANGED <<cur, routineVars, mutex, switchVars, lastPressed, core1Vars, inputVars>>
    BY <1>1 DEF Lockout
  <2>2. halted' = Other(c) /\ Other(c) \in Cores /\ Other(halted') = c /\ c \in panic
    BY <1>1, ChooseOther DEF Lockout, Cores
  <2>3. TypeOK'
    BY <2>1, <2>2 DEF Inductive, TypeOK, routineVars, switchVars, core1Vars, inputVars
  <2>4. HeldByPanic' BY <2>1, <2>2 DEF HeldByPanic, routineVars
  <2>5. MailboxIsLocked' /\ ChangeIsAChange' /\ ChangeIsAnArrow'
    BY <2>1 DEF Inductive, Control, MailboxIsLocked, ChangeIsAChange, ChangeIsAnArrow,
                routineVars, switchVars, core1Vars
  <2>6. UNCHANGED <<cur, act, co, awaiter>> BY <2>1 DEF routineVars
  <2> QED BY <2>3, <2>4, <2>5, <2>6, QuietStep
<1>2. CASE PanicLoop(c)
  <2>1. UNCHANGED <<cur, co, awaiter, qlen, panic, nextState, mutex, switchVars,
                    lastPressed, core1Vars, inputVars, halted>>
    BY <1>2 DEF PanicLoop
  <2>2. act \in ActuatorSet BY DEF Inductive, TypeOK
  <2>3. /\ act' \in ActuatorSet /\ ~act'.heater /\ ~act'.pump /\ ~act'.solenoid
        /\ act'.boilerOn = act.boilerOn /\ act'.pumpOn = act.pumpOn
        /\ act'.pressure = act.pressure /\ act'.flow = act.flow /\ act'.temp = act.temp
    BY <1>2, <2>2, SilenceFields DEF PanicLoop
  <2>4. TypeOK'
    BY <2>1, <2>3 DEF Inductive, TypeOK, switchVars, core1Vars, inputVars
  <2>5. Outputs'
    BY <2>1, <2>3 DEF Inductive, Outputs, OffIsInert, SwitchingIsDry, NoOrphanPump, NoOrphanValve,
                      NoOrphanHeat, SetPoints, Quiet
  <2>6. Control'
    BY <2>1, <2>3 DEF Inductive, Control, CoroutineIsOwn, ChangeIsAChange, HeldByPanic,
                      MailboxIsLocked, ChangeIsAnArrow, switchVars, core1Vars
  <2> QED BY <2>4, <2>5, <2>6 DEF Inductive
<1> QED BY <1>1, <1>2

(* Switches and time. *)
LEMMA EnvironmentKeeps ==
  ASSUME Inductive, Environment
  PROVE  Inductive'
<1>1. UNCHANGED <<cur, routineVars, mutex, switchVars, lastPressed, core1Vars, halted>>
  BY DEF Environment, TurnSwitch, StartWindowCloses
<1>2. sw' \in [AllSwitches -> BOOLEAN] /\ prefill' \in BOOLEAN
  <2>1. sw \in [AllSwitches -> BOOLEAN] /\ prefill \in BOOLEAN BY DEF Inductive, TypeOK
  <2>2. CASE TurnSwitch
    <3>1. PICK w \in Switches : sw' = [sw EXCEPT ![w] = ~@] BY <2>2 DEF TurnSwitch
    <3>2. sw' \in [AllSwitches -> BOOLEAN] BY <2>1, <3>1
    <3> QED BY <2>1, <2>2, <3>2 DEF TurnSwitch
  <2>3. CASE StartWindowCloses BY <2>1, <2>3 DEF StartWindowCloses
  <2> QED BY <2>2, <2>3 DEF Environment
<1>3. TypeOK' BY <1>1, <1>2 DEF Inductive, TypeOK, routineVars, switchVars, core1Vars
<1>4. HeldByPanic' /\ MailboxIsLocked' /\ ChangeIsAChange' /\ ChangeIsAnArrow'
  BY <1>1 DEF Inductive, Control, HeldByPanic, MailboxIsLocked, ChangeIsAChange, ChangeIsAnArrow,
              routineVars, switchVars, core1Vars
<1>5. UNCHANGED <<cur, act, co, awaiter>> BY <1>1 DEF routineVars
<1> QED BY <1>3, <1>4, <1>5, QuietStep

LEMMA NothingKeeps ==
  ASSUME Inductive, UNCHANGED vars
  PROVE  Inductive'
<1>1. UNCHANGED <<cur, routineVars, mutex, switchVars, lastPressed, core1Vars, inputVars, halted>>
  BY DEF vars
<1>2. TypeOK' BY <1>1 DEF Inductive, TypeOK, routineVars, switchVars, core1Vars, inputVars
<1>3. HeldByPanic' /\ MailboxIsLocked' /\ ChangeIsAChange' /\ ChangeIsAnArrow'
  BY <1>1 DEF Inductive, Control, HeldByPanic, MailboxIsLocked, ChangeIsAChange, ChangeIsAnArrow,
              routineVars, switchVars, core1Vars
<1>4. UNCHANGED <<cur, act, co, awaiter>> BY <1>1 DEF routineVars
<1> QED BY <1>2, <1>3, <1>4, QuietStep

LEMMA StepKeeps == Inductive /\ [Next]_vars => Inductive'
<1> SUFFICES ASSUME Inductive, [Next]_vars PROVE Inductive'
  OBVIOUS
<1>1. CASE Core0
  BY <1>1, MailboxStepsKeep, SwitchStepsKeep, LeaveKeeps, EnterKeeps, AnnounceKeeps,
     RunCycleKeeps, FaultKeeps DEF Core0, Loop
<1>2. CASE Core1
  BY <1>2, HandlersKeep, PostersKeep DEF Core1, Handlers
<1>3. CASE \E c \in Cores : Lockout(c) \/ PanicLoop(c)
  BY <1>3, PanicKeeps
<1>4. CASE Environment
  BY <1>4, EnvironmentKeeps
<1>5. CASE UNCHANGED vars
  BY <1>5, NothingKeeps
<1> QED BY <1>1, <1>2, <1>3, <1>4, <1>5 DEF Next

-----------------------------------------------------------------------------
(* The inductive invariant: state_machine.hpp, states.hpp and states.cpp     *)
(* between them keep every output, every regulator and the coroutine where   *)
(* the current state wants them, at every step either core can make.         *)
THEOREM Invariance == Spec => []Inductive
BY InitInductive, StepKeeps, PTL DEF Spec

(* Every variable keeps its type; in particular out_message_queue never      *)
(* holds more than its capacity, and the locals of a coroutine their bounds. *)
THEOREM TypeCorrect == Spec => []TypeOK
<1>1. Inductive => TypeOK BY DEF Inductive
<1> QED BY <1>1, Invariance, PTL

(* The machine that is Off has everything switched off, for any programme    *)
(* it was turned off in the middle of.                                       *)
THEOREM OffIsAlwaysInert == Spec => []OffIsInert
<1>1. Inductive => OffIsInert BY DEF Inductive, Outputs
<1> QED BY <1>1, Invariance, PTL

(* Between leave_state and enter_state nothing pumps and no coroutine lives. *)
THEOREM SwitchingIsAlwaysDry == Spec => []SwitchingIsDry
<1>1. Inductive => SwitchingIsDry BY DEF Inductive, Outputs
<1> QED BY <1>1, Invariance, PTL

(* The pump, the valve and the heater are powered only on behalf of a        *)
(* regulator that is on or of the coroutine of the current state.            *)
THEOREM NoOrphanOutputs == Spec => []NoOrphanOutput
<1>1. Inductive => NoOrphanOutput BY DEF Inductive, Outputs, NoOrphanOutput
<1> QED BY <1>1, Invariance, PTL

(* No state pumps to the set points of another. *)
THEOREM SetPointsAreAlwaysFresh == Spec => []SetPointsAreFresh
<1>1. Inductive => SetPointsAreFresh
  BY DEF Inductive, Outputs, SetPoints, SetPointsAreFresh
<1> QED BY <1>1, Invariance, PTL

(* The one static coroutine buffer always holds a frame of the current state,*)
(* and curr_awaiter never points into a frame that is gone.                  *)
THEOREM CoroutineIsAlwaysOwn == Spec => []CoroutineIsOwn
<1>1. Inductive => CoroutineIsOwn BY DEF Inductive, Control
<1> QED BY <1>1, Invariance, PTL

(* change_state always leads from one state to a different one. *)
THEOREM ChangeIsAlwaysAChange == Spec => []ChangeIsAChange
<1>1. Inductive => ChangeIsAChange BY DEF Inductive, Control
<1> QED BY <1>1, Invariance, PTL

-----------------------------------------------------------------------------
(* A coroutine's own request is for Standby, if it makes one. *)
LEMMA CycleSchedulesStandby ==
  ASSUME RunCycle
  PROVE  nextState' \in {nextState, "Standby"}
BY DEF RunCycle, SensorPanic, RoutineWaits, RoutineStep, NoRequest, Schedule, PostThen,
       StandbyStart, StandbyPrefill, StandbySettled, StandbyIdle, StandbyVent, BrewStep,
       SteamStart, SteamReached, SteamPass, BackflushStart, BackflushRise, BackflushRelease,
       BackflushRested, BackflushConfirmed, BackflushCycle, BackflushNextRound,
       DescaleStart, DescaleClean, DescaleSoaked, DescaleRefill, DescaleRinse, CleanFrom, RefillFrom,
       ManualStep, ManualOver

(* Whatever clients and coroutines schedule, main_loop forgets a request     *)
(* only once the machine is in the state it is for, and change_state carries *)
(* out the request that it took.                                             *)
THEOREM RequestsAreCarriedOut == Spec => NoRequestDropped
<1> DEFINE Kept == /\ nextState # NoState /\ nextState' = NoState => cur = nextState
                   /\ mutex = "core0" => nextState' \in {nextState, NoState}
<1>1. ASSUME Inductive, [Next]_vars PROVE Kept \/ UNCHANGED vars
  <2>1. /\ mutex = "core0" => pc \in {"leave", "enter", "announce"} /\ nextState = target
        /\ mutex = "core1" <=> handler.pc = "locked"
        /\ handler.pc = "locked" => handler.state \in Requestable
        /\ pc = "announce" => cur = target
    BY <1>1 DEF Inductive, Control, MailboxIsLocked, ChangeIsAChange
  <2>2. CASE UNCHANGED nextState BY <2>2
  <2>3. CASE TakeScheduled
    BY <2>3 DEF TakeScheduled, AlreadyThere, BeginSwitch
  <2>4. CASE AnnounceState
    BY <2>1, <2>4 DEF AnnounceState, FinishChange
  <2>5. CASE RunCycle
    <3>1. pc = "check" BY <2>5 DEF RunCycle
    <3>2. nextState' \in {nextState, "Standby"} BY <2>5, CycleSchedulesStandby
    <3> QED BY <2>1, <3>1, <3>2 DEF NoState
  <2>6. CASE WriteMailbox
    BY <2>1, <2>6 DEF WriteMailbox, Requestable, NoState
  <2>7. UNCHANGED nextState \/ TakeScheduled \/ AnnounceState \/ RunCycle \/ WriteMailbox
    <3>1. SkipScheduled \/ LeaveState \/ EnterState \/ FollowSwitch \/ FollowPower \/ StayOff \/ Fault
          => UNCHANGED nextState
      BY DEF SkipScheduled, LeaveState, EnterState, FollowSwitch, FollowPower, StayOff, Fault,
             SensorPanic, routineVars
    <3>2. Decide \/ LockMailbox \/ ReadStatus \/ ReplyStatus \/ UpdateSettings \/ NetworkLoop
          => UNCHANGED nextState
      BY DEF Decide, LockMailbox, ReadStatus, ReplyStatus, UpdateSettings, NetworkLoop, PopMessage,
             CheckBacklog, SendSensors, routineVars
    <3>3. ASSUME NEW c \in Cores, Lockout(c) \/ PanicLoop(c) PROVE UNCHANGED nextState
      BY <3>3 DEF Lockout, PanicLoop, routineVars
    <3>4. Environment \/ UNCHANGED vars => UNCHANGED nextState
      BY DEF Environment, TurnSwitch, StartWindowCloses, routineVars, vars
    <3> QED BY <1>1, <3>1, <3>2, <3>3, <3>4 DEF Next, Core0, Loop, Core1, Handlers
  <2> QED BY <2>2, <2>3, <2>4, <2>5, <2>6, <2>7
<1>2. Inductive /\ [Next]_vars => [Kept]_vars
  BY <1>1
<1> QED BY <1>2, Invariance, PTL DEF Spec, NoRequestDropped

-----------------------------------------------------------------------------
(* What a cycle does to a programme: it may ask for Standby, and it ends its *)
(* coroutine only if it does.                                                *)
EndsBySayingSo ==
  /\ nextState' # nextState => nextState' = "Standby" /\ cur \in Programmes
  /\ cur \in Programmes /\ co'.at = "none" =>
       nextState' = "Standby" \/ (co.at = "none" /\ nextState' = nextState)

LEMMA BackflushEnds ==
  ASSUME cur = "Backflush",
         BackflushStart \/ BackflushRise \/ BackflushRelease \/ BackflushRested \/ BackflushConfirmed
  PROVE  EndsBySayingSo
<1>1. ASSUME NEW n, NEW round, NEW posts, BackflushCycle(n, round, posts)
      PROVE  EndsBySayingSo
  BY <1>1 DEF BackflushCycle, PostThen, Await, Frame, NoRequest, EndsBySayingSo
<1>2. ASSUME NEW round, NEW posts, BackflushNextRound(round, posts)
      PROVE  EndsBySayingSo
  <2>1. CASE BackflushCycle(0, 1, posts + 1)  BY <1>1, <2>1
  <2>2. CASE PostThen(posts, act, Destroy /\ Drive(act) /\ Schedule("Standby"))
    BY <2>2 DEF PostThen, Schedule, EndsBySayingSo, Programmes
  <2> QED  BY <1>2, <2>1, <2>2 DEF BackflushNextRound
<1>3. CASE BackflushStart  BY <1>1, <1>3 DEF BackflushStart
<1>4. CASE BackflushRise
  BY <1>4 DEF BackflushRise, Await, Frame, NoRequest, EndsBySayingSo
<1>5. CASE BackflushRelease
  BY <1>5 DEF BackflushRelease, Await, Frame, NoRequest, EndsBySayingSo
<1>6. CASE BackflushRested
  <2>1. CASE PostThen(1, act, Await("bfSwitch", 0, co.k) /\ Drive(act) /\ NoRequest)
    BY <2>1 DEF PostThen, Await, Frame, NoRequest, EndsBySayingSo
  <2> QED  BY <1>1, <1>2, <1>6, <2>1 DEF BackflushRested
<1>7. CASE BackflushConfirmed  BY <1>2, <1>7 DEF BackflushConfirmed
<1> QED  BY <1>3, <1>4, <1>5, <1>6, <1>7

LEMMA DescaleEnds ==
  ASSUME cur = "Descale",
         DescaleStart \/ DescaleClean \/ DescaleSoaked \/ DescaleRefill \/ DescaleRinse
  PROVE  EndsBySayingSo
<1>1. ASSUME NEW n, NEW posts, CleanFrom(n, posts)
      PROVE  EndsBySayingSo
  BY <1>1 DEF CleanFrom, PostThen, Await, Frame, NoRequest, EndsBySayingSo
<1>2. ASSUME NEW n, NEW before, RefillFrom(n, before)
      PROVE  EndsBySayingSo
  BY <1>2 DEF RefillFrom, PostThen, Yield, Frame, NoRequest, EndsBySayingSo
<1>3. CASE DescaleStart  BY <1>1, <1>3 DEF DescaleStart
<1>4. CASE DescaleClean
  <2>1. CASE PostThen(1, act, /\ Await("soak", co.n, 0)
                             /\ Drive([act EXCEPT !.pump = FALSE])
                             /\ NoRequest)
    BY <2>1 DEF PostThen, Await, Frame, NoRequest, EndsBySayingSo
  <2> QED  BY <1>1, <1>4, <2>1 DEF DescaleClean
<1>5. CASE DescaleSoaked  BY <1>1, <1>2, <1>5 DEF DescaleSoaked
<1>6. CASE DescaleRefill
  BY <1>6 DEF DescaleRefill, PostThen, Await, Yield, Frame, NoRequest, EndsBySayingSo
<1>7. CASE DescaleRinse
  <2>1. CASE Destroy /\ Schedule("Standby")
    BY <2>1 DEF Schedule, EndsBySayingSo, Programmes
  <2>2. CASE Await("rinse", co.n, co.k) /\ NoRequest
    BY <2>2 DEF Await, Frame, NoRequest, EndsBySayingSo
  <2> QED  BY <1>2, <1>7, <2>1, <2>2 DEF DescaleRinse
<1> QED  BY <1>3, <1>4, <1>5, <1>6, <1>7

LEMMA CycleEnds ==
  ASSUME Inductive, RunCycle
  PROVE  EndsBySayingSo
<1>1. cur \in States /\ co.at \in Points(cur)
  <2>1. cur # NoState
    BY DEF Inductive, Control, ChangeIsAChange, RunCycle
  <2> QED  BY <2>1 DEF Inductive, TypeOK, Control, CoroutineIsOwn
<1>2. CASE UNCHANGED <<co, nextState>>
  BY <1>2 DEF EndsBySayingSo
<1>3. CASE cur \notin Programmes /\ NoRequest
  BY <1>3 DEF EndsBySayingSo, NoRequest
<1>4. CASE SensorPanic \/ RoutineWaits
  BY <1>2, <1>4 DEF SensorPanic, RoutineWaits, NoRequest
<1>5. CASE StandbyStart \/ StandbyPrefill \/ StandbySettled \/ StandbyIdle \/ StandbyVent
  <2>1. cur = "Standby"
    BY <1>1, <1>5, PointsOfStates DEF States,
       StandbyStart, StandbyPrefill, StandbySettled, StandbyIdle, StandbyVent
  <2> QED
    BY <1>3, <1>5, <2>1 DEF Programmes,
       StandbyStart, StandbyPrefill, StandbySettled, StandbyIdle, StandbyVent
<1>6. CASE BrewStep \/ SteamStart \/ SteamReached \/ SteamPass
  <2>1. cur \in {"Brew", "Steam"}
    BY <1>1, <1>6, PointsOfStates DEF States, BrewStep, SteamStart, SteamReached, SteamPass
  <2> QED
    BY <1>3, <1>6, <2>1 DEF Programmes, BrewStep, SteamStart, SteamReached, SteamPass
<1>7. CASE BackflushStart \/ BackflushRise \/ BackflushRelease \/ BackflushRested \/ BackflushConfirmed
  <2>1. cur = "Backflush"
    BY <1>1, <1>7, PointsOfStates DEF States,
       BackflushStart, BackflushRise, BackflushRelease, BackflushRested, BackflushConfirmed
  <2> QED  BY <1>7, <2>1, BackflushEnds
<1>8. CASE DescaleStart \/ DescaleClean \/ DescaleSoaked \/ DescaleRefill \/ DescaleRinse
  <2>1. cur = "Descale"
    BY <1>1, <1>8, PointsOfStates DEF States,
       DescaleStart, DescaleClean, DescaleSoaked, DescaleRefill, DescaleRinse
  <2> QED  BY <1>8, <2>1, DescaleEnds
<1>9. CASE ManualStep
  <2>1. cur = "Manual"
    BY <1>1, <1>9, PointsOfStates DEF States, ManualStep
  <2> QED
    BY <1>9, <2>1 DEF ManualStep, ManualOver, Yield, Frame, Schedule, NoRequest, Programmes,
       EndsBySayingSo
<1> QED  BY <1>4, <1>5, <1>6, <1>7, <1>8, <1>9 DEF RunCycle, RoutineStep

(* The strengthening holds at first and at every step: core 0's, ...         *)
LEMMA AskedForAtFirst == Init => ProgrammesAreAskedFor
BY DEF Init, FreshFrame, Frame, NoState, Programmes, ProgrammesAreAskedFor

LEMMA AskedForByCore0 ==
  ASSUME Inductive, ProgrammesAreAskedFor, Loop \/ Fault
  PROVE  ProgrammesAreAskedFor'
<1> USE DEF ProgrammesAreAskedFor, Programmes
<1>0. /\ mutex = "core0" => pc \in {"leave", "enter", "announce"} /\ nextState = target
      /\ pc = "enter" \/ pc = "announce" => target # NoState
      /\ cur = NoState <=> pc = "enter"
  BY DEF Inductive, Control, MailboxIsLocked, ChangeIsAChange
<1>1. CASE Fault \/ SkipScheduled \/ StayOff
  BY <1>1 DEF Fault, SensorPanic, SkipScheduled, StayOff, routineVars, switchVars, core1Vars
<1>2. CASE TakeScheduled
  BY <1>2 DEF TakeScheduled, AlreadyThere, BeginSwitch, switchVars, core1Vars
<1>3. CASE LeaveState
  BY <1>3 DEF LeaveState, Destroy, NoState, core1Vars
<1>4. CASE EnterState
  BY <1>0, <1>4 DEF EnterState, FreshFrame, Frame, NoState, core1Vars
<1>5. CASE AnnounceState
  BY <1>0, <1>5 DEF AnnounceState, FinishChange, NoState, switchVars, core1Vars
<1>6. CASE FollowSwitch \/ FollowPower
  <2>1. target' \notin Programmes
    BY <1>6 DEF FollowSwitch, FollowPower, BeginSwitch, SwitchTarget, NoState
  <2> QED
    BY <1>6, <2>1 DEF FollowSwitch, FollowPower, BeginSwitch, routineVars, core1Vars
<1>7. CASE RunCycle
  <2>1. EndsBySayingSo /\ pc' = "top" /\ UNCHANGED <<cur, mutex, target, core1Vars>>
    BY <1>7, CycleEnds DEF RunCycle
  <2> QED  BY <2>1 DEF EndsBySayingSo, NoState, core1Vars
<1> QED  BY <1>1, <1>2, <1>3, <1>4, <1>5, <1>6, <1>7 DEF Loop

(* ... a handler's, ...                                                      *)
LEMMA AskedForByHandlers ==
  ASSUME Inductive, ProgrammesAreAskedFor, Handlers
  PROVE  ProgrammesAreAskedFor'
<1> USE DEF ProgrammesAreAskedFor, Programmes
<1>0. /\ mutex = "core1" <=> handler.pc = "locked"
      /\ handler.pc \in {"decided", "locked"} => handler.state \in Requestable
      /\ handler \in [pc : {"idle", "decided", "locked", "status"}, state : States \cup {NoState}]
  BY DEF Inductive, TypeOK, Control, MailboxIsLocked
<1>1. CASE Decide
  <2>1. PICK msg \in Commands :
           /\ Decision(msg, cur) # NoState
           /\ handler' = [pc |-> "decided", state |-> Decision(msg, cur)]
    BY <1>1 DEF Decide
  <2>2. Decision(msg, cur) \in Programmes => cur = "Standby"
    BY DEF Decision, NoState
  <2>3. /\ ClientsWait => nextState = NoState
        /\ UNCHANGED <<cur, co, nextState, mutex, pc, target>>
    BY <1>1 DEF Decide, routineVars, switchVars
  <2>4. handler'.state = Decision(msg, cur)  BY <2>1
  <2> QED  BY <2>2, <2>3, <2>4
<1>2. CASE LockMailbox
  BY <1>0, <1>2 DEF LockMailbox, routineVars, switchVars
<1>3. CASE WriteMailbox
  <2>1. /\ nextState' = handler.state /\ handler.pc = "locked" /\ handler'.pc = "idle"
        /\ mutex = "core1" /\ UNCHANGED <<cur, co, pc, target>>
    BY <1>0, <1>3 DEF WriteMailbox, switchVars
  <2>2. handler.state \in {"Off", "Standby", "Backflush", "Descale", "Manual"}
    BY <1>0, <2>1 DEF Requestable
  <2> QED  BY <2>1, <2>2 DEF NoState
<1>4. CASE ReadStatus \/ ReplyStatus \/ UpdateSettings
  BY <1>0, <1>4 DEF ReadStatus, ReplyStatus, UpdateSettings, routineVars, switchVars, core1Vars
<1> QED  BY <1>1, <1>2, <1>3, <1>4 DEF Handlers

(* ... and any other.                                                        *)
LEMMA AskedForStep ==
  ASSUME Inductive, ProgrammesAreAskedFor, [Next]_vars
  PROVE  ProgrammesAreAskedFor'
<1>1. CASE UNCHANGED <<cur, co, nextState, mutex, pc, target, handler>>
  BY <1>1 DEF ProgrammesAreAskedFor
<1>2. NetworkLoop => UNCHANGED <<cur, co, nextState, mutex, pc, target, handler>>
  BY DEF NetworkLoop, PopMessage, CheckBacklog, SendSensors, routineVars, switchVars, core1Vars
<1>3. (\E c \in Cores : Lockout(c) \/ PanicLoop(c))
        => UNCHANGED <<cur, co, nextState, mutex, pc, target, handler>>
  BY DEF Lockout, PanicLoop, routineVars, switchVars, core1Vars
<1>4. Environment \/ UNCHANGED vars => UNCHANGED <<cur, co, nextState, mutex, pc, target, handler>>
  BY DEF Environment, TurnSwitch, StartWindowCloses, vars, routineVars, switchVars, core1Vars
<1> QED
  BY <1>1, <1>2, <1>3, <1>4, AskedForByCore0, AskedForByHandlers DEF Next, Core0, Core1

(* A backflush, a descale or manual control that has run to its end always   *)
(* has a change of state scheduled, if clients ask for nothing while another *)
(* request waits: no order of the two cores' steps leaves the machine, in    *)
(* manual control with the pump on, in a state that nothing will end.        *)
THEOREM EndedProgrammesAlwaysLeave == Spec => []EndedProgrammeLeaves
<1>1. ProgrammesAreAskedFor => EndedProgrammeLeaves
  BY DEF ProgrammesAreAskedFor, EndedProgrammeLeaves, Programmes
<1>2. Inductive /\ ProgrammesAreAskedFor /\ [Next]_vars => ProgrammesAreAskedFor'
  BY AskedForStep
<1> QED  BY <1>1, <1>2, AskedForAtFirst, Invariance, PTL DEF Spec

-----------------------------------------------------------------------------
(* What can still happen once a core is held: panic's loop, and the world. *)
LEMMA HeldSteps ==
  ASSUME Inductive, [Next]_vars, halted # "none"
  PROVE  /\ UNCHANGED <<cur, from, halted>>
         /\ \A o \in {"heater", "pump", "solenoid"} : act'[o] => act[o]
<1>1. ~Runs("core0") /\ ~Runs("core1")
  BY ChooseOther DEF Inductive, TypeOK, Control, HeldByPanic, Runs, Cores
<1>2. CASE \E c \in Cores : PanicLoop(c)
  <2>1. act \in ActuatorSet BY DEF Inductive, TypeOK
  <2> QED BY <1>2, <2>1, SilenceFields DEF PanicLoop, switchVars
<1>3. CASE Environment
  BY <1>3 DEF Environment, TurnSwitch, StartWindowCloses, routineVars, switchVars
<1>4. CASE UNCHANGED vars
  BY <1>4 DEF vars, routineVars, switchVars
<1> QED BY <1>1, <1>2, <1>3, <1>4 DEF Next, Core0, Core1, Lockout

(* After multicore_lockout the machine stays in its state, and panic() only  *)
(* ever switches outputs off, whatever the held core was in the middle of.   *)
THEOREM PanicIsAlwaysFinal == Spec => PanicIsFinal
<1>1. Inductive /\ [Next]_vars =>
        [halted # "none" => /\ UNCHANGED <<cur, halted>>
                            /\ \A o \in {"heater", "pump", "solenoid"} : act'[o] => act[o]]_vars
  BY HeldSteps
<1> QED BY <1>1, Invariance, PTL DEF Spec, PanicIsFinal

-----------------------------------------------------------------------------
(* The outputs under power are among those the mode may use. *)
LiveAsAllowed == LiveOutputs \subseteq M!Allowed(ModeNow) /\ ModeNow \in M!Modes

LEMMA LiveIsAllowed == Inductive => LiveAsAllowed
<1> SUFFICES ASSUME Inductive PROVE LiveAsAllowed
  OBVIOUS
<1> USE DEF LiveAsAllowed
<1>1. cur \in States \cup {NoState} /\ from \in States \cup {NoState} BY DEF Inductive, TypeOK
<1>2. CASE cur = NoState
  <2>1. ModeNow = from /\ from \in States /\ pc = "enter"
    BY <1>1, <1>2 DEF ModeNow, Inductive, Control, ChangeIsAChange
  <2>2. ~act.pump /\ ~act.solenoid /\ (act.heater => act.boilerOn)
    BY <1>2 DEF Inductive, Outputs, SwitchingIsDry, NoOrphanHeat, NoState
  <2>3. act.boilerOn => from \notin {"Off", "Steam", "Descale"}
    BY <2>1 DEF Inductive, Control, ChangeIsAnArrow
  <2>4. LiveOutputs \subseteq {"heater"} /\ ("heater" \in LiveOutputs => act.heater)
    BY <2>2 DEF LiveOutputs
  <2> QED BY <2>1, <2>2, <2>3, <2>4 DEF M!Allowed, M!Modes, States
<1>3. CASE cur # NoState
  <2>1. ModeNow = cur /\ cur \in States BY <1>1, <1>3 DEF ModeNow
  <2>2. cur = "Off" => LiveOutputs = {}
    BY DEF Inductive, Outputs, OffIsInert, Quiet, LiveOutputs
  <2>3. cur = "Descale" => ~act.heater
    BY DEF Inductive, Outputs, NoOrphanHeat
  <2>4. cur = "Steam" => ~act.solenoid
    BY DEF Inductive, Outputs, NoOrphanPump, NoOrphanValve
  <2>5. LiveOutputs \subseteq {"pump", "heater", "valve"}
        /\ ("heater" \in LiveOutputs => act.heater) /\ ("valve" \in LiveOutputs => act.solenoid)
    BY DEF LiveOutputs
  <2> QED BY <2>1, <2>2, <2>3, <2>4, <2>5 DEF M!Allowed, M!Modes, States
<1> QED BY <1>2, <1>3

(* Only enter_state changes the mode. *)
LEMMA ModeStays ==
  ASSUME Inductive, [Next]_vars, ~EnterState
  PROVE  ModeNow' = ModeNow
<1>1. CASE LeaveState
  <2>1. cur # NoState BY <1>1 DEF Inductive, Control, ChangeIsAChange, LeaveState
  <2> QED BY <1>1, <2>1 DEF LeaveState, ModeNow
<1>2. CASE AnnounceState
  <2>1. cur # NoState BY <1>2 DEF Inductive, Control, ChangeIsAChange, AnnounceState
  <2> QED BY <1>2, <2>1 DEF AnnounceState, ModeNow
<1>3. CASE SkipScheduled \/ TakeScheduled \/ FollowSwitch \/ FollowPower \/ StayOff \/ RunCycle \/ Fault
  BY <1>3 DEF ModeNow, SkipScheduled, TakeScheduled, FollowSwitch, FollowPower, StayOff, RunCycle,
              Fault, BeginSwitch, switchVars
<1>4. CASE Core1
  BY <1>4 DEF ModeNow, Core1, Handlers, NetworkLoop, Decide, LockMailbox, WriteMailbox, ReadStatus,
              ReplyStatus, UpdateSettings, PopMessage, CheckBacklog, SendSensors, switchVars
<1>5. CASE \E c \in Cores : Lockout(c) \/ PanicLoop(c)
  BY <1>5 DEF ModeNow, Lockout, PanicLoop, switchVars
<1>6. CASE Environment \/ UNCHANGED vars
  BY <1>6 DEF ModeNow, Environment, TurnSwitch, StartWindowCloses, switchVars, vars
<1> QED BY <1>1, <1>2, <1>3, <1>4, <1>5, <1>6 DEF Next, Core0, Loop

(* The failure of the abstract machine is the lockout. *)
LEMMA OnlyLockoutHolds ==
  ASSUME Inductive, [Next]_vars, halted = "none", halted' # "none"
  PROVE  \E c \in Cores : Lockout(c)
<1>1. Core0 => UNCHANGED halted
  BY DEF Core0, Loop, SkipScheduled, TakeScheduled, LeaveState, EnterState, AnnounceState,
         FollowSwitch, FollowPower, StayOff, RunCycle, Fault
<1>2. Core1 => UNCHANGED halted
  BY DEF Core1, Handlers, NetworkLoop, Decide, LockMailbox, WriteMailbox, ReadStatus,
         ReplyStatus, UpdateSettings, PopMessage, CheckBacklog, SendSensors
<1>3. Environment \/ UNCHANGED vars \/ (\E c \in Cores : PanicLoop(c)) => UNCHANGED halted
  BY DEF Environment, TurnSwitch, StartWindowCloses, vars, PanicLoop
<1> QED BY <1>1, <1>2, <1>3 DEF Next

(* Every step of the machine is a step of the modes, or none. *)
LEMMA StepImplements ==
  ASSUME Inductive, LiveAsAllowed', [Next]_vars
  PROVE  [M!ModesNext]_(M!modesVars)
<1>1. LiveOutputs' \subseteq M!Allowed(ModeNow)' /\ ModeNow' \in M!Modes
  BY DEF LiveAsAllowed
<1>2. CASE halted # "none"
  <2>1. UNCHANGED <<cur, from, halted>>
        /\ \A o \in {"heater", "pump", "solenoid"} : act'[o] => act[o]
    BY <1>2, HeldSteps
  <2>2. LiveOutputs' \subseteq LiveOutputs BY <2>1 DEF LiveOutputs
  <2> QED BY <1>2, <2>1, <2>2 DEF M!ModesNext, M!ShutDown, ModeNow
<1>3. CASE halted = "none" /\ halted' # "none"
  <2>1. UNCHANGED <<cur, from, act>>
    BY <1>3, OnlyLockoutHolds DEF Lockout, routineVars, switchVars
  <2> QED BY <1>3, <2>1 DEF M!ModesNext, M!Fail, ModeNow, LiveOutputs
<1>4. CASE halted = "none" /\ halted' = "none" /\ ~EnterState
  <2>1. ModeNow' = ModeNow BY <1>4, ModeStays
  <2>2. LiveOutputs' \in SUBSET M!Allowed(ModeNow) BY <1>1, <2>1 DEF M!Allowed
  <2> QED BY <1>4, <2>1, <2>2 DEF M!ModesNext, M!Work
<1>5. CASE halted = "none" /\ halted' = "none" /\ EnterState
  <2>1. /\ cur = NoState /\ cur' = target /\ target \in States \ {NoState}
        /\ target \in {"Brew", "Steam"} => from = "Standby"
    BY <1>5 DEF EnterState, Inductive, TypeOK, Control, ChangeIsAChange, ChangeIsAnArrow
  <2>2. ModeNow = from /\ ModeNow' = target BY <2>1 DEF ModeNow
  <2>3. M!Arrow(ModeNow, ModeNow')
    BY <2>1, <2>2 DEF M!Arrow, M!Services, States
  <2> QED BY <1>1, <1>5, <2>3 DEF M!ModesNext, M!Change
<1> QED BY <1>2, <1>3, <1>4, <1>5

(* The firmware implements the modes it promises: whichever core acts, the   *)
(* user sees one mode at a time, changes along the arrows, and no output     *)
(* under power that the mode does not use.                                   *)
THEOREM Refinement == Spec => ImplementsModes
<1>1. Init => M!ModesInit
  <2> SUFFICES ASSUME Init PROVE M!ModesInit
    OBVIOUS
  <2>1. cur = "Off" /\ halted = "none" /\ Inductive BY InitInductive DEF Init
  <2>2. LiveOutputs = {}
    BY <2>1 DEF Inductive, Outputs, OffIsInert, Quiet, LiveOutputs
  <2> QED BY <2>1, <2>2 DEF M!ModesInit, ModeNow, NoState
<1>2. Inductive /\ LiveAsAllowed' /\ [Next]_vars => [M!ModesNext]_(M!modesVars)
  BY StepImplements
<1> QED BY <1>1, <1>2, LiveIsAllowed, Invariance, PTL DEF Spec, ImplementsModes, M!ModesSpec
=============================================================================
