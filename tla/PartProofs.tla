----------------------------- MODULE PartProofs -----------------------------
(***************************************************************************)
(* The small parts that share nothing: the scale in a shot, the start of   *)
(* the outgoing queue, a debounced switch, the brew log, the thermal       *)
(* runaway check, the clock, and a dimmer with its click counter.  Each    *)
(* has its own specification and its own inductive invariant.              *)
(***************************************************************************)
EXTENDS Psm, Scale, QueueStart, Debounce, BrewLog, ThermalRunaway, Calendar,
        FiniteSetTheorems, WellFoundedInduction, TLAPS

-----------------------------------------------------------------------------
(* The scale.  In a shot that found the scale at every turn, offsets are     *)
(* fresh or are being taken, and a tare that is done has taken them.         *)
InShot == turn # "idle"

TareUnderWay ==
  /\ InShot /\ tareDone => zeroed \/ cameOff
  /\ InShot /\ ~cameOff => connected
  /\ InShot /\ ~cameOff /\ tareStarted => zeroed \/ (ownTare /\ tareStep >= 0)

ScaleInductive == tareStep \in Int /\ TareUnderWay /\ WeighedAfterTare

LEMMA ScaleStep == ScaleInductive /\ [ScaleNext]_scaleVars => ScaleInductive'
<1> SUFFICES ASSUME ScaleInductive, [ScaleNext]_scaleVars PROVE ScaleInductive'
  OBVIOUS
<1> USE TareAssumption
<1> USE DEF ScaleInductive, TareUnderWay, WeighedAfterTare, InShot, brewingVars
<1>1. CASE ReadWeight
  <2>1. CASE NoData  BY <1>1, <2>1 DEF ReadWeight, NoData
  <2>2. CASE NoScale  BY <1>1, <2>2 DEF ReadWeight, NoScale
  <2>3. CASE Reading
    <3>1. TareReading /\ connected' /\ cameOff' = cameOff /\ UNCHANGED <<brewingVars, weighed>>
          /\ (InShot' => InShot)
      BY <1>1, <2>3 DEF ReadWeight, Reading
    <3>2. CASE tareStep < 0
      BY <3>1, <3>2 DEF TareReading
    <3>3. CASE ~(tareStep < 0) /\ tareStep + 1 >= TareSteps
      <4>1. tareStep' = -1 /\ (zeroed' <=> zeroed \/ ownTare)
        BY <3>1, <3>3, Zenon DEF TareReading
      <4> QED  BY <3>1, <3>3, <4>1
    <3>4. CASE ~(tareStep < 0) /\ ~(tareStep + 1 >= TareSteps)
      BY <3>1, <3>4 DEF TareReading
    <3> QED  BY <3>2, <3>3, <3>4
  <2> QED  BY <1>1, <2>1, <2>2, <2>3 DEF ReadWeight
<1>2. CASE TareInStandby
  BY <1>2 DEF TareInStandby, StartTare, FirstTareStep
<1>3. CASE BeginShot
  BY <1>3 DEF BeginShot
<1>4. CASE CheckShot
  BY <1>4 DEF CheckShot
<1>5. CASE ResumeShot
  <2>1. InShot /\ InShot' /\ UNCHANGED <<connected, hasScales, zeroed, cameOff>>
    BY <1>5 DEF ResumeShot
  <2>2. CASE ~tareStarted /\ weighed' = TestsWeight(tareDone)
             /\ UNCHANGED <<tareStarted, tareDone, tareStep, ownTare>>
    <3>1. weighed' => tareDone  BY <2>2, Zenon DEF TestsWeight
    <3> QED  BY <2>1, <2>2, <3>1
  <2>3. CASE tareStarted' = TRUE /\ StartTare(TRUE) /\ tareDone' = ~IsTaring'
             /\ weighed' = TestsWeight(tareDone')
    <3>1. connected => tareStep' = 0 /\ ownTare'
      BY <2>3 DEF StartTare, FirstTareStep
    <3>2. ~connected => tareStep' = tareStep
      BY <2>3 DEF StartTare
    <3>3. tareDone' => ~connected
      <4>1. connected => connected' /\ tareStep' >= 0  BY <2>1, <3>1
      <4>2. connected => IsTaring'  BY <4>1, Zenon DEF IsTaring
      <4> QED  BY <2>3, <4>2, Zenon
    <3>4. weighed' => tareDone'  BY <2>3, Zenon DEF TestsWeight
    <3> QED  BY <2>1, <3>1, <3>2, <3>3, <3>4
  <2>4. CASE tareStarted /\ tareDone' = ~IsTaring /\ weighed' = TestsWeight(tareDone')
             /\ UNCHANGED <<tareStarted, tareStep, ownTare>>
    <3>1. weighed' => tareDone'  BY <2>4, Zenon DEF TestsWeight
    <3>2. tareDone' => ~connected \/ ~(tareStep >= 0)
      BY <2>4, Zenon DEF IsTaring
    <3> QED  BY <2>1, <2>4, <3>1, <3>2
  <2> QED  BY <1>5, <2>2, <2>3, <2>4 DEF ResumeShot
<1>6. CASE EndShot
  BY <1>6 DEF EndShot
<1>7. CASE UNCHANGED scaleVars
  BY <1>7 DEF scaleVars
<1> QED  BY <1>1, <1>2, <1>3, <1>4, <1>5, <1>6, <1>7 DEF ScaleNext

(* BrewState::coroutine ends a shot by weight only with offsets read_weight  *)
(* took in that shot, however many steps a tare takes, unless the scale came *)
(* off.                                                                      *)
THEOREM AlwaysWeighedAfterTare == ScaleSpec => []WeighedAfterTare
<1>1. ScaleInit => ScaleInductive
  BY DEF ScaleInit, ScaleInductive, TareUnderWay, InShot, WeighedAfterTare
<1>2. ScaleInductive => WeighedAfterTare  BY DEF ScaleInductive
<1> QED  BY <1>1, <1>2, ScaleStep, PTL DEF ScaleSpec

-----------------------------------------------------------------------------
(* The queue.  An index goes round at most once.                             *)
LEMMA GoesRoundOnce ==
  ASSUME NEW x \in 0..(2 * StartCapacity - 1)
  PROVE  x % StartCapacity = IF x < StartCapacity THEN x ELSE x - StartCapacity
BY StartCapacityAssumption

QueueStartType ==
  /\ size_ \in 0..StartCapacity
  /\ front \in 0..(StartCapacity - 1) /\ back \in 0..(StartCapacity - 1)
  /\ begun \in 0..4 /\ push \in {"idle", "size", "back", "panic"}
  /\ loaded \in [size : 0..(StartCapacity - 1), back : 0..(StartCapacity - 1)]

Linked(s, b) == b = (front + s) % StartCapacity

(* A push that has stored half is half of a push; an initialisation that has *)
(* stored some of it leaves the rest.                                        *)
NotStraddled ==
  ~straddled =>
    /\ begun \in 1..4 => push \in {"idle", "panic"}
    /\ begun \in {0, 4} /\ push \in {"idle", "panic"} => Linked(size_, back)
    /\ push = "size" => loaded.size = size_ /\ loaded.back = back /\ Linked(size_, back)
    /\ push = "back" => size_ = loaded.size + 1 /\ loaded.back = back /\ Linked(loaded.size, back)
    /\ begun \in 1..3 => front = 0
    /\ begun \in 2..3 => back = 0
    /\ begun = 3 => size_ = 0

QueueInductive == QueueStartType /\ NotStraddled

LEMMA NextIndex ==
  ASSUME QueueStartType, NEW s \in 0..(StartCapacity - 1), NEW b \in 0..(StartCapacity - 1)
  PROVE  /\ IncIndex(b) \in 0..(StartCapacity - 1)
         /\ Linked(s, b) => IncIndex(b) = (front + (s + 1)) % StartCapacity
         /\ Linked(s + 1, b) => b = (IncIndex(front) + s) % StartCapacity
<1> USE StartCapacityAssumption DEF QueueStartType, Linked
<1>1. IncIndex(b) = IF b + 1 < StartCapacity THEN b + 1 ELSE 0
  BY GoesRoundOnce DEF IncIndex
<1>2. IncIndex(front) = IF front + 1 < StartCapacity THEN front + 1 ELSE 0
  BY GoesRoundOnce DEF IncIndex
<1>3. (front + s) % StartCapacity
        = IF front + s < StartCapacity THEN front + s ELSE front + s - StartCapacity
  BY GoesRoundOnce
<1>4. (front + (s + 1)) % StartCapacity
        = IF front + s + 1 < StartCapacity THEN front + s + 1 ELSE front + s + 1 - StartCapacity
  BY GoesRoundOnce
<1>5. (IncIndex(front) + s) % StartCapacity
        = IF IncIndex(front) + s < StartCapacity THEN IncIndex(front) + s
          ELSE IncIndex(front) + s - StartCapacity
  <2>1. \A i \in 0..(StartCapacity - 1) :
          (i + s) % StartCapacity = IF i + s < StartCapacity THEN i + s ELSE i + s - StartCapacity
    BY GoesRoundOnce
  <2>2. IncIndex(front) \in 0..(StartCapacity - 1)  BY <1>2
  <2> QED  BY <2>1, <2>2, Zenon
<1> QED  BY <1>1, <1>2, <1>3, <1>4, <1>5

LEMMA QueueStep == QueueInductive /\ [QueueNext]_queueVars => QueueInductive'
<1> SUFFICES ASSUME QueueInductive, [QueueNext]_queueVars PROVE QueueInductive'
  OBVIOUS
<1> USE StartCapacityAssumption
<1> USE DEF QueueInductive, QueueStartType, NotStraddled
<1>1. CASE PushBegins
  <2>1. straddled' = (straddled \/ begun > 0)  BY <1>1 DEF PushBegins
  <2>2. ~straddled' => ~straddled /\ ~(begun > 0)  BY <2>1, Zenon
  <2> QED  BY <1>1, <2>2 DEF PushBegins, HasSpace, Linked
<1>2. CASE StoreSize
  BY <1>2 DEF StoreSize, Linked
<1>3. CASE StoreBack
  <2>1. IncIndex(loaded.back) \in 0..(StartCapacity - 1)
        /\ (Linked(loaded.size, loaded.back)
              => IncIndex(loaded.back) = (front + (loaded.size + 1)) % StartCapacity)
    BY NextIndex
  <2> QED  BY <1>3, <2>1 DEF StoreBack, Linked
<1>4. CASE PushPanics
  BY <1>4 DEF PushPanics, Linked
<1>5. ASSUME NEW n \in 0..3, Initialising(n)
      PROVE  /\ begun = n /\ begun' = n + 1 /\ push # "panic"
             /\ ~straddled' => ~straddled /\ push = "idle"
  <2>1. straddled' = (straddled \/ push \in {"size", "back"})  BY <1>5 DEF Initialising
  <2>2. ~straddled' => ~straddled /\ push \notin {"size", "back"}  BY <2>1, Zenon
  <2> QED  BY <1>5, <2>2 DEF Initialising
<1>6. CASE InitFront
  BY <1>5, <1>6 DEF InitFront
<1>7. CASE InitBack
  BY <1>5, <1>7 DEF InitBack, FirstBack
<1>8. CASE InitSize
  BY <1>5, <1>8 DEF InitSize
<1>9. CASE InitLock
  <2>1. (0 + 0) % StartCapacity = 0  BY GoesRoundOnce
  <2> QED  BY <1>5, <1>9, <2>1 DEF InitLock, Linked
<1>10. CASE LockedPush
  <2>1. size_ \in 0..(StartCapacity - 1)  BY <1>10 DEF LockedPush, HasSpace
  <2>2. IncIndex(back) \in 0..(StartCapacity - 1)
        /\ (Linked(size_, back) => IncIndex(back) = (front + (size_ + 1)) % StartCapacity)
    BY <2>1, NextIndex
  <2> QED  BY <1>10, <2>1, <2>2 DEF LockedPush, Linked
<1>11. CASE LockedPop
  <2>1. size_ - 1 \in 0..(StartCapacity - 1)  BY <1>11 DEF LockedPop
  <2>2. IncIndex(front) \in 0..(StartCapacity - 1)
    BY NextIndex
  <2>3. Linked((size_ - 1) + 1, back) => back = (IncIndex(front) + (size_ - 1)) % StartCapacity
    BY <2>1, NextIndex
  <2>4. (size_ - 1) + 1 = size_  OBVIOUS
  <2> QED  BY <1>11, <2>1, <2>2, <2>3, <2>4 DEF LockedPop, Linked
<1>12. CASE UNCHANGED queueVars
  BY <1>12 DEF queueVars, Linked
<1> QED
  BY <1>1, <1>2, <1>3, <1>4, <1>6, <1>7, <1>8, <1>9, <1>10, <1>11, <1>12 DEF QueueNext

(* Whatever enqueue_message does before server_init, its indices stay in the *)
(* array, and Queue::init leaves a queue unless a push without the lock met  *)
(* it.                                                                       *)
THEOREM QueueAlwaysSurvivesStart == QueueSpec => []QueueSurvivesStart
<1>1. QueueInit => QueueInductive
  <2>1. (0 + 0) % StartCapacity = 0  BY GoesRoundOnce, StartCapacityAssumption
  <2> QED
    BY <2>1, StartCapacityAssumption
       DEF QueueInit, QueueInductive, QueueStartType, NotStraddled, Linked
<1>2. QueueInductive => QueueSurvivesStart
  BY DEF QueueInductive, QueueStartType, NotStraddled, Linked, QueueSurvivesStart
<1> QED  BY <1>1, <1>2, QueueStep, PTL DEF QueueSpec
-----------------------------------------------------------------------------
(* The switch.  A reading that no edge has been handled after is the level,  *)
(* whichever core holds it, and so is what such a reading was kept as.       *)
Fresh(c) == ~edge /\ ~aged[c]

ReadingsHold ==
  /\ \A c \in Samplers :
       /\ Fresh(c) /\ sampler[c] \in {"store", "clear"} => sample[c] = level
       /\ Fresh(c) /\ sampler[c] = "clear" /\ ~overwritten => lastState = level
  /\ transition = "never" /\ ~edge /\ ~overwritten => lastState = level

DebounceInductive == DebounceTypeOK /\ ReadingsHold

LEMMA DebounceTypeStep == DebounceTypeOK /\ [DebounceNext]_debounceVars => DebounceTypeOK'
<1> SUFFICES ASSUME DebounceTypeOK, [DebounceNext]_debounceVars PROVE DebounceTypeOK'
  OBVIOUS
<1> USE DEF DebounceTypeOK
<1>1. CASE TurnLevel
  <2>1. level' \in BOOLEAN /\ edge' \in BOOLEAN  BY <1>1, Zenon DEF TurnLevel
  <2> QED  BY <1>1, <2>1, Zenon DEF TurnLevel
<1>2. CASE EdgeInterrupt
  <2>1. edge' \in BOOLEAN /\ transition' \in {"due", "later", "never"} /\ overwritten' \in BOOLEAN
    BY <1>2, Zenon DEF EdgeInterrupt
  <2>2. aged' \in [Samplers -> BOOLEAN]  BY <1>2, Zenon DEF EdgeInterrupt
  <2> QED  BY <1>2, <2>1, <2>2, Zenon DEF EdgeInterrupt
<1>3. CASE TransitionOver
  BY <1>3, Zenon DEF TransitionOver
<1>4. ASSUME NEW c \in Samplers, FindDue(c) \/ ReadLevel(c) \/ Keep(c) \/ AskNoMore(c)
      PROVE  DebounceTypeOK'
  <2>1. sampler' \in [Samplers -> {"idle", "sample", "store", "clear"}]
    BY <1>4 DEF FindDue, ReadLevel, Keep, AskNoMore, AtSwitch
  <2>2. sample' \in [Samplers -> BOOLEAN]
    BY <1>4, Zenon DEF FindDue, ReadLevel, Keep, AskNoMore
  <2>3. aged' \in [Samplers -> BOOLEAN]
    BY <1>4, Zenon DEF FindDue, ReadLevel, Keep, AskNoMore
  <2>4. overwritten' \in BOOLEAN /\ lastState' \in BOOLEAN
    BY <1>4, Zenon DEF FindDue, ReadLevel, Keep, AskNoMore
  <2>5. UNCHANGED <<level, edge>> /\ transition' \in {"due", "later", "never"}
    BY <1>4, Zenon DEF FindDue, ReadLevel, Keep, AskNoMore
  <2> QED  BY <2>1, <2>2, <2>3, <2>4, <2>5
<1>5. CASE UNCHANGED debounceVars
  BY <1>5, Zenon DEF debounceVars
<1> QED  BY <1>1, <1>2, <1>3, <1>4, <1>5, Zenon DEF DebounceNext

LEMMA DebounceStep == DebounceInductive /\ [DebounceNext]_debounceVars => DebounceInductive'
<1> SUFFICES ASSUME DebounceInductive, [DebounceNext]_debounceVars PROVE ReadingsHold'
  BY DebounceTypeStep DEF DebounceInductive
<1> USE DEF DebounceInductive, DebounceTypeOK, ReadingsHold, Fresh
<1>1. CASE TurnLevel
  BY <1>1 DEF TurnLevel
<1>2. CASE EdgeInterrupt
  <2>1. transition' = "later" /\ \A c \in Samplers : aged'[c]
    BY <1>2 DEF EdgeInterrupt, AnyEdge
  <2> QED  BY <2>1, Zenon
<1>3. CASE TransitionOver
  BY <1>3 DEF TransitionOver
<1>4. ASSUME NEW c \in Samplers, FindDue(c)
      PROVE  ReadingsHold'
  BY <1>4 DEF FindDue, AtSwitch
<1>5. ASSUME NEW c \in Samplers, ReadLevel(c)
      PROVE  ReadingsHold'
  BY <1>5 DEF ReadLevel, AtSwitch
<1>6. ASSUME NEW c \in Samplers, Keep(c)
      PROVE  ReadingsHold'
  <2>1. /\ sampler[c] = "store" /\ sampler' = [sampler EXCEPT ![c] = "clear"]
        /\ lastState' = sample[c] /\ UNCHANGED <<level, edge, transition, sample, aged>>
    BY <1>6 DEF Keep, AtSwitch
  <2>2. ~overwritten' => ~overwritten /\ ~aged[c]  BY <1>6, Zenon DEF Keep
  <2>3. ~overwritten' /\ ~edge => lastState' = level  BY <2>1, <2>2
  <2>4. \A d \in Samplers : sampler'[d] \in {"store", "clear"} => sampler[d] \in {"store", "clear"}
    BY <2>1
  <2> QED  BY <2>1, <2>3, <2>4
<1>7. ASSUME NEW c \in Samplers, AskNoMore(c)
      PROVE  ReadingsHold'
  <2>1. /\ sampler[c] = "clear" /\ sampler' = [sampler EXCEPT ![c] = "idle"]
        /\ UNCHANGED <<level, edge, lastState, sample, aged>>
    BY <1>7 DEF AskNoMore, AtSwitch
  <2>2. ~overwritten' => ~overwritten /\ ~aged[c]  BY <1>7, Zenon DEF AskNoMore
  <2>3. ~overwritten' /\ ~edge => lastState = level  BY <2>1, <2>2
  <2>4. \A d \in Samplers : sampler'[d] \in {"store", "clear"} => sampler[d] \in {"store", "clear"}
    BY <2>1
  <2> QED  BY <2>1, <2>2, <2>3, <2>4
<1>8. CASE UNCHANGED debounceVars
  BY <1>8 DEF debounceVars
<1> QED  BY <1>1, <1>2, <1>3, <1>4, <1>5, <1>6, <1>7, <1>8 DEF DebounceNext

(* However get_switch on two cores and gpio_irq_handler interleave, a switch *)
(* at rest is known, unless a reading was kept over the interrupt of a later *)
(* edge.                                                                     *)
THEOREM RestingSwitchIsAlwaysKnown == DebounceSpec => []RestingSwitchIsKnown
<1>1. DebounceInit => DebounceInductive
  <2> SUFFICES ASSUME DebounceInit PROVE DebounceInductive
    OBVIOUS
  <2>1. DebounceTypeOK  BY Zenon DEF DebounceInit, DebounceTypeOK
  <2>2. ReadingsHold  BY DEF DebounceInit, ReadingsHold, Fresh
  <2> QED  BY <2>1, <2>2 DEF DebounceInductive
<1>2. DebounceInductive => RestingSwitchIsKnown
  BY Zenon DEF DebounceInductive, ReadingsHold, RestingSwitchIsKnown
<1> QED  BY <1>1, <1>2, DebounceStep, PTL DEF DebounceSpec
-----------------------------------------------------------------------------
(* The brew log.  What core 1 last saw and what it sees now say where the    *)
(* card and the one open log are, at each place in its round.                *)
CardFollows ==
  /\ round \in {"sleep", "card", "write"} => (mounted <=> seen # "Off")
  /\ round \in {"open", "close", "unlink"} => (mounted <=> glimpsed # "Off")

OneLogOpen ==
  \A s \in Shots : fate[s] = "open" =>
    /\ logShot = s /\ round # "unlink"
    /\ seen = "Brew" \/ (round = "close" /\ glimpsed = "Brew")

LostOnTheWayOff ==
  /\ \A s \in Shots : fate[s] = "lost" => s \in intoOff
  /\ round \in {"card", "open", "close"} /\ seen = "Brew" /\ glimpsed = "Off" => logShot \in intoOff

(* A shot core 1 has seen to end is over, and its length known.              *)
OverOrNext(s) == s < shots \/ (s = shots /\ shown # "Brew")

ShotsKnown ==
  /\ lasted \subseteq 1..shots /\ logShot <= shots
  /\ shown = "Brew" => shots \notin lasted
  /\ ~fiveSeconds => shots \notin lasted
  /\ round = "unlink" => seen = "Brew"
  /\ round \in {"card", "open", "close", "unlink"} => seen # glimpsed
  /\ round \in {"card", "open", "close", "unlink"} /\ seen = "Brew" => OverOrNext(logShot)
  /\ glimpsed = "Brew" \/ seen = "Brew" \/ shown = "Brew" => shots > 0
  /\ \A s \in Shots : fate[s] = "deleted" => OverOrNext(s) /\ (s < shots \/ s \notin lasted)

BrewLogTypes ==
  /\ shots \in 0..MaxShots /\ logShot \in 0..MaxShots
  /\ fate \in [Shots -> {"none", "open", "kept", "lost", "deleted"}]
  /\ round \in {"sleep", "card", "open", "close", "unlink", "write"}

BrewInductive == BrewLogTypes /\ CardFollows /\ OneLogOpen /\ LostOnTheWayOff /\ ShotsKnown

LEMMA BrewStarts == BrewInit => BrewInductive
<1> SUFFICES ASSUME BrewInit PROVE BrewInductive
  OBVIOUS
<1> USE ShotsAssumption DEF BrewInit, Shots
<1>1. BrewLogTypes /\ CardFollows /\ OneLogOpen /\ LostOnTheWayOff
  BY DEF BrewLogTypes, CardFollows, OneLogOpen, LostOnTheWayOff
<1>2. ShotsKnown  BY DEF ShotsKnown
<1> QED  BY <1>1, <1>2 DEF BrewInductive

(* What core 0 and time do leaves core 1's part alone. *)
LEMMA ShotStep ==
  ASSUME BrewInductive, UNCHANGED <<round, seen, glimpsed, logVars>>,
         \/ ShowNone \/ (\E s \in ShownStates \ {"Brew"} : ShowState(s)) \/ ShowBrew \/ StampShot
         \/ FiveSecondsPass \/ UNCHANGED shotVars
  PROVE  BrewInductive'
<1> USE ShotsAssumption
<1> USE DEF BrewInductive, BrewLogTypes, Shots, logVars
<1>1. CardFollows'  BY DEF CardFollows
<1>2. OneLogOpen' /\ LostOnTheWayOff'  BY DEF OneLogOpen, LostOnTheWayOff
<1>3. BrewLogTypes' /\ ShotsKnown'
  <2>1. CASE ShowNone
    <3>1. lasted' \subseteq lasted \cup {shots} /\ (shown # "Brew" => lasted' = lasted)
      BY <2>1 DEF ShowNone
    <3>2. ~fiveSeconds => lasted' = lasted  BY <2>1, Zenon DEF ShowNone
    <3>3. shown' = "none" /\ UNCHANGED <<shots, fiveSeconds>>  BY <2>1 DEF ShowNone
    <3> QED  BY <3>1, <3>2, <3>3 DEF ShotsKnown, OverOrNext
  <2>2. ASSUME NEW s \in ShownStates \ {"Brew"}, ShowState(s)
        PROVE  BrewLogTypes' /\ ShotsKnown'
    <3>1. shown' # "Brew" /\ UNCHANGED <<shots, fiveSeconds, lasted>>  BY <2>2 DEF ShowState
    <3> QED  BY <3>1 DEF ShotsKnown, OverOrNext
  <2>3. CASE ShowBrew
    <3>1. shown' = "Brew" /\ shots' = shots + 1 /\ shots < MaxShots /\ UNCHANGED <<fiveSeconds, lasted>>
      BY <2>3 DEF ShowBrew
    <3>2. logShot < shots'  BY <3>1 DEF ShotsKnown
    <3>3. lasted \subseteq 1..shots' /\ shots' \notin lasted  BY <3>1 DEF ShotsKnown
    <3>4. \A s \in Shots : fate[s] = "deleted" => s < shots'
      BY <3>1 DEF ShotsKnown, OverOrNext
    <3> QED  BY <3>1, <3>2, <3>3, <3>4 DEF ShotsKnown, OverOrNext
  <2>4. CASE StampShot
    BY <2>4 DEF StampShot, ShotsKnown, OverOrNext
  <2>5. CASE FiveSecondsPass
    BY <2>5 DEF FiveSecondsPass, ShotsKnown, OverOrNext
  <2>6. CASE UNCHANGED shotVars
    BY <2>6 DEF shotVars, ShotsKnown, OverOrNext
  <2> QED  BY <2>1, <2>2, <2>3, <2>4, <2>5, <2>6
<1> QED  BY <1>1, <1>2, <1>3

(* Core 1's round. *)
LEMMA RoundStep ==
  ASSUME BrewInductive, UNCHANGED shotVars,
         \/ Glimpse \/ Card \/ OpenLog \/ NoShotBegins
         \/ CloseLog \/ UnlinkLog \/ NoShotEnds \/ WriteRow
  PROVE  BrewInductive'
<1> USE ShotsAssumption
<1> USE DEF BrewInductive, BrewLogTypes, Shots, shotVars, AtRound
<1>1. CASE Glimpse
  <2>1. /\ round = "sleep" /\ glimpsed' = shown /\ UNCHANGED <<seen, mounted, logShot, fate>>
        /\ round' = IF shown = seen THEN "write" ELSE "card"
    BY <1>1 DEF Glimpse
  <2>2. /\ intoOff \subseteq intoOff'
        /\ seen = "Brew" /\ shown = "Off" => logShot \in intoOff'
    BY <1>1 DEF Glimpse
  <2>3. CardFollows' /\ OneLogOpen'  BY <2>1 DEF CardFollows, OneLogOpen
  <2>4. LostOnTheWayOff'  BY <2>1, <2>2 DEF LostOnTheWayOff
  <2>5. ShotsKnown'  BY <2>1 DEF ShotsKnown, OverOrNext
  <2> QED  BY <2>1, <2>3, <2>4, <2>5
<1>2. CASE Card
  <2>1. /\ round = "card" /\ round' = "open"
        /\ UNCHANGED <<seen, glimpsed, logShot, fate, intoOff>>
    BY <1>2 DEF Card
  <2>2. mounted' <=> glimpsed # "Off"
    <3>1. MountedBy  BY <2>1, Zenon DEF CardFollows, MountedBy
    <3> QED  BY <1>2, <3>1, Zenon DEF Card
  <2>3. CardFollows' /\ OneLogOpen'  BY <2>1, <2>2 DEF CardFollows, OneLogOpen
  <2>4. LostOnTheWayOff' /\ ShotsKnown'  BY <2>1 DEF LostOnTheWayOff, ShotsKnown, OverOrNext
  <2> QED  BY <2>1, <2>3, <2>4
<1>3. CASE OpenLog
  <2>1. /\ round = "open" /\ glimpsed = "Brew" /\ round' = "close" /\ logShot' = shots
        /\ UNCHANGED <<seen, glimpsed, mounted, intoOff>>
    BY <1>3 DEF OpenLog
  <2>2. shots \in Shots /\ seen # "Brew"  BY <2>1 DEF ShotsKnown
  <2>3. fate' = fate \/ fate' = [fate EXCEPT ![shots] = "open"]
    BY <1>3, Zenon DEF OpenLog
  <2>4. \A s \in Shots : fate[s] # "open"  BY <2>1, <2>2 DEF OneLogOpen
  <2>5. \A s \in Shots : fate'[s] = fate[s] \/ (s = shots /\ fate'[s] = "open")
    BY <2>3
  <2>6. CardFollows' /\ OneLogOpen'  BY <2>1, <2>4, <2>5 DEF CardFollows, OneLogOpen
  <2>7. LostOnTheWayOff' /\ ShotsKnown'
    BY <2>1, <2>2, <2>5 DEF LostOnTheWayOff, ShotsKnown, OverOrNext
  <2> QED  BY <2>1, <2>2, <2>3, <2>6, <2>7
<1>4. CASE NoShotBegins
  BY <1>4 DEF NoShotBegins, logVars, CardFollows, OneLogOpen, LostOnTheWayOff, ShotsKnown, OverOrNext
<1>5. CASE CloseLog
  <2>1. /\ round = "close" /\ round' = "unlink" /\ seen = "Brew"
        /\ UNCHANGED <<seen, glimpsed, mounted, logShot, intoOff>>
    BY <1>5 DEF CloseLog, ShotSeenToEnd
  <2>2. fate' \in [Shots -> {"none", "open", "kept", "lost", "deleted"}]
    BY <1>5 DEF CloseLog
  <2>3. \A s \in Shots :
          /\ fate[s] = "open" => s = logShot /\ fate'[s] = (IF mounted THEN "kept" ELSE "lost")
          /\ fate[s] # "open" => fate'[s] = fate[s]
    BY <1>5 DEF CloseLog, OneLogOpen
  <2>4. ~mounted => glimpsed = "Off"  BY <2>1 DEF CardFollows
  <2>5. CardFollows' /\ OneLogOpen'  BY <2>1, <2>3 DEF CardFollows, OneLogOpen
  <2>6. LostOnTheWayOff'  BY <2>1, <2>3, <2>4 DEF LostOnTheWayOff
  <2>7. ShotsKnown'  BY <2>1, <2>3 DEF ShotsKnown, OverOrNext
  <2> QED  BY <2>1, <2>2, <2>5, <2>6, <2>7
<1>6. CASE UnlinkLog
  <2>1. /\ round = "unlink" /\ round' = "write" /\ seen' = glimpsed
        /\ UNCHANGED <<glimpsed, mounted, logShot, intoOff>>
    BY <1>6 DEF UnlinkLog
  <2>2. fate' \in [Shots -> {"none", "open", "kept", "lost", "deleted"}]
    BY <1>6 DEF UnlinkLog
  <2>3. \A s \in Shots : fate'[s] = fate[s] \/ (fate'[s] = "deleted" /\ s = logShot /\ ~fiveSeconds)
    BY <1>6 DEF UnlinkLog
  <2>4. CardFollows' /\ OneLogOpen'  BY <2>1, <2>3 DEF CardFollows, OneLogOpen
  <2>5. LostOnTheWayOff'  BY <2>1, <2>3 DEF LostOnTheWayOff
  <2>6. ShotsKnown'  BY <2>1, <2>3 DEF ShotsKnown, OverOrNext
  <2> QED  BY <2>1, <2>2, <2>4, <2>5, <2>6
<1>7. CASE NoShotEnds
  BY <1>7 DEF NoShotEnds, ShotSeenToEnd, logVars, CardFollows, OneLogOpen, LostOnTheWayOff,
              ShotsKnown, OverOrNext
<1>8. CASE WriteRow
  BY <1>8 DEF WriteRow, logVars, CardFollows, OneLogOpen, LostOnTheWayOff, ShotsKnown, OverOrNext
<1> QED  BY <1>1, <1>2, <1>3, <1>4, <1>5, <1>6, <1>7, <1>8

(* network_loop keeps the card mounted while the machine is on and every log *)
(* but those lost on the way to Off and those of short or overtaken shots,   *)
(* however many states and shots go by between two of its looks.             *)
THEOREM ShotsAreAlwaysLogged == BrewSpec => []ShotsAreLogged
<1>1. BrewInductive /\ [BrewNext]_brewVars => BrewInductive'
  <2> SUFFICES ASSUME BrewInductive, [BrewNext]_brewVars PROVE BrewInductive'
    OBVIOUS
  <2>1. CASE \/ ShowNone \/ (\E s \in ShownStates \ {"Brew"} : ShowState(s)) \/ ShowBrew \/ StampShot
             \/ FiveSecondsPass \/ UNCHANGED brewVars
    <3>1. UNCHANGED <<round, seen, glimpsed, logVars>>
      BY <2>1 DEF ShowNone, ShowState, ShowBrew, StampShot, FiveSecondsPass, brewVars
    <3> QED  BY <2>1, <3>1, ShotStep DEF brewVars
  <2>2. CASE \/ Glimpse \/ Card \/ OpenLog \/ NoShotBegins
             \/ CloseLog \/ UnlinkLog \/ NoShotEnds \/ WriteRow
    <3>1. UNCHANGED shotVars
      BY <2>2 DEF Glimpse, Card, OpenLog, NoShotBegins, CloseLog, UnlinkLog, NoShotEnds, WriteRow
    <3> QED  BY <2>2, <3>1, RoundStep
  <2> QED  BY <2>1, <2>2 DEF BrewNext
<1>2. BrewInductive => ShotsAreLogged
  <2> SUFFICES ASSUME BrewInductive PROVE ShotsAreLogged
    OBVIOUS
  <2>1. 1..shots \subseteq Shots  BY ShotsAssumption DEF BrewInductive, BrewLogTypes, Shots
  <2> QED
    BY <2>1 DEF BrewInductive, CardFollows, OneLogOpen, LostOnTheWayOff, ShotsKnown, ShotsAreLogged
<1> QED  BY <1>1, <1>2, BrewStarts, PTL DEF BrewSpec

-----------------------------------------------------------------------------
(* The thermal runaway check: for every gain, every deadline and every range *)
(* of temperatures, its verdict is just.                                     *)
SampleLimit == 2 * DeadlineTicks + 1

(* Where in the samples the goal was set: the deadline says how long ago.    *)
GoalIndex == Len(samples) - (DeadlineTicks - deadline)

(* The goal stands HeatingGain above that sample, and none since has reached *)
(* it.  Unless it is the first of the stay, that sample reached the goal set *)
(* before, at most a deadline's length earlier.                              *)
GoalStands ==
  /\ GoalIndex >= 1
  /\ samples[GoalIndex] + HeatingGain = goalTemp
  /\ \A j \in 1..Len(samples) : j > GoalIndex => samples[j] < goalTemp
GoalFollows ==
  \/ GoalIndex = 1
  \/ \E h \in 1..Len(samples) :
       /\ h >= GoalIndex - DeadlineTicks /\ h < GoalIndex
       /\ samples[GoalIndex] >= samples[h] + HeatingGain

CheckTypes ==
  /\ deadline \in 0..DeadlineTicks /\ goalTemp \in Nat
  /\ samples \in Seq(Nat) /\ Len(samples) <= SampleLimit

CheckState ==
  /\ Len(samples) = 0 => deadline = 0 /\ goalTemp = 0 /\ ~faulted
  /\ Len(samples) > 0 => GoalStands /\ GoalFollows
  /\ Len(samples) > 0 /\ ~faulted => deadline >= 1
  /\ faulted => deadline = 0

ThermalInductive == CheckTypes /\ CheckState

-----------------------------------------------------------------------------
LEMMA AppendedLast ==
  ASSUME NEW s \in Seq(Nat), NEW t \in Nat
  PROVE  /\ Append(s, t) \in Seq(Nat) /\ Len(Append(s, t)) = Len(s) + 1
         /\ Append(s, t)[Len(s) + 1] = t
         /\ \A j \in 1..Len(s) : Append(s, t)[j] = s[j]
OBVIOUS

LEMMA TailMovesDown ==
  ASSUME NEW s \in Seq(Nat), Len(s) > 0
  PROVE  /\ Tail(s) \in Seq(Nat) /\ Len(s) \in Nat /\ Len(Tail(s)) = Len(s) - 1
         /\ Len(Tail(s)) + 1 = Len(s)
         /\ \A j \in 1..Len(Tail(s)) : Tail(s)[j] = s[j + 1]
OBVIOUS

(* A new sample comes last; the others stay, or all move down by one. *)
LEMMA SampledLast ==
  ASSUME CheckTypes, NEW t \in Nat, Sampled(t)
  PROVE  \E gone \in 0..1 :
           /\ gone = 1 <=> Len(samples) = SampleLimit
           /\ samples' \in Seq(Nat)
           /\ Len(samples') = Len(samples) + 1 - gone
           /\ samples'[Len(samples')] = t
           /\ \A j \in 1..(Len(samples') - 1) : samples'[j] = samples[j + gone]
<1> USE HeatingAssumption DEF CheckTypes, SampleLimit, Sampled, SampleBound
<1>1. CASE Len(samples) < SampleLimit
  <2>1. samples' = Append(samples, t)  BY <1>1
  <2>2. /\ samples' \in Seq(Nat) /\ Len(samples') = Len(samples) + 1
        /\ samples'[Len(samples')] = t
        /\ \A j \in 1..(Len(samples') - 1) : samples'[j] = samples[j]
    BY <2>1
  <2>3. \A j \in 1..(Len(samples') - 1) : samples'[j] = samples[j + 0]  BY <2>2
  <2> QED  BY <1>1, <2>2, <2>3
<1>2. CASE Len(samples) = SampleLimit
  <2>1. samples' = Append(Tail(samples), t) /\ Len(samples) > 0  BY <1>2
  <2>2. /\ Tail(samples) \in Seq(Nat) /\ Len(samples) \in Nat
        /\ Len(Tail(samples)) = Len(samples) - 1 /\ Len(Tail(samples)) + 1 = Len(samples)
        /\ \A j \in 1..Len(Tail(samples)) : Tail(samples)[j] = samples[j + 1]
    BY <2>1, TailMovesDown, Zenon
  <2>3. /\ samples' \in Seq(Nat) /\ Len(samples') = Len(samples)
        /\ samples'[Len(samples')] = t
        /\ \A j \in 1..Len(Tail(samples)) : samples'[j] = Tail(samples)[j]
    <3> DEFINE rest == Tail(samples)
    <3>1. rest \in Seq(Nat) /\ samples' = Append(rest, t)  BY <2>1, <2>2, Zenon
    <3> HIDE DEF rest
    <3>2. /\ samples' \in Seq(Nat) /\ Len(samples') = Len(rest) + 1
          /\ samples'[Len(rest) + 1] = t
          /\ \A j \in 1..Len(rest) : samples'[j] = rest[j]
      <4>1. /\ Append(rest, t) \in Seq(Nat) /\ Len(Append(rest, t)) = Len(rest) + 1
            /\ Append(rest, t)[Len(rest) + 1] = t
            /\ \A j \in 1..Len(rest) : Append(rest, t)[j] = rest[j]
        BY ONLY <3>1, t \in Nat, AppendedLast
      <4> QED  BY ONLY <3>1, <4>1, Zenon
    <3> QED  BY <2>2, <3>2, Zenon DEF rest
  <2>4. \A j \in 1..(Len(samples') - 1) : samples'[j] = samples[j + 1]
    <3>1. Len(samples') - 1 = Len(Tail(samples))  BY <2>2, <2>3, Zenon
    <3> QED  BY <2>2, <2>3, <3>1, Zenon
  <2>5. Len(samples') = Len(samples) + 1 - 1
    <3>1. \A n \in Nat : n + 1 - 1 = n  OBVIOUS
    <3> QED  BY <2>2, <2>3, <3>1, Zenon
  <2>6. 1 \in 0..1 /\ (1 = 1 <=> Len(samples) = SampleLimit)  BY <1>2
  <2> QED  BY <2>3, <2>4, <2>5, <2>6, Zenon
<1> QED  BY <1>1, <1>2

(* While the goal stands, the deadline's age and the samples grow together. *)
LEMMA GoalStandsStill ==
  ASSUME ThermalInductive, NEW t \in Nat, Sampled(t), t < goalTemp, deadline >= 1,
         deadline' = deadline - 1, goalTemp' = goalTemp, Len(samples) > 0
  PROVE  CheckTypes' /\ GoalStands' /\ GoalFollows' /\ Len(samples') > 0
<1> USE HeatingAssumption DEF ThermalInductive, CheckTypes
<1>1. PICK gone \in 0..1 :
        /\ gone = 1 <=> Len(samples) = SampleLimit
        /\ samples' \in Seq(Nat)
        /\ Len(samples') = Len(samples) + 1 - gone
        /\ samples'[Len(samples')] = t
        /\ \A j \in 1..(Len(samples') - 1) : samples'[j] = samples[j + gone]
  BY SampledLast
<1>2. GoalIndex \in 1..Len(samples) /\ GoalIndex' = GoalIndex - gone
  BY <1>1 DEF CheckState, GoalStands, GoalIndex
<1>3. gone = 1 => GoalIndex >= DeadlineTicks + 2
  BY <1>1 DEF GoalIndex, SampleLimit
<1>4. GoalIndex' \in 1..(Len(samples') - 1)
  BY <1>1, <1>2, <1>3
<1>5. samples'[GoalIndex'] = samples[GoalIndex]
  BY <1>1, <1>2, <1>4
<1>6. GoalStands'
  <2>1. samples[GoalIndex] + HeatingGain = goalTemp  BY DEF CheckState, GoalStands
  <2>2. ASSUME NEW j \in 1..Len(samples'), j > GoalIndex'
        PROVE  samples'[j] < goalTemp
    <3>1. CASE j = Len(samples')  BY <1>1, <3>1
    <3>2. CASE j < Len(samples')
      <4>1. samples'[j] = samples[j + gone] /\ j + gone \in 1..Len(samples) /\ j + gone > GoalIndex
        BY <1>1, <1>2, <2>2, <3>2
      <4> QED  BY <4>1 DEF CheckState, GoalStands
    <3> QED  BY <1>1, <3>1, <3>2
  <2> QED  BY <1>4, <1>5, <2>1, <2>2 DEF GoalStands
<1>7. GoalFollows'
  <2>1. CASE GoalIndex = 1
    BY <1>2, <1>3, <2>1 DEF GoalFollows
  <2>2. CASE \E h \in 1..Len(samples) :
               /\ h >= GoalIndex - DeadlineTicks /\ h < GoalIndex
               /\ samples[GoalIndex] >= samples[h] + HeatingGain
    <3>1. PICK h \in 1..Len(samples) :
               /\ h >= GoalIndex - DeadlineTicks /\ h < GoalIndex
               /\ samples[GoalIndex] >= samples[h] + HeatingGain
      BY <2>2
    <3>2. h - gone \in 1..(Len(samples') - 1)  BY <1>1, <1>2, <1>3, <3>1
    <3>3. samples'[h - gone] = samples[h]  BY <1>1, <3>2
    <3>4. /\ h - gone >= GoalIndex' - DeadlineTicks /\ h - gone < GoalIndex'
          /\ samples'[GoalIndex'] >= samples'[h - gone] + HeatingGain
      BY <1>2, <1>5, <3>1, <3>3
    <3>5. h - gone \in 1..Len(samples')  BY <1>1, <3>2
    <3> QED  BY <3>4, <3>5 DEF GoalFollows
  <2> QED  BY <2>1, <2>2 DEF CheckState, GoalFollows
<1> QED  BY <1>1, <1>6, <1>7 DEF SampleLimit

(* A sample that reaches the goal becomes the next one's start. *)
LEMMA GoalIsReached ==
  ASSUME ThermalInductive, NEW t \in Temps, NewGoal(t)
  PROVE  ThermalInductive'
<1> USE HeatingAssumption DEF ThermalInductive, CheckTypes
<1>1. /\ t \in Nat /\ t >= goalTemp /\ Sampled(t) /\ ~faulted' /\ ~faulted
      /\ goalTemp' = t + HeatingGain /\ deadline' = DeadlineTicks
  BY DEF NewGoal, Temps
<1>2. PICK gone \in 0..1 :
        /\ gone = 1 <=> Len(samples) = SampleLimit
        /\ samples' \in Seq(Nat)
        /\ Len(samples') = Len(samples) + 1 - gone
        /\ samples'[Len(samples')] = t
        /\ \A j \in 1..(Len(samples') - 1) : samples'[j] = samples[j + gone]
  BY <1>1, SampledLast
<1>3. GoalIndex' = Len(samples') /\ Len(samples') >= 1
  BY <1>1, <1>2 DEF GoalIndex, SampleLimit
<1>4. GoalStands'
  <2>1. samples'[GoalIndex'] = t  BY <1>2, <1>3, Zenon
  <2>2. samples'[GoalIndex'] + HeatingGain = goalTemp'  BY <1>1, <2>1
  <2>3. \A j \in 1..Len(samples') : ~(j > GoalIndex')  BY <1>3
  <2>4. GoalIndex' >= 1  BY <1>3
  <2> QED  BY <2>2, <2>3, <2>4 DEF GoalStands
<1>5. GoalFollows'
  <2>1. CASE Len(samples) = 0
    BY <1>2, <1>3, <2>1 DEF GoalFollows, SampleLimit
  <2>2. CASE Len(samples) > 0
    <3>1. /\ GoalIndex \in 1..Len(samples) /\ samples[GoalIndex] + HeatingGain = goalTemp
          /\ deadline >= 1
      BY <1>1, <2>2 DEF CheckState, GoalStands, GoalIndex
    <3>2. gone = 1 => GoalIndex >= DeadlineTicks + 2
      BY <1>2, <3>1 DEF GoalIndex, SampleLimit
    <3>3. GoalIndex - gone \in 1..(Len(samples') - 1)  BY <1>2, <3>1, <3>2
    <3>4. samples'[GoalIndex - gone] = samples[GoalIndex]
      <4>1. samples'[GoalIndex - gone] = samples[(GoalIndex - gone) + gone]  BY <1>2, <3>3
      <4>2. (GoalIndex - gone) + gone = GoalIndex  BY <3>1
      <4> QED  BY <4>1, <4>2, Zenon
    <3>5. /\ GoalIndex - gone >= GoalIndex' - DeadlineTicks /\ GoalIndex - gone < GoalIndex'
          /\ GoalIndex - gone \in 1..Len(samples')
      <4>1. Len(samples') \in Nat /\ GoalIndex' = Len(samples')  BY <1>2, <1>3
      <4>2. GoalIndex >= Len(samples) + 1 - DeadlineTicks  BY <3>1 DEF GoalIndex
      <4>3. Len(samples') = Len(samples) + 1 - gone /\ Len(samples) \in Nat  BY <1>2
      <4> QED  BY <3>1, <3>3, <4>1, <4>2, <4>3
    <3>6. samples'[GoalIndex'] >= samples'[GoalIndex - gone] + HeatingGain
      BY <1>1, <1>2, <1>3, <3>1, <3>4
    <3> QED  BY <3>5, <3>6 DEF GoalFollows
  <2> QED  BY <2>1, <2>2
<1>6. CheckTypes'  BY <1>1, <1>2 DEF SampleLimit
<1> QED  BY <1>1, <1>3, <1>4, <1>5, <1>6 DEF CheckState

LEMMA ThermalStep == ThermalInductive /\ [ThermalNext]_thermalVars => ThermalInductive'
<1> SUFFICES ASSUME ThermalInductive, [ThermalNext]_thermalVars PROVE ThermalInductive'
  OBVIOUS
<1> USE HeatingAssumption
<1>1. CASE OutOfWindow \/ PowerCycle
  <2>1. deadline' = 0 /\ goalTemp' = 0 /\ ~faulted' /\ samples' = <<>>
    BY <1>1 DEF OutOfWindow, PowerCycle, DropGoal
  <2> QED  BY <2>1 DEF ThermalInductive, CheckTypes, CheckState, SampleLimit
<1>2. ASSUME NEW t \in Temps, NewGoal(t)
      PROVE  ThermalInductive'
  BY <1>2, GoalIsReached
<1>3. ASSUME NEW t \in Temps, StillHeating(t)
      PROVE  ThermalInductive'
  <2>1. /\ t \in Nat /\ t < goalTemp /\ Sampled(t) /\ ~faulted' /\ deadline >= 2
        /\ deadline' = deadline - 1 /\ goalTemp' = goalTemp
    BY <1>3 DEF StillHeating, DeadlineReached, Temps, ThermalInductive, CheckTypes
  <2>2. Len(samples) > 0  BY <2>1 DEF ThermalInductive, CheckState, CheckTypes
  <2>3. CheckTypes' /\ GoalStands' /\ GoalFollows' /\ Len(samples') > 0
    BY <2>1, <2>2, GoalStandsStill DEF ThermalInductive, CheckTypes
  <2> QED  BY <2>1, <2>3 DEF ThermalInductive, CheckState, CheckTypes
<1>4. ASSUME NEW t \in Temps, RunsAway(t)
      PROVE  ThermalInductive'
  <2>1. /\ t \in Nat /\ t < goalTemp /\ Sampled(t) /\ goalTemp' = goalTemp
        /\ faulted' = TRUE /\ deadline' = 0
    BY <1>4 DEF RunsAway, Temps
  <2>2. Len(samples) > 0 /\ deadline = 1 /\ deadline' = deadline - 1
    BY <1>4, <2>1 DEF RunsAway, DeadlineReached, ThermalInductive, CheckState, CheckTypes
  <2>3. CheckTypes' /\ GoalStands' /\ GoalFollows' /\ Len(samples') > 0
    BY <2>1, <2>2, GoalStandsStill
  <2> QED  BY <2>1, <2>3 DEF ThermalInductive, CheckState
<1>5. CASE UNCHANGED thermalVars
  BY <1>5 DEF thermalVars, ThermalInductive, CheckTypes, CheckState, GoalStands, GoalFollows, GoalIndex
<1> QED  BY <1>1, <1>2, <1>3, <1>4, <1>5 DEF ThermalNext

(* has_fault makes the machine panic only if the water did not gain enough   *)
(* in the deadline's length, and always before twice that length has gone by *)
(* without a gain.                                                           *)
THEOREM VerdictIsAlwaysJust == ThermalSpec => []RunawayVerdict
<1>1. ThermalInit => ThermalInductive
  BY HeatingAssumption
     DEF ThermalInit, ThermalInductive, CheckTypes, CheckState, SampleLimit
<1>2. ThermalInductive => RunawayVerdict
  <2> SUFFICES ASSUME ThermalInductive PROVE RunawayVerdict
    OBVIOUS
  <2> USE HeatingAssumption DEF ThermalInductive, CheckTypes, CheckState
  <2>1. ASSUME faulted
        PROVE  Len(samples) > DeadlineTicks /\ ~GainedSince(Len(samples) - DeadlineTicks)
    <3> DEFINE start == Len(samples) - DeadlineTicks
    <3>1. GoalStands /\ deadline = 0  BY <2>1
    <3>2. GoalIndex = start  BY <3>1 DEF GoalIndex
    <3>3. /\ start \in 1..Len(samples) /\ samples[start] + HeatingGain = goalTemp
          /\ \A j \in 1..Len(samples) : j > start => samples[j] < goalTemp
      BY <3>1, <3>2 DEF GoalStands
    <3>4. ASSUME NEW j \in start..Len(samples), samples[j] >= samples[start] + HeatingGain
          PROVE  FALSE
      <4>1. j # start  BY <3>3, <3>4
      <4>2. j \in 1..Len(samples) /\ j > start  BY <3>3, <4>1
      <4> QED  BY <3>3, <3>4, <4>2
    <3>5. Len(samples) > DeadlineTicks  BY <3>3
    <3> QED  BY <3>4, <3>5 DEF GainedSince
  <2>2. ASSUME Len(samples) = SampleBound, \A i \in 1..SampleBound : ~GainedSince(i), ~faulted
        PROVE  FALSE
    <3>1. GoalFollows /\ GoalIndex >= DeadlineTicks + 2
      BY <2>2 DEF SampleBound, GoalIndex
    <3>2. PICK h \in 1..Len(samples) :
            h < GoalIndex /\ samples[GoalIndex] >= samples[h] + HeatingGain
      BY <3>1 DEF GoalFollows
    <3>3. GoalIndex \in h..Len(samples)  BY <3>2 DEF GoalIndex
    <3>4. GainedSince(h)  BY <3>2, <3>3 DEF GainedSince
    <3> QED  BY <2>2, <3>4
  <2> QED  BY <2>1, <2>2 DEF RunawayVerdict
<1> QED  BY <1>1, <1>2, ThermalStep, PTL DEF ThermalSpec

-----------------------------------------------------------------------------
(* The clock.  A date is a day's number taken apart by divisions; each piece *)
(* is bounded by what the one before left over, and the days of the pieces   *)
(* add up to the number again.                                              *)

\* Days of the years before year y of an era, which begin in March.
DaysOfEra(y) == 365 * y + y \div 4 - y \div 100

LEMMA YearOfEraIs ==
    ASSUME NEW doe \in Int, 0 <= doe, doe <= 146096
    PROVE  /\ YearOfEra(doe) \in Int /\ 0 <= YearOfEra(doe) /\ YearOfEra(doe) <= 399
           /\ DaysOfEra(YearOfEra(doe)) <= doe
           /\ doe < DaysOfEra(YearOfEra(doe) + 1) \/ YearOfEra(doe) = 399
<1> DEFINE y == YearOfEra(doe)
<1>1. y \in Int /\ 0 <= y /\ y <= 399
  BY SMTT(60) DEF YearOfEra
<1>2. DaysOfEra(y) <= doe
  BY SMTT(120) DEF YearOfEra, DaysOfEra
<1>3. doe < DaysOfEra(y + 1) \/ y = 399
  BY SMTT(120) DEF YearOfEra, DaysOfEra
<1> QED  BY <1>1, <1>2, <1>3

\* A year has 365 days, and one more only if the February at its end is long.
LEMMA DayOfYearIs ==
    ASSUME NEW era \in Int, NEW doe \in Int, 0 <= doe, doe <= 146096
    PROVE  LET yoe == YearOfEra(doe)
               doy == DayOfYear(doe, yoe)
           IN  /\ doy \in Int /\ 0 <= doy /\ doy <= 365
               /\ doe = DaysOfEra(yoe) + doy
               /\ doy = 365 => LeapYear(yoe + 400 * era + 1)
<1> DEFINE yoe == YearOfEra(doe)
           doy == DayOfYear(doe, yoe)
<1>1. /\ yoe \in Int /\ 0 <= yoe /\ yoe <= 399
      /\ DaysOfEra(yoe) <= doe
      /\ doe < DaysOfEra(yoe + 1) \/ yoe = 399
  BY YearOfEraIs
<1> HIDE DEF yoe
<1>2. doy \in Int /\ doe = DaysOfEra(yoe) + doy
  BY <1>1 DEF DayOfYear, DaysOfEra
<1> HIDE DEF doy
<1>3. 0 <= doy /\ doy <= 365
  BY <1>1, <1>2 DEF DaysOfEra
<1>4. ASSUME doy = 365 PROVE LeapYear(yoe + 400 * era + 1)
  <2>1. (yoe + 1) % 4 = 0 /\ ((yoe + 1) % 100 # 0 \/ yoe = 399)
    BY <1>1, <1>2, <1>4 DEF DaysOfEra
  <2> DEFINE y == yoe + 400 * era + 1
  <2>2. /\ y \in Int /\ y % 4 = (yoe + 1) % 4 /\ y % 100 = (yoe + 1) % 100
        /\ y % 400 = (yoe + 1) % 400
    BY <1>1
  <2> HIDE DEF y
  <2>3. LeapYear(y)
    BY <1>1, <2>1, <2>2 DEF LeapYear
  <2> QED  BY <2>3 DEF y
<1> QED  BY <1>2, <1>3, <1>4 DEF yoe, doy

\* The months from March on, by the days before them.
LEMMA MonthIs ==
    ASSUME NEW doy \in Int, 0 <= doy, doy <= 365
    PROVE  LET mp == (5 * doy + 2) \div 153
               m == IF mp < 10 THEN mp + 3 ELSE mp - 9
               d == doy - (153 * mp + 2) \div 5 + 1
           IN  /\ d \in Int /\ d >= 1
               /\ \/ m = 3  /\ d <= 31 /\ doy = d - 1
                  \/ m = 4  /\ d <= 30 /\ doy = d + 30
                  \/ m = 5  /\ d <= 31 /\ doy = d + 60
                  \/ m = 6  /\ d <= 30 /\ doy = d + 91
                  \/ m = 7  /\ d <= 31 /\ doy = d + 121
                  \/ m = 8  /\ d <= 31 /\ doy = d + 152
                  \/ m = 9  /\ d <= 30 /\ doy = d + 183
                  \/ m = 10 /\ d <= 31 /\ doy = d + 213
                  \/ m = 11 /\ d <= 30 /\ doy = d + 244
                  \/ m = 12 /\ d <= 31 /\ doy = d + 274
                  \/ m = 1  /\ d <= 31 /\ doy = d + 305
                  \/ m = 2  /\ d <= 29 /\ doy = d + 336
  BY SMTT(60)

\* Counted from January, a date is as many days into its year as the tables say.
LEMMA DayInYear ==
    ASSUME NEW doy \in Int, 0 <= doy, doy <= 365, NEW y \in Int
    PROVE  LET mp == (5 * doy + 2) \div 153
               m == IF mp < 10 THEN mp + 3 ELSE mp - 9
               d == doy - (153 * mp + 2) \div 5 + 1
           IN  /\ m \in 1..12 /\ d \in Int /\ d >= 1
               /\ m > 2 => /\ d <= MonthLength(y, m)
                           /\ DaysBefore(y, m) + d - 1 =
                                59 + doy + (IF LeapYear(y) THEN 1 ELSE 0)
               /\ m <= 2 => /\ (doy = 365 => LeapYear(y)) => d <= MonthLength(y, m)
                            /\ DaysBefore(y, m) + d - 1 = doy - 306
               /\ m <= 2 <=> doy >= 306
<1> DEFINE mp == (5 * doy + 2) \div 153
           m == IF mp < 10 THEN mp + 3 ELSE mp - 9
           d == doy - (153 * mp + 2) \div 5 + 1
<1>1. /\ d \in Int /\ d >= 1
      /\ \/ m = 3  /\ d <= 31 /\ doy = d - 1
         \/ m = 4  /\ d <= 30 /\ doy = d + 30
         \/ m = 5  /\ d <= 31 /\ doy = d + 60
         \/ m = 6  /\ d <= 30 /\ doy = d + 91
         \/ m = 7  /\ d <= 31 /\ doy = d + 121
         \/ m = 8  /\ d <= 31 /\ doy = d + 152
         \/ m = 9  /\ d <= 30 /\ doy = d + 183
         \/ m = 10 /\ d <= 31 /\ doy = d + 213
         \/ m = 11 /\ d <= 30 /\ doy = d + 244
         \/ m = 12 /\ d <= 31 /\ doy = d + 274
         \/ m = 1  /\ d <= 31 /\ doy = d + 305
         \/ m = 2  /\ d <= 29 /\ doy = d + 336
  BY MonthIs
<1>2. /\ DaysBeforeMonth[1] = 0 /\ DaysBeforeMonth[2] = 31 /\ DaysBeforeMonth[3] = 59
      /\ DaysBeforeMonth[4] = 90 /\ DaysBeforeMonth[5] = 120 /\ DaysBeforeMonth[6] = 151
      /\ DaysBeforeMonth[7] = 181 /\ DaysBeforeMonth[8] = 212 /\ DaysBeforeMonth[9] = 243
      /\ DaysBeforeMonth[10] = 273 /\ DaysBeforeMonth[11] = 304 /\ DaysBeforeMonth[12] = 334
  BY DEF DaysBeforeMonth
<1> HIDE DEF m, d
<1>3. m \in 1..12 /\ (m <= 2 <=> doy >= 306)
  BY <1>1
<1>4. ASSUME m > 2
      PROVE  /\ d <= MonthLength(y, m)
             /\ DaysBefore(y, m) + d - 1 = 59 + doy + (IF LeapYear(y) THEN 1 ELSE 0)
  <2> DEFINE leap == IF LeapYear(y) THEN 1 ELSE 0
  <2>1. leap \in Int /\ DaysBefore(y, m) = DaysBeforeMonth[m] + leap
    BY <1>3, <1>4 DEF DaysBefore
  <2> HIDE DEF leap
  <2>2. d <= MonthLength(y, m)
    BY <1>1, <1>4 DEF MonthLength
  <2>3. DaysBeforeMonth[m] + d - 1 = 59 + doy /\ DaysBeforeMonth[m] \in Int
    BY <1>1, <1>2, <1>4
  <2>4. DaysBefore(y, m) + d - 1 = 59 + doy + leap
    BY <1>1, <2>1, <2>3
  <2> QED  BY <2>2, <2>4 DEF leap
<1>5. ASSUME m <= 2
      PROVE  /\ (doy = 365 => LeapYear(y)) => d <= MonthLength(y, m)
             /\ DaysBefore(y, m) + d - 1 = doy - 306
  <2>1. DaysBefore(y, m) = DaysBeforeMonth[m] + 0
    BY <1>3, <1>5 DEF DaysBefore
  <2>2. (doy = 365 => LeapYear(y)) => d <= MonthLength(y, m)
    BY <1>1, <1>5 DEF MonthLength
  <2>3. DaysBeforeMonth[m] + 0 + d - 1 = doy - 306
    BY <1>1, <1>2, <1>5
  <2> QED  BY <2>1, <2>2, <2>3
<1> QED  BY <1>1, <1>3, <1>4, <1>5 DEF m, d

\* A set of numbers that is not empty has a least one.
LEMMA LeastOfNumbers ==
    ASSUME NEW T \in SUBSET Nat, T # {}
    PROVE  \E x \in T : \A y \in T : x <= y
<1> DEFINE R == OpToRel(<, Nat)
<1>1. IsWellFoundedOn(R, Nat)
  BY NatLessThanWellFounded
<1>2. ASSUME NEW m \in Nat, NEW n \in Nat, m < n PROVE <<m, n>> \in R
  BY <1>2 DEF OpToRel
<1> HIDE DEF R
<1>3. PICK x \in T : \A y \in T : ~(<<y, x>> \in R)
  BY <1>1, WFMin, Zenon
<1>4. ASSUME NEW y \in T PROVE x <= y
  <2>1. x \in Nat /\ y \in Nat
    OBVIOUS
  <2>2. ~(y < x)
    BY <2>1, <1>2, <1>3, Zenon
  <2> QED  BY <2>1, <2>2
<1> QED  BY <1>4

\* Leap years: those before a year, in closed form.
LeapDays(y) == y \div 4 - y \div 100 + y \div 400

\* One year on, there is one more leap day if that year is a leap year.
LEMMA LeapDaysStep ==
    ASSUME NEW y \in Int, y >= 0
    PROVE  LeapDays(y + 1) = LeapDays(y) + (IF LeapYear(y + 1) THEN 1 ELSE 0)
<1> DEFINE z == y + 1
<1>1. CASE z % 4 # 0
  <2>1. z \div 4 = y \div 4 /\ z \div 100 = y \div 100 /\ z \div 400 = y \div 400
    BY <1>1
  <2>2. ~LeapYear(z)  BY <1>1 DEF LeapYear
  <2> QED  BY <2>1, <2>2 DEF LeapDays
<1>2. CASE z % 4 = 0 /\ z % 100 # 0
  <2>1. z \div 4 = y \div 4 + 1 /\ z \div 100 = y \div 100 /\ z \div 400 = y \div 400
    BY <1>2
  <2>2. LeapYear(z)  BY <1>2 DEF LeapYear
  <2> QED  BY <2>1, <2>2 DEF LeapDays
<1>3. CASE z % 100 = 0 /\ z % 400 # 0
  <2>1. z \div 4 = y \div 4 + 1 /\ z \div 100 = y \div 100 + 1 /\ z \div 400 = y \div 400
    BY <1>3
  <2>2. ~LeapYear(z)  BY <1>3 DEF LeapYear
  <2> QED  BY <2>1, <2>2 DEF LeapDays
<1>4. CASE z % 400 = 0
  <2>1. z \div 4 = y \div 4 + 1 /\ z \div 100 = y \div 100 + 1 /\ z \div 400 = y \div 400 + 1
    BY <1>4
  <2>2. LeapYear(z)  BY <1>4 DEF LeapYear
  <2> QED  BY <2>1, <2>2 DEF LeapDays
<1>5. z % 4 # 0 => z % 100 # 0 /\ z % 400 # 0
  OBVIOUS
<1>6. z % 100 # 0 => z % 400 # 0
  OBVIOUS
<1> QED  BY <1>1, <1>2, <1>3, <1>4

\* The closed form counts the leap years from 1970 on: there is no least year
\* before which it does not.
LEMMA LeapYearsAreCounted ==
    \A y \in 1970..2110 : LeapYearsBefore[y] = LeapDays(y - 1) - 477
<1> DEFINE leaps(y) == {z \in 1970..(y - 1) : LeapYear(z)}
           Right(y) == IsFiniteSet(leaps(y)) /\ Cardinality(leaps(y)) = LeapDays(y - 1) - 477
           Wrong == {n \in Nat : ~Right(1970 + n)}
<1>1. Right(1970)
  <2>1. leaps(1970) = {}
    <3>1. 1970..(1970 - 1) = {}
      OBVIOUS
    <3> QED  BY <3>1
  <2>2. LeapDays(1970 - 1) - 477 = 0
    BY DEF LeapDays
  <2> QED  BY <2>1, <2>2, FS_EmptySet
<1>2. ASSUME NEW y \in Nat, y >= 1970, Right(y) PROVE Right(y + 1)
  <2>1. leaps(y + 1) = leaps(y) \cup (IF LeapYear(y) THEN {y} ELSE {}) /\ y \notin leaps(y)
    <3>1. 1970..(y + 1 - 1) = (1970..(y - 1)) \cup {y} /\ y \notin 1970..(y - 1)
      BY <1>2
    <3> QED  BY <3>1
  <2>2. LeapDays(y) = LeapDays(y - 1) + (IF LeapYear(y) THEN 1 ELSE 0)
    <3>1. y - 1 \in Int /\ y - 1 >= 0 /\ (y - 1) + 1 = y
      BY <1>2
    <3>2. LeapDays((y - 1) + 1) = LeapDays(y - 1) + (IF LeapYear((y - 1) + 1) THEN 1 ELSE 0)
      BY <3>1, LeapDaysStep
    <3> QED  BY <3>1, <3>2
  <2>3. LeapDays(y - 1) \in Int /\ y + 1 - 1 = y
    BY <1>2 DEF LeapDays
  <2>4. CASE LeapYear(y)
    <3>1. leaps(y + 1) = leaps(y) \cup {y} /\ y \notin leaps(y)
      BY <2>1, <2>4
    <3> HIDE DEF leaps
    <3>2. IsFiniteSet(leaps(y + 1)) /\ Cardinality(leaps(y + 1)) = Cardinality(leaps(y)) + 1
      BY <1>2, <3>1, FS_AddElement
    <3> QED  BY <1>2, <2>2, <2>3, <2>4, <3>2
  <2>5. CASE ~LeapYear(y)
    <3>1. leaps(y + 1) = leaps(y)
      BY <2>1, <2>5
    <3> HIDE DEF leaps
    <3> QED  BY <1>2, <2>2, <2>3, <2>5, <3>1
  <2> QED  BY <2>4, <2>5
<1>3. Wrong = {}
  <2> SUFFICES ASSUME Wrong # {} PROVE FALSE
    OBVIOUS
  <2> HIDE DEF Right
  <2>1. PICK n \in Wrong : \A k \in Wrong : n <= k
    <3>1. Wrong \in SUBSET Nat
      OBVIOUS
    <3> HIDE DEF Wrong
    <3> QED  BY <3>1, LeastOfNumbers
  <2>2. n # 0
    BY <1>1, <2>1
  <2>3. n - 1 \in Nat /\ n - 1 \notin Wrong
    BY <2>1, <2>2
  <2>4. Right(1970 + (n - 1))
    BY <2>3
  <2>5. Right((1970 + (n - 1)) + 1) /\ (1970 + (n - 1)) + 1 = 1970 + n
    BY <1>2, <2>3, <2>4
  <2> QED  BY <2>1, <2>5
<1>4. ASSUME NEW y \in Nat, y >= 1970 PROVE Right(y)
  <2> HIDE DEF Right
  <2>1. PICK n \in Nat : 1970 + n = y
    <3>1. y - 1970 \in Nat /\ 1970 + (y - 1970) = y
      BY <1>4
    <3> QED  BY <3>1
  <2>2. n \notin Wrong
    <3> HIDE DEF Wrong
    <3> QED  BY <1>3
  <2>3. Right(1970 + n)
    BY <2>2
  <2> QED  BY <2>1, <2>3
<1> SUFFICES ASSUME NEW y \in 1970..2110 PROVE LeapYearsBefore[y] = LeapDays(y - 1) - 477
  OBVIOUS
<1>5. LeapYearsBefore[y] = Cardinality(leaps(y))
  <2> DEFINE years == 1970..2110
             f(z) == Cardinality({x \in 1970..(z - 1) : LeapYear(x)})
  <2>1. LeapYearsBefore = [z \in years |-> f(z)]
    BY DEF LeapYearsBefore
  <2>2. y \in years
    OBVIOUS
  <2>3. f(y) = Cardinality(leaps(y))
    OBVIOUS
  <2> HIDE DEF years, f
  <2>4. LeapYearsBefore[y] = f(y)
    BY <2>1, <2>2
  <2> QED  BY <2>3, <2>4
<1>6. y \in Nat /\ y >= 1970
  OBVIOUS
<1>7. Right(y)
  <2> HIDE DEF Right
  <2> QED  BY <1>4, <1>6
<1> HIDE DEF leaps
<1> QED  BY <1>5, <1>7

\* The days of the years that have gone by.
LEMMA NewYearIs ==
    ASSUME NEW y \in Int, 1970 <= y, y <= 2110
    PROVE  NewYear(y) = 365 * (y - 1970) + LeapDays(y - 1) - 477
<1>1. y \in 1970..2110
  OBVIOUS
<1>2. LeapYearsBefore[y] = LeapDays(y - 1) - 477
  BY <1>1, LeapYearsAreCounted
<1>3. LeapDays(y - 1) \in Int
  BY DEF LeapDays
<1> HIDE <1>1
<1> QED  BY <1>2, <1>3 DEF NewYear

\* The date computed is the one of that day, but for the year until February.
LEMMA DateIsRight ==
    ASSUME NEW days \in Int, 0 <= days, days <= 49710
    PROVE  LET date == DateOf(days)
               year == date.year + (IF date.month <= 2 THEN 1 ELSE 0)
           IN  /\ date.month \in 1..12 /\ date.day \in 1..MonthLength(year, date.month)
               /\ NewYear(year) + DaysBefore(year, date.month) + date.day - 1 = days
<1> DEFINE era == (days + 719468) \div 146097
           doe == (days + 719468) % 146097
           yoe == YearOfEra(doe)
           doy == DayOfYear(doe, yoe)
           mp == (5 * doy + 2) \div 153
           m == IF mp < 10 THEN mp + 3 ELSE mp - 9
           d == doy - (153 * mp + 2) \div 5 + 1
           Y == yoe + era * 400
           year == Y + (IF m <= 2 THEN 1 ELSE 0)
<1>1. DateOf(days).year = Y /\ DateOf(days).month = m /\ DateOf(days).day = d
  BY DEF DateOf
<1>2. /\ era \in Int /\ doe \in Int /\ 4 <= era /\ era <= 5
      /\ 0 <= doe /\ doe <= 146096
      /\ days + 719468 = 146097 * era + doe
  OBVIOUS
<1> HIDE DEF era, doe
<1>3. yoe \in Int /\ 0 <= yoe /\ yoe <= 399
  BY <1>2, YearOfEraIs
<1>4. /\ doy \in Int /\ 0 <= doy /\ doy <= 365
      /\ doe = DaysOfEra(yoe) + doy
      /\ doy = 365 => LeapYear(yoe + 400 * era + 1)
  BY <1>2, DayOfYearIs
<1> HIDE DEF yoe, doy
<1>5. Y \in Int /\ 400 * era = era * 400
  BY <1>2, <1>3
<1>6. \A y \in Int :
        /\ m \in 1..12 /\ d \in Int /\ d >= 1
        /\ m > 2 => /\ d <= MonthLength(y, m)
                    /\ DaysBefore(y, m) + d - 1 =
                         59 + doy + (IF LeapYear(y) THEN 1 ELSE 0)
        /\ m <= 2 => /\ (doy = 365 => LeapYear(y)) => d <= MonthLength(y, m)
                     /\ DaysBefore(y, m) + d - 1 = doy - 306
        /\ m <= 2 <=> doy >= 306
  BY <1>4, DayInYear
<1> HIDE DEF mp, m, d
<1>7. m \in 1..12 /\ d \in Int /\ d >= 1 /\ (m <= 2 <=> doy >= 306)
  BY <1>6
<1>8. days = 365 * Y + LeapDays(Y) + doy - 719468
  BY <1>2, <1>3, <1>4 DEF DaysOfEra, LeapDays
<1>9. 1969 <= Y /\ Y <= 2109 /\ (doy < 306 => 1970 <= Y)
  BY <1>4, <1>5, <1>8 DEF LeapDays
<1> HIDE DEF Y
<1>10. CASE m > 2
  <2>1. year = Y /\ 1970 <= Y
    BY <1>4, <1>5, <1>7, <1>9, <1>10
  <2>2. NewYear(Y) = 365 * (Y - 1970) + LeapDays(Y - 1) - 477
    BY <1>5, <1>9, <2>1, NewYearIs
  <2>3. d <= MonthLength(Y, m)
        /\ DaysBefore(Y, m) + d - 1 = 59 + doy + (IF LeapYear(Y) THEN 1 ELSE 0)
    BY <1>5, <1>6, <1>10
  <2> DEFINE leap == IF LeapYear(Y) THEN 1 ELSE 0
  <2>4. LeapDays(Y) = LeapDays(Y - 1) + leap
    <3>1. Y - 1 \in Int /\ Y - 1 >= 0 /\ (Y - 1) + 1 = Y
      BY <1>5, <2>1
    <3>2. LeapDays((Y - 1) + 1) = LeapDays(Y - 1) + (IF LeapYear((Y - 1) + 1) THEN 1 ELSE 0)
      BY <3>1, LeapDaysStep
    <3> QED  BY <3>1, <3>2
  <2>5. leap \in Int /\ DaysBefore(Y, m) + d - 1 = 59 + doy + leap
    BY <2>3
  <2> HIDE DEF leap
  <2>6. LeapDays(Y) \in Int /\ LeapDays(Y - 1) \in Int
    BY <1>5 DEF LeapDays
  <2>7. NewYear(Y) + (DaysBefore(Y, m) + d - 1) = days
    BY <1>4, <1>5, <1>8, <2>2, <2>4, <2>5, <2>6
  <2>8. DaysBefore(Y, m) \in Int /\ NewYear(Y) \in Int
    BY <1>5, <1>7, <2>2, <2>6 DEF DaysBefore, DaysBeforeMonth
  <2>9. NewYear(Y) + DaysBefore(Y, m) + d - 1 = days
    BY <1>7, <2>7, <2>8
  <2>10. MonthLength(Y, m) \in Int
    BY DEF MonthLength
  <2>11. d \in 1..MonthLength(Y, m)
    BY <1>7, <2>3, <2>10
  <2> HIDE DEF year
  <2> QED  BY <1>1, <1>7, <2>1, <2>9, <2>11 DEF year
<1>11. CASE m <= 2
  <2>1. year = Y + 1
    BY <1>5, <1>11
  <2>2. NewYear(Y + 1) = 365 * (Y + 1 - 1970) + LeapDays(Y + 1 - 1) - 477
    BY <1>5, <1>9, NewYearIs
  <2>3. doy = 365 => LeapYear(Y + 1)
    BY <1>4, <1>5 DEF Y
  <2>4. d <= MonthLength(Y + 1, m) /\ DaysBefore(Y + 1, m) + d - 1 = doy - 306
    BY <1>5, <1>6, <1>11, <2>3
  <2>5. LeapDays(Y) \in Int /\ Y + 1 - 1 = Y
    BY <1>5 DEF LeapDays
  <2>6. NewYear(Y + 1) + (DaysBefore(Y + 1, m) + d - 1) = days
    BY <1>4, <1>5, <1>8, <2>2, <2>4, <2>5
  <2>7. DaysBefore(Y + 1, m) \in Int /\ NewYear(Y + 1) \in Int
    BY <1>5, <1>7, <2>2, <2>5 DEF DaysBefore, DaysBeforeMonth
  <2>8. NewYear(Y + 1) + DaysBefore(Y + 1, m) + d - 1 = days
    BY <1>7, <2>6, <2>7
  <2>9. MonthLength(Y + 1, m) \in Int
    BY DEF MonthLength
  <2>10. d \in 1..MonthLength(Y + 1, m)
    BY <1>7, <2>4, <2>9
  <2> QED  BY <1>1, <1>7, <2>1, <2>8, <2>10
<1> QED  BY <1>7, <1>10, <1>11

\* What the server sent is kept, and the clock was computed from it.
ClockInductive ==
  rtc # Unset =>
    \E days \in 0..LastDay, sod \in Sods :
      /\ heard = [days |-> days, sod |-> sod]
      /\ rtc = [date |-> DateOf(days), time |-> TimeOf(sod)]

\* What is computed from a time is right about that time.
LEMMA ClockHolds == ClockInductive => CalendarAgrees
<1> SUFFICES ASSUME ClockInductive, rtc # Unset PROVE CalendarAgrees
  BY DEF CalendarAgrees
<1>1. PICK days \in 0..LastDay, sod \in Sods :
        /\ heard = [days |-> days, sod |-> sod]
        /\ rtc = [date |-> DateOf(days), time |-> TimeOf(sod)]
  BY DEF ClockInductive
<1>2. /\ heard.days = days /\ heard.sod = sod
      /\ rtc.date = DateOf(days) /\ rtc.time = TimeOf(sod)
  BY <1>1
<1>3. days \in Int /\ 0 <= days /\ days <= 49710
  <2>1. LastDay \in Int /\ LastDay <= 49710
    BY CalendarAssumption
  <2> QED  BY <2>1
<1>4. sod \in Int /\ 0 <= sod
  BY CalendarAssumption
<1>5. LET year == DateOf(days).year + (IF DateOf(days).month <= 2 THEN 1 ELSE 0)
      IN  /\ DateOf(days).month \in 1..12
          /\ DateOf(days).day \in 1..MonthLength(year, DateOf(days).month)
          /\ NewYear(year) + DaysBefore(year, DateOf(days).month) + DateOf(days).day - 1 = days
  BY <1>3, DateIsRight
<1>6. /\ TimeOf(sod).min \in 0..59 /\ TimeOf(sod).sec \in 0..59
      /\ 3600 * TimeOf(sod).hour + 60 * TimeOf(sod).min + TimeOf(sod).sec = sod
  BY <1>4 DEF TimeOf
<1> QED  BY <1>2, <1>5, <1>6 DEF CalendarAgrees

\* The clock shows the day and the time that the server sent, the year being one
\* too small in January and February: on every day that 32 bits can name and at
\* every second.
THEOREM ClockAlwaysAgrees == CalendarSpec => []CalendarAgrees
<1>1. CalendarInit => ClockInductive
  BY DEF CalendarInit, ClockInductive
<1>2. ClockInductive /\ [CalendarNext]_calendarVars => ClockInductive'
  <2> SUFFICES ASSUME ClockInductive, [CalendarNext]_calendarVars PROVE ClockInductive'
    OBVIOUS
  <2>1. CASE SetSystemTime
    BY <2>1 DEF SetSystemTime, ClockInductive
  <2>2. CASE UNCHANGED <<heard, rtc>>
    BY <2>2 DEF ClockInductive
  <2> QED  BY <2>1, <2>2 DEF CalendarNext, InitClock, calendarVars
<1> QED  BY <1>1, <1>2, ClockHolds, PTL DEF CalendarSpec

-----------------------------------------------------------------------------
(* The dimmer and the click counter, for every full cycle's worth, every     *)
(* set of requests and any number of pulses.                                 *)

(* While set() is under way its set value is its argument, cut off.          *)
SetValueFollows == setting # -1 => setValue = (IF setting < MaxValue THEN setting ELSE MaxValue)

(* The cycle that passes is in the accumulator's balance before it is        *)
(* counted.                                                                  *)
Balance ==
  /\ counting = -1 => fired * MaxValue + accumulator = demand
  /\ counting # -1 => (fired + 1) * MaxValue + accumulator = demand

(* What is in a register of the handler or of core 0 has not been handed     *)
(* out, even if core 1 zeroes the counter meanwhile.                         *)
NothingTwice ==
  /\ taken + counter <= fired
  /\ counting # -1 => taken + counting <= fired
  /\ reading["core0"] # -1 => taken + reading["core0"] <= fired

(* Without a meeting a register holds what the counter holds.                *)
NothingLost ==
  ~overlapped =>
    /\ ~Meeting
    /\ counting # -1 => counting = counter
    /\ \A c \in Readers : reading[c] # -1 => reading[c] = counter
    /\ taken + discarded + counter = fired

DimmerTypeOK ==
  /\ setValue \in 0..MaxValue /\ accumulator \in 0..(MaxValue - 1) /\ divider \in 0..1
  /\ pin \in BOOLEAN /\ dark \in BOOLEAN
  /\ setting \in Nat \cup {-1} /\ demand \in Nat

CounterTypeOK ==
  /\ counter \in Nat /\ fired \in Nat /\ taken \in Nat /\ discarded \in Nat
  /\ counting \in Nat \cup {-1}
  /\ reading \in [Readers -> Nat \cup {-1}]
  /\ overlapped \in BOOLEAN

PsmInductive ==
  /\ DimmerTypeOK /\ CounterTypeOK
  /\ SetValueFollows /\ OffIsOff /\ Balance /\ NothingTwice /\ NothingLost

-----------------------------------------------------------------------------
LEMMA PsmStarts == PsmInit => PsmInductive
<1> SUFFICES ASSUME PsmInit PROVE PsmInductive
  OBVIOUS
<1> USE DimmerAssumption DEF PsmInit
<1>1. DimmerTypeOK
  <2>1. pin \in BOOLEAN /\ dark \in BOOLEAN  BY Zenon
  <2> QED  BY <2>1 DEF DimmerTypeOK
<1>2. CounterTypeOK  BY DEF CounterTypeOK, Readers
<1>3. SetValueFollows /\ OffIsOff /\ Balance /\ NothingTwice
  BY DEF SetValueFollows, OffIsOff, Balance, NothingTwice, Readers
<1>4. NothingLost
  <2>1. ~Meeting /\ \A c \in Readers : reading[c] = -1  BY DEF Meeting, Readers
  <2> QED  BY <2>1 DEF NothingLost
<1> QED  BY <1>1, <1>2, <1>3, <1>4 DEF PsmInductive

(* The dimmer's own variables do not depend on what the cores do to the      *)
(* counter, except that the handler counts the cycle it has let pass.        *)
LEMMA DimmerStep ==
  ASSUME PsmInductive, [PsmNext]_psmVars
  PROVE  DimmerTypeOK' /\ SetValueFollows' /\ OffIsOff' /\ Balance'
<1> USE DimmerAssumption
<1> USE DEF PsmInductive, DimmerTypeOK, CounterTypeOK, counterVars
<1>1. ASSUME NEW v \in Requests, Set(v)
      PROVE  DimmerTypeOK' /\ SetValueFollows' /\ OffIsOff' /\ Balance'
  <2>1. v \in Nat  BY <1>1
  <2> QED  BY <1>1, <2>1 DEF Set, SetValueFollows, OffIsOff, Balance
<1>2. CASE SetDone
  <2>1. pin' \in BOOLEAN  BY <1>2, Zenon DEF SetDone
  <2>2. setValue = 0 => LowerPin
    BY <1>2 DEF SetDone, SetValueFollows, LowerPin
  <2>3. OffIsOff'  BY <1>2, <2>2, Zenon DEF SetDone, OffIsOff
  <2>4. SetValueFollows' /\ Balance'  BY <1>2 DEF SetDone, SetValueFollows, Balance
  <2> QED  BY <1>2, <2>1, <2>3, <2>4 DEF SetDone
<1>3. CASE SkipCrossing
  BY <1>3 DEF SkipCrossing, SetValueFollows, OffIsOff, Balance
<1>4. CASE HoldBack
  <2>1. accumulator + setValue \in 0..(MaxValue - 1)  BY <1>4 DEF HoldBack
  <2>2. SetValueFollows' /\ OffIsOff'  BY <1>4 DEF HoldBack, SetValueFollows, OffIsOff
  <2>3. Balance'
    <3>1. fired * MaxValue \in Int  OBVIOUS
    <3>2. counting = -1 /\ counting' = -1 /\ fired' = fired
      BY <1>4 DEF HoldBack, Core0Runs
    <3>3. fired * MaxValue + (accumulator + setValue) = demand + setValue
      BY <3>1, <3>2 DEF Balance
    <3> QED  BY <3>2, <3>3, <1>4 DEF HoldBack, Balance
  <2>4. pin' \in BOOLEAN /\ dark' \in BOOLEAN  BY <1>4, Zenon DEF HoldBack
  <2>5. DimmerTypeOK'  BY <1>4, <2>1, <2>4 DEF HoldBack
  <2> QED  BY <2>2, <2>3, <2>5
<1>5. CASE LetPass
  <2>1. setValue > 0 /\ Remainder \in 0..(MaxValue - 1)  BY <1>5 DEF LetPass, Remainder
  <2>2. SetValueFollows' /\ OffIsOff'  BY <1>5, <2>1 DEF LetPass, SetValueFollows, OffIsOff
  <2>3. Balance'
    <3>1. (fired + 1) * MaxValue = fired * MaxValue + MaxValue /\ fired * MaxValue \in Int
      OBVIOUS
    <3>2. counting = -1 /\ counting' = counter /\ counter # -1 /\ fired' = fired
      BY <1>5 DEF LetPass, Core0Runs
    <3>3. (fired + 1) * MaxValue + Remainder = demand + setValue
      BY <3>1, <3>2 DEF Balance, Remainder
    <3> QED  BY <3>2, <3>3, <1>5 DEF LetPass, Balance
  <2> QED  BY <1>5, <2>1, <2>2, <2>3 DEF LetPass
<1>6. CASE Count
  BY <1>6 DEF Count, SetValueFollows, OffIsOff, Balance
<1>7. CASE Brighten
  BY <1>7 DEF Brighten, SetValueFollows, OffIsOff, Balance
<1>8. ASSUME NEW c \in Readers, Load(c) \/ Zero(c)
      PROVE  DimmerTypeOK' /\ SetValueFollows' /\ OffIsOff' /\ Balance'
  BY <1>8 DEF Load, Zero, SetValueFollows, OffIsOff, Balance
<1>9. CASE UNCHANGED psmVars
  BY <1>9 DEF psmVars, SetValueFollows, OffIsOff, Balance
<1> QED  BY <1>1, <1>2, <1>3, <1>4, <1>5, <1>6, <1>7, <1>8, <1>9 DEF PsmNext

(* The counter, between the handler and two readers. *)
LEMMA CounterStep ==
  ASSUME PsmInductive, [PsmNext]_psmVars
  PROVE  CounterTypeOK' /\ NothingTwice' /\ NothingLost'
<1> USE DEF PsmInductive, CounterTypeOK, counterVars
<1>1. CASE UNCHANGED counterVars
  BY <1>1 DEF NothingTwice, NothingLost, Meeting, Readers
<1>2. CASE LetPass
  <2>1. counting = -1 /\ counting' = counter /\ counter \in Nat
        /\ UNCHANGED <<counter, reading, fired, taken, discarded>>
    BY <1>2 DEF LetPass, Core0Runs
  <2>2. overlapped' \in BOOLEAN /\ (~overlapped' => ~overlapped /\ ~Meeting')
    BY <1>2, Zenon DEF LetPass, NoteMeeting, Meeting
  <2>3. NothingTwice'  BY <2>1 DEF NothingTwice, Readers
  <2>4. NothingLost'  BY <2>1, <2>2 DEF NothingLost
  <2> QED  BY <2>1, <2>2, <2>3, <2>4
<1>3. CASE Count
  <2>1. counting \in Nat /\ counting' = -1 /\ counter' = counting + 1 /\ fired' = fired + 1
        /\ UNCHANGED <<reading, taken, discarded, overlapped>>
    BY <1>3 DEF Count
  <2>2. NothingTwice'  BY <2>1 DEF NothingTwice, Readers
  <2>3. NothingLost'
    <3> SUFFICES ASSUME ~overlapped PROVE NothingLost'
      BY <2>1 DEF NothingLost
    <3>1. \A c \in Readers : reading[c] = -1  BY <1>3 DEF Count, NothingLost, Meeting
    <3>2. counting = counter /\ taken + discarded + counter = fired
      BY <1>3 DEF Count, NothingLost
    <3>3. ~Meeting'  BY <2>1, <3>1 DEF Meeting, Readers
    <3>4. taken' + discarded' + counter' = fired'  BY <2>1, <3>2
    <3> QED  BY <2>1, <3>1, <3>3, <3>4 DEF NothingLost
  <2> QED  BY <2>1, <2>2, <2>3
<1>4. ASSUME NEW c \in Readers, Load(c)
      PROVE  CounterTypeOK' /\ NothingTwice' /\ NothingLost'
  <2>1. reading' = [reading EXCEPT ![c] = counter] /\ reading[c] = -1
        /\ UNCHANGED <<counter, counting, fired, taken, discarded>>
    BY <1>4 DEF Load
  <2>2. overlapped' \in BOOLEAN /\ (~overlapped' => ~overlapped /\ ~Meeting')
    BY <1>4, Zenon DEF Load, NoteMeeting, Meeting
  <2>3. reading' \in [Readers -> Nat \cup {-1}]  BY <2>1
  <2>4. NothingTwice'  BY <2>1 DEF NothingTwice, Readers
  <2>5. NothingLost'
    <3> SUFFICES ASSUME ~overlapped' PROVE NothingLost'
      BY DEF NothingLost
    <3>1. \A d \in Readers : reading'[d] # -1 => reading'[d] = counter'
      BY <2>1, <2>2 DEF NothingLost
    <3> QED  BY <2>1, <2>2, <3>1 DEF NothingLost
  <2> QED  BY <2>1, <2>2, <2>3, <2>4, <2>5
<1>5. ASSUME NEW c \in Readers, Zero(c)
      PROVE  CounterTypeOK' /\ NothingTwice' /\ NothingLost'
  <2>1. reading[c] \in Nat /\ reading' = [reading EXCEPT ![c] = -1] /\ counter' = 0
        /\ UNCHANGED <<counting, fired, overlapped>>
    BY <1>5 DEF Zero
  <2>2. reading' \in [Readers -> Nat \cup {-1}]  BY <2>1
  <2>3. CASE c = "core0"
    <3>1. taken' = taken + reading[c] /\ discarded' = discarded /\ counting = -1
      BY <1>5, <2>3 DEF Zero, MayRun, Core0Runs
    <3>2. NothingTwice'  BY <2>1, <2>3, <3>1 DEF NothingTwice, Readers
    <3>3. NothingLost'
      BY <2>1, <2>3, <3>1 DEF NothingLost, Meeting, Readers
    <3> QED  BY <2>1, <2>2, <3>1, <3>2, <3>3
  <2>4. CASE c = "core1"
    <3>1. discarded' = discarded + reading[c] /\ taken' = taken
      BY <1>5, <2>4 DEF Zero
    <3>2. NothingTwice'  BY <2>1, <2>4, <3>1 DEF NothingTwice, Readers
    <3>3. NothingLost'
      BY <2>1, <2>4, <3>1 DEF NothingLost, Meeting, Readers
    <3> QED  BY <2>1, <2>2, <3>1, <3>2, <3>3
  <2> QED  BY <2>3, <2>4 DEF Readers
<1> QED
  BY <1>1, <1>2, <1>3, <1>4, <1>5
     DEF PsmNext, psmVars, Set, SetDone, SkipCrossing, HoldBack, Brighten

(* Dimmer and counter together are inductive. *)
THEOREM PsmInvariance == PsmSpec => []PsmInductive
<1>1. PsmInductive /\ [PsmNext]_psmVars => PsmInductive'
  BY DimmerStep, CounterStep DEF PsmInductive
<1> QED  BY PsmStarts, <1>1, PTL DEF PsmSpec

(* An output set to zero is off once set() has returned, and stays off:      *)
(* set() and zero_crossing_handler, at any point of one another.             *)
THEOREM OffIsAlwaysOff == PsmSpec => []OffIsOff
<1>1. PsmInductive => OffIsOff  BY DEF PsmInductive
<1> QED  BY PsmInvariance, <1>1, PTL

(* The cycles zero_crossing_handler lets pass are the demand in full cycles, *)
(* over any sequence of set values: the remainder is carried on.             *)
THEOREM PulsesAlwaysFollowDemand == PsmSpec => []PulsesFollowDemand
<1>1. PsmInductive => PulsesFollowDemand
  BY DimmerAssumption DEF PsmInductive, DimmerTypeOK, Balance, PulsesFollowDemand
<1> QED  BY PsmInvariance, <1>1, PTL

(* get_and_reset_pump_clicks on two cores and the handler never count a      *)
(* click twice, and lose one only if two of them met.                        *)
THEOREM ClicksAreAlwaysCountedOnce == PsmSpec => []ClicksAreCountedOnce
<1>1. PsmInductive => ClicksAreCountedOnce
  BY DEF PsmInductive, NothingTwice, NothingLost, ClicksAreCountedOnce
<1> QED  BY PsmInvariance, <1>1, PTL
=============================================================================
