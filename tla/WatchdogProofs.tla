--------------------------- MODULE WatchdogProofs ---------------------------
(***************************************************************************)
(* For every choice of the periods that meets TicksAssumption: a board on  *)
(* which nothing hangs is never reset, and a hang is always noticed.       *)
(***************************************************************************)
EXTENDS Watchdog, TLAPS

BothRun == stalled = {} /\ panicking = "none"

(* How hungry the watchdog may be while both loops run.  Between two         *)
(* feedings lie at most one round, in which the flag was down, and then the  *)
(* time until core 0 can see it up again.                                    *)
FedInTime ==
  BothRun =>
    /\ sinceLook <= Pass
    /\ ~enabled => hungry <= sinceLook + written
    /\ enabled => /\ sinceBeat <= Round
                  /\ aliveMutex = "core1" => sinceBeat <= Hold
                  /\ ~alive => hungry <= sinceBeat + Pass + written
                  /\ alive => hungry <= Round + Pass + sinceBeat + written
                  /\ alive /\ aliveMutex = "free" => sinceBeat <= Hold + sinceLook

FedInPanic ==
  stalled = {} /\ panicking # "none" =>
    /\ sinceLook <= PanicPass
    /\ hungry <= Round + 2 * Pass + Hold + Writing + sinceLook

(* The flag a hung core 1 left up, where core 0 can still take it. *)
LastFeeding == alive /\ aliveMutex = "free" /\ Works("core0")

Noticing ==
  /\ ~Watching => unnoticed = 0
  /\ unnoticed <= hungry + Pass
  /\ LastFeeding => unnoticed <= sinceLook
  /\ Works("core0") => sinceLook <= Pass

DogInductive ==
  /\ WatchdogTypeOK
  /\ written <= Writing /\ hungry <= Period
  /\ ~enabled => ~alive /\ aliveMutex = "free"
  /\ FedInTime /\ FedInPanic /\ Noticing

-----------------------------------------------------------------------------
LEMMA TicksAreNatural ==
  /\ Period \in Nat /\ Pass \in Nat /\ Sleep \in Nat /\ Round \in Nat
  /\ Hold \in Nat /\ Writing \in Nat /\ PanicPass \in Nat
  /\ Pass + Hold < Sleep /\ Sleep <= Round
  /\ Round + 2 * Pass + Hold + Writing + PanicPass < Period
BY TicksAssumption

(* The bounds are tight enough: both invariants imply that no bite is due. *)
LEMMA FedBeforeThePeriod ==
  ASSUME DogInductive, stalled = {}
  PROVE  hungry + PanicPass < Period \/ (panicking # "none" /\ hungry < Period)
<1> USE TicksAreNatural
<1> USE DEF DogInductive, WatchdogTypeOK
<1>1. CASE panicking = "none"
  <2>1. sinceLook <= Pass /\ (~enabled => hungry <= sinceLook + written)
    BY <1>1 DEF FedInTime, BothRun
  <2>2. CASE ~enabled  BY <2>1, <2>2
  <2>3. CASE enabled
    <3>1. /\ sinceBeat <= Round /\ (aliveMutex = "core1" => sinceBeat <= Hold)
          /\ ~alive => hungry <= sinceBeat + Pass + written
          /\ alive => hungry <= Round + Pass + sinceBeat + written
          /\ alive /\ aliveMutex = "free" => sinceBeat <= Hold + sinceLook
      BY <1>1, <2>3 DEF FedInTime, BothRun
    <3>2. CASE ~alive  BY <3>1, <3>2
    <3>3. CASE alive
      <4>1. sinceBeat <= Hold + Pass  BY <2>1, <3>1, <3>3
      <4> QED  BY <4>1, <3>1, <3>3
    <3> QED  BY <3>2, <3>3
  <2> QED  BY <2>2, <2>3
<1>2. CASE panicking # "none"
  BY <1>2 DEF FedInPanic
<1> QED  BY <1>1, <1>2

LEMMA WatchdogStarts == WatchdogInit => DogInductive
<1> SUFFICES ASSUME WatchdogInit PROVE DogInductive
  OBVIOUS
<1> USE TicksAreNatural DEF WatchdogInit
<1>1. WatchdogTypeOK  BY DEF WatchdogTypeOK, WatchedCores
<1>2. FedInTime /\ FedInPanic  BY DEF FedInTime, FedInPanic
<1>3. Noticing  BY DEF Noticing, Watching, LastFeeding
<1> QED  BY <1>1, <1>2, <1>3 DEF DogInductive

(* One step of either core, of the environment or of the watchdog. *)
LEMMA WatchdogStep == DogInductive /\ [WatchdogNext]_watchdogVars => DogInductive'
<1> SUFFICES ASSUME DogInductive, [WatchdogNext]_watchdogVars PROVE DogInductive'
  OBVIOUS
<1> USE TicksAreNatural
<1> USE DEF DogInductive, WatchdogTypeOK, WatchedCores
<1>1. CASE Look
  <2>1. FedInTime'
    BY <1>1 DEF Look, FeedForBoth, FeedDog, FedInTime, BothRun, Works
  <2>2. FedInPanic'
    BY <1>1 DEF Look, FedInPanic, Works
  <2>3. Noticing'
    BY <1>1 DEF Look, FeedForBoth, FeedDog, Noticing, Watching, LastFeeding, Works, InPanic
  <2>4. WatchdogTypeOK'
    <3>1. alive' \in BOOLEAN  BY <1>1, Zenon DEF Look, FeedForBoth
    <3>2. hungry' \in Nat /\ written' \in Nat  BY <1>1 DEF Look, FeedForBoth, FeedDog
    <3> QED  BY <3>1, <3>2, <1>1 DEF Look
  <2>5. written' <= Writing /\ hungry' <= Period
    BY <1>1 DEF Look, FeedForBoth, FeedDog
  <2>6. ~enabled' => ~alive' /\ aliveMutex' = "free"
    BY <1>1, Zenon DEF Look, FeedForBoth
  <2> QED  BY <2>1, <2>2, <2>3, <2>4, <2>5, <2>6
<1>2. CASE Enable
  <2>1. FedInTime'
    BY <1>2 DEF Enable, FedInTime, BothRun, Works
  <2>2. FedInPanic' /\ Noticing'
    BY <1>2 DEF Enable, FedInPanic, Noticing, Watching, LastFeeding, Works, InPanic
  <2> QED  BY <2>1, <2>2, <1>2 DEF Enable
<1>3. CASE Beat
  <2>1. FedInTime'
    <3> SUFFICES ASSUME BothRun PROVE FedInTime'
      BY <1>3 DEF Beat, FedInTime, BothRun
    <3>1. ~alive
      BY <1>3 DEF Beat, FedInTime
    <3> QED  BY <3>1, <1>3 DEF Beat, FedInTime, BothRun
  <2>2. FedInPanic' /\ Noticing'
    BY <1>3 DEF Beat, FedInPanic, Noticing, Watching, LastFeeding, Works, InPanic
  <2> QED  BY <2>1, <2>2, <1>3 DEF Beat
<1>4. CASE Release
  <2>1. FedInTime' /\ FedInPanic'
    BY <1>4 DEF Release, FedInTime, BothRun, Works, FedInPanic
  <2>2. Works("core0") => stalled = {}
    BY <1>4 DEF Release, Works
  <2>3. Noticing'
    <3>1. Watching' = Watching  BY <1>4 DEF Release, Watching, InPanic
    <3>2. Works("core0") => unnoticed = 0  BY <2>2 DEF Noticing, Watching
    <3>3. Works("core0")' = Works("core0")  BY <1>4 DEF Release, Works
    <3> QED  BY <3>1, <3>2, <3>3, <1>4 DEF Release, Noticing, LastFeeding
  <2> QED  BY <2>1, <2>3, <1>4 DEF Release
<1>5. CASE Tick
  <2>1. FedInTime'
    BY <1>5 DEF Tick, FedInTime, BothRun, Works
  <2>2. FedInPanic'
    BY <1>5 DEF Tick, FedInPanic, InPanic
  <2>3. Noticing'
    BY <1>5 DEF Tick, Unnoticed, Noticing, Watching, LastFeeding, Works, InPanic
  <2> QED  BY <2>1, <2>2, <2>3, <1>5 DEF Tick, Unnoticed
<1>6. CASE WriteTick
  <2>1. FedInTime' /\ FedInPanic'
    BY <1>6 DEF WriteTick, FedInTime, BothRun, FedInPanic, Works
  <2>2. Noticing'
    <3>1. Watching' = Watching  BY <1>6 DEF WriteTick, Watching, InPanic
    <3>2. Works("core0") => unnoticed = 0 /\ unnoticed' = 0
      BY <1>6 DEF WriteTick, Unnoticed, Noticing, Watching, Works
    <3>3. Works("core0")' = Works("core0")  BY <1>6 DEF WriteTick, Works
    <3> QED  BY <3>1, <3>2, <3>3, <1>6 DEF WriteTick, Unnoticed, Noticing, LastFeeding
  <2> QED  BY <2>1, <2>2, <1>6 DEF WriteTick, Unnoticed
<1>7. CASE Bite
  <2>1. WatchdogInit'  BY <1>7 DEF Bite, WatchdogInit
  <2>2. WatchdogTypeOK'  BY <2>1 DEF WatchdogInit
  <2>3. FedInTime' /\ FedInPanic'  BY <2>1 DEF WatchdogInit, FedInTime, FedInPanic
  <2>4. Noticing'  BY <2>1 DEF WatchdogInit, Noticing, Watching, LastFeeding
  <2> QED  BY <2>1, <2>2, <2>3, <2>4 DEF WatchdogInit
<1>8. ASSUME NEW c \in WatchedCores, EnterPanic(c) PROVE DogInductive'
  <2>1. FedInPanic'
    BY <1>8, FedBeforeThePeriod DEF EnterPanic, FedInPanic, Works, FedInTime, BothRun
  <2>2. FedInTime' /\ Noticing'
    BY <1>8 DEF EnterPanic, FedInTime, BothRun, Noticing, Watching, LastFeeding, Works, InPanic
  <2> QED  BY <2>1, <2>2, <1>8 DEF EnterPanic
<1>9. ASSUME NEW c \in WatchedCores, PanicFeeds(c) PROVE DogInductive'
  BY <1>9 DEF PanicFeeds, FeedDog, FedInTime, BothRun, FedInPanic, Noticing, Watching, LastFeeding, Works, InPanic
<1>10. ASSUME NEW c \in WatchedCores, Stall(c) PROVE DogInductive'
  BY <1>10 DEF Stall, FedInTime, BothRun, FedInPanic, Noticing, Watching, LastFeeding, Works, InPanic
<1>11. CASE UNCHANGED watchdogVars
  BY <1>11 DEF watchdogVars, FedInTime, BothRun, FedInPanic, Noticing, Watching, LastFeeding, Works, InPanic
<1> QED
  BY <1>1, <1>2, <1>3, <1>4, <1>5, <1>6, <1>7, <1>8, <1>9, <1>10, <1>11 DEF WatchdogNext

THEOREM WatchdogInvariance == WatchdogSpec => []DogInductive
BY WatchdogStarts, WatchdogStep, PTL DEF WatchdogSpec

(* No reset while both cores run: main_loop feeds for core 1 in time. *)
THEOREM OnlyAHangAlwaysBites == WatchdogSpec => []OnlyAHangBites
<1>1. DogInductive => OnlyAHangBites
  BY FedBeforeThePeriod, TicksAreNatural DEF OnlyAHangBites, DogInductive, WatchdogTypeOK
<1> QED  BY <1>1, WatchdogInvariance, PTL

(* A hang of either core ends in a reset within a period and a pass. *)
THEOREM HangsAreAlwaysNoticed == WatchdogSpec => []HangsAreNoticed
<1>1. DogInductive => HangsAreNoticed
  BY TicksAreNatural DEF HangsAreNoticed, DogInductive, WatchdogTypeOK, Noticing
<1> QED  BY <1>1, WatchdogInvariance, PTL
=============================================================================
