---------------------------- MODULE BoardProofs ----------------------------
(***************************************************************************)
(* The safety properties of the board, for any fields and values of the    *)
(* settings, with resets at any point.                                     *)
(***************************************************************************)
EXTENDS BoardProperties, TLAPS

(* The order in which the board comes up. *)
BootOrder ==
  /\ main0 \in Booting => main1 = "absent"
  /\ irq # "idle" => main1 \in {"loop", "lock", "shake", "panic"}
  /\ main1 \in {"absent", "begin", "connect"} => told = Nothing /\ copied = {}

(* An update that is past its handshake has the other core, and keeps it. *)
LockoutHolds == irq \in {"erase", "program", "release"} => held = "core0"

(* How far an update has come. *)
UpdateStages ==
  /\ main0 \in {"erase", "program"} => ram = Whole(DefaultValue)
  /\ irq = "assign" => \A f \in incoming.done : ram[f] = incoming.value
  /\ irq \notin {"idle", "assign"} => ram = Whole(incoming.value)
  /\ irq = "release" => flash = incoming.value

(* An announcement that is being serialised is either the last one, and then *)
(* no update has come since it began, or another one follows.                *)
AnnouncementsFollow ==
  /\ queued = 0 => copied = {}
  /\ irq = "idle" /\ queued = 1 => \A f \in copied : told[f] = ram[f]

BoardInductive ==
  /\ BoardTypeOK /\ BootOrder /\ LockoutHolds /\ UpdateStages
  /\ InForceIsStored /\ AnnouncementsFollow /\ ToldIsInForce

-----------------------------------------------------------------------------
(* Equal fields make equal settings. *)
LEMMA SameFields ==
  ASSUME NEW r, NEW t, NEW S, r \in [Fields -> S], t \in [Fields -> S],
         \A f \in Fields : t[f] = r[f]
  PROVE  t = r
OBVIOUS

LEMMA BoardStarts == BoardInit => BoardInductive
<1> SUFFICES ASSUME BoardInit PROVE BoardInductive
  OBVIOUS
<1> USE ValuesAssumption DEF BoardInit
<1>1. BoardTypeOK  BY DEF BoardTypeOK, Booting, Whole, Nothing
<1>2. BootOrder /\ LockoutHolds /\ UpdateStages  BY DEF BootOrder, LockoutHolds, UpdateStages
<1>3. InForceIsStored  BY DEF InForceIsStored, Booting
<1>4. AnnouncementsFollow /\ ToldIsInForce  BY DEF AnnouncementsFollow, ToldIsInForce
<1> QED  BY <1>1, <1>2, <1>3, <1>4 DEF BoardInductive

(* A reset restores every variable but the flash, and the flash is typed. *)
LEMMA ResetKeeps == BoardInductive /\ Booted /\ UNCHANGED flash => BoardInductive'
<1> SUFFICES ASSUME BoardInductive, Booted, UNCHANGED flash PROVE BoardInductive'
  OBVIOUS
<1> USE ValuesAssumption DEF Booted
<1>1. BoardTypeOK'  BY DEF BoardInductive, BoardTypeOK, Booting, Whole, Nothing
<1>2. BootOrder' /\ LockoutHolds' /\ UpdateStages'  BY DEF BootOrder, LockoutHolds, UpdateStages
<1>3. InForceIsStored'  BY DEF InForceIsStored, Booting
<1>4. AnnouncementsFollow' /\ ToldIsInForce'  BY DEF AnnouncementsFollow, ToldIsInForce
<1> QED  BY <1>1, <1>2, <1>3, <1>4 DEF BoardInductive

LEMMA BoardStep == BoardInductive /\ [BoardNext]_boardVars => BoardInductive'
<1> SUFFICES ASSUME BoardInductive, [BoardNext]_boardVars PROVE BoardInductive'
  OBVIOUS
<1> USE ValuesAssumption DEF BoardInductive
<1>1. CASE BecomeVictim0
  <2>1. BoardTypeOK'
    BY <1>1 DEF BecomeVictim0, settingsVars, toldVars, lockoutVars, BoardTypeOK, Booting
  <2>2. BootOrder' /\ LockoutHolds'
    BY <1>1 DEF BecomeVictim0, settingsVars, toldVars, lockoutVars, BootOrder, LockoutHolds, Booting, Runs0, Runs1, RunsIrq
  <2>3. UpdateStages' /\ InForceIsStored'
    BY <1>1 DEF BecomeVictim0, settingsVars, toldVars, lockoutVars, UpdateStages, InForceIsStored, Booting, BootOrder, LockoutHolds
  <2>4. AnnouncementsFollow' /\ ToldIsInForce'
    BY <1>1 DEF BecomeVictim0, settingsVars, toldVars, lockoutVars, AnnouncementsFollow, ToldIsInForce, BootOrder
  <2> QED  BY <2>1, <2>2, <2>3, <2>4
<1>2. CASE LoadSettings
  <2>1. BoardTypeOK'
    BY <1>2 DEF LoadSettings, LoadDefault, Whole, settingsVars, toldVars, lockoutVars, BoardTypeOK, Booting
  <2>2. BootOrder' /\ LockoutHolds'
    BY <1>2 DEF LoadSettings, LoadDefault, Whole, settingsVars, toldVars, lockoutVars, BootOrder, LockoutHolds, Booting, Runs0, Runs1, RunsIrq
  <2>3. UpdateStages' /\ InForceIsStored'
    BY <1>2 DEF LoadSettings, LoadDefault, Whole, settingsVars, toldVars, lockoutVars, UpdateStages, InForceIsStored, Booting, BootOrder, LockoutHolds
  <2>4. AnnouncementsFollow' /\ ToldIsInForce'
    BY <1>2 DEF LoadSettings, LoadDefault, Whole, settingsVars, toldVars, lockoutVars, AnnouncementsFollow, ToldIsInForce, BootOrder, Booting, BoardTypeOK
  <2> QED  BY <2>1, <2>2, <2>3, <2>4
<1>3. CASE EraseAtBoot
  <2>1. BoardTypeOK'
    BY <1>3 DEF EraseAtBoot, Whole, settingsVars, toldVars, lockoutVars, BoardTypeOK, Booting
  <2>2. BootOrder' /\ LockoutHolds'
    BY <1>3 DEF EraseAtBoot, Whole, settingsVars, toldVars, lockoutVars, BootOrder, LockoutHolds, Booting, Runs0, Runs1, RunsIrq
  <2>3. UpdateStages' /\ InForceIsStored'
    BY <1>3 DEF EraseAtBoot, Whole, settingsVars, toldVars, lockoutVars, UpdateStages, InForceIsStored, Booting, BootOrder, LockoutHolds
  <2>4. AnnouncementsFollow' /\ ToldIsInForce'
    BY <1>3 DEF EraseAtBoot, Whole, settingsVars, toldVars, lockoutVars, AnnouncementsFollow, ToldIsInForce, BootOrder
  <2> QED  BY <2>1, <2>2, <2>3, <2>4
<1>4. CASE ProgramAtBoot
  <2>1. BoardTypeOK'
    BY <1>4 DEF ProgramAtBoot, Whole, settingsVars, toldVars, lockoutVars, BoardTypeOK, Booting
  <2>2. BootOrder' /\ LockoutHolds'
    BY <1>4 DEF ProgramAtBoot, Whole, settingsVars, toldVars, lockoutVars, BootOrder, LockoutHolds, Booting, Runs0, Runs1, RunsIrq
  <2>3. UpdateStages' /\ InForceIsStored'
    BY <1>4 DEF ProgramAtBoot, Whole, settingsVars, toldVars, lockoutVars, UpdateStages, InForceIsStored, Booting, BootOrder, LockoutHolds
  <2>4. AnnouncementsFollow' /\ ToldIsInForce'
    BY <1>4 DEF ProgramAtBoot, Whole, settingsVars, toldVars, lockoutVars, AnnouncementsFollow, ToldIsInForce, BootOrder, Booting, BoardTypeOK
  <2> QED  BY <2>1, <2>2, <2>3, <2>4
<1>5. CASE Launch
  <2>1. BoardTypeOK'
    BY <1>5 DEF Launch, settingsVars, toldVars, lockoutVars, BoardTypeOK, Booting
  <2>2. BootOrder' /\ LockoutHolds'
    BY <1>5 DEF Launch, settingsVars, toldVars, lockoutVars, BootOrder, LockoutHolds, Booting, Runs0, Runs1, RunsIrq
  <2>3. UpdateStages' /\ InForceIsStored'
    BY <1>5 DEF Launch, settingsVars, toldVars, lockoutVars, UpdateStages, InForceIsStored, Booting, BootOrder, LockoutHolds
  <2>4. AnnouncementsFollow' /\ ToldIsInForce'
    BY <1>5 DEF Launch, settingsVars, toldVars, lockoutVars, AnnouncementsFollow, ToldIsInForce, BootOrder
  <2> QED  BY <2>1, <2>2, <2>3, <2>4
<1>6. CASE Drive
  <2>1. BoardTypeOK'
    BY <1>6 DEF Drive, settingsVars, toldVars, lockoutVars, BoardTypeOK, Booting
  <2>2. BootOrder' /\ LockoutHolds'
    BY <1>6 DEF Drive, settingsVars, toldVars, lockoutVars, BootOrder, LockoutHolds, Booting, Runs0, Runs1, RunsIrq
  <2>3. UpdateStages' /\ InForceIsStored'
    BY <1>6 DEF Drive, settingsVars, toldVars, lockoutVars, UpdateStages, InForceIsStored, Booting, BootOrder, LockoutHolds
  <2>4. AnnouncementsFollow' /\ ToldIsInForce'
    BY <1>6 DEF Drive, settingsVars, toldVars, lockoutVars, AnnouncementsFollow, ToldIsInForce, BootOrder
  <2> QED  BY <2>1, <2>2, <2>3, <2>4
<1>7. CASE Panic0
  <2>1. BoardTypeOK'
    BY <1>7 DEF Panic0, settingsVars, toldVars, lockoutVars, BoardTypeOK, Booting
  <2>2. BootOrder' /\ LockoutHolds'
    BY <1>7 DEF Panic0, settingsVars, toldVars, lockoutVars, BootOrder, LockoutHolds, Booting, Runs0, Runs1, RunsIrq
  <2>3. UpdateStages' /\ InForceIsStored'
    BY <1>7 DEF Panic0, settingsVars, toldVars, lockoutVars, UpdateStages, InForceIsStored, Booting, BootOrder, LockoutHolds
  <2>4. AnnouncementsFollow' /\ ToldIsInForce'
    BY <1>7 DEF Panic0, settingsVars, toldVars, lockoutVars, AnnouncementsFollow, ToldIsInForce, BootOrder
  <2> QED  BY <2>1, <2>2, <2>3, <2>4
<1>8. CASE Silence0
  <2>1. BoardTypeOK'
    BY <1>8 DEF Silence0, settingsVars, toldVars, lockoutVars, BoardTypeOK, Booting
  <2>2. BootOrder' /\ LockoutHolds'
    BY <1>8 DEF Silence0, settingsVars, toldVars, lockoutVars, BootOrder, LockoutHolds, Booting, Runs0, Runs1, RunsIrq
  <2>3. UpdateStages' /\ InForceIsStored'
    BY <1>8 DEF Silence0, settingsVars, toldVars, lockoutVars, UpdateStages, InForceIsStored, Booting, BootOrder, LockoutHolds
  <2>4. AnnouncementsFollow' /\ ToldIsInForce'
    BY <1>8 DEF Silence0, settingsVars, toldVars, lockoutVars, AnnouncementsFollow, ToldIsInForce, BootOrder
  <2> QED  BY <2>1, <2>2, <2>3, <2>4
<1>9. CASE BecomeVictim1
  <2>1. BoardTypeOK'
    BY <1>9 DEF BecomeVictim1, settingsVars, toldVars, lockoutVars, BoardTypeOK, Booting
  <2>2. BootOrder' /\ LockoutHolds'
    BY <1>9 DEF BecomeVictim1, settingsVars, toldVars, lockoutVars, BootOrder, LockoutHolds, Booting, Runs0, Runs1, RunsIrq
  <2>3. UpdateStages' /\ InForceIsStored'
    BY <1>9 DEF BecomeVictim1, settingsVars, toldVars, lockoutVars, UpdateStages, InForceIsStored, Booting, BootOrder, LockoutHolds
  <2>4. AnnouncementsFollow' /\ ToldIsInForce'
    BY <1>9 DEF BecomeVictim1, settingsVars, toldVars, lockoutVars, AnnouncementsFollow, ToldIsInForce, BootOrder
  <2> QED  BY <2>1, <2>2, <2>3, <2>4
<1>10. CASE StartServer
  <2>1. BoardTypeOK'
    BY <1>10 DEF StartServer, settingsVars, toldVars, lockoutVars, BoardTypeOK, Booting
  <2>2. BootOrder' /\ LockoutHolds'
    BY <1>10 DEF StartServer, settingsVars, toldVars, lockoutVars, BootOrder, LockoutHolds, Booting, Runs0, Runs1, RunsIrq
  <2>3. UpdateStages' /\ InForceIsStored'
    BY <1>10 DEF StartServer, settingsVars, toldVars, lockoutVars, UpdateStages, InForceIsStored, Booting, BootOrder, LockoutHolds
  <2>4. AnnouncementsFollow' /\ ToldIsInForce'
    BY <1>10 DEF StartServer, settingsVars, toldVars, lockoutVars, AnnouncementsFollow, ToldIsInForce, BootOrder
  <2> QED  BY <2>1, <2>2, <2>3, <2>4
<1>11. CASE AllSent
  <2>1. BoardTypeOK'
    BY <1>11 DEF AllSent, settingsVars, toldVars, lockoutVars, BoardTypeOK, Booting
  <2>2. BootOrder' /\ LockoutHolds'
    BY <1>11 DEF AllSent, settingsVars, toldVars, lockoutVars, BootOrder, LockoutHolds, Booting, Runs0, Runs1, RunsIrq
  <2>3. UpdateStages' /\ InForceIsStored'
    BY <1>11 DEF AllSent, settingsVars, toldVars, lockoutVars, UpdateStages, InForceIsStored, Booting, BootOrder, LockoutHolds
  <2>4. AnnouncementsFollow'
    BY <1>11 DEF AllSent, BoardTypeOK, AnnouncementsFollow
  <2>5. ToldIsInForce'
    <3>1. CASE queued = 1 /\ irq = "idle"
      <4>1. \A f \in Fields : told[f] = ram[f]  BY <3>1, <1>11 DEF AllSent, AnnouncementsFollow
      <4>2. ram \in [Fields -> Values \cup {"none"}] /\ told \in [Fields -> Values \cup {"none"}]
        BY DEF BoardTypeOK
      <4>3. told = ram  BY <4>1, <4>2, SameFields
      <4> QED  BY <4>3, <1>11 DEF AllSent, ToldIsInForce, settingsVars
    <3>2. CASE ~(queued = 1 /\ irq = "idle")
      BY <3>2, <1>11 DEF AllSent, ToldIsInForce, BoardTypeOK
    <3> QED  BY <3>1, <3>2
  <2> QED  BY <2>1, <2>2, <2>3, <2>4, <2>5
<1>12. CASE Panic1
  <2>1. BoardTypeOK'
    BY <1>12 DEF Panic1, settingsVars, toldVars, lockoutVars, BoardTypeOK, Booting
  <2>2. BootOrder' /\ LockoutHolds'
    BY <1>12 DEF Panic1, settingsVars, toldVars, lockoutVars, BootOrder, LockoutHolds, Booting, Runs0, Runs1, RunsIrq
  <2>3. UpdateStages' /\ InForceIsStored'
    BY <1>12 DEF Panic1, settingsVars, toldVars, lockoutVars, UpdateStages, InForceIsStored, Booting, BootOrder, LockoutHolds
  <2>4. AnnouncementsFollow' /\ ToldIsInForce'
    BY <1>12 DEF Panic1, settingsVars, toldVars, lockoutVars, AnnouncementsFollow, ToldIsInForce, BootOrder
  <2> QED  BY <2>1, <2>2, <2>3, <2>4
<1>13. CASE Silence1
  <2>1. BoardTypeOK'
    BY <1>13 DEF Silence1, settingsVars, toldVars, lockoutVars, BoardTypeOK, Booting
  <2>2. BootOrder' /\ LockoutHolds'
    BY <1>13 DEF Silence1, settingsVars, toldVars, lockoutVars, BootOrder, LockoutHolds, Booting, Runs0, Runs1, RunsIrq
  <2>3. UpdateStages' /\ InForceIsStored'
    BY <1>13 DEF Silence1, settingsVars, toldVars, lockoutVars, UpdateStages, InForceIsStored, Booting, BootOrder, LockoutHolds
  <2>4. AnnouncementsFollow' /\ ToldIsInForce'
    BY <1>13 DEF Silence1, settingsVars, toldVars, lockoutVars, AnnouncementsFollow, ToldIsInForce, BootOrder
  <2> QED  BY <2>1, <2>2, <2>3, <2>4
<1>14. CASE StatusRequest
  <2>1. BoardTypeOK'
    BY <1>14 DEF StatusRequest, Announce, Serving, settingsVars, toldVars, lockoutVars, BoardTypeOK, Booting
  <2>2. BootOrder' /\ LockoutHolds'
    BY <1>14 DEF StatusRequest, Announce, Serving, settingsVars, toldVars, lockoutVars, BootOrder, LockoutHolds, Booting, Runs0, Runs1, RunsIrq
  <2>3. UpdateStages' /\ InForceIsStored'
    BY <1>14 DEF StatusRequest, Announce, Serving, settingsVars, toldVars, lockoutVars, UpdateStages, InForceIsStored, Booting, BootOrder, LockoutHolds
  <2>4. AnnouncementsFollow' /\ ToldIsInForce'
    BY <1>14 DEF StatusRequest, Announce, Serving, settingsVars, toldVars, lockoutVars, AnnouncementsFollow, ToldIsInForce, BootOrder, BoardTypeOK
  <2> QED  BY <2>1, <2>2, <2>3, <2>4
<1>15. CASE LockIrq
  <2>1. BoardTypeOK'
    BY <1>15 DEF LockIrq, Taken, TakeMutex, LockoutVars, settingsVars, toldVars, lockoutVars, BoardTypeOK, Booting
  <2>2. BootOrder' /\ LockoutHolds'
    BY <1>15 DEF LockIrq, Taken, TakeMutex, LockoutVars, settingsVars, toldVars, lockoutVars, BootOrder, LockoutHolds, Booting, Runs0, Runs1, RunsIrq
  <2>3. UpdateStages' /\ InForceIsStored'
    BY <1>15 DEF LockIrq, Taken, TakeMutex, LockoutVars, settingsVars, toldVars, lockoutVars, UpdateStages, InForceIsStored, Booting, BootOrder, LockoutHolds
  <2>4. AnnouncementsFollow' /\ ToldIsInForce'
    BY <1>15 DEF LockIrq, Taken, TakeMutex, LockoutVars, settingsVars, toldVars, lockoutVars, AnnouncementsFollow, ToldIsInForce, BootOrder
  <2> QED  BY <2>1, <2>2, <2>3, <2>4
<1>16. CASE ShakeIrq
  <2>1. BoardTypeOK'
    BY <1>16 DEF ShakeIrq, Shaken, LockoutVars, Answers0, settingsVars, toldVars, lockoutVars, BoardTypeOK, Booting
  <2>2. BootOrder' /\ LockoutHolds'
    BY <1>16 DEF ShakeIrq, Shaken, LockoutVars, Answers0, settingsVars, toldVars, lockoutVars, BootOrder, LockoutHolds, Booting, Runs0, Runs1, RunsIrq
  <2>3. UpdateStages' /\ InForceIsStored'
    BY <1>16 DEF ShakeIrq, Shaken, LockoutVars, Answers0, settingsVars, toldVars, lockoutVars, UpdateStages, InForceIsStored, Booting, BootOrder, LockoutHolds
  <2>4. AnnouncementsFollow' /\ ToldIsInForce'
    BY <1>16 DEF ShakeIrq, Shaken, LockoutVars, Answers0, settingsVars, toldVars, lockoutVars, AnnouncementsFollow, ToldIsInForce, BootOrder
  <2> QED  BY <2>1, <2>2, <2>3, <2>4
<1>17. CASE EraseFlash
  <2>1. BoardTypeOK'
    BY <1>17 DEF EraseFlash, settingsVars, toldVars, lockoutVars, BoardTypeOK, Booting
  <2>2. BootOrder' /\ LockoutHolds'
    BY <1>17 DEF EraseFlash, settingsVars, toldVars, lockoutVars, BootOrder, LockoutHolds, Booting, Runs0, Runs1, RunsIrq
  <2>3. UpdateStages' /\ InForceIsStored'
    BY <1>17 DEF EraseFlash, settingsVars, toldVars, lockoutVars, UpdateStages, InForceIsStored, Booting, BootOrder, LockoutHolds
  <2>4. AnnouncementsFollow' /\ ToldIsInForce'
    BY <1>17 DEF EraseFlash, settingsVars, toldVars, lockoutVars, AnnouncementsFollow, ToldIsInForce, BootOrder
  <2> QED  BY <2>1, <2>2, <2>3, <2>4
<1>18. CASE ProgramFlash
  <2>1. BoardTypeOK'
    BY <1>18 DEF ProgramFlash, settingsVars, toldVars, lockoutVars, BoardTypeOK, Booting
  <2>2. BootOrder' /\ LockoutHolds'
    BY <1>18 DEF ProgramFlash, settingsVars, toldVars, lockoutVars, BootOrder, LockoutHolds, Booting, Runs0, Runs1, RunsIrq
  <2>3. UpdateStages' /\ InForceIsStored'
    BY <1>18 DEF ProgramFlash, settingsVars, toldVars, lockoutVars, UpdateStages, InForceIsStored, Booting, BootOrder, LockoutHolds
  <2>4. AnnouncementsFollow' /\ ToldIsInForce'
    BY <1>18 DEF ProgramFlash, settingsVars, toldVars, lockoutVars, AnnouncementsFollow, ToldIsInForce, BootOrder
  <2> QED  BY <2>1, <2>2, <2>3, <2>4
<1>19. CASE ReleaseAndAnnounce
  <2>1. BoardTypeOK'
    BY <1>19 DEF ReleaseAndAnnounce, Announce, settingsVars, toldVars, lockoutVars, BoardTypeOK, Booting
  <2>2. BootOrder' /\ LockoutHolds'
    BY <1>19 DEF ReleaseAndAnnounce, Announce, settingsVars, toldVars, lockoutVars, BootOrder, LockoutHolds, Booting, Runs0, Runs1, RunsIrq
  <2>3. UpdateStages' /\ InForceIsStored'
    BY <1>19 DEF ReleaseAndAnnounce, Announce, settingsVars, toldVars, lockoutVars, UpdateStages, InForceIsStored, Booting, BootOrder, LockoutHolds
  <2>4. AnnouncementsFollow' /\ ToldIsInForce'
    BY <1>19 DEF ReleaseAndAnnounce, Announce, settingsVars, toldVars, lockoutVars, AnnouncementsFollow, ToldIsInForce, BootOrder, BoardTypeOK
  <2> QED  BY <2>1, <2>2, <2>3, <2>4
<1>20. CASE Lock0
  <2>1. BoardTypeOK'
    BY <1>20 DEF Lock0, Taken, TakeMutex, LockoutVars, settingsVars, toldVars, lockoutVars, BoardTypeOK, Booting
  <2>2. BootOrder' /\ LockoutHolds'
    BY <1>20 DEF Lock0, Taken, TakeMutex, LockoutVars, settingsVars, toldVars, lockoutVars, BootOrder, LockoutHolds, Booting, Runs0, Runs1, RunsIrq
  <2>3. UpdateStages' /\ InForceIsStored'
    BY <1>20 DEF Lock0, Taken, TakeMutex, LockoutVars, settingsVars, toldVars, lockoutVars, UpdateStages, InForceIsStored, Booting, BootOrder, LockoutHolds
  <2>4. AnnouncementsFollow' /\ ToldIsInForce'
    BY <1>20 DEF Lock0, Taken, TakeMutex, LockoutVars, settingsVars, toldVars, lockoutVars, AnnouncementsFollow, ToldIsInForce, BootOrder
  <2> QED  BY <2>1, <2>2, <2>3, <2>4
<1>21. CASE Shake0
  <2>1. BoardTypeOK'
    BY <1>21 DEF Shake0, Shaken, LockoutVars, settingsVars, toldVars, lockoutVars, BoardTypeOK, Booting
  <2>2. BootOrder' /\ LockoutHolds'
    BY <1>21 DEF Shake0, Shaken, LockoutVars, settingsVars, toldVars, lockoutVars, BootOrder, LockoutHolds, Booting, Runs0, Runs1, RunsIrq, Answers1
  <2>3. UpdateStages' /\ InForceIsStored'
    BY <1>21 DEF Shake0, Shaken, LockoutVars, settingsVars, toldVars, lockoutVars, UpdateStages, InForceIsStored, Booting, BootOrder, LockoutHolds
  <2>4. AnnouncementsFollow' /\ ToldIsInForce'
    BY <1>21 DEF Shake0, Shaken, LockoutVars, settingsVars, toldVars, lockoutVars, AnnouncementsFollow, ToldIsInForce, BootOrder
  <2> QED  BY <2>1, <2>2, <2>3, <2>4
<1>22. CASE Lock1
  <2>1. BoardTypeOK'
    BY <1>22 DEF Lock1, Taken, TakeMutex, LockoutVars, settingsVars, toldVars, lockoutVars, BoardTypeOK, Booting
  <2>2. BootOrder' /\ LockoutHolds'
    BY <1>22 DEF Lock1, Taken, TakeMutex, LockoutVars, settingsVars, toldVars, lockoutVars, BootOrder, LockoutHolds, Booting, Runs0, Runs1, RunsIrq
  <2>3. UpdateStages' /\ InForceIsStored'
    BY <1>22 DEF Lock1, Taken, TakeMutex, LockoutVars, settingsVars, toldVars, lockoutVars, UpdateStages, InForceIsStored, Booting, BootOrder, LockoutHolds
  <2>4. AnnouncementsFollow' /\ ToldIsInForce'
    BY <1>22 DEF Lock1, Taken, TakeMutex, LockoutVars, settingsVars, toldVars, lockoutVars, AnnouncementsFollow, ToldIsInForce, BootOrder
  <2> QED  BY <2>1, <2>2, <2>3, <2>4
<1>23. CASE Shake1
  <2>1. BoardTypeOK'
    BY <1>23 DEF Shake1, Shaken, LockoutVars, Answers0, settingsVars, toldVars, lockoutVars, BoardTypeOK, Booting
  <2>2. BootOrder' /\ LockoutHolds'
    BY <1>23 DEF Shake1, Shaken, LockoutVars, Answers0, settingsVars, toldVars, lockoutVars, BootOrder, LockoutHolds, Booting, Runs0, Runs1, RunsIrq
  <2>3. UpdateStages' /\ InForceIsStored'
    BY <1>23 DEF Shake1, Shaken, LockoutVars, Answers0, settingsVars, toldVars, lockoutVars, UpdateStages, InForceIsStored, Booting, BootOrder, LockoutHolds
  <2>4. AnnouncementsFollow' /\ ToldIsInForce'
    BY <1>23 DEF Shake1, Shaken, LockoutVars, Answers0, settingsVars, toldVars, lockoutVars, AnnouncementsFollow, ToldIsInForce, BootOrder
  <2> QED  BY <2>1, <2>2, <2>3, <2>4
<1>24. ASSUME NEW f \in Fields, CopyField(f) PROVE BoardInductive'
  <2>1. BoardTypeOK'
    BY <1>24 DEF CopyField, settingsVars, toldVars, lockoutVars, BoardTypeOK, Booting
  <2>2. BootOrder' /\ LockoutHolds'
    BY <1>24 DEF CopyField, settingsVars, toldVars, lockoutVars, BootOrder, LockoutHolds, Booting, Runs0, Runs1, RunsIrq
  <2>3. UpdateStages' /\ InForceIsStored'
    BY <1>24 DEF CopyField, settingsVars, toldVars, lockoutVars, UpdateStages, InForceIsStored, Booting, BootOrder, LockoutHolds
  <2>4. AnnouncementsFollow' /\ ToldIsInForce'
    <3>1. told' \in [Fields -> Values \cup {"none"}]  BY <2>1 DEF BoardTypeOK
    <3>2. irq' = "idle" /\ queued' = 1 => \A g \in copied' : told'[g] = ram'[g]
      BY <1>24 DEF CopyField, settingsVars, AnnouncementsFollow, BoardTypeOK
    <3>3. queued' > 0  BY <1>24 DEF CopyField
    <3> QED  BY <3>2, <3>3, <2>1 DEF AnnouncementsFollow, ToldIsInForce, BoardTypeOK
  <2> QED  BY <2>1, <2>2, <2>3, <2>4
<1>25. ASSUME NEW v \in Values, SettingsMessage(v) PROVE BoardInductive'
  <2>1. BoardTypeOK'
    BY <1>25 DEF SettingsMessage, Serving, settingsVars, toldVars, lockoutVars, BoardTypeOK, Booting
  <2>2. BootOrder' /\ LockoutHolds'
    BY <1>25 DEF SettingsMessage, Serving, settingsVars, toldVars, lockoutVars, BootOrder, LockoutHolds, Booting, Runs0, Runs1, RunsIrq
  <2>3. UpdateStages' /\ InForceIsStored'
    BY <1>25 DEF SettingsMessage, Serving, settingsVars, toldVars, lockoutVars, UpdateStages, InForceIsStored, Booting, BootOrder, LockoutHolds
  <2>4. AnnouncementsFollow' /\ ToldIsInForce'
    BY <1>25 DEF SettingsMessage, Serving, settingsVars, toldVars, lockoutVars, AnnouncementsFollow, ToldIsInForce, BootOrder
  <2> QED  BY <2>1, <2>2, <2>3, <2>4
<1>26. ASSUME NEW f \in Fields, AssignField(f) PROVE BoardInductive'
  <2>1. BoardTypeOK'
    BY <1>26 DEF AssignField, settingsVars, toldVars, lockoutVars, BoardTypeOK, Booting
  <2>2. BootOrder' /\ LockoutHolds'
    BY <1>26 DEF AssignField, settingsVars, toldVars, lockoutVars, BootOrder, LockoutHolds, Booting, Runs0, Runs1, RunsIrq
  <2>3. UpdateStages' /\ InForceIsStored'
    <3>1. irq = "assign" /\ irq' \in {"assign", "lock"} /\ flash' = flash /\ main0' = main0
      BY <1>26 DEF AssignField
    <3>2. \A g \in incoming'.done : ram'[g] = incoming'.value
      BY <1>26 DEF AssignField, UpdateStages, BoardTypeOK
    <3>3. irq' = "lock" => ram' = Whole(incoming'.value)
      <4> SUFFICES ASSUME irq' = "lock" PROVE ram' = Whole(incoming'.value)
        OBVIOUS
      <4>1. incoming'.done = Fields  BY <1>26, <3>1 DEF AssignField
      <4>2. \A g \in Fields : ram'[g] = Whole(incoming'.value)[g]  BY <4>1, <3>2 DEF Whole
      <4>3. ram' \in [Fields -> Values] /\ Whole(incoming'.value) \in [Fields -> Values]
        BY <2>1 DEF BoardTypeOK, Whole
      <4> QED  BY <4>2, <4>3, SameFields
    <3>4. main0' \notin Booting  BY <3>1, <2>2, <1>26 DEF BootOrder, AssignField
    <3> QED  BY <3>1, <3>2, <3>3, <3>4 DEF UpdateStages, InForceIsStored, Booting
  <2>4. AnnouncementsFollow' /\ ToldIsInForce'
    BY <1>26 DEF AssignField, settingsVars, toldVars, lockoutVars, AnnouncementsFollow, ToldIsInForce, BootOrder
  <2> QED  BY <2>1, <2>2, <2>3, <2>4
<1>27. CASE PowerCut \/ WatchdogReset
  BY <1>27, ResetKeeps DEF PowerCut, WatchdogReset
<1>28. CASE UNCHANGED boardVars
  BY <1>28 DEF boardVars, settingsVars, toldVars, lockoutVars, BoardTypeOK, BootOrder, LockoutHolds, UpdateStages, InForceIsStored,
     AnnouncementsFollow, ToldIsInForce
<1> QED
  BY <1>1, <1>2, <1>3, <1>4, <1>5, <1>6, <1>7, <1>8, <1>9, <1>10, <1>11, <1>12, <1>13, <1>14, <1>15, <1>16, <1>17, <1>18, <1>19, <1>20, <1>21, <1>22, <1>23, <1>24, <1>25, <1>26, <1>27, <1>28
  DEF BoardNext, Boot0, Panics0, Core1, Sending, Update

THEOREM BoardInvariance == BoardSpec => []BoardInductive
BY BoardStarts, BoardStep, PTL DEF BoardSpec

(* No core runs from the flash while settings::update writes it. *)
THEOREM FlashIsAlwaysQuiet == BoardSpec => []FlashIsQuiet
<1>1. BoardInductive => FlashIsQuiet
  BY DEF BoardInductive, BootOrder, LockoutHolds, FlashIsQuiet, Booting
<1> QED  BY <1>1, BoardInvariance, PTL

(* settings::init and settings::update keep the RAM and the flash together. *)
THEOREM InForceIsAlwaysStored == BoardSpec => []InForceIsStored
<1>1. BoardInductive => InForceIsStored
  BY DEF BoardInductive
<1> QED  BY <1>1, BoardInvariance, PTL

(* The last announcement a client gets is of the settings in force. *)
THEOREM ToldIsAlwaysInForce == BoardSpec => []ToldIsInForce
<1>1. BoardInductive => ToldIsInForce
  BY DEF BoardInductive
<1> QED  BY <1>1, BoardInvariance, PTL
=============================================================================
