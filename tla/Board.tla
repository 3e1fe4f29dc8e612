-------------------------------- MODULE Board --------------------------------
(***************************************************************************)
(* The board from reset to reset: main() and core1_entry() bring up the    *)
(* two cores, the settings live in RAM and in one page of the flash, and   *)
(* whoever needs the board for itself, settings::update or panic(), holds  *)
(* the other core by the SDK's multicore lockout.                          *)
(*                                                                         *)
(* Three contexts run: main on core 0, network_loop on core 1 and, above   *)
(* it, the interrupt in which a settings message is handled.  The lockout  *)
(* takes a mutex, and ends when the victim answers from an interrupt; a    *)
(* context that waits with its interrupts off cannot answer, and the       *)
(* watchdog resets a board on which nobody gets on.                        *)
(***************************************************************************)
EXTENDS Naturals

CONSTANTS
  Fields,       \* the fields of struct Settings
  Values,       \* what a whole Settings may be
  DefaultValue, \* the one struct Settings is born with
  Announcements \* bound: SettingsGetMessages queued at a time

ASSUME FieldsAssumption == Fields # {}
ASSUME ValuesAssumption == DefaultValue \in Values /\ "blank" \notin Values /\ "none" \notin Values
ASSUME AnnouncementsAssumption == Announcements \in Nat

VARIABLES
  main0,    \* core 0: where main, settings::init or panic is
  main1,    \* core 1: where core1_entry, network_loop or panic is
  irq,      \* core 1: where settings::update is, in the interrupt of a message
  masked,   \* core 0 panicked inside read_temp, with its interrupts off
  lockoutMutex, \* the context that is starting a lockout, or "free"
  held,     \* the core that is locked out, or "none"
  flash,    \* the page of the settings: a value or "blank"
  ram,      \* current_settings
  incoming, \* the settings of the message, and the fields already assigned
  queued,   \* SettingsGetMessages in out_message_queue
  copied,   \* fields of the first of them already serialised, or "sent" of all of it
  told,     \* the settings last serialised for the clients
  driving   \* the heater or the pump may be on

boardVars == <<main0, main1, irq, masked, lockoutMutex, held, flash, ram,
               incoming, queued, copied, told, driving>>

Whole(v) == [f \in Fields |-> v]
Nothing == Whole("none")

Booting == {"begin", "init", "erase", "program", "launch"}
VictimReady1 == main1 \notin {"absent", "begin"}

(* Which core runs what: a held core stands still, the interrupt comes first. *)
Runs0 == held # "core0"
Runs1 == held # "core1" /\ irq = "idle"
RunsIrq == held # "core1"

-----------------------------------------------------------------------------
(* A reset: static storage as the linker left it, all outputs low. *)
Booted ==
  /\ main0' = "begin" /\ main1' = "absent" /\ irq' = "idle" /\ masked' = FALSE
  /\ lockoutMutex' = "free" /\ held' = "none"
  /\ ram' = Whole(DefaultValue) /\ incoming' = [value |-> DefaultValue, done |-> {}]
  /\ queued' = 0 /\ copied' = {} /\ told' = Nothing /\ driving' = FALSE

BoardInit ==
  /\ main0 = "begin" /\ main1 = "absent" /\ irq = "idle" /\ masked = FALSE
  /\ lockoutMutex = "free" /\ held = "none"
  /\ flash \in Values \cup {"blank"}
  /\ ram = Whole(DefaultValue) /\ incoming = [value |-> DefaultValue, done |-> {}]
  /\ queued = 0 /\ copied = {} /\ told = Nothing /\ driving = FALSE

settingsVars == <<flash, ram, incoming>>
toldVars == <<queued, copied, told>>
lockoutVars == <<lockoutMutex, held>>

-----------------------------------------------------------------------------
(* Core 0 boots.  Core 1 does not run yet, so nobody is locked out. *)
BecomeVictim0 ==
  /\ main0 = "begin" /\ main0' = "init"
  /\ UNCHANGED <<main1, irq, masked, lockoutVars, settingsVars, toldVars, driving>>

(* settings::init *)
LoadDefaultUnsaved ==  \* broken: defaults are taken without being saved
  ram' = Whole(DefaultValue) /\ main0' = "launch"
LoadDefault == ram' = Whole(DefaultValue) /\ main0' = "erase"

LoadSettings ==
  /\ main0 = "init"
  /\ IF flash \in Values THEN ram' = Whole(flash) /\ main0' = "launch" ELSE LoadDefault
  /\ UNCHANGED <<main1, irq, masked, lockoutVars, flash, incoming, toldVars, driving>>

EraseAtBoot ==
  /\ main0 = "erase" /\ flash' = "blank" /\ main0' = "program"
  /\ UNCHANGED <<main1, irq, masked, lockoutVars, ram, incoming, toldVars, driving>>

ProgramAtBoot ==
  /\ main0 = "program" /\ flash' = DefaultValue /\ main0' = "launch"
  /\ queued' = queued + 1
  /\ UNCHANGED <<main1, irq, masked, lockoutVars, ram, incoming, copied, told, driving>>

Launch ==
  /\ main0 = "launch" /\ main0' = "loop" /\ main1' = "begin"
  /\ UNCHANGED <<irq, masked, lockoutVars, settingsVars, toldVars, driving>>

(* main_loop: the regulators turn the outputs on and off. *)
Drive ==
  /\ main0 = "loop" /\ Runs0 /\ driving' \in BOOLEAN
  /\ UNCHANGED <<main0, main1, irq, masked, lockoutVars, settingsVars, toldVars>>

(* panic() on core 0, perhaps inside the critical section of read_temp. *)
Panic0 ==
  /\ main0 = "loop" /\ Runs0
  /\ main0' = IF VictimReady1 THEN "lock" ELSE "panic"
  /\ masked' \in BOOLEAN
  /\ UNCHANGED <<main1, irq, lockoutVars, settingsVars, toldVars, driving>>

(* panic()'s loop.  sleep_ms wants the interrupts that read_temp turned off. *)
Silence0 ==
  /\ main0 = "panic" /\ Runs0 /\ driving' = FALSE
  /\ main0' \in IF masked THEN {"panic", "dead"} ELSE {"panic"}
  /\ UNCHANGED <<main1, irq, masked, lockoutVars, settingsVars, toldVars>>

-----------------------------------------------------------------------------
(* Core 1 comes up; server_init empties the queue. *)
BecomeVictim1 ==
  /\ main1 = "begin" /\ Runs1 /\ main1' = "connect"
  /\ UNCHANGED <<main0, irq, masked, lockoutVars, settingsVars, toldVars, driving>>

StartServer ==
  /\ main1 = "connect" /\ Runs1 /\ main1' = "loop" /\ queued' = 0
  /\ UNCHANGED <<main0, irq, masked, lockoutVars, settingsVars, copied, told, driving>>

(* process_outgoing_messages with a SettingsGetMessage at the front: the     *)
(* settings are read when it is serialised, field by field; in any order,    *)
(* the order of the struct among them.                                       *)
CopyField(f) ==
  /\ main1 = "loop" /\ Runs1 /\ queued > 0 /\ f \in Fields \ copied
  /\ told' = [told EXCEPT ![f] = ram[f]] /\ copied' = copied \cup {f}
  /\ UNCHANGED <<main0, main1, irq, masked, lockoutVars, settingsVars, queued, driving>>

AllSent ==
  /\ main1 = "loop" /\ Runs1 /\ queued > 0 /\ copied = Fields
  /\ queued' = queued - 1 /\ copied' = {}
  /\ UNCHANGED <<main0, main1, irq, masked, lockoutVars, settingsVars, told, driving>>

(* panic() on core 1: no Wi-Fi, no SD card. *)
Panic1 ==
  /\ main1 \in {"connect", "loop"} /\ Runs1 /\ main1' = "lock"
  /\ UNCHANGED <<main0, irq, masked, lockoutVars, settingsVars, toldVars, driving>>

Silence1 ==
  /\ main1 = "panic" /\ Runs1 /\ driving' = FALSE
  /\ UNCHANGED <<main0, main1, irq, masked, lockoutVars, settingsVars, toldVars>>

-----------------------------------------------------------------------------
(* The interrupt of core 1. *)
Serving == main1 \in {"loop", "lock", "shake", "panic"}

AnnounceUnlessQueued ==  \* broken: one announcement at a time is thought enough
  queued' = IF queued = 0 THEN 1 ELSE queued
Announce == queued' = queued + 1

StatusRequest ==
  /\ Serving /\ irq = "idle" /\ RunsIrq /\ queued < Announcements /\ Announce
  /\ UNCHANGED <<main0, main1, irq, masked, lockoutVars, settingsVars, copied, told, driving>>

SettingsMessage(v) ==
  /\ Serving /\ irq = "idle" /\ RunsIrq /\ queued < Announcements
  /\ irq' = "assign" /\ incoming' = [value |-> v, done |-> {}]
  /\ UNCHANGED <<main0, main1, masked, lockoutVars, flash, ram, toldVars, driving>>

(* settings::update.  Fields are assigned in any order, the order of the     *)
(* struct among them.  From the last assignment on interrupts are off.       *)
AssignField(f) ==
  /\ irq = "assign" /\ RunsIrq /\ f \in Fields \ incoming.done
  /\ ram' = [ram EXCEPT ![f] = incoming.value]
  /\ incoming' = [incoming EXCEPT !.done = @ \cup {f}]
  /\ irq' = IF incoming'.done = Fields THEN "lock" ELSE "assign"
  /\ UNCHANGED <<main0, main1, masked, lockoutVars, flash, toldVars, driving>>

EraseFlash ==
  /\ irq = "erase" /\ RunsIrq /\ flash' = "blank" /\ irq' = "program"
  /\ UNCHANGED <<main0, main1, masked, lockoutVars, ram, incoming, toldVars, driving>>

ProgramFlash ==
  /\ irq = "program" /\ RunsIrq /\ flash' = incoming.value /\ irq' = "release"
  /\ UNCHANGED <<main0, main1, masked, lockoutVars, ram, incoming, toldVars, driving>>

ReleaseAndAnnounce ==
  /\ irq = "release" /\ RunsIrq /\ lockoutMutex = "free"
  /\ held' = "none" /\ irq' = "idle" /\ Announce
  /\ UNCHANGED <<main0, main1, masked, lockoutMutex, settingsVars, copied, told, driving>>

-----------------------------------------------------------------------------
(* multicore_lockout_start_blocking.  First the mutex; a lockout inside a    *)
(* lockout fails an assertion of the SDK, and the context is dead.           *)
TakeMutex(who) == lockoutMutex = "free" /\ lockoutMutex' = who
Taken == IF held = "none" THEN "shake" ELSE "dead"

(* Then the victim's answer, from an interrupt it must be able to take. *)
Answers0 == held = "none" /\ ~masked /\ main0 \notin Booting \cup {"shake", "dead"}
Answers1 == held = "none" /\ irq \in {"idle", "assign"} /\ main1 \notin {"shake", "dead"}
ShakenOrLate(victim, answers) ==  \* broken: a victim that does not answer is not waited for
  lockoutMutex' = "free" /\ held' = IF answers THEN victim ELSE held
Shaken(victim, answers) == lockoutMutex' = "free" /\ answers /\ held' = victim

LockoutVars(x) == UNCHANGED <<masked, settingsVars, toldVars, driving>> /\ UNCHANGED x

Lock0 ==
  /\ main0 = "lock" /\ Runs0 /\ TakeMutex("main0") /\ main0' = Taken
  /\ LockoutVars(<<main1, irq, held>>)
Shake0 ==
  /\ main0 = "shake" /\ Shaken("core1", Answers1) /\ main0' = "panic"
  /\ LockoutVars(<<main1, irq>>)

Lock1 ==
  /\ main1 = "lock" /\ Runs1 /\ TakeMutex("main1") /\ main1' = Taken
  /\ LockoutVars(<<main0, irq, held>>)
Shake1 ==
  /\ main1 = "shake" /\ Runs1 /\ Shaken("core0", Answers0) /\ main1' = "panic"
  /\ LockoutVars(<<main0, irq>>)

LockIrq ==
  /\ irq = "lock" /\ RunsIrq /\ TakeMutex("irq") /\ irq' = Taken
  /\ LockoutVars(<<main0, main1, held>>)
ShakeIrq ==
  /\ irq = "shake" /\ Shaken("core0", Answers0) /\ irq' = "erase"
  /\ LockoutVars(<<main0, main1>>)

-----------------------------------------------------------------------------
(* Who still feeds the watchdog: main_loop as long as core 1 comes round,    *)
(* and panic().                                                              *)
Core1ComesRound == main1 \in {"begin", "connect"} \/ (main1 = "loop" /\ irq \in {"idle", "assign"})
FedByAnyLoop ==  \* broken: main_loop feeds for a core 1 that is stuck in an interrupt
  \/ main0 \in {"loop", "panic"} /\ Runs0
  \/ main1 = "panic" /\ Runs1
Fed ==
  \/ main0 = "loop" /\ Runs0 /\ Core1ComesRound
  \/ main0 = "panic" /\ Runs0
  \/ main1 = "panic" /\ Runs1

(* A power cut, at any time; the page being written is left blank. *)
PowerCut == Booted /\ UNCHANGED flash

(* The watchdog, on from the end of main()'s start-up. *)
WatchdogReset == main0 \notin Booting /\ ~Fed /\ Booted /\ UNCHANGED flash

Boot0 == BecomeVictim0 \/ LoadSettings \/ EraseAtBoot \/ ProgramAtBoot \/ Launch
Panics0 == Lock0 \/ Shake0 \/ Silence0
Core1 == BecomeVictim1 \/ StartServer \/ Lock1 \/ Shake1 \/ Silence1
Update ==
  \/ \E f \in Fields : AssignField(f)
  \/ LockIrq \/ ShakeIrq \/ EraseFlash \/ ProgramFlash \/ ReleaseAndAnnounce
Sending == AllSent \/ \E f \in Fields : CopyField(f)

BoardNext ==
  \/ Boot0 \/ Drive \/ Panic0 \/ Panics0
  \/ Core1 \/ Sending \/ Panic1
  \/ StatusRequest \/ (\E v \in Values : SettingsMessage(v)) \/ Update
  \/ PowerCut \/ WatchdogReset

BoardSpec == BoardInit /\ [][BoardNext]_boardVars

(* Each context goes on when it can, and core 0 and a waiting lockout get    *)
(* their turn between two updates of the settings: a pending interrupt is    *)
(* taken as soon as it is no longer masked.  The watchdog does not forget.   *)
BoardFairness ==
  /\ WF_boardVars(Boot0) /\ SF_boardVars(Panics0) /\ SF_boardVars(Core1)
  /\ WF_boardVars(Update) /\ WF_boardVars(WatchdogReset)
BoardFairSpec == BoardSpec /\ BoardFairness
=============================================================================
