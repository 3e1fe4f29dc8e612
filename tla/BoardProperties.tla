--------------------------- MODULE BoardProperties ---------------------------
(***************************************************************************)
(* What the bring-up, the lockout and the watchdog are there for.          *)
(***************************************************************************)
EXTENDS Board

BoardTypeOK ==
  /\ main0 \in Booting \cup {"loop", "lock", "shake", "panic", "dead"}
  /\ main1 \in {"absent", "begin", "connect", "loop", "lock", "shake", "panic", "dead"}
  /\ irq \in {"idle", "assign", "lock", "shake", "erase", "program", "release", "dead"}
  /\ masked \in BOOLEAN /\ driving \in BOOLEAN
  /\ lockoutMutex \in {"free", "main0", "main1", "irq"}
  /\ held \in {"none", "core0", "core1"}
  /\ flash \in Values \cup {"blank"} /\ ram \in [Fields -> Values]
  /\ incoming \in [value : Values, done : SUBSET Fields]
  /\ queued \in Nat /\ copied \subseteq Fields
  /\ told \in [Fields -> Values \cup {"none"}]

(* While the flash is erased or programmed no core executes from it: the     *)
(* other core does not run yet or is locked out.                             *)
FlashIsQuiet ==
  /\ irq \in {"erase", "program", "release"} => held = "core0" /\ main0 \notin Booting
  /\ main0 \in {"erase", "program"} => main1 = "absent"

(* What is in force is what the next boot will load, whenever no update is   *)
(* under way: through panics, lockouts that hang and resets at any point.    *)
InForceIsStored ==
  main0 \notin Booting \ {"launch"} /\ irq = "idle" => ram = Whole(flash)

(* Clients that were told settings have been told those in force as soon as  *)
(* no announcement is queued any more, although a message may be serialised  *)
(* half before and half after an update.                                     *)
ToldIsInForce == irq = "idle" /\ queued = 0 /\ told # Nothing => told = ram

(* Nothing hangs for ever: an update ends unless core 0 is in panic(), *)
(* and a core that panics turns the outputs off; or else the watchdog resets *)
(* the board.                                                                *)
Restarted == main0 = "begin"
Silent == ~driving /\ (main0 \in {"panic", "dead"} \/ main1 = "panic")
HangsEnd ==
  /\ (main0 \in {"lock", "shake", "panic"} \/ main1 \in {"lock", "shake", "panic"})
       ~> (Silent \/ Restarted)
  /\ (irq # "idle") ~> (irq = "idle" \/ Silent \/ held = "core1")
=============================================================================
