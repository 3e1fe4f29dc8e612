----------------------------- MODULE QueueStart -----------------------------
(***************************************************************************)
(* The start of out_message_queue.  Core 0 posts as soon as its loop runs, *)
(* and before that if settings::init had to store the defaults; core 1     *)
(* initialises the queue only when the Wi-Fi is up, in server_init.  Until *)
(* then the queue has no lock, and a push is a sequence of loads and       *)
(* stores; from then on a push or a pop is one critical section (module    *)
(* Ring, where the contents are).                                          *)
(***************************************************************************)
EXTENDS Naturals

CONSTANT StartCapacity  \* Capacity

ASSUME StartCapacityAssumption == StartCapacity \in Nat \ {0}

VARIABLES
  size_, front, back,
  begun,     \* how much of Queue::init is done: 0 to 3 stores, 4 with the lock
  push,      \* core 0's unlocked push: "idle", "size", "back", or "panic"
  loaded,    \* the size and the index it has loaded
  straddled  \* a push without the lock and the initialisation overlapped

queueVars == <<size_, front, back, begun, push, loaded, straddled>>

QueueTypeOK ==
  /\ begun \in 0..4 /\ push \in {"idle", "size", "back", "panic"} /\ straddled \in BOOLEAN
  /\ loaded \in [size : 0..(StartCapacity - 1), back : 0..(StartCapacity - 1)]

QueueInit ==
  /\ size_ = 0 /\ front = 0 /\ back = 0 /\ begun = 0 /\ push = "idle"
  /\ loaded = [size |-> 0, back |-> 0] /\ straddled = FALSE

IncIndex(index) == (index + 1) % StartCapacity

-----------------------------------------------------------------------------
(* add_internal on core 0, before lock_init. *)
HasSpace(size) == size < StartCapacity

PushBegins ==
  /\ begun < 4 /\ push = "idle" /\ HasSpace(size_)
  /\ push' = "size" /\ loaded' = [size |-> size_, back |-> back]
  /\ straddled' = (straddled \/ begun > 0)
  /\ UNCHANGED <<size_, front, back, begun>>

StoreSize ==
  /\ push = "size" /\ push' = "back" /\ size_' = loaded.size + 1
  /\ UNCHANGED <<front, back, begun, loaded, straddled>>

StoreBack ==
  /\ push = "back" /\ push' = "idle" /\ back' = IncIndex(loaded.back)
  /\ UNCHANGED <<size_, front, begun, loaded, straddled>>

(* enqueue_message finds no room, before the network takes anything out. *)
PushPanics ==
  /\ push = "idle" /\ ~HasSpace(size_) /\ push' = "panic"
  /\ UNCHANGED <<size_, front, back, begun, loaded, straddled>>

-----------------------------------------------------------------------------
(* Queue::init on core 1. *)
Initialising(n) ==
  /\ push # "panic" /\ begun = n /\ begun' = n + 1
  /\ straddled' = (straddled \/ push \in {"size", "back"})

InitFront == Initialising(0) /\ front' = 0 /\ UNCHANGED <<size_, back, push, loaded>>

KeepBack == back  \* broken: the queue is thought to be empty to begin with
FirstBack == 0
InitBack == Initialising(1) /\ back' = FirstBack /\ UNCHANGED <<size_, front, push, loaded>>

InitSize == Initialising(2) /\ size_' = 0 /\ UNCHANGED <<front, back, push, loaded>>

InitLock == Initialising(3) /\ UNCHANGED <<size_, front, back, push, loaded>>

-----------------------------------------------------------------------------
LockedPush ==
  /\ begun = 4 /\ push = "idle" /\ HasSpace(size_)
  /\ size_' = size_ + 1 /\ back' = IncIndex(back)
  /\ UNCHANGED <<front, begun, push, loaded, straddled>>

LockedPop ==
  /\ begun = 4 /\ push # "panic" /\ size_ > 0
  /\ size_' = size_ - 1 /\ front' = IncIndex(front)
  /\ UNCHANGED <<back, begun, push, loaded, straddled>>

QueueNext ==
  \/ PushBegins \/ StoreSize \/ StoreBack \/ PushPanics
  \/ InitFront \/ InitBack \/ InitSize \/ InitLock
  \/ LockedPush \/ LockedPop

QueueSpec == QueueInit /\ [][QueueNext]_queueVars

-----------------------------------------------------------------------------
(* However the first messages meet the initialisation, no index ever leaves  *)
(* the array; and if they do not meet it, the queue is a queue from then on: *)
(* the next slot to be written is the one behind the last that waits, no     *)
(* matter how many messages were posted, and dropped, before.                *)
QueueSurvivesStart ==
  /\ size_ \in 0..StartCapacity /\ front \in 0..(StartCapacity - 1) /\ back \in 0..(StartCapacity - 1)
  /\ ~straddled /\ push \in {"idle", "panic"} /\ begun \in {0, 4}
       => back = (front + size_) % StartCapacity
=============================================================================
