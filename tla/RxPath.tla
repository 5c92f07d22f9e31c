-------------------------------- MODULE RxPath ---------------------------------
(***************************************************************************)
(* The uplink half of the bridge and its lifecycle: the thread that owns   *)
(* aerial_fapi_adaptor (constructor, notifier registration, destructor),   *)
(* the detached-on-stop RX thread of rx_thread.cpp, and the nvIPC queue,   *)
(* buffer pool and TTI semaphore they share with L1.                       *)
(*                                                                         *)
(* nvIPC and L1 are not part of the repository.  The queue is FIFO, the    *)
(* semaphore counts, a message occupies one pool buffer from the moment L1 *)
(* fills it until rx_release, and a call through a handle that is null or  *)
(* destroyed does not return.                                              *)
(***************************************************************************)
EXTENDS Naturals, Sequences

CONSTANTS Buffers,   \* RX buffers of the nvIPC pool
          IdsSent,   \* the message ids L1 uses in this instance
          MaxSem,    \* bound on the TTI semaphore
          NoMsg      \* "no message in hand"

Notifiers == {"slot", "ind", "error", "p5"}

(* The notifier pointer each case of dispatch_message goes through. *)
NotifierOf ==
  [SLOT_INDICATION |-> "slot",
   CRC_INDICATION |-> "ind", RX_DATA_INDICATION |-> "ind", UCI_INDICATION |-> "ind",
   RACH_INDICATION |-> "ind", SRS_INDICATION |-> "ind",
   PARAM_RESPONSE |-> "p5", CONFIG_RESPONSE |-> "p5", STOP_INDICATION |-> "p5",
   ERROR_INDICATION |-> "error",
   UNKNOWN |-> "none"]

MsgId == DOMAIN NotifierOf

(* ok: the message passes the length checks of its case and of its decoder. *)
Msg == [buf : Buffers, id : IdsSent, ok : BOOLEAN]

ASSUME RxPathAssumption ==
  /\ IdsSent \subseteq MsgId
  /\ MaxSem \in Nat \ {0}
  /\ NoMsg \notin Msg

VARIABLES
  owner,       \* where the owning thread is in the adaptor's life
  thrown,      \* the constructor left by an exception
  ipc,         \* nvipc_transport::ipc_
  running,     \* rx_thread::running_
  joinable,    \* thread_.joinable()
  registered,  \* the notifier pointers that are not null
  rxPc,        \* where the RX thread is in run_loop
  held,        \* the message between rx_recv and rx_release
  faulted,     \* the RX thread made a call that has no defined outcome
  l1,          \* the L1 process
  queue,       \* nvIPC messages towards the bridge, oldest first
  fresh,       \* how many of the youngest no semaphore post covers yet
  sem,         \* the RX TTI semaphore
  free         \* pool buffers L1 may fill

ownerVars == <<owner, thrown, ipc, running, joinable, registered>>
rxVars    == <<rxPc, held, faulted>>
l1Vars    == <<l1, queue, fresh, sem, free>>
vars      == <<owner, thrown, ipc, running, joinable, registered,
               rxPc, held, faulted, l1, queue, fresh, sem, free>>

OwnerPcs == {"connect", "start", "spawn", "up", "stop", "detach", "destroy", "clear", "gone"}
RxPcs    == {"none", "loop", "wait", "woken", "recv", "dispatch", "notify", "release", "exited"}
InHand   == {"dispatch", "notify", "release"}
Draining == InHand \cup {"recv"}

Init ==
  /\ owner = "connect" /\ thrown = FALSE
  /\ ipc = "null" /\ running = FALSE /\ joinable = FALSE
  /\ registered = {}
  /\ rxPc = "none" /\ held = NoMsg /\ faulted = FALSE
  /\ l1 = "down" /\ queue = <<>> /\ fresh = 0 /\ sem = 0 /\ free = Buffers

--------------------------------------------------------------------------------
(* The owning thread: constructor.                                         *)

(* nvipc_transport::connect succeeds: an L1 that is up has the region.     *)
ConnectOk ==
  /\ owner = "connect" /\ l1 = "up"
  /\ ipc' = "live" /\ owner' = "start"
  /\ UNCHANGED <<thrown, running, joinable, registered, rxVars, l1Vars>>

(* Deviation: the constructor does not look at connect()'s result.         *)
ConnectFails_Unchecked ==
  /\ owner = "connect"
  /\ owner' = "start"
  /\ UNCHANGED <<thrown, ipc, running, joinable, registered, rxVars, l1Vars>>

(* No YAML file, or no interface: connect returns false and the adaptor's  *)
(* constructor throws, once and for all; its members are destroyed.        *)
ConnectFails ==
  /\ owner = "connect"
  /\ thrown' = TRUE /\ owner' = "stop"
  /\ UNCHANGED <<ipc, running, joinable, registered, rxVars, l1Vars>>

(* rx_thread::start up to the creation of the thread.                      *)
StartRx ==
  /\ owner = "start" /\ ~running
  /\ running' = TRUE /\ owner' = "spawn"
  /\ UNCHANGED <<thrown, ipc, joinable, registered, rxVars, l1Vars>>

SpawnOk ==
  /\ owner = "spawn"
  /\ joinable' = TRUE /\ rxPc' = "loop" /\ owner' = "up"
  /\ UNCHANGED <<thrown, ipc, running, registered, held, faulted, l1Vars>>

(* Deviation: the unwinding does not pass through rx_thread::stop.         *)
SpawnFails_NoStop ==
  /\ owner = "spawn"
  /\ thrown' = TRUE /\ owner' = "destroy"
  /\ UNCHANGED <<ipc, running, joinable, registered, rxVars, l1Vars>>

(* std::thread throws out of the constructor with running_ already true.   *)
SpawnFails ==
  /\ owner = "spawn"
  /\ thrown' = TRUE /\ owner' = "stop"
  /\ UNCHANGED <<ipc, running, joinable, registered, rxVars, l1Vars>>

(* A sector adaptor stores a notifier pointer; get_sector_adaptor exists   *)
(* only on a constructed adaptor, whose RX thread runs already.            *)
Register(n) ==
  /\ owner = "up"
  /\ registered' = registered \cup {n}
  /\ UNCHANGED <<owner, thrown, ipc, running, joinable, rxVars, l1Vars>>

--------------------------------------------------------------------------------
(* The owning thread: destructor, and the unwinding of a constructor that  *)
(* threw; both run rx_thread::stop and then nvipc_transport::disconnect.   *)

Destroy ==
  /\ owner = "up" /\ owner' = "stop"
  /\ UNCHANGED <<thrown, ipc, running, joinable, registered, rxVars, l1Vars>>

StopNotRunning ==
  /\ owner = "stop" /\ ~running
  /\ owner' = "destroy"
  /\ UNCHANGED <<thrown, ipc, running, joinable, registered, rxVars, l1Vars>>

StopRx ==
  /\ owner = "stop" /\ running
  /\ running' = FALSE /\ owner' = "detach"
  /\ UNCHANGED <<thrown, ipc, joinable, registered, rxVars, l1Vars>>

(* Deviation: stop() joins instead of detaching.                           *)
Detach_Joins ==
  /\ owner = "detach" /\ rxPc = "exited"
  /\ joinable' = FALSE /\ owner' = "destroy"
  /\ UNCHANGED <<thrown, ipc, running, registered, rxVars, l1Vars>>

Detach ==
  /\ owner = "detach"
  /\ joinable' = FALSE /\ owner' = "destroy"
  /\ UNCHANGED <<thrown, ipc, running, registered, rxVars, l1Vars>>

DestroyIpc ==
  /\ owner = "destroy" /\ ipc = "live"
  /\ ipc' = "destroyed" /\ owner' = "clear"
  /\ UNCHANGED <<thrown, running, joinable, registered, rxVars, l1Vars>>

NothingToDestroy ==
  /\ owner = "destroy" /\ ipc = "null"
  /\ owner' = "gone"
  /\ UNCHANGED <<thrown, ipc, running, joinable, registered, rxVars, l1Vars>>

(* ipc_ = nullptr, and the adaptor's memory is given back.                 *)
ClearIpc ==
  /\ owner = "clear"
  /\ ipc' = "null" /\ owner' = "gone"
  /\ UNCHANGED <<thrown, running, joinable, registered, rxVars, l1Vars>>

Construct == ConnectOk \/ ConnectFails \/ StartRx \/ SpawnOk \/ SpawnFails
Teardown  == StopNotRunning \/ StopRx \/ Detach \/ DestroyIpc \/ NothingToDestroy \/ ClearIpc

--------------------------------------------------------------------------------
(* The RX thread: run_loop.  Its reads of *this after the adaptor is gone  *)
(* see what was left there, or fault (RxFault).                            *)

RxLoop ==
  /\ rxPc = "loop" /\ ~faulted
  /\ rxPc' = IF running THEN "wait" ELSE "exited"
  /\ UNCHANGED <<ownerVars, held, faulted, l1Vars>>

(* rx_sem_wait returns.                                                    *)
RxWake ==
  /\ rxPc = "wait" /\ ~faulted /\ ipc = "live" /\ sem > 0
  /\ sem' = sem - 1 /\ rxPc' = "woken"
  /\ UNCHANGED <<ownerVars, held, faulted, l1, queue, fresh, free>>

(* Deviation: no check of running_ after rx_sem_wait.                      *)
RxWoken_Unchecked ==
  /\ rxPc = "woken" /\ ~faulted
  /\ rxPc' = "recv"
  /\ UNCHANGED <<ownerVars, held, faulted, l1Vars>>

RxWoken ==
  /\ rxPc = "woken" /\ ~faulted
  /\ rxPc' = IF running THEN "recv" ELSE "exited"
  /\ UNCHANGED <<ownerVars, held, faulted, l1Vars>>

(* Deviations: the loop receives twice per turn; the buffer is released as *)
(* soon as it is received.                                                 *)
RxRecv_Twice ==
  /\ rxPc = "recv" /\ ~faulted /\ ipc = "live" /\ queue # <<>>
  /\ held' = Head(queue) /\ queue' = SubSeq(queue, 3, Len(queue))
  /\ fresh' = IF fresh = Len(queue) THEN fresh - 1 ELSE fresh
  /\ rxPc' = "dispatch"
  /\ UNCHANGED <<ownerVars, faulted, l1, sem, free>>

RxRecv_EarlyRelease ==
  /\ rxPc = "recv" /\ ~faulted /\ ipc = "live" /\ queue # <<>>
  /\ held' = Head(queue) /\ queue' = Tail(queue) /\ free' = free \cup {Head(queue).buf}
  /\ fresh' = IF fresh = Len(queue) THEN fresh - 1 ELSE fresh
  /\ rxPc' = "dispatch"
  /\ UNCHANGED <<ownerVars, faulted, l1, sem>>

(* rx_recv hands over the oldest message.  running_ is not looked at again *)
(* before the queue is empty.                                              *)
RxRecv ==
  /\ rxPc = "recv" /\ ~faulted /\ ipc = "live" /\ queue # <<>>
  /\ held' = Head(queue) /\ queue' = Tail(queue)
  /\ fresh' = IF fresh = Len(queue) THEN fresh - 1 ELSE fresh
  /\ rxPc' = "dispatch"
  /\ UNCHANGED <<ownerVars, faulted, l1, sem, free>>

RxDrained ==
  /\ rxPc = "recv" /\ ~faulted /\ ipc = "live" /\ queue = <<>>
  /\ rxPc' = "loop"
  /\ UNCHANGED <<ownerVars, held, faulted, l1Vars>>

(* Deviation: the early returns of dispatch_message skip the release.      *)
RxDispatch_Leaks ==
  /\ rxPc = "dispatch" /\ ~faulted
  /\ \/ /\ held.ok /\ NotifierOf[held.id] \in registered
        /\ rxPc' = "notify" /\ held' = held
     \/ /\ ~(held.ok /\ NotifierOf[held.id] \in registered)
        /\ rxPc' = "recv" /\ held' = NoMsg
  /\ UNCHANGED <<ownerVars, faulted, l1Vars>>

(* dispatch_message: a message that is well formed and has its notifier    *)
(* enters the callback, any other one goes straight to its release.        *)
RxDispatch ==
  /\ rxPc = "dispatch" /\ ~faulted
  /\ rxPc' = IF held.ok /\ NotifierOf[held.id] \in registered THEN "notify" ELSE "release"
  /\ UNCHANGED <<ownerVars, held, faulted, l1Vars>>

(* The callback returns.                                                   *)
RxNotified ==
  /\ rxPc = "notify" /\ ~faulted
  /\ rxPc' = "release"
  /\ UNCHANGED <<ownerVars, held, faulted, l1Vars>>

(* Deviation: one message per wakeup (if instead of while).                *)
RxRelease_Once ==
  /\ rxPc = "release" /\ ~faulted /\ ipc = "live"
  /\ free' = free \cup {held.buf} /\ held' = NoMsg
  /\ rxPc' = "loop"
  /\ UNCHANGED <<ownerVars, faulted, l1, queue, fresh, sem>>

RxRelease ==
  /\ rxPc = "release" /\ ~faulted /\ ipc = "live"
  /\ free' = free \cup {held.buf} /\ held' = NoMsg
  /\ rxPc' = "recv"
  /\ UNCHANGED <<ownerVars, faulted, l1, queue, fresh, sem>>

(* A call through a handle that is gone, or a read of the freed adaptor.   *)
RxFault ==
  /\ rxPc \notin {"none", "exited"} /\ ~faulted
  /\ \/ rxPc \in {"wait", "recv", "release"} /\ ipc # "live"
     \/ owner = "gone"
  /\ faulted' = TRUE
  /\ UNCHANGED <<ownerVars, rxPc, held, l1Vars>>

RxStep == RxLoop \/ RxWake \/ RxWoken \/ RxRecv \/ RxDrained
            \/ RxDispatch \/ RxNotified \/ RxRelease

--------------------------------------------------------------------------------
(* L1 and its end of nvIPC (external).                                     *)

L1Start ==
  /\ l1 = "down" /\ l1' = "up"
  /\ UNCHANGED <<ownerVars, rxVars, queue, fresh, sem, free>>

L1Send(m) ==
  /\ l1 = "up" /\ m.buf \in free
  /\ free' = free \ {m.buf} /\ queue' = Append(queue, m) /\ fresh' = fresh + 1
  /\ UNCHANGED <<ownerVars, rxVars, l1, sem>>

L1Post ==
  /\ l1 = "up" /\ sem < MaxSem
  /\ sem' = sem + 1 /\ fresh' = 0
  /\ UNCHANGED <<ownerVars, rxVars, l1, queue, free>>

L1Crash ==
  /\ l1 = "up" /\ l1' = "crashed"
  /\ UNCHANGED <<ownerVars, rxVars, queue, fresh, sem, free>>

L1Next == L1Start \/ (\E m \in Msg : L1Send(m)) \/ L1Post \/ L1Crash

--------------------------------------------------------------------------------
Next == \/ Construct \/ (\E n \in Notifiers : Register(n)) \/ Destroy \/ Teardown
        \/ RxStep \/ RxFault
        \/ L1Next

Spec == Init /\ [][Next]_vars

(* The kernel schedules both threads of the bridge; L1 posts what it sent. *)
(* Nobody has to destroy the adaptor, and L1 need neither start nor crash. *)
FairSpec == /\ Spec
            /\ WF_vars(Construct) /\ WF_vars(Teardown)
            /\ WF_vars(RxStep)
            /\ WF_vars(L1Post)

--------------------------------------------------------------------------------
(* Properties.                                                             *)

TypeOK ==
  /\ owner \in OwnerPcs /\ thrown \in BOOLEAN
  /\ ipc \in {"null", "live", "destroyed"}
  /\ running \in BOOLEAN /\ joinable \in BOOLEAN
  /\ registered \subseteq Notifiers
  /\ rxPc \in RxPcs /\ held \in Msg \cup {NoMsg} /\ faulted \in BOOLEAN
  /\ l1 \in {"down", "up", "crashed"}
  /\ queue \in Seq(Msg) /\ fresh \in 0..Len(queue)
  /\ sem \in 0..MaxSem
  /\ free \subseteq Buffers

(* The thread has a message exactly between rx_recv and rx_release.        *)
HandOK == held # NoMsg <=> rxPc \in InHand

(* Which handle, flag, thread object and thread go with each point of the   *)
(* adaptor's life; in particular ipc_ is live whenever running_ is true,    *)
(* and nobody is left to join when the destructors run.                     *)
NoThread  == ~joinable /\ rxPc = "none"
Lifecycle ==
  /\ owner = "connect" => ipc = "null" /\ ~running /\ NoThread
  /\ owner = "start"   => ipc = "live" /\ ~running /\ NoThread
  /\ owner = "spawn"   => ipc = "live" /\ running /\ NoThread
  /\ owner = "up"      => ipc = "live" /\ running /\ joinable /\ rxPc # "none"
  /\ owner = "stop"    => \/ ipc = "live" /\ running
                          \/ ipc = "null" /\ ~running /\ NoThread
  /\ owner = "detach"  => ipc = "live" /\ ~running
  /\ owner = "destroy" => /\ ~running /\ ~joinable
                          /\ ipc = "live" \/ (ipc = "null" /\ NoThread)
  /\ owner = "clear"   => ipc = "destroyed" /\ ~running /\ ~joinable
  /\ owner = "gone"    => ipc = "null" /\ ~running /\ ~joinable

(* Every pool buffer is in exactly one place: free, in one queued message, *)
(* or in the hand of the RX thread.  A malformed message, a message nobody *)
(* registered for and a late unknown one are released like any other, no   *)
(* buffer is released twice, and L1 never fills one a notifier may read.   *)
QueuedBufs == {queue[i].buf : i \in 1..Len(queue)}
HeldBufs   == IF held = NoMsg THEN {} ELSE {held.buf}

Conservation ==
  /\ \A i, j \in 1..Len(queue) : queue[i].buf = queue[j].buf => i = j
  /\ QueuedBufs \cap free = {}
  /\ HeldBufs \cap (free \cup QueuedBufs) = {}
  /\ Buffers = free \cup QueuedBufs \cup HeldBufs

(* The thread never goes to sleep on a message L1 has posted: it drains    *)
(* the whole queue per wakeup, so posts and messages get out of step, but  *)
(* only in the harmless direction (wakeups that find nothing).             *)
NoLostWakeup ==
  (rxPc \in {"none", "loop", "wait"} /\ fresh < Len(queue)) => sem > 0

(* Every call the RX thread makes through nvIPC, and every read of the     *)
(* adaptor, is on something alive until the destructor has destroyed the   *)
(* interface: a fault needs a teardown that overtook the thread.           *)
FaultOnlyAfterTeardown == faulted => owner \in {"clear", "gone"}

(* However the adaptor's life ends (destructor, connect failure, thread    *)
(* creation failure), what is destroyed is a non-joinable std::thread and  *)
(* a transport with no handle: no std::terminate, no leaked interface.     *)
CleanEnd == owner = "gone" => ~joinable /\ ~running /\ ipc = "null"

(* The check after rx_sem_wait: a thread woken after stop() does not start *)
(* calling notifiers for another TTI; it can only finish the drain it is   *)
(* in.                                                                     *)
NoDrainAfterStop ==
  [][~running /\ rxPc \notin Draining => rxPc' \notin Draining]_vars

(* The uplink path keeps the promise stated in IndicationChannel: L1's     *)
(* messages are shown in order, each at most once, and no buffer is filled *)
(* again before the message in it is retired.                              *)
PendingMsgs == (IF held = NoMsg THEN <<>> ELSE <<held>>) \o queue
HeadPhase   == CASE rxPc = "notify"  -> "shown"
                 [] rxPc = "release" -> "settled"
                 [] OTHER            -> "untouched"

Channel == INSTANCE IndicationChannel WITH pending <- PendingMsgs, phase <- HeadPhase

ImplementsChannel == Channel!ChanSpec

(* A posted message is handled and its buffer given back, whatever L1 does *)
(* next (also if it crashes), as long as the bridge is not shut down.      *)
Posted(b) == \E i \in 1..(Len(queue) - fresh) : queue[i].buf = b
Serving   == owner = "up"

PostedHandled == \A b \in Buffers : Posted(b) /\ Serving ~> b \in free \/ ~Serving

(* An exhausted RX pool recovers while the bridge is up and L1 lives.      *)
PoolRefills == (free = {} /\ Serving) ~> (free # {} \/ ~Serving \/ l1 = "crashed")

(* stop() never waits for a thread that may sleep until L1's next post     *)
(* (rx_thread.cpp:109): the destructor always gets through.                *)
TeardownEnds == owner = "stop" ~> owner = "gone"

--------------------------------------------------------------------------------
(* What the documents say and the code does not do.                        *)

(* rx_thread.h:60, "OCUDU notifiers (set before start, read from RX        *)
(* thread)": a notifier pointer changes only while there is no RX thread.  *)
SetBeforeStart == [][registered' # registered => rxPc = "none"]_vars

(* DESIGN.md:259, "L1 crash: RX thread detects broken SHM, triggers OCUDU  *)
(* shutdown": the adaptor does not stay up over a crashed L1.              *)
CrashTriggersShutdown == (l1 = "crashed" /\ Serving) ~> ~Serving
================================================================================
