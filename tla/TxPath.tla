-------------------------------- MODULE TxPath ---------------------------------
(***************************************************************************)
(* The downlink half of the bridge: aerial_sector_adaptor::start, the P5   *)
(* and P7 gateways that turn a request into an nvIPC message, and          *)
(* on_last_message, which posts the TTI semaphore for a slot.  OCUDU calls *)
(* them on two threads, one for P5 and one for P7, which share L1's queue  *)
(* and the buffer pools.                                                   *)
(*                                                                         *)
(* nvIPC and L1 are not part of the repository.  An allocation takes all   *)
(* the buffers it needs or fails, a message keeps its buffers until L1 has *)
(* taken it, and L1 takes messages in the order they were sent.            *)
(***************************************************************************)
EXTENDS Naturals, Sequences, FiniteSetsExt

CONSTANTS MsgBufs,           \* size of the CPU_MSG pool
          DataBufs,          \* size of the CPU_DATA pool
          P7Used,            \* the P7 requests OCUDU makes in this instance
          MaxSlots,          \* bound on the slots L1 indicates
          ConfigWithinSleep, \* L1 needs less than 2000 ms for CONFIG_REQUEST
          NoCall             \* "no gateway call in progress"

P5Ids == {"PARAM", "CONFIG", "START", "STOP"}
P7Ids == {"DL_TTI", "UL_TTI", "UL_DCI", "TX_DATA"}
Request == [id : P5Ids \cup P7Ids, slot : 0 .. MaxSlots]

ASSUME TxPathAssumption ==
  /\ MsgBufs \in Nat \ {0} /\ DataBufs \in Nat \ {0} /\ MaxSlots \in Nat \ {0}
  /\ P7Used \subseteq P7Ids /\ ConfigWithinSleep \in BOOLEAN
  /\ NoCall \notin Request

Threads == {"p5", "p7"}

VARIABLES
  sector,   \* where aerial_sector_adaptor::start is
  stage,    \* how far each thread is in its gateway call
  call,     \* the request of that call
  slot,     \* the slot the P7 thread works on, or has posted last
  todo,     \* its requests OCUDU has not passed to the gateway yet
  lost,     \* its requests that the gateway gave up
  posted,   \* the last slot whose semaphore post was made
  queue,    \* nvIPC messages towards L1, oldest first
  freeMsg, freeData,  \* buffers left in the two pools
  phy,      \* the L1 process
  ticked    \* slots L1 has indicated

p5Vars   == <<sector>>
slotVars == <<slot, todo, lost, posted>>
phyVars  == <<phy, ticked>>
ipcVars  == <<queue, freeMsg, freeData>>
callVars == <<stage, call>>
vars     == <<sector, stage, call, slot, todo, lost, posted,
              queue, freeMsg, freeData, phy, ticked>>

Init ==
  /\ sector = "new"
  /\ stage = [t \in Threads |-> "idle"] /\ call = [t \in Threads |-> NoCall]
  /\ slot = 0 /\ todo = {} /\ lost = {} /\ posted = 0
  /\ queue = <<>> /\ freeMsg = MsgBufs /\ freeData = DataBufs
  /\ phy = "idle" /\ ticked = 0

(* TX_DATA asks for a CPU_DATA buffer too (data_len > 0, data_pool = 1).   *)
DataOf(r) == IF r.id = "TX_DATA" THEN 1 ELSE 0

Idle(t) == stage[t] = "idle"

(* A gateway method is entered.                                            *)
Enter(t, id, s) ==
  /\ Idle(t)
  /\ stage' = [stage EXCEPT ![t] = "alloc"]
  /\ call' = [call EXCEPT ![t] = [id |-> id, slot |-> s]]

(* A gateway method returns; the caller learns nothing of the outcome.     *)
Return(t) ==
  /\ stage' = [stage EXCEPT ![t] = "idle"]
  /\ call' = [call EXCEPT ![t] = NoCall]

GiveUp(t) == lost' = IF t = "p7" THEN lost \cup {call[t].id} ELSE lost

--------------------------------------------------------------------------------
(* The body the gateway methods share: allocate, fill in or serialize,     *)
(* send; an error is printed at most.                                      *)

CanAllocate(r) == freeMsg > 0 /\ freeData >= DataOf(r)

Allocate(t) ==
  /\ stage[t] = "alloc" /\ CanAllocate(call[t])
  /\ freeMsg' = freeMsg - 1 /\ freeData' = freeData - DataOf(call[t])
  /\ stage' = [stage EXCEPT ![t] = "fill"]
  /\ UNCHANGED <<p5Vars, call, slotVars, queue, phyVars>>

(* Deviation: the gateway tries again until the pool has a buffer.         *)
AllocateFails_Retries(t) ==
  /\ stage[t] = "alloc" /\ ~CanAllocate(call[t])
  /\ UNCHANGED vars

AllocateFails(t) ==
  /\ stage[t] = "alloc" /\ ~CanAllocate(call[t])
  /\ GiveUp(t) /\ Return(t)
  /\ UNCHANGED <<p5Vars, slot, todo, posted, ipcVars, phyVars>>

Send(t) ==
  /\ stage[t] = "fill"
  /\ queue' = Append(queue, call[t])
  /\ Return(t)
  /\ UNCHANGED <<p5Vars, slotVars, freeMsg, freeData, phyVars>>

(* Deviations: the error path forgets tx_release; or the message goes out  *)
(* and its buffers are released as well.                                   *)
SerializeFails_Leaks ==
  /\ stage["p7"] = "fill"
  /\ GiveUp("p7") /\ Return("p7")
  /\ UNCHANGED <<p5Vars, slot, todo, posted, ipcVars, phyVars>>

SerializeFails_FallsThrough ==
  /\ stage["p7"] = "fill"
  /\ freeMsg' = freeMsg + 1 /\ freeData' = freeData + DataOf(call["p7"])
  /\ queue' = Append(queue, call["p7"])
  /\ Return("p7")
  /\ UNCHANGED <<p5Vars, slotVars, phyVars>>

(* A serializer's error; the P5 messages have none.  The only one there is *)
(* today is a buffer shorter than the fixed part of the message, which a   *)
(* pool that gives out the 15000 bytes asked for excludes.                 *)
SerializeFails ==
  /\ stage["p7"] = "fill"
  /\ freeMsg' = freeMsg + 1 /\ freeData' = freeData + DataOf(call["p7"])
  /\ GiveUp("p7") /\ Return("p7")
  /\ UNCHANGED <<p5Vars, slot, todo, posted, queue, phyVars>>

--------------------------------------------------------------------------------
(* The P5 thread.                                                          *)

(* start(): CONFIG_REQUEST.                                                *)
StartSector ==
  /\ sector = "new" /\ Enter("p5", "CONFIG", 0)
  /\ sector' = "config"
  /\ UNCHANGED <<slotVars, ipcVars, phyVars>>

(* sleep_for(2000 ms) begins, whether or not CONFIG_REQUEST was sent.      *)
Sleep ==
  /\ sector = "config" /\ Idle("p5")
  /\ sector' = "sleep"
  /\ UNCHANGED <<callVars, slotVars, ipcVars, phyVars>>

ConfigUnderWay ==
  phy # "dead" /\ (phy = "configuring" \/ \E i \in DOMAIN queue : queue[i].id = "CONFIG")

(* Deviation: start() does not sleep.                                      *)
SleepEnds_AtOnce ==
  /\ sector = "sleep"
  /\ Enter("p5", "START", 0)
  /\ sector' = "start"
  /\ UNCHANGED <<slotVars, ipcVars, phyVars>>

(* START_REQUEST when the time is up; no response is looked at.            *)
SleepEnds ==
  /\ sector = "sleep" /\ (ConfigWithinSleep => ~ConfigUnderWay)
  /\ Enter("p5", "START", 0)
  /\ sector' = "start"
  /\ UNCHANGED <<slotVars, ipcVars, phyVars>>

SectorUp ==
  /\ sector = "start" /\ Idle("p5")
  /\ sector' = "up"
  /\ UNCHANGED <<callVars, slotVars, ipcVars, phyVars>>

(* stop() prints the metrics and sends nothing.                            *)
StopSector ==
  /\ sector = "up" /\ Idle("p5")
  /\ sector' = "new"
  /\ UNCHANGED <<callVars, slotVars, ipcVars, phyVars>>

(* OCUDU calls the P5 gateway itself.                                      *)
P5Request ==
  /\ sector = "up"
  /\ \E id \in {"PARAM", "STOP"} : Enter("p5", id, 0)
  /\ UNCHANGED <<p5Vars, slotVars, ipcVars, phyVars>>

--------------------------------------------------------------------------------
(* The P7 thread: one slot at a time, as its slot indication asks for.     *)

BeginSlot ==
  /\ slot = posted /\ slot < ticked
  /\ slot' = slot + 1 /\ todo' \in SUBSET P7Used /\ lost' = {}
  /\ UNCHANGED <<p5Vars, callVars, posted, ipcVars, phyVars>>

P7Request ==
  /\ slot > posted
  /\ \E id \in todo : Enter("p7", id, slot) /\ todo' = todo \ {id}
  /\ UNCHANGED <<p5Vars, slot, lost, posted, ipcVars, phyVars>>

(* Deviation: the sends are handed to another thread, and the semaphore is *)
(* posted while one is still under way.                                    *)
LastMessage_Early ==
  /\ slot > posted /\ todo = {}
  /\ posted' = slot
  /\ UNCHANGED <<p5Vars, callVars, slot, todo, lost, ipcVars, phyVars>>

(* on_last_message: tx_sem_post, whatever became of the requests.          *)
LastMessage ==
  /\ slot > posted /\ todo = {} /\ Idle("p7")
  /\ posted' = slot
  /\ UNCHANGED <<p5Vars, callVars, slot, todo, lost, ipcVars, phyVars>>

--------------------------------------------------------------------------------
(* L1, outside the repository.                                             *)

PhyAfter(id) ==
  CASE id = "CONFIG" /\ phy \in {"idle", "configured"} -> "configuring"
    [] id = "START" /\ phy = "configured" -> "running"
    [] id = "STOP" /\ phy = "running" -> "configured"
    [] OTHER -> phy

PhyTake ==
  /\ phy # "dead" /\ queue # <<>>
  /\ queue' = Tail(queue)
  /\ freeMsg' = freeMsg + 1 /\ freeData' = freeData + DataOf(Head(queue))
  /\ phy' = PhyAfter(Head(queue).id)
  /\ UNCHANGED <<p5Vars, callVars, slotVars, ticked>>

PhyConfigured ==
  /\ phy = "configuring" /\ phy' = "configured"
  /\ UNCHANGED <<p5Vars, callVars, slotVars, ipcVars, ticked>>

PhyTick ==
  /\ phy = "running" /\ ticked < MaxSlots /\ ticked' = ticked + 1
  /\ UNCHANGED <<p5Vars, callVars, slotVars, ipcVars, phy>>

PhyDies ==
  /\ phy # "dead" /\ phy' = "dead"
  /\ UNCHANGED <<p5Vars, callVars, slotVars, ipcVars, ticked>>

--------------------------------------------------------------------------------
Gateway(t) == Allocate(t) \/ AllocateFails(t) \/ Send(t)
P5Step == Gateway("p5") \/ Sleep \/ SleepEnds \/ SectorUp
P7Step == Gateway("p7") \/ SerializeFails \/ BeginSlot \/ P7Request \/ LastMessage
PhyStep == PhyTake \/ PhyConfigured

Next == P5Step \/ P7Step \/ PhyStep \/ StartSector \/ StopSector \/ P5Request \/ PhyTick \/ PhyDies

Spec == Init /\ [][Next]_vars

(* A thread that can run runs, and an L1 that is alive takes what is sent. *)
FairSpec == Spec /\ WF_vars(P5Step) /\ WF_vars(P7Step) /\ WF_vars(PhyStep)

--------------------------------------------------------------------------------
(* Every variable has the values its declaration in the code allows.       *)
TypeOK ==
  /\ sector \in {"new", "config", "sleep", "start", "up"}
  /\ stage \in [Threads -> {"idle", "alloc", "fill"}]
  /\ call \in [Threads -> Request \cup {NoCall}]
  /\ slot \in 0 .. MaxSlots /\ posted \in 0 .. MaxSlots /\ ticked \in 0 .. MaxSlots
  /\ todo \subseteq P7Ids /\ lost \subseteq P7Ids
  /\ queue \in Seq(Request)
  /\ freeMsg \in 0 .. MsgBufs /\ freeData \in 0 .. DataBufs
  /\ phy \in {"idle", "configuring", "configured", "running", "dead"}

(* No CPU_MSG buffer is lost or used twice: with two threads allocating,   *)
(* failing and sending, each buffer is in the pool, in one call's hand or  *)
(* in one queued message.                                                  *)
Filling(t) == IF stage[t] = "fill" THEN 1 ELSE 0
MsgPoolConserved == freeMsg + Filling("p5") + Filling("p7") + Len(queue) = MsgBufs

(* The same for CPU_DATA, which only TX_DATA takes buffers of.             *)
InQueue(id) == {i \in DOMAIN queue : queue[i].id = id}
DataPoolConserved ==
  freeData + Cardinality(InQueue("TX_DATA"))
           + (IF stage["p7"] = "fill" THEN DataOf(call["p7"]) ELSE 0) = DataBufs

(* Once the semaphore was posted for a slot, no P7 message of it is queued *)
(* any more: L1 never gets a request after the slot's on_last_message.     *)
NothingAfterPost ==
  [][\A r \in Request : r.id \in P7Ids /\ queue' = Append(queue, r) => r.slot > posted]_vars

(* However many requests fail, and whether or not L1 is alive, a slot the  *)
(* P7 thread took up gets its semaphore post: no gateway call blocks.      *)
EverySlotIsPosted == \A s \in 1 .. MaxSlots : slot = s ~> posted >= s

(* A pool that ran out has a buffer again while L1 lives: no sequence of   *)
(* failed requests uses it up for good.                                    *)
ExhaustionEnds ==
  /\ freeMsg = 0 ~> freeMsg > 0 \/ phy = "dead"
  /\ freeData = 0 ~> freeData > 0 \/ phy = "dead"

(* If L1 needs no longer than the sleep, start() brings it up: a START     *)
(* that is queued for an L1 that took the CONFIG is not wasted.            *)
StartTakesEffect ==
  (InQueue("START") # {} /\ phy # "idle") ~> phy \in {"running", "dead"}

(* DESIGN.md 6 puts L1's CONFIG_RESPONSE before OCUDU's START_REQUEST, and *)
(* start() means the latter "to transition L1 from CONFIGURED".            *)
StartFollowsConfigResponse ==
  [][\A r \in Request : r.id = "START" /\ queue' = Append(queue, r)
                          => phy \in {"configured", "running", "dead"}]_vars
================================================================================
