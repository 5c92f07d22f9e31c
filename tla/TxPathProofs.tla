----------------------------- MODULE TxPathProofs ------------------------------
(***************************************************************************)
(* What TxPath promises for pools of any size, any number of slots and any *)
(* time L1 may need: types, the two pools, and that nothing of a slot is   *)
(* queued once its semaphore post was made.                                *)
(***************************************************************************)
EXTENDS TxPath, SequenceTheorems, FunctionTheorems, FiniteSetTheorems, TLAPS

USE DEF p5Vars, slotVars, phyVars, ipcVars, callVars

(* A thread has a call exactly while it is inside the gateway, and the P7  *)
(* thread's call is for the slot that is open, so it cannot be posted.     *)
CallOK ==
  /\ \A t \in Threads : stage[t] = "idle" <=> call[t] = NoCall
  /\ stage["p5"] # "idle" => call["p5"].id \in P5Ids
  /\ stage["p7"] # "idle" => call["p7"].id \in P7Ids /\ call["p7"].slot = slot /\ slot > posted
  /\ posted <= slot

Inv == TypeOK /\ CallOK /\ MsgPoolConserved /\ DataPoolConserved

(* A thread with a request in hand is not idle.                            *)
LEMMA RequestIsNotNoCall == \A r \in Request : r # NoCall
  BY TxPathAssumption

(* The shape of every step: which disjunct of Next it is.                  *)
LEMMA Steps ==
  ASSUME Next
  PROVE  \/ \E t \in Threads : Allocate(t) \/ AllocateFails(t) \/ Send(t)
         \/ SerializeFails \/ StartSector \/ Sleep \/ SleepEnds \/ SectorUp \/ StopSector
         \/ P5Request \/ BeginSlot \/ P7Request \/ LastMessage
         \/ PhyTake \/ PhyConfigured \/ PhyTick \/ PhyDies
  BY DEF Next, P5Step, P7Step, PhyStep, Gateway, Threads

(* Counting the TX_DATA messages of a queue: a send adds what DataOf says  *)
(* of the message, a take removes it.                                      *)
DataIn(q) == {i \in DOMAIN q : q[i].id = "TX_DATA"}

(* The TX_DATA messages of a queue can be counted.                         *)
LEMMA DataInIsFinite ==
  ASSUME NEW q \in Seq(Request)
  PROVE  IsFiniteSet(DataIn(q)) /\ Cardinality(DataIn(q)) \in Nat
  <1>1. DataIn(q) \in SUBSET (1 .. Len(q)) /\ Len(q) \in Nat
    BY DEF DataIn
  <1>2. IsFiniteSet(1 .. Len(q))
    BY <1>1, FS_Interval
  <1>3. IsFiniteSet(DataIn(q))
    BY <1>1, <1>2, FS_Subset
  <1> QED BY <1>3, FS_CardinalityType

(* A send adds the data buffers of its message to the queue's.             *)
LEMMA SendCounts ==
  ASSUME NEW q \in Seq(Request), NEW r \in Request
  PROVE  Cardinality(DataIn(Append(q, r))) = Cardinality(DataIn(q)) + DataOf(r)
  <1>1. CASE r.id = "TX_DATA"
    <2>1. DataIn(Append(q, r)) = DataIn(q) \cup {Len(q) + 1} /\ Len(q) + 1 \notin DataIn(q)
      BY <1>1 DEF DataIn
    <2> QED BY <1>1, <2>1, DataInIsFinite, FS_AddElement DEF DataOf
  <1>2. CASE r.id # "TX_DATA"
    <2>1. DataIn(Append(q, r)) = DataIn(q)
      BY <1>2 DEF DataIn
    <2> QED BY <1>2, <2>1, DataInIsFinite DEF DataOf
  <1> QED BY <1>1, <1>2

(* A take gives back the data buffers of the oldest message.               *)
LEMMA TakeCounts ==
  ASSUME NEW q \in Seq(Request), q # <<>>
  PROVE  Cardinality(DataIn(Tail(q))) + DataOf(Head(q)) = Cardinality(DataIn(q))
  <1> DEFINE rest == DataIn(q) \ {1}
             shift == [i \in rest |-> i - 1]
  <1>1. IsFiniteSet(rest) /\ Cardinality(rest) + DataOf(Head(q)) = Cardinality(DataIn(q))
    <2>1. 1 \in DataIn(q) <=> Head(q).id = "TX_DATA"
      BY DEF DataIn
    <2>2. /\ IsFiniteSet(rest)
          /\ Cardinality(rest) = IF 1 \in DataIn(q) THEN Cardinality(DataIn(q)) - 1
                                                    ELSE Cardinality(DataIn(q))
      BY DataInIsFinite, FS_RemoveElement
    <2>3. Cardinality(DataIn(q)) \in Nat
      BY DataInIsFinite
    <2> HIDE DEF rest
    <2> QED BY <2>1, <2>2, <2>3 DEF DataOf
  <1>2. \A i \in rest : i \in 2 .. Len(q) /\ q[i].id = "TX_DATA"
    BY DEF DataIn
  <1>3. \A j \in DataIn(Tail(q)) : j \in Nat /\ j + 1 \in rest /\ (j + 1) - 1 = j
    BY DEF DataIn
  <1>4. \A i \in rest : i - 1 \in DataIn(Tail(q))
    BY <1>2 DEF DataIn
  <1>5. shift \in Bijection(rest, DataIn(Tail(q)))
    <2>1. shift \in [rest -> DataIn(Tail(q))]
      BY <1>4
    <2>2. \A a, b \in rest : shift[a] = shift[b] => a = b
      BY <1>2
    <2>3. \A j \in DataIn(Tail(q)) : \E i \in rest : shift[i] = j
      BY <1>3
    <2> QED BY <2>1, <2>2, <2>3, Fun_IsBij
  <1>6. Cardinality(DataIn(Tail(q))) = Cardinality(rest)
    BY <1>1, <1>5, FS_Bijection, Fun_ExistsBij
  <1> QED BY <1>1, <1>6

(* Counting is the same thing in the property and here.                    *)
LEMMA DataInQueue ==
  /\ DataPoolConserved <=>
       freeData + Cardinality(DataIn(queue))
         + (IF stage["p7"] = "fill" THEN DataOf(call["p7"]) ELSE 0) = DataBufs
  /\ DataPoolConserved' <=>
       freeData' + Cardinality(DataIn(queue'))
         + (IF stage'["p7"] = "fill" THEN DataOf(call'["p7"]) ELSE 0) = DataBufs
  BY DEF DataPoolConserved, InQueue, DataIn, DataOf

(* Nothing is in flight initially: every buffer is in its pool.            *)
LEMMA InvInit == Init => Inv
  <1> SUFFICES ASSUME Init PROVE Inv
    OBVIOUS
  <1>1. TypeOK
    BY TxPathAssumption DEF Init, TypeOK, Threads
  <1>2. CallOK
    BY TxPathAssumption DEF Init, CallOK, Threads
  <1>3. MsgPoolConserved
    BY TxPathAssumption DEF Init, MsgPoolConserved, Filling, Threads
  <1>4. DataPoolConserved
    <2>1. DataIn(queue) = {} /\ stage["p7"] = "idle" /\ freeData = DataBufs
      BY DEF Init, DataIn, Threads
    <2> QED BY <2>1, DataInQueue, FS_EmptySet, TxPathAssumption
  <1> QED BY <1>1, <1>2, <1>3, <1>4 DEF Inv

(* Every step of either thread and of L1 keeps the pools and the calls right. *)
LEMMA InvStep == Inv /\ [Next]_vars => Inv'
  <1> SUFFICES ASSUME TypeOK, CallOK, MsgPoolConserved, DataPoolConserved, [Next]_vars PROVE Inv'
    BY DEF Inv
  <1> USE TxPathAssumption, RequestIsNotNoCall DEF Threads
  <1>q. queue \in Seq(Request) /\ Cardinality(DataIn(queue)) \in Nat /\ Len(queue) \in Nat
    BY DataInIsFinite DEF TypeOK
  <1>c. \A t \in Threads : stage[t] # "idle" => call[t] \in Request
    BY DEF CallOK, TypeOK
  <1>d. stage["p5"] # "idle" => DataOf(call["p5"]) = 0
    BY DEF CallOK, DataOf, P5Ids
  <1>e. \A r : DataOf(r) \in {0, 1}
    BY DEF DataOf
  <1>1. ASSUME NEW t \in Threads, Allocate(t) PROVE Inv'
    <2>1. TypeOK'
      BY <1>1, <1>e DEF Allocate, TypeOK, CanAllocate, DataOf
    <2>2. CallOK'
      BY <1>1 DEF Allocate, TypeOK, CallOK
    <2>3. MsgPoolConserved'
      BY <1>1 DEF Allocate, CanAllocate, TypeOK, MsgPoolConserved, Filling
    <2>4. DataPoolConserved'
      <3>1. CASE t = "p5"
        BY <3>1, <1>1, <1>q, <1>d, DataInQueue DEF Allocate, TypeOK
      <3>2. CASE t = "p7"
        BY <3>2, <1>1, <1>q, <1>e, DataInQueue DEF Allocate, CanAllocate, TypeOK
      <3> QED BY <3>1, <3>2
    <2> QED BY <2>1, <2>2, <2>3, <2>4 DEF Inv
  <1>2. ASSUME NEW t \in Threads, AllocateFails(t) PROVE Inv'
    <2>1. TypeOK'
      BY <1>2, <1>c DEF AllocateFails, GiveUp, Return, TypeOK, CallOK
    <2>2. CallOK'
      BY <1>2 DEF AllocateFails, Return, TypeOK, CallOK
    <2>3. MsgPoolConserved'
      BY <1>2 DEF AllocateFails, Return, TypeOK, MsgPoolConserved, Filling
    <2>4. DataPoolConserved'
      BY <1>2, <1>q, <1>e, DataInQueue DEF AllocateFails, Return, TypeOK
    <2> QED BY <2>1, <2>2, <2>3, <2>4 DEF Inv
  <1>3. ASSUME NEW t \in Threads, Send(t) PROVE Inv'
    <2>1. TypeOK'
      BY <1>3, <1>c DEF Send, Return, TypeOK
    <2>2. CallOK'
      BY <1>3 DEF Send, Return, TypeOK, CallOK
    <2>3. Len(queue') = Len(queue) + 1
      BY <1>3, <1>c DEF Send, TypeOK
    <2>4. MsgPoolConserved'
      BY <1>3, <2>3 DEF Send, Return, TypeOK, MsgPoolConserved, Filling
    <2>5. Cardinality(DataIn(queue')) = Cardinality(DataIn(queue)) + DataOf(call[t])
      BY <1>3, <1>q, <1>c, SendCounts DEF Send
    <2>6. DataPoolConserved'
      <3>1. CASE t = "p5"
        BY <3>1, <2>5, <1>3, <1>q, <1>d, DataInQueue DEF Send, Return, TypeOK
      <3>2. CASE t = "p7"
        <4>1. /\ stage["p7"] = "fill" /\ stage'["p7"] = "idle"
              /\ freeData' = freeData /\ freeData \in Nat
          BY <3>2, <1>3 DEF Send, Return, TypeOK
        <4>2. freeData + Cardinality(DataIn(queue)) + DataOf(call["p7"]) = DataBufs
          BY <4>1, DataInQueue
        <4>3. freeData' + Cardinality(DataIn(queue')) + 0 = DataBufs
          BY <4>1, <4>2, <3>2, <2>5, <1>q, <1>e
        <4> QED BY <4>1, <4>3, DataInQueue
      <3> QED BY <3>1, <3>2
    <2> QED BY <2>1, <2>2, <2>4, <2>6 DEF Inv
  <1>4. CASE SerializeFails
    <2>1. call["p7"] \in Request /\ call["p7"].id \in P7Ids
      BY <1>4, <1>c DEF SerializeFails, CallOK
    <2>2. CallOK'
      BY <1>4 DEF SerializeFails, Return, TypeOK, CallOK
    <2>3. MsgPoolConserved' /\ freeMsg' \in 0 .. MsgBufs
      BY <1>4, <1>q DEF SerializeFails, Return, TypeOK, MsgPoolConserved, Filling
    <2>4. DataPoolConserved' /\ freeData' \in 0 .. DataBufs
      BY <1>4, <1>q, <1>e, DataInQueue DEF SerializeFails, Return, TypeOK
    <2>5. TypeOK'
      BY <1>4, <2>1, <2>3, <2>4 DEF SerializeFails, GiveUp, Return, TypeOK
    <2> QED BY <2>2, <2>3, <2>4, <2>5 DEF Inv
  <1>5. CASE PhyTake
    <2>1. /\ queue' \in Seq(Request) /\ Len(queue') = Len(queue) - 1
          /\ Cardinality(DataIn(queue')) + DataOf(Head(queue)) = Cardinality(DataIn(queue))
          /\ Cardinality(DataIn(queue')) \in Nat
      <3>1. queue # <<>> /\ queue' = Tail(queue)
        BY <1>5 DEF PhyTake
      <3>2. queue' \in Seq(Request) /\ Len(queue') = Len(queue) - 1
        BY <3>1, <1>q
      <3>3. Cardinality(DataIn(queue')) + DataOf(Head(queue)) = Cardinality(DataIn(queue))
        BY <3>1, <1>q, TakeCounts
      <3> QED BY <3>2, <3>3, DataInIsFinite
    <2>2. CallOK'
      BY <1>5 DEF PhyTake, CallOK
    <2>3. MsgPoolConserved' /\ freeMsg' \in 0 .. MsgBufs
      BY <1>5, <1>q, <2>1 DEF PhyTake, TypeOK, MsgPoolConserved, Filling
    <2>4. DataPoolConserved' /\ freeData' \in 0 .. DataBufs
      <3> DEFINE hand == IF stage["p7"] = "fill" THEN DataOf(call["p7"]) ELSE 0
      <3>1. hand \in {0, 1} /\ DataOf(Head(queue)) \in {0, 1} /\ freeData \in Nat /\ DataBufs \in Nat
        BY <1>e DEF TypeOK
      <3>2. freeData + Cardinality(DataIn(queue)) + hand = DataBufs
        BY DataInQueue
      <3>3. freeData' = freeData + DataOf(Head(queue)) /\ UNCHANGED callVars
        BY <1>5 DEF PhyTake
      <3>4. DataPoolConserved' <=> freeData' + Cardinality(DataIn(queue')) + hand = DataBufs
        BY <3>3, DataInQueue
      <3> HIDE DEF hand
      <3>5. freeData' + Cardinality(DataIn(queue')) + hand = DataBufs /\ freeData' \in 0 .. DataBufs
        BY <1>q, <2>1, <3>1, <3>2, <3>3
      <3> QED BY <3>4, <3>5
    <2>5. phy' \in {"idle", "configuring", "configured", "running", "dead"}
      BY <1>5 DEF PhyTake, PhyAfter, TypeOK
    <2>6. TypeOK'
      BY <1>5, <2>1, <2>3, <2>4, <2>5 DEF PhyTake, TypeOK
    <2> QED BY <2>2, <2>3, <2>4, <2>6 DEF Inv
  <1>6. CASE StartSector \/ SleepEnds \/ P5Request
    <2>1. PICK id \in P5Ids : Enter("p5", id, 0)
      BY <1>6 DEF StartSector, SleepEnds, P5Request, P5Ids
    <2>2. [id |-> id, slot |-> 0] \in Request
      BY DEF Request
    <2>3. /\ UNCHANGED <<slotVars, ipcVars, phyVars>>
          /\ sector' \in {"new", "config", "sleep", "start", "up"}
      BY <1>6 DEF StartSector, SleepEnds, P5Request, TypeOK
    <2>4. TypeOK'
      BY <2>1, <2>2, <2>3 DEF Enter, Idle, TypeOK
    <2>5. CallOK'
      BY <2>1, <2>2, <2>3 DEF Enter, Idle, TypeOK, CallOK
    <2>6. MsgPoolConserved'
      BY <2>1, <2>3 DEF Enter, Idle, TypeOK, MsgPoolConserved, Filling
    <2>7. DataPoolConserved'
      BY <2>1, <2>3, <1>q, DataInQueue DEF Enter, Idle, TypeOK
    <2> QED BY <2>4, <2>5, <2>6, <2>7 DEF Inv
  <1>7. CASE P7Request
    <2>1. PICK id \in todo : Enter("p7", id, slot) /\ todo' = todo \ {id}
      BY <1>7 DEF P7Request
    <2>2. id \in P7Ids /\ [id |-> id, slot |-> slot] \in Request
      BY DEF Request, TypeOK
    <2>3. slot > posted /\ UNCHANGED <<p5Vars, slot, lost, posted, ipcVars, phyVars>>
      BY <1>7 DEF P7Request
    <2>4. TypeOK'
      BY <2>1, <2>2, <2>3 DEF Enter, Idle, TypeOK
    <2>5. CallOK'
      BY <2>1, <2>2, <2>3 DEF Enter, Idle, TypeOK, CallOK
    <2>6. MsgPoolConserved'
      BY <2>1, <2>3 DEF Enter, Idle, TypeOK, MsgPoolConserved, Filling
    <2>7. DataPoolConserved'
      BY <2>1, <2>3, <1>q, DataInQueue DEF Enter, Idle, TypeOK
    <2> QED BY <2>4, <2>5, <2>6, <2>7 DEF Inv
  <1>8. CASE Sleep \/ SectorUp \/ StopSector \/ PhyConfigured \/ PhyTick \/ PhyDies \/ UNCHANGED vars
    <2>1. /\ UNCHANGED <<callVars, slotVars, ipcVars>>
          /\ sector' \in {"new", "config", "sleep", "start", "up"}
          /\ phy' \in {"idle", "configuring", "configured", "running", "dead"}
          /\ ticked' \in 0 .. MaxSlots
      BY <1>8 DEF Sleep, SectorUp, StopSector, PhyConfigured, PhyTick, PhyDies, TypeOK, vars
    <2>2. TypeOK' /\ CallOK'
      BY <2>1 DEF TypeOK, CallOK
    <2>3. MsgPoolConserved'
      BY <2>1 DEF MsgPoolConserved, Filling
    <2>4. DataPoolConserved'
      BY <2>1, DataInQueue
    <2> QED BY <2>2, <2>3, <2>4 DEF Inv
  <1>9. CASE BeginSlot \/ LastMessage
    <2>1. /\ UNCHANGED <<p5Vars, callVars, ipcVars, phyVars>>
          /\ slot' \in 0 .. MaxSlots /\ posted' \in 0 .. MaxSlots /\ posted' <= slot'
          /\ todo' \subseteq P7Ids /\ lost' \subseteq P7Ids
      BY <1>9 DEF BeginSlot, LastMessage, TypeOK
    <2>2. stage["p7"] = "idle"
      BY <1>9 DEF BeginSlot, LastMessage, CallOK, Idle, TypeOK
    <2>3. TypeOK'
      BY <2>1 DEF TypeOK
    <2>4. CallOK'
      BY <2>1, <2>2 DEF CallOK
    <2>5. MsgPoolConserved'
      BY <2>1 DEF MsgPoolConserved, Filling
    <2>6. DataPoolConserved'
      BY <2>1, DataInQueue
    <2> QED BY <2>3, <2>4, <2>5, <2>6 DEF Inv
  <1> QED BY <1>1, <1>2, <1>3, <1>4, <1>5, <1>6, <1>7, <1>8, <1>9, Steps

(* The conjuncts of the invariant hold at every moment.                    *)
LEMMA Invariant == Spec => []Inv
  BY InvInit, InvStep, PTL DEF Spec

(* Every variable keeps the type the code declares, whatever the bounds.   *)
THEOREM TypeCorrect == Spec => []TypeOK
  BY Invariant, PTL DEF Inv

(* The message pool loses no buffer and gives none out twice, whatever     *)
(* fails in the gateway and whatever the two threads interleave.           *)
THEOREM PoolConserved == Spec => []MsgPoolConserved
  BY Invariant, PTL DEF Inv

(* Nor does the data pool, whose buffers are allocated by the same call    *)
(* and released by another than the one that allocated them.               *)
THEOREM DataConserved == Spec => []DataPoolConserved
  BY Invariant, PTL DEF Inv

(* A slot that was posted gets no further request.                         *)
THEOREM NothingComesAfterThePost == Spec => NothingAfterPost
  <1> DEFINE Quiet == \A r \in Request : r.id \in P7Ids /\ queue' = Append(queue, r) => r.slot > posted
  <1>1. Inv /\ [Next]_vars => [Quiet]_vars
    <2> SUFFICES ASSUME Inv, Next, NEW r \in Request, r.id \in P7Ids, queue' = Append(queue, r)
                 PROVE  r.slot > posted
      BY DEF vars
    <2>1. queue \in Seq(Request) /\ Len(queue') = Len(queue) + 1
      BY DEF Inv, TypeOK
    <2>2. queue' # queue /\ ~PhyTake
      BY <2>1 DEF PhyTake
    <2>3. PICK t \in Threads : Send(t)
      BY <2>2, Steps DEF Allocate, AllocateFails, SerializeFails, StartSector, Sleep, SleepEnds,
           SectorUp, StopSector, P5Request, BeginSlot, P7Request, LastMessage,
           PhyConfigured, PhyTick, PhyDies
    <2>4. call[t] = r
      <3>1. call[t] \in Request /\ queue' = Append(queue, call[t])
        BY <2>3 DEF Send, Inv, CallOK, TypeOK
      <3>2. Append(queue, call[t]) = Append(queue, r)
        BY <3>1
      <3>3. queue \in Seq(Request) /\ r \in Request /\ call[t] \in Request
        BY <2>1, <3>1
      <3> QED BY ONLY <3>2, <3>3, AppendInjective
    <2>5. t = "p7"
      BY <2>3, <2>4 DEF Send, Threads, Inv, CallOK, P5Ids, P7Ids
    <2> QED BY <2>3, <2>4, <2>5 DEF Send, Inv, CallOK
  <1> QED BY <1>1, Invariant, PTL DEF Spec, NothingAfterPost
================================================================================
