------------------------------ MODULE RxPathProofs ------------------------------
(* TLAPS proofs about RxPath, for every pool, every set of message ids and  *)
(* every semaphore bound.  TypeOK is not inductive alone: RxRelease gives   *)
(* back held.buf, so the thread must have a message there (HandOK), and     *)
(* SpawnOk must not meet a thread already in hand of one (Lifecycle).       *)
EXTENDS RxPath, SequenceTheorems, TLAPS
(* The type invariant and HandOK are kept by every step of every actor; RxRecv *)
(* may take a message L1 has not posted yet, and fresh stays within the queue.  *)
LEMMA TypeStep == TypeOK /\ HandOK /\ Lifecycle /\ [Next]_vars => TypeOK' /\ HandOK'
<1> SUFFICES ASSUME TypeOK, HandOK, Lifecycle, [Next]_vars PROVE TypeOK' /\ HandOK'
  OBVIOUS
<1> USE RxPathAssumption DEF ownerVars, rxVars, l1Vars
<1>1. CASE Construct
  <2>1. CASE ConnectOk    BY <2>1 DEF ConnectOk, TypeOK, HandOK, InHand, OwnerPcs
  <2>2. CASE ConnectFails BY <2>2 DEF ConnectFails, TypeOK, HandOK, InHand, OwnerPcs
  <2>3. CASE StartRx      BY <2>3 DEF StartRx, TypeOK, HandOK, InHand, OwnerPcs
  <2>4. CASE SpawnOk      BY <2>4 DEF SpawnOk, Lifecycle, NoThread, TypeOK, HandOK, InHand, OwnerPcs, RxPcs
  <2>5. CASE SpawnFails   BY <2>5 DEF SpawnFails, TypeOK, HandOK, InHand, OwnerPcs
  <2>6. QED BY <1>1, <2>1, <2>2, <2>3, <2>4, <2>5 DEF Construct
<1>2. ASSUME NEW n \in Notifiers, Register(n) PROVE TypeOK' /\ HandOK'
  BY <1>2 DEF Register, TypeOK, HandOK, InHand
<1>3. CASE Destroy
  BY <1>3 DEF Destroy, TypeOK, HandOK, InHand, OwnerPcs
<1>4. CASE Teardown
  <2>1. CASE StopNotRunning   BY <2>1 DEF StopNotRunning, TypeOK, HandOK, InHand, OwnerPcs
  <2>2. CASE StopRx           BY <2>2 DEF StopRx, TypeOK, HandOK, InHand, OwnerPcs
  <2>3. CASE Detach           BY <2>3 DEF Detach, TypeOK, HandOK, InHand, OwnerPcs
  <2>4. CASE DestroyIpc       BY <2>4 DEF DestroyIpc, TypeOK, HandOK, InHand, OwnerPcs
  <2>5. CASE NothingToDestroy BY <2>5 DEF NothingToDestroy, TypeOK, HandOK, InHand, OwnerPcs
  <2>6. CASE ClearIpc         BY <2>6 DEF ClearIpc, TypeOK, HandOK, InHand, OwnerPcs
  <2>7. QED BY <1>4, <2>1, <2>2, <2>3, <2>4, <2>5, <2>6 DEF Teardown
<1>5. CASE RxStep
  <2>1. CASE RxLoop     BY <2>1 DEF RxLoop, TypeOK, HandOK, InHand, RxPcs
  <2>2. CASE RxWake     BY <2>2 DEF RxWake, TypeOK, HandOK, InHand, RxPcs
  <2>3. CASE RxWoken    BY <2>3 DEF RxWoken, TypeOK, HandOK, InHand, RxPcs
  <2>4. CASE RxRecv
    <3>1. queue \in Seq(Msg) /\ queue # <<>> /\ Len(queue) \in Nat /\ fresh \in 0..Len(queue)
      BY <2>4 DEF RxRecv, TypeOK, HandOK, InHand
    <3>2. Head(queue) \in Msg /\ Tail(queue) \in Seq(Msg) /\ Len(Tail(queue)) = Len(queue) - 1
      BY <3>1, HeadTailProperties
    <3>3. queue' = Tail(queue) /\ fresh' = IF fresh = Len(queue) THEN fresh - 1 ELSE fresh
      BY <2>4 DEF RxRecv
    <3>4. Len(queue) > 0
      BY <3>1
    <3>5. fresh' \in 0..Len(queue')
      <4>1. Len(queue') = Len(queue) - 1 BY <3>2, <3>3
      <4>2. fresh' \in 0..(Len(queue) - 1) BY <3>1, <3>3, <3>4
      <4>3. QED BY <4>1, <4>2
    <3>6. QED BY <2>4, <3>1, <3>2, <3>5, RxPathAssumption DEF RxRecv, TypeOK, HandOK, InHand, RxPcs
  <2>5. CASE RxDrained  BY <2>5 DEF RxDrained, TypeOK, HandOK, InHand, RxPcs
  <2>6. CASE RxDispatch BY <2>6 DEF RxDispatch, TypeOK, HandOK, InHand, RxPcs
  <2>7. CASE RxNotified BY <2>7 DEF RxNotified, TypeOK, HandOK, InHand, RxPcs
  <2>8. CASE RxRelease
    <3>1. held \in Msg
      BY <2>8 DEF RxRelease, TypeOK, HandOK, InHand
    <3>2. held.buf \in Buffers
      BY <3>1 DEF Msg
    <3>3. QED BY <3>2, <2>8 DEF RxRelease, TypeOK, HandOK, InHand, RxPcs
  <2>9. QED
    BY <1>5, <2>1, <2>2, <2>3, <2>4, <2>5, <2>6, <2>7, <2>8 DEF RxStep
<1>6. CASE RxFault
  BY <1>6 DEF RxFault, TypeOK, HandOK, InHand
<1>7. CASE L1Next
  <2>1. CASE L1Start BY <2>1 DEF L1Start, TypeOK, HandOK, InHand
  <2>2. ASSUME NEW m \in Msg, L1Send(m) PROVE TypeOK' /\ HandOK'
    <3>1. queue \in Seq(Msg)
      BY DEF TypeOK
    <3>2. Append(queue, m) \in Seq(Msg) /\ Len(Append(queue, m)) = Len(queue) + 1
      BY <3>1, AppendProperties
    <3>3. fresh \in 0..Len(queue) /\ Len(queue) \in Nat
      BY <3>1 DEF TypeOK
    <3>4. queue' \in Seq(Msg) /\ fresh' \in 0..Len(queue')
      BY <2>2, <3>2, <3>3 DEF L1Send
    <3>5. QED BY <2>2, <3>4 DEF L1Send, TypeOK, HandOK, InHand
  <2>3. CASE L1Post
    <3>1. sem' \in 0..MaxSem /\ fresh' \in 0..Len(queue')
      BY <2>3 DEF L1Post, TypeOK, HandOK, InHand
    <3>2. QED BY <2>3, <3>1 DEF L1Post, TypeOK, HandOK, InHand
  <2>4. CASE L1Crash BY <2>4 DEF L1Crash, TypeOK, HandOK, InHand
  <2>5. QED BY <1>7, <2>1, <2>2, <2>3, <2>4 DEF L1Next
<1>8. CASE UNCHANGED vars
  BY <1>8 DEF vars, TypeOK, HandOK, InHand
<1>9. QED
  BY <1>1, <1>2, <1>3, <1>4, <1>5, <1>6, <1>7, <1>8 DEF Next

(* The lifecycle phases are kept by every step.                                 *)
LEMMA LifecycleStep == TypeOK /\ Lifecycle /\ [Next]_vars => Lifecycle'
<1> SUFFICES ASSUME TypeOK, Lifecycle, [Next]_vars PROVE Lifecycle'
  OBVIOUS
<1> USE DEF ownerVars, rxVars, l1Vars, Lifecycle, NoThread
<1>1. CASE Construct
  BY <1>1 DEF Construct, ConnectOk, ConnectFails, StartRx, SpawnOk, SpawnFails
<1>2. ASSUME NEW n \in Notifiers, Register(n) PROVE Lifecycle'
  BY <1>2 DEF Register
<1>3. CASE Destroy
  BY <1>3 DEF Destroy
<1>4. CASE Teardown
  BY <1>4 DEF Teardown, StopNotRunning, StopRx, Detach, DestroyIpc, NothingToDestroy, ClearIpc
<1>5. CASE RxStep
  BY <1>5 DEF RxStep, RxLoop, RxWake, RxWoken, RxRecv, RxDrained, RxDispatch, RxNotified, RxRelease
<1>6. CASE RxFault
  BY <1>6 DEF RxFault
<1>7. CASE L1Next
  BY <1>7 DEF L1Next, L1Start, L1Send, L1Post, L1Crash
<1>8. CASE UNCHANGED vars
  BY <1>8 DEF vars
<1>9. QED
  BY <1>1, <1>2, <1>3, <1>4, <1>5, <1>6, <1>7, <1>8 DEF Next

Control == TypeOK /\ HandOK /\ Lifecycle

(* Types and lifecycle hold in every reachable state.                           *)
LEMMA ControlInvariant == Spec => []Control
<1>1. Init => Control
  <2> SUFFICES ASSUME Init PROVE Control
    OBVIOUS
  <2>1. queue \in Seq(Msg) /\ Len(queue) = 0 /\ fresh \in 0..Len(queue)
    BY EmptySeq DEF Init
  <2>2. sem \in 0..MaxSem
    BY RxPathAssumption DEF Init
  <2>3. TypeOK
    BY <2>1, <2>2 DEF Init, TypeOK, OwnerPcs, RxPcs
  <2>4. HandOK /\ Lifecycle
    BY DEF Init, HandOK, InHand, Lifecycle, NoThread
  <2>5. QED BY <2>3, <2>4 DEF Control
<1>2. Control /\ [Next]_vars => Control'
  BY TypeStep, LifecycleStep DEF Control
<1>3. QED BY <1>1, <1>2, PTL DEF Spec

(* The state of the model always has its declared type.                         *)
THEOREM TypeCorrect == Spec => []TypeOK
<1>1. Control => TypeOK BY DEF Control
<1>2. QED BY <1>1, ControlInvariant, PTL

(* ipc_, running_, the std::thread and the thread itself always go together.    *)
THEOREM LifecycleCorrect == Spec => []Lifecycle
<1>1. Control => Lifecycle BY DEF Control
<1>2. QED BY <1>1, ControlInvariant, PTL

(* Whatever ends the adaptor's life, its members are destroyed in a clean state.*)
THEOREM EndsClean == Spec => []CleanEnd
<1>1. Control => CleanEnd BY DEF Control, Lifecycle, CleanEnd
<1>2. QED BY <1>1, ControlInvariant, PTL

(* The RX thread faults only if the destructor overtook it.                     *)
THEOREM FaultsOnlyAfterTeardown == Spec => []FaultOnlyAfterTeardown
<1>1. Init => FaultOnlyAfterTeardown
  BY DEF Init, FaultOnlyAfterTeardown
<1>2. Control /\ FaultOnlyAfterTeardown /\ [Next]_vars => FaultOnlyAfterTeardown'
  <2> SUFFICES ASSUME Control, FaultOnlyAfterTeardown, [Next]_vars
               PROVE  FaultOnlyAfterTeardown'
    OBVIOUS
  <2> USE DEF FaultOnlyAfterTeardown, ownerVars, rxVars, l1Vars
  <2>1. CASE RxFault
    BY <2>1 DEF RxFault, Control, TypeOK, OwnerPcs, Lifecycle, NoThread
  <2>2. CASE Construct
    BY <2>2 DEF Construct, ConnectOk, ConnectFails, StartRx, SpawnOk, SpawnFails
  <2>3. CASE (\E n \in Notifiers : Register(n)) \/ Destroy
    BY <2>3 DEF Register, Destroy
  <2>4. CASE Teardown
    BY <2>4 DEF Teardown, StopNotRunning, StopRx, Detach, DestroyIpc, NothingToDestroy, ClearIpc
  <2>5. CASE RxStep
    BY <2>5 DEF RxStep, RxLoop, RxWake, RxWoken, RxRecv, RxDrained, RxDispatch, RxNotified, RxRelease
  <2>6. CASE L1Next
    BY <2>6 DEF L1Next, L1Start, L1Send, L1Post, L1Crash
  <2>7. CASE UNCHANGED vars
    BY <2>7 DEF vars
  <2>8. QED BY <2>1, <2>2, <2>3, <2>4, <2>5, <2>6, <2>7 DEF Next
<1>3. QED BY <1>1, <1>2, ControlInvariant, PTL DEF Spec

--------------------------------------------------------------------------------
(* Only three steps move a buffer: L1Send, RxRecv and RxRelease.                *)
BufferVars == <<queue, held, free>>

(* Whatever else a step does, it leaves every buffer where it was.         *)
LEMMA BufferFrame ==
  [Next]_vars => \/ RxRecv \/ RxRelease \/ (\E m \in Msg : L1Send(m))
                 \/ UNCHANGED BufferVars
<1> SUFFICES ASSUME [Next]_vars, ~RxRecv, ~RxRelease, ~\E m \in Msg : L1Send(m)
             PROVE  UNCHANGED BufferVars
  OBVIOUS
<1> USE DEF BufferVars, ownerVars, rxVars, l1Vars
<1>1. CASE Construct
  BY <1>1 DEF Construct, ConnectOk, ConnectFails, StartRx, SpawnOk, SpawnFails
<1>2. CASE (\E n \in Notifiers : Register(n)) \/ Destroy
  BY <1>2 DEF Register, Destroy
<1>3. CASE Teardown
  BY <1>3 DEF Teardown, StopNotRunning, StopRx, Detach, DestroyIpc, NothingToDestroy, ClearIpc
<1>4. CASE RxStep
  BY <1>4 DEF RxStep, RxLoop, RxWake, RxWoken, RxDrained, RxDispatch, RxNotified
<1>5. CASE RxFault
  BY <1>5 DEF RxFault
<1>6. CASE L1Next
  BY <1>6 DEF L1Next, L1Start, L1Post, L1Crash
<1>7. CASE UNCHANGED vars
  BY <1>7 DEF vars
<1>8. QED BY <1>1, <1>2, <1>3, <1>4, <1>5, <1>6, <1>7 DEF Next

(* Taking the head moves its buffer from the queue to the hand.                 *)
LEMMA RecvConserves == Control /\ Conservation /\ RxRecv => Conservation'
<1> SUFFICES ASSUME Control, Conservation, RxRecv PROVE Conservation'
  OBVIOUS
<1>1. queue \in Seq(Msg) /\ queue # <<>> /\ held = NoMsg
  BY DEF RxRecv, Control, TypeOK, HandOK, InHand
<1>2. /\ queue' = Tail(queue) /\ held' = Head(queue) /\ free' = free
  BY DEF RxRecv
<1>3. /\ Len(queue') = Len(queue) - 1 /\ Len(queue) \in Nat /\ Len(queue) > 0
      /\ \A i \in 1..Len(queue') : queue'[i] = queue[i + 1]
  BY <1>1, <1>2, HeadTailProperties, LenProperties
<1>4. held' = queue[1] /\ held' \in Msg /\ held' # NoMsg
  BY <1>1, <1>2, HeadTailProperties, RxPathAssumption
<1>5. \A i, j \in 1..Len(queue') : queue'[i].buf = queue'[j].buf => i = j
  BY <1>3 DEF Conservation
<1>6. HeldBufs' = {queue[1].buf} /\ HeldBufs = {}
  BY <1>1, <1>4 DEF HeldBufs
<1>7. QueuedBufs = QueuedBufs' \cup {queue[1].buf}
  <2>1. \A i \in 1..Len(queue) : i = 1 \/ (i - 1 \in 1..Len(queue') /\ queue'[i - 1] = queue[i])
    BY <1>3
  <2>2. \A i \in 1..Len(queue') : i + 1 \in 1..Len(queue)
    BY <1>3
  <2>3. 1 \in 1..Len(queue)
    BY <1>3
  <2>4. QED BY <1>3, <2>1, <2>2, <2>3 DEF QueuedBufs
<1>8. queue[1].buf \notin QueuedBufs'
  <2>1. \A i \in 1..Len(queue') : queue'[i].buf # queue[1].buf
    BY <1>3 DEF Conservation
  <2>2. QED BY <2>1 DEF QueuedBufs
<1>9. /\ QueuedBufs' \cap free' = {}
      /\ HeldBufs' \cap (free' \cup QueuedBufs') = {}
      /\ Buffers = free' \cup QueuedBufs' \cup HeldBufs'
  BY <1>2, <1>6, <1>7, <1>8 DEF Conservation
<1>10. QED
  BY <1>5, <1>9 DEF Conservation

(* Releasing moves the buffer from the hand back to the pool.                   *)
LEMMA ReleaseConserves == Control /\ Conservation /\ RxRelease => Conservation'
<1> SUFFICES ASSUME Control, Conservation, RxRelease PROVE Conservation'
  OBVIOUS
<1>1. held # NoMsg
  BY DEF RxRelease, Control, HandOK, InHand
<1>2. queue' = queue /\ held' = NoMsg /\ free' = free \cup {held.buf}
  BY DEF RxRelease
<1>3. HeldBufs = {held.buf} /\ HeldBufs' = {} /\ QueuedBufs' = QueuedBufs
  BY <1>1, <1>2 DEF HeldBufs, QueuedBufs
<1>4. QED BY <1>2, <1>3 DEF Conservation

(* L1 moves a buffer from the pool to the end of the queue.                     *)
LEMMA SendConserves ==
  ASSUME Control, Conservation, NEW m \in Msg, L1Send(m)
  PROVE  Conservation'
<1>1. queue \in Seq(Msg) /\ Len(queue) \in Nat
  BY LenProperties DEF Control, TypeOK
<1>2. m.buf \in free /\ held' = held /\ free' = free \ {m.buf} /\ queue' = Append(queue, m)
  BY DEF L1Send, rxVars
<1>3. /\ Len(queue') = Len(queue) + 1
      /\ \A i \in 1..Len(queue) : queue'[i] = queue[i]
      /\ queue'[Len(queue) + 1] = m
  BY <1>1, <1>2, AppendProperties
<1>4. \A i \in 1..Len(queue') : i \in 1..Len(queue) \/ i = Len(queue) + 1
  BY <1>1, <1>3
<1>5. HeldBufs' = HeldBufs
  BY <1>2 DEF HeldBufs
<1>6. QueuedBufs' = QueuedBufs \cup {m.buf}
  <2>1. 1..Len(queue') = (1..Len(queue)) \cup {Len(queue) + 1}
    BY <1>1, <1>3
  <2>2. QED BY <1>3, <2>1 DEF QueuedBufs
<1>7. m.buf \notin QueuedBufs
  BY <1>2 DEF Conservation
<1>8. \A i \in 1..Len(queue) : queue[i].buf # m.buf
  BY <1>7 DEF QueuedBufs
<1>9. \A i, j \in 1..Len(queue') : queue'[i].buf = queue'[j].buf => i = j
  BY <1>3, <1>4, <1>8 DEF Conservation
<1>10. QED
  BY <1>2, <1>5, <1>6, <1>7, <1>9 DEF Conservation

(* No RX buffer is ever leaked, released twice, or refilled while it is queued  *)
(* or in the RX thread's hand.                                                  *)
THEOREM BuffersConserved == Spec => []Conservation
<1>1. Init => Conservation
  BY EmptySeq DEF Init, Conservation, QueuedBufs, HeldBufs
<1>2. Control /\ Conservation /\ [Next]_vars => Conservation'
  <2> SUFFICES ASSUME Control, Conservation, [Next]_vars PROVE Conservation'
    OBVIOUS
  <2>1. CASE UNCHANGED BufferVars
    BY <2>1 DEF BufferVars, Conservation, QueuedBufs, HeldBufs
  <2>2. QED BY <2>1, BufferFrame, RecvConserves, ReleaseConserves, SendConserves
<1>3. QED BY <1>1, <1>2, ControlInvariant, PTL DEF Spec

--------------------------------------------------------------------------------
(* The wakeup argument: the thread starts before it has taken anything, and it  *)
(* goes back to sleep only through RxDrained, on an empty queue; in between     *)
(* only L1Post covers a message, and it leaves the semaphore positive.          *)
THEOREM WakeupsAreNotLost == Spec => []NoLostWakeup
<1>1. Init => NoLostWakeup
  BY DEF Init, NoLostWakeup
<1>2. Control /\ NoLostWakeup /\ [Next]_vars => NoLostWakeup'
  <2> SUFFICES ASSUME Control, NoLostWakeup, [Next]_vars PROVE NoLostWakeup'
    OBVIOUS
  <2>1. queue \in Seq(Msg) /\ Len(queue) \in Nat /\ fresh \in 0..Len(queue) /\ sem \in Nat
    BY LenProperties, RxPathAssumption DEF Control, TypeOK
  <2> USE DEF NoLostWakeup, ownerVars, rxVars, l1Vars
  <2>2. CASE Construct
    <3>1. CASE SpawnOk
      <4>1. rxPc = "none"
        BY <3>1 DEF SpawnOk, Control, Lifecycle, NoThread
      <4>2. QED BY <3>1, <4>1 DEF SpawnOk
    <3>2. CASE ConnectOk \/ ConnectFails \/ StartRx \/ SpawnFails
      BY <3>2 DEF ConnectOk, ConnectFails, StartRx, SpawnFails
    <3>3. QED BY <2>2, <3>1, <3>2 DEF Construct
  <2>3. CASE (\E n \in Notifiers : Register(n)) \/ Destroy
    BY <2>3 DEF Register, Destroy
  <2>4. CASE Teardown
    BY <2>4 DEF Teardown, StopNotRunning, StopRx, Detach, DestroyIpc, NothingToDestroy, ClearIpc
  <2>5. CASE RxStep
    <3>1. CASE RxDrained
      BY <3>1, <2>1, EmptySeq DEF RxDrained
    <3>2. CASE RxLoop
      BY <3>2 DEF RxLoop
    <3>3. CASE RxWake \/ RxWoken \/ RxRecv \/ RxDispatch \/ RxNotified \/ RxRelease
      BY <3>3 DEF RxWake, RxWoken, RxRecv, RxDispatch, RxNotified, RxRelease
    <3>4. QED BY <2>5, <3>1, <3>2, <3>3 DEF RxStep
  <2>6. CASE RxFault
    BY <2>6 DEF RxFault
  <2>7. CASE L1Next
    <3>1. ASSUME NEW m \in Msg, L1Send(m) PROVE NoLostWakeup'
      <4>1. Len(queue') = Len(queue) + 1 /\ fresh' = fresh + 1 /\ rxPc' = rxPc /\ sem' = sem
        BY <3>1, <2>1, AppendProperties DEF L1Send
      <4>2. QED BY <4>1, <2>1
    <3>2. CASE L1Post
      <4>1. sem' > 0
        BY <3>2, <2>1 DEF L1Post
      <4>2. QED BY <4>1
    <3>3. CASE L1Start \/ L1Crash
      BY <3>3 DEF L1Start, L1Crash
    <3>4. QED BY <2>7, <3>1, <3>2, <3>3 DEF L1Next
  <2>8. CASE UNCHANGED vars
    BY <2>8 DEF vars
  <2>9. QED BY <2>2, <2>3, <2>4, <2>5, <2>6, <2>7, <2>8 DEF Next
<1>3. QED BY <1>1, <1>2, ControlInvariant, PTL DEF Spec

(* A thread outside a drain stays outside once running_ is false.               *)
THEOREM StoppedMeansNoNewDrain == Spec => NoDrainAfterStop
<1>1. [Next]_vars => [~running /\ rxPc \notin Draining => rxPc' \notin Draining]_vars
  <2> SUFFICES ASSUME Next, ~running, rxPc \notin Draining
               PROVE  rxPc' \notin Draining
    BY DEF vars
  <2> USE DEF Draining, InHand, ownerVars, rxVars, l1Vars
  <2>1. CASE Construct
    BY <2>1 DEF Construct, ConnectOk, ConnectFails, StartRx, SpawnOk, SpawnFails
  <2>2. CASE (\E n \in Notifiers : Register(n)) \/ Destroy
    BY <2>2 DEF Register, Destroy
  <2>3. CASE Teardown
    BY <2>3 DEF Teardown, StopNotRunning, StopRx, Detach, DestroyIpc, NothingToDestroy, ClearIpc
  <2>4. CASE RxStep
    BY <2>4 DEF RxStep, RxLoop, RxWake, RxWoken, RxRecv, RxDrained, RxDispatch, RxNotified, RxRelease
  <2>5. CASE RxFault \/ L1Next
    BY <2>5 DEF RxFault, L1Next, L1Start, L1Send, L1Post, L1Crash
  <2>6. QED BY <2>1, <2>2, <2>3, <2>4, <2>5 DEF Next
<1>2. QED BY <1>1, PTL DEF Spec, NoDrainAfterStop

--------------------------------------------------------------------------------
(* Refinement: what RxPath looks like through the mapping.                      *)

(* A message put before a queue is its head, the queue its tail, and appending  *)
(* to the queue appends to the whole.                                           *)
LEMMA ConsProperties ==
  ASSUME NEW h \in Msg, NEW q \in Seq(Msg)
  PROVE  /\ <<h>> \o q \in Seq(Msg) /\ <<h>> \o q # <<>>
         /\ Head(<<h>> \o q) = h /\ Tail(<<h>> \o q) = q
         /\ \A m \in Msg : Append(<<h>> \o q, m) = <<h>> \o Append(q, m)
<1> DEFINE s == <<h>> \o q
<1>1. <<h>> \in Seq(Msg) /\ Len(<<h>>) = 1 /\ <<h>>[1] = h
  OBVIOUS
<1>2. /\ s \in Seq(Msg)
      /\ Len(s) = 1 + Len(q)
      /\ s[1] = h
      /\ \A i \in 1..Len(q) : s[i + 1] = q[i]
  BY <1>1, ConcatProperties, LenProperties
<1>3. s # <<>>
  BY <1>2, LenProperties, EmptySeq
<1>4. Tail(s) = q
  <2>1. /\ Tail(s) \in Seq(Msg) /\ Len(Tail(s)) = Len(q)
        /\ \A i \in 1..Len(q) : Tail(s)[i] = s[i + 1]
    BY <1>2, <1>3, HeadTailProperties, LenProperties
  <2>2. QED BY <1>2, <2>1, SeqEqual
<1>5. ASSUME NEW m \in Msg PROVE Append(s, m) = <<h>> \o Append(q, m)
  <2>1. Append(s, m) = s \o <<m>> /\ Append(q, m) = q \o <<m>> /\ <<m>> \in Seq(Msg)
    BY <1>2, AppendIsConcat
  <2>2. QED BY <1>1, <2>1, ConcatAssociative
<1>6. Head(s) = h
  BY <1>2, <1>3
<1>7. QED BY <1>2, <1>3, <1>4, <1>5, <1>6

(* A queue that is not empty is its head put before its tail.                   *)
LEMMA HeadBeforeTail ==
  ASSUME NEW q \in Seq(Msg), q # <<>>
  PROVE  Head(q) \in Msg /\ Tail(q) \in Seq(Msg) /\ q = <<Head(q)>> \o Tail(q)
<1>1. Head(q) \in Msg /\ Tail(q) \in Seq(Msg) /\ Len(Tail(q)) = Len(q) - 1
      /\ \A i \in 1..Len(Tail(q)) : Tail(q)[i] = q[i + 1]
  BY HeadTailProperties
<1> DEFINE s == <<Head(q)>> \o Tail(q)
<1>2. <<Head(q)>> \in Seq(Msg) /\ Len(<<Head(q)>>) = 1 /\ <<Head(q)>>[1] = Head(q)
  BY <1>1
<1>3. /\ s \in Seq(Msg) /\ Len(s) = Len(q)
      /\ \A i \in 1..Len(s) : s[i] = IF i <= 1 THEN Head(q) ELSE Tail(q)[i - 1]
  BY <1>1, <1>2, ConcatProperties, LenProperties
<1>4. Len(q) \in Nat /\ Head(q) = q[1]
  BY LenProperties
<1>5. ASSUME NEW i \in 1..Len(q) PROVE s[i] = q[i]
  <2>1. CASE i = 1
    BY <2>1, <1>3, <1>4
  <2>2. CASE i # 1
    <3>1. i - 1 \in 1..Len(Tail(q)) /\ ~(i <= 1)
      BY <2>2, <1>1, <1>4
    <3>2. Tail(q)[i - 1] = q[(i - 1) + 1]
      BY <3>1, <1>1
    <3>3. QED BY <3>1, <3>2, <1>3, <1>4
  <2>3. QED BY <2>1, <2>2
<1>6. s = q
  BY <1>3, <1>5, SeqEqual
<1>7. QED BY <1>1, <1>6

(* Every step but five leaves the mapped state alone.                           *)
LEMMA StutterStep ==
  Control /\ [Next]_vars =>
    \/ RxRecv \/ RxDispatch \/ RxNotified \/ RxRelease
    \/ (\E m \in Msg : L1Send(m))
    \/ UNCHANGED <<PendingMsgs, HeadPhase>>
<1> SUFFICES ASSUME Control, [Next]_vars, ~RxRecv, ~RxDispatch, ~RxNotified, ~RxRelease,
                    ~\E m \in Msg : L1Send(m)
             PROVE  UNCHANGED <<PendingMsgs, HeadPhase>>
  OBVIOUS
<1> DEFINE Quiet == /\ UNCHANGED <<held, queue>>
                    /\ \/ UNCHANGED rxPc
                       \/ rxPc \notin {"notify", "release"} /\ rxPc' \notin {"notify", "release"}
<1>1. Quiet
  <2> USE DEF ownerVars, rxVars, l1Vars
  <2>1. CASE Construct
    BY <2>1 DEF Construct, ConnectOk, ConnectFails, StartRx, SpawnOk, SpawnFails,
                Control, Lifecycle, NoThread
  <2>2. CASE (\E n \in Notifiers : Register(n)) \/ Destroy
    BY <2>2 DEF Register, Destroy
  <2>3. CASE Teardown
    BY <2>3 DEF Teardown, StopNotRunning, StopRx, Detach, DestroyIpc, NothingToDestroy, ClearIpc
  <2>4. CASE RxStep
    BY <2>4 DEF RxStep, RxLoop, RxWake, RxWoken, RxDrained
  <2>5. CASE RxFault \/ L1Next
    BY <2>5 DEF RxFault, L1Next, L1Start, L1Post, L1Crash
  <2>6. CASE UNCHANGED vars
    BY <2>6 DEF vars
  <2>7. QED BY <2>1, <2>2, <2>3, <2>4, <2>5, <2>6 DEF Next
<1>2. QED BY <1>1 DEF PendingMsgs, HeadPhase

(* Each step of RxPath is a step of IndicationChannel or changes nothing there. *)
LEMMA ChannelStep ==
  Control /\ Conservation /\ [Next]_vars => [Channel!ChanNext]_(Channel!chanVars)
<1> SUFFICES ASSUME Control, Conservation, [Next]_vars
             PROVE  [Channel!ChanNext]_(Channel!chanVars)
  OBVIOUS
<1> USE DEF Channel!chanVars
<1>1. queue \in Seq(Msg) /\ held \in Msg \cup {NoMsg} /\ NoMsg \notin Msg
  BY RxPathAssumption DEF Control, TypeOK
<1>2. held = NoMsg => PendingMsgs = queue
  BY <1>1, ConcatEmptySeq DEF PendingMsgs
<1>3. held # NoMsg => /\ PendingMsgs = <<held>> \o queue /\ PendingMsgs # <<>>
                      /\ Tail(PendingMsgs) = queue
  BY <1>1, ConsProperties DEF PendingMsgs
<1>4. CASE RxRecv
  <2>1. held = NoMsg /\ queue # <<>> /\ held' = Head(queue) /\ queue' = Tail(queue)
    BY <1>4 DEF RxRecv, Control, HandOK, InHand
  <2>2. held' # NoMsg /\ queue = <<held'>> \o queue'
    BY <1>1, <2>1, HeadBeforeTail
  <2>3. PendingMsgs' = PendingMsgs
    BY <1>2, <2>1, <2>2 DEF PendingMsgs
  <2>4. HeadPhase' = HeadPhase
    BY <1>4 DEF RxRecv, HeadPhase
  <2>5. QED BY <2>3, <2>4
<1>5. CASE RxDispatch \/ RxNotified
  <2>1. /\ held # NoMsg /\ PendingMsgs' = PendingMsgs
    BY <1>5 DEF RxDispatch, RxNotified, Control, HandOK, InHand, PendingMsgs, l1Vars
  <2>2. \/ HeadPhase = "untouched" /\ HeadPhase' \in {"shown", "settled"}
        \/ HeadPhase = "shown" /\ HeadPhase' = "settled"
    BY <1>5 DEF RxDispatch, RxNotified, HeadPhase
  <2>3. QED BY <1>3, <2>1, <2>2 DEF Channel!ChanNext, Channel!Show, Channel!Settle
<1>6. CASE RxRelease
  <2>1. held # NoMsg /\ held' = NoMsg /\ queue' = queue
    BY <1>6 DEF RxRelease, Control, HandOK, InHand
  <2>2. PendingMsgs' = Tail(PendingMsgs)
    BY <1>1, <1>3, <2>1, ConcatEmptySeq DEF PendingMsgs
  <2>3. HeadPhase = "settled" /\ HeadPhase' = "untouched"
    BY <1>6 DEF RxRelease, HeadPhase
  <2>4. QED BY <1>3, <2>1, <2>2, <2>3 DEF Channel!ChanNext, Channel!Retire
<1>7. ASSUME NEW m \in Msg, L1Send(m) PROVE Channel!Submit
  <2>1. /\ m.buf \in free /\ held' = held /\ queue' = Append(queue, m) /\ rxPc' = rxPc
    BY <1>7 DEF L1Send, rxVars
  <2>2. PendingMsgs' = Append(PendingMsgs, m)
    <3>1. CASE held = NoMsg
      BY <1>1, <1>2, <2>1, <3>1, AppendProperties, ConcatEmptySeq DEF PendingMsgs
    <3>2. CASE held # NoMsg
      BY <1>1, <1>3, <2>1, <3>2, ConsProperties DEF PendingMsgs
    <3>3. QED BY <3>1, <3>2
  <2>3. HeadPhase' = HeadPhase
    BY <2>1 DEF HeadPhase
  <2>4. \A i \in 1..Len(queue) : queue[i].buf # m.buf
    BY <2>1 DEF Conservation, QueuedBufs
  <2>5. held # NoMsg => held.buf # m.buf
    BY <2>1 DEF Conservation, HeldBufs
  <2>6. \A i \in 1..Len(PendingMsgs) : PendingMsgs[i].buf # m.buf
    <3>1. CASE held = NoMsg
      BY <1>2, <2>4, <3>1
    <3>2. CASE held # NoMsg
      <4>1. /\ Len(PendingMsgs) = 1 + Len(queue)
            /\ \A i \in 1..(1 + Len(queue)) :
                  PendingMsgs[i] = IF i <= 1 THEN held ELSE queue[i - 1]
        <5>1. <<held>> \in Seq(Msg) /\ Len(<<held>>) = 1 /\ <<held>>[1] = held
          BY <1>1, <3>2
        <5>2. QED BY <1>1, <1>3, <3>2, <5>1, ConcatProperties, LenProperties
      <4>2. \A i \in 1..(1 + Len(queue)) : i <= 1 \/ i - 1 \in 1..Len(queue)
        BY <1>1, LenProperties
      <4>3. QED BY <2>4, <2>5, <3>2, <4>1, <4>2
    <3>3. QED BY <3>1, <3>2
  <2>7. QED BY <2>2, <2>3, <2>6 DEF Channel!Submit
<1>8. CASE UNCHANGED <<PendingMsgs, HeadPhase>>
  BY <1>8
<1>9. QED
  BY <1>4, <1>5, <1>6, <1>7, <1>8, StutterStep DEF Channel!ChanNext

(* The uplink path implements the channel promised to OCUDU and L1.             *)
THEOREM ImplementsTheChannel == Spec => ImplementsChannel
<1>1. Init => Channel!ChanInit
  BY DEF Init, Channel!ChanInit, PendingMsgs, HeadPhase
<1>2. QED
  BY <1>1, ChannelStep, ControlInvariant, BuffersConserved, PTL
    DEF Spec, ImplementsChannel, Channel!ChanSpec
================================================================================
