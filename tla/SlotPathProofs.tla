----------------------------- MODULE SlotPathProofs -----------------------------
(***************************************************************************)
(* First the extender, for every cycle, every HyperSFN range and every     *)
(* stream of indications less than half a cycle apart.  Then the slot path,*)
(* for any numerologies, losses, damage and silences: that it implements   *)
(* the extender's specification, mixes numerologies only for a faster L1,  *)
(* gives L1's own time while L1 is not silent for half a cycle, and loses  *)
(* nothing but whole cycles when it is.                                    *)
(***************************************************************************)
EXTENDS SlotPath, TLAPS, FiniteSetTheorems

(* Moving round the cycle stays in the cycle, and in the HyperSFN range.        *)
LEMMA WrapInRange ==
  ASSUME NEW s \in Slots, NEW d \in -MaxStep..MaxStep
  PROVE  Wrap(s + d) \in Slots /\ Turns(s + d) \in {-1, 0, 1}
BY ExtenderAssumption DEF Slots, Wrap, Turns

(* Counting turns stays in the HyperSFN range.                                  *)
LEMMA SpinInRange ==
  ASSUME NEW h \in 0..(H - 1), NEW t \in {-1, 0, 1}
  PROVE  Spin(h, t) \in 0..(H - 1)
BY ExtenderAssumption DEF Spin

(* The difference of two slots recovers the progress between their indications  *)
(* whenever it is below half a cycle, in both directions and across the end.    *)
LEMMA DiffRecoversProgress ==
  ASSUME NEW s \in Slots, NEW d \in Steps
  PROVE  SlotDiff(Wrap(s + d), s) = d
BY ExtenderAssumption DEF Slots, Wrap, SlotDiff, Steps

(* So the extended slot advances by the progress, or by one if there is none.   *)
LEMMA AdvanceIs ==
  ASSUME lastSlot \in Slots, NEW d \in Steps
  PROVE  Advance(Wrap(lastSlot + d)) = IF d <= 0 THEN 1 ELSE d
BY DiffRecoversProgress DEF Advance, Steps

(* FollowsForwardStream is inductive once nothing is counted before the first   *)
(* indication.                                                                  *)
Unanchored == lastSlot = NoSlot => cycles = 0

ExtenderInv == TypeOK /\ FollowsForwardStream /\ NeverBehindNewest /\ Unanchored

(* An indication after the first keeps the invariant, moves extended time       *)
(* forward and never takes lead back.                                           *)
LEMMA IndicationStep ==
  ASSUME ExtenderInv, NEW d \in Steps, Indication(Wrap(lastSlot + d), d)
  PROVE  /\ ExtenderInv'
         /\ lead' >= lead
         /\ \E k \in 1..MaxStep : lastExt' = ExtPlus(lastExt, k)
<1> DEFINE adv == IF d <= 0 THEN 1 ELSE d
<1>1. /\ lastSlot \in Slots /\ lastExt \in ExtSlots /\ cycles \in 0..(H - 1)
      /\ lead \in Nat /\ behind \in Nat /\ lead >= behind /\ regressed \in BOOLEAN
      /\ ~regressed => lastExt = [hyper |-> cycles, slot |-> lastSlot]
  BY DEF Indication, ExtenderInv, TypeOK, FollowsForwardStream, NeverBehindNewest
<1>2. Advance(Wrap(lastSlot + d)) = adv
  BY <1>1, AdvanceIs
<1>3. adv \in 1..MaxStep /\ adv - d >= 0 /\ adv - d \in Int /\ d \in -MaxStep..MaxStep
  BY ExtenderAssumption DEF Steps
<1>4. /\ lastSlot' = Wrap(lastSlot + d)
      /\ lastExt' = ExtPlus(lastExt, adv)
      /\ cycles' = Spin(cycles, Turns(lastSlot + d))
      /\ lead' = lead + adv - d
      /\ behind' = IF d >= behind THEN 0 ELSE behind - d
      /\ regressed' = (regressed \/ d <= 0)
  BY <1>2 DEF Indication
<1>5. lastSlot' \in Slots /\ cycles' \in 0..(H - 1)
  BY <1>1, <1>3, <1>4, WrapInRange, SpinInRange
<1>6. lastExt' \in ExtSlots
  <2>1. lastExt.slot \in Slots /\ lastExt.hyper \in 0..(H - 1)
    BY <1>1 DEF ExtSlots
  <2>2. adv \in -MaxStep..MaxStep
    BY <1>3, ExtenderAssumption
  <2>3. /\ Wrap(lastExt.slot + adv) \in Slots
        /\ Spin(lastExt.hyper, Turns(lastExt.slot + adv)) \in 0..(H - 1)
    BY <2>1, <2>2, WrapInRange, SpinInRange
  <2>4. QED BY <1>4, <2>3 DEF ExtPlus, ExtSlots
<1>7. lead' \in Nat /\ behind' \in Nat /\ lead' >= lead /\ lead' >= behind'
  BY <1>1, <1>3, <1>4, ExtenderAssumption
<1>8. TypeOK'
  <2>1. lastSlot' # NoSlot /\ lastExt' # NoSlot
    BY <1>5, <1>6, ExtenderAssumption DEF Slots, ExtSlots
  <2>2. regressed' \in BOOLEAN
    BY <1>4
  <2>3. QED BY <1>5, <1>6, <1>7, <2>1, <2>2 DEF TypeOK
<1>9. FollowsForwardStream'
  <2> SUFFICES ASSUME ~regressed' PROVE lastExt' = [hyper |-> cycles', slot |-> lastSlot']
    BY DEF FollowsForwardStream
  <2>1. ~regressed /\ ~(d <= 0)
    BY <1>4
  <2>2. adv = d /\ lastExt = [hyper |-> cycles, slot |-> lastSlot]
    BY <1>1, <2>1
  <2>3. lastExt.slot = lastSlot /\ lastExt.hyper = cycles
    BY <2>2
  <2>4. QED BY <1>4, <2>2, <2>3 DEF ExtPlus
<1>10. Unanchored'
  BY <1>5, ExtenderAssumption DEF Unanchored, Slots
<1>11. QED
  BY <1>3, <1>4, <1>7, <1>8, <1>9, <1>10 DEF ExtenderInv, NeverBehindNewest

(* The first indication establishes it.                                         *)
LEMMA FirstStep ==
  ASSUME ExtenderInv, NEW raw \in Slots, FirstIndication(raw)
  PROVE  ExtenderInv' /\ lead' >= lead /\ lastExt = NoSlot
<1>1. lastSlot' = raw /\ lastExt' = [hyper |-> 0, slot |-> raw]
  BY DEF FirstIndication
<1>2. /\ UNCHANGED <<cycles, lead, behind, regressed>> /\ lastSlot = NoSlot
  BY DEF FirstIndication
<1>3. 0 \in 0..(H - 1)
  BY ExtenderAssumption
<1>4. lastExt' \in ExtSlots
  BY <1>1, <1>3 DEF ExtSlots
<1>5. lastSlot' # NoSlot /\ lastExt' # NoSlot
  BY <1>1, <1>4, ExtenderAssumption DEF Slots, ExtSlots
<1>6. lastExt' = [hyper |-> cycles', slot |-> lastSlot']
  BY <1>1, <1>2 DEF ExtenderInv, Unanchored
<1>7. TypeOK'
  BY <1>1, <1>2, <1>4, <1>5 DEF ExtenderInv, TypeOK
<1>8. lead' >= lead /\ NeverBehindNewest'
  BY <1>2 DEF ExtenderInv, TypeOK, NeverBehindNewest
<1>9. QED
  BY <1>2, <1>5, <1>6, <1>7, <1>8 DEF ExtenderInv, TypeOK, FollowsForwardStream, Unanchored

(* The inductive invariant holds in every reachable state.                      *)
LEMMA ExtenderInvariant == Spec => []ExtenderInv
<1>1. Init => ExtenderInv
  <2> SUFFICES ASSUME Init PROVE ExtenderInv
    OBVIOUS
  <2>1. 0 \in 0..(H - 1) /\ 0 \in Nat
    BY ExtenderAssumption
  <2>2. TypeOK
    BY <2>1 DEF Init, TypeOK
  <2>3. FollowsForwardStream /\ NeverBehindNewest /\ Unanchored
    BY <2>1 DEF Init, FollowsForwardStream, NeverBehindNewest, Unanchored
  <2>4. QED BY <2>2, <2>3 DEF ExtenderInv
<1>2. ExtenderInv /\ [Next]_vars => ExtenderInv'
  <2> SUFFICES ASSUME ExtenderInv, [Next]_vars PROVE ExtenderInv'
    OBVIOUS
  <2>1. CASE UNCHANGED vars
    BY <2>1 DEF vars, ExtenderInv, TypeOK, FollowsForwardStream, NeverBehindNewest, Unanchored
  <2>2. QED BY <2>1, FirstStep, IndicationStep DEF Next
<1>3. QED BY <1>1, <1>2, PTL DEF Spec

(* The state of the extender always has its declared type.                      *)
THEOREM ExtenderTypeCorrect == Spec => []TypeOK
<1>1. ExtenderInv => TypeOK BY DEF ExtenderInv
<1>2. QED BY <1>1, ExtenderInvariant, PTL

(* A stream that only moves forward is extended exactly.                        *)
THEOREM ForwardStreamsAreFollowed == Spec => []FollowsForwardStream
<1>1. ExtenderInv => FollowsForwardStream BY DEF ExtenderInv
<1>2. QED BY <1>1, ExtenderInvariant, PTL

(* Extended time is never before the newest slot L1 indicated.                  *)
THEOREM NewestIsCovered == Spec => []NeverBehindNewest
<1>1. ExtenderInv => NeverBehindNewest BY DEF ExtenderInv
<1>2. QED BY <1>1, ExtenderInvariant, PTL

(* Every indication moves extended time forward.                                *)
THEOREM TimeMovesForward == Spec => AlwaysForward
<1>1. ExtenderInv /\ [Next]_vars =>
        [lastExt # NoSlot => \E k \in 1..MaxStep : lastExt' = ExtPlus(lastExt, k)]_vars
  <2> SUFFICES ASSUME ExtenderInv, Next, lastExt # NoSlot
               PROVE  \E k \in 1..MaxStep : lastExt' = ExtPlus(lastExt, k)
    BY DEF vars
  <2>1. QED BY FirstStep, IndicationStep DEF Next
<1>2. QED BY <1>1, ExtenderInvariant, PTL DEF Spec, AlwaysForward

(* The lead built up by repeated and late indications is never given back.      *)
THEOREM LeadNeverShrinks == Spec => LeadIsPermanent
<1>1. ExtenderInv /\ [Next]_vars => [lead' >= lead]_vars
  <2> SUFFICES ASSUME ExtenderInv, Next PROVE lead' >= lead
    BY DEF vars
  <2>1. QED BY FirstStep, IndicationStep DEF Next
<1>2. QED BY <1>1, ExtenderInvariant, PTL DEF Spec, LeadIsPermanent
--------------------------------------------------------------------------------

(* L1 is where the last slot heard and the progress since then say, some   *)
(* whole cycles apart.                                                     *)
InStep == Followed => \E k \in Int : sfn * S + slot = lastSlot + since + k * N

PathInv ==
  /\ lastSlot \in Slots \cup {NoSlot}
  /\ l1Num \in L1Nums /\ sfn \in 0 .. Frames - 1 /\ slot \in 0 .. SlotsPerFrame(l1Num) - 1
  /\ since \in Int /\ mixed \in BOOLEAN
  /\ InStep
  /\ MixedOnlyWithFasterL1

(* What the assumptions say of OCUDU's slots.                              *)
LEMMA Sizes ==
  /\ S \in Nat \ {0} /\ N = Frames * S /\ Frames \in Nat \ {0} /\ N \in Nat \ {0}
  /\ Num \in 0 .. MaxNum /\ MaxNum \in Nat
  <1>1. Num \in 0 .. MaxNum /\ Frames \in Nat \ {0} /\ N = Frames * S /\ MaxNum \in Nat
    BY PathAssumption
  <1>2. SlotsPerFrame(Num) \in Nat \ {0}
    BY <1>1, PowersAssumption
  <1> QED BY <1>1, <1>2, ExtenderAssumption DEF S

(* A slot of a frame is a slot of the cycle.                               *)
LEMMA CountInCycle ==
  ASSUME NEW f \in 0 .. Frames - 1, NEW s \in 0 .. S - 1
  PROVE  f * S + s \in Slots
  <1>1. f * S + S <= N
    <2>1. f + 1 <= Frames /\ f + 1 \in Nat
      BY Sizes
    <2>2. (f + 1) * S <= Frames * S
      BY <2>1, Sizes, Z3
    <2>3. (f + 1) * S = f * S + S
      BY Sizes, Z3
    <2> QED BY <2>2, <2>3, Sizes
  <1>2. f * S \in Nat
    BY Sizes
  <1> QED BY <1>1, <1>2, Sizes DEF Slots

(* The decoder accepts nothing that was damaged; what it takes to be in    *)
(* OCUDU's numerology is in range for it.                                  *)
LEMMA Decoded ==
  ASSUME NEW f \in 0 .. Frames - 1, NEW s \in Nat,
         NEW m \in {Sent(f, s)} \cup Damaged(f, s), Decode(m) # None
  PROVE  /\ Decode(m).num = Inferred(s)
         /\ Decode(m).num = Num => Decode(m).count = f * S + s /\ s < S
         /\ Decode(m).num # Num => \E n \in Num .. MaxNum : s >= SlotsPerFrame(n)
  <1> DEFINE T == {n \in Num .. MaxNum - 1 : s >= SlotsPerFrame(n)}
  <1>1. m = Sent(f, s) /\ s < SlotsPerFrame(MaxNum)
    <2>1. ~(m.len < 12) /\ ~(m.sfn >= Frames) /\ ~(m.slot >= SlotsPerFrame(MaxNum))
      BY DEF Decode
    <2>2. SlotsPerFrame(MaxNum) \in Nat
      BY Sizes, PowersAssumption
    <2> QED BY <2>1, <2>2, Sizes DEF Sent, Damaged
  <1>2. m.len = 12 /\ m.sfn = f /\ m.slot = s
    BY <1>1 DEF Sent
  <1>3. Decode(m) = [num |-> Inferred(s), count |-> f * SlotsPerFrame(Inferred(s)) + s]
    BY <1>2 DEF Decode
  <1>4. IsFiniteSet(T) /\ Cardinality(T) \in Nat
    <2>1. IsFiniteSet(Num .. MaxNum - 1)
      BY Sizes, FS_Interval
    <2>2. IsFiniteSet(T)
      BY <2>1, FS_Subset
    <2> QED BY <2>2, FS_CardinalityType
  <1>5. Inferred(s) = Num + Cardinality(T)
    BY DEF Inferred
  <1>6. ASSUME Inferred(s) = Num PROVE s < S
    <2>1. Cardinality(T) = 0
      BY <1>4, <1>5, <1>6, Sizes
    <2>2. T = {}
      BY <1>4, <2>1, FS_EmptySet
    <2>3. CASE Num = MaxNum
      BY <1>1, <2>3 DEF S
    <2>4. CASE Num # MaxNum
      <3>1. Num \in Num .. MaxNum - 1 /\ SlotsPerFrame(Num) \in Nat
        BY <2>4, Sizes, PowersAssumption
      <3>2. ~(s >= SlotsPerFrame(Num))
        BY <2>2, <3>1
      <3> QED BY <3>1, <3>2 DEF S
    <2> QED BY <2>3, <2>4
  <1>7. ASSUME Inferred(s) # Num PROVE \E n \in Num .. MaxNum : s >= SlotsPerFrame(n)
    <2>1. T # {}
      BY <1>5, <1>7, FS_EmptySet, Sizes
    <2> QED BY <2>1, Sizes
  <1> QED BY <1>3, <1>6, <1>7 DEF S

(* Where L1's move takes it in the cycle.                                  *)
LEMMA MoveShifts ==
  ASSUME PathInv, NEW df \in -1 .. 1, NEW s \in Nat, NEW f \in 0 .. Frames - 1, Moves(df, s, f)
  PROVE  /\ Progress(df, s) \in Int
         /\ \E j \in Int : f * S + s = sfn * S + slot + Progress(df, s) + j * N
  <1>1. sfn \in Int /\ slot \in Int /\ df \in Int /\ S \in Int /\ Frames \in Int /\ N = Frames * S
    <2>1. SlotsPerFrame(l1Num) \in Nat
      BY PathAssumption, PowersAssumption DEF PathInv
    <2> QED BY <2>1, Sizes DEF PathInv
  <1>2. Progress(df, s) = df * S + s - slot /\ Progress(df, s) \in Int
    BY <1>1 DEF Progress
  <1>3. PICK j \in -1 .. 1 : f = sfn + df + j * Frames
    <2>1. f = sfn + df \/ f = sfn + df - Frames \/ f = sfn + df + Frames
      BY DEF Moves
    <2>2. f = sfn + df + 0 * Frames \/ f = sfn + df + (-1) * Frames \/ f = sfn + df + 1 * Frames
      BY <1>1, <2>1
    <2> QED BY <2>2
  <1>4. f * S = sfn * S + df * S + j * (Frames * S)
    BY <1>1, <1>3, Z3
  <1>5. f * S + s = sfn * S + slot + Progress(df, s) + j * N
    BY <1>1, <1>2, <1>4
  <1> QED BY <1>2, <1>5

(* Folding takes whole cycles off and leaves a step of less than half one. *)
LEMMA Folded ==
  ASSUME NEW x \in Int
  PROVE  Fold(x) \in Steps /\ \E j \in Int : x = Fold(x) + j * N
  <1>1. N \in Nat \ {0} /\ N <= 2 * MaxStep + 1 /\ 2 * MaxStep <= N /\ MaxStep \in Nat
    BY ExtenderAssumption, PathAssumption
  <1>2. x % N \in 0 .. N - 1 /\ x \div N \in Int
    BY <1>1
  <1>3. x = (x \div N) * N + (x % N)
    BY <1>1, SMTT(30)
  <1>4. CASE 2 * (x % N) >= N
    <2>1. Fold(x) = (x % N) - N
      BY <1>4 DEF Fold
    <2>2. x = Fold(x) + (x \div N + 1) * N
      BY <1>1, <1>2, <1>3, <2>1, Z3
    <2>3. Fold(x) \in Steps
      BY <1>1, <1>2, <1>4, <2>1 DEF Steps
    <2> QED BY <1>2, <2>2, <2>3
  <1>5. CASE ~(2 * (x % N) >= N)
    <2>1. Fold(x) = x % N
      BY <1>5 DEF Fold
    <2>2. x = Fold(x) + (x \div N) * N
      BY <1>1, <1>2, <1>3, <2>1
    <2>3. Fold(x) \in Steps
      BY <1>1, <1>2, <1>5, <2>1 DEF Steps
    <2> QED BY <1>2, <2>2, <2>3
  <1> QED BY <1>4, <1>5

(* A position in the cycle that is a step and whole cycles behind another  *)
(* is the other one moved by the step round the cycle.                     *)
LEMMA WrapRecovers ==
  ASSUME NEW a \in Slots, NEW b \in Slots, NEW d \in Steps, NEW k \in Int, b = a + d + k * N
  PROVE  b = Wrap(a + d)
  <1>1. /\ N \in Nat \ {0} /\ 2 * MaxStep <= N /\ MaxStep \in Nat
        /\ a \in 0 .. N - 1 /\ b \in 0 .. N - 1 /\ d \in -MaxStep .. MaxStep
    BY ExtenderAssumption DEF Slots, Steps
  <1>2. a + d < N + N /\ a + d >= -N
    BY <1>1
  <1>3. k * N < N + N /\ k * N > -(N + N)
    BY <1>1, <1>2
  <1>4. k \in {-1, 0, 1}
    <2>1. ~(k >= 2)
      <3>1. k >= 2 => k * N >= N + N
        BY <1>1, Z3
      <3> QED BY <1>1, <1>3, <3>1
    <2>2. ~(k <= -2)
      <3>1. k <= -2 => k * N <= -(N + N)
        BY <1>1, Z3
      <3> QED BY <1>1, <1>3, <3>1
    <2> QED BY <2>1, <2>2
  <1>5. k * N = IF k = 0 THEN 0 ELSE IF k = 1 THEN N ELSE -N
    BY <1>1, <1>4
  <1> QED BY <1>1, <1>4, <1>5 DEF Wrap
--------------------------------------------------------------------------------
(* A message that is not heard moves L1 and counts its progress.           *)
LEMMA UnheardStep ==
  ASSUME PathInv, NEW df \in -1 .. 1, NEW s \in 0 .. SlotsPerFrame(l1Num) - 1,
         NEW f \in 0 .. Frames - 1, Unheard(df, s, f)
  PROVE  PathInv' /\ UNCHANGED vars
  <1>1. /\ Moves(df, s, f) /\ UNCHANGED vars /\ mixed' = mixed /\ s \in Nat
        /\ since' = IF Followed THEN since + Progress(df, s) ELSE since
    BY DEF Unheard
  <1>2. sfn' = f /\ slot' = s /\ l1Num' = l1Num /\ lastSlot' = lastSlot
    BY <1>1 DEF Moves, vars
  <1>3. Progress(df, s) \in Int
    BY <1>1, MoveShifts
  <1>4. since' \in Int
    BY <1>1, <1>3 DEF PathInv
  <1>5. InStep'
    <2> SUFFICES ASSUME Followed' PROVE \E k \in Int : f * S + s = lastSlot + since' + k * N
      BY <1>2 DEF InStep
    <2>1. Followed
      BY <1>1, <1>2 DEF Followed
    <2>2. PICK k \in Int : sfn * S + slot = lastSlot + since + k * N
      BY <2>1 DEF PathInv, InStep
    <2>3. PICK j \in Int : f * S + s = sfn * S + slot + Progress(df, s) + j * N
      BY <1>1, MoveShifts
    <2>4. lastSlot \in Int /\ since \in Int /\ N \in Int /\ k + j \in Int
      BY <2>1, Sizes DEF PathInv, Followed, Slots
    <2>5. f * S + s = lastSlot + (since + Progress(df, s)) + (k * N + j * N)
      BY <1>3, <2>2, <2>3, <2>4
    <2>6. k * N + j * N = (k + j) * N
      BY <2>4, Z3
    <2>7. f * S + s = lastSlot + since' + (k + j) * N
      BY <1>1, <2>1, <2>5, <2>6
    <2> QED BY <2>4, <2>7
  <1>6. MixedOnlyWithFasterL1'
    BY <1>1, <1>2 DEF PathInv, MixedOnlyWithFasterL1
  <1> QED BY <1>1, <1>2, <1>4, <1>5, <1>6 DEF PathInv

(* What is heard is the last slot heard, moved by what the progress since  *)
(* then looks like.                                                        *)
LEMMA RawRecovered ==
  ASSUME PathInv, Followed, NEW df \in -1 .. 1, NEW s \in Nat, NEW f \in 0 .. Frames - 1,
         Moves(df, s, f), f * S + s \in Slots
  PROVE  f * S + s = Wrap(lastSlot + Fold(since + Progress(df, s)))
  <1> DEFINE d == since + Progress(df, s)
             raw == f * S + s
             x == Fold(d)
  <1>1. lastSlot \in Slots
    BY DEF Followed, PathInv
  <1>2. d \in Int /\ since \in Int /\ Progress(df, s) \in Int
    BY MoveShifts DEF PathInv
  <1>3. PICK k \in Int : sfn * S + slot = lastSlot + since + k * N
    BY DEF PathInv, InStep
  <1>4. PICK j \in Int : raw = sfn * S + slot + Progress(df, s) + j * N
    BY MoveShifts
  <1>5. x \in Steps /\ \E i \in Int : d = x + i * N
    BY <1>2, Folded
  <1>6. PICK i \in Int : d = x + i * N
    BY <1>5
  <1>7. lastSlot \in Int /\ N \in Int /\ x \in Int /\ k + j + i \in Int
    BY <1>1, <1>5, Sizes DEF Slots, Steps
  <1>8. raw = lastSlot + d + (k * N + j * N)
    BY <1>2, <1>3, <1>4, <1>7
  <1> DEFINE c == k + j + i
  <1>9. raw \in Slots /\ c \in Int
    BY <1>7
  <1> HIDE DEF d, raw, x, c
  <1>10. raw = lastSlot + x + (k * N + j * N + i * N)
    BY <1>2, <1>6, <1>7, <1>8 DEF d
  <1>11. k * N + j * N + i * N = (k + j + i) * N
    BY <1>7, Z3
  <1>12. raw = lastSlot + x + c * N
    BY <1>10, <1>11 DEF c
  <1>13. raw = Wrap(lastSlot + x)
    BY <1>1, <1>5, <1>9, <1>12, WrapRecovers
  <1> QED BY <1>13 DEF raw, x, d

(* A message that is heard is a step of the extender, or begins the mixing.*)
LEMMA HeardStep ==
  ASSUME PathInv, NEW df \in -1 .. 1, NEW s \in 0 .. SlotsPerFrame(l1Num) - 1,
         NEW f \in 0 .. Frames - 1, Heard(df, s, f)
  PROVE  PathInv' /\ [Next]_vars
  <1>1. Moves(df, s, f) /\ s \in Nat /\ sfn' = f /\ slot' = s /\ l1Num' = l1Num
    BY DEF Heard, Moves
  <1>2. PICK m \in {Sent(f, s)} \cup Damaged(f, s) :
          /\ Decode(m) # None
          /\ since' = 0
          /\ \/ /\ Decode(m).num # Num \/ mixed
                /\ mixed' = TRUE
                /\ UNCHANGED vars
             \/ /\ Decode(m).num = Num /\ ~mixed
                /\ FirstIndication(Decode(m).count)
                /\ UNCHANGED mixed
             \/ /\ Decode(m).num = Num /\ ~mixed
                /\ Indication(Decode(m).count, Fold(since + Progress(df, s)))
                /\ UNCHANGED mixed
    BY DEF Heard
  <1>3. /\ Decode(m).num = Num => Decode(m).count = f * S + s /\ s < S
        /\ Decode(m).num # Num => \E n \in Num .. MaxNum : s >= SlotsPerFrame(n)
    BY <1>1, <1>2, Decoded
  <1>4. CASE /\ Decode(m).num # Num \/ mixed
             /\ mixed' = TRUE
             /\ UNCHANGED vars
    <2>1. l1Num > Num
      <3>1. CASE mixed
        BY <3>1 DEF PathInv, MixedOnlyWithFasterL1
      <3>2. CASE Decode(m).num # Num
        <4>1. PICK n \in Num .. MaxNum : s >= SlotsPerFrame(n)
          BY <1>3, <3>2
        <4>2. l1Num \in 0 .. MaxNum /\ n \in 0 .. MaxNum
          BY PathAssumption DEF PathInv
        <4>3. SlotsPerFrame(n) \in Nat /\ SlotsPerFrame(l1Num) \in Nat
          BY <4>2, PowersAssumption
        <4>4. SlotsPerFrame(l1Num) > SlotsPerFrame(n)
          BY <1>1, <4>1, <4>3
        <4>5. ~(l1Num \in 0 .. n)
          BY <4>2, <4>3, <4>4, PowersAssumption
        <4> QED BY <4>2, <4>5, Sizes
      <3> QED BY <1>4, <3>1, <3>2
    <2>2. lastSlot' = lastSlot
      BY <1>4 DEF vars
    <2>3. InStep'
      BY <1>4 DEF InStep, Followed
    <2> QED BY <1>1, <1>2, <1>4, <2>1, <2>2, <2>3 DEF PathInv, MixedOnlyWithFasterL1
  <1>5. ASSUME Decode(m).num = Num, ~mixed, mixed' = mixed, lastSlot' = Decode(m).count
        PROVE  PathInv' /\ Decode(m).count \in Slots
    <2>1. Decode(m).count = f * S + s /\ f * S + s \in Slots
      BY <1>1, <1>3, <1>5, Sizes, CountInCycle
    <2>2. f * S + s = lastSlot' + since' + 0 * N
      BY <1>2, <1>5, <2>1, Sizes DEF Slots
    <2>3. InStep'
      BY <1>1, <2>2 DEF InStep
    <2> QED BY <1>1, <1>2, <1>5, <2>1, <2>3 DEF PathInv, MixedOnlyWithFasterL1
  <1>6. CASE /\ Decode(m).num = Num /\ ~mixed
             /\ FirstIndication(Decode(m).count)
             /\ UNCHANGED mixed
    <2>1. PathInv' /\ Decode(m).count \in Slots
      BY <1>5, <1>6 DEF FirstIndication
    <2> QED BY <1>6, <2>1 DEF Next
  <1>7. CASE /\ Decode(m).num = Num /\ ~mixed
             /\ Indication(Decode(m).count, Fold(since + Progress(df, s)))
             /\ UNCHANGED mixed
    <2> DEFINE d == since + Progress(df, s)
               raw == Decode(m).count
    <2>1. PathInv' /\ raw \in Slots
      BY <1>5, <1>7 DEF Indication
    <2>2. Followed
      BY <1>7 DEF Indication, Followed
    <2>3. raw = Wrap(lastSlot + Fold(d))
      BY <1>1, <1>3, <1>7, <2>1, <2>2, RawRecovered
    <2>4. d \in Int
      BY <1>1, MoveShifts DEF PathInv
    <2>5. Fold(d) \in Steps
      BY <2>4, Folded
    <2>6. Indication(raw, Fold(d))
      BY <1>7
    <2> HIDE DEF d, raw
    <2>7. Indication(Wrap(lastSlot + Fold(d)), Fold(d))
      BY <2>3, <2>6 DEF Indication
    <2> QED BY <2>1, <2>5, <2>7 DEF Next
  <1> QED BY <1>2, <1>4, <1>6, <1>7

(* Whatever L1 sends, the extender makes one of its own steps or none.     *)
LEMMA PathStep == PathInv /\ [PathNext]_pathVars => PathInv' /\ [Next]_vars
  <1> SUFFICES ASSUME PathInv, [PathNext]_pathVars PROVE PathInv' /\ [Next]_vars
    OBVIOUS
  <1>1. CASE UNCHANGED pathVars
    BY <1>1 DEF pathVars, l1vars, vars, PathInv, InStep, Followed, MixedOnlyWithFasterL1
  <1>2. CASE PathNext
    <2>1. PICK df \in -1 .. 1, s \in 0 .. SlotsPerFrame(l1Num) - 1, f \in 0 .. Frames - 1 :
            Unheard(df, s, f) \/ Heard(df, s, f)
      BY <1>2 DEF PathNext
    <2>2. CASE Unheard(df, s, f)
      BY <2>2, UnheardStep
    <2>3. CASE Heard(df, s, f)
      BY <2>3, HeardStep
    <2> QED BY <2>1, <2>2, <2>3
  <1> QED BY <1>1, <1>2

(* L1 begins anywhere, and nothing was heard.                              *)
LEMMA PathBegins == PathInit => PathInv /\ Init
  <1> SUFFICES ASSUME PathInit PROVE PathInv /\ Init
    OBVIOUS
  <1>1. Init /\ lastSlot = NoSlot /\ ~mixed /\ mixed \in BOOLEAN /\ since = 0
    BY DEF PathInit, Init
  <1>2. /\ l1Num \in L1Nums /\ sfn \in 0 .. Frames - 1
        /\ slot \in 0 .. SlotsPerFrame(l1Num) - 1
    BY DEF PathInit
  <1>3. InStep /\ MixedOnlyWithFasterL1
    BY <1>1 DEF InStep, Followed, MixedOnlyWithFasterL1
  <1>4. since \in Int
    BY <1>1
  <1> QED BY <1>1, <1>2, <1>3, <1>4 DEF PathInv

(* The slots that come through the decoder are a stream the extender is    *)
(* made for, whatever is lost, damaged or silent.                          *)
THEOREM PathImplementsExtender == PathSpec => ImplementsExtender
  <1> QED BY PathBegins, PathStep, PTL DEF PathSpec, ImplementsExtender, Spec

(* An L1 that is not faster than OCUDU is decoded in OCUDU's numerology    *)
(* throughout: numerologies are not mixed.                                 *)
THEOREM NoMixing == PathSpec => []MixedOnlyWithFasterL1
  <1>1. PathInv => MixedOnlyWithFasterL1
    BY DEF PathInv
  <1> QED BY <1>1, PathBegins, PathStep, PTL DEF PathSpec

(* So every message that is heard moves extended time forward.             *)
THEOREM PathAlwaysForward == PathSpec => AlwaysForward
  <1> QED BY PathImplementsExtender, TimeMovesForward, PTL DEF ImplementsExtender
--------------------------------------------------------------------------------
(* Extended time as it was reckoned: L1's time is what the cycles, the last *)
(* slot, the progress since it and the cycles missed add up to, some        *)
(* rounds of the HyperSFN apart.                                            *)
Reckoned ==
  Followed => \E k \in Int : time = cycles * N + lastSlot + since + missed * N + k * (H * N)

ReckonInv ==
  /\ time \in Int /\ missed \in Int
  /\ lastSlot = NoSlot => missed = 0
  /\ Reckoned

(* A HyperSFN range is at least one cycle long.                             *)
LEMMA Ranges == H * N \in Nat \ {0} /\ H \in Nat \ {0} /\ N <= H * N /\ N \in Nat
  <1>1. H \in Nat \ {0} /\ N \in Nat \ {0}
    BY ExtenderAssumption
  <1>2. H * N >= N /\ H * N \in Nat
    BY <1>1, Z3
  <1> QED BY <1>1, <1>2

(* A remainder is whole divisors away from what it is the remainder of.     *)
LEMMA RemainderIsApart ==
  ASSUME NEW x \in Int, NEW c \in Nat \ {0}
  PROVE  x % c \in 0 .. c - 1 /\ \E q \in Int : x % c = x + q * c
  <1>1. x % c \in 0 .. c - 1 /\ x \div c \in Int
    OBVIOUS
  <1>2. x = (x \div c) * c + (x % c)
    BY SMTT(30)
  <1> DEFINE q == x \div c
  <1>3. q \in Int /\ x = q * c + (x % c)
    BY <1>1, <1>2
  <1> HIDE DEF q
  <1>4. 0 - q \in Int /\ q * c \in Int /\ (0 - q) * c = 0 - q * c
    BY <1>3, Z3
  <1>5. x % c = x + (0 - q) * c
    BY <1>1, <1>3, <1>4
  <1> QED BY <1>1, <1>4, <1>5

(* The same, said of what was assigned a remainder.                         *)
LEMMA ModuloIsApart ==
  ASSUME NEW x \in Int, NEW c \in Nat \ {0}, NEW r, r = x % c
  PROVE  r \in Int /\ \E q \in Int : r = x + q * c
  <1>1. x % c \in 0 .. c - 1 /\ \E q \in Int : x % c = x + q * c
    BY RemainderIsApart
  <1>2. 0 .. c - 1 \subseteq Int
    BY ONLY SMT
  <1> QED BY <1>1, <1>2, Zenon

(* It is the only number in range that is.                                  *)
LEMMA RemainderIsUnique ==
  ASSUME NEW c \in Nat \ {0}, NEW a \in 0 .. c - 1, NEW k \in Int
  PROVE  (a + k * c) % c = a
  <1> DEFINE x == a + k * c
             r == x % c
  <1>1. x \in Int
    OBVIOUS
  <1>2. PICK q \in Int : r = x + q * c
    BY <1>1, RemainderIsApart
  <1>3. r \in 0 .. c - 1
    BY <1>1, RemainderIsApart
  <1>4. k + q \in Int /\ (k + q) * c = k * c + q * c
    BY Z3
  <1>5. r - a = (k + q) * c
    BY <1>2, <1>3, <1>4
  <1>6. r - a \in -(c - 1) .. c - 1
    BY <1>3
  <1> DEFINE z == k + q
  <1>7. z \in Int /\ z * c \in -(c - 1) .. c - 1
    BY <1>4, <1>5, <1>6
  <1> HIDE DEF z
  <1>8. ~(z >= 1)
    <2>1. z >= 1 => z * c >= c
      BY <1>7, Z3
    <2> QED BY <1>7, <2>1
  <1>9. ~(z <= -1)
    <2>1. z <= -1 => z * c <= -c
      BY <1>7, Z3
    <2> QED BY <1>7, <2>1
  <1>10. z = 0
    BY <1>7, <1>8, <1>9
  <1>11. z * c = 0
    BY <1>10
  <1> QED BY <1>3, <1>5, <1>11 DEF z

(* HyperSFN counters are reduced by whole ranges, the slot by the turns.    *)
LEMMA Reduced ==
  ASSUME NEW h \in 0 .. H - 1, NEW t \in {-1, 0, 1}
  PROVE  \E r \in Int : Spin(h, t) = h + t + r * H
  <1>1. H \in Nat \ {0}
    BY ExtenderAssumption
  <1>2. /\ Spin(h, t) = h + t + (-1) * H \/ Spin(h, t) = h + t + 0 * H
           \/ Spin(h, t) = h + t + 1 * H
    BY <1>1 DEF Spin
  <1> QED BY <1>2

(* The extender's wrapping takes off the turns it reports.                  *)
LEMMA Turned ==
  ASSUME NEW x \in Int
  PROVE  Turns(x) \in {-1, 0, 1} /\ Wrap(x) = x - Turns(x) * N
  BY Sizes DEF Turns, Wrap

(* The cycles a folded difference leaves out are exactly counted.           *)
LEMMA CyclesCounted ==
  ASSUME NEW d \in Int
  PROVE  \E i \in Int : d = Fold(d) + i * N /\ (d - Fold(d)) \div N = i
  <1>1. PICK i \in Int : Fold(d) \in Steps /\ d = Fold(d) + i * N
    BY Folded
  <1>2. Fold(d) \in Int /\ N \in Nat \ {0}
    BY <1>1, Sizes DEF Steps
  <1>3. d - Fold(d) = i * N
    BY <1>1, <1>2
  <1>4. (i * N) \div N = i
    BY <1>2, SMTT(30)
  <1> QED BY <1>1, <1>3, <1>4

(* What the reckoning adds up are integers.                                 *)
LEMMA ReckonedOver ==
  ASSUME ExtenderInv, PathInv, ReckonInv, Followed
  PROVE  /\ lastSlot \in Int /\ cycles \in 0 .. H - 1 /\ cycles * N \in Int /\ missed * N \in Int
         /\ since \in Int /\ time \in Int /\ missed \in Int
         /\ N \in Nat \ {0} /\ H \in Nat \ {0} /\ H * N \in Nat \ {0}
  <1>1. lastSlot \in Int /\ cycles \in 0 .. H - 1
    BY DEF Followed, ExtenderInv, TypeOK, Slots
  <1>2. N \in Nat \ {0} /\ H \in Nat \ {0}
    BY ExtenderAssumption
  <1>3. H * N \in Nat \ {0}
    BY <1>2, Z3
  <1>4. cycles * N \in Int /\ missed * N \in Int
    BY <1>1, <1>2, Z3 DEF ReckonInv
  <1> QED BY <1>1, <1>2, <1>3, <1>4 DEF PathInv, ReckonInv

(* Progress that is not heard is added on both sides.                       *)
LEMMA UnheardReckons ==
  ASSUME ExtenderInv, PathInv, ReckonInv, NEW df \in -1 .. 1,
         NEW s \in 0 .. SlotsPerFrame(l1Num) - 1, NEW f \in 0 .. Frames - 1, Unheard(df, s, f)
  PROVE  ReckonInv'
  <1> DEFINE P == Progress(df, s)
             C == H * N
  <1>1. /\ Moves(df, s, f) /\ s \in Nat /\ missed' = missed
        /\ lastSlot' = lastSlot /\ cycles' = cycles /\ mixed' = mixed
        /\ IF Followed THEN since' = since + P /\ time' = (time + P) % C
                       ELSE since' = since /\ time' = time
    BY DEF Unheard, vars
  <1>2. P \in Int
    BY <1>1, MoveShifts
  <1>3. CASE ~Followed
    <2>1. ~Followed'
      BY <1>1, <1>3 DEF Followed
    <2> QED BY <1>1, <1>3, <2>1 DEF ReckonInv, Reckoned
  <1>4. CASE Followed
    <2> DEFINE A == cycles * N
               B == missed * N
    <2>1. /\ lastSlot \in Int /\ A \in Int /\ B \in Int /\ since \in Int /\ time \in Int
          /\ C \in Nat \ {0}
      BY <1>4, ReckonedOver
    <2>2. PICK k \in Int : time = A + lastSlot + since + B + k * C
      BY <1>4 DEF ReckonInv, Reckoned
    <2>3. A' = A /\ B' = B
      BY <1>1
    <2> HIDE DEF P, C
    <2>4. since' = since + P /\ time' = (time + P) % C
      BY <1>1, <1>4
    <2>5. time + P \in Int
      BY <1>2, <2>1
    <2>6. time' \in Int /\ \E q \in Int : time' = time + P + q * C
      BY <2>1, <2>4, <2>5, ModuloIsApart
    <2>7. PICK q \in Int : time' = time + P + q * C
      BY <2>6
    <2>8. k + q \in Int /\ k * C + q * C = (k + q) * C /\ k * C \in Int /\ q * C \in Int
      BY <2>1, Z3
    <2> HIDE DEF A, B
    <2>9. time' = A + lastSlot + since' + B + (k + q) * C
      BY <1>2, <2>1, <2>2, <2>4, <2>7, <2>8
    <2>10. time' = cycles' * N + lastSlot' + since' + missed' * N + (k + q) * (H * N)
      BY <1>1, <2>9 DEF A, B, C
    <2>11. Reckoned'
      BY <2>8, <2>10 DEF Reckoned
    <2>12. lastSlot' # NoSlot /\ missed' \in Int
      BY <1>1, <1>4 DEF Followed, ReckonInv
    <2> QED BY <2>6, <2>11, <2>12 DEF ReckonInv
  <1> QED BY <1>3, <1>4

(* The first message begins the reckoning.                                  *)
LEMMA FirstReckons ==
  ASSUME ExtenderInv, ReckonInv, NEW raw \in Slots, FirstIndication(raw),
         since' = 0, time' = raw, missed' = missed
  PROVE  ReckonInv'
  <1>1. cycles' = 0 /\ missed' = 0 /\ lastSlot' = raw
    BY DEF FirstIndication, ExtenderInv, Unanchored, ReckonInv
  <1>2. raw \in Int /\ N \in Int /\ H \in Int /\ raw # NoSlot
    BY ExtenderAssumption DEF Slots
  <1>3. 0 * N = 0 /\ 0 * (H * N) = 0
    BY <1>2, Z3
  <1>4. time' = cycles' * N + lastSlot' + since' + missed' * N + 0 * (H * N)
    BY <1>1, <1>2, <1>3
  <1>5. Reckoned'
    BY <1>4 DEF Reckoned
  <1> QED BY <1>1, <1>2, <1>5 DEF ReckonInv

(* A message that is heard turns the progress into cycles, slot and missed  *)
(* cycles, which add up to it.                                              *)
LEMMA IndicationReckons ==
  ASSUME ExtenderInv, PathInv, ReckonInv, Followed, NEW P \in Int, NEW raw \in Slots,
         Indication(raw, Fold(since + P)), raw = Wrap(lastSlot + Fold(since + P)),
         since' = 0, mixed' = mixed, time' = (time + P) % (H * N),
         missed' = (missed + ((since + P) - Fold(since + P)) \div N) % H
  PROVE  ReckonInv'
  <1> DEFINE A == cycles * N
             B == missed * N
             C == H * N
             d == since + P
             x == Fold(d)
             t == Turns(lastSlot + x)
  <1>1. /\ lastSlot \in Int /\ A \in Int /\ B \in Int /\ since \in Int /\ time \in Int
        /\ C \in Nat \ {0} /\ N \in Nat \ {0} /\ H \in Nat \ {0}
        /\ cycles \in 0 .. H - 1 /\ missed \in Int
    BY ReckonedOver
  <1>2. PICK k \in Int : time = A + lastSlot + since + B + k * C
    BY DEF ReckonInv, Reckoned
  <1>3. d \in Int
    BY <1>1
  <1>4. PICK i \in Int : d = x + i * N /\ (d - x) \div N = i
    BY <1>3, CyclesCounted
  <1>5. x \in Int
    BY <1>3, Folded DEF Steps
  <1>6. t \in {-1, 0, 1} /\ raw = lastSlot + x - t * N
    BY <1>1, <1>5, Turned
  <1>7. cycles' = Spin(cycles, t) /\ lastSlot' = raw
    BY DEF Indication
  <1>8. PICK r \in Int : cycles' = cycles + t + r * H
    BY <1>1, <1>6, <1>7, Reduced
  <1>9. missed' = (missed + i) % H /\ missed + i \in Int
    BY <1>1, <1>4
  <1>10. PICK u \in Int : missed' = missed + i + u * H
    BY <1>1, <1>9, ModuloIsApart
  <1>11. time + P \in Int /\ time' = (time + P) % C
    BY <1>1
  <1>12. time' \in Int /\ \E q \in Int : time' = time + P + q * C
    BY <1>1, <1>11, ModuloIsApart
  <1>13. PICK q \in Int : time' = time + P + q * C
    BY <1>12
  <1>14. raw \in Int /\ raw # NoSlot /\ missed' \in Int
    BY <1>1, <1>9, ExtenderAssumption DEF Slots
  <1> HIDE DEF A, B, C, d, x, t
  <1>15. cycles' * N = A + t * N + r * C
    BY <1>1, <1>6, <1>8, Z3 DEF A, C
  <1>16. missed' * N = B + i * N + u * C
    BY <1>1, <1>10, Z3 DEF B, C
  <1>17. /\ t * N \in Int /\ i * N \in Int /\ r * C \in Int /\ u * C \in Int /\ k * C \in Int
         /\ q * C \in Int
    BY <1>1, <1>6, Z3
  <1> DEFINE z == k + q - r - u
  <1>18. z \in Int /\ z * C = k * C + q * C - r * C - u * C
    BY <1>1, Z3
  <1> HIDE DEF z
  <1>19. time' = A + lastSlot + B + d + k * C + q * C
    BY <1>1, <1>2, <1>13, <1>17 DEF d
  <1>20. time' = cycles' * N + raw + missed' * N + z * C
    BY <1>1, <1>4, <1>5, <1>6, <1>15, <1>16, <1>17, <1>18, <1>19
  <1>21. time' = cycles' * N + lastSlot' + since' + missed' * N + z * (H * N)
    <2>1. cycles' * N \in Int /\ missed' * N \in Int /\ z * C \in Int
      BY <1>1, <1>15, <1>16, <1>17, <1>18
    <2> QED BY <1>7, <1>14, <1>20, <2>1 DEF C
  <1>22. Reckoned'
    BY <1>18, <1>21 DEF Reckoned
  <1> QED BY <1>7, <1>12, <1>14, <1>22 DEF ReckonInv

(* So does every message that is heard.                                     *)
LEMMA HeardReckons ==
  ASSUME ExtenderInv, PathInv, ReckonInv, NEW df \in -1 .. 1,
         NEW s \in 0 .. SlotsPerFrame(l1Num) - 1, NEW f \in 0 .. Frames - 1, Heard(df, s, f)
  PROVE  ReckonInv'
  <1>1. Moves(df, s, f) /\ s \in Nat
    BY DEF Heard
  <1>2. PICK m \in {Sent(f, s)} \cup Damaged(f, s) :
          /\ Decode(m) # None
          /\ since' = 0
          /\ \/ /\ Decode(m).num # Num \/ mixed
                /\ mixed' = TRUE
                /\ UNCHANGED <<vars, time, missed>>
             \/ /\ Decode(m).num = Num /\ ~mixed
                /\ FirstIndication(Decode(m).count)
                /\ time' = Decode(m).count
                /\ UNCHANGED <<missed, mixed>>
             \/ /\ Decode(m).num = Num /\ ~mixed
                /\ Indication(Decode(m).count, Fold(since + Progress(df, s)))
                /\ time' = (time + Progress(df, s)) % (H * N)
                /\ missed' = (missed + ((since + Progress(df, s))
                                        - Fold(since + Progress(df, s))) \div N) % H
                /\ UNCHANGED mixed
    BY DEF Heard
  <1>3. ASSUME Decode(m).num = Num
        PROVE  Decode(m).count = f * S + s /\ f * S + s \in Slots
    <2>1. Decode(m).count = f * S + s /\ s < S
      BY <1>1, <1>2, <1>3, Decoded
    <2>2. s \in 0 .. S - 1
      BY <1>1, <2>1, Sizes
    <2> QED BY <2>1, <2>2, CountInCycle
  <1>4. CASE /\ Decode(m).num # Num \/ mixed
             /\ mixed' = TRUE
             /\ UNCHANGED <<vars, time, missed>>
    BY <1>4 DEF vars, ReckonInv, Reckoned, Followed
  <1>5. CASE /\ Decode(m).num = Num /\ ~mixed
             /\ FirstIndication(Decode(m).count)
             /\ time' = Decode(m).count
             /\ UNCHANGED <<missed, mixed>>
    BY <1>2, <1>3, <1>5, FirstReckons
  <1>6. CASE /\ Decode(m).num = Num /\ ~mixed
             /\ Indication(Decode(m).count, Fold(since + Progress(df, s)))
             /\ time' = (time + Progress(df, s)) % (H * N)
             /\ missed' = (missed + ((since + Progress(df, s))
                                     - Fold(since + Progress(df, s))) \div N) % H
             /\ UNCHANGED mixed
    <2>1. Followed
      BY <1>6 DEF Indication, Followed
    <2>2. /\ Decode(m).count = Wrap(lastSlot + Fold(since + Progress(df, s)))
          /\ Decode(m).count \in Slots
      BY <1>1, <1>3, <1>6, <2>1, RawRecovered
    <2>3. Progress(df, s) \in Int
      BY <1>1, MoveShifts
    <2> QED BY <1>2, <1>6, <2>1, <2>2, <2>3, IndicationReckons
  <1> QED BY <1>2, <1>4, <1>5, <1>6

(* The reckoning survives every step.                                       *)
LEMMA ReckonStep == ExtenderInv /\ PathInv /\ ReckonInv /\ [PathNext]_pathVars => ReckonInv'
  <1> SUFFICES ASSUME ExtenderInv, PathInv, ReckonInv, [PathNext]_pathVars PROVE ReckonInv'
    OBVIOUS
  <1>1. CASE UNCHANGED pathVars
    BY <1>1 DEF pathVars, l1vars, vars, ReckonInv, Reckoned, Followed
  <1>2. CASE PathNext
    <2>1. PICK df \in -1 .. 1, s \in 0 .. SlotsPerFrame(l1Num) - 1, f \in 0 .. Frames - 1 :
            Unheard(df, s, f) \/ Heard(df, s, f)
      BY <1>2 DEF PathNext
    <2> QED BY <2>1, UnheardReckons, HeardReckons
  <1> QED BY <1>1, <1>2

(* The reckoning determines extended time.                                  *)
LEMMA ReckoningSuffices ==
  ASSUME ExtenderInv, PathInv, ReckonInv PROVE SilenceCostsWholeCycles
  <1> SUFFICES ASSUME Followed, ~regressed
               PROVE  lastExt.hyper * N + lastExt.slot = (time - since - missed * N) % (H * N)
    BY DEF SilenceCostsWholeCycles, ExtTime, L1Time
  <1> DEFINE A == cycles * N
             B == missed * N
             C == H * N
  <1>1. /\ lastSlot \in Int /\ A \in Int /\ B \in Int /\ since \in Int /\ time \in Int
        /\ C \in Nat \ {0} /\ N \in Nat \ {0} /\ H \in Nat \ {0} /\ cycles \in 0 .. H - 1
    BY ReckonedOver
  <1>2. lastExt.hyper = cycles /\ lastExt.slot = lastSlot
    BY DEF ExtenderInv, FollowsForwardStream, Followed
  <1>3. lastSlot \in 0 .. N - 1
    BY DEF PathInv, Followed, Slots
  <1>4. A >= 0 /\ A + N <= C
    <2>1. cycles \in Int /\ cycles >= 0 /\ cycles + 1 <= H /\ N \in Int /\ N >= 0 /\ H \in Int
      BY <1>1
    <2>2. cycles * N >= 0 /\ (cycles + 1) * N <= H * N /\ (cycles + 1) * N = cycles * N + N
      BY <2>1, Z3
    <2> QED BY <2>1, <2>2
  <1>5. PICK k \in Int : time = A + lastSlot + since + B + k * C
    BY DEF ReckonInv, Reckoned
  <1> HIDE DEF A, B, C
  <1>6. A + lastSlot \in 0 .. C - 1
    BY <1>1, <1>3, <1>4
  <1>7. k * C \in Int
    BY <1>1, Z3
  <1>8. time - since - B = (A + lastSlot) + k * C
    BY <1>1, <1>5, <1>7
  <1>9. (time - since - B) % C = A + lastSlot
    BY <1>1, <1>6, <1>8, RemainderIsUnique
  <1> QED BY <1>2, <1>9 DEF A, B, C

--------------------------------------------------------------------------------
(* The extender leads its own reckoning by lead, which is bounded.          *)
Led ==
  /\ lead <= MaxLead /\ behind <= MaxLead
  /\ lastSlot = NoSlot => lead = 0
  /\ lastSlot # NoSlot =>
       \E k \in Int : ExtTime = cycles * N + lastSlot + lead + k * (H * N)

(* An indication moves extended time and reckoning by what lead makes up.   *)
LEMMA IndicationLeads ==
  ASSUME ExtenderInv, Led, NEW d \in Steps, Indication(Wrap(lastSlot + d), d)
  PROVE  Led'
  <1> DEFINE adv == IF d <= 0 THEN 1 ELSE d
             C == H * N
             h == lastExt.hyper
             e == lastExt.slot
             t == Turns(lastSlot + d)
             u == Turns(e + adv)
  <1>1. /\ lastSlot \in Slots /\ lastExt \in ExtSlots /\ cycles \in 0 .. H - 1
        /\ lead \in Nat /\ lastSlot # NoSlot
    BY DEF Indication, ExtenderInv, TypeOK
  <1>2. Advance(Wrap(lastSlot + d)) = adv
    BY <1>1, AdvanceIs
  <1>3. /\ lastSlot' = Wrap(lastSlot + d) /\ lastExt' = ExtPlus(lastExt, adv)
        /\ cycles' = Spin(cycles, t) /\ lead' = lead + adv - d
        /\ lead' <= MaxLead /\ behind' <= MaxLead
    BY <1>2 DEF Indication
  <1>4. /\ lastSlot \in Int /\ h \in 0 .. H - 1 /\ e \in Int /\ d \in Int /\ adv \in Int
        /\ N \in Nat \ {0} /\ H \in Nat \ {0} /\ C \in Int
    BY <1>1, ExtenderAssumption DEF Slots, ExtSlots, Steps
  <1>5. t \in {-1, 0, 1} /\ lastSlot' = lastSlot + d - t * N
    BY <1>3, <1>4, Turned
  <1>6. u \in {-1, 0, 1} /\ lastExt'.slot = e + adv - u * N /\ lastExt'.hyper = Spin(h, u)
    BY <1>3, <1>4, Turned DEF ExtPlus
  <1>7. PICK r \in Int : cycles' = cycles + t + r * H
    BY <1>1, <1>3, <1>5, Reduced
  <1>8. PICK q \in Int : lastExt'.hyper = h + u + q * H
    BY <1>4, <1>6, Reduced
  <1>9. PICK k \in Int : h * N + e = cycles * N + lastSlot + lead + k * C
    BY <1>1 DEF Led, ExtTime
  <1> HIDE DEF adv, C, h, e, t, u
  <1>10. cycles' * N = cycles * N + t * N + r * C
    BY <1>1, <1>4, <1>5, <1>7, Z3 DEF C
  <1>11. lastExt'.hyper * N = h * N + u * N + q * C
    BY <1>4, <1>6, <1>8, Z3 DEF C
  <1>12. /\ cycles * N \in Int /\ t * N \in Int /\ u * N \in Int /\ h * N \in Int
         /\ r * C \in Int /\ q * C \in Int /\ k * C \in Int
    BY <1>1, <1>4, <1>5, <1>6, Z3
  <1> DEFINE z == k + q - r
  <1>13. z \in Int /\ z * C = k * C + q * C - r * C
    BY <1>4, Z3
  <1> HIDE DEF z
  <1>14. lead \in Int /\ lead' = lead + adv - d
    BY <1>1, <1>3
  <1>15. lastExt'.hyper * N + lastExt'.slot = cycles' * N + lastSlot' + lead' + z * C
    <2>1. lastExt'.hyper * N + lastExt'.slot = (h * N + e) + adv + q * C
      BY ONLY <1>4, <1>6, <1>11, <1>12
    <2>2. cycles' * N + lastSlot' + lead' = (cycles * N + lastSlot + lead) + adv + r * C
      BY ONLY <1>4, <1>5, <1>10, <1>12, <1>14
    <2> DEFINE a == h * N + e
               b == cycles * N + lastSlot + lead
               c == cycles' * N + lastSlot' + lead'
    <2>3. a \in Int /\ b \in Int /\ a = b + k * C /\ c = b + adv + r * C
      BY <1>4, <1>9, <1>12, <1>14, <2>2
    <2> HIDE DEF a, b, c
    <2>4. a + adv + q * C = c + z * C
      BY ONLY <1>4, <1>12, <1>13, <2>3
    <2> QED BY <2>1, <2>4 DEF a, c
  <1>16. lastSlot' # NoSlot
    <2>1. lastSlot' \in Slots
      BY <1>1, <1>3, WrapInRange DEF Steps
    <2> QED BY <2>1, ExtenderAssumption DEF Slots
  <1> QED BY <1>3, <1>13, <1>15, <1>16 DEF Led, ExtTime, C

(* The first indication begins without a lead; nothing else moves.          *)
LEMMA LedStep == ExtenderInv /\ Led /\ [Next]_vars => Led'
  <1> SUFFICES ASSUME ExtenderInv, Led, [Next]_vars PROVE Led'
    OBVIOUS
  <1>1. CASE UNCHANGED vars
    BY <1>1 DEF vars, Led, ExtTime
  <1>2. ASSUME NEW raw \in Slots, FirstIndication(raw) PROVE Led'
    <2>1. /\ lastSlot' = raw /\ lastExt'.hyper = 0 /\ lastExt'.slot = raw
          /\ cycles' = 0 /\ lead' = 0 /\ behind' = behind
      BY <1>2 DEF FirstIndication, Led, ExtenderInv, Unanchored
    <2>2. raw \in Int /\ raw # NoSlot /\ N \in Int /\ H * N \in Int /\ MaxLead \in Nat
      BY ExtenderAssumption, Ranges DEF Slots
    <2>3. 0 * N = 0 /\ 0 * (H * N) = 0
      BY <2>2, Z3
    <2>4. 0 * N + raw = 0 * N + raw + 0 + 0 * (H * N)
      BY <2>2, <2>3
    <2>5. ExtTime' = cycles' * N + lastSlot' + lead' + 0 * (H * N)
      BY <2>1, <2>4 DEF ExtTime
    <2> QED BY <2>1, <2>2, <2>5 DEF Led
  <1> QED BY <1>1, <1>2, IndicationLeads DEF Next

(* While L1 is never silent for half a cycle, what the extender sees is     *)
(* what L1 did.                                                             *)
LatenessInv ==
  /\ long \in BOOLEAN
  /\ IF long THEN late = 0 /\ newest = 0 ELSE missed = 0 /\ late = lead /\ newest = behind

(* A progress of less than half a cycle looks like itself.                  *)
LEMMA NothingFolded ==
  ASSUME NEW d \in Steps
  PROVE  Fold(d) = d
  <1>1. N \in Nat \ {0} /\ d \in -MaxStep .. MaxStep /\ 2 * d < N /\ 2 * MaxStep <= N
        /\ MaxStep \in Nat
    BY ExtenderAssumption DEF Steps
  <1>2. CASE d >= 0
    <2>1. d \in 0 .. N - 1 /\ d = d + 0 * N
      BY <1>1, <1>2
    <2>2. d % N = d
      BY <1>1, <2>1, RemainderIsUnique
    <2> QED BY <1>1, <2>2 DEF Fold
  <1>3. CASE d < 0
    <2>1. d + N \in 0 .. N - 1 /\ d = (d + N) + (-1) * N
      BY <1>1, <1>3
    <2>2. d % N = d + N
      BY <1>1, <2>1, RemainderIsUnique
    <2> QED BY <1>1, <1>3, <2>2 DEF Fold
  <1> QED BY <1>1, <1>2, <1>3

(* Both histories move together.                                            *)
LEMMA IndicationIsLate ==
  ASSUME ExtenderInv, LatenessInv, NEW d \in Int, NEW raw,
         Indication(raw, Fold(d)), lastSlot \in Slots, raw = Wrap(lastSlot + Fold(d)),
         missed' = (missed + (d - Fold(d)) \div N) % H, Lateness(d)
  PROVE  LatenessInv'
  <1>0. long' \in BOOLEAN
    BY DEF Lateness
  <1>1. CASE long'
    BY <1>0, <1>1 DEF Lateness, LatenessInv
  <1>2. CASE ~long'
    <2>1. ~long /\ d \in Steps
      BY <1>2 DEF Lateness, LatenessInv
    <2>2. Fold(d) = d
      BY <2>1, NothingFolded
    <2>3. missed' = 0
      <3>1. missed = 0 /\ N \in Nat \ {0} /\ H \in Nat \ {0}
        BY <2>1, ExtenderAssumption DEF LatenessInv
      <3>2. (d - d) \div N = 0
        BY <3>1
      <3> QED BY <2>2, <3>1, <3>2
    <2>4. Advance(raw) = IF d <= 0 THEN 1 ELSE d
      BY <2>1, <2>2, AdvanceIs
    <2>5. lead' = lead + Advance(raw) - d /\ behind' = IF d >= behind THEN 0 ELSE behind - d
      BY <2>2 DEF Indication
    <2>6. late' = (IF d <= 0 THEN late + 1 - d ELSE late)
          /\ newest' = (IF d >= newest THEN 0 ELSE newest - d)
      BY <1>2 DEF Lateness
    <2>7. late = lead /\ newest = behind /\ lead \in Nat
      BY <2>1 DEF LatenessInv, ExtenderInv, TypeOK
    <2>8. late' = lead' /\ newest' = behind'
      BY <2>4, <2>5, <2>6, <2>7
    <2> QED BY <1>0, <1>2, <2>3, <2>8 DEF LatenessInv
  <1> QED BY <1>1, <1>2

(* So they do whatever comes.                                               *)
LEMMA LatenessStep ==
  ExtenderInv /\ PathInv /\ LatenessInv /\ [PathNext]_pathVars => LatenessInv'
  <1> SUFFICES ASSUME ExtenderInv, PathInv, LatenessInv, [PathNext]_pathVars PROVE LatenessInv'
    OBVIOUS
  <1>1. CASE UNCHANGED pathVars
    BY <1>1 DEF pathVars, l1vars, vars, LatenessInv
  <1>2. ASSUME NEW df \in -1 .. 1, NEW s \in 0 .. SlotsPerFrame(l1Num) - 1,
               NEW f \in 0 .. Frames - 1, Unheard(df, s, f)
        PROVE  LatenessInv'
    BY <1>2 DEF Unheard, vars, LatenessInv
  <1>3. ASSUME NEW df \in -1 .. 1, NEW s \in 0 .. SlotsPerFrame(l1Num) - 1,
               NEW f \in 0 .. Frames - 1, Heard(df, s, f)
        PROVE  LatenessInv'
    <2> DEFINE d == since + Progress(df, s)
    <2>1. Moves(df, s, f) /\ s \in Nat
      BY <1>3 DEF Heard
    <2>2. d \in Int
      BY <2>1, MoveShifts DEF PathInv
    <2>3. PICK m \in {Sent(f, s)} \cup Damaged(f, s) :
            /\ Decode(m) # None
            /\ \/ UNCHANGED <<vars, missed, long, late, newest>>
               \/ /\ FirstIndication(Decode(m).count)
                  /\ UNCHANGED <<missed, long, late, newest>>
               \/ /\ Decode(m).num = Num /\ ~mixed
                  /\ Indication(Decode(m).count, Fold(d))
                  /\ missed' = (missed + (d - Fold(d)) \div N) % H
                  /\ Lateness(d)
      BY <1>3 DEF Heard
    <2>4. CASE UNCHANGED <<vars, missed, long, late, newest>>
      BY <2>4 DEF vars, LatenessInv
    <2>5. CASE /\ FirstIndication(Decode(m).count)
               /\ UNCHANGED <<missed, long, late, newest>>
      BY <2>5 DEF FirstIndication, LatenessInv
    <2>6. CASE /\ Decode(m).num = Num /\ ~mixed
               /\ Indication(Decode(m).count, Fold(d))
               /\ missed' = (missed + (d - Fold(d)) \div N) % H
               /\ Lateness(d)
      <3>1. Followed /\ lastSlot \in Slots
        BY <2>6 DEF Indication, Followed, PathInv
      <3>2. Decode(m).count = f * S + s /\ s \in 0 .. S - 1
        BY <2>1, <2>3, <2>6, Decoded, Sizes
      <3>3. f * S + s \in Slots
        BY <3>2, CountInCycle
      <3>4. Decode(m).count = Wrap(lastSlot + Fold(d))
        BY <2>1, <3>1, <3>2, <3>3, RawRecovered
      <3> HIDE DEF d
      <3> QED BY <2>2, <2>6, <3>1, <3>4, IndicationIsLate
    <2> QED BY <2>3, <2>4, <2>5, <2>6
  <1> QED BY <1>1, <1>2, <1>3 DEF PathNext

(* Extended time and L1's are late apart, whole rounds of the HyperSFN      *)
(* taken off.                                                               *)
LEMMA LateApart ==
  ASSUME ExtenderInv, PathInv, ReckonInv, Led, LatenessInv, Followed, ~long
  PROVE  /\ L1Time \in Int /\ ExtTime \in 0 .. H * N - 1
         /\ late \in newest .. MaxLead /\ late \in 0 .. H * N - 1
         /\ \E k \in Int : ExtTime = L1Time + late + k * (H * N)
  <1> DEFINE A == cycles * N
             C == H * N
  <1>1. /\ lastSlot \in Int /\ A \in Int /\ since \in Int /\ time \in Int
        /\ C \in Nat \ {0} /\ N \in Nat \ {0} /\ H \in Nat \ {0}
    BY ReckonedOver
  <1>2. late = lead /\ newest = behind /\ missed = 0
    BY DEF LatenessInv
  <1>3. lead \in Nat /\ behind \in Nat /\ lead >= behind /\ lead <= MaxLead
    BY DEF ExtenderInv, TypeOK, NeverBehindNewest, Led
  <1>4. MaxLead \in Nat /\ MaxLead < C
    BY ExtenderAssumption, PathAssumption
  <1>5. 0 * N = 0
    BY <1>1, Z3
  <1>6. PICK k \in Int : time = A + lastSlot + since + 0 + k * C
    BY <1>2, <1>5 DEF ReckonInv, Reckoned
  <1>7. PICK j \in Int : ExtTime = A + lastSlot + lead + j * C
    BY DEF Led, Followed
  <1>8. ExtTime \in 0 .. C - 1
    <2>1. lastExt \in ExtSlots
      BY DEF ExtenderInv, TypeOK, Followed
    <2>2. lastExt.hyper \in 0 .. H - 1 /\ lastExt.slot \in 0 .. N - 1
      BY <2>1 DEF ExtSlots, Slots
    <2> DEFINE h == lastExt.hyper
    <2>3. h \in Int /\ h >= 0 /\ h + 1 <= H
      BY <1>1, <2>2
    <2>4. h * N >= 0 /\ (h + 1) * N <= H * N /\ (h + 1) * N = h * N + N /\ h * N \in Int
      BY <1>1, <2>3, Z3
    <2> QED BY <1>1, <2>2, <2>4 DEF ExtTime
  <1> HIDE DEF A, C
  <1> DEFINE z == j - k
  <1>9. z \in Int /\ z * C = j * C - k * C /\ j * C \in Int /\ k * C \in Int
    BY <1>1, Z3
  <1> HIDE DEF z
  <1>10. L1Time \in Int /\ L1Time = A + lastSlot + k * C
    BY <1>1, <1>6, <1>9 DEF L1Time
  <1>11. ExtTime = L1Time + late + z * C
    BY <1>1, <1>2, <1>3, <1>7, <1>9, <1>10
  <1>12. late \in newest .. MaxLead /\ late \in 0 .. C - 1
    BY <1>1, <1>2, <1>3, <1>4
  <1> QED BY <1>8, <1>9, <1>10, <1>11, <1>12 DEF C

(* Which settles where extended time is.                                    *)
LEMMA ApartSuffices ==
  ASSUME ExtenderInv, PathInv, ReckonInv, Led, LatenessInv
  PROVE  FollowsL1 /\ NeverBehindL1
  <1> SUFFICES ASSUME Followed, ~long
               PROVE  /\ ExtTime = (L1Time + late) % (H * N)
                      /\ (ExtTime - L1Time) % (H * N) \in newest .. MaxLead
    BY DEF FollowsL1, NeverBehindL1
  <1>1. /\ L1Time \in Int /\ ExtTime \in 0 .. H * N - 1
        /\ late \in newest .. MaxLead /\ late \in 0 .. H * N - 1
        /\ \E k \in Int : ExtTime = L1Time + late + k * (H * N)
    BY LateApart
  <1> DEFINE C == H * N
             E == ExtTime
             L == L1Time
  <1>2. C \in Nat \ {0}
    BY Ranges
  <1>3. PICK k \in Int : E = L + late + k * C
    BY <1>1
  <1>4. L \in Int /\ E \in 0 .. C - 1 /\ late \in 0 .. C - 1
    BY <1>1
  <1> HIDE DEF C, E, L
  <1>5. 0 - k \in Int /\ (0 - k) * C = 0 - k * C /\ k * C \in Int
    BY <1>2, Z3
  <1>6. L + late = E + (0 - k) * C /\ E - L = late + k * C
    BY <1>2, <1>3, <1>4, <1>5
  <1>7. (L + late) % C = E /\ (E - L) % C = late
    BY <1>2, <1>4, <1>5, <1>6, RemainderIsUnique
  <1> QED BY <1>1, <1>7 DEF C, E, L

(* The parts of the invariant hold on the path.                             *)
LEMMA PathInvariant == PathSpec => [](ExtenderInv /\ PathInv /\ ReckonInv /\ Led /\ LatenessInv)
  <1>1. PathInit => ReckonInv /\ LatenessInv /\ Led
    <2> SUFFICES ASSUME PathInit PROVE ReckonInv /\ LatenessInv /\ Led
      OBVIOUS
    <2>1. /\ lastSlot = NoSlot /\ lead = 0 /\ behind = 0 /\ time = 0 /\ missed = 0
          /\ long = FALSE /\ late = 0 /\ newest = 0
      BY DEF PathInit, Init
    <2>2. ReckonInv
      BY <2>1 DEF ReckonInv, Reckoned, Followed
    <2>3. LatenessInv
      BY <2>1 DEF LatenessInv
    <2>4. Led
      BY <2>1, ExtenderAssumption DEF Led
    <2> QED BY <2>2, <2>3, <2>4
  <1>2. PathSpec => []ExtenderInv
    BY PathImplementsExtender, ExtenderInvariant, PTL DEF ImplementsExtender
  <1>3. PathSpec => []PathInv
    BY PathBegins, PathStep, PTL DEF PathSpec
  <1>4. PathSpec => []ReckonInv
    BY <1>1, <1>2, <1>3, ReckonStep, PTL DEF PathSpec
  <1>5. ExtenderInv /\ PathInv /\ Led /\ [PathNext]_pathVars => Led'
    BY PathStep, LedStep
  <1>6. PathSpec => []Led
    BY <1>1, <1>2, <1>3, <1>5, PTL DEF PathSpec
  <1>7. PathSpec => []LatenessInv
    BY <1>1, <1>2, <1>3, LatenessStep, PTL DEF PathSpec
  <1> QED BY <1>2, <1>3, <1>4, <1>6, <1>7, PTL

(* Whatever is lost or damaged and however long L1 is silent, a stream that *)
(* never seems to go back is extended exactly, but for the whole cycles of  *)
(* its silences.                                                            *)
THEOREM SilenceCostsNoMore == PathSpec => []SilenceCostsWholeCycles
  <1>1. ExtenderInv /\ PathInv /\ ReckonInv => SilenceCostsWholeCycles
    BY ReckoningSuffices
  <1> QED BY <1>1, PathInvariant, PTL

(* Unless L1 is silent for half a cycle, extended time is L1's and what     *)
(* repeated and late messages lacked, in any cycle and HyperSFN range.      *)
THEOREM PathFollowsL1 == PathSpec => []FollowsL1
  <1>1. ExtenderInv /\ PathInv /\ ReckonInv /\ Led /\ LatenessInv => FollowsL1
    BY ApartSuffices
  <1> QED BY <1>1, PathInvariant, PTL

(* And it is never before the newest slot that L1 indicated.                *)
THEOREM PathNeverBehindL1 == PathSpec => []NeverBehindL1
  <1>1. ExtenderInv /\ PathInv /\ ReckonInv /\ Led /\ LatenessInv => NeverBehindL1
    BY ApartSuffices
  <1> QED BY <1>1, PathInvariant, PTL
--------------------------------------------------------------------------------
(* What PathTypeOK says of L1's progress and of time.                       *)
Measures ==
  /\ since \in -MaxSilence .. MaxSilence /\ time \in 0 .. H * N - 1 /\ missed \in 0 .. H - 1

(* They stay in range, whatever comes.                                      *)
LEMMA MeasuresStep ==
  ASSUME ExtenderInv, PathInv, Measures, NEW df \in -1 .. 1,
         NEW s \in 0 .. SlotsPerFrame(l1Num) - 1, NEW f \in 0 .. Frames - 1,
         Unheard(df, s, f) \/ Heard(df, s, f)
  PROVE  Measures'
  <1>1. /\ Moves(df, s, f) /\ s \in Nat
        /\ since + Progress(df, s) \in -MaxSilence .. MaxSilence
    BY DEF Unheard, Heard, Moves
  <1>2. Progress(df, s) \in Int
    BY <1>1, MoveShifts
  <1>3. (time + Progress(df, s)) % (H * N) \in 0 .. H * N - 1
    <2>1. time + Progress(df, s) \in Int /\ H * N \in Nat \ {0}
      BY <1>2, Ranges DEF Measures
    <2> QED BY <2>1, RemainderIsApart, Zenon
  <1>4. CASE Unheard(df, s, f)
    BY <1>1, <1>3, <1>4 DEF Unheard, Measures
  <1>5. CASE Heard(df, s, f)
    <2>1. since' = 0 /\ 0 \in -MaxSilence .. MaxSilence
      BY <1>5, PathAssumption DEF Heard
    <2>2. PICK m \in {Sent(f, s)} \cup Damaged(f, s) :
            /\ Decode(m) # None
            /\ \/ UNCHANGED <<time, missed>>
               \/ Decode(m).num = Num /\ time' = Decode(m).count /\ missed' = missed
               \/ /\ time' = (time + Progress(df, s)) % (H * N)
                  /\ \E e \in {((since + Progress(df, s)) - Fold(since + Progress(df, s))) \div N} :
                       missed' = (missed + e) % H
      BY <1>5 DEF Heard
    <2>3. CASE UNCHANGED <<time, missed>>
      BY <2>1, <2>3 DEF Measures
    <2>4. CASE Decode(m).num = Num /\ time' = Decode(m).count /\ missed' = missed
      <3>1. Decode(m).count = f * S + s /\ s \in 0 .. S - 1
        BY <1>1, <2>2, <2>4, Decoded, Sizes
      <3>2. Decode(m).count \in 0 .. N - 1
        BY <3>1, CountInCycle DEF Slots
      <3> QED BY <2>1, <2>4, <3>2, Ranges DEF Measures
    <2>5. CASE /\ time' = (time + Progress(df, s)) % (H * N)
               /\ \E e \in {((since + Progress(df, s)) - Fold(since + Progress(df, s))) \div N} :
                    missed' = (missed + e) % H
      <3>1. since + Progress(df, s) \in Int
        BY <1>2 DEF PathInv
      <3>2. ((since + Progress(df, s)) - Fold(since + Progress(df, s))) \div N \in Int
        BY <3>1, CyclesCounted
      <3>3. PICK e \in Int : missed' = (missed + e) % H
        BY <2>5, <3>2
      <3>4. missed' \in 0 .. H - 1
        BY <3>3, Ranges, RemainderIsApart DEF Measures
      <3> QED BY <1>3, <2>1, <2>5, <3>4 DEF Measures
    <2> QED BY <2>2, <2>3, <2>4, <2>5
  <1> QED BY <1>4, <1>5

(* The variables of the path keep to their ranges, whatever L1 sends.       *)
THEOREM PathTypeCorrect == PathSpec => []PathTypeOK
  <1>1. PathInit => Measures
    BY Ranges, PathAssumption DEF PathInit, Measures
  <1>2. ExtenderInv /\ PathInv /\ Measures /\ [PathNext]_pathVars => Measures'
    <2> SUFFICES ASSUME ExtenderInv, PathInv, Measures, [PathNext]_pathVars PROVE Measures'
      OBVIOUS
    <2>1. CASE UNCHANGED pathVars
      BY <2>1 DEF pathVars, l1vars, Measures
    <2>2. CASE PathNext
      BY <2>2, MeasuresStep DEF PathNext
    <2> QED BY <2>1, <2>2
  <1>3. ExtenderInv /\ PathInv /\ Led /\ LatenessInv /\ Measures => PathTypeOK
    <2> SUFFICES ASSUME ExtenderInv, PathInv, Led, LatenessInv, Measures PROVE PathTypeOK
      OBVIOUS
    <2>1. TypeOK /\ lead \in 0 .. MaxLead /\ behind \in 0 .. MaxLead /\ 0 \in 0 .. MaxLead
      BY ExtenderAssumption DEF ExtenderInv, TypeOK, Led
    <2>2. long \in BOOLEAN /\ late \in 0 .. MaxLead /\ newest \in 0 .. MaxLead
      BY <2>1 DEF LatenessInv
    <2> QED BY <2>1, <2>2 DEF PathInv, Measures, PathTypeOK
  <1>4. PathSpec => []Measures
    BY <1>1, <1>2, PathInvariant, PTL DEF PathSpec
  <1> QED BY <1>3, <1>4, PathInvariant, PTL
================================================================================
