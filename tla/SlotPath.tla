-------------------------------- MODULE SlotPath --------------------------------
(***************************************************************************)
(* The way of L1's slot to OCUDU: dispatch_message takes a                 *)
(* SLOT.indication, deserialize_slot_indication makes a slot_point of its  *)
(* SFN and slot number, the extender turns that into extended time.        *)
(*                                                                         *)
(* The message does not say which numerology L1 runs: the decoder takes    *)
(* OCUDU's unless the slot number is too large for it.  L1 may run another *)
(* one, its messages may be lost, damaged, repeated or late, and it may    *)
(* be silent for any time, whole SFN cycles included.  The difference of   *)
(* slot_points of two numerologies is OCUDU's business: from the first     *)
(* one in another numerology on, the extender is not followed (`mixed'),   *)
(* and nothing is said of it here.                                         *)
(*                                                                         *)
(* The extender's own cycles, lead and behind are what the positions in    *)
(* the cycle show; after a long silence that is not what L1 did.  What L1  *)
(* did is time, late and newest.                                           *)
(***************************************************************************)
EXTENDS SlotExtender, FiniteSets

CONSTANTS
  Frames,      \* SFNs: 1024
  Base,        \* slots per frame in numerology 0: 10
  MaxNum,      \* the last numerology tried: 4
  Num,         \* cfg_.numerology, OCUDU's
  L1Nums,      \* numerologies L1 may run
  MaxMove,     \* bound on the slots, either way, from one message to the next
  MaxSilence,  \* bound on the slots since the last message that was heard
  None         \* no slot_point: the message was rejected

SlotsPerFrame(n) == Base * 2^n
S == SlotsPerFrame(Num)

ASSUME PathAssumption ==
  /\ Frames \in Nat \ {0} /\ Base \in Nat \ {0} /\ MaxNum \in Nat /\ Num \in 0 .. MaxNum
  /\ L1Nums \subseteq 0 .. MaxNum /\ MaxMove \in Nat /\ MaxSilence \in Nat
  /\ N = Frames * S /\ N <= 2 * MaxStep + 1 /\ MaxLead < H * N

(* Powers of two are positive and grow; the provers know no powers.        *)
ASSUME PowersAssumption ==
  \A n \in 0 .. MaxNum : /\ SlotsPerFrame(n) \in Nat \ {0}
                         /\ \A m \in 0 .. n : SlotsPerFrame(m) <= SlotsPerFrame(n)

VARIABLES
  l1Num,   \* L1's numerology
  sfn,     \* where L1 is
  slot,
  since,   \* its progress since the last message the extender has heard
  time,    \* where it is in extended time, if the first message was in HyperSFN 0
  missed,  \* SFN cycles, modulo H, lost in silences
  long,    \* two messages that were heard were half a cycle or more apart
  late,    \* slots that repeated or late messages lacked of moving by one; 0 if long
  newest,  \* how far the newest slot heard is past the last one heard; 0 if long
  mixed    \* slot_points of another numerology than OCUDU's have come

l1vars   == <<l1Num, sfn, slot, since, time, missed, long, late, newest, mixed>>
pathVars == <<vars, l1vars>>

(* What L1 writes, and what may come of it: a message too short, an SFN or *)
(* a slot number out of every range.                                       *)
Sent(f, s)    == [len |-> 12, sfn |-> f, slot |-> s]
Damaged(f, s) == {[len |-> 11, sfn |-> f, slot |-> s],
                  [len |-> 12, sfn |-> Frames, slot |-> s],
                  [len |-> 12, sfn |-> f, slot |-> SlotsPerFrame(MaxNum)]}

(* Deviation: the search starts at numerology 0.                           *)
Inferred_FromZero(s) == Cardinality({n \in 0 .. MaxNum - 1 : s >= SlotsPerFrame(n)})

(* The numerology the slot number s is taken to be in: one more for each   *)
(* whose slots it exceeds.                                                 *)
Inferred(s) == Num + Cardinality({n \in Num .. MaxNum - 1 : s >= SlotsPerFrame(n)})

(* Deviation: the SFN is not checked.                                      *)
Decode_AnySfn(m) ==
  IF m.len < 12 \/ m.slot >= SlotsPerFrame(MaxNum)
    THEN None
    ELSE [num |-> Inferred(m.slot), count |-> m.sfn * SlotsPerFrame(Inferred(m.slot)) + m.slot]

(* deserialize_slot_indication: a slot_point, or none.                     *)
Decode(m) ==
  IF m.len < 12 \/ m.sfn >= Frames \/ m.slot >= SlotsPerFrame(MaxNum)
    THEN None
    ELSE [num |-> Inferred(m.slot), count |-> m.sfn * SlotsPerFrame(Inferred(m.slot)) + m.slot]

PathInit ==
  /\ Init
  /\ l1Num \in L1Nums /\ sfn \in 0 .. Frames - 1 /\ slot \in 0 .. SlotsPerFrame(l1Num) - 1
  /\ since = 0 /\ time = 0 /\ missed = 0 /\ mixed = FALSE
  /\ long = FALSE /\ late = 0 /\ newest = 0

(* L1 goes on (or back) to slot s, df frames further, and to frame f that  *)
(* way.  Progress is counted in OCUDU's slots.                             *)
Progress(df, s) == df * S + s - slot

Moves(df, s, f) ==
  /\ f = sfn + df \/ f = sfn + df - Frames \/ f = sfn + df + Frames
  /\ sfn' = f /\ slot' = s
  /\ Progress(df, s) \in -MaxMove .. MaxMove
  /\ since + Progress(df, s) \in -MaxSilence .. MaxSilence
  /\ UNCHANGED l1Num

(* There is a message that progress is counted from.                       *)
Followed == lastSlot # NoSlot /\ ~mixed

(* Nothing reaches the extender: the message is lost, or one the decoder   *)
(* rejects.                                                                *)
Unheard(df, s, f) ==
  /\ Moves(df, s, f)
  /\ \E m \in Damaged(f, s) : Decode(m) = None
  /\ IF Followed
       THEN /\ since' = since + Progress(df, s)
            /\ time' = (time + Progress(df, s)) % (H * N)
       ELSE UNCHANGED <<since, time>>
  /\ UNCHANGED <<vars, missed, long, late, newest, mixed>>

(* A progress of x slots, as the positions in the cycle show it.           *)
Fold(x) == IF 2 * (x % N) >= N THEN (x % N) - N ELSE x % N

(* What a message d slots after the last one means for extended time.      *)
Lateness(d) ==
  /\ long' = (long \/ d \notin Steps)
  /\ late' = IF long' THEN 0 ELSE IF d <= 0 THEN late + 1 - d ELSE late
  /\ newest' = IF long' \/ d >= newest THEN 0 ELSE newest - d

(* The message is decoded and handed to the extender, whose own history    *)
(* takes the progress for what it looks like.                              *)
Heard(df, s, f) ==
  /\ Moves(df, s, f)
  /\ \E m \in {Sent(f, s)} \cup Damaged(f, s) :
       /\ Decode(m) # None
       /\ since' = 0
       /\ LET p == Decode(m)
              d == since + Progress(df, s)
          IN  \/ /\ p.num # Num \/ mixed
                 /\ mixed' = TRUE
                 /\ UNCHANGED <<vars, time, missed, long, late, newest>>
              \/ /\ p.num = Num /\ ~mixed
                 /\ FirstIndication(p.count)
                 /\ time' = p.count
                 /\ UNCHANGED <<missed, long, late, newest, mixed>>
              \/ /\ p.num = Num /\ ~mixed
                 /\ Indication(p.count, Fold(d))
                 /\ time' = (time + Progress(df, s)) % (H * N)
                 /\ missed' = (missed + (d - Fold(d)) \div N) % H
                 /\ Lateness(d)
                 /\ UNCHANGED mixed

PathNext ==
  \E df \in -1 .. 1, s \in 0 .. SlotsPerFrame(l1Num) - 1, f \in 0 .. Frames - 1 :
    Unheard(df, s, f) \/ Heard(df, s, f)

PathSpec == PathInit /\ [][PathNext]_pathVars
--------------------------------------------------------------------------------
(* The variables of the path and of the extender have the values their     *)
(* declarations allow, whatever L1 sent.                                   *)
PathTypeOK ==
  /\ TypeOK
  /\ l1Num \in L1Nums /\ sfn \in 0 .. Frames - 1 /\ slot \in 0 .. SlotsPerFrame(l1Num) - 1
  /\ since \in -MaxSilence .. MaxSilence /\ time \in 0 .. H * N - 1
  /\ missed \in 0 .. H - 1 /\ long \in BOOLEAN /\ mixed \in BOOLEAN
  /\ late \in 0 .. MaxLead /\ newest \in 0 .. MaxLead

(* Only a faster L1, and never a damaged message, makes the decoder mix    *)
(* two numerologies in one stream.  A slower L1 is decoded in OCUDU's      *)
(* numerology throughout, which is not its own.                            *)
MixedOnlyWithFasterL1 == mixed => l1Num > Num

(* The extender's stream is what SlotExtender assumes of it: positions in  *)
(* OCUDU's cycle that are the progress since the last one apart, or look   *)
(* so, whatever was lost or rejected in between.                           *)
ImplementsExtender == Spec

(* Where extended time is, counted in slots, and where L1 was when it sent *)
(* the last message that was heard.                                        *)
ExtTime  == lastExt.hyper * N + lastExt.slot
L1Time   == time - since

(* Unless L1 was silent for half a cycle, extended time is L1's: exactly,  *)
(* across losses, damage, the SFN boundary and the HyperSFN's, as long as  *)
(* every message moves forward, and ahead of it by all that repeated and   *)
(* late ones lacked: that is never taken back.                             *)
FollowsL1 == Followed /\ ~long => ExtTime = (L1Time + late) % (H * N)

(* Nor is OCUDU then told a slot before one that L1 has indicated: after a *)
(* late message extended time is still at or after the newest slot heard.  *)
NeverBehindL1 ==
  Followed /\ ~long => (ExtTime - L1Time) % (H * N) \in newest .. MaxLead

(* Losses and rejected messages cost nothing; a silence of half a cycle or *)
(* more costs whole cycles and nothing else: as long as no message seemed  *)
(* to repeat or go back, extended time was L1's, short by these cycles,    *)
(* when the last message came.                                             *)
SilenceCostsWholeCycles ==
  Followed /\ ~regressed =>
    ExtTime = (L1Time - missed * N) % (H * N)
================================================================================
