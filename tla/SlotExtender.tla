------------------------------ MODULE SlotExtender ------------------------------
(***************************************************************************)
(* slot_point_extender_adaptor: turns the slots of one SLOT.indication     *)
(* stream, which repeat every SFN cycle, into slots extended by a HyperSFN *)
(* counter, from nothing but the differences of consecutive indications.   *)
(*                                                                         *)
(* slot_point and slot_point_extended belong to OCUDU (external): the      *)
(* difference of two slots is the shortest signed distance round the       *)
(* cycle, and an extended slot is a HyperSFN and a slot in the cycle.      *)
(*                                                                         *)
(* What L1 does between two indications is its progress d: one slot        *)
(* normally, more when indications are lost, none when one is repeated,    *)
(* fewer when one is late.  From half a cycle on, progress and lateness    *)
(* look the same; SlotPath has the outages that are longer than that, and  *)
(* its d is what the progress looks like.                                  *)
(***************************************************************************)
EXTENDS Integers

CONSTANTS N,        \* slots per SFN cycle: 1024 * 10 * 2^numerology in OCUDU
          H,        \* HyperSFN values: 1024 in OCUDU
          MaxStep,  \* largest distance, either way, between two indications
          MaxLead,  \* bound on the lead the regressing indications build up
          NoSlot    \* an empty optional

ASSUME ExtenderAssumption ==
  /\ N \in Nat \ {0} /\ H \in Nat \ {0} /\ MaxLead \in Nat
  /\ MaxStep \in Nat \ {0} /\ 2 * MaxStep <= N
  /\ NoSlot \notin 0..(N - 1) /\ NoSlot \notin [hyper : 0..(H - 1), slot : 0..(N - 1)]

VARIABLES
  lastSlot,   \* last_slot
  lastExt,    \* last_extended_slot
  cycles,     \* SFN cycles completed, by the d's, since the first indication, modulo H
  lead,       \* how many slots the extended slot is ahead of the received one
  behind,     \* how many slots the received one is behind the newest received
  regressed   \* some indication did not move forward

vars == <<lastSlot, lastExt, cycles, lead, behind, regressed>>

Steps    == {d \in -MaxStep..MaxStep : 2 * d < N}
Slots    == 0..(N - 1)
ExtSlots == [hyper : 0..(H - 1), slot : Slots]

(* A slot x, at most one cycle out of range, back in the cycle; and the    *)
(* number of cycle boundaries passed on the way.                           *)
Wrap(x)  == IF x >= N THEN x - N ELSE IF x < 0 THEN x + N ELSE x
Turns(x) == IF x >= N THEN 1 ELSE IF x < 0 THEN -1 ELSE 0
Spin(h, t) == IF h + t >= H THEN h + t - H ELSE IF h + t < 0 THEN h + t + H ELSE h + t

(* slot_point::operator- and slot_point_extended::operator+ (external).    *)
SlotDiff(a, b) ==
  IF 2 * (a - b) >= N THEN a - b - N ELSE IF 2 * (a - b) < -N THEN a - b + N ELSE a - b

ExtPlus(e, d) == [hyper |-> Spin(e.hyper, Turns(e.slot + d)), slot |-> Wrap(e.slot + d)]

Init ==
  /\ lastSlot = NoSlot /\ lastExt = NoSlot
  /\ cycles = 0 /\ lead = 0 /\ behind = 0 /\ regressed = FALSE

(* The first indication anchors the extended slot in HyperSFN 0.           *)
FirstIndication(raw) ==
  /\ lastSlot = NoSlot
  /\ lastSlot' = raw
  /\ lastExt' = [hyper |-> 0, slot |-> raw]
  /\ UNCHANGED <<cycles, lead, behind, regressed>>

(* Deviations: no clamp; last_slot is overwritten before the difference is *)
(* taken, which leaves the clamp as the only advance.                      *)
Advance_Unclamped(raw)   == SlotDiff(raw, lastSlot)
Advance_AfterUpdate(raw) == LET delta == SlotDiff(raw, raw) IN IF delta <= 0 THEN 1 ELSE delta

(* How far the extended slot moves for the received slot raw.              *)
Advance(raw) == LET delta == SlotDiff(raw, lastSlot) IN IF delta <= 0 THEN 1 ELSE delta

(* on_slot_indication for the slot raw, L1's progress being d.             *)
Indication(raw, d) ==
  /\ lastSlot # NoSlot
  /\ LET adv == Advance(raw)
     IN  /\ lead + adv - d <= MaxLead
         /\ lastSlot' = raw
         /\ lastExt' = ExtPlus(lastExt, adv)
         /\ cycles' = Spin(cycles, Turns(lastSlot + d))
         /\ lead' = lead + adv - d
  /\ behind' = IF d >= behind THEN 0 ELSE behind - d
  /\ behind' <= MaxLead
  /\ regressed' = (regressed \/ d <= 0)

Next ==
  \/ \E raw \in Slots : FirstIndication(raw)
  \/ \E d \in Steps : Indication(Wrap(lastSlot + d), d)

Spec == Init /\ [][Next]_vars

--------------------------------------------------------------------------------
(* The variables have the values their declarations allow; there is a last *)
(* slot exactly if there is a last extended slot.                          *)
TypeOK ==
  /\ lastSlot \in Slots \cup {NoSlot} /\ lastExt \in ExtSlots \cup {NoSlot}
  /\ (lastSlot = NoSlot) <=> (lastExt = NoSlot)
  /\ cycles \in 0..(H - 1) /\ regressed \in BOOLEAN
  /\ lead \in Nat /\ behind \in Nat

(* While every indication moves forward, also across lost ones and across  *)
(* the SFN boundary, the extended slot is the received slot, in the        *)
(* HyperSFN that counts the boundaries the progress passed.                *)
FollowsForwardStream ==
  lastSlot # NoSlot /\ ~regressed => lastExt = [hyper |-> cycles, slot |-> lastSlot]

(* After a late indication the extended slot is still at or after the      *)
(* newest one received, by the progress.                                   *)
NeverBehindNewest == lead >= behind

(* An indication moves extended time forward, by no more than L1 moved or  *)
(* by one slot: it never stalls, and no HyperSFN is skipped.               *)
AlwaysForward ==
  [][lastExt # NoSlot => \E k \in 1..MaxStep : lastExt' = ExtPlus(lastExt, k)]_vars

(* The price of the clamp: what a repeated or late indication adds to the  *)
(* lead is never taken back, so extended time does not return to L1's.     *)
LeadIsPermanent == [][lead' >= lead]_vars
================================================================================
