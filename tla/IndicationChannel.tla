--------------------------- MODULE IndicationChannel ---------------------------
(***************************************************************************)
(* What the uplink path promises to OCUDU and to L1, with no thread, no    *)
(* semaphore and no lifecycle in sight: L1's messages form one queue; the  *)
(* oldest one is either shown to a notifier once or passed over, and only  *)
(* then retired; a buffer is not filled again before its message retired.  *)
(* The last clause is what makes the zero-copy spans handed to a notifier  *)
(* (msg_translator.h:284) safe to read during the call.                    *)
(***************************************************************************)
EXTENDS Naturals, Sequences

CONSTANT Msg  \* messages; m.buf is the nvIPC buffer message m occupies

VARIABLES pending,  \* messages L1 has queued and the bridge not retired, oldest first
          phase     \* what has happened to the oldest one

chanVars == <<pending, phase>>

Phases == {"untouched", "shown", "settled"}

ChanInit == pending = <<>> /\ phase = "untouched"

(* L1 queues a message in a buffer no pending message occupies. *)
Submit ==
  /\ \E m \in Msg :
       /\ \A i \in 1..Len(pending) : pending[i].buf # m.buf
       /\ pending' = Append(pending, m)
  /\ UNCHANGED phase

(* The oldest message is shown to its notifier, for the length of one call. *)
Show == pending # <<>> /\ phase = "untouched" /\ phase' = "shown" /\ UNCHANGED pending

(* The notifier returns, or the message is passed over without a call. *)
Settle ==
  /\ pending # <<>>
  /\ phase \in {"untouched", "shown"}
  /\ phase' = "settled"
  /\ UNCHANGED pending

Retire ==
  /\ pending # <<>>
  /\ phase = "settled"
  /\ pending' = Tail(pending)
  /\ phase' = "untouched"

ChanNext == Submit \/ Show \/ Settle \/ Retire

ChanSpec == ChanInit /\ [][ChanNext]_chanVars
================================================================================
