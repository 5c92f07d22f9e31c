--------------------------- MODULE IndicationDecode ----------------------------
(***************************************************************************)
(* The loops of dispatch_crc_, dispatch_rx_data_, dispatch_rach_ and       *)
(* dispatch_srs_indication.  A message is a list of PDUs, a PDU a header   *)
(* of fixed size and a list of items of variable size: the code block CRCs *)
(* and end info of a CRC PDU, the preambles of a RACH PDU, the symbol      *)
(* reports of an SRS PDU, and for RX_DATA the transport block, which is in *)
(* the message's data buffer.  Nothing but the cursor p tells where the    *)
(* next PDU starts, and nothing but data_offset where the next block does; *)
(* the message and the data buffer may each be cut off anywhere.           *)
(***************************************************************************)
EXTENDS Integers, Sequences, SequencesExt

CONSTANTS MaxPdus,  \* bound on the PDUs of a message
          MaxItems, \* bound on the items of a PDU
          Sizes,    \* variable parts of an item, in bytes
          NoTb      \* no data buffer, and the empty span: no transport block

ASSUME IndicationAssumption ==
  MaxPdus \in Nat \ {0} /\ MaxItems \in Nat \ {0} /\ Sizes \subseteq Nat /\ NoTb \notin Nat

HeaderLen == [CRC |-> 10, RX_DATA |-> 16, RACH |-> 8, SRS |-> 11]
Kinds == DOMAIN HeaderLen

(* What L1 writes: the bytes an item takes in the message.                 *)
ItemBytes(k, n) ==
  CASE k = "CRC" -> n + 5 [] k = "RACH" -> 7 [] k = "SRS" -> n + 2 [] k = "RX_DATA" -> 0

(* A CRC PDU has one list of code blocks, an RX_DATA PDU one block.        *)
Pdus(k) == IF k \in {"CRC", "RX_DATA"} THEN {<<n>> : n \in Sizes}
           ELSE IF k = "RACH" THEN {[j \in 1 .. i |-> 0] : i \in 0 .. MaxItems}
           ELSE BoundedSeq(Sizes, MaxItems)

(* The sum of the first n numbers of s, for every n.                       *)
Sums(s) == LET upto[n \in 0 .. Len(s)] == IF n = 0 THEN 0 ELSE upto[n - 1] + s[n] IN upto

ItemsEnd(k, u) == Sums([j \in DOMAIN u |-> ItemBytes(k, u[j])])
PduBytes(k, u) == HeaderLen[k] + ItemsEnd(k, u)[Len(u)]
Start(k, m, i) == Sums([j \in DOMAIN m |-> PduBytes(k, m[j])])[i - 1]

(* Where L1 puts the block of RX_DATA PDU i in the data buffer.            *)
Block(m, i) == Sums([j \in DOMAIN m |-> m[j][1]])[i - 1]

VARIABLES
  kind, msg,  \* the message L1 wrote
  len,        \* its bytes that are there, after the fixed part
  data,       \* bytes of its data buffer (data_len), NoTb if data_buf is null
  i, p,       \* loop index (from 1) and cursor
  data_offset,
  given,      \* what the notifier got so far
  done        \* the decoder has returned

inputs == <<kind, msg, len, data>>
vars == <<kind, msg, len, data, i, p, data_offset, given, done>>

Init ==
  /\ kind \in Kinds
  /\ msg \in BoundedSeq(Pdus(kind), MaxPdus)
  /\ len \in 0 .. Start(kind, msg, Len(msg) + 1)
  /\ data \in IF kind = "RX_DATA" THEN {NoTb} \cup 0 .. Block(msg, Len(msg) + 1) ELSE {NoTb}
  /\ i = 1 /\ p = 0 /\ data_offset = 0 /\ given = <<>> /\ done = FALSE

(* One turn of the loop over the items: items complete so far, the cursor, *)
(* and whether it is still going.                                          *)
Item(k, w, n) ==
  LET left == len - w.q
  IN  IF ~w.on THEN w
      ELSE IF ItemBytes(k, n) <= left
             THEN [items |-> w.items + 1, q |-> w.q + ItemBytes(k, n), on |-> TRUE]
      ELSE [items |-> w.items, on |-> FALSE,
            q |-> CASE k = "CRC" -> w.q + n [] k = "SRS" -> len [] OTHER -> w.q]

AtHeaderEnd(q) == [items |-> 0, q |-> q, on |-> TRUE]

(* Deviations: the code block CRCs, or the SNRs of a symbol report, are not*)
(* skipped; the preambles are counted from 1.                              *)
Walk_KeepsBytes(k, u, q) ==
  LET at[n \in 0 .. Len(u)] == IF n = 0 THEN AtHeaderEnd(q) ELSE Item(k, at[n - 1], 0)
  IN  at[Len(u)]

Walk_FromOne(k, u, q) ==
  LET at[n \in 0 .. Len(u)] == IF n = 0 \/ (n = 1 /\ k = "RACH") THEN AtHeaderEnd(q)
                               ELSE Item(k, at[n - 1], u[n])
  IN  at[Len(u)]

(* How far the loop over the items of u gets from q.                       *)
Walk(k, u, q) ==
  LET at[n \in 0 .. Len(u)] == IF n = 0 THEN AtHeaderEnd(q) ELSE Item(k, at[n - 1], u[n])
  IN  at[Len(u)]

(* Deviation: the end of the data buffer is not looked at.                 *)
HasTb_Unchecked(n) == data # NoTb

(* There are n bytes of transport block at data_offset.                    *)
HasTb(n) == data # NoTb /\ data_offset + n <= data

(* Deviation: data_offset stays where it was.                              *)
NextOffset_Stays(n) == data_offset

NextOffset(n) == IF HasTb(n) THEN data_offset + n ELSE data_offset

(* One turn of the loop: the header is complete, the notifier is called    *)
(* with what there is of the PDU.                                          *)
Dispatch ==
  /\ ~done /\ i <= Len(msg) /\ p + HeaderLen[kind] <= len
  /\ LET u == msg[i]
         w == Walk(kind, u, p + HeaderLen[kind])
     IN  /\ p' = w.q
         /\ given' = Append(given, [pdu |-> i, at |-> p, items |-> w.items,
                                    tb |-> IF kind = "RX_DATA" /\ HasTb(u[1])
                                             THEN data_offset ELSE NoTb])
         /\ data_offset' = IF kind = "RX_DATA" THEN NextOffset(u[1]) ELSE data_offset
  /\ i' = i + 1
  /\ UNCHANGED <<inputs, done>>

(* The loop is over, or its "break": no complete header is left.           *)
Finish ==
  /\ ~done /\ (i > Len(msg) \/ p + HeaderLen[kind] > len)
  /\ done' = TRUE
  /\ UNCHANGED <<inputs, i, p, data_offset, given>>

Next == Dispatch \/ Finish

Spec == Init /\ [][Next]_vars

--------------------------------------------------------------------------------
(* A PDU is decoded from the bytes L1 wrote for it, never from those of    *)
(* another PDU, and never from beyond the end of the message.              *)
ReadInPlace ==
  \A n \in DOMAIN given : /\ given[n].at = Start(kind, msg, given[n].pdu)
                          /\ given[n].at + HeaderLen[kind] <= len

(* A message that is cut off costs OCUDU only what is missing: every PDU   *)
(* that is there in full is delivered with all its items, and only the one *)
(* at the cut may be delivered with fewer.                                 *)
End(n) == Start(kind, msg, n + 1)
NothingWholeIsLost ==
  done => \A n \in DOMAIN msg :
            /\ End(n) <= len => n <= Len(given) /\ given[n].items = Len(msg[n])
            /\ Start(kind, msg, n) + HeaderLen[kind] > len => n > Len(given)

(* RX_DATA: the transport block handed over with a PDU is the one L1 put   *)
(* into the data buffer for it, and it is handed over if it is there.      *)
(* (Behind a block that is cut off a shorter one gets the bytes that are   *)
(* left of it.)                                                            *)
BlockOfItsOwnPdu ==
  \A n \in DOMAIN given :
    /\ data = NoTb => given[n].tb = NoTb
    /\ data # NoTb /\ Block(msg, n + 1) <= data => given[n].tb = Block(msg, n)

(* RX_DATA: whatever was cut off, what is handed over lies in the data     *)
(* buffer, and no two UEs get the same byte.                               *)
BlocksInsideData ==
  \A n \in DOMAIN given : given[n].tb # NoTb =>
    /\ given[n].tb + msg[n][1] <= data
    /\ \A b \in 1 .. n - 1 : given[b].tb # NoTb => given[b].tb + msg[b][1] <= given[n].tb
================================================================================
