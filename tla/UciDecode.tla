------------------------------- MODULE UciDecode -------------------------------
(***************************************************************************)
(* dispatch_uci_indication: the PDUs of one UCI.indication and the optional*)
(* sections inside each.  A PDU states its own size and a bitmap of the    *)
(* sections L1 laid out one after the other; a section has a header and as *)
(* many payload bytes as the header says.  The cursor q walks over the     *)
(* sections of a PDU, p over the PDUs.                                     *)
(*                                                                         *)
(* L1's content is chosen PDU by PDU when the loop reaches it: any type,   *)
(* any sections, any stated size.  The size of a PDU may leave less room   *)
(* than its sections claim, and the message may end before its last PDU.   *)
(***************************************************************************)
EXTENDS Integers, Sequences

CONSTANTS
  MaxPdus,    \* num_ucis of the message (uint16_t in the code)
  Rooms,      \* how many bytes may follow the message's fixed part
  Payloads,   \* payload sizes, in bytes, a section header may state
  MaxPayload, \* the largest payload OCUDU's indication can hold
  Missing,    \* how many bytes a PDU may be too small for its sections
  NoPdu       \* no PDU is being decoded

ASSUME UciAssumption ==
  /\ MaxPdus \in Nat /\ MaxPayload \in Nat
  /\ Rooms \subseteq Nat /\ Payloads \subseteq Nat /\ Missing \subseteq Nat

(* Sizes of scf_uci_pdu, of the parts every PDU of a type has, and of the  *)
(* section headers (packed structs).                                       *)
PduHeader == 4
Common    == [PUSCH |-> 12, PUCCH01 |-> 13, PUCCH234 |-> 13]
HeaderLen == [SR01 |-> 2, HARQ01 |-> 2, SR |-> 2, HARQ |-> 3, CSI1 |-> 3, CSI2 |-> 3]

(* The order in which the code looks for the sections of each type.        *)
Order == [PUSCH    |-> <<"HARQ", "CSI1", "CSI2">>,
          PUCCH01  |-> <<"SR01", "HARQ01">>,
          PUCCH234 |-> <<"SR", "HARQ", "CSI1", "CSI2">>]

Types == DOMAIN Common
SectionsOf(t) == {Order[t][i] : i \in DOMAIN Order[t]}

(* u.payload maps the announced sections to their payload bytes; the       *)
(* sections before the i-th (of at most four) take Upto(u, i) bytes, the   *)
(* type's own part included.                                               *)
Bytes(u, k)    == IF k \in DOMAIN u.payload THEN HeaderLen[k] + u.payload[k] ELSE 0
Part(u, i, j)  == IF j < i /\ j <= Len(Order[u.type]) THEN Bytes(u, Order[u.type][j]) ELSE 0
Upto(u, i)     == Common[u.type] + Part(u, i, 1) + Part(u, i, 2) + Part(u, i, 3) + Part(u, i, 4)
Content(u)     == Upto(u, Len(Order[u.type]) + 1)

(* The SR of formats 0 and 1 has nothing behind its two bytes.             *)
PayloadsOf(k) == IF k = "SR01" THEN {0} ELSE Payloads

(* A PDU of type t as L1 may write it; size is what follows scf_uci_pdu    *)
(* according to pdu_size, and so is negative if that is below the header.  *)
Pdus(t) ==
  UNION {{[type |-> t, payload |-> pay, size |-> 0] :
            pay \in {f \in [s -> Payloads \cup {0}] : \A k \in s : f[k] \in PayloadsOf(k)}} :
           s \in SUBSET SectionsOf(t)}
Sized(u, cut) == [u EXCEPT !.size = Content(u) - cut]

VARIABLES
  left,     \* PDUs of num_ucis not looked at yet
  room,     \* bytes between p and the end of the message
  pdu,      \* the PDU being decoded
  step,     \* which section of Order is next
  q,        \* the cursor, from the end of scf_uci_pdu
  decoded   \* sections put into the indication so far

vars == <<left, room, pdu, step, q, decoded>>

Init ==
  /\ left = MaxPdus /\ room \in Rooms /\ pdu = NoPdu
  /\ step = 1 /\ q = 0 /\ decoded = {}

NextPdu == pdu = NoPdu /\ left > 0

(* The PDU and its header are inside the message.                          *)
Fits(u) == u.size >= 0 /\ PduHeader + u.size <= room

(* Deviation: a PDU is not checked for its common part.                    *)
Open_AnySize(u) ==
  /\ NextPdu /\ Fits(u)
  /\ pdu' = u /\ step' = 1 /\ q' = Common[u.type] /\ decoded' = {}
  /\ UNCHANGED <<left, room>>

(* A PDU whose common part is complete; q moves behind it.                 *)
Open(u) ==
  /\ NextPdu /\ Fits(u) /\ u.size >= Common[u.type]
  /\ pdu' = u /\ step' = 1 /\ q' = Common[u.type] /\ decoded' = {}
  /\ UNCHANGED <<left, room>>

(* A PDU too short for its common part, or (u of no known type) any PDU:   *)
(* p = p_end, nothing is delivered.                                        *)
Skip(u, known) ==
  /\ NextPdu /\ Fits(u) /\ (known => u.size < Common[u.type])
  /\ left' = left - 1 /\ room' = room - PduHeader - u.size
  /\ UNCHANGED <<pdu, step, q, decoded>>

(* The message ends inside the PDU, or pdu_size is below its own header:   *)
(* the rest of the message is given up.                                    *)
Break(u) ==
  /\ NextPdu /\ ~Fits(u)
  /\ left' = 0
  /\ UNCHANGED <<room, pdu, step, q, decoded>>

--------------------------------------------------------------------------------
Looking    == pdu # NoPdu /\ step <= Len(Order[pdu.type])
Kind       == Order[pdu.type][step]
HeaderRead == Kind \in DOMAIN pdu.payload /\ q + HeaderLen[Kind] <= pdu.size
Complete   == q + Bytes(pdu, Kind) <= pdu.size
Holdable   == pdu.payload[Kind] <= MaxPayload

Goes(taken, to) ==
  /\ Looking
  /\ decoded' = IF taken THEN decoded \cup {Kind} ELSE decoded
  /\ q' = IF to THEN q + Bytes(pdu, Kind) ELSE q
  /\ step' = step + 1
  /\ UNCHANGED <<left, room, pdu>>

(* Deviations: a section that is not taken over is not stepped over; its   *)
(* completeness is not checked.                                            *)
Section_Stays      == LET taken == HeaderRead /\ Complete /\ Holdable IN Goes(taken, taken)
Section_Incomplete == Goes(HeaderRead /\ Holdable, HeaderRead)

(* One "if" of a case: a section that is announced and whose header fits   *)
(* is taken over if it is complete and OCUDU can hold it, and stepped over *)
(* in any case; nothing reads q behind CSI part 2, which leaves it alone.  *)
Section == Goes(HeaderRead /\ Complete /\ Holdable, HeaderRead /\ Kind # "CSI2")

(* on_uci_indication, then p = p_end.                                      *)
Deliver ==
  /\ pdu # NoPdu /\ ~Looking
  /\ pdu' = NoPdu /\ left' = left - 1 /\ room' = room - PduHeader - pdu.size
  /\ decoded' = {} /\ step' = 1 /\ q' = 0

Next ==
  \/ \E t \in Types : \E v \in Pdus(t), cut \in Missing :
       LET u == Sized(v, cut)
       IN  Open(u) \/ Skip(u, TRUE) \/ Skip(u, FALSE) \/ Break(u)
  \/ Section
  \/ Deliver

Spec == Init /\ [][Next]_vars

--------------------------------------------------------------------------------
(* Types; in particular a PDU that is decoded has its common part and lies *)
(* inside the message.                                                     *)
TypeOK ==
  /\ left \in 0 .. MaxPdus /\ room \in Nat /\ step \in 1 .. 5 /\ q \in Nat
  /\ decoded \subseteq DOMAIN HeaderLen
  /\ pdu # NoPdu => /\ pdu.type \in Types /\ Common[pdu.type] <= pdu.size
                    /\ PduHeader + pdu.size <= room

(* No section is decoded from the bytes of another one: whatever is absent,*)
(* cut off or too long before it, its header is read where L1 wrote it.    *)
ReadInPlace == Looking /\ HeaderRead => q = Upto(pdu, step)

(* The indication that is delivered holds exactly the announced sections   *)
(* that are complete in the PDU and that OCUDU has room for.               *)
DeliveredIsComplete ==
  pdu # NoPdu /\ ~Looking =>
    decoded = {Order[pdu.type][i] : i \in
                 {j \in DOMAIN Order[pdu.type] :
                    LET k == Order[pdu.type][j]
                    IN  /\ k \in DOMAIN pdu.payload
                        /\ Upto(pdu, j + 1) <= pdu.size
                        /\ pdu.payload[k] <= MaxPayload}}
================================================================================
