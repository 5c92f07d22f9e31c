---------------------------- MODULE UciDecodeProofs ----------------------------
(***************************************************************************)
(* The UCI decoder delivers what is complete, for any payload sizes, any   *)
(* number of PDUs and any cut.  The cursor may leave the layout: a section *)
(* whose header does not fit is not stepped over.  What saves the decoder  *)
(* is that no later header is shorter (HeadersGrow), so that nothing fits  *)
(* from there on, and that CSI part 2, which is not stepped over either,   *)
(* is always the last (CsiPart2IsLast).                                    *)
(***************************************************************************)
EXTENDS UciDecode, TLAPS

Sections(u) == 1 .. Len(Order[u.type])

(* A PDU the decoder has opened.                                           *)
PduOK(u) ==
  /\ u.type \in Types /\ u.size \in Nat /\ Common[u.type] <= u.size
  /\ DOMAIN u.payload \subseteq SectionsOf(u.type)
  /\ \A k \in DOMAIN u.payload : u.payload[k] \in Nat

(* The sections before the i-th that are complete and holdable.            *)
Taken(u, i) ==
  {Order[u.type][j] : j \in
     {j \in Sections(u) : /\ j < i
                          /\ Order[u.type][j] \in DOMAIN u.payload
                          /\ Upto(u, j + 1) <= u.size
                          /\ u.payload[Order[u.type][j]] <= MaxPayload}}

(* The cursor is not where section i starts, but nothing fits any more.    *)
Over(u, i) ==
  /\ Upto(u, i) > u.size
  /\ \A j \in Sections(u) : i <= j => q + HeaderLen[Order[u.type][j]] > u.size

InPdu ==
  pdu # NoPdu =>
    /\ PduOK(pdu) /\ PduHeader + pdu.size <= room
    /\ step <= Len(Order[pdu.type]) + 1
    /\ step \in Sections(pdu) => q = Upto(pdu, step) \/ Over(pdu, step)
    /\ decoded = Taken(pdu, step)

Inv ==
  /\ left \in 0 .. MaxPdus /\ room \in Nat /\ step \in 1 .. 5 /\ q \in Nat
  /\ left = 0 => pdu = NoPdu
  /\ decoded \subseteq DOMAIN HeaderLen
  /\ InPdu
--------------------------------------------------------------------------------
(* The three types and their sections, written out.                        *)
LEMMA TheTypes ==
  /\ Types = {"PUSCH", "PUCCH01", "PUCCH234"}
  /\ Len(Order["PUSCH"]) = 3 /\ Len(Order["PUCCH01"]) = 2 /\ Len(Order["PUCCH234"]) = 4
  /\ Common["PUSCH"] = 12 /\ Common["PUCCH01"] = 13 /\ Common["PUCCH234"] = 13
  BY DEF Types, Common, Order

LEMMA TheSections ==
  /\ Order["PUSCH"][1] = "HARQ" /\ Order["PUSCH"][2] = "CSI1" /\ Order["PUSCH"][3] = "CSI2"
  /\ Order["PUCCH01"][1] = "SR01" /\ Order["PUCCH01"][2] = "HARQ01"
  /\ Order["PUCCH234"][1] = "SR" /\ Order["PUCCH234"][2] = "HARQ"
  /\ Order["PUCCH234"][3] = "CSI1" /\ Order["PUCCH234"][4] = "CSI2"
  BY DEF Order

LEMMA TheHeaders ==
  /\ DOMAIN HeaderLen = {"SR01", "HARQ01", "SR", "HARQ", "CSI1", "CSI2"}
  /\ HeaderLen["SR01"] = 2 /\ HeaderLen["HARQ01"] = 2 /\ HeaderLen["SR"] = 2
  /\ HeaderLen["HARQ"] = 3 /\ HeaderLen["CSI1"] = 3 /\ HeaderLen["CSI2"] = 3
  BY DEF HeaderLen

(* Every section of every type is one of these nine.                       *)
LEMMA EverySection ==
  ASSUME NEW t \in Types, NEW i \in 1 .. Len(Order[t])
  PROVE  \/ t = "PUSCH" /\ i \in {1, 2, 3}
         \/ t = "PUCCH01" /\ i \in {1, 2}
         \/ t = "PUCCH234" /\ i \in {1, 2, 3, 4}
<1>1. CASE t = "PUSCH"
  BY <1>1, TheTypes
<1>2. CASE t = "PUCCH01"
  BY <1>2, TheTypes
<1>3. CASE t = "PUCCH234"
  BY <1>3, TheTypes
<1>4. QED
  BY <1>1, <1>2, <1>3, TheTypes

(* A section's header has a length of its own.                             *)
LEMMA SectionOK ==
  ASSUME NEW t \in Types, NEW i \in 1 .. Len(Order[t])
  PROVE  /\ i \in 1 .. 4 /\ Len(Order[t]) \in 2 .. 4
         /\ Order[t][i] \in DOMAIN HeaderLen /\ HeaderLen[Order[t][i]] \in {2, 3}
  BY EverySection, TheTypes, TheSections, TheHeaders

(* No header is longer than one of a later section.                        *)
LEMMA HeadersGrow ==
  ASSUME NEW t \in Types, NEW i \in 1 .. Len(Order[t]), NEW j \in 1 .. Len(Order[t]), i <= j
  PROVE  HeaderLen[Order[t][i]] <= HeaderLen[Order[t][j]]
  BY EverySection, TheSections, TheHeaders

(* Nothing follows CSI part 2.                                             *)
LEMMA CsiPart2IsLast ==
  ASSUME NEW t \in Types, NEW i \in 1 .. Len(Order[t]), Order[t][i] = "CSI2"
  PROVE  i = Len(Order[t])
  BY EverySection, TheTypes, TheSections

(* A section takes its header and its payload.                             *)
LEMMA BytesOK ==
  ASSUME NEW u, PduOK(u), NEW i \in Sections(u)
  PROVE  /\ Bytes(u, Order[u.type][i]) \in Nat
         /\ Order[u.type][i] \in DOMAIN u.payload =>
              Bytes(u, Order[u.type][i]) >= HeaderLen[Order[u.type][i]]
  BY SectionOK DEF PduOK, Bytes, Sections

(* The first section follows the common part, every other the one before.  *)
LEMMA UptoOK ==
  ASSUME NEW u, PduOK(u)
  PROVE  /\ Upto(u, 1) = Common[u.type]
         /\ \A i \in Sections(u) : /\ Upto(u, i) \in Nat
                                   /\ Upto(u, i + 1) = Upto(u, i) + Bytes(u, Order[u.type][i])
<1> DEFINE t == u.type
<1>1. t \in Types /\ Common[t] \in Nat /\ Len(Order[t]) \in 2 .. 4
  BY TheTypes DEF PduOK
<1>2. ASSUME NEW j \in 1 .. 4, NEW i \in 1 .. 5 PROVE Part(u, i, j) \in Nat
  <2>1. CASE j < i /\ j <= Len(Order[t])
    BY <1>1, <2>1, BytesOK DEF Part, Sections
  <2>2. CASE ~(j < i /\ j <= Len(Order[t]))
    BY <2>2 DEF Part
  <2>3. QED
    BY <2>1, <2>2
<1>3. Upto(u, 1) = Common[t]
  BY <1>1 DEF Upto, Part
<1>4. ASSUME NEW i \in Sections(u)
      PROVE  Upto(u, i) \in Nat /\ Upto(u, i + 1) = Upto(u, i) + Bytes(u, Order[t][i])
  <2>1. i \in 1 .. 4 /\ i + 1 \in 1 .. 5 /\ i \in 1 .. 5 /\ i <= Len(Order[t])
    BY SectionOK DEF Sections, PduOK
  <2>2. Upto(u, i) \in Nat
    <3>1. /\ Part(u, i, 1) \in Nat /\ Part(u, i, 2) \in Nat
          /\ Part(u, i, 3) \in Nat /\ Part(u, i, 4) \in Nat
      <4> HIDE DEF t
      <4>1. 1 \in 1 .. 4 /\ 2 \in 1 .. 4 /\ 3 \in 1 .. 4 /\ 4 \in 1 .. 4
        OBVIOUS
      <4>2. QED
        BY ONLY <1>2, <2>1, <4>1
    <3>2. QED
      BY <1>1, <3>1 DEF Upto
  <2>3. ASSUME NEW j \in 1 .. 4
        PROVE  Part(u, i + 1, j) = IF j = i THEN Bytes(u, Order[t][i]) ELSE Part(u, i, j)
    BY <1>1, <2>1 DEF Part
  <2>4. Part(u, i, i) = 0
    BY <1>1, <2>1 DEF Part
  <2>5. Bytes(u, Order[t][i]) \in Nat
    BY BytesOK
  <2>6. Upto(u, i + 1) = Common[t] + Part(u, i + 1, 1) + Part(u, i + 1, 2)
                                   + Part(u, i + 1, 3) + Part(u, i + 1, 4)
    BY DEF Upto
  <2>7. Upto(u, i) = Common[t] + Part(u, i, 1) + Part(u, i, 2) + Part(u, i, 3) + Part(u, i, 4)
    BY DEF Upto
  <2>8. /\ Part(u, i, 1) \in Nat /\ Part(u, i, 2) \in Nat
        /\ Part(u, i, 3) \in Nat /\ Part(u, i, 4) \in Nat
    <3>1. 1 \in 1 .. 4 /\ 2 \in 1 .. 4 /\ 3 \in 1 .. 4 /\ 4 \in 1 .. 4
      OBVIOUS
    <3>2. QED
      BY ONLY <1>2, <2>1, <3>1
  <2>9. CASE i = 1
    BY <1>1, <2>3, <2>4, <2>5, <2>6, <2>7, <2>8, <2>9
  <2>10. CASE i = 2
    BY <1>1, <2>3, <2>4, <2>5, <2>6, <2>7, <2>8, <2>10
  <2>11. CASE i = 3
    BY <1>1, <2>3, <2>4, <2>5, <2>6, <2>7, <2>8, <2>11
  <2>12. CASE i = 4
    BY <1>1, <2>3, <2>4, <2>5, <2>6, <2>7, <2>8, <2>12
  <2>13. QED
    BY <2>1, <2>2, <2>9, <2>10, <2>11, <2>12
<1>5. QED
  BY <1>3, <1>4

(* What L1 may write has sections of its type, and a size, if perhaps a    *)
(* negative one.                                                           *)
LEMMA SizedOK ==
  ASSUME NEW t \in Types, NEW v \in Pdus(t), NEW cut \in Missing
  PROVE  LET u == Sized(v, cut)
         IN  /\ u.type = t /\ u.size \in Int /\ DOMAIN u.payload \subseteq SectionsOf(t)
             /\ \A k \in DOMAIN u.payload : u.payload[k] \in Nat
<1> PICK s \in SUBSET SectionsOf(t) :
      v \in {[type |-> t, payload |-> pay, size |-> 0] :
               pay \in {f \in [s -> Payloads \cup {0}] : \A k \in s : f[k] \in PayloadsOf(k)}}
  BY DEF Pdus
<1>1. PICK pay \in [s -> Payloads \cup {0}] : v = [type |-> t, payload |-> pay, size |-> 0]
  OBVIOUS
<1>2. /\ Sized(v, cut).type = t /\ Sized(v, cut).payload = pay
      /\ Sized(v, cut).size = Content(v) - cut
  BY <1>1 DEF Sized
<1>3. v.type = t /\ v.payload = pay
  BY <1>1
<1>4. Content(v) \in Int
  <2>1. \A i \in 1 .. 4 : Part(v, Len(Order[t]) + 1, i) \in Int
    <3>1. ASSUME NEW i \in 1 .. 4, i <= Len(Order[t]) PROVE Bytes(v, Order[t][i]) \in Int
      <4>1. i \in 1 .. Len(Order[t])
        BY <3>1, TheTypes
      <4>2. HeaderLen[Order[t][i]] \in {2, 3}
        BY <4>1, SectionOK
      <4>3. CASE Order[t][i] \in DOMAIN pay
        <5>1. pay[Order[t][i]] \in Nat
          BY <4>3, UciAssumption
        <5>2. QED
          BY <1>3, <4>2, <4>3, <5>1 DEF Bytes
      <4>4. CASE Order[t][i] \notin DOMAIN pay
        BY <1>3, <4>4 DEF Bytes
      <4>5. QED
        BY <4>3, <4>4
    <3>2. QED
      BY <1>3, <3>1 DEF Part
  <2>2. Common[t] \in Int
    BY TheTypes
  <2>3. 1 \in 1 .. 4 /\ 2 \in 1 .. 4 /\ 3 \in 1 .. 4 /\ 4 \in 1 .. 4
    OBVIOUS
  <2>4. QED
    BY ONLY <1>3, <2>1, <2>2, <2>3 DEF Content, Upto
<1>5. \A k \in DOMAIN pay : pay[k] \in Nat
  <2>1. Payloads \cup {0} \subseteq Nat
    BY UciAssumption
  <2>2. DOMAIN pay = s /\ \A k \in s : pay[k] \in Payloads \cup {0}
    BY ONLY pay \in [s -> Payloads \cup {0}]
  <2>3. QED
    BY ONLY <2>1, <2>2
<1>6. QED
  BY <1>2, <1>4, <1>5, UciAssumption

(* A PDU that passes the checks of the loop is one the decoder may open.   *)
LEMMA OpenedOK ==
  ASSUME NEW t \in Types, NEW v \in Pdus(t), NEW cut \in Missing,
         Sized(v, cut).size >= Common[Sized(v, cut).type]
  PROVE  PduOK(Sized(v, cut))
<1>1. Common[t] \in Nat
  BY TheTypes
<1>2. QED
  BY <1>1, SizedOK DEF PduOK

(* Section i is taken over.                                                *)
Takes(u, i) == /\ Order[u.type][i] \in DOMAIN u.payload
               /\ Upto(u, i + 1) <= u.size
               /\ u.payload[Order[u.type][i]] <= MaxPayload

(* What is taken over grows section by section.                            *)
LEMMA TakenNone == ASSUME NEW u, PduOK(u) PROVE Taken(u, 1) = {}
  BY TheTypes DEF Taken, Sections, PduOK

LEMMA TakenNext ==
  ASSUME NEW u, PduOK(u), NEW i \in Sections(u)
  PROVE  Taken(u, i + 1) = IF Takes(u, i) THEN Taken(u, i) \cup {Order[u.type][i]}
                                          ELSE Taken(u, i)
<1>1. \A j \in Sections(u) : j < i + 1 <=> j < i \/ j = i
  BY TheTypes DEF Sections, PduOK
<1>2. CASE Takes(u, i)
  BY <1>1, <1>2 DEF Taken, Takes
<1>3. CASE ~Takes(u, i)
  BY <1>1, <1>3 DEF Taken, Takes
<1>4. QED
  BY <1>2, <1>3

LEMMA TakenOK == ASSUME NEW u, PduOK(u), NEW i PROVE Taken(u, i) \subseteq DOMAIN HeaderLen
  BY SectionOK DEF Taken, Sections, PduOK

--------------------------------------------------------------------------------
(* At first no PDU has been looked at.                                     *)
LEMMA InitInv == Init => Inv
  BY UciAssumption DEF Init, Inv, InPdu

(* A PDU is opened: the cursor is where its first section starts.          *)
LEMMA OpenStep ==
  ASSUME Inv, NEW t \in Types, NEW v \in Pdus(t), NEW cut \in Missing, Open(Sized(v, cut))
  PROVE  Inv'
<1> DEFINE u == Sized(v, cut)
<1>1. PduOK(u)
  BY OpenedOK DEF Open
<1>2. pdu' = u /\ step' = 1 /\ q' = Common[u.type] /\ decoded' = {} /\ left' = left
      /\ room' = room /\ left > 0 /\ PduHeader + u.size <= room
  BY DEF Open, NextPdu, Fits
<1> HIDE DEF u
<1>3. PduOK(u) /\ Taken(u, 1) = {} /\ Upto(u, 1) = Common[u.type] /\ Common[u.type] \in Nat
      /\ Len(Order[u.type]) \in Nat
  BY <1>1, TakenNone, UptoOK, TheTypes DEF PduOK
<1>4. InPdu'
  BY <1>2, <1>3 DEF InPdu
<1>5. QED
  BY <1>2, <1>3, <1>4 DEF Inv

(* The cursor in a PDU, after one section.                                 *)
LEMMA SectionCursor ==
  ASSUME Inv, Section
  PROVE  /\ step' = step + 1 /\ q' \in Nat
         /\ step' \in Sections(pdu) => q' = Upto(pdu, step') \/ Over(pdu, step)'
         /\ decoded' = Taken(pdu, step')
<1> DEFINE t == pdu.type
           k == Order[t][step]
<1>1. PduOK(pdu) /\ step \in Sections(pdu) /\ t \in Types /\ step \in Nat /\ q \in Nat
      /\ pdu.size \in Nat
  BY DEF Section, Goes, Looking, Inv, InPdu, PduOK, Sections
<1>2. /\ Upto(pdu, step) \in Nat /\ Bytes(pdu, k) \in Nat /\ HeaderLen[k] \in {2, 3}
      /\ Upto(pdu, step + 1) = Upto(pdu, step) + Bytes(pdu, k)
      /\ k \in DOMAIN pdu.payload => Bytes(pdu, k) >= HeaderLen[k]
      /\ k \notin DOMAIN pdu.payload => Bytes(pdu, k) = 0
  <2>1. k \notin DOMAIN pdu.payload => Bytes(pdu, k) = 0
    BY DEF Bytes
  <2>2. HeaderLen[k] \in {2, 3}
    BY <1>1, SectionOK DEF Sections
  <2>3. QED
    BY <1>1, <2>1, <2>2, BytesOK, UptoOK
<1>3. /\ step' = step + 1 /\ pdu' = pdu
      /\ q' = IF HeaderRead /\ k # "CSI2" THEN q + Bytes(pdu, k) ELSE q
      /\ decoded' = IF HeaderRead /\ Complete /\ Holdable THEN decoded \cup {k} ELSE decoded
  BY DEF Section, Goes, Kind
<1>4. /\ HeaderRead <=> k \in DOMAIN pdu.payload /\ q + HeaderLen[k] <= pdu.size
      /\ Complete <=> q + Bytes(pdu, k) <= pdu.size
      /\ Holdable <=> pdu.payload[k] <= MaxPayload
      /\ Takes(pdu, step) <=> /\ k \in DOMAIN pdu.payload /\ Upto(pdu, step + 1) <= pdu.size
                              /\ pdu.payload[k] <= MaxPayload
  BY DEF HeaderRead, Complete, Holdable, Kind, Takes
<1>5. \A j \in Sections(pdu) : /\ j \in Nat /\ HeaderLen[Order[t][j]] \in {2, 3}
                               /\ step <= j => HeaderLen[k] <= HeaderLen[Order[t][j]]
  BY <1>1, SectionOK, HeadersGrow DEF Sections
<1>6. k = "CSI2" => step + 1 \notin Sections(pdu)
  <2>1. k = "CSI2" => step = Len(Order[t])
    BY <1>1, CsiPart2IsLast DEF Sections
  <2>2. QED
    BY <1>1, <2>1 DEF Sections
<1>7. decoded = Taken(pdu, step) /\ (q = Upto(pdu, step) \/ Over(pdu, step))
  BY <1>1 DEF Inv, InPdu, PduOK, Section, Goes, Looking
<1>8. Taken(pdu, step + 1) = IF Takes(pdu, step) THEN decoded \cup {k} ELSE decoded
  BY <1>1, <1>7, TakenNext
<1> HIDE DEF k
<1>9. CASE q = Upto(pdu, step) /\ HeaderRead
  <2>1. decoded' = Taken(pdu, step + 1)
    BY <1>2, <1>3, <1>4, <1>8, <1>9
  <2>2. q' \in Nat /\ (step + 1 \in Sections(pdu) => q' = Upto(pdu, step + 1))
    BY <1>1, <1>2, <1>3, <1>6, <1>9
  <2>3. QED
    BY <1>3, <2>1, <2>2
<1>10. CASE q = Upto(pdu, step) /\ k \notin DOMAIN pdu.payload
  BY <1>1, <1>2, <1>3, <1>4, <1>8, <1>10
<1>11. CASE q + HeaderLen[k] > pdu.size /\ Upto(pdu, step + 1) > pdu.size
  <2>1. decoded' = Taken(pdu, step + 1) /\ q' = q
    BY <1>1, <1>2, <1>3, <1>4, <1>8, <1>11
  <2>2. \A j \in Sections(pdu) : step <= j => q + HeaderLen[Order[t][j]] > pdu.size
    BY <1>1, <1>2, <1>5, <1>11
  <2>3. \A j \in Sections(pdu) : step + 1 <= j => step <= j
    BY <1>1, <1>5
  <2>4. Over(pdu, step)'
    BY <1>3, <1>11, <2>1, <2>2, <2>3 DEF Over
  <2>5. QED
    BY <1>1, <1>3, <2>1, <2>4
<1>12. CASE Over(pdu, step)
  <2>1. q + HeaderLen[k] > pdu.size /\ Upto(pdu, step) > pdu.size
    BY <1>1, <1>12 DEF Over, k
  <2>2. Upto(pdu, step + 1) > pdu.size
    BY <1>1, <1>2, <2>1
  <2>3. QED
    BY <1>11, <2>1, <2>2
<1>13. CASE q = Upto(pdu, step) /\ k \in DOMAIN pdu.payload /\ ~HeaderRead
  <2>1. q + HeaderLen[k] > pdu.size
    BY <1>1, <1>2, <1>4, <1>13
  <2>2. Upto(pdu, step + 1) > pdu.size
    BY <1>1, <1>2, <1>13, <2>1
  <2>3. QED
    BY <1>11, <2>1, <2>2
<1>14. QED
  BY <1>7, <1>9, <1>10, <1>12, <1>13

(* A step of the loop over the sections.                                   *)
LEMMA SectionStep == ASSUME Inv, Section PROVE Inv'
<1>1. /\ left' = left /\ room' = room /\ pdu' = pdu /\ pdu # NoPdu
      /\ step <= Len(Order[pdu.type]) /\ PduOK(pdu)
  BY DEF Section, Goes, Looking, Inv, InPdu
<1>2. step \in 1 .. 4 /\ Len(Order[pdu.type]) \in 2 .. 4 /\ step \in Nat
  <2>1. Len(Order[pdu.type]) \in 2 .. 4
    BY <1>1, TheTypes DEF PduOK
  <2>2. step \in 1 .. 5
    BY DEF Inv
  <2>3. step <= Len(Order[pdu.type])
    BY <1>1
  <2>4. \A n \in 2 .. 4 : step <= n => step \in 1 .. 4 /\ step \in Nat
    BY <2>2
  <2>5. QED
    BY <2>1, <2>3, <2>4
<1>3. PduHeader + pdu.size <= room
  BY <1>1 DEF Inv, InPdu
<1>4. InPdu'
  BY <1>1, <1>2, <1>3, SectionCursor DEF InPdu
<1>5. decoded' \subseteq DOMAIN HeaderLen
  BY <1>1, SectionCursor, TakenOK
<1>6. QED
  BY <1>1, <1>2, <1>4, <1>5, SectionCursor DEF Inv

(* Every step keeps the cursor in place, or behind all that fits.          *)
LEMMA StepInv == Inv /\ [Next]_vars => Inv'
<1> SUFFICES ASSUME Inv, [Next]_vars PROVE Inv'
  OBVIOUS
<1>1. ASSUME NEW u, u.size \in Int, NEW known \in BOOLEAN, Skip(u, known) PROVE Inv'
  BY <1>1, UciAssumption DEF Skip, NextPdu, Fits, Inv, InPdu, PduHeader
<1>2. ASSUME NEW u, Break(u) PROVE Inv'
  BY <1>2, UciAssumption DEF Break, NextPdu, Inv, InPdu
<1>3. ASSUME Deliver PROVE Inv'
  BY <1>3, UciAssumption DEF Deliver, Inv, InPdu, PduOK, PduHeader
<1>4. ASSUME UNCHANGED vars PROVE Inv'
  BY <1>4 DEF vars, Inv, InPdu, Over
<1>5. ASSUME NEW t \in Types, NEW v \in Pdus(t), NEW cut \in Missing,
             LET u == Sized(v, cut)
             IN  Open(u) \/ Skip(u, TRUE) \/ Skip(u, FALSE) \/ Break(u)
      PROVE  Inv'
  BY <1>1, <1>2, <1>5, OpenStep, SizedOK
<1>6. QED
  BY <1>3, <1>4, <1>5, SectionStep DEF Next

(* The cursor of the decoder is in place, or behind all that fits, in      *)
(* every state.                                                            *)
LEMMA Invariance == Spec => []Inv
  BY InitInv, StepInv, PTL DEF Spec

(* The decoder's variables keep their types, and what it decodes lies in   *)
(* the message.                                                            *)
THEOREM TypeCorrect == Spec => []TypeOK
<1>1. Inv => TypeOK
  BY DEF Inv, InPdu, PduOK, TypeOK
<1>2. QED
  BY <1>1, Invariance, PTL

(* No section is decoded from the bytes of another one.                    *)
THEOREM SectionsReadInPlace == Spec => []ReadInPlace
<1>1. Inv => ReadInPlace
  <2> SUFFICES ASSUME Inv, Looking, HeaderRead PROVE q = Upto(pdu, step)
    BY DEF ReadInPlace
  <2>1. step \in Sections(pdu) /\ PduOK(pdu) /\ (q = Upto(pdu, step) \/ Over(pdu, step))
    <3>1. Len(Order[pdu.type]) \in Nat /\ step \in 1 .. 5 /\ step <= Len(Order[pdu.type])
      BY TheTypes DEF Inv, InPdu, PduOK, Looking
    <3>2. QED
      BY <3>1 DEF Inv, InPdu, Looking, Sections
  <2>2. Over(pdu, step) => q + HeaderLen[Order[pdu.type][step]] > pdu.size
    BY <2>1 DEF Over, Sections
  <2>3. HeaderLen[Order[pdu.type][step]] \in {2, 3} /\ q \in Nat /\ pdu.size \in Nat
    BY <2>1, SectionOK DEF Inv, PduOK, Sections
  <2>4. q + HeaderLen[Order[pdu.type][step]] <= pdu.size
    BY DEF HeaderRead, Kind
  <2>5. QED
    BY <2>1, <2>2, <2>3, <2>4
<1>2. QED
  BY <1>1, Invariance, PTL

(* What is delivered is exactly what is announced, complete and holdable.  *)
THEOREM DeliveredInFull == Spec => []DeliveredIsComplete
<1>1. Inv => DeliveredIsComplete
  <2> SUFFICES ASSUME Inv, pdu # NoPdu, ~Looking
               PROVE  decoded = {Order[pdu.type][i] : i \in
                        {j \in DOMAIN Order[pdu.type] :
                           /\ Order[pdu.type][j] \in DOMAIN pdu.payload
                           /\ Upto(pdu, j + 1) <= pdu.size
                           /\ pdu.payload[Order[pdu.type][j]] <= MaxPayload}}
    BY DEF DeliveredIsComplete
  <2>1. decoded = Taken(pdu, step) /\ pdu.type \in Types
    BY DEF Inv, InPdu, PduOK
  <2>2. Len(Order[pdu.type]) \in Nat /\ DOMAIN Order[pdu.type] = Sections(pdu)
    BY <2>1, TheTypes DEF Sections, Order
  <2>3. \A j \in Sections(pdu) : j < step
    BY <2>2 DEF Inv, Looking, Sections
  <2>4. QED
    BY <2>1, <2>2, <2>3 DEF Taken
<1>2. QED
  BY <1>1, Invariance, PTL
================================================================================
