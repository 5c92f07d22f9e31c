----------------------------- MODULE TxDataProofs ------------------------------
(***************************************************************************)
(* The layout of TX_DATA for any buffer, any alignment that divides its    *)
(* length, and any number of blocks of any size.                           *)
(***************************************************************************)
EXTENDS TxData, SequenceTheorems, TLAPS

(* Being a multiple of Align, stated with the quotient so that the steps   *)
(* below are about products only.                                          *)
Multiple(x) == \E k \in Nat : x = Align * k

(* Division with remainder, for the alignment and for the TLV's width.     *)
LEMMA DivMod ==
  ASSUME NEW x \in Nat, NEW a \in Nat \ {0}
  PROVE  x % a \in 0 .. a - 1 /\ x \div a \in Nat /\ x = (x \div a) * a + (x % a)
  <1>1. x % a \in 0 .. a - 1 /\ x \div a \in Nat
    OBVIOUS
  <1>2. x = (x \div a) * a + (x % a)
    BY SMTT(30)
  <1> QED BY <1>1, <1>2

(* The quotient form of "is a multiple of" is the one the properties use.  *)
LEMMA MultipleMeansAligned ==
  ASSUME NEW x \in Nat
  PROVE  Multiple(x) <=> x % Align = 0
  <1>1. ASSUME NEW k \in Nat, x = Align * k PROVE x % Align = 0
    BY <1>1, TxDataAssumption
  <1>2. ASSUME x % Align = 0 PROVE Multiple(x)
    <2>1. x \div Align \in Nat /\ x = (x \div Align) * Align
      BY <1>2, DivMod, TxDataAssumption
    <2>2. x = Align * (x \div Align)
      BY <2>1, TxDataAssumption
    <2> QED BY <2>1, <2>2 DEF Multiple
  <1> QED BY <1>1, <1>2 DEF Multiple

(* The padded blocks of a request add up to whole alignment units.         *)
LEMMA ProductsAdd ==
  ASSUME NEW a \in Nat, NEW b \in Nat
  PROVE  Align * a + Align * b = Align * (a + b)
  BY TxDataAssumption, Z3

(* A multiple of Align that is below another is a whole unit below it.     *)
LEMMA ProductsCompare ==
  ASSUME NEW a \in Nat, NEW b \in Nat, Align * a < Align * b
  PROVE  Align * (a + 1) <= Align * b
  BY TxDataAssumption, Z3

(* A block and its padding take whole alignment units, and no more of them *)
(* than the block needs.                                                   *)
LEMMA PaddedBlock ==
  ASSUME NEW tb \in Nat
  PROVE  /\ Padding(tb) \in Nat
         /\ \E k \in Nat : /\ tb + Padding(tb) = Align * k
                         /\ \A b \in Nat : tb <= Align * b => Align * k <= Align * b
  <1> DEFINE q == tb \div Align
             r == tb % Align
  <1>1. r \in 0 .. Align - 1 /\ q \in Nat /\ tb = q * Align + r
    BY DivMod, TxDataAssumption
  <1>2. tb = Align * q + r /\ Align * q \in Nat /\ Align * (q + 1) = Align * q + Align
    BY <1>1, TxDataAssumption, Z3
  <1>3. CASE r = 0
    <2>1. Padding(tb) = 0
      BY <1>3, TxDataAssumption DEF Padding
    <2>2. tb + Padding(tb) = Align * q
      BY <2>1, <1>2, <1>3
    <2> QED BY <2>1, <2>2, <1>1, <1>2, <1>3
  <1>4. CASE r # 0
    <2>1. Padding(tb) = Align - r
      BY <1>1, <1>4, TxDataAssumption DEF Padding
    <2>2. tb + Padding(tb) = Align * (q + 1) /\ Padding(tb) \in Nat
      BY <2>1, <1>1, <1>2, TxDataAssumption
    <2>3. ASSUME NEW b \in Nat, tb <= Align * b PROVE Align * (q + 1) <= Align * b
      <3>1. Align * q < Align * b
        BY <2>3, <1>1, <1>2, <1>4, TxDataAssumption
      <3> QED BY <3>1, <1>1, ProductsCompare
    <2> QED BY <2>2, <2>3, <1>1
  <1> QED BY <1>3, <1>4

(* A block is skipped because it passes the end of the buffer, or because  *)
(* there is none.                                                          *)
Skipped ==
  /\ ~data_buf => data_offset = 0
  /\ \A i \in DOMAIN pdus \ Stored : data_buf => EndOf(i) > BufLen

(* The inductive invariant: the three layout properties, why blocks were   *)
(* skipped, and that the loop is always at an alignment boundary.          *)
Inv == /\ TypeOK /\ BlocksDisjoint /\ StoredIffInside /\ BlocksAligned
       /\ Skipped /\ Multiple(data_offset)

(* A request starts with no header and an aligned offset.                  *)
LEMMA InvInit == Init => Inv
  <1> SUFFICES ASSUME Init PROVE Inv
    OBVIOUS
  <1>1. Multiple(data_offset)
    BY TxDataAssumption DEF Init, Multiple
  <1>2. TypeOK
    <2>1. <<>> \in Seq(Pdu)
      OBVIOUS
    <2> QED BY <2>1 DEF Init, TypeOK
  <1>3. DOMAIN pdus = {} /\ data_offset = 0
    BY DEF Init
  <1>4. BlocksDisjoint /\ StoredIffInside /\ BlocksAligned /\ Skipped
    BY <1>3, TxDataAssumption DEF BlocksDisjoint, StoredIffInside, BlocksAligned, Stored, Skipped
  <1> QED BY <1>1, <1>2, <1>4 DEF Inv

(* One turn of the loop keeps the blocks apart, inside and aligned.        *)
LEMMA WriteStep ==
  ASSUME Inv, NEW tb \in TbLens, WritePdu(tb)
  PROVE  Inv'
  <1> DEFINE h == Header(tb)
             n == Len(pdus)
  <1>1. /\ pdus \in Seq(Pdu) /\ n \in Nat /\ data_offset \in Nat /\ tb \in Nat
        /\ data_offset <= BufLen /\ BufLen \in Nat /\ data_buf \in BOOLEAN
    BY TxDataAssumption DEF Inv, TypeOK, StoredIffInside
  <1>2. /\ h \in Pdu /\ h.pdu_len = tb /\ h.offset = data_offset
        /\ h.stored = (data_buf /\ data_offset + tb <= BufLen)
    <2>1. tb % TlvMod \in 0 .. TlvMod - 1
      BY <1>1, DivMod, TxDataAssumption
    <2> QED BY <2>1, <1>1 DEF Header, Pdu
  <1>3. pdus' = Append(pdus, h) /\ data_buf' = data_buf
    BY DEF WritePdu
  <1>4. /\ pdus' \in Seq(Pdu) /\ DOMAIN pdus = 1 .. n /\ DOMAIN pdus' = 1 .. n + 1
        /\ \A i \in 1 .. n : pdus'[i] = pdus[i]
        /\ pdus'[n + 1] = h
    BY <1>1, <1>2, <1>3
  <1> HIDE DEF h, n
  <1>5. /\ data_offset' \in Nat /\ data_offset <= data_offset' /\ data_offset' <= BufLen
        /\ h.stored => data_offset + tb <= data_offset'
        /\ Multiple(data_offset')
    <2>1. PICK m \in Nat : data_offset = Align * m
      BY DEF Inv, Multiple
    <2>2. PICK k \in Nat : /\ tb + Padding(tb) = Align * k
                           /\ \A b \in Nat : tb <= Align * b => Align * k <= Align * b
      BY <1>1, PaddedBlock
    <2>3. PICK b \in Nat : BufLen = Align * b
      BY <1>1, MultipleMeansAligned, TxDataAssumption DEF Multiple
    <2>4. Padding(tb) \in Nat
      BY <1>1, PaddedBlock
    <2>5. CASE h.stored
      <3>1. data_offset' = data_offset + (tb + Padding(tb)) /\ data_offset + tb <= BufLen
        <4>1. data_offset' = data_offset + tb + Padding(tb)
          BY <2>5 DEF WritePdu, h
        <4>2. data_offset + tb <= BufLen
          BY <2>5 DEF Header, h
        <4> QED BY <4>1, <4>2, <1>1, <2>4
      <3>2. data_offset' = Align * (m + k)
        BY <3>1, <2>1, <2>2, ProductsAdd
      <3>3. data_offset' <= BufLen
        <4>1. m <= b
          <5> SUFFICES ASSUME b + 1 <= m PROVE FALSE
            OBVIOUS
          <5>1. Align * m = Align * (b + 1) + Align * (m - (b + 1))
            BY ProductsAdd
          <5>2. Align * (b + 1) = Align * b + Align /\ Align * (m - (b + 1)) \in Nat
            BY TxDataAssumption, Z3
          <5> QED BY <5>1, <5>2, <1>1, <2>1, <2>3, TxDataAssumption
        <4>2. b - m \in Nat /\ Align * m + Align * (b - m) = Align * b
          BY <4>1, ProductsAdd
        <4>3. tb <= Align * (b - m)
          BY <4>2, <3>1, <2>1, <2>3, <1>1, TxDataAssumption
        <4>4. Align * k <= Align * (b - m)
          BY <4>2, <4>3, <2>2
        <4>5. data_offset + Align * k <= BufLen
          BY <4>2, <4>4, <2>1, <2>2, <2>3, <2>4, <1>1, TxDataAssumption
        <4> QED BY <4>5, <3>1, <2>2
      <3> QED BY <3>1, <3>2, <3>3, <1>1, <2>4, <2>1, <2>2 DEF Multiple
    <2>6. CASE ~h.stored
      <3>1. data_offset' = data_offset
        BY <2>6 DEF WritePdu, h
      <3> QED BY <3>1, <2>6, <1>1 DEF Inv, Multiple
    <2> QED BY <2>5, <2>6
  <1>6. TypeOK'
    BY <1>4, <1>5 DEF TypeOK, WritePdu, Inv
  <1>7. BlocksDisjoint'
    <2> SUFFICES ASSUME NEW i \in 1 .. n + 1, NEW j \in 1 .. n + 1, i < j,
                        pdus'[i].stored, pdus'[j].stored
                 PROVE  pdus'[i].offset + pdus'[i].pdu_len <= pdus'[j].offset
      BY <1>4 DEF BlocksDisjoint, Stored, EndOf
    <2>1. i \in 1 .. n /\ pdus'[i] = pdus[i]
      BY <1>1, <1>4 DEF n
    <2>2. CASE j \in 1 .. n
      BY <2>1, <2>2, <1>4 DEF Inv, BlocksDisjoint, Stored, EndOf
    <2>3. CASE j = n + 1
      BY <2>1, <2>3, <1>2, <1>4 DEF Inv, StoredIffInside, Stored, EndOf
    <2> QED BY <2>2, <2>3, <1>1 DEF n
  <1>8. \A i \in 1 .. n : /\ pdus[i].offset \in Nat /\ pdus[i].pdu_len \in Nat
                          /\ pdus[i].offset + pdus[i].pdu_len \in Nat
    <2> SUFFICES ASSUME NEW i \in 1 .. n
                 PROVE  pdus[i].offset \in Nat /\ pdus[i].pdu_len \in Nat
      OBVIOUS
    <2>1. pdus[i] \in Pdu
      BY <1>1 DEF n
    <2> QED BY <2>1, TxDataAssumption DEF Pdu
  <1>9. ASSUME NEW i \in 1 .. n + 1, pdus'[i].stored
        PROVE  pdus'[i].offset + pdus'[i].pdu_len <= data_offset'
    <2>1. CASE i \in 1 .. n
      <3>1. pdus[i].offset + pdus[i].pdu_len <= data_offset
        BY <2>1, <1>9, <1>4 DEF Inv, StoredIffInside, Stored, EndOf
      <3> QED BY <3>1, <2>1, <1>1, <1>4, <1>5, <1>8
    <2>2. CASE i = n + 1
      BY <2>2, <1>2, <1>4, <1>5, <1>9
    <2> QED BY <2>1, <2>2, <1>1 DEF n
  <1>10. Skipped'
    <2>1. ASSUME ~data_buf PROVE data_offset' = 0
      <3>1. data_offset' = data_offset
        BY <2>1, <1>2 DEF WritePdu, h
      <3> QED BY <3>1, <2>1 DEF Inv, Skipped
    <2>2. ASSUME NEW i \in 1 .. n + 1, ~pdus'[i].stored, data_buf
          PROVE  pdus'[i].offset + pdus'[i].pdu_len > BufLen
      <3>1. CASE i \in 1 .. n
        <4>1. pdus'[i] = pdus[i] /\ i \in DOMAIN pdus \ Stored
          BY <2>2, <3>1, <1>4 DEF Stored
        <4> QED BY <4>1, <2>2 DEF Inv, Skipped, EndOf
      <3>2. CASE i = n + 1
        <4>1. pdus'[i] = h
          BY <3>2, <1>4
        <4>2. ~(data_offset + tb <= BufLen)
          BY <4>1, <2>2, <1>2
        <4> QED BY <4>1, <4>2, <1>1, <1>2
      <3> QED BY <3>1, <3>2, <1>1 DEF n
    <2> QED BY <2>1, <2>2, <1>3, <1>4 DEF Skipped, Stored, EndOf
  <1>11. ASSUME NEW i \in 1 .. n + 1, ~pdus'[i].stored, pdus'[i].pdu_len > 0
         PROVE  pdus'[i].offset + pdus'[i].pdu_len > data_offset'
    <2>1. pdus'[i].offset \in Nat /\ pdus'[i].pdu_len \in Nat
      <3>1. CASE i \in 1 .. n
        BY <3>1, <1>4, <1>8
      <3>2. CASE i = n + 1
        BY <3>2, <1>1, <1>2, <1>4
      <3> QED BY <3>1, <3>2, <1>1 DEF n
    <2>2. CASE data_buf
      <3>1. pdus'[i].offset + pdus'[i].pdu_len > BufLen
        BY <2>2, <1>3, <1>4, <1>10, <1>11 DEF Skipped, Stored, EndOf
      <3> QED BY <3>1, <2>1, <1>1, <1>5
    <2>3. CASE ~data_buf
      <3>1. data_offset' = 0
        BY <2>3, <1>3, <1>10 DEF Skipped
      <3> QED BY <3>1, <2>1, <1>11
    <2> QED BY <2>2, <2>3
  <1>12. StoredIffInside'
    BY <1>4, <1>5, <1>9, <1>11 DEF StoredIffInside, Stored, EndOf
  <1>13. BlocksAligned'
    <2>1. data_offset % Align = 0
      BY <1>1, MultipleMeansAligned DEF Inv
    <2> QED BY <2>1, <1>1, <1>2, <1>4 DEF Inv, BlocksAligned, n
  <1> QED BY <1>5, <1>6, <1>7, <1>10, <1>12, <1>13 DEF Inv

(* So does every step.                                                     *)
LEMMA InvStep == Inv /\ [Next]_vars => Inv'
  <1> SUFFICES ASSUME Inv, [Next]_vars PROVE Inv'
    OBVIOUS
  <1>1. CASE \E tb \in TbLens : WritePdu(tb)
    BY <1>1, WriteStep
  <1>2. CASE Finish \/ UNCHANGED vars
    <2>1. /\ data_buf' = data_buf /\ pdus' = pdus /\ data_offset' = data_offset
          /\ sent' \in BOOLEAN
      BY <1>2 DEF Finish, vars, Inv, TypeOK
    <2>2. TypeOK'
      BY <2>1 DEF Inv, TypeOK
    <2>3. Skipped' /\ Multiple(data_offset)'
      BY <2>1 DEF Inv, Skipped, Stored, EndOf, Multiple
    <2>4. BlocksDisjoint' /\ StoredIffInside' /\ BlocksAligned'
      BY <2>1 DEF Inv, BlocksDisjoint, StoredIffInside, BlocksAligned, Stored, EndOf
    <2> QED BY <2>2, <2>3, <2>4 DEF Inv
  <1> QED BY <1>1, <1>2 DEF Next

(* The strengthened invariant holds in every behaviour.                    *)
LEMMA Invariant == Spec => []Inv
  BY InvInit, InvStep, PTL DEF Spec

(* The blocks of a request never overlap in the data buffer.               *)
THEOREM BlocksNeverOverlap == Spec => []BlocksDisjoint
  BY Invariant, PTL DEF Inv

(* The data length sent covers the blocks that were copied and no other    *)
(* one, and never exceeds the buffer, because the buffer's length is a     *)
(* multiple of the alignment.                                              *)
THEOREM LengthTellsWhatIsStored == Spec => []StoredIffInside
  BY Invariant, PTL DEF Inv

(* Every block starts at an alignment boundary.                            *)
THEOREM BlocksStayAligned == Spec => []BlocksAligned
  BY Invariant, PTL DEF Inv

(* The headers keep the types of the message's fields.                     *)
THEOREM TypeCorrect == Spec => []TypeOK
  BY Invariant, PTL DEF Inv
================================================================================
