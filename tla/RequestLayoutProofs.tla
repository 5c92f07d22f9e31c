-------------------------- MODULE RequestLayoutProofs --------------------------
(***************************************************************************)
(* What RequestLayout promises for requests of any number of PDUs, counts  *)
(* of any width and P7 buffers of any size: L1's way through a request     *)
(* finds its items, and in a PUSCH its blocks; PDSCH indices are ranks, and *)
(* what is written stays inside the buffer.                                *)
(***************************************************************************)
EXTENDS RequestLayout, SequenceTheorems, FiniteSetTheorems, TLAPS

(* A record of any of the types in TypesOf.                                *)
Item == [type : ItemTypes, pusch_data : BOOLEAN, pusch_uci : BOOLEAN,
         transform_precoding : {"enabled", "disabled"}, n : Nat]

Entry(m) == [type : ItemTypes, at : Nat, pdu_size : Nat \ {0}, index : 0 .. m,
             bitmap : SUBSET Optional, flag : {0, 1},
             blocks : SUBSET AllBlocks, start : [AllBlocks -> Nat]]

(* The blocks by name.                                                     *)
LEMMA BlockNames ==
  /\ Optional = {"pusch_data", "pusch_uci", "dfts_ofdm"}
  /\ AllBlocks = {"pusch_data", "pusch_uci", "dfts_ofdm", "rx_beamforming"}
  <1>1. Optional = {"pusch_data", "pusch_uci", "dfts_ofdm"}
    BY DEF Optional, Bit
  <1> QED BY <1>1 DEF AllBlocks

(* They are 29 bytes together.                                             *)
LEMMA BlockLength ==
  ASSUME NEW s
  PROVE  BlockBytes(s) \in 0 .. 29
  BY DEF BlockBytes, RxBeamforming

(* The kinds of requests, the types of items in each, and the TLVs.        *)
LEMMA TypesWritten ==
  /\ DOMAIN TypesOf = {"CONFIG", "DL_TTI", "UL_TTI", "UL_DCI"}
  /\ \A k \in DOMAIN TypesOf : TypesOf[k] \subseteq ItemTypes
  /\ \A k \in DOMAIN TypesOf : "TLV" \in TypesOf[k] <=> k = "CONFIG"
  /\ \A k \in DOMAIN TypesOf : "CSI_RS" \in TypesOf[k] => k = "DL_TTI"
  /\ TypesOf["CONFIG"] = {"TLV"}
  /\ Len(TlvLens) = 30 /\ DOMAIN TlvLens = 1 .. 30
  <1>1. DOMAIN TypesOf = {"CONFIG", "DL_TTI", "UL_TTI", "UL_DCI"}
    BY DEF TypesOf
  <1>2. /\ TypesOf["CONFIG"] = {"TLV"}
        /\ TypesOf["DL_TTI"] = {"SSB", "PDCCH", "PDSCH", "CSI_RS"}
        /\ TypesOf["UL_TTI"] = {"PRACH", "PUSCH", "PUCCH", "SRS"}
        /\ TypesOf["UL_DCI"] = {"PDCCH"}
    BY DEF TypesOf
  <1>3. Len(TlvLens) = 30 /\ DOMAIN TlvLens = 1 .. 30
    BY DEF TlvLens
  <1> QED BY <1>1, <1>2, <1>3 DEF ItemTypes

(* The values of the thirty TLVs, padded to four bytes.                    *)
LEMMA TlvSizes ==
  ASSUME NEW i \in 1 .. 30
  PROVE  /\ TlvLens[i] \in Nat
         /\ TlvBytes(TlvLens[i]) = IF i \in {7, 8} THEN 16 ELSE IF i = 30 THEN 144 ELSE 8
  <1>1. i \in {7, 8} => TlvLens[i] = 10
    BY DEF TlvLens
  <1>2. i = 30 => TlvLens[i] = 140
    BY DEF TlvLens
  <1>3. i \notin {7, 8, 30} => TlvLens[i] \in 1 .. 4
    BY DEF TlvLens
  <1> QED BY <1>1, <1>2, <1>3 DEF TlvBytes

(* Whatever may be written next is an item of a known type.                *)
LEMMA ItemType ==
  ASSUME TypeOK, NEW t \in TypesOf[kind], NEW u \in Items(t, left)
  PROVE  /\ u \in Item /\ u.type = t
         /\ t = "TLV" <=> kind = "CONFIG"
         /\ t = "CSI_RS" => kind = "DL_TTI"
         /\ t = "TLV" => \E i \in 1 .. 30 : i + left = 31 /\ u.n = TlvLens[i]
         /\ t = "PDCCH" => u.n \in 0 .. 568
         /\ t = "PDSCH" => u.n \in {1, 2}
         /\ t # "PUSCH" => ~u.pusch_data /\ ~u.pusch_uci
  <1>1. t \in ItemTypes /\ (t = "TLV" <=> kind = "CONFIG") /\ (t = "CSI_RS" => kind = "DL_TTI")
    <2>1. kind \in DOMAIN TypesOf
      BY DEF TypeOK
    <2>2. kind = "CONFIG" => t = "TLV"
      BY TypesWritten
    <2> QED BY <2>1, <2>2, TypesWritten
  <1>2. /\ u.type = t /\ u.pusch_data \in BOOLEAN /\ u.pusch_uci \in BOOLEAN
        /\ u.transform_precoding \in {"enabled", "disabled"}
        /\ t # "PUSCH" => ~u.pusch_data /\ ~u.pusch_uci
    BY DEF Items
  <1>3. t = "TLV" => \E i \in 1 .. 30 : i + left = 31 /\ u.n = TlvLens[i]
    <2>1. SUFFICES ASSUME t = "TLV" PROVE \E i \in 1 .. 30 : i + left = 31 /\ u.n = TlvLens[i]
      OBVIOUS
    <2>2. u.n \in {TlvLens[i] : i \in {j \in 1 .. 30 : j + left = 31}}
      BY <2>1 DEF Items, NumTlvs
    <2> QED BY <2>2
  <1>4. t = "PDCCH" => u.n \in 0 .. 568
    BY LayoutAssumption DEF Items
  <1>5. t = "PDSCH" => u.n \in {1, 2}
    BY DEF Items
  <1>6. t \notin {"TLV", "PDCCH", "PDSCH"} => u.n = 0
    BY DEF Items
  <1>7. u.n \in Nat
    BY <1>3, <1>4, <1>5, <1>6, TlvSizes
  <1>8. u \in [type : {t}, pusch_data : BOOLEAN, pusch_uci : BOOLEAN,
                transform_precoding : {"enabled", "disabled"}, n : Nat]
    BY <1>2, <1>7 DEF Items
  <1> QED BY <1>1, <1>2, <1>3, <1>4, <1>5, <1>8 DEF Item

(* How long an item is.  Only CSI-RS is not written.                       *)
LEMMA Sizes ==
  ASSUME NEW u \in Item,
         u.type = "PDCCH" => u.n \in 0 .. 568,
         u.type = "PDSCH" => u.n \in {1, 2},
         u.type # "PUSCH" => ~u.pusch_data /\ ~u.pusch_uci
  PROVE  /\ ItemSize(u) \in Nat /\ OwnBytes(u.type, u.n) \in Nat
         /\ ItemSize(u) = 0 <=> u.type = "CSI_RS"
         /\ u.type # "TLV" => ItemSize(u) <= LongestPdu
         /\ u.type = "TLV" => ItemSize(u) = TlvBytes(u.n)
         /\ u.type = "PUSCH" => OwnBytes(u.type, u.n) = PuschBytes
  <1> USE DEF PduInfo, Bwp, TxBeamforming, LongestPdu
  <1>0. u.type \in ItemTypes /\ u.n \in Nat
    BY DEF Item
  <1>1. BlockBytes(Blocks(u)) \in 0 .. 29
    BY BlockLength
  <1>2. u.type # "PUSCH" => Blocks(u) \subseteq {"rx_beamforming"}
    BY BlockNames DEF Blocks
  <1>3. u.type # "PUSCH" => BlockBytes(Blocks(u)) \in {0, 5}
    BY <1>2 DEF BlockBytes, RxBeamforming
  <1>4. u.type \notin {"PUSCH", "PUCCH"} => BlockBytes(Blocks(u)) = 0
    <2>1. u.type \notin {"PUSCH", "PUCCH"} => Blocks(u) = {}
      BY <1>2 DEF Blocks
    <2> QED BY <2>1 DEF BlockBytes
  <1>5. CASE u.type = "TLV"
    <2>1. TlvBytes(u.n) \in Nat \ {0}
      BY <1>0 DEF TlvBytes
    <2> QED BY <1>4, <1>5, <2>1 DEF ItemSize, OwnBytes
  <1>6. CASE u.type = "PDCCH"
    <2>1. (u.n + 7) \div 8 \in 0 .. 71
      BY <1>6
    <2> QED BY <1>4, <1>6, <2>1 DEF ItemSize, OwnBytes, PdcchBytes
  <1>7. CASE u.type = "PDSCH"
    BY <1>4, <1>7 DEF ItemSize, OwnBytes, PdschBytes
  <1>8. CASE u.type = "PUSCH"
    BY <1>1, <1>8 DEF ItemSize, OwnBytes, PuschBytes
  <1>9. CASE u.type = "PUCCH"
    BY <1>3, <1>9 DEF ItemSize, OwnBytes, PucchBytes
  <1>10. CASE u.type \in {"SSB", "SRS", "PRACH", "CSI_RS"}
    BY <1>4, <1>10 DEF ItemSize, OwnBytes, SsbBytes, SrsBytes, PrachBytes
  <1> QED BY <1>0, <1>5, <1>6, <1>7, <1>8, <1>9, <1>10 DEF ItemTypes

(* What is written of a PUSCH is where a parser looks for it: the reason   *)
(* for PuschBlocksInPlace, whatever the PUSCH has.                         *)
LEMMA PuschWritten ==
  ASSUME NEW u \in Item, u.type = "PUSCH", OwnBytes(u.type, u.n) = PuschBytes
  PROVE  BlocksInPlace(Written(u))
  <1> DEFINE p == Written(u)
  <1>0. /\ p.bitmap = Bitmap(u) /\ p.flag = Flag(u) /\ p.blocks = Blocks(u)
        /\ p.pdu_size = ItemSize(u)
        /\ \A b \in AllBlocks : p.start[b] = Start(u, b)
    BY DEF Written
  <1> HIDE DEF p
  <1>1. Flag(u) = 0 <=> u.transform_precoding = "enabled"
    BY DEF Flag
  <1>2. Announced(p) = Blocks(u)
    <2>1. \A b \in Optional : b \in Bitmap(u) <=> b \in Blocks(u)
      BY <1>1, BlockNames DEF Bitmap, Blocks
    <2>2. "rx_beamforming" \in Blocks(u)
      BY BlockNames DEF Blocks
    <2> QED BY <1>0, <2>1, <2>2, BlockNames DEF Announced, Bitmap, Blocks
  <1>3. \A b \in AllBlocks :
          {c \in Announced(p) : First(c, b)} = {c \in Blocks(u) : Turn[c] < Turn[b]}
    <2>1. \A b, c \in AllBlocks : First(c, b) <=> Turn[c] < Turn[b]
      BY BlockNames DEF First, Turn, Bit
    <2>2. Blocks(u) \subseteq AllBlocks
      BY DEF Blocks
    <2> QED BY <1>2, <2>1, <2>2
  <1>4. \A b \in p.blocks : ReadAt(p, b) = p.start[b]
    <2>1. \A b \in AllBlocks : ReadAt(p, b) = Start(u, b)
      BY <1>3 DEF ReadAt, Start
    <2> QED BY <1>0, <2>1 DEF Blocks
  <1>5. ReadAt(p, "rx_beamforming") + RxBeamforming = p.pdu_size
    <2>1. {c \in Announced(p) : First(c, "rx_beamforming")} = Blocks(u) \ {"rx_beamforming"}
      BY <1>2 DEF First
    <2>2. "rx_beamforming" \in Blocks(u)
      BY BlockNames DEF Blocks
    <2>3. BlockBytes(Blocks(u) \ {"rx_beamforming"}) + RxBeamforming = BlockBytes(Blocks(u))
      BY <2>2 DEF BlockBytes, RxBeamforming
    <2>4. /\ BlockBytes(Blocks(u)) \in 0 .. 29
          /\ BlockBytes(Blocks(u) \ {"rx_beamforming"}) \in 0 .. 29
      BY BlockLength
    <2> QED BY <1>0, <2>1, <2>3, <2>4 DEF ReadAt, ItemSize, PuschBytes, PduInfo, Bwp, RxBeamforming
  <1>6. p.flag = 0 <=> "dfts_ofdm" \in p.bitmap
    BY <1>0, <1>1, BlockNames DEF Bitmap
  <1> QED BY <1>0, <1>2, <1>4, <1>5, <1>6 DEF BlocksInPlace, p
--------------------------------------------------------------------------------
(* The invariant.                                                          *)

(* The entries of a type.                                                  *)
OfType(s, t) == {i \in DOMAIN s : s[i].type = t}

(* Every entry is where L1's walk takes it, and the next one will be at    *)
(* pdu_offset.                                                             *)
Placed ==
  /\ \A i \in DOMAIN out : out[i].at = Walk(i)
  /\ pdu_offset = Walk(Len(out) + 1)

(* The counts follow the entries, the ones that are there from the start   *)
(* anticipate them.                                                        *)
Counted ==
  /\ kind \in {"DL_TTI", "UL_TTI"} => req.num_pdus = Len(out) % CountMod
  /\ kind \in {"UL_DCI", "CONFIG"} => req.num_pdus = (Len(out) + left) % CountMod
  /\ req.num_ulsch = NumOf("PUSCH") % CountMod
  /\ req.num_ulcch = NumOf("PUCCH") % CountMod
  /\ req.rach_present = 1 <=> \E i \in DOMAIN out : out[i].type = "PRACH"

Ranked ==
  /\ PdschIndexIsRank
  /\ pdsch_index = NumOf("PDSCH")

(* How far the items so far can have moved the write position.             *)
ConfigOffset(m) == 9 + 8 * m + (IF m >= 7 THEN 8 ELSE 0) + (IF m >= 8 THEN 8 ELSE 0)
                     + (IF m >= 30 THEN 136 ELSE 0)

Roomy ==
  /\ kind # "CONFIG" => pdu_offset <= Envelope + HeaderLen[kind] + LongestPdu * Len(out)
  /\ kind = "CONFIG" => Len(out) + left = 30 /\ pdu_offset = ConfigOffset(Len(out))

Ended ==
  /\ pdu_offset > Envelope
  /\ body_len # 0 => left = 0 /\ Envelope + body_len = pdu_offset

Inv == TypeOK /\ Placed /\ PuschBlocksInPlace /\ Counted /\ Ranked /\ Roomy /\ Ended

--------------------------------------------------------------------------------
(* Arithmetic and counting.                                                *)

(* Division with remainder.                                                *)
LEMMA DivMod ==
  ASSUME NEW x \in Nat, NEW a \in Nat \ {0}
  PROVE  x % a \in 0 .. a - 1 /\ x \div a \in Nat /\ x = (x \div a) * a + (x % a)
  <1>1. x % a \in 0 .. a - 1 /\ x \div a \in Nat
    OBVIOUS
  <1>2. x = (x \div a) * a + (x % a)
    BY SMTT(30)
  <1> QED BY <1>1, <1>2

(* Quotient and remainder are unique.                                      *)
LEMMA Remainder ==
  ASSUME NEW a \in Nat \ {0}, NEW x \in Nat, NEW q \in Nat, NEW r \in 0 .. a - 1, x = q * a + r
  PROVE  x % a = r
  <1>1. ASSUME NEW k \in Nat, NEW s \in 0 .. a - 1, x = k * a + s PROVE s = r
    <2>1. CASE q = k
      BY <1>1, <2>1, Z3
    <2>2. CASE q < k
      <3>1. k * a >= q * a + a
        BY <2>2, Z3
      <3> QED BY <1>1, <3>1, Z3
    <2>3. CASE q > k
      <3>1. q * a >= k * a + a
        BY <2>3, Z3
      <3> QED BY <1>1, <3>1, Z3
    <2> QED BY <2>1, <2>2, <2>3
  <1>2. x % a \in 0 .. a - 1 /\ x \div a \in Nat /\ x = (x \div a) * a + (x % a)
    BY DivMod
  <1> QED BY <1>1, <1>2

(* A count of a given width, increased, is the increased number cut to it. *)
LEMMA CountUp ==
  ASSUME NEW x \in Nat
  PROVE  ((x % CountMod) + 1) % CountMod = (x + 1) % CountMod
  <1> DEFINE q == x \div CountMod
             r == x % CountMod
  <1>1. r \in 0 .. CountMod - 1 /\ q \in Nat /\ x = q * CountMod + r
    BY DivMod, LayoutAssumption
  <1>2. CountMod \in Nat \ {0}
    BY LayoutAssumption
  <1> SUFFICES (r + 1) % CountMod = (x + 1) % CountMod
    OBVIOUS
  <1> HIDE DEF q, r
  <1>3. CASE r + 1 < CountMod
    <2>1. x + 1 = q * CountMod + (r + 1) /\ r + 1 = 0 * CountMod + (r + 1)
      BY <1>1, <1>2, Z3
    <2>2. r + 1 \in 0 .. CountMod - 1 /\ 0 \in Nat /\ r + 1 \in Nat /\ x + 1 \in Nat
      BY <1>1, <1>2, <1>3
    <2>3. (x + 1) % CountMod = r + 1
      BY <2>1, <2>2, <1>1, <1>2, Remainder
    <2>4. (r + 1) % CountMod = r + 1
      BY <2>1, <2>2, <1>1, <1>2, Remainder
    <2> QED BY <2>3, <2>4
  <1>4. CASE r + 1 = CountMod
    <2>1. x + 1 = (q + 1) * CountMod + 0 /\ r + 1 = 1 * CountMod + 0
      BY <1>1, <1>2, <1>4, Z3
    <2>2. 0 \in 0 .. CountMod - 1 /\ q + 1 \in Nat /\ r + 1 \in Nat /\ x + 1 \in Nat
      BY <1>1, <1>2
    <2>3. (x + 1) % CountMod = 0
      BY <2>1, <2>2, <1>2, Remainder
    <2>4. (r + 1) % CountMod = 0
      BY <2>1, <2>2, <1>2, Remainder
    <2> QED BY <2>3, <2>4
  <1> QED BY <1>1, <1>2, <1>3, <1>4

(* A subset of the positions of a sequence can be counted.                 *)
LEMMA PositionsAreFinite ==
  ASSUME NEW m \in Nat, NEW S \in SUBSET (1 .. m)
  PROVE  IsFiniteSet(S) /\ Cardinality(S) \in Nat
  <1>1. IsFiniteSet(1 .. m)
    BY FS_Interval
  <1>2. IsFiniteSet(S)
    BY <1>1, FS_Subset
  <1> QED BY <1>2, FS_CardinalityType

(* A further entry counts for its own type, and for no other.              *)
LEMMA OneMore ==
  ASSUME NEW m \in Nat, NEW s \in Seq(Entry(m)), NEW e, NEW s2, NEW t,
         Len(s2) = Len(s) + 1, DOMAIN s2 = 1 .. Len(s) + 1,
         \A i \in 1 .. Len(s) : s2[i] = s[i],
         s2[Len(s) + 1] = e
  PROVE  /\ Cardinality(OfType(s, t)) \in Nat
         /\ Cardinality(OfType(s2, t))
              = Cardinality(OfType(s, t)) + (IF e.type = t THEN 1 ELSE 0)
  <1>1. Len(s) \in Nat /\ DOMAIN s = 1 .. Len(s)
    OBVIOUS
  <1>2. OfType(s, t) \in SUBSET (1 .. Len(s))
    BY <1>1 DEF OfType
  <1>3. IsFiniteSet(OfType(s, t)) /\ Cardinality(OfType(s, t)) \in Nat
    BY <1>1, <1>2, PositionsAreFinite
  <1>4. CASE e.type = t
    <2>1. OfType(s2, t) = OfType(s, t) \cup {Len(s) + 1}
      BY <1>1, <1>4 DEF OfType
    <2>2. Len(s) + 1 \notin OfType(s, t)
      BY <1>1, <1>2
    <2>3. Cardinality(OfType(s, t) \cup {Len(s) + 1}) = Cardinality(OfType(s, t)) + 1
      BY <1>3, <2>2, FS_AddElement
    <2> QED BY <1>3, <1>4, <2>1, <2>3
  <1>5. CASE e.type # t
    <2>1. OfType(s2, t) = OfType(s, t)
      BY <1>1, <1>5 DEF OfType
    <2> QED BY <1>3, <1>5, <2>1
  <1> QED BY <1>4, <1>5
--------------------------------------------------------------------------------
(* The invariant is inductive.                                             *)

(* A request starts with its headers and no item.                          *)
LEMMA InvInit == Init => Inv
  <1> SUFFICES ASSUME Init PROVE Inv
    OBVIOUS
  <1>1. /\ out = <<>> /\ Len(out) = 0 /\ DOMAIN out = {} /\ pdsch_index = 0 /\ body_len = 0
        /\ kind \in {"CONFIG", "DL_TTI", "UL_TTI", "UL_DCI"}
        /\ left \in Nat
    BY TypesWritten, LayoutAssumption DEF Init
  <1>2. pdu_offset = Envelope + HeaderLen[kind] /\ HeaderLen[kind] \in 1 .. 9
    BY <1>1 DEF Init, HeaderLen
  <1>3. req.num_pdus \in 0 .. CountMod - 1
    <2>1. \A n \in Nat : n % CountMod \in 0 .. CountMod - 1
      BY DivMod, LayoutAssumption
    <2>2. /\ 30 % CountMod \in 0 .. CountMod - 1 /\ left % CountMod \in 0 .. CountMod - 1
          /\ 0 \in 0 .. CountMod - 1
      BY <1>1, <2>1, LayoutAssumption
    <2>3. FirstCount(kind, left) \in 0 .. CountMod - 1
      BY <2>2 DEF FirstCount, NumTlvs
    <2> QED BY <2>3 DEF Init
  <1>4. TypeOK
    <2>1. out \in Seq(Entry(pdsch_index))
      BY <1>1
    <2>2. kind \in DOMAIN TypesOf
         /\ left \in 0 .. (IF kind = "CONFIG" THEN Len(TlvLens) ELSE MaxPdus)
      BY TypesWritten, LayoutAssumption DEF Init
    <2>3. req \in [num_pdus : 0 .. CountMod - 1, num_ulsch : 0 .. CountMod - 1,
                   num_ulcch : 0 .. CountMod - 1, rach_present : {0, 1}]
      BY <1>3, LayoutAssumption DEF Init
    <2>4. pdsch_index \in Nat /\ pdu_offset \in Nat /\ body_len \in Nat
      BY <1>1, <1>2 DEF Envelope
    <2> QED BY <2>1, <2>2, <2>3, <2>4 DEF TypeOK, Entry
  <1>5. Placed
    BY <1>1, <1>2 DEF Placed, Walk
  <1>5a. PuschBlocksInPlace
    BY <1>1 DEF PuschBlocksInPlace
  <1>6. \A t : NumOf(t) = 0
    BY <1>1, FS_EmptySet DEF NumOf
  <1>7. 0 % CountMod = 0
    BY LayoutAssumption
  <1>8. Counted
    BY <1>1, <1>6, <1>7, TypesWritten DEF Counted, Init, FirstCount, NumTlvs
  <1>9. Ranked
    BY <1>1, <1>6 DEF Ranked, PdschIndexIsRank
  <1>10. Roomy
    <2>1. kind = "CONFIG" => left = 30 /\ HeaderLen[kind] = 1
      BY TypesWritten DEF Init, HeaderLen
    <2> QED BY <1>1, <1>2, <2>1 DEF Roomy, LongestPdu, Envelope, ConfigOffset
  <1>11. Ended
    BY <1>1, <1>2 DEF Ended, Envelope
  <1> QED BY <1>4, <1>5, <1>5a, <1>8, <1>9, <1>10, <1>11 DEF Inv

(* What one item does to the list of entries.                              *)
LEMMA ItemAdded ==
  ASSUME Inv, NEW t \in TypesOf[kind], NEW u \in Items(t, left), WriteItem(u)
  PROVE  /\ Len(out) \in Nat /\ DOMAIN out = 1 .. Len(out) /\ out \in Seq(Entry(pdsch_index))
         /\ ItemSize(u) \in Nat /\ pdu_offset' = pdu_offset + ItemSize(u)
         /\ ItemSize(u) = 0 <=> t = "CSI_RS"
         /\ t # "CSI_RS" =>
              /\ Written(u) \in Entry(pdsch_index)
              /\ Len(out') = Len(out) + 1 /\ DOMAIN out' = 1 .. Len(out) + 1
              /\ \A i \in 1 .. Len(out) : out'[i] = out[i]
              /\ out'[Len(out) + 1] = Written(u)
              /\ out' \in Seq(Entry(pdsch_index))
         /\ t = "CSI_RS" => out' = out
  <1>1. /\ Len(out) \in Nat /\ DOMAIN out = 1 .. Len(out) /\ out \in Seq(Entry(pdsch_index))
        /\ pdsch_index \in Nat /\ pdu_offset \in Nat
    BY DEF Inv, TypeOK, Entry
  <1>2. u \in Item /\ u.type = t
    BY ItemType DEF Inv
  <1>3. ItemSize(u) \in Nat /\ (ItemSize(u) = 0 <=> t = "CSI_RS")
    BY <1>2, ItemType, Sizes DEF Inv
  <1>4. t = "CSI_RS" => out' = out
    BY <1>3 DEF WriteItem
  <1>5. ASSUME t # "CSI_RS" PROVE Written(u) \in Entry(pdsch_index) /\ out' = Append(out, Written(u))
    <2>1. u.type \in ItemTypes
      BY <1>2 DEF Item
    <2>2. /\ Bitmap(u) \in SUBSET Optional /\ Flag(u) \in {0, 1} /\ Blocks(u) \in SUBSET AllBlocks
          /\ [b \in AllBlocks |-> Start(u, b)] \in [AllBlocks -> Nat]
      <3>1. OwnBytes(u.type, u.n) \in Nat
        BY <1>2, ItemType, Sizes DEF Inv
      <3>2. \A b : Start(u, b) \in Nat
        BY <3>1, BlockLength DEF Start
      <3> QED BY <3>2 DEF Bitmap, Flag, Blocks
    <2>3. ItemSize(u) \in Nat \ {0} /\ ItemSize(u) > 0
      BY <1>3, <1>5
    <2>4. pdsch_index \in 0 .. pdsch_index
      BY <1>1
    <2> QED BY <1>1, <2>1, <2>2, <2>3, <2>4 DEF Written, Entry, WriteItem
  <1>6. t # "CSI_RS" => /\ Len(out') = Len(out) + 1 /\ DOMAIN out' = 1 .. Len(out) + 1
                        /\ \A i \in 1 .. Len(out) : out'[i] = out[i]
                        /\ out'[Len(out) + 1] = Written(u)
                        /\ out' \in Seq(Entry(pdsch_index))
    BY <1>1, <1>5
  <1>7. pdu_offset' = pdu_offset + ItemSize(u)
    BY DEF WriteItem
  <1> QED BY <1>1, <1>3, <1>4, <1>5, <1>6, <1>7

(* Writing an item, or leaving one out, keeps each part.                   *)
LEMMA WriteStep ==
  ASSUME Inv, NEW t \in TypesOf[kind], NEW u \in Items(t, left), WriteItem(u)
  PROVE  Inv'
  <1> DEFINE n == Len(out)
             w == Written(u)
  <1>1. /\ n \in Nat /\ DOMAIN out = 1 .. n /\ out \in Seq(Entry(pdsch_index))
        /\ ItemSize(u) \in Nat /\ pdu_offset' = pdu_offset + ItemSize(u)
        /\ (ItemSize(u) = 0 <=> t = "CSI_RS")
        /\ t = "CSI_RS" => out' = out
        /\ t # "CSI_RS" => /\ w \in Entry(pdsch_index)
                           /\ Len(out') = n + 1 /\ DOMAIN out' = 1 .. n + 1
                           /\ \A i \in 1 .. n : out'[i] = out[i]
                           /\ out'[n + 1] = w
                           /\ out' \in Seq(Entry(pdsch_index))
    BY ItemAdded
  <1>2. /\ u \in Item /\ u.type = t
        /\ t = "TLV" <=> kind = "CONFIG"
        /\ t = "CSI_RS" => kind = "DL_TTI"
        /\ t = "TLV" => \E i \in 1 .. 30 : i + left = 31 /\ u.n = TlvLens[i]
    BY ItemType DEF Inv
  <1>3. /\ kind' = kind /\ left' = left - 1 /\ left > 0 /\ body_len' = body_len
        /\ req' = Count(u) /\ pdsch_index' = pdsch_index + (IF t = "PDSCH" THEN 1 ELSE 0)
    BY <1>2 DEF WriteItem, NextIndex
  <1>4. /\ kind \in DOMAIN TypesOf /\ kind \in {"CONFIG", "DL_TTI", "UL_TTI", "UL_DCI"}
        /\ left \in Nat /\ pdsch_index \in Nat /\ pdu_offset \in Nat /\ body_len \in Nat
        /\ left <= (IF kind = "CONFIG" THEN Len(TlvLens) ELSE MaxPdus)
    BY TypesWritten, LayoutAssumption DEF Inv, TypeOK
  <1>5. w.type = t /\ w.at = pdu_offset /\ w.pdu_size = ItemSize(u) /\ w.index = pdsch_index
    BY <1>2 DEF Written
  <1>6. \A x : /\ NumOf(x) \in Nat
               /\ NumOf(x)' = NumOf(x) + (IF t = x /\ t # "CSI_RS" THEN 1 ELSE 0)
    <2> SUFFICES ASSUME NEW x PROVE /\ NumOf(x) \in Nat
                                    /\ NumOf(x)' = NumOf(x) + (IF t = x /\ t # "CSI_RS" THEN 1 ELSE 0)
      OBVIOUS
    <2>1. CASE t = "CSI_RS"
      <3>1. OfType(out, x) \in SUBSET (1 .. n)
        BY <1>1 DEF OfType
      <3>2. Cardinality(OfType(out, x)) \in Nat
        BY <3>1, <1>1, PositionsAreFinite
      <3> QED BY <2>1, <1>1, <3>2 DEF NumOf, OfType
    <2>2. CASE t # "CSI_RS"
      <3>1. /\ Cardinality(OfType(out, x)) \in Nat
            /\ Cardinality(OfType(out', x))
                 = Cardinality(OfType(out, x)) + (IF w.type = x THEN 1 ELSE 0)
        BY <1>1, <1>4, <2>2, OneMore
      <3> QED BY <2>2, <3>1, <1>5 DEF NumOf, OfType
    <2> QED BY <2>1, <2>2
  <1> HIDE DEF w
  <1>7. TypeOK'
    <2>1. kind' \in DOMAIN TypesOf
          /\ left' \in 0 .. (IF kind' = "CONFIG" THEN Len(TlvLens) ELSE MaxPdus)
      BY <1>3, <1>4, TypesWritten, LayoutAssumption
    <2>2. req' \in [num_pdus : 0 .. CountMod - 1, num_ulsch : 0 .. CountMod - 1,
                    num_ulcch : 0 .. CountMod - 1, rach_present : {0, 1}]
      <3>1. req \in [num_pdus : 0 .. CountMod - 1, num_ulsch : 0 .. CountMod - 1,
                     num_ulcch : 0 .. CountMod - 1, rach_present : {0, 1}]
        BY DEF Inv, TypeOK
      <3>2. ASSUME NEW c \in 0 .. CountMod - 1, NEW b \in BOOLEAN PROVE Up(c, b) \in 0 .. CountMod - 1
        <4>1. c + 1 \in Nat
          BY LayoutAssumption
        <4>2. (c + 1) % CountMod \in 0 .. CountMod - 1
          BY <4>1, DivMod, LayoutAssumption
        <4> QED BY <4>2 DEF Up
      <3>3. /\ Up(req.num_pdus, kind \in {"DL_TTI", "UL_TTI"} /\ ItemSize(u) > 0) \in 0 .. CountMod - 1
            /\ Up(req.num_ulsch, u.type = "PUSCH") \in 0 .. CountMod - 1
            /\ Up(req.num_ulcch, u.type = "PUCCH") \in 0 .. CountMod - 1
        BY <3>1, <3>2
      <3>4. (IF u.type = "PRACH" THEN 1 ELSE req.rach_present) \in {0, 1}
        BY <3>1
      <3> QED BY <1>3, <3>3, <3>4 DEF Count
    <2>3. pdsch_index' \in Nat /\ pdu_offset' \in Nat /\ body_len' \in Nat
      BY <1>1, <1>3, <1>4
    <2>4. out' \in Seq(Entry(pdsch_index'))
      <3>1. out' \in Seq(Entry(pdsch_index))
        BY <1>1
      <3>2. Entry(pdsch_index) \subseteq Entry(pdsch_index')
        BY <1>3, <1>4 DEF Entry
      <3> QED BY <3>1, <3>2
    <2> QED BY <2>1, <2>2, <2>3, <2>4 DEF TypeOK, Entry
  <1>8. Placed'
    <2>1. CASE t = "CSI_RS"
      <3>1. out' = out /\ pdu_offset' = pdu_offset /\ kind' = kind
        BY <1>1, <1>3, <1>4, <2>1
      <3>2. Placed
        BY DEF Inv
      <3> QED BY ONLY <3>1, <3>2 DEF Placed, Walk
    <2>2. CASE t # "CSI_RS"
      <3>1. ASSUME NEW i \in 1 .. n PROVE out'[i].at = Walk(i)'
        <4>1. out[i].at = Walk(i)
          BY <1>1 DEF Inv, Placed
        <4>2. out'[i] = out[i] /\ (i # 1 => out'[i - 1] = out[i - 1])
          BY <1>1, <2>2
        <4> QED BY <4>1, <4>2, <1>3 DEF Walk
      <3>2. ASSUME NEW i, i = n + 1 PROVE w.at = Walk(i)'
        <4>1. pdu_offset = Walk(i)
          BY <3>2 DEF Inv, Placed
        <4>2. i # 1 => out'[i - 1] = out[i - 1]
          BY <1>1, <2>2, <3>2
        <4>3. Walk(i)' = Walk(i)
          BY <4>2, <1>3 DEF Walk
        <4> QED BY <4>1, <4>3, <1>5
      <3>3. pdu_offset' = out'[Len(out')].at + out'[Len(out')].pdu_size /\ Len(out') # 0
        BY <1>1, <1>5, <2>2
      <3>4. Len(out') + 1 # 1 /\ (Len(out') + 1) - 1 = Len(out')
        BY <1>1, <2>2
      <3>5. pdu_offset' = Walk(Len(out) + 1)'
        BY <3>3, <3>4 DEF Walk
      <3>6. ASSUME NEW i \in DOMAIN out' PROVE out'[i].at = Walk(i)'
        <4>1. CASE i \in 1 .. n
          BY <3>1, <4>1
        <4>2. CASE i = n + 1
          BY <3>2, <4>2, <1>1, <2>2
        <4> QED BY <1>1, <2>2, <4>1, <4>2
      <3> QED BY <3>5, <3>6 DEF Placed
    <2> QED BY <2>1, <2>2
  <1>8a. PuschBlocksInPlace'
    <2>1. PuschBlocksInPlace
      BY DEF Inv
    <2>2. CASE t = "CSI_RS"
      <3>1. out' = out
        BY <1>1, <2>2
      <3> QED BY <2>1, <3>1 DEF PuschBlocksInPlace
    <2>3. CASE t # "CSI_RS"
      <3>1. ASSUME t = "PUSCH" PROVE BlocksInPlace(w)
        <4>1. u.type = "PUSCH" => OwnBytes(u.type, u.n) = PuschBytes
          BY <1>2, ItemType, Sizes DEF Inv
        <4> QED BY <1>2, <3>1, <4>1, PuschWritten DEF w
      <3> QED BY <1>1, <1>5, <2>1, <2>3, <3>1 DEF PuschBlocksInPlace
    <2> QED BY <2>2, <2>3
  <1>9. Counted'
    <2>1. /\ (kind \in {"DL_TTI", "UL_TTI"} => req.num_pdus = n % CountMod)
          /\ (kind \in {"UL_DCI", "CONFIG"} => req.num_pdus = (n + left) % CountMod)
          /\ req.num_ulsch = NumOf("PUSCH") % CountMod
          /\ req.num_ulcch = NumOf("PUCCH") % CountMod
          /\ (req.rach_present = 1 <=> \E i \in DOMAIN out : out[i].type = "PRACH")
      BY DEF Inv, Counted
    <2>2. kind \in {"DL_TTI", "UL_TTI"} => req'.num_pdus = Len(out') % CountMod
      <3>1. SUFFICES ASSUME kind \in {"DL_TTI", "UL_TTI"} PROVE req'.num_pdus = Len(out') % CountMod
        OBVIOUS
      <3>2. req'.num_pdus = IF ItemSize(u) > 0 THEN (req.num_pdus + 1) % CountMod ELSE req.num_pdus
        BY <1>3, <3>1 DEF Count, Up
      <3>3. ((n % CountMod) + 1) % CountMod = (n + 1) % CountMod
        BY <1>1, CountUp
      <3>4. CASE t = "CSI_RS"
        BY <1>1, <2>1, <3>1, <3>2, <3>4
      <3>5. CASE t # "CSI_RS"
        BY <1>1, <2>1, <3>1, <3>2, <3>3, <3>5
      <3> QED BY <3>4, <3>5
    <2>3. kind \in {"UL_DCI", "CONFIG"} => req'.num_pdus = (Len(out') + left') % CountMod
      <3>1. SUFFICES ASSUME kind \in {"UL_DCI", "CONFIG"}
                     PROVE  req'.num_pdus = (Len(out') + left') % CountMod
        OBVIOUS
      <3>2. req'.num_pdus = req.num_pdus
        BY <1>3, <3>1 DEF Count, Up
      <3>3. Len(out') + left' = n + left
        BY <1>1, <1>2, <1>3, <1>4, <3>1
      <3> QED BY <2>1, <3>1, <3>2, <3>3
    <2>4. req'.num_ulsch = NumOf("PUSCH")' % CountMod
      <3>1. req'.num_ulsch = IF t = "PUSCH" THEN (req.num_ulsch + 1) % CountMod ELSE req.num_ulsch
        BY <1>2, <1>3 DEF Count, Up
      <3>2. /\ NumOf("PUSCH") \in Nat
            /\ NumOf("PUSCH")' = NumOf("PUSCH") + (IF t = "PUSCH" THEN 1 ELSE 0)
        BY <1>6
      <3>3. ((NumOf("PUSCH") % CountMod) + 1) % CountMod = (NumOf("PUSCH") + 1) % CountMod
        BY <3>2, CountUp
      <3> QED BY <2>1, <3>1, <3>2, <3>3
    <2>5. req'.num_ulcch = NumOf("PUCCH")' % CountMod
      <3>1. req'.num_ulcch = IF t = "PUCCH" THEN (req.num_ulcch + 1) % CountMod ELSE req.num_ulcch
        BY <1>2, <1>3 DEF Count, Up
      <3>2. /\ NumOf("PUCCH") \in Nat
            /\ NumOf("PUCCH")' = NumOf("PUCCH") + (IF t = "PUCCH" THEN 1 ELSE 0)
        BY <1>6
      <3>3. ((NumOf("PUCCH") % CountMod) + 1) % CountMod = (NumOf("PUCCH") + 1) % CountMod
        BY <3>2, CountUp
      <3> QED BY <2>1, <3>1, <3>2, <3>3
    <2>6. req'.rach_present = 1 <=> \E i \in DOMAIN out' : out'[i].type = "PRACH"
      <3>1. req'.rach_present = IF t = "PRACH" THEN 1 ELSE req.rach_present
        BY <1>2, <1>3 DEF Count
      <3> QED BY <1>1, <1>5, <2>1, <3>1
    <2> QED BY <1>3, <2>2, <2>3, <2>4, <2>5, <2>6 DEF Counted
  <1>10. Ranked'
    <2>1. pdsch_index = NumOf("PDSCH") /\ PdschIndexIsRank
      BY DEF Inv, Ranked
    <2>2. pdsch_index' = NumOf("PDSCH")'
      BY <1>3, <1>6, <2>1
    <2>3. PdschIndexIsRank'
      <3>1. CASE t = "CSI_RS"
        BY <1>1, <2>1, <3>1 DEF PdschIndexIsRank
      <3>2. CASE t # "CSI_RS"
        <4>1. ASSUME NEW i \in 1 .. n + 1, out'[i].type = "PDSCH"
              PROVE  out'[i].index = Cardinality({j \in 1 .. (i - 1) : out'[j].type = "PDSCH"})
          <5>1. {j \in 1 .. (i - 1) : out'[j].type = "PDSCH"}
                  = {j \in 1 .. (i - 1) : out[j].type = "PDSCH"}
            BY <1>1, <3>2
          <5>2. CASE i \in 1 .. n
            BY <1>1, <2>1, <3>2, <4>1, <5>1, <5>2 DEF PdschIndexIsRank
          <5>3. CASE i = n + 1
            <6>1. {j \in 1 .. (i - 1) : out[j].type = "PDSCH"} = OfType(out, "PDSCH")
              BY <1>1, <5>3 DEF OfType
            <6> QED BY <1>1, <1>5, <2>1, <3>2, <5>1, <5>3, <6>1 DEF NumOf, OfType
          <5> QED BY <1>1, <5>2, <5>3
        <4> QED BY <1>1, <3>2, <4>1 DEF PdschIndexIsRank
      <3> QED BY <3>1, <3>2
    <2> QED BY <2>2, <2>3 DEF Ranked
  <1>11. Roomy'
    <2>1. CASE kind = "CONFIG"
      <3>1. /\ n + left = 30 /\ pdu_offset = ConfigOffset(n) /\ t = "TLV"
            /\ Len(out') = n + 1
        BY <1>1, <1>2, <2>1 DEF Inv, Roomy
      <3>2. PICK i \in 1 .. 30 : i + left = 31 /\ u.n = TlvLens[i]
        BY <1>2, <3>1
      <3>3. i = n + 1 /\ n \in 0 .. 29
        <4>1. n \in Nat /\ left \in Nat /\ n + left = 30 /\ i + left = 31
          BY <1>1, <1>4, <3>1, <3>2
        <4> HIDE DEF n
        <4> QED BY ONLY <4>1, i \in 1 .. 30
      <3>4. ItemSize(u) = TlvBytes(u.n)
        BY <1>2, <3>1, ItemType, Sizes DEF Inv
      <3>5. ItemSize(u) = IF i \in {7, 8} THEN 16 ELSE IF i = 30 THEN 144 ELSE 8
        BY <3>2, <3>4, TlvSizes
      <3>6. ConfigOffset(n + 1) = ConfigOffset(n) + ItemSize(u)
        <4>1. ASSUME NEW m \in 0 .. 29
              PROVE  ConfigOffset(m + 1) = ConfigOffset(m)
                       + (IF m + 1 \in {7, 8} THEN 16 ELSE IF m + 1 = 30 THEN 144 ELSE 8)
          BY DEF ConfigOffset
        <4> HIDE DEF n
        <4>2. ItemSize(u) = IF n + 1 \in {7, 8} THEN 16 ELSE IF n + 1 = 30 THEN 144 ELSE 8
          BY <3>3, <3>5
        <4>3. n \in 0 .. 29
          BY <3>3
        <4>4. ConfigOffset(n + 1) = ConfigOffset(n)
                + (IF n + 1 \in {7, 8} THEN 16 ELSE IF n + 1 = 30 THEN 144 ELSE 8)
          BY ONLY <4>1, <4>3, Zenon
        <4> QED BY ONLY <4>2, <4>4
      <3> QED BY <1>1, <1>3, <1>4, <2>1, <3>1, <3>6 DEF Roomy
    <2>2. CASE kind # "CONFIG"
      <3>1. pdu_offset <= Envelope + HeaderLen[kind] + LongestPdu * n
        BY <2>2 DEF Inv, Roomy
      <3>2. t # "TLV" /\ ItemSize(u) <= LongestPdu
        BY <1>2, <2>2, ItemType, Sizes DEF Inv
      <3>3. Envelope + HeaderLen[kind] \in Nat
        BY <1>4 DEF Envelope, HeaderLen
      <3>4. pdu_offset' <= Envelope + HeaderLen[kind] + LongestPdu * Len(out')
        BY <1>1, <1>4, <3>1, <3>2, <3>3 DEF LongestPdu
      <3> QED BY <1>3, <2>2, <3>4 DEF Roomy
    <2> QED BY <2>1, <2>2
  <1>12. Ended'
    BY <1>1, <1>3, <1>4 DEF Inv, Ended, Envelope
  <1> QED BY <1>7, <1>8, <1>8a, <1>9, <1>10, <1>11, <1>12 DEF Inv

(* Filling in the header only makes the length known.                      *)
LEMMA FinishStep ==
  ASSUME Inv, Finish
  PROVE  Inv'
  <1>1. /\ kind' = kind /\ left' = left /\ out' = out /\ req' = req
        /\ pdsch_index' = pdsch_index /\ pdu_offset' = pdu_offset
        /\ left = 0 /\ body_len' = pdu_offset - Envelope
    BY DEF Finish
  <1>2. pdu_offset \in Nat /\ pdu_offset > Envelope
    BY DEF Inv, TypeOK, Ended
  <1>3. TypeOK'
    BY <1>1, <1>2 DEF Inv, TypeOK, Envelope
  <1>4. Placed'
    BY <1>1 DEF Inv, Placed, Walk
  <1>4a. PuschBlocksInPlace'
    BY <1>1 DEF Inv, PuschBlocksInPlace
  <1>5. Counted'
    BY <1>1 DEF Inv, Counted, NumOf
  <1>6. Ranked'
    BY <1>1 DEF Inv, Ranked, NumOf, PdschIndexIsRank
  <1>7. Roomy'
    BY <1>1 DEF Inv, Roomy
  <1>8. Ended'
    BY <1>1, <1>2 DEF Ended, Envelope
  <1> QED BY <1>3, <1>4, <1>4a, <1>5, <1>6, <1>7, <1>8 DEF Inv

(* No step of the serializers breaks the invariant.                        *)
LEMMA InvNext == Inv /\ [Next]_vars => Inv'
  <1> SUFFICES ASSUME Inv, [Next]_vars PROVE Inv'
    OBVIOUS
  <1>1. ASSUME NEW t \in TypesOf[kind], NEW u \in Items(t, left), WriteItem(u) PROVE Inv'
    BY <1>1, WriteStep
  <1>2. CASE Finish
    BY <1>2, FinishStep
  <1>3. CASE UNCHANGED vars
    <2>1. /\ kind' = kind /\ left' = left /\ out' = out /\ req' = req /\ body_len' = body_len
          /\ pdsch_index' = pdsch_index /\ pdu_offset' = pdu_offset
      BY <1>3 DEF vars
    <2> QED BY <2>1 DEF Inv, TypeOK, Placed, Walk, PuschBlocksInPlace, Counted, NumOf, Ranked,
                        PdschIndexIsRank, Roomy, Ended
  <1> QED BY <1>1, <1>2, <1>3 DEF Next

(* The invariant holds while a request is being written, and after.        *)
THEOREM Invariance == Spec => []Inv
  <1> QED BY InvInit, InvNext, PTL DEF Spec

--------------------------------------------------------------------------------
(* Every variable has its type, for any number of PDUs.                    *)
THEOREM TypeCorrect == Spec => []TypeOK
  <1>1. Inv => TypeOK
    BY DEF Inv
  <1> QED BY <1>1, Invariance, PTL

(* L1 finds what was written, as many items as the header counts.          *)
THEOREM EveryPduIsFound == Spec => []WalkFindsEveryPdu
  <1>1. ASSUME Inv PROVE WalkFindsEveryPdu
    <2>1. \A i \in DOMAIN out : out[i].at = Walk(i)
      BY <1>1 DEF Inv, Placed
    <2>2. ASSUME body_len # 0
          PROVE  Envelope + body_len = Walk(Len(out) + 1) /\ req.num_pdus = Len(out) % CountMod
      <3>1. left = 0 /\ Envelope + body_len = pdu_offset
        BY <1>1, <2>2 DEF Inv, Ended
      <3>2. kind \in {"CONFIG", "DL_TTI", "UL_TTI", "UL_DCI"} /\ Len(out) \in Nat
        BY <1>1, TypesWritten DEF Inv, TypeOK
      <3>3. Len(out) + left = Len(out)
        BY <3>1, <3>2
      <3> QED BY <1>1, <3>1, <3>2, <3>3 DEF Inv, Placed, Counted
    <2> QED BY <1>1, <2>1, <2>2 DEF WalkFindsEveryPdu, Inv, Counted
  <1> QED BY <1>1, Invariance, PTL

(* In every PUSCH a parser that goes by the bitmap finds the blocks that   *)
(* were written, where they were written, and the end of the PDU.          *)
THEOREM PuschsAreParsed == Spec => []PuschBlocksInPlace
  <1>1. Inv => PuschBlocksInPlace
    BY DEF Inv
  <1> QED BY <1>1, Invariance, PTL

(* The index of a PDSCH is its rank among the PDSCHs.                      *)
THEOREM IndexIsRank == Spec => []PdschIndexIsRank
  <1>1. Inv => PdschIndexIsRank
    BY DEF Inv, Ranked
  <1> QED BY <1>1, Invariance, PTL

(* Nothing is written behind the buffer, however large it is.              *)
THEOREM BufferIsNeverPassed == Spec => []FitsBuffer
  <1>1. ASSUME Inv PROVE FitsBuffer
    <2>1. kind \in {"CONFIG", "DL_TTI", "UL_TTI", "UL_DCI"} /\ Len(out) \in Nat /\ pdu_offset \in Nat
          /\ left \in Nat
      BY <1>1, TypesWritten, LayoutAssumption DEF Inv, TypeOK
    <2>2. ASSUME kind = "CONFIG" PROVE pdu_offset <= Allocated[kind]
      <3>1. pdu_offset = ConfigOffset(Len(out)) /\ Len(out) <= 30
        BY <1>1, <2>1, <2>2 DEF Inv, Roomy
      <3>2. ConfigOffset(Len(out)) <= 520
        BY <2>1, <3>1 DEF ConfigOffset
      <3> QED BY <2>2, <3>1, <3>2 DEF Allocated, Envelope
    <2>3. ASSUME kind # "CONFIG", Len(out) <= RoomFor PROVE pdu_offset <= Allocated[kind]
      <3>1. Envelope + HeaderLen[kind] \in 13 .. 17 /\ Allocated[kind] = TtiBuf
        BY <2>1, <2>3 DEF Envelope, HeaderLen, Allocated
      <3>2. RoomFor = (TtiBuf - 17) \div 115
        <4>1. HeaderLen.UL_TTI = 9
          BY DEF HeaderLen
        <4>2. TtiBuf - Envelope - HeaderLen.UL_TTI = TtiBuf - 17
          BY <4>1, LayoutAssumption DEF Envelope
        <4> QED BY <4>2 DEF RoomFor, LongestPdu
      <3>3. 115 * Len(out) <= TtiBuf - 17
        BY <2>1, <2>3, <3>2, LayoutAssumption
      <3> QED BY <1>1, <2>1, <2>3, <3>1, <3>3, LayoutAssumption DEF Inv, Roomy, LongestPdu
    <2> QED BY <2>2, <2>3 DEF FitsBuffer
  <1> QED BY <1>1, Invariance, PTL
================================================================================
