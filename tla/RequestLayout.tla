----------------------------- MODULE RequestLayout -----------------------------
(***************************************************************************)
(* The requests that are lists.  send_config_request appends TLVs with     *)
(* add_tlv; serialize_dl_tti_request, serialize_ul_tti_request and         *)
(* serialize_ul_dci_request pack OCUDU's PDUs one after the other.  A      *)
(* header counts the items, an item has its length in it, and a PUSCH says *)
(* in a bitmap what follows its fields.  L1 has nothing else to find its   *)
(* way, and the code never compares what it has written with the size of   *)
(* the buffer it has allocated.                                            *)
(*                                                                         *)
(* Field values are left out; lengths, counts, indices and the fields of a *)
(* PUSCH that announce optional blocks are kept.                           *)
(***************************************************************************)
EXTENDS Integers, Sequences, FiniteSets

CONSTANTS
  MaxPdus,   \* bound on the PDUs of a request
  CountMod,  \* the PDU counts are uint8_t: 2^8
  DciBits,   \* DCI payload sizes OCUDU uses in this instance
  TtiBuf     \* what the P7 gateways allocate: 15000 bytes

(* 568 bits are what makes a PDCCH as long as the longest PUSCH; NR's DCIs *)
(* have 140 at most.                                                       *)
ASSUME LayoutAssumption ==
  /\ MaxPdus \in Nat /\ CountMod \in Nat \ {0} /\ TtiBuf \in Nat
  /\ DciBits \subseteq 0 .. 568

TypesOf == [CONFIG |-> {"TLV"},
            DL_TTI |-> {"SSB", "PDCCH", "PDSCH", "CSI_RS"},
            UL_TTI |-> {"PRACH", "PUSCH", "PUCCH", "SRS"},
            UL_DCI |-> {"PDCCH"}]

ItemTypes == {"TLV", "SSB", "PDCCH", "PDSCH", "CSI_RS", "PRACH", "PUSCH", "PUCCH", "SRS"}

(* What precedes the first item: envelope, body header, request header.    *)
Envelope  == 8
HeaderLen == [CONFIG |-> 1, DL_TTI |-> 6, UL_TTI |-> 9, UL_DCI |-> 5]

(* num_tlvs and max_body of send_config_request, and the lengths of the    *)
(* values it appends: carrier and grids, SSB, PRACH, TDD.                  *)
NumTlvs == 30
Allocated == [CONFIG |-> Envelope + 512, DL_TTI |-> TtiBuf, UL_TTI |-> TtiBuf, UL_DCI |-> TtiBuf]
TlvLens == <<2, 4, 2, 2, 4, 2, 10, 10, 2, 1, 1,
             4, 2, 1, 1, 3, 4, 4,
             1, 1, 1, 1, 1, 2, 1, 2, 1, 1,
             1, 140>>

(* The blocks behind the part of a PDU that is always there: in a PUSCH    *)
(* up to three the bitmap has a bit for, by their bits, and the receive    *)
(* beamforming block, which L1 expects last and without a bit.             *)
Bit == [pusch_data |-> 0, pusch_uci |-> 1, dfts_ofdm |-> 3]
Optional == DOMAIN Bit
AllBlocks == Optional \cup {"rx_beamforming"}

(* The items that may be next, m of them being left.  n is the length of a *)
(* TLV's value, the bits of a DCI or the codewords of a PDSCH; a PUSCH has *)
(* two optionals and an alternative.                                       *)
Items(t, m) ==
  [type : {t},
   pusch_data          : IF t = "PUSCH" THEN BOOLEAN ELSE {FALSE},
   pusch_uci           : IF t = "PUSCH" THEN BOOLEAN ELSE {FALSE},
   transform_precoding : IF t = "PUSCH" THEN {"enabled", "disabled"} ELSE {"disabled"},
   n : IF t = "TLV" THEN {TlvLens[i] : i \in {j \in 1 .. NumTlvs : j + m = NumTlvs + 1}}
       ELSE IF t = "PDCCH" THEN DciBits ELSE IF t = "PDSCH" THEN {1, 2} ELSE {0}]

(* scf_generic_pdu_info, scf_bwp, the two beamforming blocks, and the      *)
(* optional blocks of a PUSCH.                                             *)
PduInfo == 4
Bwp == 6
TxBeamforming == 5
RxBeamforming == 5

(* Deviation: the transmit block, with two digital beam indices.           *)
BlockBytes_TwoBeams(s) ==
  (IF "pusch_data" \in s THEN 9 ELSE 0) + (IF "pusch_uci" \in s THEN 10 ELSE 0)
    + (IF "dfts_ofdm" \in s THEN 5 ELSE 0) + (IF "rx_beamforming" \in s THEN RxBeamforming + 2 ELSE 0)

BlockBytes(s) ==
  (IF "pusch_data" \in s THEN 9 ELSE 0) + (IF "pusch_uci" \in s THEN 10 ELSE 0)
    + (IF "dfts_ofdm" \in s THEN 5 ELSE 0) + (IF "rx_beamforming" \in s THEN RxBeamforming ELSE 0)

(* pdu_bitmap of a PUSCH, put together before anything else is known.      *)
Bitmap(u) ==
  {b \in Optional : \/ b = "pusch_data" /\ u.pusch_data
                    \/ b = "pusch_uci" /\ u.pusch_uci
                    \/ b = "dfts_ofdm" /\ u.transform_precoding = "enabled"}

(* Deviation: 1 means that transform precoding is on.                      *)
Flag_OneIfEnabled(u) == IF u.transform_precoding = "enabled" THEN 1 ELSE 0

(* The local transform_precoding, also a field of the PUSCH: 1 unless the  *)
(* PDU has the enabled alternative.                                        *)
Flag(u) == IF u.transform_precoding = "enabled" THEN 0 ELSE 1

(* The blocks serialize_*_pdu writes behind the part that is always there, *)
(* and where each begins (or would): behind the ones written before it.    *)
Blocks(u) ==
  {b \in AllBlocks : \/ b = "pusch_data" /\ u.pusch_data
                     \/ b = "pusch_uci" /\ u.pusch_uci
                     \/ b = "dfts_ofdm" /\ u.type = "PUSCH" /\ Flag(u) = 0
                     \/ b = "rx_beamforming" /\ u.type \in {"PUSCH", "PUCCH"}}

Turn == [pusch_data |-> 1, pusch_uci |-> 2, dfts_ofdm |-> 3, rx_beamforming |-> 4]

(* What is written before them: bytes of an item's own fields, and what    *)
(* there is of per value byte, DCI bit or codeword.                        *)
TlvBytes(n)   == 4 + 4 * ((n + 3) \div 4)
SsbBytes      == PduInfo + 12
PdcchBytes(n) == PduInfo + Bwp + 17 + 8 + TxBeamforming + 4 + (n + 7) \div 8
PdschBytes(n) == PduInfo + 6 + Bwp + 1 + 58 + TxBeamforming + 2 + 10 * n
PuschBytes    == PduInfo + 8 + Bwp + 68
PucchBytes    == PduInfo + 6 + Bwp + 12 + 22
SrsBytes      == PduInfo + 6 + Bwp + 22
PrachBytes    == PduInfo + 8

OwnBytes(t, n) ==
  [TLV |-> TlvBytes(n), SSB |-> SsbBytes, PDCCH |-> PdcchBytes(n), PDSCH |-> PdschBytes(n),
   CSI_RS |-> 0, PUSCH |-> PuschBytes, PUCCH |-> PucchBytes, SRS |-> SrsBytes,
   PRACH |-> PrachBytes][t]

Start(u, b) == OwnBytes(u.type, u.n) + BlockBytes({c \in Blocks(u) : Turn[c] < Turn[b]})

(* How far an item moves the write position.  CSI-RS has no code: nothing  *)
(* is written for it.                                                      *)
ItemSize(u) == OwnBytes(u.type, u.n) + BlockBytes(Blocks(u))

VARIABLES
  kind,        \* which request
  left,        \* items of the request not written yet
  out,         \* the items written: where, what, and what they say of themselves
  req,         \* the counts in the request header
  pdsch_index, \* next_pdsch_pdu_index
  pdu_offset,  \* pdu_offset; pdu_start in a UL_DCI.request, p - buf in a CONFIG
  body_len     \* length in the body header; 0 before the headers are filled in

vars == <<kind, left, out, req, pdsch_index, pdu_offset, body_len>>

(* CONFIG has its count from the start, UL_DCI the length of the list.     *)
FirstCount(k, n) ==
  IF k = "CONFIG" THEN NumTlvs % CountMod ELSE IF k = "UL_DCI" THEN n % CountMod ELSE 0

Init ==
  /\ kind \in DOMAIN TypesOf
  /\ left \in IF kind = "CONFIG" THEN {Len(TlvLens)} ELSE 0 .. MaxPdus
  /\ out = <<>> /\ pdsch_index = 0 /\ body_len = 0
  /\ pdu_offset = Envelope + HeaderLen[kind]
  /\ req = [num_pdus |-> FirstCount(kind, left), num_ulsch |-> 0,
            num_ulcch |-> 0, rach_present |-> 0]

Up(c, when) == IF when THEN (c + 1) % CountMod ELSE c

(* Deviations: a PDU that was not written is counted; the index of a PDSCH *)
(* is its place among all PDUs.                                            *)
Count_Skipped(u) ==
  [num_pdus     |-> Up(req.num_pdus, kind \in {"DL_TTI", "UL_TTI"}),
   num_ulsch    |-> Up(req.num_ulsch, u.type = "PUSCH"),
   num_ulcch    |-> Up(req.num_ulcch, u.type = "PUCCH"),
   rach_present |-> IF u.type = "PRACH" THEN 1 ELSE req.rach_present]

NextIndex_OfAll(u) == pdsch_index + 1

Count(u) ==
  [num_pdus     |-> Up(req.num_pdus, kind \in {"DL_TTI", "UL_TTI"} /\ ItemSize(u) > 0),
   num_ulsch    |-> Up(req.num_ulsch, u.type = "PUSCH"),
   num_ulcch    |-> Up(req.num_ulcch, u.type = "PUCCH"),
   rach_present |-> IF u.type = "PRACH" THEN 1 ELSE req.rach_present]

NextIndex(u) == pdsch_index + (IF u.type = "PDSCH" THEN 1 ELSE 0)

(* What is at pdu_offset afterwards.  blocks and start are not fields of   *)
(* the message: they say what is where.                                    *)
Written(u) == [type |-> u.type, at |-> pdu_offset, pdu_size |-> ItemSize(u), index |-> pdsch_index,
               bitmap |-> Bitmap(u), flag |-> Flag(u),
               blocks |-> Blocks(u), start |-> [b \in AllBlocks |-> Start(u, b)]]

(* One call of add_tlv, or one turn of the loop over msg.pdus.             *)
WriteItem(u) ==
  /\ left > 0
  /\ left' = left - 1
  /\ out' = IF ItemSize(u) > 0 THEN Append(out, Written(u)) ELSE out
  /\ pdu_offset' = pdu_offset + ItemSize(u)
  /\ req' = Count(u) /\ pdsch_index' = NextIndex(u)
  /\ UNCHANGED <<kind, body_len>>

(* write_headers; the end of send_config_request.                          *)
Finish ==
  /\ left = 0 /\ body_len = 0
  /\ body_len' = pdu_offset - Envelope
  /\ UNCHANGED <<kind, left, out, req, pdsch_index, pdu_offset>>

Next == (\E t \in TypesOf[kind] : \E u \in Items(t, left) : WriteItem(u)) \/ Finish

Spec == Init /\ [][Next]_vars

--------------------------------------------------------------------------------
(* Every variable has the values its declaration allows; in particular the *)
(* counts have their width.                                                *)
TypeOK ==
  /\ kind \in DOMAIN TypesOf
  /\ left \in 0 .. (IF kind = "CONFIG" THEN Len(TlvLens) ELSE MaxPdus)
  /\ req \in [num_pdus : 0 .. CountMod - 1, num_ulsch : 0 .. CountMod - 1,
              num_ulcch : 0 .. CountMod - 1, rach_present : {0, 1}]
  /\ pdsch_index \in Nat /\ pdu_offset \in Nat /\ body_len \in Nat
  /\ out \in Seq([type : ItemTypes, at : Nat, pdu_size : Nat \ {0}, index : 0 .. pdsch_index,
                  bitmap : SUBSET Optional, flag : {0, 1},
                  blocks : SUBSET AllBlocks, start : [AllBlocks -> Nat]])

(* L1's way through the message (external): the first item is behind the   *)
(* header, the next one as far behind an item as its size says.            *)
Walk(i) ==
  IF i = 1 THEN Envelope + HeaderLen[kind] ELSE out[i - 1].at + out[i - 1].pdu_size

(* L1 finds every item the code meant to send, and after the last one the  *)
(* end of the body, also with PDUs among them that the code leaves out     *)
(* (CSI-RS); there are as many as the header says, 30 TLVs included, and   *)
(* as many of each uplink type.  The counts say no more than 8 bits can:   *)
(* with 2^8 PDUs L1's walk would end early.                                *)
NumOf(t) == Cardinality({i \in DOMAIN out : out[i].type = t})

WalkFindsEveryPdu ==
  /\ \A i \in DOMAIN out : out[i].at = Walk(i)
  /\ body_len # 0 =>
       /\ Envelope + body_len = Walk(Len(out) + 1)
       /\ req.num_pdus = Len(out) % CountMod
       /\ req.num_ulsch = NumOf("PUSCH") % CountMod
       /\ req.num_ulcch = NumOf("PUCCH") % CountMod
       /\ req.rach_present = 1 <=> \E i \in DOMAIN out : out[i].type = "PRACH"

(* A parser of a PUSCH (external) takes the blocks its bitmap announces in *)
(* the order of their bits, and then the receive beamforming block, which  *)
(* "Aerial always expects".                                                *)
Announced(p) == p.bitmap \cup {"rx_beamforming"}
First(c, b)  == /\ c # "rx_beamforming"
                /\ b = "rx_beamforming" \/ (b \in Optional /\ Bit[c] < Bit[b])
ReadAt(p, b) == PuschBytes + BlockBytes({c \in Announced(p) : First(c, b)})

(* It finds each block where it was written, none that is not there, and   *)
(* at its end the end of the PDU; transform precoding tells it the same as *)
(* the bitmap.                                                             *)
BlocksInPlace(p) ==
  /\ Announced(p) = p.blocks
  /\ \A b \in p.blocks : ReadAt(p, b) = p.start[b]
  /\ ReadAt(p, "rx_beamforming") + RxBeamforming = p.pdu_size
  /\ p.flag = 0 <=> "dfts_ofdm" \in p.bitmap

(* So it is with every PUSCH: the bitmap, the conditions under which its   *)
(* blocks are written, their order, and the transform precoding field      *)
(* agree, though each is decided in a place of its own.                    *)
PuschBlocksInPlace ==
  \A i \in DOMAIN out : out[i].type = "PUSCH" => BlocksInPlace(out[i])

(* The index of a PDSCH is its rank among the PDSCHs of the request, with  *)
(* any other PDUs between them: what TX_DATA and L1's errors refer to.     *)
PdschIndexIsRank ==
  \A i \in DOMAIN out : out[i].type = "PDSCH" =>
    out[i].index = Cardinality({j \in 1 .. (i - 1) : out[j].type = "PDSCH"})

(* Nothing is written behind the allocated buffer, although nobody checks: *)
(* the TLVs fit, and so do as many PDUs as there is room for the longest   *)
(* one, a PUSCH with all its blocks.  15000 bytes are enough for 130; that *)
(* OCUDU asks for no more is not checked either, and not said here.        *)
LongestPdu == 115
RoomFor == (TtiBuf - Envelope - HeaderLen.UL_TTI) \div LongestPdu

FitsBuffer == kind = "CONFIG" \/ Len(out) <= RoomFor => pdu_offset <= Allocated[kind]

================================================================================
