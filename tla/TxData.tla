--------------------------------- MODULE TxData --------------------------------
(***************************************************************************)
(* serialize_tx_data_request: the transport blocks of one TX_DATA.request  *)
(* are laid out one after the other in the CPU_DATA buffer, each block     *)
(* padded to an alignment boundary, and the message gets one PDU header    *)
(* per block with its length and its offset in the data buffer.            *)
(* L1 reads each block back from its header and the data length sent.      *)
(*                                                                         *)
(* The check of the message buffer, which returns -1, passes for the 15000 *)
(* bytes the gateway allocates and is left out; TxPath has that return.    *)
(***************************************************************************)
EXTENDS Integers, Sequences

CONSTANTS BufLen,   \* the data buffer: 576000 in send_tx_data_request
          Align,    \* 32
          TlvMod,   \* the TLV length is a uint16_t: 2^16
          TbLens,   \* transport block sizes OCUDU uses in this instance
          MaxPdus   \* bound on the PDUs of a request

ASSUME TxDataAssumption ==
  /\ Align \in Nat \ {0} /\ TlvMod \in Nat \ {0} /\ MaxPdus \in Nat
  /\ BufLen \in Nat /\ BufLen % Align = 0
  /\ TbLens \subseteq Nat

VARIABLES
  data_buf,     \* nvIPC gave the message a data buffer
  pdus,         \* the PDU headers written, in order
  data_offset,  \* data_offset of the loop
  sent          \* the loop is over and data_len = data_offset

vars == <<data_buf, pdus, data_offset, sent>>

(* stored is not in the message: whether the block was copied.             *)
Pdu == [pdu_len : TbLens, tlv_length : 0 .. TlvMod - 1, offset : Nat, stored : BOOLEAN]

(* (~tb_len + 1) & 31: what is missing to the next boundary.               *)
Padding(tb) == (Align - (tb % Align)) % Align

Init == data_buf \in BOOLEAN /\ pdus = <<>> /\ data_offset = 0 /\ sent = FALSE

Header(tb) == [pdu_len |-> tb, tlv_length |-> tb % TlvMod, offset |-> data_offset,
               stored |-> data_buf /\ data_offset + tb <= BufLen]

(* Deviations: no padding; the space test forgets what is in the buffer;   *)
(* the offset advances by the size rounded down instead of up.             *)
WritePdu_Unpadded(tb) ==
  /\ ~sent /\ Len(pdus) < MaxPdus
  /\ pdus' = Append(pdus, Header(tb))
  /\ data_offset' = IF Header(tb).stored THEN data_offset + tb ELSE data_offset
  /\ UNCHANGED <<data_buf, sent>>

WritePdu_WholeBuffer(tb) ==
  /\ ~sent /\ Len(pdus) < MaxPdus
  /\ pdus' = Append(pdus, [Header(tb) EXCEPT !.stored = data_buf /\ tb <= BufLen])
  /\ data_offset' = IF data_buf /\ tb <= BufLen THEN data_offset + tb + Padding(tb)
                                               ELSE data_offset
  /\ UNCHANGED <<data_buf, sent>>

WritePdu_RoundsDown(tb) ==
  /\ ~sent /\ Len(pdus) < MaxPdus
  /\ pdus' = Append(pdus, Header(tb))
  /\ data_offset' = IF Header(tb).stored THEN data_offset + tb - (tb % Align) ELSE data_offset
  /\ UNCHANGED <<data_buf, sent>>

(* One turn of the loop.  A block that does not fit keeps its header.      *)
WritePdu(tb) ==
  /\ ~sent /\ Len(pdus) < MaxPdus
  /\ pdus' = Append(pdus, Header(tb))
  /\ data_offset' = IF Header(tb).stored THEN data_offset + tb + Padding(tb) ELSE data_offset
  /\ UNCHANGED <<data_buf, sent>>

Finish == ~sent /\ sent' = TRUE /\ UNCHANGED <<data_buf, pdus, data_offset>>

Next == (\E tb \in TbLens : WritePdu(tb)) \/ Finish

Spec == Init /\ [][Next]_vars

--------------------------------------------------------------------------------
Stored == {i \in DOMAIN pdus : pdus[i].stored}
EndOf(i) == pdus[i].offset + pdus[i].pdu_len

(* Every variable has the type the code gives it.                          *)
TypeOK ==
  /\ data_buf \in BOOLEAN /\ pdus \in Seq(Pdu) /\ data_offset \in Nat /\ sent \in BOOLEAN

(* No two blocks that were copied share a byte: padding, a skipped block   *)
(* in between, and blocks of size zero included.  (What the header of a    *)
(* skipped block announces begins where the next block is copied to.)      *)
BlocksDisjoint == \A i, j \in Stored : i < j => EndOf(i) <= pdus[j].offset

(* A block is in the buffer exactly if all that its header tells L1 to     *)
(* read is inside the data length sent, which is inside the buffer although*)
(* only the block and not its padding is compared with the space left.     *)
(* A block that was not copied keeps its header, and that one points past  *)
(* the data length: comparing the two is how L1 can tell, and nothing else *)
(* says so.                                                                *)
StoredIffInside ==
  /\ data_offset <= BufLen
  /\ \A i \in Stored : EndOf(i) <= data_offset
  /\ \A i \in DOMAIN pdus \ Stored : pdus[i].pdu_len > 0 => EndOf(i) > data_offset

(* Every block starts at an alignment boundary, as L1 expects.             *)
BlocksAligned == \A i \in DOMAIN pdus : pdus[i].offset % Align = 0

--------------------------------------------------------------------------------
(* The comment on the TLV, "length = tb_size": not beyond 16 bits.         *)
TlvLengthIsTbSize == \A i \in DOMAIN pdus : pdus[i].tlv_length = pdus[i].pdu_len
================================================================================
