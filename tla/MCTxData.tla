-------------------------------- MODULE MCTxData -------------------------------
(* Model checking of TxData.  The buffer is 12 bytes with an alignment of  *)
(* 4, the TLV length holds 3 bits; sizes below, at and above each.         *)
EXTENDS TxData
================================================================================
