-------------------------- MODULE MCIndicationDecode ---------------------------
(* Model checking of IndicationDecode: every message of up to three PDUs,  *)
(* cut off at every byte, as the data buffer is.                           *)
EXTENDS IndicationDecode
================================================================================
