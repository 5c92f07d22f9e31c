------------------------------ MODULE MCUciDecode ------------------------------
(* Model checking of UciDecode: every combination of sections for each PDU *)
(* type with payloads OCUDU can and cannot hold, and PDUs cut by nothing,  *)
(* in a payload, in a section header, in the common part, in the header.   *)
EXTENDS UciDecode
================================================================================
