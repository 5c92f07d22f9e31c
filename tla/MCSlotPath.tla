------------------------------ MODULE MCSlotPath -------------------------------
(* Three frames of two or four slots stand for 1024 frames; L1 runs OCUDU's *)
(* numerology, the one below, or the one above.                             *)
EXTENDS SlotPath
================================================================================
