------------------------------- MODULE MCTxPath --------------------------------
(* Model checking of TxPath; the bounds are in the .cfg files.             *)
EXTENDS TxPath
================================================================================
