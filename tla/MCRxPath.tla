------------------------------- MODULE MCRxPath --------------------------------
(* Model checking of RxPath; the bounds are in the .cfg files.             *)
EXTENDS RxPath
================================================================================
