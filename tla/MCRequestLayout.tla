---------------------------- MODULE MCRequestLayout ----------------------------
(* Model checking of RequestLayout: the CONFIG.request and every TTI or DCI *)
(* request of up to four PDUs, with a count that wraps at four and a buffer *)
(* that has room for three of the longest.                                  *)
EXTENDS RequestLayout
================================================================================
