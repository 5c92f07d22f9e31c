------------------------------- MODULE MCMetrics -------------------------------
(* Two sessions with PUSCHs and their CRCs: four counters, two of them      *)
(* parts of a third, and the fourth counted by another thread.              *)
EXTENDS Metrics
================================================================================
