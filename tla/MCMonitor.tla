----------------------------- MODULE MCMonitor -----------------------------
(* Instances of MonitorFiles for TLC.                                       *)
EXTENDS MonitorFiles

OneAround == {-1, 1}
=============================================================================
