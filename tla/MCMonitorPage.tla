--------------------------- MODULE MCMonitorPage ---------------------------
(* Instances of MonitorPage for TLC.                                       *)
EXTENDS MonitorPage, TLC

CONSTANTS f1, f2, p1, p2, s1, s2

Symmetric == Permutations(Files) \cup Permutations(Pids) \cup Permutations(Slots)
=============================================================================
