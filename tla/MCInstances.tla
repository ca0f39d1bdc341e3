---------------------------- MODULE MCInstances ----------------------------
(* Instances of Instances for TLC.                                         *)
EXTENDS Instances

CONSTANTS r1, r2, r3, p1, p2, p3
=============================================================================
