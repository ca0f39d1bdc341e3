--------------------------- MODULE MCSampleFiles ---------------------------
(* Instances of SampleFiles for TLC.                                       *)
EXTENDS SampleFiles

CONSTANTS u1, u2, u3
=============================================================================
