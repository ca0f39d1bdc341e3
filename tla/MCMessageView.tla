--------------------------- MODULE MCMessageView ---------------------------
(* Instances of MessageView for TLC: one batch of each run is malformed.   *)
EXTENDS MessageView

LastMalformed == {MaxBatches}
=============================================================================
