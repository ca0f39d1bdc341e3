---------------------------- MODULE MCIpcServer ----------------------------
(* Instances of IpcServer for TLC.                                         *)
EXTENDS IpcServer

CONSTANTS c1, c2
=============================================================================
