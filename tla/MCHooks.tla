------------------------------ MODULE MCHooks ------------------------------
(* Instances of Hooks for TLC.                                             *)
EXTENDS Hooks

CONSTANTS t1, t2
=============================================================================
