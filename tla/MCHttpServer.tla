---------------------------- MODULE MCHttpServer ----------------------------
(* Instances of HttpServer for TLC.                                        *)
EXTENDS HttpServer

CONSTANTS w1, w2
=============================================================================
