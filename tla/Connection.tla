----------------------------- MODULE Connection -----------------------------
(***************************************************************************)
(* What yprocmon relies on of a WebSocket connection (websocketpp): it     *)
(* opens at most once, which calls on_open; it is sent to only while it is *)
(* open, in order; once it starts to close it ends; and on_close is called *)
(* exactly once, after the end of a connection that had opened and of no   *)
(* other.  Module Broadcast takes the steps of its con[c] from here.       *)
(***************************************************************************)
EXTENDS Naturals, Sequences

CONSTANT MaxSends  \* bound on the batches sent

VARIABLES
  con,    \* state of the connection
  calls,  \* the handlers called so far
  sent    \* number of batches accepted

vars == <<con, calls, sent>>

Init == con = "none" /\ calls = <<>> /\ sent = 0

Open ==
  /\ con = "none" /\ con' = "open"
  /\ calls' = Append(calls, "on_open")
  /\ UNCHANGED sent

Fail ==
  /\ con = "none" /\ con' = "failed"
  /\ UNCHANGED <<calls, sent>>

Send ==
  /\ con = "open" /\ sent < MaxSends
  /\ sent' = sent + 1
  /\ UNCHANGED <<con, calls>>

StartClosing ==
  /\ con = "open" /\ con' = "closing"
  /\ UNCHANGED <<calls, sent>>

Terminate ==
  /\ con \in {"open", "closing"} /\ con' = "closed"
  /\ UNCHANGED <<calls, sent>>

HandleTerminate ==
  /\ con = "closed" /\ con' = "gone"
  /\ calls' = Append(calls, "on_close")
  /\ UNCHANGED sent

Next == Open \/ Fail \/ Send \/ StartClosing \/ Terminate \/ HandleTerminate

(* A connection may stay open for ever, but neither closing nor closed.    *)
Spec ==
  /\ Init /\ [][Next]_vars
  /\ WF_vars(con = "closing" /\ Terminate)
  /\ WF_vars(HandleTerminate)
=============================================================================
