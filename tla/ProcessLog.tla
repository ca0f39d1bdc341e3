----------------------------- MODULE ProcessLog -----------------------------
(* What the IPC server promises about state.messages (src/src/yprocmon.h): *)
(* an append-only log of what the monitored processes wrote.  Processes    *)
(* number their messages 1, 2, ...; the log holds a prefix of each one's   *)
(* messages in order, and the prefixes interleave in any way.              *)
EXTENDS Naturals, Sequences, FiniteSets

CONSTANTS
  Clients,    \* the monitored processes
  MaxWrites   \* bound on the messages of one process

VARIABLES
  client,     \* whether each process has the pipe open
  written,    \* messages accepted from each process
  log         \* who wrote each filed message, and its number

vars == <<client, written, log>>

Filed(c) == Cardinality({i \in DOMAIN log : log[i].author = c})

Init ==
  /\ client  = [c \in Clients |-> "idle"]
  /\ written = [c \in Clients |-> 0]
  /\ log     = <<>>

(* A process gets an instance of the pipe, or none, and keeps that result. *)
Start(c) ==
  /\ client[c] = "idle"
  /\ \E r \in {"open", "refused"} : client' = [client EXCEPT ![c] = r]
  /\ UNCHANGED <<written, log>>

Write(c) ==
  /\ client[c] = "open" /\ written[c] < MaxWrites
  /\ written' = [written EXCEPT ![c] = @ + 1]
  /\ UNCHANGED <<client, log>>

Close(c) ==
  /\ client[c] = "open"
  /\ client' = [client EXCEPT ![c] = "closed"]
  /\ UNCHANGED <<written, log>>

(* Filing may lag behind, even past the end of the process, or never       *)
(* happen, but it neither skips nor repeats.                               *)
File(c) ==
  /\ Filed(c) < written[c]
  /\ log' = Append(log, [author |-> c, seq |-> Filed(c) + 1])
  /\ UNCHANGED <<client, written>>

Next == \E c \in Clients : Start(c) \/ Write(c) \/ Close(c) \/ File(c)

Spec == Init /\ [][Next]_vars
=============================================================================
