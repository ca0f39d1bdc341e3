--------------------------- MODULE IpcServerProofs ---------------------------
(* Theorems about the IPC server, for every number of instances, clients,  *)
(* message sizes and buffer limits the assumptions of IpcServer allow.     *)
EXTENDS IpcServer, FiniteSetTheorems, SequenceTheorems, TLAPS

(* The instances are created in order, and the server is in the middle of  *)
(* creating the one it is working on.                                      *)
CreatedInOrder ==
  /\ pc = "create" => pipe[cur] = "absent"
  /\ pc = "listen" => pipe[cur] # "absent"
  /\ Starting => \A s \in Slots : /\ s > cur => pipe[s] = "absent"
                                  /\ peer[s] # Nobody => peer[s] \in Early

(* Who has opened an instance, and where the server can be in its turn.    *)
TurnOK ==
  /\ pc \in {"read", "answer", "write", "disconnect"} =>
       pipe[cur] \in {"connected", "closing"}
  /\ pc = "connect" => pipe[cur] = "disconnected"
  /\ pc = "read" => dwState[cur] = "READING"
  /\ pc \in {"answer", "write"} => dwState[cur] = "WRITING"
  /\ \A s \in Slots :
       /\ pipe[s] = "disconnected" => cur = s /\ pc = "connect"
       /\ pipe[s] \in {"connected", "closing"} <=> peer[s] # Nobody

(* An instance nobody has opened is empty and, between turns, quiet.       *)
Unopened(s) ==
  /\ peer[s] = Nobody => inq[s] = <<>>
  /\ pipe[s] \in {"absent", "listening"} =>
       /\ dwState[s] = "CONNECTING"
       /\ event[s] => cur = s /\ pc = "listen"
  /\ pipe[s] = "absent" => ~fPendingIO[s]
  /\ pipe[s] # "absent" /\ ~Handling(s) /\ dwState[s] = "CONNECTING" =>
       fPendingIO[s] /\ io[s] = IF pipe[s] = "listening" THEN "pending" ELSE "ok"

UnopenedOK == \A s \in Slots : Unopened(s)

(* What waits in an instance, and what was read from it and is not filed   *)
(* yet, comes from the process that has it open.                           *)
Owned(s) ==
  /\ \A i \in DOMAIN inq[s] : inq[s][i].from = peer[s]
  /\ InHand(s) => request[s] \in Message /\ request[s].from = peer[s]

OwnershipOK == \A s \in Slots : Owned(s)

(* The inductive invariant.                                                *)
IInv ==
  /\ TypeOK
  /\ CreatedInOrder
  /\ TurnOK
  /\ UnopenedOK
  /\ OwnershipOK
  /\ Attribution
  /\ NotForgotten
  /\ NoStaleEvent
-----------------------------------------------------------------------------
(* Types.                                                                  *)

USE DEF serverVars, kernelVars, clientVars, vars

(* The initial state is well typed.                                        *)
LEMMA InitTypeOK == Init => TypeOK
  BY InstancesAssumption, BoundsAssumption
  DEF Init, TypeOK, Slots, Message, NoRequest

(* Starting or restarting a connect keeps the types.                       *)
LEMMA ConnectTypeOK ==
  ASSUME TypeOK, NEW s \in Slots, ConnectToNewClient(s),
         pc' \in {"create", "wait"}, cur' \in Slots
  PROVE  TypeOK'
  BY DEF TypeOK, ConnectToNewClient, ConnectNamedPipe, CanListen

(* The two tables of the main loop, as facts.                              *)
LEMMA FinishedType ==
  /\ Finished["CONNECTING"] = "READING"
  /\ Finished["READING"] = "WRITING"
  /\ Finished["WRITING"] = "READING"
  BY DEF Finished

LEMMA NextCallType ==
  /\ NextCall["CONNECTING"] = "stopped"
  /\ NextCall["READING"] = "read"
  /\ NextCall["WRITING"] = "answer"
  BY DEF NextCall

(* Every step keeps the types.                                             *)
LEMMA NextTypeOK == TypeOK /\ [Next]_vars => TypeOK'
<1> SUFFICES ASSUME TypeOK, [Next]_vars PROVE TypeOK'
  OBVIOUS
<1> USE DEF TypeOK
<1>1. CASE CreatePipe
  BY <1>1 DEF CreatePipe
<1>2. CASE CreateFails
  BY <1>2 DEF CreateFails
<1>3. CASE ListenFirst
  BY <1>3, ConnectTypeOK DEF ListenFirst
<1>4. ASSUME NEW s \in Slots, Wake(s) PROVE TypeOK'
  <2>1. dwState' \in [Slots -> {"CONNECTING", "READING", "WRITING"}]
    <3>0. dwState[s] \in {"CONNECTING", "READING", "WRITING"}
      OBVIOUS
    <3>1. Finished[dwState[s]] \in {"READING", "WRITING"}
      BY <3>0, FinishedType
    <3> QED BY <1>4, <3>1 DEF Wake
  <2>2. pc' \in {"stopped", "read", "answer", "disconnect"}
    <3>1. /\ NextCall[dwState[s]] \in {"stopped", "read", "answer"}
          /\ NextCall[Finished[dwState[s]]] \in {"read", "answer"}
      <4>1. CASE dwState[s] = "CONNECTING"
        BY <4>1, FinishedType, NextCallType
      <4>2. CASE dwState[s] = "READING"
        BY <4>2, FinishedType, NextCallType
      <4>3. CASE dwState[s] = "WRITING"
        BY <4>3, FinishedType, NextCallType
      <4> QED BY <4>1, <4>2, <4>3
    <3> QED BY <1>4, <3>1 DEF Wake
  <2> QED BY <1>4, <2>1, <2>2 DEF Wake
<1>5. CASE ReadNow
  <2>1. Head(inq[cur]) \in Message /\ Tail(inq[cur]) \in Seq(Message)
    BY <1>5 DEF ReadNow
  <2> QED BY <1>5, <2>1 DEF ReadNow, Completes
<1>6. CASE ReadPends
  BY <1>6 DEF ReadPends, Pends
<1>7. CASE ReadFails
  BY <1>7 DEF ReadFails, Fails
<1>8. CASE GetAnswerToRequest
  <2> DEFINE m == request[cur]
             e == [pid |-> peer[cur], author |-> m.from, seq |-> m.seq,
                   intact |-> m.size <= BufSize]
  <2>1. e \in Entry
    BY BoundsAssumption DEF Message, NoRequest, Entry
  <2> QED BY <1>8, <2>1 DEF GetAnswerToRequest
<1>21. CASE ParseCrashes
  BY <1>21 DEF ParseCrashes
<1>9. CASE WriteNow
  BY <1>9 DEF WriteNow, Completes
<1>10. CASE WritePends
  BY <1>10 DEF WritePends, Pends
<1>11. CASE WriteFails
  BY <1>11 DEF WriteFails, Fails
<1>12. CASE DisconnectNamedPipe
  BY <1>12 DEF DisconnectNamedPipe
<1>13. CASE Reconnect
  BY <1>13, ConnectTypeOK DEF Reconnect
<1>14. ASSUME NEW s \in Slots, CompleteWrite(s) PROVE TypeOK'
  BY <1>14 DEF CompleteWrite
<1>15. ASSUME NEW c \in Clients, OpenPipe(c) PROVE TypeOK'
  BY <1>15 DEF OpenPipe
<1>16. ASSUME NEW c \in Clients, OpenRefused(c) PROVE TypeOK'
  BY <1>16 DEF OpenRefused
<1>17. ASSUME NEW c \in Clients, WriteToReader(c) PROVE TypeOK'
  <2>1. PICK s \in Slots, size \in Sizes :
          /\ CanWrite(c, s)
          /\ written' = [written EXCEPT ![c] = @ + 1]
          /\ io'      = [io EXCEPT ![s] = IF Fits(Sent(c, size)) THEN "ok" ELSE "failed"]
          /\ event'   = [event EXCEPT ![s] = TRUE]
          /\ request' = [request EXCEPT ![s] = Sent(c, size)]
          /\ inq'     = [inq EXCEPT ![s] = IF Fits(Sent(c, size)) THEN @ ELSE <<Sent(c, size)>>]
          /\ UNCHANGED <<serverVars, pipe, peer, client>>
    BY <1>17 DEF WriteToReader
  <2>2. written[c] + 1 \in 1 .. MaxWrites
    BY <2>1, BoundsAssumption DEF CanWrite
  <2>3. Sent(c, size) \in Message
    BY <2>2 DEF Sent, Message
  <2> QED BY <2>1, <2>2, <2>3, BoundsAssumption
<1>18. ASSUME NEW c \in Clients, WriteToBuffer(c) PROVE TypeOK'
  <2>1. PICK s \in Slots, size \in Sizes :
          /\ CanWrite(c, s)
          /\ written' = [written EXCEPT ![c] = @ + 1]
          /\ inq'     = [inq EXCEPT ![s] = Append(@, Sent(c, size))]
          /\ UNCHANGED <<serverVars, pipe, peer, io, event, request, client>>
    BY <1>18 DEF WriteToBuffer
  <2>2. written[c] + 1 \in 1 .. MaxWrites
    BY <2>1, BoundsAssumption DEF CanWrite
  <2>3. Sent(c, size) \in Message
    BY <2>2 DEF Sent, Message
  <2> QED BY <2>1, <2>2, <2>3, BoundsAssumption
<1>19. ASSUME NEW c \in Clients, ClosePipe(c) PROVE TypeOK'
  BY <1>19 DEF ClosePipe
<1>20. CASE UNCHANGED vars
  BY <1>20
<1> QED
  BY <1>1, <1>2, <1>3, <1>4, <1>5, <1>6, <1>7, <1>8, <1>9, <1>10, <1>11, <1>12,
     <1>13, <1>14, <1>15, <1>16, <1>17, <1>18, <1>19, <1>20,
     <1>21 DEF Next, Server

(* Type correctness: every variable keeps the values the source gives it.  *)
THEOREM TypeCorrect == Spec => []TypeOK
  BY InitTypeOK, NextTypeOK, PTL DEF Spec
-----------------------------------------------------------------------------
(* The inductive step: first the effect of the steps several lemmas share. *)

(* What ConnectToNewClient does to the instance and to the others.         *)
LEMMA ConnectEffect ==
  ASSUME TypeOK, NEW s \in Slots, ConnectToNewClient(s)
  PROVE  /\ \A t \in Slots \ {s} :
              /\ pipe'[t] = pipe[t] /\ io'[t] = io[t] /\ event'[t] = event[t]
              /\ fPendingIO'[t] = fPendingIO[t] /\ dwState'[t] = dwState[t]
         /\ CanListen(s) =>
              /\ pipe'[s] = "listening" /\ io'[s] = "pending" /\ event'[s] = FALSE
              /\ fPendingIO'[s] = TRUE /\ dwState'[s] = "CONNECTING"
         /\ ~CanListen(s) =>
              /\ pipe'[s] = pipe[s] /\ io'[s] = "idle"
              /\ event'[s] = (pipe[s] = "connected")
              /\ fPendingIO'[s] = FALSE /\ dwState'[s] = "READING"
         /\ UNCHANGED <<messages, peer, inq, request, client, written>>
<1> USE DEF ConnectToNewClient, ConnectNamedPipe, TypeOK
<1>1. ASSUME NEW t \in Slots \ {s}
      PROVE  /\ pipe'[t] = pipe[t] /\ io'[t] = io[t] /\ event'[t] = event[t]
             /\ fPendingIO'[t] = fPendingIO[t] /\ dwState'[t] = dwState[t]
  OBVIOUS
<1>2. /\ event'[s] = (pipe[s] = "connected")
      /\ fPendingIO'[s] = CanListen(s)
  OBVIOUS
<1>3. CASE CanListen(s)
  <2>1. event'[s] = FALSE /\ fPendingIO'[s] = TRUE
    BY <1>2, <1>3 DEF CanListen
  <2>2. pipe'[s] = "listening" /\ io'[s] = "pending" /\ dwState'[s] = "CONNECTING"
    BY <1>3
  <2> QED BY <1>1, <1>3, <2>1, <2>2
<1>4. CASE ~CanListen(s)
  <2>1. fPendingIO'[s] = FALSE
    BY <1>2, <1>4
  <2>2. pipe'[s] = pipe[s] /\ io'[s] = "idle" /\ dwState'[s] = "READING"
    BY <1>4
  <2> QED BY <1>1, <1>2, <1>4, <2>1, <2>2
<1> QED BY <1>3, <1>4

(* What an OpenPipe step does to the instance it takes, and to the others. *)
OpensAt(c, s) ==
  /\ pipe[s] = "listening"
  /\ pipe'[s] = "connected" /\ peer'[s] = c
  /\ io'[s] = IF io[s] = "pending" THEN "ok" ELSE io[s]
  /\ io[s] = "pending" => event'[s] = TRUE
  /\ io[s] # "pending" => event'[s] = event[s]
  /\ \A t \in Slots \ {s} : /\ pipe'[t] = pipe[t] /\ peer'[t] = peer[t]
                            /\ io'[t] = io[t] /\ event'[t] = event[t]
  /\ Starting => c \in Early
  /\ UNCHANGED <<pc, cur, dwState, fPendingIO, messages, inq, request, written>>

LEMMA OpenEffect ==
  ASSUME TypeOK, NEW c \in Clients, OpenPipe(c)
  PROVE  \E s \in Slots : OpensAt(c, s)
<1>1. PICK s \in Slots :
        /\ pipe[s] = "listening"
        /\ pipe'  = [pipe EXCEPT ![s] = "connected"]
        /\ peer'  = [peer EXCEPT ![s] = c]
        /\ io'    = [io EXCEPT ![s] = IF @ = "pending" THEN "ok" ELSE @]
        /\ event' = [event EXCEPT ![s] = @ \/ io[s] = "pending"]
  BY DEF OpenPipe
<1>2. pipe'[s] = "connected" /\ peer'[s] = c /\ io'[s] = IF io[s] = "pending" THEN "ok" ELSE io[s]
  BY <1>1 DEF TypeOK
<1>3. event'[s] = (event[s] \/ io[s] = "pending")
  BY <1>1 DEF TypeOK
<1>4. /\ io[s] = "pending" => event'[s] = TRUE
      /\ io[s] # "pending" => event'[s] = event[s]
  BY <1>3 DEF TypeOK
<1>5. ASSUME NEW t \in Slots \ {s}
      PROVE  /\ pipe'[t] = pipe[t] /\ peer'[t] = peer[t]
             /\ io'[t] = io[t] /\ event'[t] = event[t]
  BY <1>1 DEF TypeOK
<1>6. (Starting => c \in Early) /\ UNCHANGED <<pc, cur, dwState, fPendingIO, messages, inq, request, written>>
  BY DEF OpenPipe, MayRun
<1> QED BY <1>1, <1>2, <1>4, <1>5, <1>6 DEF OpensAt

(* What a ClosePipe step does to the instances of the client, and others.  *)
LEMMA CloseEffect ==
  ASSUME TypeOK, NEW c \in Clients, ClosePipe(c)
  PROVE  /\ \A s \in Slots :
              /\ peer[s] = c => pipe'[s] = "closing"
              /\ peer[s] # c => pipe'[s] = pipe[s]
              /\ peer[s] = c /\ io[s] = "pending" => io'[s] = "failed" /\ event'[s] = TRUE
              /\ peer[s] # c \/ io[s] # "pending" => io'[s] = io[s] /\ event'[s] = event[s]
         /\ UNCHANGED <<pc, cur, dwState, fPendingIO, messages, peer, inq, request, written>>
<1> USE DEF ClosePipe
<1>1. ASSUME NEW s \in Slots
      PROVE  /\ peer[s] = c => pipe'[s] = "closing"
             /\ peer[s] # c => pipe'[s] = pipe[s]
             /\ peer[s] = c /\ io[s] = "pending" => io'[s] = "failed" /\ event'[s] = TRUE
             /\ peer[s] # c \/ io[s] # "pending" => io'[s] = io[s] /\ event'[s] = event[s]
  <2>1. pipe'[s] = IF peer[s] = c THEN "closing" ELSE pipe[s]
    OBVIOUS
  <2>2. io'[s] = IF peer[s] = c /\ io[s] = "pending" THEN "failed" ELSE io[s]
    OBVIOUS
  <2>3. event'[s] = (event[s] \/ (peer[s] = c /\ io[s] = "pending"))
    OBVIOUS
  <2>4. /\ peer[s] = c /\ io[s] = "pending" => event'[s] = TRUE
        /\ peer[s] # c \/ io[s] # "pending" => event'[s] = event[s]
    BY <2>3 DEF TypeOK
  <2> QED BY <2>1, <2>2, <2>4
<1>2. UNCHANGED <<pc, cur, dwState, fPendingIO, messages, peer, inq, request, written>>
  OBVIOUS
<1> QED BY <1>1, <1>2

(* What a write does: the pending read takes the message, or the buffer.   *)
WritesAt(c, s, m) ==
  /\ m \in Message /\ m.from = c
  /\ pipe[s] = "connected" /\ peer[s] = c
  /\ \/ /\ ReadPending(s)
        /\ io'[s] \in {"ok", "failed"} /\ event'[s] = TRUE /\ request'[s] = m
        /\ inq'[s] \in {inq[s], <<m>>}
     \/ /\ ~ReadPending(s)
        /\ io'[s] = io[s] /\ event'[s] = event[s] /\ request'[s] = request[s]
        /\ inq'[s] = Append(inq[s], m)
  /\ \A t \in Slots \ {s} : /\ io'[t] = io[t] /\ event'[t] = event[t]
                            /\ request'[t] = request[t] /\ inq'[t] = inq[t]
  /\ UNCHANGED <<pc, cur, dwState, fPendingIO, messages, pipe, peer, client>>

LEMMA WriteEffect ==
  ASSUME TypeOK, NEW c \in Clients, WriteToReader(c) \/ WriteToBuffer(c)
  PROVE  \E s \in Slots, m \in Message : WritesAt(c, s, m)
<1>1. CASE WriteToReader(c)
  <2>1. PICK s \in Slots, size \in Sizes :
          /\ CanWrite(c, s) /\ ReadPending(s)
          /\ io'      = [io EXCEPT ![s] = IF Fits(Sent(c, size)) THEN "ok" ELSE "failed"]
          /\ event'   = [event EXCEPT ![s] = TRUE]
          /\ request' = [request EXCEPT ![s] = Sent(c, size)]
          /\ inq'     = [inq EXCEPT ![s] = IF Fits(Sent(c, size)) THEN @ ELSE <<Sent(c, size)>>]
          /\ UNCHANGED <<pc, cur, dwState, fPendingIO, messages, pipe, peer, client>>
    BY <1>1 DEF WriteToReader
  <2>2. written[c] + 1 \in 1 .. MaxWrites
    BY <2>1, BoundsAssumption DEF CanWrite, TypeOK
  <2>3. Sent(c, size) \in Message /\ Sent(c, size).from = c
    BY <2>2 DEF Sent, Message
  <2>4. WritesAt(c, s, Sent(c, size))
    BY <2>1, <2>3 DEF WritesAt, CanWrite, TypeOK
  <2> QED BY <2>3, <2>4
<1>2. CASE WriteToBuffer(c)
  <2>1. PICK s \in Slots, size \in Sizes :
          /\ CanWrite(c, s) /\ ~ReadPending(s)
          /\ inq'     = [inq EXCEPT ![s] = Append(@, Sent(c, size))]
          /\ UNCHANGED <<serverVars, pipe, peer, io, event, request, client>>
    BY <1>2 DEF WriteToBuffer
  <2>2. written[c] + 1 \in 1 .. MaxWrites
    BY <2>1, BoundsAssumption DEF CanWrite, TypeOK
  <2>3. Sent(c, size) \in Message /\ Sent(c, size).from = c
    BY <2>2 DEF Sent, Message
  <2>4. WritesAt(c, s, Sent(c, size))
    BY <2>1, <2>3 DEF WritesAt, CanWrite, TypeOK
  <2> QED BY <2>3, <2>4
<1> QED BY <1>1, <1>2

(* Where the thread goes after WaitForMultipleObjects.                     *)
LEMMA WakeGoes ==
  ASSUME TypeOK, NEW s \in Slots, Wake(s)
  PROVE  /\ pc' \in {"stopped", "read", "answer", "disconnect"}
         /\ pc' = "read" => dwState'[s] = "READING"
         /\ pc' = "answer" => dwState'[s] = "WRITING"
         /\ \A t \in Slots \ {s} : dwState'[t] = dwState[t]
<1> USE DEF Wake, TypeOK
<1>1. CASE dwState[s] = "CONNECTING"
  BY <1>1, FinishedType, NextCallType
<1>2. CASE dwState[s] = "READING"
  BY <1>2, FinishedType, NextCallType
<1>3. CASE dwState[s] = "WRITING"
  BY <1>3, FinishedType, NextCallType
<1> QED BY <1>1, <1>2, <1>3

-----------------------------------------------------------------------------
(* One lemma per conjunct of the inductive invariant, one step per action. *)

(* Only start-up creates instances, in order.                              *)
LEMMA NextCreatedInOrder == IInv /\ TypeOK' /\ [Next]_vars => CreatedInOrder'
<1> SUFFICES ASSUME IInv, TypeOK', [Next]_vars PROVE CreatedInOrder'
  OBVIOUS
<1> USE DEF IInv, CreatedInOrder, Starting
<1>0. cur \in Slots
  BY DEF TypeOK
<1>1. CASE CreatePipe
  BY <1>1, InstancesAssumption DEF CreatePipe, TypeOK, Slots
<1>2. CASE CreateFails
  BY <1>2 DEF CreateFails, TypeOK
<1>3. CASE ListenFirst
  <2>1. pipe[cur] # "absent" /\ pc' \in {"create", "wait"}
    BY <1>3 DEF ListenFirst
  <2>2. pc' = "create" => cur' = cur + 1
    BY <1>3 DEF ListenFirst
  <2>3. UNCHANGED peer /\ \A t \in Slots \ {cur} : pipe'[t] = pipe[t]
    BY <1>3, <1>0, ConnectEffect DEF ListenFirst
  <2>4. pc' = "create" => \A t \in Slots : t >= cur' => pipe'[t] = "absent"
    BY <1>3, <1>0, <2>2, <2>3, InstancesAssumption DEF ListenFirst, Slots
  <2>5. cur' \in Slots
    BY DEF TypeOK
  <2> QED BY <1>3, <2>1, <2>3, <2>4, <2>5, InstancesAssumption DEF ListenFirst, Slots
<1>4. ASSUME NEW s \in Slots, Wake(s) PROVE CreatedInOrder'
  <2>1. pc' \notin {"create", "listen"}
    BY <1>4, WakeGoes
  <2> QED BY <2>1
<1>5. CASE ReadNow
  BY <1>5 DEF ReadNow, Completes, TypeOK
<1>6. CASE ReadPends
  BY <1>6 DEF ReadPends, Pends, TypeOK
<1>7. CASE ReadFails
  BY <1>7 DEF ReadFails, Fails, TypeOK
<1>8. CASE GetAnswerToRequest
  BY <1>8 DEF GetAnswerToRequest, TypeOK
<1>21. CASE ParseCrashes
  BY <1>21 DEF ParseCrashes, TypeOK
<1>9. CASE WriteNow
  BY <1>9 DEF WriteNow, Completes, TypeOK
<1>10. CASE WritePends
  BY <1>10 DEF WritePends, Pends, TypeOK
<1>11. CASE WriteFails
  BY <1>11 DEF WriteFails, Fails, TypeOK
<1>12. CASE DisconnectNamedPipe
  BY <1>12 DEF DisconnectNamedPipe, TypeOK
<1>13. CASE Reconnect
  BY <1>13, <1>0, ConnectEffect DEF Reconnect, CanListen
<1>14. ASSUME NEW s \in Slots, CompleteWrite(s) PROVE CreatedInOrder'
  BY <1>14 DEF CompleteWrite, TypeOK
<1>15. ASSUME NEW c \in Clients, OpenPipe(c) PROVE CreatedInOrder'
  <2>1. PICK s \in Slots : OpensAt(c, s)
    BY <1>15, OpenEffect
  <2> QED BY <1>0, <2>1 DEF OpensAt
<1>16. ASSUME NEW c \in Clients, OpenRefused(c) PROVE CreatedInOrder'
  BY <1>16 DEF OpenRefused, TypeOK
<1>17. ASSUME NEW c \in Clients, WriteToReader(c) PROVE CreatedInOrder'
  BY <1>17 DEF WriteToReader, CanWrite, TypeOK
<1>18. ASSUME NEW c \in Clients, WriteToBuffer(c) PROVE CreatedInOrder'
  BY <1>18 DEF WriteToBuffer, CanWrite, TypeOK
<1>19. ASSUME NEW c \in Clients, ClosePipe(c) PROVE CreatedInOrder'
  <2>1. UNCHANGED <<pc, cur, peer>>
    BY <1>19, CloseEffect
  <2>2. \A t \in Slots : pipe[t] = "absent" => pipe'[t] = "absent"
    <3>1. c # Nobody
      BY ClientsAssumption
    <3>2. \A t \in Slots : pipe[t] = "absent" => peer[t] # c
      BY <3>1 DEF TurnOK
    <3> QED BY <1>19, <3>2, CloseEffect
  <2>3. \A t \in Slots : pipe'[t] = "absent" => pipe[t] = "absent"
    BY <1>19, CloseEffect
  <2> QED BY <1>0, <2>1, <2>2, <2>3
<1>20. CASE UNCHANGED vars
  BY <1>20 DEF TypeOK
<1> QED
  BY <1>1, <1>2, <1>3, <1>4, <1>5, <1>6, <1>7, <1>8, <1>9, <1>10,
     <1>11, <1>12, <1>13, <1>14, <1>15, <1>16, <1>17, <1>18, <1>19, <1>20,
     <1>21
  DEF Next, Server

(* Every call the thread makes finds its instance in the right state.      *)
LEMMA NextTurnOK == IInv /\ TypeOK' /\ [Next]_vars => TurnOK'
<1> SUFFICES ASSUME IInv, TypeOK', [Next]_vars PROVE TurnOK'
  OBVIOUS
<1> USE DEF IInv, TurnOK
<1>0. cur \in Slots
  BY DEF TypeOK
<1>1. CASE CreatePipe
  BY <1>1 DEF CreatePipe, TypeOK, CreatedInOrder
<1>2. CASE CreateFails
  BY <1>2 DEF CreateFails, TypeOK
<1>3. CASE ListenFirst
  <2>1. pc' \in {"create", "wait"} /\ pipe[cur] # "absent" /\ UNCHANGED peer
    BY <1>3, <1>0, ConnectEffect DEF ListenFirst, CreatedInOrder
  <2>2. \A s \in Slots : pipe[s] # "disconnected"
    BY <1>3 DEF ListenFirst
  <2>3. \A s \in Slots : pipe'[s] = pipe[s]
    <3>1. TypeOK /\ ConnectToNewClient(cur)
      BY <1>3 DEF ListenFirst
    <3>2. \A s \in Slots \ {cur} : pipe'[s] = pipe[s]
      BY <3>1, <1>0, ConnectEffect
    <3>3. CanListen(cur) => pipe'[cur] = "listening" /\ pipe[cur] = "listening"
      BY <3>1, <1>0, <2>2, ConnectEffect DEF CanListen
    <3>4. ~CanListen(cur) => pipe'[cur] = pipe[cur]
      BY <3>1, <1>0, ConnectEffect
    <3> QED BY <3>2, <3>3, <3>4
  <2> QED BY <2>1, <2>2, <2>3
<1>4. ASSUME NEW s \in Slots, Wake(s) PROVE TurnOK'
  <2>1. UNCHANGED <<pipe, peer>> /\ cur' = s
    BY <1>4 DEF Wake
  <2>2. pipe[s] \in {"connected", "closing"}
    BY <1>4 DEF Wake, UnopenedOK, Unopened, TypeOK
  <2> QED BY <1>4, <2>1, <2>2, WakeGoes DEF Wake
<1>5. CASE ReadNow
  BY <1>5 DEF ReadNow, Completes, TypeOK
<1>6. CASE ReadPends
  BY <1>6 DEF ReadPends, Pends, TypeOK
<1>7. CASE ReadFails
  BY <1>7 DEF ReadFails, Fails, TypeOK
<1>8. CASE GetAnswerToRequest
  BY <1>8 DEF GetAnswerToRequest, TypeOK
<1>21. CASE ParseCrashes
  BY <1>21 DEF ParseCrashes, TypeOK
<1>9. CASE WriteNow
  BY <1>9 DEF WriteNow, Completes, TypeOK
<1>10. CASE WritePends
  BY <1>10 DEF WritePends, Pends, TypeOK
<1>11. CASE WriteFails
  BY <1>11 DEF WriteFails, Fails, TypeOK
<1>12. CASE DisconnectNamedPipe
  BY <1>12 DEF DisconnectNamedPipe, TypeOK
<1>13. CASE Reconnect
  <2>1. pc' = "wait" /\ cur' = cur /\ UNCHANGED peer
    BY <1>13, <1>0, ConnectEffect DEF Reconnect
  <2>2. pipe[cur] = "disconnected" /\ pipe'[cur] = "listening"
    BY <1>13, <1>0, ConnectEffect DEF Reconnect, CanListen
  <2>3. \A t \in Slots \ {cur} : pipe'[t] = pipe[t] /\ pipe[t] # "disconnected"
    BY <1>13, <1>0, ConnectEffect DEF Reconnect
  <2> QED BY <2>1, <2>2, <2>3
<1>14. ASSUME NEW s \in Slots, CompleteWrite(s) PROVE TurnOK'
  BY <1>14 DEF CompleteWrite, TypeOK
<1>15. ASSUME NEW c \in Clients, OpenPipe(c) PROVE TurnOK'
  <2>1. PICK s \in Slots : OpensAt(c, s)
    BY <1>15, OpenEffect
  <2> QED BY <1>0, <2>1, ClientsAssumption DEF OpensAt
<1>16. ASSUME NEW c \in Clients, OpenRefused(c) PROVE TurnOK'
  BY <1>16 DEF OpenRefused, TypeOK
<1>17. ASSUME NEW c \in Clients, WriteToReader(c) PROVE TurnOK'
  BY <1>17 DEF WriteToReader, CanWrite, TypeOK
<1>18. ASSUME NEW c \in Clients, WriteToBuffer(c) PROVE TurnOK'
  BY <1>18 DEF WriteToBuffer, CanWrite, TypeOK
<1>19. ASSUME NEW c \in Clients, ClosePipe(c) PROVE TurnOK'
  <2>1. UNCHANGED <<pc, cur, dwState, peer>>
    BY <1>19, CloseEffect
  <2>2. c # Nobody
    BY ClientsAssumption
  <2>3. \A s \in Slots : pipe'[s] = IF peer[s] = c THEN "closing" ELSE pipe[s]
    BY <1>19, CloseEffect
  <2>4. \A s \in Slots : peer[s] = c => pipe[s] \in {"connected", "closing"}
    BY <2>2
  <2> QED BY <1>0, <2>1, <2>2, <2>3, <2>4
<1>20. CASE UNCHANGED vars
  BY <1>20 DEF TypeOK
<1> QED
  BY <1>1, <1>2, <1>3, <1>4, <1>5, <1>6, <1>7, <1>8, <1>9, <1>10,
     <1>11, <1>12, <1>13, <1>14, <1>15, <1>16, <1>17, <1>18, <1>19, <1>20,
     <1>21
  DEF Next, Server

(* An instance nobody has opened stays empty and quiet.                    *)
LEMMA NextUnopenedOK == IInv /\ TypeOK' /\ [Next]_vars => UnopenedOK'
<1> SUFFICES ASSUME IInv, TypeOK', [Next]_vars PROVE UnopenedOK'
  OBVIOUS
<1> USE DEF IInv, UnopenedOK, Unopened, Handling
<1>0. cur \in Slots
  BY DEF TypeOK
<1>1. CASE CreatePipe
  BY <1>1 DEF CreatePipe, TypeOK, CreatedInOrder
<1>2. CASE CreateFails
  BY <1>2 DEF CreateFails, TypeOK
<1>3. CASE ListenFirst
  <2>1. pc = "listen" /\ pc' \in {"create", "wait"} /\ pipe[cur] # "absent"
    BY <1>3 DEF ListenFirst, CreatedInOrder
  <2>2. cur' # cur \/ pc' = "wait"
    BY <1>3, <1>0, InstancesAssumption DEF ListenFirst, Slots
  <2>3. UNCHANGED <<peer, inq>>
    BY <1>3, <1>0, ConnectEffect DEF ListenFirst
  <2>4. ASSUME NEW t \in Slots, t # cur PROVE Unopened(t)'
    <3>1. /\ pipe'[t] = pipe[t] /\ io'[t] = io[t] /\ event'[t] = event[t]
          /\ fPendingIO'[t] = fPendingIO[t] /\ dwState'[t] = dwState[t]
      BY <1>3, <1>0, <2>4, ConnectEffect DEF ListenFirst
    <3> QED BY <2>1, <2>3, <2>4, <3>1
  <2>5. CASE CanListen(cur)
    <3>1. /\ pipe'[cur] = "listening" /\ io'[cur] = "pending" /\ event'[cur] = FALSE
          /\ fPendingIO'[cur] = TRUE /\ dwState'[cur] = "CONNECTING"
      BY <1>3, <1>0, <2>5, ConnectEffect DEF ListenFirst
    <3> QED BY <1>0, <2>3, <2>4, <3>1
  <2>6. CASE ~CanListen(cur)
    <3>1. pipe'[cur] = pipe[cur] /\ dwState'[cur] = "READING"
      BY <1>3, <1>0, <2>6, ConnectEffect DEF ListenFirst
    <3> QED BY <1>0, <2>1, <2>3, <2>4, <2>6, <3>1 DEF CanListen
  <2> QED BY <2>5, <2>6
<1>4. ASSUME NEW s \in Slots, Wake(s) PROVE UnopenedOK'
  BY <1>4, FinishedType DEF Wake, TypeOK, TurnOK
<1>5. CASE ReadNow
  BY <1>5 DEF ReadNow, Completes, TypeOK, TurnOK
<1>6. CASE ReadPends
  BY <1>6 DEF ReadPends, Pends, TypeOK, TurnOK
<1>7. CASE ReadFails
  BY <1>7 DEF ReadFails, Fails, TypeOK, TurnOK
<1>8. CASE GetAnswerToRequest
  BY <1>8 DEF GetAnswerToRequest, TypeOK
<1>21. CASE ParseCrashes
  BY <1>21 DEF ParseCrashes, TypeOK, TurnOK
<1>9. CASE WriteNow
  BY <1>9 DEF WriteNow, Completes, TypeOK, TurnOK
<1>10. CASE WritePends
  BY <1>10 DEF WritePends, Pends, TypeOK, TurnOK
<1>11. CASE WriteFails
  BY <1>11 DEF WriteFails, Fails, TypeOK, TurnOK
<1>12. CASE DisconnectNamedPipe
  BY <1>12 DEF DisconnectNamedPipe, TypeOK
<1>13. CASE Reconnect
  <2>1. pc = "connect" /\ pc' = "wait" /\ cur' = cur /\ CanListen(cur)
    BY <1>13 DEF Reconnect, TurnOK, CanListen
  <2>2. peer[cur] = Nobody /\ UNCHANGED <<peer, inq>>
    BY <1>13, <1>0, <2>1, ConnectEffect DEF Reconnect, TurnOK, CanListen
  <2>3. /\ pipe'[cur] = "listening" /\ io'[cur] = "pending" /\ event'[cur] = FALSE
        /\ fPendingIO'[cur] = TRUE /\ dwState'[cur] = "CONNECTING"
    BY <1>13, <1>0, <2>1, ConnectEffect DEF Reconnect
  <2>4. \A t \in Slots \ {cur} :
          /\ pipe'[t] = pipe[t] /\ io'[t] = io[t] /\ event'[t] = event[t]
          /\ fPendingIO'[t] = fPendingIO[t] /\ dwState'[t] = dwState[t]
    BY <1>13, <1>0, ConnectEffect DEF Reconnect
  <2> QED BY <2>1, <2>2, <2>3, <2>4
<1>14. ASSUME NEW s \in Slots, CompleteWrite(s) PROVE UnopenedOK'
  BY <1>14 DEF CompleteWrite, TypeOK
<1>15. ASSUME NEW c \in Clients, OpenPipe(c) PROVE UnopenedOK'
  <2>1. PICK s \in Slots : OpensAt(c, s)
    BY <1>15, OpenEffect
  <2>2. ASSUME NEW t \in Slots \ {s} PROVE Unopened(t)'
    BY <2>1 DEF OpensAt
  <2>3. Unopened(s)'
    BY <2>1, ClientsAssumption DEF OpensAt
  <2> QED BY <2>2, <2>3
<1>16. ASSUME NEW c \in Clients, OpenRefused(c) PROVE UnopenedOK'
  BY <1>16 DEF OpenRefused, TypeOK
<1>17. ASSUME NEW c \in Clients, WriteToReader(c) PROVE UnopenedOK'
  <2>1. PICK s \in Slots, m \in Message : WritesAt(c, s, m)
    BY <1>17, WriteEffect
  <2>2. ASSUME NEW t \in Slots \ {s} PROVE Unopened(t)'
    BY <2>1 DEF WritesAt
  <2>3. Unopened(s)'
    BY <2>1, ClientsAssumption DEF WritesAt, ReadPending
  <2> QED BY <2>2, <2>3
<1>18. ASSUME NEW c \in Clients, WriteToBuffer(c) PROVE UnopenedOK'
  <2>1. PICK s \in Slots, m \in Message : WritesAt(c, s, m)
    BY <1>18, WriteEffect
  <2>2. ASSUME NEW t \in Slots \ {s} PROVE Unopened(t)'
    BY <2>1 DEF WritesAt
  <2>3. Unopened(s)'
    BY <2>1, ClientsAssumption DEF WritesAt, ReadPending
  <2> QED BY <2>2, <2>3
<1>19. ASSUME NEW c \in Clients, ClosePipe(c) PROVE UnopenedOK'
  <2>1. UNCHANGED <<pc, cur, dwState, fPendingIO, peer, inq>>
    BY <1>19, CloseEffect
  <2> SUFFICES ASSUME NEW s \in Slots PROVE Unopened(s)'
    OBVIOUS
  <2>2. CASE peer[s] = c
    <3>1. pipe[s] \in {"connected", "closing"} /\ pipe'[s] = "closing" /\ peer[s] # Nobody
      BY <1>19, <2>2, CloseEffect, ClientsAssumption DEF TurnOK
    <3>2. io[s] # "pending" => io'[s] = io[s]
      BY <1>19, <2>2, CloseEffect
    <3> QED BY <2>1, <3>1, <3>2
  <2>3. CASE peer[s] # c
    BY <1>19, <2>1, <2>3, CloseEffect
  <2> QED BY <2>2, <2>3
<1>20. CASE UNCHANGED vars
  BY <1>20 DEF TypeOK
<1> QED
  BY <1>1, <1>2, <1>3, <1>4, <1>5, <1>6, <1>7, <1>8, <1>9, <1>10,
     <1>11, <1>12, <1>13, <1>14, <1>15, <1>16, <1>17, <1>18, <1>19, <1>20,
     <1>21
  DEF Next, Server

(* Messages stay with the instance their writer has open.                  *)
LEMMA NextOwnershipOK == IInv /\ TypeOK' /\ [Next]_vars => OwnershipOK'
<1> SUFFICES ASSUME IInv, TypeOK', [Next]_vars PROVE OwnershipOK'
  OBVIOUS
<1> USE DEF IInv, OwnershipOK, Owned
<1>0. cur \in Slots
  BY DEF TypeOK
<1>1. CASE CreatePipe
  BY <1>1 DEF CreatePipe, TypeOK, InHand, Handling
<1>2. CASE CreateFails
  BY <1>2 DEF CreateFails, TypeOK, InHand, Handling
<1>3. CASE ListenFirst
  <2>1. UNCHANGED <<inq, peer, request>>
    BY <1>3, <1>0, ConnectEffect DEF ListenFirst
  <2>2. ASSUME NEW t \in Slots, t # cur PROVE InHand(t)' => InHand(t)
    <3>1. /\ pipe'[t] = pipe[t] /\ io'[t] = io[t] /\ event'[t] = event[t]
          /\ fPendingIO'[t] = fPendingIO[t] /\ dwState'[t] = dwState[t]
      BY <1>3, <1>0, <2>2, ConnectEffect DEF ListenFirst
    <3> QED BY <1>3, <2>2, <3>1 DEF ListenFirst, InHand, Handling
  <2>3. ASSUME NEW t \in Slots, t = cur PROVE ~InHand(t)'
    <3>1. \/ dwState'[cur] = "CONNECTING"
          \/ dwState'[cur] = "READING" /\ fPendingIO'[cur] = FALSE
      BY <1>3, <1>0, ConnectEffect DEF ListenFirst
    <3>2. pc' \in {"create", "wait"}
      BY <1>3 DEF ListenFirst
    <3>3. dwState'[t] = dwState'[cur] /\ fPendingIO'[t] = fPendingIO'[cur]
      BY <2>3
    <3> QED BY <3>1, <3>2, <3>3 DEF InHand, Handling
  <2> QED BY <2>1, <2>2, <2>3
<1>4. ASSUME NEW s \in Slots, Wake(s) PROVE OwnershipOK'
  <2>1. UNCHANGED <<inq, peer, request>>
    BY <1>4 DEF Wake
  <2>2. ASSUME NEW t \in Slots \ {s} PROVE InHand(t)' => InHand(t)
    BY <1>4, WakeGoes DEF Wake, InHand, Handling
  <2>3. InHand(s)' => InHand(s)
    <3>1. pc' = "answer" => \/ dwState[s] = "WRITING" /\ ~fPendingIO[s]
                            \/ dwState[s] = "READING" /\ fPendingIO[s] /\ io[s] = "ok"
      <4>1. CASE dwState[s] = "CONNECTING"
        BY <1>4, <4>1, FinishedType, NextCallType DEF Wake
      <4>2. CASE dwState[s] = "READING"
        BY <1>4, <4>2, FinishedType, NextCallType DEF Wake, TypeOK
      <4>3. CASE dwState[s] = "WRITING"
        BY <1>4, <4>3, FinishedType, NextCallType DEF Wake, TypeOK
      <4> QED BY <4>1, <4>2, <4>3 DEF TypeOK
    <3> QED BY <1>4, <3>1, WakeGoes DEF Wake, InHand, Handling
  <2> QED BY <2>1, <2>2, <2>3
<1>5. CASE ReadNow
  BY <1>5 DEF ReadNow, Completes, TypeOK, InHand, Handling
<1>6. CASE ReadPends
  BY <1>6 DEF ReadPends, Pends, TypeOK, InHand, Handling
<1>7. CASE ReadFails
  BY <1>7 DEF ReadFails, Fails, TypeOK, InHand, Handling
<1>8. CASE GetAnswerToRequest
  BY <1>8 DEF GetAnswerToRequest, TypeOK, InHand, Handling
<1>21. CASE ParseCrashes
  BY <1>21 DEF ParseCrashes, TypeOK, InHand, Handling
<1>9. CASE WriteNow
  BY <1>9 DEF WriteNow, Completes, TypeOK, InHand, Handling
<1>10. CASE WritePends
  BY <1>10 DEF WritePends, Pends, TypeOK, InHand, Handling
<1>11. CASE WriteFails
  BY <1>11 DEF WriteFails, Fails, TypeOK, InHand, Handling
<1>12. CASE DisconnectNamedPipe
  BY <1>12 DEF DisconnectNamedPipe, TypeOK, InHand, Handling
<1>13. CASE Reconnect
  <2>1. UNCHANGED <<inq, peer, request>>
    BY <1>13, <1>0, ConnectEffect DEF Reconnect
  <2>2. ASSUME NEW t \in Slots, t # cur PROVE InHand(t)' => InHand(t)
    <3>1. /\ pipe'[t] = pipe[t] /\ io'[t] = io[t] /\ event'[t] = event[t]
          /\ fPendingIO'[t] = fPendingIO[t] /\ dwState'[t] = dwState[t]
      BY <1>13, <1>0, <2>2, ConnectEffect DEF Reconnect
    <3> QED BY <1>13, <2>2, <3>1 DEF Reconnect, InHand, Handling
  <2>3. ASSUME NEW t \in Slots, t = cur PROVE ~InHand(t)'
    <3>1. \/ dwState'[cur] = "CONNECTING"
          \/ dwState'[cur] = "READING" /\ fPendingIO'[cur] = FALSE
      BY <1>13, <1>0, ConnectEffect DEF Reconnect
    <3>2. pc' \in {"create", "wait"}
      BY <1>13 DEF Reconnect
    <3>3. dwState'[t] = dwState'[cur] /\ fPendingIO'[t] = fPendingIO'[cur]
      BY <2>3
    <3> QED BY <3>1, <3>2, <3>3 DEF InHand, Handling
  <2> QED BY <2>1, <2>2, <2>3
<1>14. ASSUME NEW s \in Slots, CompleteWrite(s) PROVE OwnershipOK'
  BY <1>14 DEF CompleteWrite, TypeOK, InHand, Handling
<1>15. ASSUME NEW c \in Clients, OpenPipe(c) PROVE OwnershipOK'
  <2>1. PICK s \in Slots : OpensAt(c, s)
    BY <1>15, OpenEffect
  <2>2. ASSUME NEW t \in Slots \ {s} PROVE Owned(t)'
    BY <2>1 DEF OpensAt, InHand, Handling
  <2>3. pc # "crashed"
    BY <1>15 DEF OpenPipe, MayRun
  <2>4. inq[s] = <<>> /\ ~InHand(s)'
    BY <2>1, <2>3 DEF OpensAt, InHand, Handling, TurnOK, UnopenedOK, Unopened
  <2>5. Owned(s)'
    BY <2>1, <2>4 DEF OpensAt
  <2> QED BY <2>2, <2>5
<1>16. ASSUME NEW c \in Clients, OpenRefused(c) PROVE OwnershipOK'
  BY <1>16 DEF OpenRefused, TypeOK, InHand, Handling
<1>17. ASSUME NEW c \in Clients, WriteToReader(c) PROVE OwnershipOK'
  <2>1. PICK s \in Slots, m \in Message : WritesAt(c, s, m)
    BY <1>17, WriteEffect
  <2>2. ASSUME NEW t \in Slots \ {s} PROVE Owned(t)'
    BY <2>1 DEF WritesAt, InHand, Handling
  <2>3. InHand(s)' => request'[s] \in Message /\ request'[s].from = peer'[s]
    BY <2>1 DEF WritesAt, InHand, Handling
  <2>4. inq[s] \in Seq(Message)
    BY DEF TypeOK
  <2>5. \A i \in DOMAIN inq'[s] : inq'[s][i].from = peer'[s]
    <3>1. peer'[s] = c /\ m.from = c /\ m \in Message /\ \A i \in DOMAIN inq[s] : inq[s][i].from = c
      BY <2>1 DEF WritesAt
    <3>2. inq'[s] \in {inq[s], <<m>>, Append(inq[s], m)}
      BY <2>1 DEF WritesAt
    <3>3. \A i \in DOMAIN Append(inq[s], m) : Append(inq[s], m)[i].from = c
      BY <2>4, <3>1, AppendProperties
    <3> QED BY <3>1, <3>2, <3>3
  <2> QED BY <2>2, <2>3, <2>5
<1>18. ASSUME NEW c \in Clients, WriteToBuffer(c) PROVE OwnershipOK'
  <2>1. PICK s \in Slots, m \in Message : WritesAt(c, s, m)
    BY <1>18, WriteEffect
  <2>2. ASSUME NEW t \in Slots \ {s} PROVE Owned(t)'
    BY <2>1 DEF WritesAt, InHand, Handling
  <2>3. InHand(s)' => request'[s] \in Message /\ request'[s].from = peer'[s]
    BY <2>1 DEF WritesAt, InHand, Handling
  <2>4. inq[s] \in Seq(Message)
    BY DEF TypeOK
  <2>5. \A i \in DOMAIN inq'[s] : inq'[s][i].from = peer'[s]
    <3>1. peer'[s] = c /\ m.from = c /\ m \in Message /\ \A i \in DOMAIN inq[s] : inq[s][i].from = c
      BY <2>1 DEF WritesAt
    <3>2. inq'[s] \in {inq[s], <<m>>, Append(inq[s], m)}
      BY <2>1 DEF WritesAt
    <3>3. \A i \in DOMAIN Append(inq[s], m) : Append(inq[s], m)[i].from = c
      BY <2>4, <3>1, AppendProperties
    <3> QED BY <3>1, <3>2, <3>3
  <2> QED BY <2>2, <2>3, <2>5
<1>19. ASSUME NEW c \in Clients, ClosePipe(c) PROVE OwnershipOK'
  BY <1>19 DEF ClosePipe, TypeOK, InHand, Handling
<1>20. CASE UNCHANGED vars
  BY <1>20 DEF TypeOK, InHand, Handling
<1> QED
  BY <1>1, <1>2, <1>3, <1>4, <1>5, <1>6, <1>7, <1>8, <1>9, <1>10,
     <1>11, <1>12, <1>13, <1>14, <1>15, <1>16, <1>17, <1>18, <1>19, <1>20,
     <1>21
  DEF Next, Server

(* GetAnswerToRequest files the pid of the writer.                         *)
LEMMA NextAttribution == IInv /\ TypeOK' /\ [Next]_vars => Attribution'
<1> SUFFICES ASSUME IInv, TypeOK', [Next]_vars PROVE Attribution'
  OBVIOUS
<1> USE DEF IInv, Attribution
<1>0. cur \in Slots
  BY DEF TypeOK
<1>1. CASE CreatePipe
  BY <1>1 DEF CreatePipe, TypeOK
<1>2. CASE CreateFails
  BY <1>2 DEF CreateFails, TypeOK
<1>3. CASE ListenFirst
  <2>1. UNCHANGED messages
    BY <1>3, <1>0, ConnectEffect DEF ListenFirst
  <2> QED BY <2>1
<1>4. ASSUME NEW s \in Slots, Wake(s) PROVE Attribution'
  BY <1>4 DEF Wake, TypeOK
<1>5. CASE ReadNow
  BY <1>5 DEF ReadNow, Completes, TypeOK
<1>6. CASE ReadPends
  BY <1>6 DEF ReadPends, Pends, TypeOK
<1>7. CASE ReadFails
  BY <1>7 DEF ReadFails, Fails, TypeOK
<1>8. CASE GetAnswerToRequest
  <2> DEFINE e == [pid    |-> peer[cur],        author |-> request[cur].from,
                   seq    |-> request[cur].seq, intact |-> request[cur].size <= BufSize]
  <2>1. e.pid = e.author /\ e.pid # Nobody
    BY <1>8, <1>0, ClientsAssumption
    DEF GetAnswerToRequest, OwnershipOK, Owned, InHand, Handling, Message
  <2>2. messages' = Append(messages, e) /\ messages \in Seq(Entry)
    BY <1>8 DEF GetAnswerToRequest, TypeOK
  <2> QED BY <2>1, <2>2
<1>21. CASE ParseCrashes
  BY <1>21 DEF ParseCrashes, TypeOK
<1>9. CASE WriteNow
  BY <1>9 DEF WriteNow, Completes, TypeOK
<1>10. CASE WritePends
  BY <1>10 DEF WritePends, Pends, TypeOK
<1>11. CASE WriteFails
  BY <1>11 DEF WriteFails, Fails, TypeOK
<1>12. CASE DisconnectNamedPipe
  BY <1>12 DEF DisconnectNamedPipe, TypeOK
<1>13. CASE Reconnect
  <2>1. UNCHANGED messages
    BY <1>13, <1>0, ConnectEffect DEF Reconnect
  <2> QED BY <2>1
<1>14. ASSUME NEW s \in Slots, CompleteWrite(s) PROVE Attribution'
  BY <1>14 DEF CompleteWrite, TypeOK
<1>15. ASSUME NEW c \in Clients, OpenPipe(c) PROVE Attribution'
  BY <1>15 DEF OpenPipe, TypeOK
<1>16. ASSUME NEW c \in Clients, OpenRefused(c) PROVE Attribution'
  BY <1>16 DEF OpenRefused, TypeOK
<1>17. ASSUME NEW c \in Clients, WriteToReader(c) PROVE Attribution'
  BY <1>17 DEF WriteToReader, CanWrite, TypeOK
<1>18. ASSUME NEW c \in Clients, WriteToBuffer(c) PROVE Attribution'
  BY <1>18 DEF WriteToBuffer, CanWrite, TypeOK
<1>19. ASSUME NEW c \in Clients, ClosePipe(c) PROVE Attribution'
  BY <1>19 DEF ClosePipe, TypeOK
<1>20. CASE UNCHANGED vars
  BY <1>20 DEF TypeOK
<1> QED
  BY <1>1, <1>2, <1>3, <1>4, <1>5, <1>6, <1>7, <1>8, <1>9, <1>10,
     <1>11, <1>12, <1>13, <1>14, <1>15, <1>16, <1>17, <1>18, <1>19, <1>20,
     <1>21
  DEF Next, Server

(* No step leaves an instance the thread is not working on unwatched.      *)
LEMMA NextNotForgotten == IInv /\ TypeOK' /\ [Next]_vars => NotForgotten'
<1> SUFFICES ASSUME IInv, TypeOK', [Next]_vars PROVE NotForgotten'
  OBVIOUS
<1> USE DEF IInv, NotForgotten, Watched, Handling
<1>0. cur \in Slots
  BY DEF TypeOK
<1>1. CASE CreatePipe
  BY <1>1 DEF CreatePipe, TypeOK, CreatedInOrder
<1>2. CASE CreateFails
  BY <1>2 DEF CreateFails, TypeOK, CreatedInOrder
<1>3. CASE ListenFirst
  <2>1. pipe[cur] # "absent" /\ UNCHANGED peer
    BY <1>3, <1>0, ConnectEffect DEF ListenFirst, CreatedInOrder
  <2>2. ASSUME NEW t \in Slots, t # cur PROVE Watched(t)'
    <3>1. TypeOK /\ ConnectToNewClient(cur)
      BY <1>3 DEF ListenFirst
    <3>a. Watched(t)
      BY <2>2
    <3> HIDE DEF IInv, NotForgotten
    <3>2. /\ pipe'[t] = pipe[t] /\ io'[t] = io[t] /\ event'[t] = event[t]
          /\ fPendingIO'[t] = fPendingIO[t] /\ dwState'[t] = dwState[t]
      BY <1>0, <2>2, <3>1, ConnectEffect
    <3> QED BY <2>1, <2>2, <3>a, <3>2
  <2>3. CASE CanListen(cur)
    <3>1. io'[cur] = "pending" /\ fPendingIO'[cur] = TRUE
      BY <1>3, <1>0, <2>3, ConnectEffect DEF ListenFirst
    <3> QED BY <1>0, <2>2, <3>1
  <2>4. CASE ~CanListen(cur)
    <3>1. /\ pipe'[cur] = pipe[cur]
          /\ event'[cur] = (pipe[cur] = "connected")
      BY <1>3, <1>0, <2>4, ConnectEffect DEF ListenFirst
    <3>2. pipe[cur] \in {"connected", "closing"}
      BY <1>0, <2>1, <2>4 DEF CanListen, TypeOK
    <3>3. peer[cur] \in Early
      BY <1>3, <1>0, <3>2 DEF ListenFirst, TurnOK, CreatedInOrder, Starting
    <3>4. CASE pipe[cur] = "connected"
      BY <1>0, <2>2, <3>1, <3>4
    <3>5. CASE pipe[cur] = "closing"
      BY <1>0, <2>1, <2>2, <3>1, <3>3, <3>5
    <3> QED BY <3>2, <3>4, <3>5
  <2> QED BY <2>3, <2>4
<1>4. ASSUME NEW s \in Slots, Wake(s) PROVE NotForgotten'
  BY <1>4 DEF Wake, TypeOK
<1>5. CASE ReadNow
  BY <1>5 DEF ReadNow, Completes, TypeOK
<1>6. CASE ReadPends
  BY <1>6 DEF ReadPends, Pends, TypeOK
<1>7. CASE ReadFails
  BY <1>7 DEF ReadFails, Fails, TypeOK
<1>8. CASE GetAnswerToRequest
  BY <1>8 DEF GetAnswerToRequest, TypeOK
<1>21. CASE ParseCrashes
  BY <1>21 DEF ParseCrashes, TypeOK
<1>9. CASE WriteNow
  BY <1>9 DEF WriteNow, Completes, TypeOK
<1>10. CASE WritePends
  BY <1>10 DEF WritePends, Pends, TypeOK
<1>11. CASE WriteFails
  BY <1>11 DEF WriteFails, Fails, TypeOK
<1>12. CASE DisconnectNamedPipe
  BY <1>12 DEF DisconnectNamedPipe, TypeOK
<1>13. CASE Reconnect
  <2>1. CanListen(cur)
    BY <1>13, <1>0 DEF Reconnect, TurnOK, CanListen
  <2>2. /\ io'[cur] = "pending" /\ fPendingIO'[cur] = TRUE
        /\ UNCHANGED peer
        /\ \A t \in Slots \ {cur} :
             /\ pipe'[t] = pipe[t] /\ io'[t] = io[t] /\ event'[t] = event[t]
             /\ fPendingIO'[t] = fPendingIO[t] /\ dwState'[t] = dwState[t]
    BY <1>13, <1>0, <2>1, ConnectEffect DEF Reconnect
  <2>3. \A t \in Slots \ {cur} : Watched(t)'
    BY <1>13, <2>2 DEF Reconnect
  <2> QED BY <1>0, <2>2, <2>3
<1>14. ASSUME NEW s \in Slots, CompleteWrite(s) PROVE NotForgotten'
  BY <1>14 DEF CompleteWrite, TypeOK
<1>15. ASSUME NEW c \in Clients, OpenPipe(c) PROVE NotForgotten'
  <2>1. PICK s \in Slots : OpensAt(c, s)
    BY <1>15, OpenEffect
  <2>2. ASSUME NEW t \in Slots \ {s} PROVE Watched(t)'
    BY <2>1 DEF OpensAt
  <2>3. Watched(s)'
    BY <2>1 DEF OpensAt
  <2> QED BY <2>2, <2>3
<1>16. ASSUME NEW c \in Clients, OpenRefused(c) PROVE NotForgotten'
  BY <1>16 DEF OpenRefused, TypeOK
<1>17. ASSUME NEW c \in Clients, WriteToReader(c) PROVE NotForgotten'
  <2>1. PICK s \in Slots, m \in Message : WritesAt(c, s, m)
    BY <1>17, WriteEffect
  <2>2. ASSUME NEW t \in Slots \ {s} PROVE Watched(t)'
    BY <2>1 DEF WritesAt
  <2>3. Watched(s)'
    BY <2>1 DEF WritesAt
  <2> QED BY <2>2, <2>3
<1>18. ASSUME NEW c \in Clients, WriteToBuffer(c) PROVE NotForgotten'
  <2>1. PICK s \in Slots, m \in Message : WritesAt(c, s, m)
    BY <1>18, WriteEffect
  <2>2. ASSUME NEW t \in Slots \ {s} PROVE Watched(t)'
    BY <2>1 DEF WritesAt
  <2>3. Watched(s)'
    BY <2>1 DEF WritesAt
  <2> QED BY <2>2, <2>3
<1>19. ASSUME NEW c \in Clients, ClosePipe(c) PROVE NotForgotten'
  <2>1. UNCHANGED <<pc, cur, fPendingIO, peer>>
    BY <1>19, CloseEffect
  <2> SUFFICES ASSUME NEW s \in Slots PROVE Watched(s)'
    OBVIOUS
  <2>2. CASE peer[s] = c
    <3>1. pipe[s] # "absent"
      BY <2>2, ClientsAssumption DEF TurnOK
    <3> QED BY <1>19, <2>1, <2>2, <3>1, CloseEffect
  <2>3. CASE peer[s] # c
    BY <1>19, <2>1, <2>3, CloseEffect
  <2> QED BY <2>2, <2>3
<1>20. CASE UNCHANGED vars
  BY <1>20 DEF TypeOK
<1> QED
  BY <1>1, <1>2, <1>3, <1>4, <1>5, <1>6, <1>7, <1>8, <1>9, <1>10,
     <1>11, <1>12, <1>13, <1>14, <1>15, <1>16, <1>17, <1>18, <1>19, <1>20,
     <1>21
  DEF Next, Server

(* A set event of a pending call is the event of that call.                *)
LEMMA NextNoStaleEvent == IInv /\ TypeOK' /\ [Next]_vars => NoStaleEvent'
<1> SUFFICES ASSUME IInv, TypeOK', [Next]_vars PROVE NoStaleEvent'
  OBVIOUS
<1> USE DEF IInv, NoStaleEvent
<1>0. cur \in Slots
  BY DEF TypeOK
<1>1. CASE CreatePipe
  BY <1>1 DEF CreatePipe, TypeOK, CreatedInOrder, UnopenedOK, Unopened
<1>2. CASE CreateFails
  BY <1>2 DEF CreateFails, TypeOK
<1>3. CASE ListenFirst
  BY <1>3, <1>0, ConnectEffect DEF ListenFirst, CanListen
<1>4. ASSUME NEW s \in Slots, Wake(s) PROVE NoStaleEvent'
  BY <1>4 DEF Wake, TypeOK
<1>5. CASE ReadNow
  BY <1>5 DEF ReadNow, Completes, TypeOK
<1>6. CASE ReadPends
  BY <1>6 DEF ReadPends, Pends, TypeOK
<1>7. CASE ReadFails
  BY <1>7 DEF ReadFails, Fails, TypeOK
<1>8. CASE GetAnswerToRequest
  BY <1>8 DEF GetAnswerToRequest, TypeOK
<1>21. CASE ParseCrashes
  BY <1>21 DEF ParseCrashes, TypeOK
<1>9. CASE WriteNow
  BY <1>9 DEF WriteNow, Completes, TypeOK
<1>10. CASE WritePends
  BY <1>10 DEF WritePends, Pends, TypeOK
<1>11. CASE WriteFails
  BY <1>11 DEF WriteFails, Fails, TypeOK
<1>12. CASE DisconnectNamedPipe
  BY <1>12 DEF DisconnectNamedPipe, TypeOK
<1>13. CASE Reconnect
  BY <1>13, <1>0, ConnectEffect DEF Reconnect, CanListen
<1>14. ASSUME NEW s \in Slots, CompleteWrite(s) PROVE NoStaleEvent'
  BY <1>14 DEF CompleteWrite, TypeOK
<1>15. ASSUME NEW c \in Clients, OpenPipe(c) PROVE NoStaleEvent'
  BY <1>15 DEF OpenPipe, TypeOK
<1>16. ASSUME NEW c \in Clients, OpenRefused(c) PROVE NoStaleEvent'
  BY <1>16 DEF OpenRefused, TypeOK
<1>17. ASSUME NEW c \in Clients, WriteToReader(c) PROVE NoStaleEvent'
  BY <1>17 DEF WriteToReader, CanWrite, TypeOK
<1>18. ASSUME NEW c \in Clients, WriteToBuffer(c) PROVE NoStaleEvent'
  BY <1>18 DEF WriteToBuffer, CanWrite, TypeOK
<1>19. ASSUME NEW c \in Clients, ClosePipe(c) PROVE NoStaleEvent'
  BY <1>19 DEF ClosePipe, TypeOK
<1>20. CASE UNCHANGED vars
  BY <1>20 DEF TypeOK
<1> QED
  BY <1>1, <1>2, <1>3, <1>4, <1>5, <1>6, <1>7, <1>8, <1>9, <1>10,
     <1>11, <1>12, <1>13, <1>14, <1>15, <1>16, <1>17, <1>18, <1>19, <1>20,
     <1>21
  DEF Next, Server

-----------------------------------------------------------------------------
(* The theorems.                                                           *)

(* The invariant holds initially.                                          *)
LEMMA InitIInv == Init => IInv
<1> SUFFICES ASSUME Init PROVE IInv
  OBVIOUS
<1>1. TypeOK
  BY InitTypeOK
<1>2. CreatedInOrder
  BY InstancesAssumption DEF Init, CreatedInOrder, Slots
<1>3. TurnOK
  BY DEF Init, TurnOK
<1>4. UnopenedOK
  BY DEF Init, UnopenedOK, Unopened
<1>5. OwnershipOK
  BY DEF Init, OwnershipOK, Owned, InHand, Handling
<1>6. Attribution /\ NotForgotten /\ NoStaleEvent
  BY DEF Init, Attribution, NotForgotten, Watched, NoStaleEvent
<1> QED BY <1>1, <1>2, <1>3, <1>4, <1>5, <1>6 DEF IInv

(* Every step preserves it.                                                *)
LEMMA NextIInv == IInv /\ [Next]_vars => IInv'
<1> SUFFICES ASSUME IInv, [Next]_vars PROVE IInv'
  OBVIOUS
<1>1. TypeOK'
  BY NextTypeOK DEF IInv
<1>2. CreatedInOrder' /\ TurnOK' /\ UnopenedOK' /\ OwnershipOK'
  BY <1>1, NextCreatedInOrder, NextTurnOK, NextUnopenedOK, NextOwnershipOK
<1>3. Attribution' /\ NotForgotten' /\ NoStaleEvent'
  BY <1>1, NextAttribution, NextNotForgotten, NextNoStaleEvent
<1> QED BY <1>1, <1>2, <1>3 DEF IInv

(* It is an invariant of the server.                                       *)
LEMMA IInvHolds == Spec => []IInv
  BY InitIInv, NextIInv, PTL DEF Spec

(* Every entry is filed under the pid of the process that wrote it, for    *)
(* any number of instances, processes and hand-overs (yipcsrv.h:347).      *)
THEOREM AttributionHolds == Spec => []Attribution
<1>1. IInv => Attribution
  BY DEF IInv
<1> QED BY <1>1, IInvHolds, PTL

(* No instance the thread sleeps on is left without an event to come,      *)
(* except after a process that came and went during start-up.              *)
THEOREM NotForgottenHolds == Spec => []NotForgotten
<1>1. IInv => NotForgotten
  BY DEF IInv
<1> QED BY <1>1, IInvHolds, PTL

(* The event of an earlier call never stands for the pending one.          *)
THEOREM NoStaleEventHolds == Spec => []NoStaleEvent
<1>1. IInv => NoStaleEvent
  BY DEF IInv
<1> QED BY <1>1, IInvHolds, PTL

(* Once the instances exist, no step of anybody ends the server thread.    *)
LEMMA StepKeepsServing ==
  IInv /\ [Next]_vars => (pc \notin {"create", "stopped"} => pc' # "stopped")
<1> SUFFICES ASSUME IInv, [Next]_vars, pc \notin {"create", "stopped"}
             PROVE  pc' # "stopped"
  OBVIOUS
<1>1. ASSUME NEW s \in Slots, Wake(s) PROVE pc' # "stopped"
  <2>1. CASE dwState[s] = "CONNECTING"
    <3>1. pipe[s] \notin {"absent", "listening"}
      BY <1>1 DEF Wake, IInv, UnopenedOK, Unopened
    <3>2. fPendingIO[s] /\ io[s] = "ok"
      BY <1>1, <2>1, <3>1 DEF Wake, IInv, UnopenedOK, Unopened, Handling
    <3> QED BY <1>1, <2>1, <3>2, FinishedType, NextCallType DEF Wake
  <2>2. CASE dwState[s] = "READING"
    BY <1>1, <2>2, FinishedType, NextCallType DEF Wake
  <2>3. CASE dwState[s] = "WRITING"
    BY <1>1, <2>3, FinishedType, NextCallType DEF Wake
  <2> QED BY <2>1, <2>2, <2>3 DEF IInv, TypeOK
<1>2. CASE CreatePipe \/ CreateFails \/ ListenFirst
  BY <1>2 DEF CreatePipe, CreateFails, ListenFirst
<1>3. CASE ReadNow \/ ReadPends \/ ReadFails \/ WriteNow \/ WritePends \/ WriteFails
  BY <1>3 DEF ReadNow, ReadPends, ReadFails, WriteNow, WritePends, WriteFails,
              Completes, Pends, Fails
<1>4. CASE GetAnswerToRequest \/ ParseCrashes \/ DisconnectNamedPipe \/ Reconnect
  BY <1>4 DEF GetAnswerToRequest, ParseCrashes, DisconnectNamedPipe, Reconnect
<1>5. CASE UNCHANGED pc
  BY <1>5
<1>6. ASSUME NEW s \in Slots, CompleteWrite(s) PROVE UNCHANGED pc
  BY <1>6 DEF CompleteWrite
<1>7. ASSUME NEW c \in Clients,
             \/ OpenPipe(c) \/ OpenRefused(c)
             \/ WriteToReader(c) \/ WriteToBuffer(c) \/ ClosePipe(c)
      PROVE  UNCHANGED pc
  BY <1>7 DEF OpenPipe, OpenRefused, WriteToReader, WriteToBuffer, ClosePipe
<1> QED BY <1>1, <1>2, <1>3, <1>4, <1>5, <1>6, <1>7 DEF Next, Server

(* None of the "return 0" of the main loop is reachable.                   *)
THEOREM NeverStops == Spec => NeverStopsServing
<1>1. IInv /\ [Next]_vars => [pc \notin {"create", "stopped"} => pc' # "stopped"]_vars
  BY StepKeepsServing
<1> QED BY <1>1, IInvHolds, PTL DEF Spec, NeverStopsServing
-----------------------------------------------------------------------------
(* The ledger: what each process wrote is filed, in hand or in the pipe.   *)

(* A call that is pending is the last one of its turn; a pending read has  *)
(* found the pipe empty.                                                   *)
PendingOK ==
  \A s \in Slots : io[s] = "pending" =>
    /\ fPendingIO[s] /\ ~Handling(s)
    /\ dwState[s] = "READING" => inq[s] = <<>>

(* A process opens the pipe once; until then it has written nothing.       *)
OpenedOnce ==
  /\ \A s, t \in Slots : peer[s] = peer[t] /\ peer[s] # Nobody => s = t
  /\ \A s \in Slots : peer[s] # Nobody => client[peer[s]] \in {"open", "closed"}
  /\ \A c \in Clients : client[c] \in {"idle", "refused"} => written[c] = 0

Hand(s) == IF InHand(s) THEN 1 ELSE 0

(* What an instance holds follows on what is filed of its process and      *)
(* reaches up to the last message written, closed or not.                  *)
Balanced(s) ==
  LET c == peer[s] IN
  c # Nobody =>
    /\ written[c] = Logged(c) + Hand(s) + Len(inq[s])
    /\ InHand(s) => request[s].seq = Logged(c) + 1
    /\ \A i \in DOMAIN inq[s] : inq[s][i].seq = Logged(c) + Hand(s) + i

(* The entries of a process are numbered up to how many they are.          *)
Numbered ==
  /\ \A i \in DOMAIN messages :
       messages[i].author \in Clients /\ messages[i].seq <= Logged(messages[i].author)
  /\ \A c \in Clients : /\ Logged(c) <= written[c]
                        /\ Logged(c) > 0 =>
                             \E i \in DOMAIN messages : messages[i].author = c /\ messages[i].seq = Logged(c)

LInv ==
  /\ IInv /\ PendingOK /\ OpenedOnce /\ Numbered /\ PrefixDelivery
  /\ \A s \in Slots : Balanced(s)

(* A call is left pending only when its turn ends, and the next turn of    *)
(* the instance begins with its event, when the call is over.              *)
LEMMA NextPendingOK == IInv /\ PendingOK /\ TypeOK' /\ [Next]_vars => PendingOK'
<1> SUFFICES ASSUME IInv, PendingOK, TypeOK', [Next]_vars PROVE PendingOK'
  OBVIOUS
<1> USE DEF PendingOK, Handling
<1>0. cur \in Slots /\ TypeOK
  BY DEF IInv, TypeOK
<1>1. CASE CreatePipe \/ CreateFails
  BY <1>0, <1>1 DEF CreatePipe, CreateFails
<1>k. PICK k \in Slots : k = cur
  BY <1>0
<1>2. CASE ListenFirst
  <2>1. io'[k] = "pending" =>
          fPendingIO'[k] /\ ~Handling(k)' /\ dwState'[k] = "CONNECTING"
    <3>1. ~Handling(k)'
      BY <1>k, <1>2, InstancesAssumption DEF ListenFirst, Slots
    <3>2. io'[k] = "pending" => fPendingIO'[k] /\ dwState'[k] = "CONNECTING"
      BY <1>0, <1>k, <1>2, ConnectEffect DEF ListenFirst
    <3> QED BY <3>1, <3>2
  <2>2. ASSUME NEW t \in Slots \ {cur}, io'[t] = "pending"
        PROVE  /\ fPendingIO'[t] /\ ~Handling(t)'
               /\ dwState'[t] = "READING" => inq'[t] = <<>>
    <3>1. /\ io[t] = "pending" /\ fPendingIO'[t] = fPendingIO[t] /\ fPendingIO[t]
          /\ dwState'[t] = dwState[t] /\ inq'[t] = inq[t]
      BY <1>0, <1>2, <2>2, ConnectEffect DEF ListenFirst
    <3>2. ~Handling(t)'
      <4> SUFFICES ASSUME Handling(t)' PROVE FALSE
        OBVIOUS
      <4>1. cur' = cur + 1 /\ cur' = t
        BY <1>0, <1>2, <2>2, InstancesAssumption DEF ListenFirst, Slots
      <4>2. t > cur
        BY <1>0, <4>1, InstancesAssumption DEF Slots
      <4>3. pipe[t] = "absent"
        BY <1>2, <4>2 DEF ListenFirst, IInv, CreatedInOrder, Starting
      <4>4. ~fPendingIO[t]
        BY <4>3 DEF IInv, UnopenedOK, Unopened
      <4> QED BY <3>1, <4>4
    <3> QED BY <2>2, <3>1, <3>2
  <2> QED BY <1>k, <2>1, <2>2
<1>3. ASSUME NEW s \in Slots, Wake(s) PROVE PendingOK'
  <2>1. io[s] # "pending"
    BY <1>3 DEF Wake, IInv, NoStaleEvent
  <2>2. \A t \in Slots \ {s} : dwState'[t] = dwState[t] /\ ~Handling(t)'
    BY <1>0, <1>3, WakeGoes DEF Wake
  <2> QED BY <1>3, <2>1, <2>2 DEF Wake
<1>4. CASE ReadNow
  BY <1>0, <1>4 DEF ReadNow, Completes, TypeOK
<1>5. CASE ReadPends
  BY <1>0, <1>5 DEF ReadPends, Pends, TypeOK
<1>6. CASE ReadFails
  BY <1>0, <1>6 DEF ReadFails, Fails, TypeOK
<1>7. CASE GetAnswerToRequest \/ ParseCrashes
  BY <1>0, <1>7 DEF GetAnswerToRequest, ParseCrashes, TypeOK
<1>8. CASE WriteNow
  BY <1>0, <1>8 DEF WriteNow, Completes, TypeOK
<1>9. CASE WritePends
  <2>1. dwState[cur] = "WRITING"
    BY <1>9 DEF WritePends, IInv, TurnOK
  <2> QED BY <1>0, <1>9, <2>1 DEF WritePends, Pends, TypeOK
<1>10. CASE WriteFails
  BY <1>0, <1>10 DEF WriteFails, Fails, TypeOK
<1>11. CASE DisconnectNamedPipe
  BY <1>0, <1>11 DEF DisconnectNamedPipe, TypeOK
<1>12. CASE Reconnect
  <2>1. io'[k] = "pending" =>
          fPendingIO'[k] /\ ~Handling(k)' /\ dwState'[k] = "CONNECTING"
    BY <1>0, <1>k, <1>12, ConnectEffect DEF Reconnect
  <2>2. \A t \in Slots \ {cur} :
          /\ io'[t] = io[t] /\ fPendingIO'[t] = fPendingIO[t]
          /\ dwState'[t] = dwState[t] /\ inq'[t] = inq[t] /\ ~Handling(t)'
    <3>1. TypeOK /\ ConnectToNewClient(cur) /\ pc' = "wait"
      BY <1>0, <1>12 DEF Reconnect
    <3>2. UNCHANGED inq /\ \A t \in Slots \ {cur} :
            io'[t] = io[t] /\ fPendingIO'[t] = fPendingIO[t] /\ dwState'[t] = dwState[t]
      BY <1>0, <3>1, ConnectEffect
    <3> QED BY <3>1, <3>2
  <2> QED BY <1>k, <2>1, <2>2
<1>13. ASSUME NEW s \in Slots, CompleteWrite(s) PROVE PendingOK'
  BY <1>0, <1>13 DEF CompleteWrite, TypeOK
<1>14. ASSUME NEW c \in Clients, OpenPipe(c) PROVE PendingOK'
  <2>1. PICK s \in Slots : OpensAt(c, s)
    BY <1>0, <1>14, OpenEffect
  <2> QED BY <2>1 DEF OpensAt
<1>15. ASSUME NEW c \in Clients, OpenRefused(c) PROVE PendingOK'
  BY <1>15 DEF OpenRefused
<1>16. ASSUME NEW c \in Clients, WriteToReader(c) \/ WriteToBuffer(c) PROVE PendingOK'
  <2>1. PICK s \in Slots, m \in Message : WritesAt(c, s, m)
    BY <1>0, <1>16, WriteEffect
  <2>2. /\ io'[s] # "pending" \/ (~ReadPending(s) /\ io'[s] = io[s])
        /\ \A t \in Slots \ {s} : io'[t] = io[t] /\ inq'[t] = inq[t]
        /\ UNCHANGED <<pc, cur, dwState, fPendingIO>>
    BY <2>1 DEF WritesAt
  <2> QED BY <2>2 DEF ReadPending
<1>17. ASSUME NEW c \in Clients, ClosePipe(c) PROVE PendingOK'
  <2>1. /\ \A s \in Slots : io'[s] = "pending" => io[s] = "pending"
        /\ UNCHANGED <<pc, cur, dwState, fPendingIO, inq>>
    BY <1>0, <1>17, CloseEffect
  <2> QED BY <2>1
<1>18. CASE UNCHANGED vars
  BY <1>18
<1> QED
  BY <1>1, <1>2, <1>3, <1>4, <1>5, <1>6, <1>7, <1>8, <1>9, <1>10, <1>11, <1>12,
     <1>13, <1>14, <1>15, <1>16, <1>17, <1>18
  DEF Next, Server

(* What a step does to the ledger.  It keeps the account of an instance;   *)
Keeps(s) ==
  /\ peer'[s] = peer[s] /\ inq'[s] = inq[s]
  /\ InHand(s)' <=> InHand(s)
  /\ InHand(s) => request'[s] = request[s]

KeepsBut(s) == \A t \in Slots \ {s} : Keeps(t)

(* of all of them, while a process may be turned away or leave;            *)
Quiet == /\ UNCHANGED <<messages, written>> /\ \A s \in Slots : Keeps(s)
         /\ \/ UNCHANGED client
            \/ \E c \in Clients :
                 \/ client[c] = "idle" /\ client' = [client EXCEPT ![c] = "refused"]
                 \/ client[c] = "open" /\ client' = [client EXCEPT ![c] = "closed"]

(* it takes the first message of an instance in hand;                      *)
Takes(s) ==
  /\ UNCHANGED <<messages, written, client>> /\ KeepsBut(s)
  /\ peer'[s] = peer[s] /\ inq[s] # <<>> /\ inq'[s] = Tail(inq[s])
  /\ ~InHand(s) /\ InHand(s)' /\ request'[s] = Head(inq[s])

(* it files the one in hand;                                               *)
Files(s) ==
  /\ UNCHANGED <<written, client>> /\ KeepsBut(s)
  /\ UNCHANGED peer /\ inq'[s] = inq[s] /\ InHand(s) /\ ~InHand(s)'
  /\ messages' = Append(messages, [pid    |-> peer[s], author |-> request[s].from,
                                   seq    |-> request[s].seq,
                                   intact |-> request[s].size <= BufSize])

(* it hangs up on the process;                                             *)
Drops(s) ==
  /\ UNCHANGED <<messages, written, client>> /\ KeepsBut(s)
  /\ peer'[s] = Nobody /\ inq'[s] = <<>> /\ ~InHand(s)'

(* a process opens the instance;                                           *)
Joins(c, s) ==
  /\ UNCHANGED <<messages, written>> /\ KeepsBut(s)
  /\ client[c] = "idle" /\ client' = [client EXCEPT ![c] = "open"]
  /\ peer[s] = Nobody /\ peer'[s] = c
  /\ inq[s] = <<>> /\ inq'[s] = <<>> /\ ~InHand(s)'

(* or it writes a message, into a pending read or behind the others.       *)
Adds(c, s, m) ==
  /\ UNCHANGED <<messages, client>> /\ KeepsBut(s)
  /\ client[c] = "open" /\ peer[s] = c /\ UNCHANGED peer
  /\ written[c] < MaxWrites /\ written' = [written EXCEPT ![c] = @ + 1]
  /\ m \in Message /\ m.from = c /\ m.seq = written[c] + 1
  /\ \/ /\ ~InHand(s) /\ InHand(s)' /\ request'[s] = m
        /\ inq[s] = <<>> /\ inq'[s] = <<>>
     \/ /\ InHand(s)' <=> InHand(s)
        /\ InHand(s) => request'[s] = request[s]
        /\ inq'[s] = Append(inq[s], m)

Effect ==
  \/ Quiet
  \/ \E s \in Slots : Takes(s) \/ Files(s) \/ Drops(s)
  \/ \E s \in Slots, c \in Clients : Joins(c, s) \/ \E m \in Message : Adds(c, s, m)

(* A step of the thread that keeps to the instance it is working on, and   *)
(* to whether a message is in hand, is quiet.                              *)
LEMMA SameTurn ==
  ASSUME TypeOK, UNCHANGED <<messages, written, client, peer, inq, request>>,
         UNCHANGED cur, pc # "wait",
         \A t \in Slots \ {cur} : /\ dwState'[t] = dwState[t] /\ fPendingIO'[t] = fPendingIO[t]
                                  /\ io'[t] = io[t],
         NEW k \in Slots, k = cur, InHand(k)' <=> InHand(k)
  PROVE  Quiet
<1>1. Keeps(k)
  BY DEF Keeps
<1>2. ASSUME NEW t \in Slots, t # k PROVE Keeps(t)
  BY <1>2 DEF Keeps, InHand, Handling
<1> QED BY <1>1, <1>2 DEF Quiet

(* Every step is one of these.                                             *)
LEMMA StepEffect == IInv /\ PendingOK /\ TypeOK' /\ [Next]_vars => Effect
<1> SUFFICES ASSUME IInv, PendingOK, TypeOK', [Next]_vars PROVE Effect
  OBVIOUS
<1>0. cur \in Slots /\ TypeOK
  BY DEF IInv, TypeOK
<1>k. PICK k \in Slots : k = cur
  BY <1>0
<1>1. CASE CreatePipe \/ CreateFails
  <2>1. InHand(k)' <=> InHand(k)
    BY <1>1, <1>k DEF CreatePipe, CreateFails, InHand, Handling
  <2> QED BY <1>0, <1>1, <1>k, <2>1, SameTurn DEF CreatePipe, CreateFails, Effect
<1>2. CASE ListenFirst
  <2>1. ~InHand(k)
    BY <1>2, <1>k DEF ListenFirst, InHand, Handling
  <2>2. ~InHand(k)'
    <3>1. ~Handling(k)'
      BY <1>k, <1>2, InstancesAssumption DEF ListenFirst, Handling, Slots
    <3>2. dwState'[k] = "CONNECTING" \/ (dwState'[k] = "READING" /\ ~fPendingIO'[k])
      BY <1>0, <1>k, <1>2, ConnectEffect DEF ListenFirst
    <3> QED BY <3>1, <3>2 DEF InHand
  <2>3. UNCHANGED <<messages, peer, inq, request, client, written>>
    BY <1>0, <1>2, ConnectEffect DEF ListenFirst
  <2>4. ASSUME NEW t \in Slots, t # k PROVE InHand(t)' <=> InHand(t)
    <3>1. /\ io'[t] = io[t] /\ fPendingIO'[t] = fPendingIO[t] /\ dwState'[t] = dwState[t]
          /\ ~Handling(t)
      BY <1>0, <1>k, <1>2, <2>4, ConnectEffect DEF ListenFirst, Handling
    <3>2. CASE ~Handling(t)'
      BY <3>1, <3>2 DEF InHand
    <3>3. CASE Handling(t)'
      <4>1. cur' = cur + 1 /\ pc' = "create" /\ t = cur + 1
        BY <1>k, <1>2, <2>4, <3>3 DEF ListenFirst, Handling
      <4>2. t > cur
        BY <1>0, <4>1, InstancesAssumption DEF Slots
      <4>3. dwState[t] = "CONNECTING"
        BY <1>2, <4>2 DEF ListenFirst, IInv, CreatedInOrder, Starting, UnopenedOK, Unopened
      <4> QED BY <3>1, <3>3, <4>1, <4>3 DEF InHand
    <3> QED BY <3>2, <3>3
  <2> QED BY <2>1, <2>2, <2>3, <2>4 DEF Effect, Quiet, Keeps
<1>3. ASSUME NEW s \in Slots, Wake(s) PROVE Effect
  <2>1. UNCHANGED <<fPendingIO, messages, io, request, peer, inq, client, written>>
    BY <1>3 DEF Wake
  <2>2. InHand(s)' <=> InHand(s)
    <3>1. CASE dwState[s] = "CONNECTING"
      BY <1>3, <3>1, FinishedType, NextCallType DEF Wake, InHand, Handling
    <3>2. CASE dwState[s] = "READING"
      BY <1>3, <3>2, FinishedType, NextCallType DEF Wake, InHand, Handling
    <3>3. CASE dwState[s] = "WRITING"
      BY <1>3, <3>3, FinishedType, NextCallType DEF Wake, InHand, Handling
    <3> QED BY <1>0, <3>1, <3>2, <3>3 DEF TypeOK
  <2>3. ASSUME NEW t \in Slots, t # s PROVE InHand(t)' <=> InHand(t)
    <3>1. dwState'[t] = dwState[t] /\ ~Handling(t) /\ ~Handling(t)'
      BY <1>0, <1>3, <2>3, WakeGoes DEF Wake, Handling
    <3> QED BY <2>1, <3>1 DEF InHand
  <2> QED BY <2>1, <2>2, <2>3 DEF Effect, Quiet, Keeps
<1>4. CASE ReadNow
  <2>1. ~InHand(k) /\ InHand(k)'
    BY <1>0, <1>4, <1>k DEF ReadNow, Completes, InHand, Handling, TypeOK
  <2>2. KeepsBut(k)
    BY <1>0, <1>4, <1>k DEF ReadNow, Completes, InHand, Handling, TypeOK, KeepsBut, Keeps
  <2>3. Takes(k)
    BY <1>0, <1>4, <1>k, <2>1, <2>2 DEF ReadNow, Takes, TypeOK
  <2> QED BY <2>3 DEF Effect
<1>5. CASE ReadPends
  <2>1. ~InHand(k)' /\ ~InHand(k)
    BY <1>0, <1>5, <1>k DEF ReadPends, Pends, InHand, Handling, TypeOK, IInv, TurnOK
  <2> QED BY <1>0, <1>5, <1>k, <2>1, SameTurn DEF ReadPends, Pends, TypeOK, Effect
<1>6. CASE ReadFails
  <2>1. ~InHand(k)' /\ ~InHand(k)
    BY <1>0, <1>6, <1>k DEF ReadFails, Fails, InHand, Handling, TypeOK
  <2> QED BY <1>0, <1>6, <1>k, <2>1, SameTurn DEF ReadFails, Fails, TypeOK, Effect
<1>7. CASE GetAnswerToRequest
  <2>1. InHand(k) /\ ~InHand(k)'
    BY <1>0, <1>7, <1>k DEF GetAnswerToRequest, InHand, Handling
  <2>2. KeepsBut(k)
    BY <1>0, <1>7, <1>k DEF GetAnswerToRequest, InHand, Handling, KeepsBut, Keeps
  <2>3. Files(k)
    BY <1>7, <1>k, <2>1, <2>2 DEF GetAnswerToRequest, Files
  <2> QED BY <2>3 DEF Effect
<1>8. CASE ParseCrashes
  <2>1. InHand(k) /\ InHand(k)'
    BY <1>0, <1>8, <1>k DEF ParseCrashes, InHand, Handling
  <2> QED BY <1>0, <1>8, <1>k, <2>1, SameTurn DEF ParseCrashes, Effect
<1>9. CASE WriteNow
  <2>1. ~InHand(k) /\ ~InHand(k)'
    BY <1>0, <1>9, <1>k DEF WriteNow, Completes, InHand, Handling, TypeOK
  <2> QED BY <1>0, <1>9, <1>k, <2>1, SameTurn DEF WriteNow, Completes, TypeOK, Effect
<1>10. CASE WritePends
  <2>1. ~InHand(k)' /\ ~InHand(k)
    BY <1>0, <1>10, <1>k DEF WritePends, Pends, InHand, Handling, TypeOK, IInv, TurnOK
  <2> QED BY <1>0, <1>10, <1>k, <2>1, SameTurn DEF WritePends, Pends, TypeOK, Effect
<1>11. CASE WriteFails
  <2>1. ~InHand(k)' /\ ~InHand(k)
    BY <1>0, <1>11, <1>k DEF WriteFails, Fails, InHand, Handling, TypeOK
  <2> QED BY <1>0, <1>11, <1>k, <2>1, SameTurn DEF WriteFails, Fails, TypeOK, Effect
<1>12. CASE DisconnectNamedPipe
  <2>1. ~InHand(k)'
    BY <1>0, <1>12, <1>k DEF DisconnectNamedPipe, InHand, Handling
  <2>2. KeepsBut(k)
    BY <1>0, <1>12, <1>k DEF DisconnectNamedPipe, InHand, Handling, TypeOK, KeepsBut, Keeps
  <2>3. Drops(k)
    BY <1>0, <1>12, <1>k, <2>1, <2>2 DEF DisconnectNamedPipe, Drops, TypeOK
  <2> QED BY <2>3 DEF Effect
<1>13. CASE Reconnect
  <2>1. ~InHand(k)
    BY <1>13, <1>k DEF Reconnect, InHand, Handling
  <2>2. ~InHand(k)'
    <3>1. ~Handling(k)'
      BY <1>13 DEF Reconnect, Handling
    <3>2. dwState'[k] = "CONNECTING" \/ (dwState'[k] = "READING" /\ ~fPendingIO'[k])
      BY <1>0, <1>k, <1>13, ConnectEffect DEF Reconnect
    <3> QED BY <3>1, <3>2 DEF InHand
  <2>3. /\ UNCHANGED <<messages, peer, inq, request, client, written>>
        /\ \A t \in Slots \ {k} : /\ dwState'[t] = dwState[t] /\ fPendingIO'[t] = fPendingIO[t]
                                  /\ io'[t] = io[t]
    BY <1>0, <1>k, <1>13, ConnectEffect DEF Reconnect
  <2> QED BY <1>0, <1>k, <1>13, <2>1, <2>2, <2>3, SameTurn DEF Reconnect, Effect
<1>14. ASSUME NEW s \in Slots, CompleteWrite(s) PROVE Effect
  <2>1. \A t \in Slots : InHand(t)' <=> InHand(t)
    BY <1>0, <1>14 DEF CompleteWrite, InHand, Handling, TypeOK
  <2> QED BY <1>14, <2>1 DEF CompleteWrite, Effect, Quiet, Keeps
<1>15. ASSUME NEW c \in Clients, OpenPipe(c) PROVE Effect
  <2>1. PICK s \in Slots : OpensAt(c, s)
    BY <1>0, <1>15, OpenEffect
  <2>2. KeepsBut(s)
    BY <2>1 DEF OpensAt, KeepsBut, Keeps, InHand, Handling
  <2>3. peer[s] = Nobody /\ inq[s] = <<>> /\ dwState[s] = "CONNECTING"
    BY <1>0, <2>1 DEF OpensAt, IInv, TurnOK, UnopenedOK, Unopened
  <2>4. ~InHand(s)'
    <3>1. CASE Handling(s)
      <4>1. pc \notin {"answer", "crashed"}
        BY <1>15, <2>1, <3>1 DEF OpensAt, OpenPipe, MayRun, IInv, TurnOK, Handling
      <4> QED BY <2>1, <3>1, <4>1 DEF OpensAt, InHand, Handling
    <3>2. CASE ~Handling(s)
      BY <2>1, <2>3, <3>2 DEF OpensAt, InHand, Handling
    <3> QED BY <3>1, <3>2
  <2>5. Joins(c, s)
    BY <1>15, <2>1, <2>2, <2>3, <2>4 DEF OpensAt, OpenPipe, Joins
  <2> QED BY <2>5 DEF Effect
<1>16. ASSUME NEW c \in Clients, OpenRefused(c) PROVE Effect
  <2>1. \A s \in Slots : Keeps(s)
    BY <1>16 DEF OpenRefused, Keeps, InHand, Handling
  <2> QED BY <1>16, <2>1 DEF OpenRefused, Effect, Quiet
<1>17. ASSUME NEW c \in Clients, WriteToReader(c) PROVE Effect
  <2>1. PICK s \in Slots, size \in Sizes :
          /\ CanWrite(c, s) /\ ReadPending(s)
          /\ written' = [written EXCEPT ![c] = @ + 1]
          /\ io'      = [io EXCEPT ![s] = IF Fits(Sent(c, size)) THEN "ok" ELSE "failed"]
          /\ request' = [request EXCEPT ![s] = Sent(c, size)]
          /\ inq'     = [inq EXCEPT ![s] = IF Fits(Sent(c, size)) THEN @ ELSE <<Sent(c, size)>>]
          /\ UNCHANGED <<pc, cur, dwState, fPendingIO, messages, pipe, peer, client>>
    BY <1>17 DEF WriteToReader
  <2> DEFINE m == Sent(c, size)
  <2>2. written[c] + 1 \in 1 .. MaxWrites
    BY <1>0, <2>1, BoundsAssumption DEF CanWrite, TypeOK
  <2>3. m \in Message /\ m.from = c /\ m.seq = written[c] + 1
    BY <2>2 DEF Sent, Message
  <2> HIDE DEF m
  <2>4. fPendingIO[s] /\ ~Handling(s) /\ dwState[s] = "READING" /\ inq[s] = <<>> /\ io[s] = "pending"
    BY <2>1 DEF PendingOK, ReadPending
  <2>5. KeepsBut(s)
    BY <1>0, <2>1 DEF KeepsBut, Keeps, InHand, Handling, TypeOK
  <2>6. ~InHand(s) /\ (InHand(s)' <=> Fits(m))
    <3>1. ~Handling(s)' /\ dwState'[s] = "READING" /\ fPendingIO'[s]
      BY <2>1, <2>4 DEF Handling
    <3>2. io'[s] = IF Fits(m) THEN "ok" ELSE "failed"
      BY <1>0, <2>1 DEF m, TypeOK
    <3> QED BY <2>4, <3>1, <3>2 DEF InHand
  <2>7. request'[s] = m /\ inq'[s] = IF Fits(m) THEN <<>> ELSE Append(inq[s], m)
    BY <1>0, <2>1, <2>4 DEF m, TypeOK
  <2>8. Adds(c, s, m)
    BY <2>1, <2>3, <2>4, <2>5, <2>6, <2>7 DEF Adds, CanWrite
  <2> QED BY <2>3, <2>8 DEF Effect
<1>18. ASSUME NEW c \in Clients, WriteToBuffer(c) PROVE Effect
  <2>1. PICK s \in Slots, size \in Sizes :
          /\ CanWrite(c, s)
          /\ written' = [written EXCEPT ![c] = @ + 1]
          /\ inq'     = [inq EXCEPT ![s] = Append(@, Sent(c, size))]
          /\ UNCHANGED <<serverVars, pipe, peer, io, event, request, client>>
    BY <1>18 DEF WriteToBuffer
  <2> DEFINE m == Sent(c, size)
  <2>2. written[c] + 1 \in 1 .. MaxWrites
    BY <1>0, <2>1, BoundsAssumption DEF CanWrite, TypeOK
  <2>3. m \in Message /\ m.from = c /\ m.seq = written[c] + 1
    BY <2>2 DEF Sent, Message
  <2>4. \A t \in Slots : InHand(t)' <=> InHand(t)
    BY <2>1 DEF InHand, Handling
  <2>5. KeepsBut(s) /\ inq'[s] = Append(inq[s], m)
    BY <1>0, <2>1, <2>4 DEF KeepsBut, Keeps, TypeOK
  <2> HIDE DEF m
  <2>6. Adds(c, s, m)
    BY <2>1, <2>3, <2>4, <2>5 DEF Adds, CanWrite
  <2> QED BY <2>3, <2>6 DEF Effect
<1>19. ASSUME NEW c \in Clients, ClosePipe(c) PROVE Effect
  <2>1. /\ \A s \in Slots : (io'[s] = "ok") <=> (io[s] = "ok")
        /\ UNCHANGED <<pc, cur, dwState, fPendingIO, messages, peer, inq, request, written>>
    BY <1>0, <1>19, CloseEffect
  <2>2. \A s \in Slots : Keeps(s)
    BY <2>1 DEF Keeps, InHand, Handling
  <2> QED BY <1>19, <2>1, <2>2 DEF ClosePipe, Effect, Quiet
<1>20. CASE UNCHANGED vars
  BY <1>20 DEF Effect, Quiet, Keeps, InHand, Handling
<1> QED
  BY <1>1, <1>2, <1>3, <1>4, <1>5, <1>6, <1>7, <1>8, <1>9, <1>10, <1>11, <1>12,
     <1>13, <1>14, <1>15, <1>16, <1>17, <1>18, <1>19, <1>20
  DEF Next, Server

-----------------------------------------------------------------------------
(* Counting the entries of a process.                                      *)

LEMMA LoggedType ==
  ASSUME messages \in Seq(Entry), NEW c
  PROVE  Logged(c) \in Nat /\ IsFiniteSet({i \in DOMAIN messages : messages[i].author = c})
<1>1. Len(messages) \in Nat /\ DOMAIN messages = 1 .. Len(messages)
  BY LenProperties
<1>2. IsFiniteSet(1 .. Len(messages))
  BY <1>1, FS_Interval
<1>3. IsFiniteSet({i \in DOMAIN messages : messages[i].author = c})
  BY <1>1, <1>2, FS_Subset
<1> QED BY <1>3, FS_CardinalityType DEF Logged

(* An entry counts for its author and nobody else.                         *)
LEMMA LoggedAppend ==
  ASSUME messages \in Seq(Entry), NEW e \in Entry, messages' = Append(messages, e), NEW c
  PROVE  Logged(c)' = Logged(c) + (IF e.author = c THEN 1 ELSE 0)
<1> DEFINE n == Len(messages)
           mine == {i \in DOMAIN messages : messages[i].author = c}
           then == {i \in DOMAIN messages' : messages'[i].author = c}
<1>1. /\ n \in Nat /\ DOMAIN messages = 1 .. n /\ DOMAIN messages' = 1 .. n + 1
      /\ \A i \in 1 .. n : messages'[i] = messages[i]
      /\ messages'[n + 1] = e
  BY LenProperties, AppendProperties
<1> HIDE DEF n
<1>2. IsFiniteSet(mine) /\ Logged(c) = Cardinality(mine) /\ Logged(c) \in Nat
  BY LoggedType DEF Logged
<1>3. Logged(c)' = Cardinality(then)
  BY DEF Logged
<1>4. e.author = c => then = mine \cup {n + 1} /\ n + 1 \notin mine
  BY <1>1
<1>5. e.author # c => then = mine
  BY <1>1
<1> HIDE DEF mine, then
<1>6. CASE e.author = c
  <2>1. Cardinality(then) = Cardinality(mine) + 1
    BY <1>2, <1>4, <1>6, FS_AddElement
  <2> QED BY <1>2, <1>3, <1>6, <2>1
<1>7. CASE e.author # c
  BY <1>2, <1>3, <1>5, <1>7
<1> QED BY <1>6, <1>7

(* What is filed is the next message of a process the thread is serving.   *)
LEMMA FilesNext ==
  ASSUME LInv, TypeOK', NEW s \in Slots, Files(s)
  PROVE  \E e \in Entry :
           /\ messages' = Append(messages, e)
           /\ peer[s] \in Clients /\ e.author = peer[s] /\ e.seq = Logged(peer[s]) + 1
           /\ e.seq <= written[peer[s]]
           /\ \A c \in Clients : Logged(c)' = Logged(c) + (IF peer[s] = c THEN 1 ELSE 0)
<1> DEFINE e == [pid |-> peer[s], author |-> request[s].from, seq |-> request[s].seq,
                 intact |-> request[s].size <= BufSize]
<1>1. TypeOK /\ messages' = Append(messages, e) /\ InHand(s)
  BY DEF LInv, IInv, Files
<1>2. request[s] \in Message /\ request[s].from = peer[s]
  BY <1>1 DEF LInv, IInv, OwnershipOK, Owned
<1>3. peer[s] \in Clients /\ peer[s] # Nobody
  BY <1>2, ClientsAssumption DEF Message
<1>4. e \in Entry
  BY <1>1, <1>2, <1>3, BoundsAssumption DEF Message, Entry
<1>5. e.author = peer[s] /\ e.seq = request[s].seq
  BY <1>2
<1> HIDE DEF e
<1>6. messages \in Seq(Entry) /\ Len(inq[s]) \in Nat
  BY <1>1, LenProperties DEF TypeOK
<1>7. Logged(peer[s]) \in Nat
  BY <1>6, LoggedType
<1>8. e.seq = Logged(peer[s]) + 1 /\ written[peer[s]] = Logged(peer[s]) + 1 + Len(inq[s])
  BY <1>1, <1>3, <1>5 DEF LInv, Balanced, Hand
<1>9. \A c \in Clients : Logged(c)' = Logged(c) + (IF peer[s] = c THEN 1 ELSE 0)
  BY <1>1, <1>4, <1>5, <1>6, LoggedAppend
<1> QED BY <1>1, <1>3, <1>4, <1>5, <1>6, <1>7, <1>8, <1>9

(* All other steps leave the log alone.                                    *)
LEMMA Unfiled == ASSUME UNCHANGED messages, NEW c PROVE Logged(c)' = Logged(c)
BY DEF Logged
-----------------------------------------------------------------------------
(* The steps keep the ledger.                                              *)

LEMMA EffectOpenedOnce == LInv /\ TypeOK' /\ Effect => OpenedOnce'
<1> SUFFICES ASSUME LInv, TypeOK', Effect PROVE OpenedOnce'
  OBVIOUS
<1>0. TypeOK /\ OpenedOnce
  BY DEF LInv, IInv
<1>1. CASE Quiet
  <2>1. UNCHANGED written /\ \A s \in Slots : peer'[s] = peer[s]
    BY <1>1 DEF Quiet, Keeps
  <2>2. CASE UNCHANGED client
    BY <1>0, <2>1, <2>2 DEF OpenedOnce
  <2>3. ASSUME NEW c \in Clients,
               client[c] = "idle" /\ client' = [client EXCEPT ![c] = "refused"]
        PROVE  OpenedOnce'
    BY <1>0, <2>1, <2>3 DEF OpenedOnce, TypeOK
  <2>4. ASSUME NEW c \in Clients,
               client[c] = "open" /\ client' = [client EXCEPT ![c] = "closed"]
        PROVE  OpenedOnce'
    BY <1>0, <2>1, <2>4 DEF OpenedOnce, TypeOK
  <2> QED BY <1>1, <2>2, <2>3, <2>4 DEF Quiet
<1>2. ASSUME NEW s \in Slots, Takes(s) \/ Files(s) \/ Drops(s) PROVE OpenedOnce'
  BY <1>0, <1>2 DEF OpenedOnce, Takes, Files, Drops, KeepsBut, Keeps
<1>3. ASSUME NEW s \in Slots, NEW c \in Clients, Joins(c, s) PROVE OpenedOnce'
  <2>1. /\ peer'[s] = c /\ \A t \in Slots \ {s} : peer'[t] = peer[t]
        /\ client' = [client EXCEPT ![c] = "open"] /\ UNCHANGED written
        /\ client[c] = "idle"
    BY <1>3 DEF Joins, KeepsBut, Keeps
  <2>2. \A t \in Slots : peer[t] # c
    BY <1>0, <2>1, ClientsAssumption DEF OpenedOnce
  <2>3. client'[c] = "open" /\ \A d \in Clients \ {c} : client'[d] = client[d]
    BY <1>0, <2>1 DEF TypeOK
  <2>4. \A u, t \in Slots : peer'[u] = peer'[t] /\ peer'[u] # Nobody => u = t
    BY <1>0, <2>1, <2>2 DEF OpenedOnce
  <2>5. \A t \in Slots : peer'[t] # Nobody => client'[peer'[t]] \in {"open", "closed"}
    <3> SUFFICES ASSUME NEW t \in Slots, peer'[t] # Nobody
                 PROVE  client'[peer'[t]] \in {"open", "closed"}
      OBVIOUS
    <3>1. CASE t = s
      BY <2>1, <2>3, <3>1
    <3>2. CASE t # s
      BY <1>0, <2>1, <2>2, <2>3, <3>2 DEF OpenedOnce, TypeOK
    <3> QED BY <3>1, <3>2
  <2>6. \A d \in Clients : client'[d] \in {"idle", "refused"} => written'[d] = 0
    BY <1>0, <2>1, <2>3 DEF OpenedOnce
  <2> QED BY <2>4, <2>5, <2>6 DEF OpenedOnce
<1>4. ASSUME NEW s \in Slots, NEW c \in Clients, NEW m \in Message, Adds(c, s, m)
      PROVE  OpenedOnce'
  BY <1>0, <1>4 DEF OpenedOnce, Adds, TypeOK
<1> QED BY <1>1, <1>2, <1>3, <1>4 DEF Effect

(* An instance whose process and account are untouched stays balanced.     *)
LEMMA KeepsBalance ==
  ASSUME LInv, NEW t \in Slots, Keeps(t),
         \A c \in Clients :
           peer[t] = c => Logged(c)' = Logged(c) /\ written'[c] = written[c]
  PROVE  Balanced(t)'
<1> SUFFICES ASSUME NEW c, c = peer'[t], c # Nobody
             PROVE  /\ written'[c] = Logged(c)' + Hand(t)' + Len(inq'[t])
                    /\ InHand(t)' => request'[t].seq = Logged(c)' + 1
                    /\ \A i \in DOMAIN inq'[t] : inq'[t][i].seq = Logged(c)' + Hand(t)' + i
  BY DEF Balanced
<1>1. /\ c = peer[t] /\ inq'[t] = inq[t] /\ Hand(t)' = Hand(t)
      /\ InHand(t)' <=> InHand(t)
      /\ InHand(t) => request'[t] = request[t]
  BY DEF Keeps, Hand
<1>2. Logged(c)' = Logged(c) /\ written'[c] = written[c]
  BY <1>1 DEF LInv, IInv, TypeOK
<1>3. /\ written[c] = Logged(c) + Hand(t) + Len(inq[t])
      /\ InHand(t) => request[t].seq = Logged(c) + 1
      /\ \A i \in DOMAIN inq[t] : inq[t][i].seq = Logged(c) + Hand(t) + i
  BY <1>1 DEF LInv, Balanced
<1> QED BY <1>1, <1>2, <1>3

LEMMA EffectBalanced ==
  ASSUME LInv, TypeOK', Effect, NEW t \in Slots PROVE Balanced(t)'
<1>0. TypeOK /\ OpenedOnce
  BY DEF LInv, IInv
<1>n. \A s \in Slots : /\ Len(inq[s]) \in Nat /\ DOMAIN inq[s] = 1 .. Len(inq[s])
                       /\ inq[s] \in Seq(Message)
  BY <1>0, LenProperties DEF TypeOK
<1>l. \A c \in Clients : Logged(c) \in Nat /\ written[c] \in Nat
  <2>1. messages \in Seq(Entry) /\ \A c \in Clients : written[c] \in 0 .. MaxWrites
    BY <1>0 DEF TypeOK
  <2>2. \A c \in Clients : Logged(c) \in Nat
    BY <2>1, LoggedType
  <2>3. \A c \in Clients : written[c] \in Nat
    BY <2>1, BoundsAssumption
  <2> QED BY <2>2, <2>3
<1>1. CASE Quiet
  <2>1. Keeps(t) /\ UNCHANGED <<messages, written>>
    BY <1>1 DEF Quiet
  <2> QED BY <2>1, KeepsBalance, Unfiled
<1>2. ASSUME NEW s \in Slots, Takes(s) PROVE Balanced(t)'
  <2>1. UNCHANGED <<messages, written>>
    BY <1>2 DEF Takes
  <2>2. CASE t # s
    <3>1. Keeps(t)
      BY <1>2, <2>2 DEF Takes, KeepsBut
    <3> QED BY <2>1, <3>1, KeepsBalance, Unfiled
  <2>3. CASE t = s
    <3> SUFFICES ASSUME NEW c \in Clients, c = peer'[s]
                 PROVE  /\ written'[c] = Logged(c)' + Hand(s)' + Len(inq'[s])
                        /\ InHand(s)' => request'[s].seq = Logged(c)' + 1
                        /\ \A i \in DOMAIN inq'[s] : inq'[s][i].seq = Logged(c)' + Hand(s)' + i
      BY <2>3 DEF Balanced, TypeOK
    <3>1. /\ Hand(s) = 0 /\ Hand(s)' = 1 /\ c = peer[s] /\ c # Nobody
          /\ inq[s] # <<>> /\ inq'[s] = Tail(inq[s]) /\ request'[s] = Head(inq[s])
      BY <1>2, ClientsAssumption DEF Takes, Hand
    <3>2. /\ written[c] = Logged(c) + Len(inq[s])
          /\ \A i \in DOMAIN inq[s] : inq[s][i].seq = Logged(c) + i
      <4>1. /\ written[c] = Logged(c) + Hand(s) + Len(inq[s])
            /\ \A i \in DOMAIN inq[s] : inq[s][i].seq = Logged(c) + Hand(s) + i
        BY <3>1 DEF LInv, Balanced
      <4> QED BY <1>l, <3>1, <4>1
    <3>3. /\ Len(inq[s]) \in Nat \ {0} /\ Len(Tail(inq[s])) = Len(inq[s]) - 1
          /\ Head(inq[s]) = inq[s][1] /\ 1 \in DOMAIN inq[s]
          /\ DOMAIN Tail(inq[s]) = 1 .. Len(inq[s]) - 1
          /\ \A i \in 1 .. Len(inq[s]) - 1 : /\ Tail(inq[s])[i] = inq[s][i + 1]
                                             /\ i + 1 \in DOMAIN inq[s]
      BY <1>n, <3>1, HeadTailProperties, EmptySeq
    <3>4. Logged(c)' = Logged(c) /\ written'[c] = written[c]
      BY <2>1, Unfiled
    <3>5. Logged(c) \in Nat
      BY <1>l
    <3>6. written'[c] = Logged(c)' + Hand(s)' + Len(inq'[s])
      BY <3>1, <3>2, <3>3, <3>4, <3>5
    <3>7. request'[s].seq = Logged(c)' + 1
      BY <3>1, <3>2, <3>3, <3>4
    <3>8. ASSUME NEW i \in DOMAIN inq'[s]
          PROVE  inq'[s][i].seq = Logged(c)' + Hand(s)' + i
      <4>1. i \in 1 .. Len(inq[s]) - 1 /\ i \in Nat
        BY <3>1, <3>3, <3>8
      <4>2. inq'[s][i] = inq[s][i + 1] /\ i + 1 \in DOMAIN inq[s]
        BY <3>1, <3>3, <4>1
      <4>3. inq'[s][i].seq = Logged(c) + (i + 1)
        BY <3>2, <4>2
      <4> QED BY <3>1, <3>4, <3>5, <4>1, <4>3
    <3> QED BY <3>6, <3>7, <3>8
  <2> QED BY <2>2, <2>3
<1>3. ASSUME NEW s \in Slots, Files(s) PROVE Balanced(t)'
  <2>1. PICK e \in Entry :
          /\ peer[s] \in Clients
          /\ \A c \in Clients : Logged(c)' = Logged(c) + (IF peer[s] = c THEN 1 ELSE 0)
    BY <1>3, FilesNext
  <2>2. CASE t # s
    <3>1. Keeps(t) /\ UNCHANGED written
      BY <1>3, <2>2 DEF Files, KeepsBut
    <3>2. \A c \in Clients : peer[t] = c => Logged(c)' = Logged(c)
      BY <1>0, <1>l, <2>1, <2>2, ClientsAssumption DEF OpenedOnce
    <3> QED BY <3>1, <3>2, KeepsBalance
  <2>3. CASE t = s
    <3> SUFFICES ASSUME NEW c \in Clients, c = peer'[s]
                 PROVE  /\ written'[c] = Logged(c)' + Hand(s)' + Len(inq'[s])
                        /\ InHand(s)' => request'[s].seq = Logged(c)' + 1
                        /\ \A i \in DOMAIN inq'[s] : inq'[s][i].seq = Logged(c)' + Hand(s)' + i
      BY <2>3 DEF Balanced, TypeOK
    <3>1. /\ Hand(s) = 1 /\ Hand(s)' = 0 /\ ~InHand(s)' /\ c = peer[s] /\ c # Nobody
          /\ inq'[s] = inq[s] /\ written' = written
      BY <1>3, ClientsAssumption DEF Files, Hand
    <3>2. /\ written[c] = Logged(c) + Hand(s) + Len(inq[s])
          /\ \A i \in DOMAIN inq[s] : inq[s][i].seq = Logged(c) + Hand(s) + i
      BY <3>1 DEF LInv, Balanced
    <3>3. Logged(c)' = Logged(c) + 1
      BY <2>1, <3>1
    <3> QED BY <1>l, <1>n, <3>1, <3>2, <3>3
  <2> QED BY <2>2, <2>3
<1>4. ASSUME NEW s \in Slots, Drops(s) PROVE Balanced(t)'
  <2>1. CASE t # s
    <3>1. Keeps(t) /\ UNCHANGED <<messages, written>>
      BY <1>4, <2>1 DEF Drops, KeepsBut
    <3> QED BY <3>1, KeepsBalance, Unfiled
  <2>2. CASE t = s
    BY <1>4, <2>2 DEF Drops, Balanced
  <2> QED BY <2>1, <2>2
<1>5. ASSUME NEW s \in Slots, NEW c \in Clients, Joins(c, s) PROVE Balanced(t)'
  <2>1. CASE t # s
    <3>1. Keeps(t) /\ UNCHANGED <<messages, written>>
      BY <1>5, <2>1 DEF Joins, KeepsBut
    <3> QED BY <3>1, KeepsBalance, Unfiled
  <2>2. CASE t = s
    <3>1. peer'[s] = c /\ inq'[s] = <<>> /\ ~InHand(s)' /\ Hand(s)' = 0
      BY <1>5 DEF Joins, Hand
    <3>2. written'[c] = 0 /\ Logged(c)' = Logged(c)
      BY <1>0, <1>5, Unfiled DEF Joins, OpenedOnce
    <3>3. written[c] = 0 /\ Logged(c) = 0
      BY <1>0, <1>5, <1>l DEF Joins, OpenedOnce, LInv, Numbered
    <3>4. Len(inq'[s]) = 0 /\ DOMAIN inq'[s] = {}
      BY <3>1
    <3>5. /\ written'[c] = Logged(c)' + Hand(s)' + Len(inq'[s])
          /\ InHand(s)' => request'[s].seq = Logged(c)' + 1
          /\ \A i \in DOMAIN inq'[s] : inq'[s][i].seq = Logged(c)' + Hand(s)' + i
      BY <3>1, <3>2, <3>3, <3>4
    <3> QED BY <2>2, <3>1, <3>5 DEF Balanced
  <2> QED BY <2>1, <2>2
<1>6. ASSUME NEW s \in Slots, NEW c \in Clients, NEW m \in Message, Adds(c, s, m)
      PROVE  Balanced(t)'
  <2>1. /\ peer[s] = c /\ UNCHANGED peer /\ UNCHANGED messages
        /\ written' = [written EXCEPT ![c] = @ + 1]
        /\ m.seq = written[c] + 1
    BY <1>6 DEF Adds
  <2>2. CASE t # s
    <3>1. Keeps(t)
      BY <1>6, <2>2 DEF Adds, KeepsBut
    <3>2. \A d \in Clients : peer[t] = d => written'[d] = written[d]
      BY <1>0, <2>1, <2>2, ClientsAssumption DEF OpenedOnce, TypeOK
    <3> QED BY <2>1, <3>1, <3>2, KeepsBalance, Unfiled
  <2>3. CASE t = s
    <3>1. c = peer'[s] /\ c # Nobody
      BY <2>1, ClientsAssumption
    <3>2. Logged(c)' = Logged(c) /\ written'[c] = written[c] + 1
      BY <1>0, <2>1, Unfiled DEF TypeOK
    <3>3. /\ written[c] = Logged(c) + Hand(s) + Len(inq[s])
          /\ InHand(s) => request[s].seq = Logged(c) + 1
          /\ \A i \in DOMAIN inq[s] : inq[s][i].seq = Logged(c) + Hand(s) + i
      BY <2>1, <3>1 DEF LInv, Balanced
    <3>4. /\ written'[c] = Logged(c)' + Hand(s)' + Len(inq'[s])
          /\ InHand(s)' => request'[s].seq = Logged(c)' + 1
          /\ \A i \in DOMAIN inq'[s] : inq'[s][i].seq = Logged(c)' + Hand(s)' + i
      <4>1. CASE /\ ~InHand(s) /\ InHand(s)' /\ request'[s] = m
                 /\ inq[s] = <<>> /\ inq'[s] = <<>>
        <5>1. Hand(s) = 0 /\ Hand(s)' = 1 /\ Len(inq[s]) = 0 /\ Len(inq'[s]) = 0 /\ DOMAIN inq'[s] = {}
          BY <4>1 DEF Hand
        <5> QED BY <1>l, <2>1, <3>2, <3>3, <4>1, <5>1
      <4>2. CASE /\ InHand(s)' <=> InHand(s)
                 /\ InHand(s) => request'[s] = request[s]
                 /\ inq'[s] = Append(inq[s], m)
        <5>1. Hand(s)' = Hand(s) /\ Hand(s) \in {0, 1}
          BY <4>2 DEF Hand
        <5>2. /\ Len(inq'[s]) = Len(inq[s]) + 1 /\ DOMAIN inq'[s] = 1 .. Len(inq[s]) + 1
              /\ \A i \in 1 .. Len(inq[s]) : inq'[s][i] = inq[s][i]
              /\ inq'[s][Len(inq[s]) + 1] = m
          BY <1>n, <4>2, AppendProperties, LenProperties
        <5>3. Len(inq[s]) \in Nat /\ DOMAIN inq[s] = 1 .. Len(inq[s])
          BY <1>n
        <5>4. written'[c] = Logged(c)' + Hand(s)' + Len(inq'[s])
          BY <1>l, <3>2, <3>3, <5>1, <5>2, <5>3
        <5>5. ASSUME NEW i \in DOMAIN inq'[s]
              PROVE  inq'[s][i].seq = Logged(c)' + Hand(s)' + i
          <6>1. CASE i \in 1 .. Len(inq[s])
            BY <3>2, <3>3, <5>1, <5>2, <5>3, <6>1
          <6>2. CASE i = Len(inq[s]) + 1
            <7>1. inq'[s][i].seq = written[c] + 1
              BY <2>1, <5>2, <6>2
            <7>2. Logged(c) \in Nat /\ written[c] = Logged(c) + Hand(s) + Len(inq[s])
              BY <1>l, <3>3
            <7> QED BY <3>2, <5>1, <5>3, <6>2, <7>1, <7>2
          <6> QED BY <5>2, <5>3, <6>1, <6>2
        <5> QED BY <3>2, <3>3, <4>2, <5>4, <5>5
      <4> QED BY <1>6, <4>1, <4>2 DEF Adds
    <3> QED BY <2>3, <3>1, <3>4 DEF Balanced
  <2> QED BY <2>2, <2>3
<1> QED BY <1>1, <1>2, <1>3, <1>4, <1>5, <1>6 DEF Effect

LEMMA EffectNumbered == LInv /\ TypeOK' /\ Effect => Numbered'
<1> SUFFICES ASSUME LInv, TypeOK', Effect PROVE Numbered'
  OBVIOUS
<1>0. TypeOK /\ OpenedOnce /\ Numbered /\ messages \in Seq(Entry)
  BY DEF LInv, IInv, TypeOK
<1>l. \A c \in Clients : Logged(c) \in Nat
  BY <1>0, LoggedType
<1>1. ASSUME UNCHANGED messages, \A c \in Clients : Logged(c) <= written'[c]
      PROVE  Numbered'
  <2>1. \A c \in Clients : Logged(c)' = Logged(c)
    BY <1>1, Unfiled
  <2>2. \A i \in DOMAIN messages' :
          /\ messages'[i].author \in Clients
          /\ messages'[i].seq <= Logged(messages[i].author)
    BY <1>0, <1>1 DEF Numbered
  <2>3. ASSUME NEW i \in DOMAIN messages' PROVE messages'[i].seq <= Logged(messages[i].author)'
    <3>1. PICK c \in Clients : c = messages[i].author
      BY <1>1, <2>2
    <3> QED BY <1>1, <2>1, <2>2, <3>1
  <2> QED BY <1>0, <1>1, <2>1, <2>2, <2>3 DEF Numbered
<1>2. CASE UNCHANGED <<messages, written>>
  BY <1>0, <1>1, <1>2 DEF Numbered
<1>3. ASSUME NEW s \in Slots, Files(s) PROVE Numbered'
  <2>1. PICK e \in Entry :
          /\ messages' = Append(messages, e)
          /\ peer[s] \in Clients /\ e.author = peer[s] /\ e.seq = Logged(peer[s]) + 1
          /\ e.seq <= written[peer[s]]
          /\ \A c \in Clients : Logged(c)' = Logged(c) + (IF peer[s] = c THEN 1 ELSE 0)
    BY <1>3, FilesNext
  <2> DEFINE n == Len(messages)
  <2>2. /\ n \in Nat /\ DOMAIN messages = 1 .. n /\ DOMAIN messages' = 1 .. n + 1
        /\ \A i \in 1 .. n : messages'[i] = messages[i]
        /\ messages'[n + 1] = e
    BY <1>0, <2>1, LenProperties, AppendProperties
  <2> HIDE DEF n
  <2>3. ASSUME NEW i \in DOMAIN messages', NEW c, c = messages'[i].author
        PROVE  c \in Clients /\ messages'[i].seq <= Logged(c)'
    <3>1. CASE i = n + 1
      <4>1. c = peer[s] /\ messages'[i].seq = Logged(c) + 1
        BY <2>1, <2>2, <2>3, <3>1
      <4> QED BY <1>l, <2>1, <4>1
    <3>2. CASE i \in 1 .. n
      <4>1. c \in Clients /\ messages'[i].seq <= Logged(c) /\ messages'[i] \in Entry
        BY <1>0, <2>2, <2>3, <3>2 DEF Numbered
      <4>2. Logged(c)' = Logged(c) \/ Logged(c)' = Logged(c) + 1
        BY <1>l, <2>1, <4>1
      <4>3. messages'[i].seq \in Nat
        BY <4>1, BoundsAssumption DEF Entry
      <4> QED BY <1>l, <4>1, <4>2, <4>3
    <3> QED BY <2>2, <2>3, <3>1, <3>2
  <2>4. ASSUME NEW i \in DOMAIN messages'
        PROVE  /\ messages'[i].author \in Clients
               /\ messages'[i].seq <= Logged(messages[i].author)'
    BY <2>3
  <2>5. ASSUME NEW c \in Clients
        PROVE  /\ Logged(c)' <= written'[c]
               /\ Logged(c)' > 0 =>
                    \E i \in DOMAIN messages' :
                      messages'[i].author = c /\ messages'[i].seq = Logged(c)'
    <3>1. written' = written
      BY <1>3 DEF Files
    <3>2. CASE c = peer[s]
      <4>1. Logged(c)' = Logged(c) + 1 /\ messages'[n + 1].seq = Logged(c)' /\ messages'[n + 1].author = c
        BY <2>1, <2>2, <3>2
      <4>2. Logged(c)' <= written'[c]
        BY <2>1, <2>2, <3>1, <3>2, <4>1
      <4> QED BY <2>2, <4>1, <4>2
    <3>3. CASE c # peer[s]
      <4>1. Logged(c)' = Logged(c)
        BY <1>l, <2>1, <3>3
      <4> QED BY <1>0, <2>2, <3>1, <4>1 DEF Numbered
    <3> QED BY <3>2, <3>3
  <2> QED BY <2>4, <2>5 DEF Numbered
<1>4. ASSUME NEW s \in Slots, NEW c \in Clients, NEW m \in Message, Adds(c, s, m)
      PROVE  Numbered'
  <2>1. UNCHANGED messages /\ written' = [written EXCEPT ![c] = @ + 1]
    BY <1>4 DEF Adds
  <2>2. \A d \in Clients : Logged(d) <= written[d] /\ written[d] \in Nat
    BY <1>0, BoundsAssumption DEF Numbered, TypeOK
  <2>3. \A d \in Clients : written'[d] = IF d = c THEN written[d] + 1 ELSE written[d]
    BY <1>0, <2>1 DEF TypeOK
  <2>4. \A d \in Clients : Logged(d) <= written'[d]
    BY <1>l, <2>2, <2>3
  <2> QED BY <1>1, <2>1, <2>4
<1> QED
  BY <1>2, <1>3, <1>4 DEF Effect, Quiet, Takes, Drops, Joins

(* A process's next entry follows the one before it, and is after all.     *)
LEMMA EffectPrefixDelivery == LInv /\ TypeOK' /\ Effect => PrefixDelivery'
<1> SUFFICES ASSUME LInv, TypeOK', Effect PROVE PrefixDelivery'
  OBVIOUS
<1>0. PrefixDelivery /\ Numbered /\ messages \in Seq(Entry)
  BY DEF LInv, IInv, TypeOK
<1>1. CASE UNCHANGED messages
  BY <1>0, <1>1 DEF PrefixDelivery
<1>2. ASSUME NEW s \in Slots, Files(s) PROVE PrefixDelivery'
  <2>1. PICK e \in Entry :
          /\ messages' = Append(messages, e)
          /\ peer[s] \in Clients /\ e.author = peer[s] /\ e.seq = Logged(peer[s]) + 1
    BY <1>2, FilesNext
  <2> DEFINE n == Len(messages)
             c == peer[s]
  <2>2. /\ n \in Nat /\ DOMAIN messages = 1 .. n /\ DOMAIN messages' = 1 .. n + 1
        /\ \A i \in 1 .. n : messages'[i] = messages[i] /\ messages[i] \in Entry
        /\ messages'[n + 1] = e
    BY <1>0, <2>1, LenProperties, AppendProperties
  <2>3. c \in Clients /\ e.author = c /\ e.seq = Logged(c) + 1 /\ Logged(c) \in Nat
    BY <1>0, <2>1, LoggedType
  <2> HIDE DEF n, c
  <2>4. ASSUME NEW j \in 1 .. n
        PROVE  /\ \A i \in 1 .. j - 1 : messages'[i].author = messages'[j].author
                                          => messages'[i].seq < messages'[j].seq
               /\ messages'[j].seq > 1 =>
                    \E i \in 1 .. j - 1 : /\ messages'[i].author = messages'[j].author
                                         /\ messages'[i].seq + 1 = messages'[j].seq
    <3>1. messages'[j] = messages[j] /\ \A i \in 1 .. j - 1 : messages'[i] = messages[i]
      BY <2>2
    <3>2. /\ \A i \in 1 .. j - 1 : messages[i].author = messages[j].author
                                     => messages[i].seq < messages[j].seq
          /\ messages[j].seq > 1 =>
               \E i \in 1 .. j - 1 : /\ messages[i].author = messages[j].author
                                    /\ messages[i].seq + 1 = messages[j].seq
      BY <1>0, <2>2 DEF PrefixDelivery
    <3> QED BY <3>1, <3>2
  <2>5. \A i \in 1 .. n : messages'[i].author = c => messages'[i].seq < e.seq
    <3> SUFFICES ASSUME NEW i \in 1 .. n, messages[i].author = c
                 PROVE  messages[i].seq < e.seq
      BY <2>2
    <3>1. messages[i].seq <= Logged(c)
      BY <1>0, <2>2 DEF Numbered
    <3>2. messages[i].seq \in Nat
      BY <2>2, BoundsAssumption DEF Entry
    <3> QED BY <2>3, <3>1, <3>2
  <2>6. e.seq > 1 => \E i \in 1 .. n : messages'[i].author = c /\ messages'[i].seq + 1 = e.seq
    <3> SUFFICES ASSUME e.seq > 1
                 PROVE  \E i \in 1 .. n : messages'[i].author = c /\ messages'[i].seq + 1 = e.seq
      OBVIOUS
    <3>1. Logged(c) > 0
      BY <2>3
    <3>2. PICK i \in DOMAIN messages : messages[i].author = c /\ messages[i].seq = Logged(c)
      BY <1>0, <2>3, <3>1 DEF Numbered
    <3> QED BY <2>2, <2>3, <3>2
  <2>7. (n + 1) - 1 = n
    BY <2>2
  <2> QED BY <2>2, <2>3, <2>4, <2>5, <2>6, <2>7 DEF PrefixDelivery
<1> QED BY <1>1, <1>2 DEF Effect, Quiet, Takes, Drops, Joins, Adds

LEMMA InitLInv == Init => LInv
<1> SUFFICES ASSUME Init PROVE LInv
  OBVIOUS
<1>1. IInv
  BY InitIInv
<1>2. messages = <<>> /\ DOMAIN messages = {}
  BY DEF Init
<1>3. \A c : Logged(c) = 0
  <2> SUFFICES ASSUME NEW c PROVE Logged(c) = 0
    OBVIOUS
  <2>1. {i \in DOMAIN messages : messages[i].author = c} = {}
    BY <1>2
  <2> QED BY <2>1, FS_EmptySet DEF Logged
<1>4. PendingOK /\ OpenedOnce /\ PrefixDelivery
  BY <1>2 DEF Init, PendingOK, OpenedOnce, PrefixDelivery
<1>5. Numbered
  BY <1>2, <1>3 DEF Init, Numbered
<1>6. \A s \in Slots : Balanced(s)
  BY DEF Init, Balanced
<1> QED BY <1>1, <1>4, <1>5, <1>6 DEF LInv

LEMMA NextLInv == LInv /\ [Next]_vars => LInv'
<1> SUFFICES ASSUME LInv, [Next]_vars PROVE LInv'
  OBVIOUS
<1>1. IInv /\ PendingOK
  BY DEF LInv
<1>2. IInv'
  BY <1>1, NextIInv
<1>3. TypeOK'
  BY <1>2 DEF IInv
<1>4. PendingOK' /\ Effect
  BY <1>1, <1>3, NextPendingOK, StepEffect
<1>5. OpenedOnce' /\ Numbered' /\ PrefixDelivery'
  BY <1>3, <1>4, EffectOpenedOnce, EffectNumbered, EffectPrefixDelivery
<1>6. \A s \in Slots : Balanced(s)'
  BY <1>3, <1>4, EffectBalanced
<1> QED BY <1>2, <1>4, <1>5, <1>6 DEF LInv

LEMMA LInvHolds == Spec => []LInv
  BY InitLInv, NextLInv, PTL DEF Spec

(* The account of messages balances, per process and in order: what the    *)
(* pipe accepted is filed once and in the order of the writes, in chRequest*)
(* or in the pipe, across reads at once and later, failed reads, and       *)
(* instances handed from process to process.                               *)
THEOREM LedgerInvHolds == Spec => []LedgerInv
<1>1. LInv => LedgerInv
  <2> SUFFICES ASSUME LInv PROVE LedgerInv
    OBVIOUS
  <2>1. TypeOK /\ PrefixDelivery /\ TurnOK
    BY DEF LInv, IInv
  <2>2. ASSUME NEW s \in Slots, pipe[s] = "connected"
        PROVE  written[peer[s]] =
                 Logged(peer[s]) + Len(inq[s]) + (IF InHand(s) THEN 1 ELSE 0)
    <3>1. peer[s] \in Clients /\ peer[s] # Nobody
      BY <2>1, <2>2 DEF TurnOK, TypeOK
    <3>2. written[peer[s]] = Logged(peer[s]) + Hand(s) + Len(inq[s])
      BY <3>1 DEF LInv, Balanced
    <3>3. Logged(peer[s]) \in Nat /\ Len(inq[s]) \in Nat
      BY <2>1, LoggedType, LenProperties DEF TypeOK
    <3> QED BY <3>2, <3>3 DEF Hand
  <2> QED BY <2>1, <2>2 DEF LedgerInv, Conservation
<1> QED BY <1>1, LInvHolds, PTL
-----------------------------------------------------------------------------
(* The refinement of ProcessLog, step by step.                             *)

(* The log as ProcessLog sees it.                                          *)
Log == [i \in DOMAIN messages |-> [author |-> messages[i].author, seq |-> messages[i].seq]]

(* Counting is the same there and here.                                    *)
LEMMA SameCardinality == \A S : ProcessLogOfServer!Cardinality(S) = Cardinality(S)
BY DEF Cardinality, ProcessLogOfServer!Cardinality

LEMMA LogFiled == \A c : ProcessLogOfServer!Filed(c) = Logged(c)
<1> SUFFICES ASSUME NEW c PROVE ProcessLogOfServer!Filed(c) = Logged(c)
  OBVIOUS
<1>1. DOMAIN Log = DOMAIN messages /\ \A i \in DOMAIN messages : Log[i].author = messages[i].author
  BY DEF Log
<1>2. {i \in DOMAIN Log : Log[i].author = c} = {i \in DOMAIN messages : messages[i].author = c}
  BY <1>1
<1>3. ProcessLogOfServer!Filed(c) = Cardinality({i \in DOMAIN Log : Log[i].author = c})
  BY SameCardinality DEF ProcessLogOfServer!Filed, Log
<1> QED BY <1>2, <1>3 DEF Logged

LEMMA LogInit == Init => ProcessLogOfServer!Init
BY DEF Init, ProcessLogOfServer!Init

(* A step that files is File of ProcessLog.                                *)
LEMMA LogAppend ==
  ASSUME messages \in Seq(Entry), NEW e \in Entry, messages' = Append(messages, e)
  PROVE  Log' = Append(Log, [author |-> e.author, seq |-> e.seq])
<1> DEFINE n == Len(messages)
           r == [author |-> e.author, seq |-> e.seq]
<1>1. /\ n \in Nat /\ DOMAIN messages = 1 .. n /\ DOMAIN messages' = 1 .. n + 1
      /\ \A i \in 1 .. n : messages'[i] = messages[i]
      /\ messages'[n + 1] = e
  BY LenProperties, AppendProperties
<1> HIDE DEF n
<1>2. Log \in Seq([author : Clients \cup {Nobody}, seq : 0 .. MaxWrites]) /\ Len(Log) = n
  <2>1. \A i \in 1 .. n : messages[i] \in Entry
    BY <1>1
  <2> QED BY <1>1, <2>1 DEF Log, Entry
<1>3. /\ Len(Append(Log, r)) = n + 1 /\ DOMAIN Append(Log, r) = 1 .. n + 1
      /\ \A i \in 1 .. n : Append(Log, r)[i] = Log[i]
      /\ Append(Log, r)[n + 1] = r
      /\ Append(Log, r) = [i \in 1 .. n + 1 |-> Append(Log, r)[i]]
  BY <1>1, <1>2
<1>4. Log' = [i \in 1 .. n + 1 |-> [author |-> messages'[i].author, seq |-> messages'[i].seq]]
  BY <1>1 DEF Log
<1>5. \A i \in 1 .. n + 1 : Append(Log, r)[i] = [author |-> messages'[i].author, seq |-> messages'[i].seq]
  BY <1>1, <1>3 DEF Log
<1> QED BY <1>3, <1>4, <1>5

LEMMA LogStep ==
  LInv /\ [Next]_vars => [ProcessLogOfServer!Next]_(ProcessLogOfServer!vars)
<1> SUFFICES ASSUME LInv, [Next]_vars
             PROVE  ProcessLogOfServer!Next \/ UNCHANGED <<client, written, Log>>
  BY DEF ProcessLogOfServer!vars, Log
<1>1. TypeOK' /\ Effect /\ TypeOK
  <2>1. IInv /\ IInv' /\ PendingOK
    BY NextIInv DEF LInv
  <2> QED BY <2>1, StepEffect DEF IInv
<1>2. UNCHANGED messages => UNCHANGED Log
  BY DEF Log
<1>3. CASE Quiet
  <2>1. UNCHANGED <<written, Log>>
    BY <1>2, <1>3 DEF Quiet
  <2>2. CASE UNCHANGED client
    BY <2>1, <2>2
  <2>3. ASSUME NEW c \in Clients,
               \/ client[c] = "idle" /\ client' = [client EXCEPT ![c] = "refused"]
               \/ client[c] = "open" /\ client' = [client EXCEPT ![c] = "closed"]
        PROVE  ProcessLogOfServer!Next
    <3>1. ProcessLogOfServer!Start(c) \/ ProcessLogOfServer!Close(c)
      BY <2>1, <2>3 DEF ProcessLogOfServer!Start, ProcessLogOfServer!Close, Log
    <3> QED BY <3>1 DEF ProcessLogOfServer!Next
  <2> QED BY <1>3, <2>2, <2>3 DEF Quiet
<1>4. ASSUME NEW s \in Slots, Takes(s) \/ Drops(s) PROVE UNCHANGED <<client, written, Log>>
  BY <1>2, <1>4 DEF Takes, Drops
<1>5. ASSUME NEW s \in Slots, Files(s) PROVE ProcessLogOfServer!Next
  <2>1. PICK e \in Entry :
          /\ messages' = Append(messages, e)
          /\ peer[s] \in Clients /\ e.author = peer[s] /\ e.seq = Logged(peer[s]) + 1
          /\ e.seq <= written[peer[s]]
    BY <1>1, <1>5, FilesNext
  <2>2. PICK c \in Clients : c = peer[s]
    BY <2>1
  <2>3. messages \in Seq(Entry) /\ written[c] \in 0 .. MaxWrites
    BY <1>1 DEF TypeOK
  <2>4. written[c] \in Nat /\ Logged(c) \in Nat
    <3>1. Logged(c) \in Nat
      BY <2>3, LoggedType
    <3> QED BY <2>3, <3>1, BoundsAssumption
  <2>5. Log' = Append(Log, [author |-> c, seq |-> Logged(c) + 1])
    BY <2>1, <2>2, <2>3, LogAppend
  <2>6. Logged(c) < written[c]
    BY <2>1, <2>2, <2>4
  <2>7. UNCHANGED <<client, written>>
    BY <1>5 DEF Files
  <2>8. ProcessLogOfServer!File(c)
    BY <2>5, <2>6, <2>7, LogFiled DEF ProcessLogOfServer!File, Log
  <2> QED BY <2>8 DEF ProcessLogOfServer!Next
<1>6. ASSUME NEW s \in Slots, NEW c \in Clients, Joins(c, s) PROVE ProcessLogOfServer!Next
  <2>1. ProcessLogOfServer!Start(c)
    BY <1>2, <1>6 DEF Joins, ProcessLogOfServer!Start, Log
  <2> QED BY <2>1 DEF ProcessLogOfServer!Next
<1>7. ASSUME NEW s \in Slots, NEW c \in Clients, NEW m \in Message, Adds(c, s, m)
      PROVE  ProcessLogOfServer!Next
  <2>1. ProcessLogOfServer!Write(c)
    BY <1>2, <1>7 DEF Adds, ProcessLogOfServer!Write, Log
  <2> QED BY <2>1 DEF ProcessLogOfServer!Next
<1> QED BY <1>1, <1>3, <1>4, <1>5, <1>6, <1>7 DEF Effect

(* The thread implements the log of ProcessLog: with all its instances,    *)
(* pending calls and hand-overs it shows the front end nothing but         *)
(* numbered messages filed once, in order, after they were written.        *)
THEOREM ServerImplementsProcessLog == Spec => ImplementsProcessLog
<1>1. Init => ProcessLogOfServer!Init
  BY LogInit
<1>2. LInv /\ [Next]_vars => [ProcessLogOfServer!Next]_(ProcessLogOfServer!vars)
  BY LogStep
<1> QED BY <1>1, <1>2, LInvHolds, PTL DEF Spec, ImplementsProcessLog, ProcessLogOfServer!Spec
=============================================================================
