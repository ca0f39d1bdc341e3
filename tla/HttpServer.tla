----------------------------- MODULE HttpServer -----------------------------
(***************************************************************************)
(* How yprocmon's HTTP requests come to a thread (src/include/httplib.h):  *)
(* svr.listen accepts connections and queues each one as a job of a pool;  *)
(* a worker keeps its connection for up to keep_alive_max_count requests   *)
(* and closes it.  What a request does is in SampleFiles and Instances.    *)
(*                                                                         *)
(* Clients are external.  Of what the server takes for a request only its  *)
(* kind matters:                                                           *)
(*   "close"  it asks for Connection: close;                               *)
(*   "old"    HTTP/1.0 that does not ask for Keep-Alive;                   *)
(*   "torn"   its headers break off after Connection: close was read;      *)
(*   "cut"    its first line never ends;                                   *)
(*   "keep"   any other, those refused with an error status included.      *)
(***************************************************************************)
EXTENDS Naturals, Sequences, FiniteSets

CONSTANTS
  Workers,      \* threads of the pool
  Connections,  \* the connections clients make, numbered as they make them
  NoConnection, \* "no connection"
  MaxCount,     \* keep_alive_max_count_
  MaxRequests,  \* bound on the requests sent
  MaxUnread     \* bound on those a connection sends ahead of the server

ASSUME WorkersAssumption == Workers # {} /\ IsFiniteSet(Workers)
ASSUME ConnectionsAssumption == Connections \subseteq Nat /\ NoConnection \notin Connections
ASSUME CountAssumption ==
  MaxCount \in Nat \ {0} /\ MaxRequests \in Nat /\ MaxUnread \in Nat

VARIABLES
  listener,  \* the thread in listen_internal
  jobs,      \* jobs_: connections nobody serves yet
  place,     \* where each worker is
  sock,      \* the connection it serves
  count,     \* requests it may still take from it, this one included
             \* (a local variable: 0 while it serves none)
  kind,      \* the request it handles
  conn,      \* state of each connection, as the server has it
  gone,      \* open connections whose client has closed its end
  inbound,   \* requests sent and not yet read
  asked,     \* number of requests sent
  answers    \* of each open connection, its responses: the request's kind,
             \* and whether they say close

workerVars == <<place, sock, count, kind>>
clientVars == <<gone, inbound, asked>>
vars == <<listener, jobs, workerVars, conn, clientVars, answers>>

Kinds == {"keep", "close", "old", "torn", "cut"}
Answers == [kind : Kinds, close : BOOLEAN]

TypeOK ==
  /\ listener \in {"accept", "shutdown", "ended"}
  /\ jobs \in Seq(Connections)
  /\ place \in [Workers -> {"lock", "wait", "alive", "read", "handle", "close", "exited"}]
  /\ sock \in [Workers -> Connections \cup {NoConnection}]
  /\ count \in [Workers -> 0 .. MaxCount]
  /\ kind \in [Workers -> Kinds \cup {"none"}]
  /\ conn \in [Connections -> {"none", "backlog", "accepted", "closed"}]
  /\ gone \subseteq Connections
  /\ inbound \in [Connections -> Seq(Kinds)]
  /\ asked \in 0 .. MaxRequests
  /\ answers \in [Connections -> Seq(Answers)]

Init ==
  /\ listener = "accept" /\ jobs = <<>>
  /\ place = [w \in Workers |-> "lock"]
  /\ sock  = [w \in Workers |-> NoConnection]
  /\ count = [w \in Workers |-> 0]
  /\ kind  = [w \in Workers |-> "none"]
  /\ conn  = [c \in Connections |-> "none"]
  /\ gone = {}
  /\ inbound = [c \in Connections |-> <<>>]
  /\ asked = 0
  /\ answers = [c \in Connections |-> <<>>]

-----------------------------------------------------------------------------
(* Clients.                                                                *)

Connect(c) ==
  /\ conn[c] = "none" /\ \A d \in Connections : d < c => conn[d] # "none"
  /\ listener = "accept"
  /\ conn' = [conn EXCEPT ![c] = "backlog"]
  /\ UNCHANGED <<listener, jobs, workerVars, clientVars, answers>>

SendRequest(c) ==
  /\ conn[c] \in {"backlog", "accepted"} /\ c \notin gone
  /\ asked < MaxRequests /\ Len(inbound[c]) < MaxUnread
  /\ asked' = asked + 1
  /\ \E k \in Kinds : inbound' = [inbound EXCEPT ![c] = Append(@, k)]
  /\ UNCHANGED <<listener, jobs, workerVars, conn, gone, answers>>

Leave(c) ==
  /\ conn[c] \in {"backlog", "accepted"} /\ c \notin gone
  /\ gone' = gone \cup {c}
  /\ UNCHANGED <<listener, jobs, workerVars, conn, inbound, asked, answers>>

-----------------------------------------------------------------------------
(* The listener.                                                           *)

Waiting == {w \in Workers : place[w] = "wait"}

(* Mutant: enqueue wakes nobody.                                           *)
NotifyNobody == place' = place

(* cond_.notify_one                                                        *)
NotifyOne ==
  IF Waiting = {} THEN place' = place
  ELSE \E w \in Waiting : place' = [place EXCEPT ![w] = "lock"]

(* accept() takes the first connection of the backlog.                     *)
First(c) == conn[c] = "backlog" /\ \A d \in Connections : d < c => conn[d] # "backlog"

Accept(c) ==
  /\ listener = "accept" /\ First(c)
  /\ conn' = [conn EXCEPT ![c] = "accepted"]
  /\ jobs' = Append(jobs, c)
  /\ NotifyOne
  /\ UNCHANGED <<listener, sock, count, kind, clientVars, answers>>

(* A connection reset before it is accepted makes accept() fail, which     *)
(* ends the loop for good: the socket is closed and the pool shut down.    *)
AcceptFails(c) ==
  /\ listener = "accept" /\ First(c) /\ c \in gone
  /\ listener' = "shutdown"
  /\ conn' = [d \in Connections |-> IF conn[d] = "backlog" THEN "closed" ELSE conn[d]]
  /\ inbound' = [d \in Connections |-> IF conn[d] = "backlog" THEN <<>> ELSE inbound[d]]
  /\ gone' = {d \in gone : conn[d] # "backlog"}
  /\ place' = [w \in Workers |-> IF w \in Waiting THEN "lock" ELSE place[w]]
  /\ UNCHANGED <<jobs, sock, count, kind, asked, answers>>

(* shutdown() has joined all threads.                                      *)
ListenEnds ==
  /\ listener = "shutdown" /\ \A w \in Workers : place[w] = "exited"
  /\ listener' = "ended"
  /\ UNCHANGED <<jobs, workerVars, conn, clientVars, answers>>

-----------------------------------------------------------------------------
(* The workers.                                                            *)

Goto(w, p) == place' = [place EXCEPT ![w] = p]

(* Mutant: the job stays on the list.                                      *)
LeaveFront == jobs' = jobs

PopFront == jobs' = Tail(jobs)

TakeJob(w) ==
  /\ place[w] = "lock" /\ jobs # <<>>
  /\ sock'  = [sock  EXCEPT ![w] = Head(jobs)]
  /\ count' = [count EXCEPT ![w] = MaxCount]
  /\ PopFront
  /\ Goto(w, "alive")
  /\ UNCHANGED <<listener, kind, conn, clientVars, answers>>

MayBreak == listener # "accept" /\ jobs = <<>>

Break(w) ==
  /\ place[w] = "lock" /\ MayBreak
  /\ Goto(w, "exited")
  /\ UNCHANGED <<listener, jobs, sock, count, kind, conn, clientVars, answers>>

Wait(w) ==
  /\ place[w] = "lock" /\ jobs = <<>> /\ listener = "accept"
  /\ Goto(w, "wait")
  /\ UNCHANGED <<listener, jobs, sock, count, kind, conn, clientVars, answers>>

SpuriousWakeup(w) ==
  /\ place[w] = "wait" /\ Goto(w, "lock")
  /\ UNCHANGED <<listener, jobs, sock, count, kind, conn, clientVars, answers>>

Stay == UNCHANGED <<listener, jobs, sock, conn, gone, asked>>

TurnsLeft(w) == count[w] > 0

(* keep_alive(): data or the client's end can be read, ...                 *)
KeepAlive(w) ==
  /\ place[w] = "alive" /\ TurnsLeft(w)
  /\ inbound[sock[w]] # <<>> \/ sock[w] \in gone
  /\ Goto(w, "read")
  /\ Stay /\ UNCHANGED <<count, kind, inbound, answers>>

(* Mutant: an idle client is waited for.                                   *)
OnlyExhausted(w) == count[w] = 0

(* ... or nothing comes in time, or the requests are used up.              *)
Exhausted(w) == count[w] = 0 \/ (inbound[sock[w]] = <<>> /\ sock[w] \notin gone)

GiveUp(w) ==
  /\ place[w] = "alive" /\ Exhausted(w)
  /\ Goto(w, "close")
  /\ Stay /\ UNCHANGED <<count, kind, inbound, answers>>

(* process_request() up to the handler.  With no whole first line in time  *)
(* it returns FALSE; with headers that end too early it answers 400 to     *)
(* what it has, and the loop goes on.                                      *)
ReadRequest(w) ==
  LET s == sock[w]
  IN /\ place[w] = "read"
     /\ IF inbound[s] = <<>> \/ Head(inbound[s]) = "cut"
          THEN Goto(w, "close") /\ UNCHANGED <<kind, inbound>>
          ELSE /\ Goto(w, "handle")
               /\ kind' = [kind EXCEPT ![w] = Head(inbound[s])]
               /\ inbound' = [inbound EXCEPT ![s] = Tail(@)]
     /\ Stay /\ UNCHANGED <<count, answers>>

(* req.get_header_value("Connection") == "close", of the headers read      *)
AsksClose(k) == k \in {"close", "torn"}

(* connection_closed, which is set only once all headers are read          *)
ConnectionClosed(k) == k \in {"close", "old"}

(* Mutant: the count is taken for the requests already answered.           *)
SaysCloseLate(w) == AsksClose(kind[w])

(* The response says close: close_connection, which is count == 1, or the  *)
(* request's header.                                                       *)
SaysClose(w) == count[w] = 1 \/ AsksClose(kind[w])

(* The handler, the response, and the end of the loop's turn.              *)
HandleRequest(w) ==
  /\ place[w] = "handle"
  /\ answers' = [answers EXCEPT ![sock[w]] =
                   Append(@, [kind |-> kind[w], close |-> SaysClose(w)])]
  /\ IF ConnectionClosed(kind[w])
       THEN Goto(w, "close") /\ UNCHANGED count
       ELSE Goto(w, "alive") /\ count' = [count EXCEPT ![w] = @ - 1]
  /\ kind' = [kind EXCEPT ![w] = "none"]
  /\ Stay /\ UNCHANGED inbound

(* The body cannot be written: the client is gone, or takes nothing until  *)
(* the write times out.                                                    *)
WriteFails(w) ==
  /\ place[w] = "handle"
  /\ Goto(w, "close")
  /\ kind' = [kind EXCEPT ![w] = "none"]
  /\ Stay /\ UNCHANGED <<count, inbound, answers>>

(* What the client has sent and nobody read is gone with the socket.       *)
CloseSocket(w) ==
  LET s == sock[w]
  IN /\ place[w] = "close"
     /\ conn' = [conn EXCEPT ![s] = "closed"]
     /\ sock' = [sock EXCEPT ![w] = NoConnection]
     /\ inbound' = [inbound EXCEPT ![s] = <<>>]
     /\ gone' = gone \ {s}
     /\ answers' = [answers EXCEPT ![s] = <<>>]
     /\ count' = [count EXCEPT ![w] = 0]
     /\ Goto(w, "lock")
     /\ UNCHANGED <<listener, jobs, kind, asked>>

Worker(w) ==
  \/ TakeJob(w) \/ Break(w) \/ Wait(w)
  \/ KeepAlive(w) \/ GiveUp(w) \/ ReadRequest(w) \/ HandleRequest(w) \/ WriteFails(w)
  \/ CloseSocket(w)

Listener == ListenEnds \/ \E c \in Connections : Accept(c) \/ AcceptFails(c)

Next ==
  \/ Listener
  \/ \E w \in Workers : Worker(w) \/ SpuriousWakeup(w)
  \/ \E c \in Connections : Connect(c) \/ SendRequest(c) \/ Leave(c)

Spec == Init /\ [][Next]_vars

(* Threads run on: handlers return, and every wait of a worker for its     *)
(* client has a timeout.  Clients owe nothing.                             *)
FairSpec == Spec /\ WF_vars(Listener) /\ \A w \in Workers : WF_vars(Worker(w))

-----------------------------------------------------------------------------
(* A connection that was accepted and not closed is at exactly one place:  *)
(* once among the jobs or with one worker.  None is lost, and no two       *)
(* threads read one socket or close it twice.                              *)
OneServer ==
  \A c \in Connections :
    /\ conn[c] = "accepted" <=> \/ \E w \in Workers : sock[w] = c
                                \/ \E i \in DOMAIN jobs : jobs[i] = c
    /\ \A v, w \in Workers : sock[v] = c /\ sock[w] = c => v = w
    /\ \A i, j \in DOMAIN jobs : jobs[i] = c /\ jobs[j] = c => i = j
    /\ \A w \in Workers, i \in DOMAIN jobs : ~ (sock[w] = c /\ jobs[i] = c)

(* A worker waits only while there are no more jobs than workers that are  *)
(* awake to take one: enqueue's single notification is never one too few.  *)
NoJobWaits ==
  Waiting # {} => Len(jobs) <= Cardinality({w \in Workers : place[w] = "lock"})

(* The loop may go on after this answer.                                   *)
GoesOn(a) == a.kind = "torn" \/ (a.kind = "keep" /\ ~a.close)

(* A connection gets at most MaxCount answers.  The MaxCount-th announces  *)
(* the end, so that no request sent in good faith after a keep-alive       *)
(* answer meets a server that counts otherwise; an earlier one announces   *)
(* it only to a request that asked for it.  After an announced end the     *)
(* loop goes on in one case alone, that of headers that broke off, and     *)
(* after an HTTP/1.0 request in none, whatever the answer said.            *)
AnnouncedClose ==
  \A c \in Connections :
    /\ Len(answers[c]) <= MaxCount
    /\ \A i \in DOMAIN answers[c] :
         LET a == answers[c][i] IN
         /\ i = MaxCount => a.close
         /\ a.close => i = MaxCount \/ AsksClose(a.kind)
         /\ i < Len(answers[c]) => GoesOn(a)

(* listen() returns only when everything it accepted has been closed: the  *)
(* workers finish the jobs before they leave.                              *)
DrainedAtEnd ==
  listener = "ended" => \A c \in Connections : conn[c] # "accepted"

(* The pool loses no connection and keeps none.                            *)
PoolInv == TypeOK /\ OneServer /\ DrainedAtEnd

(* Whoever connects is accepted and its connection closed in the end, also *)
(* one that finds every worker taken by clients that are idle or silent,   *)
(* or by requests that break off; or the listener has ended, and has       *)
(* closed it.                                                              *)
Released == \A c \in Connections : conn[c] = "backlog" ~> conn[c] = "closed"
=============================================================================
