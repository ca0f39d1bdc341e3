-------------------------- MODULE HttpServerProofs --------------------------
(***************************************************************************)
(* Proofs about the HTTP server: about HttpServer, for any number of       *)
(* workers, connections and requests, and about the files its handlers     *)
(* write, SampleFiles, for any number of uploads, names, walks and         *)
(* launches.                                                               *)
(***************************************************************************)
EXTENDS HttpServer, SampleFiles, SequenceTheorems, FiniteSetTheorems,
        WellFoundedInduction, TLAPS

-----------------------------------------------------------------------------
(* The inductive invariant.                                                *)

(* A worker has a connection exactly while it serves one.                  *)
Serving ==
  \A w \in Workers :
    sock[w] = NoConnection <=> place[w] \in {"lock", "wait", "exited"}

(* A worker leaves for good only with no job left, and none can come.      *)
LeavesNothing ==
  \A w \in Workers : place[w] = "exited" => jobs = <<>> /\ listener # "accept"

AllLeft == listener = "ended" => \A w \in Workers : place[w] = "exited"

(* The countdown of a worker and the answers its connection has had add up *)
(* to MaxCount, and while turns are left none of these was a last one.     *)
CountsDown ==
  \A w \in Workers :
    place[w] \in {"alive", "read", "handle"} =>
      /\ Len(answers[sock[w]]) + count[w] = MaxCount
      /\ place[w] # "alive" => count[w] > 0
      /\ place[w] = "handle" => kind[w] \in Kinds \ {"cut"}
      /\ count[w] > 0 =>
           \A i \in DOMAIN answers[sock[w]] : GoesOn(answers[sock[w]][i])

(* A connection nobody has served yet has no answers.                      *)
NoneYet ==
  /\ \A c \in Connections : conn[c] \in {"none", "backlog"} => answers[c] = <<>>
  /\ \A i \in DOMAIN jobs : answers[jobs[i]] = <<>>

PlaceInv == OneServer /\ Serving /\ LeavesNothing /\ AllLeft
CountInv == CountsDown /\ NoneYet /\ AnnouncedClose
IInv == TypeOK /\ PlaceInv /\ CountInv /\ NoJobWaits

USE DEF workerVars, clientVars, Goto, Stay

-----------------------------------------------------------------------------
(* Types.                                                                  *)

LEMMA JobTypes ==
  ASSUME TypeOK
  PROVE  /\ Len(jobs) \in Nat /\ DOMAIN jobs = 1 .. Len(jobs)
         /\ \A i \in DOMAIN jobs : jobs[i] \in Connections
         /\ MaxCount \in Nat \ {0}
BY CountAssumption, LenProperties DEF TypeOK

LEMMA HeadTail ==
  ASSUME TypeOK, jobs # <<>>
  PROVE  /\ Head(jobs) \in Connections /\ Head(jobs) = jobs[1]
         /\ Tail(jobs) \in Seq(Connections)
         /\ Len(jobs) \in Nat \ {0} /\ DOMAIN jobs = 1 .. Len(jobs)
         /\ Len(Tail(jobs)) = Len(jobs) - 1
         /\ DOMAIN Tail(jobs) = 1 .. Len(jobs) - 1
         /\ \A i \in 1 .. Len(jobs) - 1 : Tail(jobs)[i] = jobs[i + 1]
BY HeadTailProperties, EmptySeq DEF TypeOK

LEMMA Appended ==
  ASSUME TypeOK, NEW c \in Connections
  PROVE  /\ Append(jobs, c) \in Seq(Connections)
         /\ Len(jobs) \in Nat /\ Len(Append(jobs, c)) = Len(jobs) + 1
         /\ DOMAIN jobs = 1 .. Len(jobs) /\ DOMAIN Append(jobs, c) = 1 .. Len(jobs) + 1
         /\ \A i \in 1 .. Len(jobs) : Append(jobs, c)[i] = jobs[i]
         /\ Append(jobs, c)[Len(jobs) + 1] = c
BY AppendProperties DEF TypeOK

(* A worker that serves has a connection, which is in its care alone.      *)
LEMMA ServedOne ==
  ASSUME TypeOK, Serving, NEW w \in Workers, place[w] \notin {"lock", "wait", "exited"}
  PROVE  sock[w] \in Connections
BY DEF TypeOK, Serving

LEMMA NextType ==
  ASSUME TypeOK, Serving, CountsDown, [Next]_vars
  PROVE  TypeOK'
<1>1. CASE \E c \in Connections : Connect(c)
  BY <1>1 DEF TypeOK, Connect
<1>2. ASSUME NEW c \in Connections, SendRequest(c) PROVE TypeOK'
  <2>1. PICK k \in Kinds : inbound' = [inbound EXCEPT ![c] = Append(@, k)]
    BY <1>2 DEF SendRequest
  <2>2. inbound' \in [Connections -> Seq(Kinds)]
    BY <2>1, AppendProperties DEF TypeOK
  <2>3. asked' \in 0 .. MaxRequests
    BY <1>2, CountAssumption DEF TypeOK, SendRequest
  <2> QED BY <1>2, <2>2, <2>3 DEF TypeOK, SendRequest
<1>3. CASE \E c \in Connections : Leave(c)
  BY <1>3 DEF TypeOK, Leave
<1>4. ASSUME NEW c \in Connections, Accept(c) PROVE TypeOK'
  <2>1. jobs' \in Seq(Connections)
    BY <1>4, Appended DEF Accept
  <2>2. place' \in [Workers -> {"lock", "wait", "alive", "read", "handle", "close", "exited"}]
    BY <1>4 DEF Accept, NotifyOne, TypeOK
  <2> QED BY <1>4, <2>1, <2>2 DEF TypeOK, Accept
<1>5. CASE \E c \in Connections : AcceptFails(c)
  BY <1>5, EmptySeq DEF TypeOK, AcceptFails
<1>6. CASE ListenEnds
  BY <1>6 DEF TypeOK, ListenEnds
<1>7. ASSUME NEW w \in Workers, TakeJob(w) PROVE TypeOK'
  <2>1. Head(jobs) \in Connections /\ Tail(jobs) \in Seq(Connections)
    BY <1>7, HeadTail DEF TakeJob
  <2>2. /\ sock' \in [Workers -> Connections \cup {NoConnection}]
        /\ jobs' \in Seq(Connections)
    BY <1>7, <2>1 DEF TypeOK, TakeJob, PopFront
  <2>3. count' \in [Workers -> 0 .. MaxCount]
    BY <1>7, CountAssumption DEF TypeOK, TakeJob
  <2>4. place' \in [Workers -> {"lock", "wait", "alive", "read", "handle", "close", "exited"}]
    BY <1>7 DEF TypeOK, TakeJob
  <2> QED BY <1>7, <2>2, <2>3, <2>4 DEF TypeOK, TakeJob
<1>8. CASE \E w \in Workers : Break(w) \/ Wait(w) \/ SpuriousWakeup(w)
  BY <1>8 DEF TypeOK, Break, Wait, SpuriousWakeup
<1>9. CASE \E w \in Workers : KeepAlive(w) \/ GiveUp(w)
  BY <1>9 DEF TypeOK, KeepAlive, GiveUp
<1>10. ASSUME NEW w \in Workers, ReadRequest(w) PROVE TypeOK'
  <2>1. sock[w] \in Connections
    BY <1>10, ServedOne DEF ReadRequest
  <2>2. CASE inbound[sock[w]] = <<>> \/ Head(inbound[sock[w]]) = "cut"
    BY <1>10, <2>2 DEF TypeOK, ReadRequest
  <2>3. CASE ~ (inbound[sock[w]] = <<>> \/ Head(inbound[sock[w]]) = "cut")
    <3>1. /\ Head(inbound[sock[w]]) \in Kinds
          /\ Tail(inbound[sock[w]]) \in Seq(Kinds)
      BY <2>1, <2>3, HeadTailProperties DEF TypeOK
    <3>2. /\ inbound' = [inbound EXCEPT ![sock[w]] = Tail(@)]
          /\ kind' = [kind EXCEPT ![w] = Head(inbound[sock[w]])]
          /\ place' = [place EXCEPT ![w] = "handle"]
      BY <1>10, <2>3 DEF ReadRequest
    <3>3. inbound' \in [Connections -> Seq(Kinds)]
      BY <2>1, <3>1, <3>2 DEF TypeOK
    <3> QED BY <1>10, <3>1, <3>2, <3>3 DEF TypeOK, ReadRequest
  <2> QED BY <2>2, <2>3
<1>11. ASSUME NEW w \in Workers, HandleRequest(w) PROVE TypeOK'
  <2>1. sock[w] \in Connections /\ count[w] \in 1 .. MaxCount
    <3>1. place[w] = "handle"
      BY <1>11 DEF HandleRequest
    <3>2. count[w] > 0 /\ count[w] \in 0 .. MaxCount
      BY <3>1 DEF TypeOK, CountsDown
    <3> QED BY <3>1, <3>2, ServedOne, CountAssumption
  <2>2. PICK a \in Answers : answers' = [answers EXCEPT ![sock[w]] = Append(@, a)]
    <3>1. kind[w] \in Kinds /\ SaysClose(w) \in BOOLEAN
      BY <1>11 DEF HandleRequest, CountsDown, SaysClose
    <3> QED BY <1>11, <3>1 DEF HandleRequest, Answers
  <2>3. answers' \in [Connections -> Seq(Answers)]
    <3>1. Append(answers[sock[w]], a) \in Seq(Answers)
      BY <2>1, AppendProperties DEF TypeOK
    <3> QED BY <2>1, <2>2, <3>1 DEF TypeOK
  <2>4. count' \in [Workers -> 0 .. MaxCount]
    <3>1. count[w] - 1 \in 0 .. MaxCount
      BY <2>1, CountAssumption
    <3> QED BY <1>11, <3>1 DEF TypeOK, HandleRequest
  <2>5. /\ kind' \in [Workers -> Kinds \cup {"none"}]
        /\ place' \in [Workers -> {"lock", "wait", "alive", "read", "handle", "close", "exited"}]
    BY <1>11 DEF TypeOK, HandleRequest
  <2> QED BY <1>11, <2>3, <2>4, <2>5 DEF TypeOK, HandleRequest
<1>12. CASE \E w \in Workers : WriteFails(w)
  BY <1>12 DEF TypeOK, WriteFails
<1>13. ASSUME NEW w \in Workers, CloseSocket(w) PROVE TypeOK'
  <2>1. /\ inbound' \in [Connections -> Seq(Kinds)] /\ answers' \in [Connections -> Seq(Answers)]
        /\ gone' \subseteq Connections
    BY <1>13, EmptySeq DEF TypeOK, CloseSocket
  <2>2. count' \in [Workers -> 0 .. MaxCount]
    BY <1>13, CountAssumption DEF TypeOK, CloseSocket
  <2> QED BY <1>13, <2>1, <2>2 DEF TypeOK, CloseSocket
<1>14. CASE UNCHANGED vars
  BY <1>14 DEF TypeOK, vars
<1> QED
  BY <1>1, <1>2, <1>3, <1>4, <1>5, <1>6, <1>7, <1>8, <1>9, <1>10, <1>11, <1>12, <1>13, <1>14
  DEF Next, Listener, Worker

-----------------------------------------------------------------------------
(* Where connections are.                                                  *)

(* Steps that move neither a connection nor a worker in or out of one.     *)
LEMMA SamePlaces ==
  ASSUME TypeOK, PlaceInv, NEW w \in Workers,
         place[w] \in {"alive", "read", "handle"},
         \E p \in {"alive", "read", "handle", "close"} : Goto(w, p),
         UNCHANGED <<listener, jobs, sock, conn>>
  PROVE  PlaceInv'
<1>1. OneServer'
  BY DEF PlaceInv, OneServer
<1>2. Serving'
  BY DEF PlaceInv, Serving, TypeOK
<1>3. LeavesNothing'
  BY DEF PlaceInv, LeavesNothing, TypeOK
<1>4. AllLeft'
  BY DEF PlaceInv, AllLeft, TypeOK
<1> QED BY <1>1, <1>2, <1>3, <1>4 DEF PlaceInv

LEMMA NextPlaces ==
  ASSUME TypeOK, PlaceInv, [Next]_vars
  PROVE  PlaceInv'
<1>1. ASSUME NEW c \in Connections, Connect(c) PROVE PlaceInv'
  <2>1. \A d \in Connections : conn'[d] = "accepted" <=> conn[d] = "accepted"
    BY <1>1 DEF Connect, TypeOK
  <2>2. UNCHANGED <<listener, jobs, place, sock>>
    BY <1>1 DEF Connect
  <2> QED BY <2>1, <2>2 DEF PlaceInv, OneServer, Serving, LeavesNothing, AllLeft
<1>2. CASE \E c \in Connections : SendRequest(c) \/ Leave(c)
  BY <1>2 DEF SendRequest, Leave, PlaceInv, OneServer, Serving, LeavesNothing, AllLeft
<1>3. ASSUME NEW c \in Connections, Accept(c) PROVE PlaceInv'
  <2>1. /\ jobs' = Append(jobs, c) /\ conn' = [conn EXCEPT ![c] = "accepted"]
        /\ sock' = sock /\ listener' = listener /\ listener = "accept"
        /\ conn[c] = "backlog"
    BY <1>3 DEF Accept, First
  <2>2. /\ \A w \in Workers : sock[w] # c
        /\ \A i \in DOMAIN jobs : jobs[i] # c
    BY <2>1 DEF PlaceInv, OneServer
  <2>3. \A w \in Workers :
          \/ place'[w] = place[w]
          \/ place[w] = "wait" /\ place'[w] = "lock"
    BY <1>3 DEF Accept, NotifyOne, Waiting, TypeOK
  <2>4. OneServer'
    <3> SUFFICES ASSUME NEW d \in Connections PROVE OneServer!(d)'
      BY DEF OneServer
    <3>a. OneServer!(d)
      BY DEF PlaceInv, OneServer
    <3>b. /\ Len(jobs) \in Nat /\ DOMAIN jobs = 1 .. Len(jobs)
          /\ DOMAIN jobs' = 1 .. Len(jobs) + 1
          /\ \A i \in 1 .. Len(jobs) : jobs'[i] = jobs[i]
          /\ jobs'[Len(jobs) + 1] = c
      BY <2>1, Appended
    <3>1. CASE d = c
      <4>1. conn'[d] = "accepted"
        BY <2>1, <3>1 DEF TypeOK
      <4>2. Len(jobs) + 1 \in DOMAIN jobs'
        BY <3>b
      <4>3. \A i \in DOMAIN jobs' : jobs'[i] = d => i = Len(jobs) + 1
        BY <2>2, <3>1, <3>b
      <4> QED BY <2>1, <2>2, <3>1, <3>b, <4>1, <4>2, <4>3
    <3>2. CASE d # c
      <4>1. conn'[d] = conn[d]
        BY <2>1, <3>2 DEF TypeOK
      <4>2. \A i \in DOMAIN jobs' : jobs'[i] = d <=> i \in DOMAIN jobs /\ jobs[i] = d
        BY <3>2, <3>b
      <4>3. DOMAIN jobs \subseteq DOMAIN jobs'
        BY <3>b
      <4> QED BY <2>1, <3>a, <4>1, <4>2, <4>3
    <3> QED BY <3>1, <3>2
  <2>5. Serving'
    BY <2>1, <2>3 DEF PlaceInv, Serving
  <2>6. LeavesNothing' /\ AllLeft'
    BY <2>1, <2>3 DEF PlaceInv, LeavesNothing, AllLeft
  <2> QED BY <2>4, <2>5, <2>6 DEF PlaceInv
<1>4. ASSUME NEW c \in Connections, AcceptFails(c) PROVE PlaceInv'
  <2>1. \A w \in Workers :
          \/ place'[w] = place[w]
          \/ place[w] = "wait" /\ place'[w] = "lock"
    BY <1>4 DEF AcceptFails, Waiting, TypeOK
  <2>2. \A d \in Connections : conn'[d] = "accepted" <=> conn[d] = "accepted"
    BY <1>4 DEF AcceptFails
  <2>3. /\ UNCHANGED <<jobs, sock>> /\ listener' = "shutdown"
    BY <1>4 DEF AcceptFails
  <2> QED BY <2>1, <2>2, <2>3 DEF PlaceInv, OneServer, Serving, LeavesNothing, AllLeft
<1>5. CASE ListenEnds
  BY <1>5 DEF ListenEnds, PlaceInv, OneServer, Serving, LeavesNothing, AllLeft
<1>6. ASSUME NEW w \in Workers, TakeJob(w) PROVE PlaceInv'
  <2>1. /\ jobs # <<>> /\ place[w] = "lock" /\ sock[w] = NoConnection
        /\ jobs' = Tail(jobs) /\ sock' = [sock EXCEPT ![w] = jobs[1]]
        /\ place' = [place EXCEPT ![w] = "alive"] /\ UNCHANGED <<conn, listener>>
    BY <1>6, HeadTail DEF TakeJob, PopFront, PlaceInv, Serving
  <2>2. /\ jobs[1] \in Connections /\ Len(jobs) \in Nat \ {0}
        /\ DOMAIN jobs = 1 .. Len(jobs) /\ DOMAIN jobs' = 1 .. Len(jobs) - 1
        /\ \A i \in 1 .. Len(jobs) - 1 : jobs'[i] = jobs[i + 1]
    BY <2>1, HeadTail
  <2>3. /\ sock'[w] = jobs[1]
        /\ \A v \in Workers : v # w => sock'[v] = sock[v]
    BY <2>1 DEF TypeOK
  <2>4. OneServer'
    <3> SUFFICES ASSUME NEW d \in Connections PROVE OneServer!(d)'
      BY DEF OneServer
    <3>a. OneServer!(d)
      BY DEF PlaceInv, OneServer
    <3>b. /\ sock[w] # d
          /\ \A i \in 1 .. Len(jobs) : i # 1 => i - 1 \in 1 .. Len(jobs) - 1
          /\ \A i \in 1 .. Len(jobs) - 1 : i + 1 \in 1 .. Len(jobs)
      BY <2>1, <2>2, ConnectionsAssumption
    <3>1. CASE d = jobs[1]
      <4>1. \A v \in Workers : sock[v] # d
        BY <3>a, <3>1, <2>2
      <4>2. \A i \in 1 .. Len(jobs) - 1 : jobs'[i] # d
        BY <3>a, <3>1, <3>b, <2>2
      <4> QED BY <3>a, <3>1, <4>1, <4>2, <2>1, <2>2, <2>3
    <3>2. CASE d # jobs[1]
      <4>1. \A v \in Workers : sock'[v] = d <=> sock[v] = d
        BY <3>2, <3>b, <2>3
      <4>2. (\E i \in 1 .. Len(jobs) : jobs[i] = d)
              <=> \E i \in 1 .. Len(jobs) - 1 : jobs'[i] = d
        <5>1. ASSUME NEW i \in 1 .. Len(jobs), jobs[i] = d
              PROVE  \E k \in 1 .. Len(jobs) - 1 : jobs'[k] = d
          <6>1. i # 1 /\ i - 1 \in 1 .. Len(jobs) - 1 /\ (i - 1) + 1 = i
            BY <5>1, <3>2, <3>b
          <6>2. jobs'[i - 1] = jobs[(i - 1) + 1]
            BY <6>1, <2>2
          <6> QED BY <5>1, <6>1, <6>2
        <5> QED BY <5>1, <3>b, <2>2
      <4>3. \A i, j \in DOMAIN jobs' : jobs'[i] = d /\ jobs'[j] = d => i = j
        <5> SUFFICES ASSUME NEW i \in 1 .. Len(jobs) - 1, NEW j \in 1 .. Len(jobs) - 1,
                            jobs'[i] = d, jobs'[j] = d
                     PROVE  i = j
          BY <2>2
        <5>1. jobs[i + 1] = d /\ jobs[j + 1] = d
          BY <2>2
        <5>2. i + 1 \in DOMAIN jobs /\ j + 1 \in DOMAIN jobs
          BY <3>b, <2>2
        <5>3. i + 1 = j + 1
          BY <3>a, <5>1, <5>2
        <5> QED BY <5>3
      <4>4. \A v \in Workers, i \in DOMAIN jobs' : ~ (sock'[v] = d /\ jobs'[i] = d)
        BY <3>a, <3>b, <4>1, <2>2
      <4>5. conn'[d] = "accepted" <=> \/ \E v \in Workers : sock'[v] = d
                                     \/ \E i \in DOMAIN jobs' : jobs'[i] = d
        BY <3>a, <4>1, <4>2, <2>1, <2>2
      <4> QED BY <3>a, <4>1, <4>3, <4>4, <4>5
    <3> QED BY <3>1, <3>2
  <2>5. Serving'
    BY <2>1, <2>2, ConnectionsAssumption DEF PlaceInv, Serving, TypeOK
  <2>6. LeavesNothing' /\ AllLeft'
    BY <2>1 DEF PlaceInv, LeavesNothing, AllLeft, TypeOK
  <2> QED BY <2>4, <2>5, <2>6 DEF PlaceInv
<1>7. ASSUME NEW w \in Workers, Break(w) \/ Wait(w) \/ SpuriousWakeup(w) PROVE PlaceInv'
  <2>1. /\ UNCHANGED <<listener, jobs, sock, conn>>
        /\ place[w] \in {"lock", "wait"}
        /\ \/ \E p \in {"lock", "wait"} : place' = [place EXCEPT ![w] = p]
           \/ /\ place' = [place EXCEPT ![w] = "exited"]
              /\ jobs = <<>> /\ listener # "accept"
    BY <1>7 DEF Break, Wait, SpuriousWakeup, MayBreak
  <2>2. OneServer'
    BY <2>1 DEF PlaceInv, OneServer
  <2>3. Serving'
    BY <2>1 DEF PlaceInv, Serving, TypeOK
  <2>4. LeavesNothing' /\ AllLeft'
    BY <2>1 DEF PlaceInv, LeavesNothing, AllLeft, TypeOK
  <2> QED BY <2>2, <2>3, <2>4 DEF PlaceInv
<1>8. CASE \E w \in Workers : KeepAlive(w) \/ GiveUp(w) \/ ReadRequest(w)
  BY <1>8, SamePlaces DEF KeepAlive, GiveUp, ReadRequest
<1>9. CASE \E w \in Workers : HandleRequest(w) \/ WriteFails(w)
  BY <1>9, SamePlaces DEF HandleRequest, WriteFails
<1>10. ASSUME NEW w \in Workers, CloseSocket(w) PROVE PlaceInv'
  <2>1. /\ place[w] = "close" /\ sock[w] \in Connections
        /\ conn' = [conn EXCEPT ![sock[w]] = "closed"]
        /\ sock' = [sock EXCEPT ![w] = NoConnection]
        /\ place' = [place EXCEPT ![w] = "lock"] /\ UNCHANGED <<listener, jobs>>
    BY <1>10, ServedOne DEF CloseSocket, PlaceInv
  <2>2. OneServer'
    <3> SUFFICES ASSUME NEW d \in Connections PROVE OneServer!(d)'
      BY DEF OneServer
    <3>a. OneServer!(d)
      BY DEF PlaceInv, OneServer
    <3>1. CASE d = sock[w]
      BY <3>a, <3>1, <2>1, ConnectionsAssumption DEF TypeOK
    <3>2. CASE d # sock[w]
      BY <3>a, <3>2, <2>1, ConnectionsAssumption DEF TypeOK
    <3> QED BY <3>1, <3>2
  <2>3. Serving'
    BY <2>1 DEF PlaceInv, Serving, TypeOK
  <2>4. LeavesNothing' /\ AllLeft'
    BY <2>1 DEF PlaceInv, LeavesNothing, AllLeft, TypeOK
  <2> QED BY <2>2, <2>3, <2>4 DEF PlaceInv
<1>11. CASE UNCHANGED vars
  BY <1>11 DEF vars, PlaceInv, OneServer, Serving, LeavesNothing, AllLeft
<1> QED
  BY <1>1, <1>2, <1>3, <1>4, <1>5, <1>6, <1>7, <1>8, <1>9, <1>10, <1>11
  DEF Next, Listener, Worker

-----------------------------------------------------------------------------
(* What connections are answered.                                          *)

(* Steps that answer nothing and let no worker count otherwise.            *)
LEMMA SameCounts ==
  ASSUME TypeOK, CountInv, UNCHANGED answers,
         \A w \in Workers : place'[w] \in {"alive", "read", "handle"} =>
           /\ place[w] \in {"alive", "read", "handle"}
           /\ sock'[w] = sock[w] /\ count'[w] = count[w]
           /\ place'[w] # "alive" => count[w] > 0
           /\ place'[w] = "handle" => kind'[w] \in Kinds \ {"cut"},
         \A c \in Connections : conn'[c] \in {"none", "backlog"}
                                  => conn[c] \in {"none", "backlog"},
         \A i \in DOMAIN jobs' : answers[jobs'[i]] = <<>>
  PROVE  CountInv'
<1>1. CountsDown'
  BY DEF CountInv, CountsDown
<1>2. NoneYet' /\ AnnouncedClose'
  BY DEF CountInv, NoneYet, AnnouncedClose
<1> QED BY <1>1, <1>2 DEF CountInv

LEMMA HandleCounts ==
  ASSUME TypeOK, PlaceInv, CountInv, NEW w \in Workers, HandleRequest(w)
  PROVE  CountInv'
<1> DEFINE s == sock[w]
           n == Len(answers[s])
           bye == [kind |-> kind[w], close |-> SaysClose(w)]
<1>1. /\ s \in Connections /\ place[w] = "handle"
      /\ answers' = [answers EXCEPT ![s] = Append(@, bye)]
      /\ bye.kind = kind[w] /\ bye.close = SaysClose(w)
      /\ kind[w] \in Kinds \ {"cut"}
      /\ UNCHANGED <<jobs, sock, conn>>
  BY ServedOne DEF HandleRequest, PlaceInv, CountInv, CountsDown
<1>b. bye \in Answers
  BY <1>1 DEF Answers, SaysClose
<1>2. /\ n \in Nat /\ n + count[w] = MaxCount /\ count[w] \in 1 .. MaxCount
      /\ MaxCount \in Nat
      /\ \A i \in 1 .. n : GoesOn(answers[s][i])
  <2>1. answers[s] \in Seq(Answers)
    BY <1>1 DEF TypeOK
  <2>2. count[w] > 0 /\ count[w] \in 0 .. MaxCount /\ n + count[w] = MaxCount
    BY <1>1 DEF TypeOK, CountInv, CountsDown
  <2>3. \A i \in DOMAIN answers[s] : GoesOn(answers[s][i])
    BY <1>1, <2>2 DEF CountInv, CountsDown
  <2> QED BY <2>1, <2>2, <2>3, LenProperties, CountAssumption
<1>3. /\ Len(answers'[s]) = n + 1 /\ DOMAIN answers'[s] = 1 .. n + 1
      /\ \A i \in 1 .. n : answers'[s][i] = answers[s][i]
      /\ answers'[s][n + 1] = bye
      /\ \A c \in Connections \ {s} : answers'[c] = answers[c]
  <2>1. answers[s] \in Seq(Answers) /\ answers'[s] = Append(answers[s], bye)
    BY <1>1 DEF TypeOK
  <2>2. \A c \in Connections \ {s} : answers'[c] = answers[c]
    BY <1>1 DEF TypeOK
  <2> HIDE DEF bye, s
  <2> QED BY <1>b, <1>1, <1>2, <2>1, <2>2, AppendProperties
<1>4. /\ count[w] = 1 => bye.close
      /\ bye.close => count[w] = 1 \/ AsksClose(bye.kind)
      /\ count[w] # 1 /\ ~ConnectionClosed(bye.kind) => GoesOn(bye)
  BY <1>1 DEF SaysClose, AsksClose, ConnectionClosed, GoesOn, Kinds
<1>5. \A v \in Workers : v # w => sock[v] # s
  BY <1>1 DEF PlaceInv, OneServer
<1>6. /\ conn[s] = "accepted"
      /\ \A i \in DOMAIN jobs : jobs[i] # s /\ jobs[i] \in Connections
  BY <1>1, JobTypes DEF PlaceInv, OneServer
<1>7. AnnouncedClose'
  <2> HIDE DEF s, n, bye
  <2> SUFFICES ASSUME NEW c \in Connections PROVE AnnouncedClose!(c)'
    BY DEF AnnouncedClose
  <2>1. CASE c = s
    <3>1. \A i \in 1 .. n + 1 : i # n + 1 => i \in 1 .. n /\ i # MaxCount
      BY <1>2
    <3>2. /\ n + 1 <= MaxCount /\ (n + 1 = MaxCount => bye.close)
          /\ bye.close => n + 1 = MaxCount \/ AsksClose(bye.kind)
          /\ ~(n + 1 < n + 1)
      BY <1>2, <1>4
    <3>3. \A i \in 1 .. n : answers[s][i].close => i = MaxCount \/ AsksClose(answers[s][i].kind)
      BY <1>1, <1>2 DEF GoesOn, AsksClose
    <3> QED BY <2>1, <1>2, <1>3, <3>1, <3>2, <3>3
  <2>2. CASE c # s
    BY <2>2, <1>3 DEF CountInv, AnnouncedClose
  <2> QED BY <2>1, <2>2
<1>8. NoneYet'
  BY <1>1, <1>3, <1>6 DEF CountInv, NoneYet
<1>9. CountsDown'
  <2> SUFFICES ASSUME NEW v \in Workers, place'[v] \in {"alive", "read", "handle"}
               PROVE  /\ Len(answers'[sock'[v]]) + count'[v] = MaxCount
                      /\ place'[v] # "alive" => count'[v] > 0
                      /\ place'[v] = "handle" => kind'[v] \in Kinds \ {"cut"}
                      /\ count'[v] > 0 => \A i \in DOMAIN answers'[sock'[v]] :
                                            GoesOn(answers'[sock'[v]][i])
    BY DEF CountsDown, GoesOn
  <2>1. CASE v = w
    <3>1. /\ place'[v] = "alive" /\ ~ConnectionClosed(kind[w]) /\ count'[v] = count[w] - 1
          /\ sock'[v] = s
      BY <2>1, <1>1 DEF HandleRequest, TypeOK
    <3>2. count'[v] > 0 => GoesOn(bye)
      BY <3>1, <1>1, <1>2, <1>4
    <3> HIDE DEF s, n, bye
    <3>3. (n + 1) + (count[w] - 1) = MaxCount
      BY <1>2
    <3>4. count'[v] > 0 => \A i \in 1 .. n + 1 : GoesOn(answers'[s][i])
      BY <3>2, <1>2, <1>3
    <3> QED BY <3>1, <3>3, <3>4, <1>3
  <2>2. CASE v # w
    <3>1. /\ place'[v] = place[v] /\ count'[v] = count[v] /\ sock'[v] = sock[v]
          /\ kind'[v] = kind[v]
      BY <2>2 DEF HandleRequest, TypeOK
    <3>2. sock[v] \in Connections \ {s}
      BY <2>2, <3>1, <1>5, ServedOne DEF PlaceInv
    <3>3. answers'[sock[v]] = answers[sock[v]]
      BY <3>2, <1>3
    <3> QED BY <3>1, <3>3 DEF CountInv, CountsDown
  <2> QED BY <2>1, <2>2
<1> QED BY <1>7, <1>8, <1>9 DEF CountInv

LEMMA NextCounts ==
  ASSUME TypeOK, PlaceInv, CountInv, [Next]_vars
  PROVE  CountInv'
<1>1. \A i \in DOMAIN jobs : answers[jobs[i]] = <<>>
  BY DEF CountInv, NoneYet
<1>2. ASSUME NEW w \in Workers, place[w] \in {"read", "handle"}
      PROVE  count[w] > 0 /\ (place[w] = "handle" => kind[w] \in Kinds \ {"cut"})
  BY <1>2 DEF CountInv, CountsDown
<1>3. ASSUME NEW c \in Connections, Connect(c) PROVE CountInv'
  <2>1. UNCHANGED <<answers, place, sock, count, kind, jobs>>
    BY <1>3 DEF Connect
  <2>2. \A d \in Connections : conn'[d] \in {"none", "backlog"}
                                 => conn[d] \in {"none", "backlog"}
    BY <1>3 DEF Connect, TypeOK
  <2> QED BY <1>1, <1>2, <2>1, <2>2, SameCounts
<1>4. CASE (\E c \in Connections : SendRequest(c) \/ Leave(c)) \/ ListenEnds \/ UNCHANGED vars
  <2>1. UNCHANGED <<answers, place, sock, count, kind, jobs, conn>>
    BY <1>4 DEF SendRequest, Leave, ListenEnds, vars
  <2> QED BY <1>1, <1>2, <2>1, SameCounts
<1>5. ASSUME NEW c \in Connections, Accept(c) PROVE CountInv'
  <2>1. UNCHANGED <<answers, sock, count, kind>>
    BY <1>5 DEF Accept
  <2>2. \A w \in Workers : place'[w] \in {"alive", "read", "handle"} => place'[w] = place[w]
    BY <1>5 DEF Accept, NotifyOne, Waiting, TypeOK
  <2>3. \A d \in Connections : conn'[d] \in {"none", "backlog"}
                                 => conn[d] \in {"none", "backlog"}
    BY <1>5 DEF Accept, TypeOK
  <2>4. \A i \in DOMAIN jobs' : answers[jobs'[i]] = <<>>
    <3>1. answers[c] = <<>> /\ jobs' = Append(jobs, c)
      BY <1>5 DEF Accept, First, CountInv, NoneYet
    <3> QED BY <3>1, <1>1, Appended
  <2> QED BY <1>2, <2>1, <2>2, <2>3, <2>4, SameCounts
<1>6. ASSUME NEW c \in Connections, AcceptFails(c) PROVE CountInv'
  <2>1. UNCHANGED <<answers, sock, count, kind, jobs>>
    BY <1>6 DEF AcceptFails
  <2>2. \A w \in Workers : place'[w] \in {"alive", "read", "handle"} => place'[w] = place[w]
    BY <1>6 DEF AcceptFails, TypeOK
  <2>3. \A d \in Connections : conn'[d] \in {"none", "backlog"}
                                 => conn[d] \in {"none", "backlog"}
    BY <1>6 DEF AcceptFails
  <2> QED BY <1>1, <1>2, <2>1, <2>2, <2>3, SameCounts
<1>7. ASSUME NEW w \in Workers, TakeJob(w) PROVE CountInv'
  <2>1. /\ jobs # <<>> /\ jobs' = Tail(jobs) /\ sock' = [sock EXCEPT ![w] = jobs[1]]
        /\ count' = [count EXCEPT ![w] = MaxCount]
        /\ place' = [place EXCEPT ![w] = "alive"] /\ UNCHANGED <<conn, kind, answers>>
    BY <1>7, HeadTail DEF TakeJob, PopFront
  <2>2. /\ answers[jobs[1]] = <<>> /\ Len(answers[jobs[1]]) = 0
    BY <1>1, <2>1, HeadTail
  <2>3. CountsDown'
    <3> SUFFICES ASSUME NEW v \in Workers, place'[v] \in {"alive", "read", "handle"}
                 PROVE  /\ Len(answers'[sock'[v]]) + count'[v] = MaxCount
                        /\ place'[v] # "alive" => count'[v] > 0
                        /\ place'[v] = "handle" => kind'[v] \in Kinds \ {"cut"}
                        /\ count'[v] > 0 => \A i \in DOMAIN answers'[sock'[v]] :
                                              GoesOn(answers'[sock'[v]][i])
      BY DEF CountsDown, GoesOn
    <3>1. CASE v = w
      <4>1. place'[v] = "alive" /\ count'[v] = MaxCount /\ answers'[sock'[v]] = <<>>
        BY <3>1, <2>1, <2>2 DEF TypeOK
      <4> QED BY <4>1, JobTypes
    <3>2. CASE v # w
      <4>1. place'[v] = place[v] /\ count'[v] = count[v] /\ sock'[v] = sock[v]
        BY <3>2, <2>1 DEF TypeOK
      <4> QED BY <4>1, <2>1 DEF CountInv, CountsDown
    <3> QED BY <3>1, <3>2
  <2>4. NoneYet'
    <3>1. \A i \in DOMAIN jobs' : answers[jobs'[i]] = <<>>
      BY <1>1, <2>1, HeadTail
    <3> QED BY <2>1, <3>1 DEF CountInv, NoneYet
  <2> QED BY <2>1, <2>3, <2>4 DEF CountInv, AnnouncedClose
<1>8. ASSUME NEW w \in Workers,
             \/ Break(w) \/ Wait(w) \/ SpuriousWakeup(w) \/ KeepAlive(w) \/ GiveUp(w)
             \/ ReadRequest(w) \/ WriteFails(w)
      PROVE  CountInv'
  <2>1. UNCHANGED <<answers, sock, count, jobs, conn>>
    BY <1>8 DEF Break, Wait, SpuriousWakeup, KeepAlive, GiveUp, ReadRequest, WriteFails
  <2>2. \/ /\ \E p \in {"lock", "wait", "exited", "close"} : place' = [place EXCEPT ![w] = p]
           /\ \A v \in Workers : v # w => kind'[v] = kind[v]
        \/ /\ place' = [place EXCEPT ![w] = "read"] /\ place[w] = "alive" /\ count[w] > 0
           /\ kind' = kind
        \/ /\ place' = [place EXCEPT ![w] = "handle"] /\ place[w] = "read"
           /\ kind'[w] \in Kinds \ {"cut"}
           /\ \A v \in Workers : v # w => kind'[v] = kind[v]
    <3>1. CASE ReadRequest(w) /\ place' = [place EXCEPT ![w] = "handle"]
      <4>1. sock[w] \in Connections
        BY <3>1, ServedOne DEF ReadRequest, PlaceInv
      <4>2. /\ inbound[sock[w]] # <<>> /\ Head(inbound[sock[w]]) # "cut"
            /\ kind' = [kind EXCEPT ![w] = Head(inbound[sock[w]])]
            /\ place[w] = "read"
        BY <3>1 DEF ReadRequest, TypeOK
      <4>3. Head(inbound[sock[w]]) \in Kinds
        BY <4>1, <4>2, HeadTailProperties DEF TypeOK
      <4> QED BY <3>1, <4>2, <4>3 DEF TypeOK
    <3>2. CASE ReadRequest(w) /\ place' # [place EXCEPT ![w] = "handle"]
      BY <3>2 DEF ReadRequest
    <3>3. CASE ~ReadRequest(w)
      BY <1>8, <3>3 DEF Break, Wait, SpuriousWakeup, KeepAlive, GiveUp, WriteFails,
                        TurnsLeft, TypeOK
    <3> QED BY <3>1, <3>2, <3>3
  <2>3. \A v \in Workers : place'[v] \in {"alive", "read", "handle"} =>
           /\ place[v] \in {"alive", "read", "handle"}
           /\ place'[v] # "alive" => count[v] > 0
           /\ place'[v] = "handle" => kind'[v] \in Kinds \ {"cut"}
    BY <1>2, <2>2 DEF TypeOK
  <2> QED BY <1>1, <2>1, <2>3, SameCounts
<1>9. ASSUME NEW w \in Workers, CloseSocket(w) PROVE CountInv'
  <2>1. PICK s : s = sock[w]
    OBVIOUS
  <2>2. /\ s \in Connections /\ place[w] = "close"
        /\ answers' = [answers EXCEPT ![s] = <<>>] /\ conn' = [conn EXCEPT ![s] = "closed"]
        /\ sock' = [sock EXCEPT ![w] = NoConnection] /\ count' = [count EXCEPT ![w] = 0]
        /\ place' = [place EXCEPT ![w] = "lock"] /\ UNCHANGED <<jobs, kind>>
    BY <1>9, <2>1, ServedOne DEF CloseSocket, PlaceInv
  <2>3. \A c \in Connections : answers'[c] = IF c = s THEN <<>> ELSE answers[c]
    BY <2>2 DEF TypeOK
  <2>4. ASSUME NEW v \in Workers, place'[v] \in {"alive", "read", "handle"}
        PROVE  /\ place'[v] = place[v] /\ sock'[v] = sock[v] /\ count'[v] = count[v]
               /\ sock[v] \in Connections /\ sock[v] # s
    <3>1. v # w
      BY <2>2, <2>4 DEF TypeOK
    <3>2. place'[v] = place[v] /\ sock'[v] = sock[v] /\ count'[v] = count[v]
      BY <2>2, <3>1 DEF TypeOK
    <3> QED BY <2>1, <2>2, <2>4, <3>1, <3>2, ServedOne DEF PlaceInv, OneServer
  <2>5. CountsDown'
    <3> SUFFICES ASSUME NEW v \in Workers, place'[v] \in {"alive", "read", "handle"}
                 PROVE  /\ Len(answers'[sock'[v]]) + count'[v] = MaxCount
                        /\ place'[v] # "alive" => count'[v] > 0
                        /\ place'[v] = "handle" => kind'[v] \in Kinds \ {"cut"}
                        /\ count'[v] > 0 => \A i \in DOMAIN answers'[sock'[v]] :
                                              GoesOn(answers'[sock'[v]][i])
      BY DEF CountsDown, GoesOn
    <3>1. answers'[sock'[v]] = answers[sock[v]]
      BY <2>3, <2>4
    <3> QED BY <2>2, <2>4, <3>1 DEF CountInv, CountsDown
  <2>6. NoneYet'
    <3>1. \A d \in Connections : conn'[d] \in {"none", "backlog"}
                                   => conn[d] \in {"none", "backlog"}
      BY <2>2 DEF TypeOK
    <3> QED BY <1>1, <2>2, <2>3, <3>1, JobTypes DEF CountInv, NoneYet
  <2>7. AnnouncedClose'
    BY <2>3, CountAssumption DEF CountInv, AnnouncedClose
  <2> QED BY <2>5, <2>6, <2>7 DEF CountInv
<1> QED
  BY <1>3, <1>4, <1>5, <1>6, <1>7, <1>8, <1>9, HandleCounts
  DEF Next, Listener, Worker

-----------------------------------------------------------------------------
(* Jobs and awake workers.                                                 *)

Awake == {w \in Workers : place[w] = "lock"}

LEMMA AwakeCount ==
  /\ IsFiniteSet(Awake) /\ Cardinality(Awake) \in Nat
  /\ \A w \in Workers \ Awake : /\ IsFiniteSet(Awake \cup {w})
                                /\ Cardinality(Awake \cup {w}) = Cardinality(Awake) + 1
  /\ \A w \in Awake : Cardinality(Awake \ {w}) = Cardinality(Awake) - 1
<1>1. IsFiniteSet(Awake) /\ Cardinality(Awake) \in Nat
  BY WorkersAssumption, FS_Subset, FS_CardinalityType DEF Awake
<1> QED BY <1>1, FS_AddElement, FS_RemoveElement

LEMMA NextWaits ==
  ASSUME TypeOK, NoJobWaits, [Next]_vars
  PROVE  NoJobWaits'
<1>0. NoJobWaits <=> (Waiting # {} => Len(jobs) <= Cardinality(Awake))
  BY DEF NoJobWaits, Awake
<1>0p. NoJobWaits' <=> (Waiting' # {} => Len(jobs') <= Cardinality(Awake'))
  BY DEF NoJobWaits, Awake
<1>t. Len(jobs) \in Nat
  BY JobTypes
<1> HIDE DEF NoJobWaits
<1>1. ASSUME UNCHANGED <<jobs, place>> PROVE NoJobWaits'
  BY <1>0, <1>0p, <1>1 DEF Waiting, Awake
<1>2. ASSUME NEW c \in Connections, Accept(c) PROVE NoJobWaits'
  <2>1. Len(jobs') = Len(jobs) + 1
    BY <1>2, Appended DEF Accept
  <2>2. CASE Waiting = {}
    BY <1>2, <2>2, <1>0p DEF Accept, NotifyOne, Waiting
  <2>3. CASE Waiting # {}
    <3>1. PICK w \in Waiting : place' = [place EXCEPT ![w] = "lock"]
      BY <1>2, <2>3 DEF Accept, NotifyOne
    <3>2. w \in Workers \ Awake /\ Awake' = Awake \cup {w}
      BY <3>1 DEF Waiting, Awake, TypeOK
    <3>3. Cardinality(Awake') = Cardinality(Awake) + 1
      BY <3>2, AwakeCount
    <3> QED BY <1>0, <1>0p, <1>t, <2>1, <2>3, <3>3, AwakeCount
  <2> QED BY <2>2, <2>3
<1>3. ASSUME NEW c \in Connections, AcceptFails(c) PROVE NoJobWaits'
  BY <1>3, <1>0p DEF AcceptFails, Waiting
<1>4. ASSUME NEW w \in Workers, TakeJob(w) PROVE NoJobWaits'
  <2>1. Len(jobs') = Len(jobs) - 1
    BY <1>4, HeadTail DEF TakeJob, PopFront
  <2>2. w \in Awake /\ Awake' = Awake \ {w} /\ Waiting' = Waiting
    BY <1>4 DEF TakeJob, Waiting, Awake, TypeOK
  <2>3. Cardinality(Awake') = Cardinality(Awake) - 1
    BY <2>2, AwakeCount
  <2> QED BY <1>0, <1>0p, <1>t, <2>1, <2>2, <2>3, AwakeCount
<1>5. ASSUME NEW w \in Workers, Break(w) \/ Wait(w) PROVE NoJobWaits'
  <2>1. Len(jobs') = 0
    BY <1>5 DEF Break, Wait, MayBreak
  <2>2. Cardinality(Awake') \in Nat
    BY WorkersAssumption, FS_Subset, FS_CardinalityType DEF Awake
  <2> QED BY <1>0p, <2>1, <2>2
<1>6. ASSUME NEW w \in Workers, SpuriousWakeup(w) \/ CloseSocket(w) PROVE NoJobWaits'
  <2>1. /\ w \in Workers \ Awake /\ Awake' = Awake \cup {w}
        /\ Waiting' \subseteq Waiting /\ jobs' = jobs
    BY <1>6 DEF SpuriousWakeup, CloseSocket, Waiting, Awake, TypeOK
  <2>2. Cardinality(Awake') = Cardinality(Awake) + 1
    BY <2>1, AwakeCount
  <2> QED BY <1>0, <1>0p, <1>t, <2>1, <2>2, AwakeCount
<1>7. ASSUME NEW w \in Workers,
             KeepAlive(w) \/ GiveUp(w) \/ ReadRequest(w) \/ HandleRequest(w) \/ WriteFails(w)
      PROVE  NoJobWaits'
  <2>1. \E p \in {"read", "close", "handle", "alive"} : place' = [place EXCEPT ![w] = p]
    BY <1>7 DEF KeepAlive, GiveUp, ReadRequest, HandleRequest, WriteFails
  <2>2. place[w] \notin {"lock", "wait"} /\ jobs' = jobs
    BY <1>7 DEF KeepAlive, GiveUp, ReadRequest, HandleRequest, WriteFails
  <2>3. Awake' = Awake /\ Waiting' = Waiting
    BY <2>1, <2>2 DEF Awake, Waiting, TypeOK
  <2> QED BY <1>0, <1>0p, <2>2, <2>3
<1>8. ASSUME NEW c \in Connections, Connect(c) \/ SendRequest(c) \/ Leave(c) PROVE NoJobWaits'
  BY <1>8, <1>1 DEF Connect, SendRequest, Leave
<1>9. CASE ListenEnds \/ UNCHANGED vars
  BY <1>9, <1>1 DEF ListenEnds, vars
<1> QED
  BY <1>2, <1>3, <1>4, <1>5, <1>6, <1>7, <1>8, <1>9
  DEF Next, Listener, Worker

-----------------------------------------------------------------------------
LEMMA InitIInv == Init => IInv
<1> SUFFICES ASSUME Init PROVE IInv OBVIOUS
<1>1. TypeOK
  <2>1. jobs \in Seq(Connections)
    BY EmptySeq DEF Init
  <2>2. inbound \in [Connections -> Seq(Kinds)] /\ answers \in [Connections -> Seq(Answers)]
    BY EmptySeq DEF Init
  <2>3. count \in [Workers -> 0 .. MaxCount] /\ asked \in 0 .. MaxRequests
    BY CountAssumption DEF Init
  <2> QED BY <2>1, <2>2, <2>3 DEF Init, TypeOK
<1>2. PlaceInv
  BY ConnectionsAssumption
     DEF Init, PlaceInv, OneServer, Serving, LeavesNothing, AllLeft
<1>3. CountInv
  BY CountAssumption DEF Init, CountInv, CountsDown, NoneYet, AnnouncedClose
<1>4. NoJobWaits
  BY DEF Init, NoJobWaits, Waiting
<1> QED BY <1>1, <1>2, <1>3, <1>4 DEF IInv

LEMMA NextIInv == IInv /\ [Next]_vars => IInv'
BY NextType, NextPlaces, NextCounts, NextWaits DEF IInv, PlaceInv, CountInv

THEOREM Invariant == Spec => []IInv
BY InitIInv, NextIInv, PTL DEF Spec

(* However workers, clients and a failing accept interleave, an accepted   *)
(* connection is among the jobs once or with one worker, and listen()      *)
(* returns with none left.                                                 *)
THEOREM PoolInvHolds == Spec => []PoolInv
<1>1. IInv => PoolInv
  <2> SUFFICES ASSUME IInv PROVE PoolInv OBVIOUS
  <2>1. DrainedAtEnd
    <3> SUFFICES ASSUME listener = "ended", NEW c \in Connections PROVE conn[c] # "accepted"
      BY DEF DrainedAtEnd
    <3>1. PICK w \in Workers : TRUE
      BY WorkersAssumption
    <3>2. jobs = <<>> /\ \A v \in Workers : sock[v] = NoConnection
      BY <3>1 DEF IInv, PlaceInv, AllLeft, LeavesNothing, Serving
    <3> QED BY <3>2, ConnectionsAssumption DEF IInv, PlaceInv, OneServer
  <2> QED BY <2>1 DEF IInv, PlaceInv, PoolInv
<1> QED BY <1>1, Invariant, PTL

(* One notification per job is enough for any number of workers: none      *)
(* sleeps while more jobs wait than workers are awake to take one.         *)
THEOREM NoJobWaitsHolds == Spec => []NoJobWaits
<1>1. IInv => NoJobWaits
  BY DEF IInv
<1> QED BY <1>1, Invariant, PTL

(* For any keep_alive_max_count, any number of connections and requests of *)
(* every kind: the last answer a connection may get announces that it is   *)
(* the last, an earlier one does so only if asked to, and the server goes  *)
(* on after an announced end only where headers broke off.                 *)
THEOREM AnnouncedCloseHolds == Spec => []AnnouncedClose
<1>1. IInv => AnnouncedClose
  BY DEF IInv, CountInv
<1> QED BY <1>1, Invariant, PTL

-----------------------------------------------------------------------------
(* samples/.  A file that no two uploads wrote at one time has what the    *)
(* one that opened it last has written.                                    *)
Alone(f) ==
  f \in exists /\ f \notin mixed =>
    /\ last[f] \in Uploads /\ name[last[f]] = f
    /\ \A u \in Writers(f) : u = last[f]
    /\ content[f] = Written(last[f])

UploadsInv ==
  /\ \A f \in Names : Alone(f)
  /\ \A u \in Uploads : upload[u] = "idle" => position[u] = 0
  /\ \A u \in Uploads : upload[u] = "writing" => name[u] \in exists
  /\ \A u \in Uploads : upload[u] = "saved" => position[u] = Size(u)
  /\ \A f \in Names : running[f] <= runs
  /\ DOMAIN position = Uploads

(* A walk has listed, in order, programs only, and every one up to where   *)
(* it is that was there when it began.                                     *)
WalkInv ==
  /\ exists \cap folders = {}
  /\ before \subseteq exists \cap Programs
  /\ walk = 0 => listed = <<>>
  /\ \A i \in DOMAIN listed : listed[i] \in exists \cap Programs /\ listed[i] <= walk
  /\ \A i, j \in DOMAIN listed : i < j => listed[i] < listed[j]
  /\ \A f \in before : f <= walk => \E i \in DOMAIN listed : listed[i] = f

FilesIInv == SamplesTypeOK /\ UploadsInv /\ WalkInv

LEMMA SizeIs ==
  ASSUME NEW u
  PROVE  Size(u) \in {1, 2}
BY DEF Size

LEMMA LeastIs ==
  ASSUME NEW s \in SUBSET Names, s # {}
  PROVE  Least(s) \in s /\ \A g \in s : Least(s) <= g
<1> DEFINE R == {ss \in Nat \X Nat : ss[1] < ss[2]}
<1>1. IsWellFoundedOn(R, Nat)
  BY NatLessThanWellFounded DEF OpToRel
<1> HIDE DEF R
<1>2. s \in SUBSET Nat
  BY BoundsAssumption DEF Names
<1>3. PICK x \in s : \A y \in s : ~ (<<y, x>> \in R)
  BY <1>1, <1>2, WFMin
<1>4. \A y \in s : x <= y
  <2>1. \A y \in s : ~ (y < x)
    BY <1>2, <1>3 DEF R
  <2>2. x \in Nat /\ \A y \in s : y \in Nat
    BY <1>2
  <2> QED BY <2>1, <2>2
<1>5. \E f \in s : \A g \in s : f <= g
  BY <1>4
<1> QED BY <1>5 DEF Least

(* What a block put into a content makes of it.                            *)
LEMMA PutIs ==
  ASSUME NEW S, NEW c \in Seq(S), Len(c) <= 2, NEW n \in 1 .. 2, NEW u \in S, Nobody \in S
  PROVE  Put(c, n, u) \in Seq(S) /\ Len(Put(c, n, u)) <= 2
<1>1. PICK l, m : l = Len(c) /\ m = IF l < n THEN n ELSE l
  OBVIOUS
<1>2. l \in 0 .. 2 /\ m \in Nat /\ m <= 2
  <2>1. l \in Nat
    BY <1>1, LenProperties
  <2> QED BY <1>1, <2>1
<1>3. \A k \in 1 .. l : c[k] \in S
  BY <1>1, ElementOfSeq
<1>4. PICK r : r = [k \in 1 .. m |-> IF k = n THEN u ELSE IF k <= l THEN c[k] ELSE Nobody]
  OBVIOUS
<1>5. Put(c, n, u) = r
  BY <1>1, <1>4 DEF Put
<1>6. r \in [1 .. m -> S]
  BY <1>2, <1>3, <1>4
<1>7. r \in Seq(S) /\ Len(r) = m
  BY <1>2, <1>6
<1> QED BY <1>2, <1>5, <1>7

(* The next block of an upload that is alone.                              *)
LEMMA PutNext ==
  ASSUME NEW u, NEW n \in 0 .. 1
  PROVE  Put([k \in 1 .. n |-> u], n + 1, u) = [k \in 1 .. n + 1 |-> u]
<1>1. PICK c : c = [k \in 1 .. n |-> u]
  OBVIOUS
<1>2. Len(c) = n
  BY <1>1
<1>3. Put(c, n + 1, u) = [k \in 1 .. n + 1 |->
                            IF k = n + 1 THEN u ELSE IF k <= n THEN c[k] ELSE Nobody]
  BY <1>2 DEF Put
<1>4. \A k \in 1 .. n + 1 :
        (IF k = n + 1 THEN u ELSE IF k <= n THEN c[k] ELSE Nobody) = u
  BY <1>1
<1> QED BY <1>1, <1>3, <1>4

LEMMA FilesTypes ==
  ASSUME FilesIInv, [SamplesNext]_samplesVars
  PROVE  SamplesTypeOK'
<1> USE DEF fileVars, uploadVars, walkVars, runVars, histVars
<1>0. SamplesTypeOK /\ UploadsInv /\ WalkInv
  BY DEF FilesIInv
<1>1. ASSUME NEW u \in Uploads, Open(u) PROVE SamplesTypeOK'
  <2>1. \A f \in Names : content'[f] = IF f = name[u] THEN <<>> ELSE content[f]
    BY <1>0, <1>1 DEF Open, Truncate, SamplesTypeOK
  <2>2. content' \in [Names -> Seq(Uploads \cup {Nobody})]
    BY <1>0, <1>1, EmptySeq DEF Open, Truncate, SamplesTypeOK
  <2>3. \A f \in Names : Len(content'[f]) <= 2
    BY <1>0, <2>1 DEF SamplesTypeOK
  <2>4. exists' \subseteq Names /\ mixed' \subseteq Names
        /\ upload' \in [Uploads -> {"idle", "writing", "bad", "saved", "short", "refused"}]
        /\ last' \in [Names -> Uploads \cup {Nobody}]
    BY <1>0, <1>1 DEF Open, SamplesTypeOK
  <2> QED BY <1>0, <1>1, <2>2, <2>3, <2>4 DEF Open, SamplesTypeOK, Size
<1>2. ASSUME NEW u \in Uploads, OpenFails(u) \/ CannotWrite(u) \/ Close(u) PROVE SamplesTypeOK'
  BY <1>0, <1>2 DEF OpenFails, CannotWrite, Close, SamplesTypeOK, Size
<1>3. ASSUME NEW u \in Uploads, Write(u) PROVE SamplesTypeOK'
  <2>1. PICK f, c, n : f = name[u] /\ c = content[f] /\ n = position[u] + 1
    OBVIOUS
  <2>2. f \in Names /\ c \in Seq(Uploads \cup {Nobody}) /\ Len(c) <= 2
    BY <1>0, <2>1 DEF SamplesTypeOK
  <2>3. position[u] \in 0 .. Size(u) /\ position[u] < Size(u)
    BY <1>0, <1>3 DEF SamplesTypeOK, Write, BlocksLeft
  <2>4. n \in 1 .. 2 /\ n <= Size(u)
    BY <2>1, <2>3, SizeIs
  <2>5. Put(c, n, u) \in Seq(Uploads \cup {Nobody}) /\ Len(Put(c, n, u)) <= 2
    BY <2>2, <2>4, PutIs
  <2>6. content' = [content EXCEPT ![f] = Put(c, n, u)] /\ position' = [position EXCEPT ![u] = n]
    BY <1>3, <2>1 DEF Write
  <2>7. content' \in [Names -> Seq(Uploads \cup {Nobody})]
        /\ \A g \in Names : Len(content'[g]) <= 2
    BY <1>0, <2>2, <2>5, <2>6 DEF SamplesTypeOK
  <2>8. \A v \in Uploads : position'[v] \in 0 .. Size(v)
    <3> SUFFICES ASSUME NEW v \in Uploads PROVE position'[v] \in 0 .. Size(v)
      OBVIOUS
    <3>1. CASE v # u
      BY <1>0, <2>6, <3>1 DEF SamplesTypeOK
    <3>2. CASE v = u
      <4>1. u \in DOMAIN position
        BY <1>0 DEF UploadsInv
      <4> QED BY <2>4, <2>6, <3>2, <4>1, SizeIs
    <3> QED BY <3>1, <3>2
  <2> QED BY <1>0, <1>3, <2>7, <2>8 DEF Write, SamplesTypeOK, Size
<1>4. CASE FindFirstFile
  <2>1. PICK f : f = Least(Matching)
    OBVIOUS
  <2>2. f \in Names
    BY <1>4, <2>1, LeastIs, NamesAssumption DEF FindFirstFile, Matching
  <2>3. walk' \in 0 .. MaxNames
    BY <1>4, <2>1, <2>2, BoundsAssumption DEF FindFirstFile, Names
  <2>4. listed' \in Seq(Names)
    BY <1>0, <1>4, <2>1, <2>2, AppendProperties DEF FindFirstFile, Lists, SamplesTypeOK
  <2>5. walks' \in 0 .. MaxWalks
    BY <1>0, <1>4, BoundsAssumption DEF SamplesTypeOK, FindFirstFile
  <2> QED BY <1>0, <1>4, <2>3, <2>4, <2>5 DEF FindFirstFile, SamplesTypeOK, Size
<1>5. CASE FindNextFile
  <2>1. PICK f : f = Least(After(walk))
    OBVIOUS
  <2>2. f \in Names
    BY <1>5, <2>1, LeastIs, NamesAssumption DEF FindNextFile, After, Matching
  <2>3. walk' \in 0 .. MaxNames
    BY <1>5, <2>1, <2>2, BoundsAssumption DEF FindNextFile, Names
  <2>4. listed' \in Seq(Names)
    BY <1>0, <1>5, <2>1, <2>2, AppendProperties DEF FindNextFile, Lists, SamplesTypeOK
  <2> QED BY <1>0, <1>5, <2>3, <2>4 DEF FindNextFile, SamplesTypeOK, Size
<1>10. CASE FindsNothing
  <2>1. walks' \in 0 .. MaxWalks
    BY <1>0, <1>10, BoundsAssumption DEF SamplesTypeOK, FindsNothing
  <2> QED BY <1>0, <1>10, <2>1 DEF FindsNothing, SamplesTypeOK, Size
<1>6. CASE AnswerList
  BY <1>0, <1>6, EmptySeq, BoundsAssumption DEF AnswerList, SamplesTypeOK, Size
<1>7. ASSUME NEW f \in Names, Run(f) PROVE SamplesTypeOK'
  <2>1. running[f] \in 0 .. MaxRuns /\ runs \in 0 .. MaxRuns /\ runs < MaxRuns
        /\ running[f] <= runs
    BY <1>0, <1>7 DEF SamplesTypeOK, UploadsInv, Run
  <2>2. runs' \in 0 .. MaxRuns /\ running[f] + 1 \in 0 .. MaxRuns
    BY <1>7, <2>1, BoundsAssumption DEF Run
  <2>3. running' \in [Names -> 0 .. MaxRuns]
    BY <1>0, <1>7, <2>2 DEF Run, SamplesTypeOK
  <2> QED BY <1>0, <1>7, <2>2, <2>3 DEF Run, SamplesTypeOK, Size
<1>8. ASSUME NEW f \in Names, Exit(f) PROVE SamplesTypeOK'
  <2>1. running[f] \in 0 .. MaxRuns /\ running[f] > 0
    BY <1>0, <1>8 DEF SamplesTypeOK, Exit
  <2>2. running[f] - 1 \in 0 .. MaxRuns
    BY <2>1, BoundsAssumption
  <2>3. running' \in [Names -> 0 .. MaxRuns]
    BY <1>0, <1>8, <2>2 DEF Exit, SamplesTypeOK
  <2> QED BY <1>0, <1>8, <2>3 DEF Exit, SamplesTypeOK, Size
<1>9. CASE UNCHANGED samplesVars
  BY <1>0, <1>9 DEF samplesVars, SamplesTypeOK, Size
<1> QED
  BY <1>1, <1>2, <1>3, <1>4, <1>5, <1>6, <1>7, <1>8, <1>9, <1>10
  DEF SamplesNext

(* A step that leaves files, uploads and the launches alone.               *)
LEMMA UploadsStay ==
  ASSUME UploadsInv, UNCHANGED <<exists, content, upload, name, position, last, mixed>>,
         \A f \in Names : running'[f] <= runs'
  PROVE  UploadsInv'
BY DEF UploadsInv, Alone, Writers, Written, Size

LEMMA KeepsUploads ==
  ASSUME FilesIInv, [SamplesNext]_samplesVars
  PROVE  UploadsInv'
<1> USE DEF fileVars, uploadVars, walkVars, runVars, histVars
<1>0. SamplesTypeOK /\ UploadsInv /\ SamplesTypeOK'
  BY FilesTypes DEF FilesIInv
<1>1. ASSUME NEW u \in Uploads, Open(u) PROVE UploadsInv'
  <2>1. PICK f : f = name[u]
    OBVIOUS
  <2>2. /\ f \in Names /\ upload[u] = "idle" /\ position[u] = 0
        /\ exists' = exists \cup {f}
        /\ content' = [content EXCEPT ![f] = <<>>]
        /\ upload' = [upload EXCEPT ![u] = "writing"]
        /\ last'  = [last EXCEPT ![f] = u]
        /\ mixed' = IF Writers(f) = {} THEN mixed \ {f} ELSE mixed \cup {f}
        /\ UNCHANGED <<name, position, running, runs>>
    BY <1>0, <1>1, <2>1 DEF Open, Truncate, SamplesTypeOK, UploadsInv
  <2>3. \A v \in Uploads : upload'[v] = IF v = u THEN "writing" ELSE upload[v]
    BY <1>0, <2>2 DEF SamplesTypeOK
  <2>4. ASSUME NEW g \in Names, g # f PROVE Alone(g)'
    <3>1. Writers(g)' = Writers(g)
      BY <2>1, <2>2, <2>3, <2>4 DEF Writers
    <3>2. content'[g] = content[g] /\ last'[g] = last[g]
      BY <1>0, <2>2, <2>4 DEF SamplesTypeOK
    <3>3. (g \in exists' <=> g \in exists) /\ (g \in mixed' <=> g \in mixed)
      BY <2>2, <2>4
    <3>4. Alone(g)
      BY <1>0 DEF UploadsInv
    <3> QED BY <2>2, <3>1, <3>2, <3>3, <3>4 DEF Alone, Written
  <2>5. Alone(f)'
    <3> SUFFICES ASSUME f \notin mixed'
                 PROVE  /\ last'[f] \in Uploads /\ name'[last'[f]] = f
                        /\ \A v \in Writers(f)' : v = last'[f]
                        /\ content'[f] = [n \in 1 .. position'[last'[f]] |-> last'[f]]
      BY DEF Alone, Written
    <3>1. Writers(f) = {}
      BY <2>2
    <3>2. last'[f] = u /\ content'[f] = <<>>
      BY <1>0, <2>2 DEF SamplesTypeOK
    <3>3. Writers(f)' = {u}
      BY <2>1, <2>2, <2>3, <3>1 DEF Writers
    <3>4. [n \in 1 .. position'[u] |-> u] = <<>>
      BY <2>2
    <3> QED BY <2>1, <2>2, <3>2, <3>3, <3>4
  <2>6. \A v \in Uploads : (upload'[v] = "idle" => position'[v] = 0)
                           /\ (upload'[v] = "writing" => name'[v] \in exists')
                           /\ (upload'[v] = "saved" => position'[v] = Size(v))
    BY <1>0, <2>1, <2>2, <2>3 DEF UploadsInv
  <2> QED BY <1>0, <2>2, <2>4, <2>5, <2>6 DEF UploadsInv, Size
<1>2. ASSUME NEW u \in Uploads, OpenFails(u) PROVE UploadsInv'
  <2>1. /\ upload[u] = "idle" /\ upload' = [upload EXCEPT ![u] = "refused"]
        /\ UNCHANGED <<exists, content, name, position, running, runs, last, mixed>>
    BY <1>2 DEF OpenFails
  <2>2. \A v \in Uploads : upload'[v] = IF v = u THEN "refused" ELSE upload[v]
    BY <1>0, <2>1 DEF SamplesTypeOK
  <2>3. \A f : Writers(f)' = Writers(f)
    BY <2>1, <2>2 DEF Writers
  <2>4. \A f \in Names : Alone(f)'
    BY <1>0, <2>1, <2>3 DEF UploadsInv, Alone, Written
  <2> QED BY <1>0, <2>1, <2>2, <2>4 DEF UploadsInv, Size
<1>3. ASSUME NEW u \in Uploads, Write(u) PROVE UploadsInv'
  <2>1. PICK f, c, n : f = name[u] /\ c = content[f] /\ n = position[u]
    OBVIOUS
  <2>2. /\ f \in Names /\ upload[u] = "writing"
        /\ content' = [content EXCEPT ![f] = Put(c, n + 1, u)]
        /\ position' = [position EXCEPT ![u] = n + 1]
        /\ UNCHANGED <<exists, upload, name, running, runs, last, mixed>>
    BY <1>0, <1>3, <2>1 DEF Write, SamplesTypeOK
  <2>3. n \in 0 .. 1
    <3>1. position[u] \in 0 .. Size(u) /\ position[u] < Size(u)
      BY <1>0, <1>3 DEF SamplesTypeOK, Write, BlocksLeft
    <3> QED BY <2>1, <3>1, SizeIs
  <2>4. /\ DOMAIN position' = Uploads
        /\ \A v \in Uploads : position'[v] = IF v = u THEN n + 1 ELSE position[v]
    BY <1>0, <2>2 DEF UploadsInv
  <2>5. \A g : Writers(g)' = Writers(g)
    BY <2>2 DEF Writers
  <2>6. ASSUME NEW g \in Names, g # f PROVE Alone(g)'
    <3>1. content'[g] = content[g]
      BY <1>0, <2>2, <2>6 DEF SamplesTypeOK
    <3>2. Alone(g)
      BY <1>0 DEF UploadsInv
    <3>3. g \in exists /\ g \notin mixed =>
            last[g] \in Uploads /\ position'[last[g]] = position[last[g]]
      BY <2>1, <2>4, <2>6, <3>2 DEF Alone
    <3> QED BY <2>2, <2>5, <3>1, <3>2, <3>3 DEF Alone, Written
  <2>7. Alone(f)'
    <3> SUFFICES ASSUME f \notin mixed PROVE Alone(f)'
      BY <2>2 DEF Alone
    <3>1. f \in exists /\ Alone(f) /\ u \in Writers(f)
      BY <1>0, <2>1, <2>2 DEF UploadsInv, Writers
    <3>2. last[f] = u /\ c = [k \in 1 .. n |-> u]
      BY <2>1, <3>1 DEF Alone, Written
    <3>3. content'[f] = [k \in 1 .. n + 1 |-> u]
      <4>1. content'[f] = Put(c, n + 1, u)
        BY <1>0, <2>2 DEF SamplesTypeOK
      <4>2. Put([k \in 1 .. n |-> u], n + 1, u) = [k \in 1 .. n + 1 |-> u]
        BY <2>3, PutNext
      <4> QED BY <3>2, <4>1, <4>2
    <3>4. position'[last'[f]] = n + 1
      BY <2>2, <2>4, <3>2
    <3> QED BY <2>2, <2>5, <3>1, <3>2, <3>3, <3>4 DEF Alone, Written
  <2>8. \A v \in Uploads : /\ upload'[v] = "idle" => position'[v] = 0
                           /\ upload'[v] = "saved" => position'[v] = Size(v)
    BY <1>0, <2>2, <2>4 DEF UploadsInv
  <2> QED BY <1>0, <2>2, <2>4, <2>6, <2>7, <2>8 DEF UploadsInv, Size
<1>4. ASSUME NEW u \in Uploads, CannotWrite(u) \/ Close(u) PROVE UploadsInv'
  <2>1. PICK p \in {"bad", "saved", "short"} :
          /\ upload[u] \in {"writing", "bad"} /\ upload' = [upload EXCEPT ![u] = p]
          /\ p = "saved" => ~(position[u] < Size(u))
    BY <1>4 DEF CannotWrite, Close, BlocksLeft
  <2>2. UNCHANGED <<exists, content, name, position, running, runs, last, mixed>>
    BY <1>4 DEF CannotWrite, Close
  <2>3. \A v \in Uploads : upload'[v] = IF v = u THEN p ELSE upload[v]
    BY <1>0, <2>1 DEF SamplesTypeOK
  <2>4. p = "saved" => position[u] = Size(u)
    <3>1. position[u] \in 0 .. Size(u)
      BY <1>0 DEF SamplesTypeOK
    <3> QED BY <2>1, <3>1, SizeIs
  <2>5. \A f : Writers(f)' \subseteq Writers(f)
    BY <2>1, <2>2, <2>3 DEF Writers
  <2>6. \A f \in Names : Alone(f)'
    BY <1>0, <2>2, <2>5 DEF UploadsInv, Alone, Written
  <2> QED BY <1>0, <2>2, <2>3, <2>4, <2>6 DEF UploadsInv, Size
<1>5. CASE FindFirstFile \/ FindsNothing \/ FindNextFile \/ AnswerList
  BY <1>0, <1>5, UploadsStay
  DEF FindFirstFile, FindsNothing, FindNextFile, AnswerList, UploadsInv
<1>6. ASSUME NEW f \in Names, Run(f) PROVE UploadsInv'
  <2>1. running' = [running EXCEPT ![f] = @ + 1] /\ runs' = runs + 1
    BY <1>6 DEF Run
  <2>2. \A g \in Names : running[g] \in Nat /\ running[g] <= runs /\ runs \in Nat
    BY <1>0, BoundsAssumption DEF SamplesTypeOK, UploadsInv
  <2>3. \A g \in Names : running'[g] = IF g = f THEN running[g] + 1 ELSE running[g]
    BY <1>0, <2>1 DEF SamplesTypeOK
  <2>4. \A g \in Names : running'[g] <= runs'
    BY <2>1, <2>2, <2>3
  <2> QED BY <1>0, <1>6, <2>4, UploadsStay DEF Run
<1>7. ASSUME NEW f \in Names, Exit(f) PROVE UploadsInv'
  <2>1. running' = [running EXCEPT ![f] = @ - 1] /\ runs' = runs
    BY <1>7 DEF Exit
  <2>2. \A g \in Names : running[g] \in Nat /\ running[g] <= runs /\ runs \in Nat
    BY <1>0, BoundsAssumption DEF SamplesTypeOK, UploadsInv
  <2>3. \A g \in Names : running'[g] = IF g = f THEN running[g] - 1 ELSE running[g]
    BY <1>0, <2>1 DEF SamplesTypeOK
  <2>4. \A g \in Names : running'[g] <= runs'
    BY <2>1, <2>2, <2>3
  <2> QED BY <1>0, <1>7, <2>4, UploadsStay DEF Exit
<1>8. CASE UNCHANGED samplesVars
  BY <1>0, <1>8, UploadsStay DEF samplesVars, UploadsInv
<1> QED BY <1>1, <1>2, <1>3, <1>4, <1>5, <1>6, <1>7, <1>8 DEF SamplesNext

LEMMA KeepsWalk ==
  ASSUME FilesIInv, [SamplesNext]_samplesVars
  PROVE  WalkInv'
<1> USE DEF fileVars, uploadVars, walkVars, runVars, histVars
<1>0. SamplesTypeOK /\ WalkInv
  BY DEF FilesIInv
<1>1. \A f \in Names : f \in Nat
  BY BoundsAssumption DEF Names
<1>2. ASSUME UNCHANGED <<walkVars, before>>, exists \subseteq exists', exists' \cap folders' = {}
      PROVE  WalkInv'
  BY <1>0, <1>2 DEF WalkInv
<1>3. CASE FindFirstFile
  <2>1. PICK f : f = Least(Matching)
    OBVIOUS
  <2>2. f \in Matching /\ \A g \in Matching : f <= g
    BY <1>3, <2>1, LeastIs, NamesAssumption DEF FindFirstFile, Matching
  <2>3. /\ walk' = f /\ before' = exists \cap Programs /\ exists' = exists
        /\ folders' = folders
        /\ listed' = IF f \in folders THEN <<>> ELSE <<f>>
    BY <1>0, <1>3, <2>1 DEF FindFirstFile, Lists, WalkInv
  <2>4. f \in Names /\ f \in Nat /\ f # 0
    <3>1. f \in Names
      BY <2>2, NamesAssumption DEF Matching
    <3> QED BY <3>1, BoundsAssumption DEF Names
  <2>5. \A g \in before' : g <= f => g = f
    <3>1. \A g \in before' : g \in Matching /\ g \in Nat
      BY <1>0, <1>1, <2>3 DEF SamplesTypeOK, Matching
    <3> QED BY <2>2, <2>4, <3>1
  <2>6. CASE f \in folders
    <3>1. listed' = <<>> /\ f \notin before'
      BY <1>0, <2>3, <2>6 DEF WalkInv
    <3> QED BY <1>0, <2>3, <2>4, <2>5, <3>1 DEF WalkInv
  <2>7. CASE f \notin folders
    <3>1. f \in exists \cap Programs
      BY <2>2, <2>7 DEF Matching
    <3>2. DOMAIN listed' = {1} /\ listed'[1] = f
      BY <2>3, <2>7
    <3> QED BY <1>0, <2>3, <2>4, <2>5, <3>1, <3>2 DEF WalkInv
  <2> QED BY <2>6, <2>7
<1>4. CASE FindNextFile
  <2>1. PICK f, l : f = Least(After(walk)) /\ l = Len(listed)
    OBVIOUS
  <2>2. f \in After(walk) /\ \A g \in After(walk) : f <= g
    BY <1>4, <2>1, LeastIs, NamesAssumption DEF FindNextFile, After, Matching
  <2>3. f \in Matching /\ f > walk /\ f \in Names /\ f \in Nat /\ f # 0
    <3>1. f \in Matching /\ f > walk /\ f \in Names
      BY <2>2, NamesAssumption DEF After, Matching
    <3> QED BY <3>1, BoundsAssumption DEF Names
  <2>4. /\ walk' = f /\ before' = before /\ exists' = exists
        /\ folders' = folders
        /\ listed' = IF f \in folders THEN listed ELSE Append(listed, f)
    BY <1>4, <2>1 DEF FindNextFile, Lists
  <2>5. listed \in Seq(Names) /\ l \in Nat /\ DOMAIN listed = 1 .. l /\ walk \in Nat
    BY <1>0, <2>1, LenProperties, BoundsAssumption DEF SamplesTypeOK
  <2>6. \A i \in 1 .. l : /\ listed[i] \in exists \cap Programs /\ listed[i] \in Nat
                          /\ listed[i] <= walk /\ listed[i] < f
    <3> SUFFICES ASSUME NEW i \in 1 .. l
                 PROVE  /\ listed[i] \in exists \cap Programs /\ listed[i] \in Nat
                        /\ listed[i] <= walk /\ listed[i] < f
      OBVIOUS
    <3>1. listed[i] \in exists \cap Programs /\ listed[i] <= walk
      BY <1>0, <2>5 DEF WalkInv
    <3>2. listed[i] \in Nat
      BY <1>0, <1>1, <3>1 DEF SamplesTypeOK
    <3> QED BY <2>3, <2>5, <3>1, <3>2
  <2>7. ASSUME NEW g \in before, g <= f
        PROVE  g = f \/ \E i \in 1 .. l : listed[i] = g
    <3>1. g \in exists \cap Programs /\ g \in Nat
      BY <1>0, <1>1 DEF WalkInv, SamplesTypeOK
    <3>2. CASE g <= walk
      BY <1>0, <2>5, <3>2 DEF WalkInv
    <3>3. CASE g > walk
      <4>1. g \in After(walk)
        BY <3>1, <3>3 DEF After, Matching
      <4> QED BY <2>2, <2>3, <2>7, <3>1, <4>1
    <3> QED BY <2>5, <3>1, <3>2, <3>3
  <2>8. exists' \cap folders' = {} /\ before' \subseteq exists' \cap Programs /\ walk' # 0
    BY <1>0, <2>3, <2>4 DEF WalkInv
  <2>9. CASE f \in folders
    <3>1. f \notin before
      BY <1>0, <2>9 DEF WalkInv
    <3>2. listed' = listed
      BY <2>4, <2>9
    <3>3. \A i \in DOMAIN listed : listed[i] <= f
      BY <2>3, <2>5, <2>6
    <3> QED BY <1>0, <2>4, <2>5, <2>6, <2>7, <2>8, <3>1, <3>2, <3>3 DEF WalkInv
  <2>10. CASE f \notin folders
    <3>1. /\ DOMAIN listed' = 1 .. l + 1
          /\ \A i \in 1 .. l : listed'[i] = listed[i]
          /\ listed'[l + 1] = f /\ l + 1 \in 1 .. l + 1
          /\ \A i \in 1 .. l + 1 : i \in 1 .. l \/ i = l + 1
      BY <2>1, <2>3, <2>4, <2>5, <2>10, AppendProperties
    <3>2. f \in exists \cap Programs
      BY <2>3, <2>10 DEF Matching
    <3>3. \A i \in 1 .. l + 1 : listed'[i] \in exists \cap Programs /\ listed'[i] <= f
      BY <2>3, <2>6, <3>1, <3>2
    <3>4. ASSUME NEW i \in 1 .. l + 1, NEW j \in 1 .. l + 1, i < j
          PROVE  listed'[i] < listed'[j]
      <4>1. i \in 1 .. l
        BY <2>5, <3>4
      <4>2. CASE j = l + 1
        BY <2>6, <3>1, <4>1, <4>2
      <4>3. CASE j \in 1 .. l
        BY <1>0, <2>5, <3>1, <3>4, <4>1, <4>3 DEF WalkInv
      <4> QED BY <3>1, <4>2, <4>3
    <3>5. \A g \in before : g <= f => \E i \in 1 .. l + 1 : listed'[i] = g
      <4> SUFFICES ASSUME NEW g \in before, g <= f PROVE \E i \in 1 .. l + 1 : listed'[i] = g
        OBVIOUS
      <4>1. CASE g = f
        BY <3>1, <4>1
      <4>2. CASE \E i \in 1 .. l : listed[i] = g
        <5>1. PICK i \in 1 .. l : listed[i] = g
          BY <4>2
        <5>2. i \in 1 .. l + 1
          BY <2>5
        <5> QED BY <3>1, <5>1, <5>2
      <4> QED BY <2>7, <4>1, <4>2
    <3> QED BY <2>4, <2>8, <3>1, <3>3, <3>4, <3>5 DEF WalkInv
  <2> QED BY <2>9, <2>10
<1>5. CASE AnswerList
  BY <1>0, <1>5 DEF AnswerList, WalkInv
<1>6. ASSUME NEW u \in Uploads,
             Open(u) \/ OpenFails(u) \/ Write(u) \/ CannotWrite(u) \/ Close(u)
      PROVE  WalkInv'
  <2>1. exists \subseteq exists' /\ exists' \cap folders' = {}
    BY <1>0, <1>6 DEF Open, OpenFails, Write, CannotWrite, Close, WalkInv
  <2> QED BY <1>2, <1>6, <2>1 DEF Open, OpenFails, Write, CannotWrite, Close
<1>9. CASE FindsNothing
  BY <1>0, <1>9 DEF FindsNothing, WalkInv
<1>7. ASSUME NEW f \in Names, Run(f) \/ Exit(f) PROVE WalkInv'
  BY <1>0, <1>2, <1>7 DEF Run, Exit, WalkInv
<1>8. CASE UNCHANGED samplesVars
  BY <1>0, <1>2, <1>8 DEF samplesVars, WalkInv
<1> QED BY <1>3, <1>4, <1>5, <1>6, <1>7, <1>8, <1>9 DEF SamplesNext

LEMMA FilesInit == SamplesInit => FilesIInv
<1> SUFFICES ASSUME SamplesInit PROVE FilesIInv
  OBVIOUS
<1>1. SamplesTypeOK
  BY EmptySeq, BoundsAssumption DEF SamplesInit, SamplesTypeOK, Size
<1>2. UploadsInv
  BY BoundsAssumption DEF SamplesInit, UploadsInv, Alone
<1>3. WalkInv
  BY DEF SamplesInit, WalkInv
<1> QED BY <1>1, <1>2, <1>3 DEF FilesIInv

LEMMA FilesInvariant == SamplesSpec => []FilesIInv
<1>1. FilesIInv /\ [SamplesNext]_samplesVars => FilesIInv'
  BY FilesTypes, KeepsUploads, KeepsWalk DEF FilesIInv
<1> QED BY <1>1, FilesInit, PTL DEF SamplesSpec

(* A file /api/run can start, unless two ofstreams wrote to it at one      *)
(* time, has blocks of one upload only, the one that opened it last, and   *)
(* all of them if no write failed (yhttp.h:104-111), whatever other        *)
(* uploads, walks and launches do.                                         *)
THEOREM FilesInvHolds == SamplesSpec => []FilesInv
<1>1. FilesIInv => FilesInv
  <2> SUFFICES ASSUME FilesIInv, NEW f \in Names, Startable(f), f \notin mixed
               PROVE  content[f] = IF upload[last[f]] = "saved" THEN Whole(last[f])
                                                               ELSE Written(last[f])
    BY DEF FilesIInv, FilesInv, LastUploadWins
  <2>1. last[f] \in Uploads /\ content[f] = Written(last[f])
    BY DEF FilesIInv, UploadsInv, Startable, Alone
  <2>2. upload[last[f]] = "saved" => position[last[f]] = Size(last[f])
    BY <2>1 DEF FilesIInv, UploadsInv
  <2> QED BY <2>1, <2>2 DEF Whole, Written
<1> QED BY <1>1, FilesInvariant, PTL

(* A walk of samples/ that has come to its end has listed each program     *)
(* that was there when it began, nothing but programs, and none twice,     *)
(* though uploads add files meanwhile (get_files, yprocmon.cc:45-56).      *)
THEOREM ListCompleteHolds == SamplesSpec => []ListComplete
<1>1. FilesIInv => ListComplete
  <2> SUFFICES ASSUME FilesIInv PROVE ListComplete
    OBVIOUS
  <2>0. SamplesTypeOK /\ WalkInv
    BY DEF FilesIInv
  <2>1. \A f \in Names : f \in Nat
    BY BoundsAssumption DEF Names
  <2>2. listed \in Seq(Names) /\ Len(listed) \in Nat /\ DOMAIN listed = 1 .. Len(listed)
    BY <2>0, LenProperties DEF SamplesTypeOK
  <2>3. \A i \in DOMAIN listed : listed[i] \in Nat
    BY <2>1, <2>2, ElementOfSeq
  <2>4. ASSUME After(walk) = {}, NEW f \in before
        PROVE  f \in {listed[i] : i \in DOMAIN listed}
    <3>1. f \in Matching /\ f \in Nat /\ walk \in Nat
      BY <2>0, <2>1, BoundsAssumption DEF SamplesTypeOK, WalkInv, Matching
    <3>2. f <= walk
      BY <2>4, <3>1 DEF After
    <3> QED BY <2>0, <3>2 DEF WalkInv
  <2>5. ASSUME NEW i \in DOMAIN listed, NEW j \in DOMAIN listed, listed[i] = listed[j]
        PROVE  i = j
    <3>1. ~(i < j) /\ ~(j < i)
      BY <2>0, <2>3, <2>5 DEF WalkInv
    <3> QED BY <2>2, <3>1
  <2>6. \A i \in DOMAIN listed : listed[i] \in exists \cap Programs
    BY <2>0 DEF WalkInv
  <2> QED BY <2>4, <2>5, <2>6 DEF ListComplete
<1> QED BY <1>1, FilesInvariant, PTL
=============================================================================
