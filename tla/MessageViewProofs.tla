------------------------- MODULE MessageViewProofs -------------------------
(***************************************************************************)
(* Proofs about the front end: about MessageView, for any number of        *)
(* batches, and about MonitorPage, for any number of programs, processes   *)
(* and tasks.                                                              *)
(***************************************************************************)
EXTENDS MessageView, MonitorPage, SequenceTheorems, FiniteSetTheorems, TLAPS

-----------------------------------------------------------------------------
(* The inductive invariant.  The socket delivers in the order of the       *)
(* sends, so what is on the wire is newer than all the page has; of two    *)
(* batches on the page or being decoded, the newer arrived while the older *)
(* was still being decoded, unless the older was appended first.           *)
InOrder == \A i, j \in DOMAIN inbound : i < j => inbound[i] < inbound[j]

OnWireNewer ==
  \A i \in DOMAIN inbound :
    /\ inbound[i] <= sent
    /\ \A b \in decoding \cup Shown \cup cleared : b < inbound[i]

PageKnown == \A b \in decoding \cup Shown \cup cleared : b <= sent

Overtaken ==
  \A b \in decoding, m \in decoding \cup Shown : b < m => {b, m} \in together

OnePlace ==
  /\ \A i, j \in DOMAIN messages : messages[i] = messages[j] => i = j
  /\ decoding \cap Shown = {} /\ decoding \cap cleared = {} /\ Shown \cap cleared = {}

IInv ==
  /\ TypeOK /\ InOrder /\ OnWireNewer /\ PageKnown /\ Overtaken /\ OnePlace
  /\ OrderedUnlessOverlapped

USE DEF Batches, netVars, histVars

LEMMA Members ==
  ASSUME TypeOK
  PROVE  /\ sent \in Nat /\ MaxBatches \in Nat
         /\ \A i \in DOMAIN inbound : inbound[i] \in 1 .. MaxBatches
         /\ \A i \in DOMAIN messages : messages[i] \in 1 .. MaxBatches
         /\ Shown \subseteq 1 .. MaxBatches
         /\ decoding \subseteq 1 .. MaxBatches /\ cleared \subseteq 1 .. MaxBatches
         /\ Len(inbound) \in Nat /\ DOMAIN inbound = 1 .. Len(inbound)
         /\ Len(messages) \in Nat /\ DOMAIN messages = 1 .. Len(messages)
BY MaxBatchesAssumption DEF TypeOK, Shown

(* The conjuncts of IInv say nothing of sent, inbound but for these.       *)
LEMMA SameShown == messages' = messages => Shown' = Shown
BY DEF Shown

LEMMA SendKeeps == IInv /\ Send => IInv'
<1> SUFFICES ASSUME IInv, Send PROVE IInv' OBVIOUS
<1>m. TypeOK /\ sent \in Nat /\ MaxBatches \in Nat
  BY Members DEF IInv
<1>s. Shown' = Shown
  BY SameShown DEF Send
<1>1. CASE socket
  <2>1. inbound' = Append(inbound, sent + 1) /\ sent' = sent + 1 /\ sent + 1 \in 1 .. MaxBatches
    BY <1>1, <1>m DEF Send, NextBatch
  <2>2. /\ inbound' \in Seq(1 .. MaxBatches)
        /\ Len(inbound') = Len(inbound) + 1
        /\ DOMAIN inbound' = 1 .. Len(inbound) + 1
        /\ \A i \in 1 .. Len(inbound) : inbound'[i] = inbound[i]
        /\ inbound'[Len(inbound) + 1] = sent + 1
    BY <2>1, <1>m, AppendProperties DEF TypeOK
  <2>3. TypeOK'
    BY <1>m, <2>1, <2>2 DEF Send, TypeOK
  <2>4. InOrder'
    <3>1. Len(inbound) \in Nat /\ DOMAIN inbound = 1 .. Len(inbound)
      BY <1>m, Members
    <3>2. \A i \in 1 .. Len(inbound) : inbound'[i] < sent + 1
      <4>1. \A i \in 1 .. Len(inbound) : inbound[i] \in 1 .. MaxBatches /\ inbound[i] <= sent
        BY <1>m, <3>1, Members DEF IInv, OnWireNewer
      <4> SUFFICES ASSUME NEW i \in 1 .. Len(inbound) PROVE inbound'[i] < sent + 1
        OBVIOUS
      <4>2. inbound'[i] = inbound[i]
        BY <2>2
      <4>3. inbound[i] \in 1 .. MaxBatches /\ inbound[i] <= sent
        BY <4>1
      <4> QED BY <1>m, <4>2, <4>3
    <3>3. ASSUME NEW i \in 1 .. Len(inbound) + 1, NEW j \in 1 .. Len(inbound) + 1, i < j
          PROVE  inbound'[i] < inbound'[j]
      <4>1. i \in 1 .. Len(inbound)
        BY <3>1, <3>3
      <4>2. CASE j = Len(inbound) + 1
        BY <2>2, <3>2, <4>1, <4>2
      <4>3. CASE j \in 1 .. Len(inbound)
        <5>1. inbound[i] < inbound[j]
          BY <3>1, <3>3, <4>1, <4>3 DEF IInv, InOrder
        <5> QED BY <2>2, <4>1, <4>3, <5>1
      <4> QED BY <3>1, <4>2, <4>3
    <3> QED BY <2>2, <3>3 DEF InOrder
  <2>5. OnWireNewer' /\ PageKnown'
    <3> DEFINE page == decoding \cup Shown \cup cleared
    <3>1. page' = page
      BY <1>s DEF Send
    <3>2. \A b \in page : b \in Nat /\ b <= sent
      BY <1>m, Members DEF IInv, PageKnown
    <3>3. Len(inbound) \in Nat /\ DOMAIN inbound = 1 .. Len(inbound)
      BY <1>m, Members
    <3>4. ASSUME NEW i \in 1 .. Len(inbound)
          PROVE  inbound[i] <= sent /\ inbound[i] \in Nat /\ \A b \in page : b < inbound[i]
      BY <3>3, <1>m, Members DEF IInv, OnWireNewer
    <3> HIDE DEF page
    <3>5. ASSUME NEW i \in 1 .. Len(inbound) + 1
          PROVE  inbound'[i] <= sent + 1 /\ \A b \in page : b < inbound'[i]
      <4>1. CASE i = Len(inbound) + 1
        BY <1>m, <2>2, <3>2, <4>1
      <4>2. CASE i \in 1 .. Len(inbound)
        <5>1. inbound'[i] = inbound[i]
          BY <2>2, <4>2
        <5>2. /\ inbound[i] <= sent /\ inbound[i] \in Nat
              /\ \A b \in page : b < inbound[i]
          BY <3>4, <4>2
        <5> QED BY <1>m, <5>1, <5>2
      <4> QED BY <3>3, <4>1, <4>2
    <3>6. OnWireNewer'
      BY <2>1, <2>2, <3>1, <3>5 DEF OnWireNewer, page
    <3>7. PageKnown'
      BY <1>m, <2>1, <3>1, <3>2 DEF PageKnown, page
    <3> QED BY <3>6, <3>7
  <2>6. Overtaken' /\ OnePlace' /\ OrderedUnlessOverlapped'
    BY <1>s DEF IInv, Overtaken, OnePlace, OrderedUnlessOverlapped, Send
  <2> QED BY <2>3, <2>4, <2>5, <2>6 DEF IInv
<1>2. CASE ~socket
  <2>1. inbound' = inbound /\ sent' = sent + 1 /\ sent + 1 \in 1 .. MaxBatches
    BY <1>2, <1>m DEF Send
  <2>2. TypeOK'
    BY <1>m, <2>1 DEF Send, TypeOK
  <2>a. InOrder' /\ UNCHANGED <<decoding, cleared>>
    BY <2>1 DEF IInv, InOrder, Send
  <2>b. OnWireNewer'
    BY <1>m, <1>s, <2>1, <2>a, Members DEF IInv, OnWireNewer
  <2>c. PageKnown'
    BY <1>m, <1>s, <2>1, <2>a, Members DEF IInv, PageKnown
  <2>3. InOrder' /\ OnWireNewer' /\ PageKnown'
    BY <2>a, <2>b, <2>c
  <2>4. Overtaken' /\ OnePlace' /\ OrderedUnlessOverlapped'
    BY <1>s DEF IInv, Overtaken, OnePlace, OrderedUnlessOverlapped, Send
  <2> QED BY <2>2, <2>3, <2>4 DEF IInv
<1> QED BY <1>1, <1>2 DEF IInv, TypeOK

LEMMA SocketKeeps == IInv /\ (SocketCloses \/ Reconnect) => IInv'
<1> SUFFICES ASSUME IInv, SocketCloses \/ Reconnect PROVE IInv' OBVIOUS
<1>1. inbound' = inbound \/ inbound' = <<>>
  BY DEF SocketCloses, Reconnect
<1>2. /\ sent' = sent /\ decoding' = decoding /\ messages' = messages /\ alive' = alive
      /\ cleared' = cleared /\ together' = together /\ socket' \in BOOLEAN
  BY DEF SocketCloses, Reconnect
<1>3. Shown' = Shown
  BY <1>2, SameShown
<1>4. TypeOK'
  BY <1>1, <1>2, EmptySeq DEF IInv, TypeOK
<1>5. InOrder' /\ OnWireNewer' /\ PageKnown'
  BY <1>1, <1>2, <1>3 DEF IInv, InOrder, OnWireNewer, PageKnown
<1>6. Overtaken' /\ OnePlace' /\ OrderedUnlessOverlapped'
  BY <1>2, <1>3 DEF IInv, Overtaken, OnePlace, OrderedUnlessOverlapped
<1> QED BY <1>4, <1>5, <1>6 DEF IInv

(* The batch handed over is newer than all others the page has, and older  *)
(* than the rest of the wire.                                              *)
LEMMA OnMessageKeeps == IInv /\ OnMessage => IInv'
<1> SUFFICES ASSUME IInv, OnMessage PROVE IInv' OBVIOUS
<1> DEFINE h == inbound[1]
<1>1. /\ h \in 1 .. MaxBatches /\ h <= sent
      /\ \A b \in decoding \cup Shown \cup cleared : b < h
  BY Members, EmptySeq DEF IInv, TypeOK, OnMessage, OnWireNewer
<1>2. /\ decoding' = decoding \cup {h}
      /\ together' = together \cup {{h, b} : b \in decoding}
      /\ inbound' = Tail(inbound)
      /\ UNCHANGED <<sent, socket, messages, alive, cleared>>
  BY DEF OnMessage, AwaitsText
<1>3. /\ Tail(inbound) \in Seq(1 .. MaxBatches)
      /\ DOMAIN inbound = 1 .. Len(inbound) /\ Len(inbound) \in Nat \ {0}
      /\ DOMAIN Tail(inbound) = 1 .. Len(inbound) - 1
      /\ \A i \in 1 .. Len(inbound) - 1 : Tail(inbound)[i] = inbound[i + 1]
  BY HeadTailProperties, EmptySeq DEF IInv, TypeOK, OnMessage
<1>4. Shown' = Shown
  BY <1>2, SameShown
<1> HIDE DEF h
<1>5. \A b \in decoding : {h, b} \subseteq 1 .. MaxBatches
  BY <1>1 DEF IInv, TypeOK
<1>6. TypeOK'
  <2>1. together' \subseteq SUBSET (1 .. MaxBatches)
    <3>1. together \subseteq SUBSET (1 .. MaxBatches)
      BY DEF IInv, TypeOK
    <3>2. \A s \in together' : s \in together \/ \E b \in decoding : s = {h, b}
      BY <1>2
    <3>3. \A s \in together' : s \in SUBSET (1 .. MaxBatches)
      <4> SUFFICES ASSUME NEW s \in together' PROVE s \in SUBSET (1 .. MaxBatches)
        OBVIOUS
      <4>1. CASE s \in together
        BY <4>1, <3>1
      <4>2. CASE \E b \in decoding : s = {h, b}
        BY <4>2, <1>5, Zenon
      <4> QED BY <4>1, <4>2, <3>2
    <3> QED BY <3>3
  <2>2. decoding' \subseteq 1 .. MaxBatches /\ inbound' \in Seq(1 .. MaxBatches)
    BY <1>1, <1>2, <1>3 DEF IInv, TypeOK
  <2> QED BY <1>2, <2>1, <2>2 DEF IInv, TypeOK
<1>7. InOrder'
  BY <1>2, <1>3 DEF IInv, InOrder
<1>8. \A i \in 1 .. Len(inbound) - 1 : h < inbound[i + 1]
  BY <1>3 DEF h, IInv, InOrder
<1>9. OnWireNewer' /\ PageKnown'
  BY <1>1, <1>2, <1>3, <1>4, <1>8 DEF IInv, OnWireNewer, PageKnown
<1>10. Overtaken'
  <2> SUFFICES ASSUME NEW b \in decoding', NEW m \in decoding' \cup Shown', b < m
               PROVE  {b, m} \in together'
    BY DEF Overtaken
  <2>1. CASE b \in decoding /\ m = h
    BY <2>1, <1>2
  <2>2. CASE b \in decoding /\ m # h
    BY <2>2, <1>2, <1>4 DEF IInv, Overtaken
  <2>3. CASE b = h
    <3>1. m \in Nat /\ h \in Nat /\ m <= h
      BY <1>1, <1>2, <1>4, Members DEF IInv
    <3> QED BY <2>3, <3>1
  <2> QED BY <2>1, <2>2, <2>3, <1>2
<1>11. OnePlace'
  <2>1. h \notin Shown /\ h \notin cleared
    BY <1>1
  <2> QED BY <2>1, <1>2, <1>4 DEF IInv, OnePlace
<1>12. OrderedUnlessOverlapped'
  BY <1>2 DEF IInv, OrderedUnlessOverlapped
<1> QED BY <1>6, <1>7, <1>9, <1>10, <1>11, <1>12 DEF IInv

LEMMA AppendKeeps == ASSUME IInv, NEW b \in Batches, MessagesAppend(b) PROVE IInv'
<1>1. /\ b \in decoding /\ decoding' = decoding \ {b}
      /\ UNCHANGED <<sent, socket, inbound, cleared, together>>
  BY DEF MessagesAppend
<1>2. CASE b \in Malformed
  <2>1. messages' = messages /\ alive' = FALSE /\ Shown' = Shown
    BY <1>2, SameShown DEF MessagesAppend
  <2>2. TypeOK' /\ InOrder' /\ OnWireNewer' /\ PageKnown'
    BY <1>1, <2>1 DEF IInv, TypeOK, InOrder, OnWireNewer, PageKnown
  <2>3. Overtaken' /\ OnePlace' /\ OrderedUnlessOverlapped'
    BY <1>1, <2>1 DEF IInv, Overtaken, OnePlace, OrderedUnlessOverlapped
  <2> QED BY <2>2, <2>3 DEF IInv
<1>3. CASE b \notin Malformed
  <2> DEFINE n == Len(messages)
  <2>1. messages' = Append(messages, b) /\ alive' = alive
    <3>1. messages' = messages \o <<b>> /\ alive' = alive
      BY <1>3 DEF MessagesAppend, Concat
    <3>2. messages \in Seq(1 .. MaxBatches) /\ b \in 1 .. MaxBatches
      BY DEF IInv, TypeOK
    <3> QED BY <3>1, <3>2
  <2>2. /\ messages' \in Seq(1 .. MaxBatches)
        /\ n \in Nat /\ DOMAIN messages = 1 .. n /\ DOMAIN messages' = 1 .. n + 1
        /\ \A i \in 1 .. n : messages'[i] = messages[i]
        /\ messages'[n + 1] = b
    BY <2>1, AppendProperties DEF IInv, TypeOK
  <2> HIDE DEF n
  <2>3. Shown' = Shown \cup {b}
    BY <2>2 DEF Shown
  <2>4. TypeOK' /\ InOrder' /\ OnWireNewer' /\ PageKnown'
    BY <1>1, <2>1, <2>2, <2>3 DEF IInv, TypeOK, InOrder, OnWireNewer, PageKnown
  <2>5. Overtaken'
    BY <1>1, <2>3 DEF IInv, Overtaken
  <2>6. OnePlace'
    <3>1. \A i \in 1 .. n : messages[i] # b
      BY <1>1, <2>2 DEF IInv, OnePlace, Shown
    <3>2. \A i, j \in DOMAIN messages' : messages'[i] = messages'[j] => i = j
      BY <2>2, <3>1 DEF IInv, OnePlace
    <3> QED BY <1>1, <2>3, <3>2 DEF IInv, OnePlace
  <2>7. OrderedUnlessOverlapped'
    <3> SUFFICES ASSUME NEW i \in 1 .. n + 1, NEW j \in 1 .. n + 1, i < j
                 PROVE  \/ messages'[i] < messages'[j]
                        \/ {messages'[i], messages'[j]} \in together'
      BY <2>2 DEF OrderedUnlessOverlapped
    <3>1. CASE j # n + 1
      BY <3>1, <2>2, <1>1 DEF IInv, OrderedUnlessOverlapped
    <3>2. CASE j = n + 1
      <4>1. i \in 1 .. n /\ messages'[i] = messages[i] /\ messages'[j] = b
        BY <3>2, <2>2
      <4>2. messages[i] \in Shown /\ b \in decoding /\ messages[i] # b
        BY <4>1, <1>1, <2>2 DEF IInv, OnePlace, Shown
      <4>3. messages[i] \in Nat /\ b \in Nat
        BY <4>1, <2>2, Members DEF IInv
      <4>4. CASE b < messages[i]
        <5>1. {b, messages[i]} \in together
          BY <4>2, <4>4 DEF IInv, Overtaken
        <5>2. {b, messages[i]} = {messages[i], b}
          OBVIOUS
        <5> QED BY <5>1, <5>2, <4>1, <1>1
      <4>5. CASE ~ (b < messages[i])
        BY <4>1, <4>2, <4>3, <4>5
      <4> QED BY <4>4, <4>5
    <3> QED BY <3>1, <3>2
  <2> QED BY <2>4, <2>5, <2>6, <2>7 DEF IInv
<1> QED BY <1>2, <1>3

LEMMA ClearKeeps == IInv /\ MessagesClear => IInv'
<1> SUFFICES ASSUME IInv, MessagesClear PROVE IInv' OBVIOUS
<1>1. /\ messages' = <<>> /\ Shown' = {} /\ cleared' = cleared \cup Shown
      /\ UNCHANGED <<sent, socket, inbound, decoding, alive, together>>
  BY DEF MessagesClear, EmptiesList, Shown
<1>2. TypeOK'
  BY <1>1, Members, EmptySeq DEF IInv, TypeOK
<1>3. InOrder' /\ OnWireNewer' /\ PageKnown'
  BY <1>1 DEF IInv, InOrder, OnWireNewer, PageKnown
<1>4. Overtaken' /\ OnePlace' /\ OrderedUnlessOverlapped'
  BY <1>1 DEF IInv, Overtaken, OnePlace, OrderedUnlessOverlapped
<1> QED BY <1>2, <1>3, <1>4 DEF IInv

LEMMA InitIInv == Init => IInv
<1> SUFFICES ASSUME Init PROVE IInv OBVIOUS
<1>1. <<>> \in Seq(1 .. MaxBatches) /\ sent \in 0 .. MaxBatches
  BY EmptySeq, MaxBatchesAssumption DEF Init
<1>2. TypeOK /\ Shown = {}
  BY <1>1 DEF Init, TypeOK, Shown
<1> QED BY <1>2 DEF Init, IInv, InOrder, OnWireNewer, PageKnown, Overtaken, OnePlace,
                    OrderedUnlessOverlapped

LEMMA NextIInv == IInv /\ [Next]_vars => IInv'
<1> SUFFICES ASSUME IInv, [Next]_vars PROVE IInv' OBVIOUS
<1>1. CASE UNCHANGED vars
  <2>1. Shown' = Shown
    BY <1>1, SameShown DEF vars
  <2> QED BY <1>1, <2>1
          DEF vars, IInv, TypeOK, InOrder, OnWireNewer, PageKnown, Overtaken, OnePlace,
              OrderedUnlessOverlapped
<1>2. CASE Send
  BY <1>2, SendKeeps
<1>3. CASE SocketCloses \/ Reconnect
  BY <1>3, SocketKeeps
<1>4. CASE Page
  BY <1>4, OnMessageKeeps, AppendKeeps, ClearKeeps DEF Page
<1> QED BY <1>1, <1>2, <1>3, <1>4 DEF Next

THEOREM Invariant == Spec => []IInv
BY InitIInv, NextIInv, PTL DEF Spec

(* Whatever is decoded, cleared and received again in whatever order, the  *)
(* page shows no batch twice and none that was cleared.                    *)
THEOREM ViewInvHolds == Spec => []ViewInv
<1>1. IInv => ViewInv
  <2> SUFFICES ASSUME IInv PROVE ViewInv OBVIOUS
  <2>1. Elements(inbound) \cap (decoding \cup Shown \cup cleared) = {}
    BY Members DEF IInv, OnWireNewer, Elements
  <2> QED BY <2>1 DEF IInv, OnePlace, ViewInv, ShownOnce
<1> QED BY <1>1, Invariant, PTL

(* Only batches that were decoded at the same time change places.          *)
THEOREM OrderedUnlessOverlappedHolds == Spec => []OrderedUnlessOverlapped
<1>1. IInv => OrderedUnlessOverlapped
  BY DEF IInv
<1> QED BY <1>1, Invariant, PTL

-----------------------------------------------------------------------------
(* The page Monitor.  A task is in order when it has asked for, and was    *)
(* answered with, nothing the server has gone back on, and when what was   *)
(* stored or launched for it is on the server, and in the answer that      *)
(* followed.                                                               *)
TaskInOrder(r) ==
  /\ r \in Task
  /\ r.stage = "free" <=> r.kind = "none"
  /\ r.stage \in {"drop", "post", "rejected"} <=> r.left # {}
  /\ r.stage = "drop" => r.kind = "upload"
  /\ r.mine => r.kind = "upload"
  /\ r.stage \in {"ask", "answered"} => Part(r.kind, r.seen) = r.seen
  /\ r.stage = "ask" => NotOlder(OnServer, r.seen)
  /\ r.stage = "answered" =>
       /\ NotOlder(r.answer, r.seen) /\ NotOlder(OnServer, r.answer)
       /\ Part(r.kind, r.answer) = r.answer
       /\ r.stored = {}
  /\ r.stored \subseteq disk
  /\ r.stored # {} => r.kind = "upload"
  /\ r.pid # {} => r.kind = "run"
  /\ \A p \in r.pid : /\ procs[p] # "none"
                      /\ r.stage = "answered" => r.answer.instances[p] # "none"

TasksInv == NotOlder(OnServer, OnScreen) /\ \A n \in Slots : TaskInOrder(task[n])

(* The uploads that the flag of this visit stands for have begun; without  *)
(* drops read at one time the visit has one upload at most, counting the   *)
(* drop still being read and the upload that failed.                       *)
Begun(n) == task[n].mine /\ task[n].stage # "drop"

FlagInv ==
  /\ \A n \in Slots : task[n].mine => mounted
  /\ lost \/ uploading => mounted
  /\ uploading => lost \/ \E n \in Slots : Begun(n)
  /\ ~crossed =>
       /\ \A n, m \in Slots : task[n].mine /\ task[m].mine => n = m
       /\ \A n \in Slots : task[n].mine => ~lost
       /\ \A n \in Slots : task[n].mine /\ task[n].stage = "drop" => ~uploading
       /\ lost \/ (\E n \in Slots : Begun(n)) => uploading

PageIInv == PageTypeOK /\ TasksInv /\ FlagInv

-----------------------------------------------------------------------------
(* Lists.                                                                  *)

LEMMA LaterIs ==
  /\ \A x \in Status : Later[x] \subseteq Status /\ x \in Later[x] /\ x \in Later["none"]
  /\ \A x, y, z \in Status : y \in Later[x] /\ z \in Later[y] => z \in Later[x]
  /\ \A x, y \in Status : y \in Later[x] /\ x # "none" => y # "none"
BY DEF Later, Status

LEMMA ListsAre ==
  ASSUME PageTypeOK
  PROVE  OnServer \in Lists /\ OnScreen \in Lists /\ Nothing \in Lists
BY DEF PageTypeOK, OnServer, OnScreen, Nothing, Lists, Status

LEMMA NotOlderItself ==
  ASSUME NEW a \in Lists
  PROVE  NotOlder(a, a)
BY LaterIs DEF NotOlder, Lists

LEMMA NotOlderTrans ==
  ASSUME NEW a \in Lists, NEW b \in Lists, NEW c \in Lists, NotOlder(a, b), NotOlder(b, c)
  PROVE  NotOlder(a, c)
<1>1. c.files \subseteq a.files
  BY DEF NotOlder
<1>2. ASSUME NEW p \in Pids PROVE a.instances[p] \in Later[c.instances[p]]
  <2>1. a.instances[p] \in Status /\ b.instances[p] \in Status /\ c.instances[p] \in Status
    BY DEF Lists
  <2>2. a.instances[p] \in Later[b.instances[p]] /\ b.instances[p] \in Later[c.instances[p]]
    BY DEF NotOlder
  <2> QED BY <2>1, <2>2, LaterIs
<1> QED BY <1>1, <1>2 DEF NotOlder

(* The part of the lists a task is about.                                  *)
LEMMA PartIs ==
  ASSUME NEW k, NEW a \in Lists
  PROVE  /\ Part(k, a) \in Lists
         /\ Part(k, a).files = IF FilesUpdate(k) THEN a.files ELSE {}
         /\ \A p \in Pids : Part(k, a).instances[p] =
              IF InstancesUpdate(k) THEN a.instances[p] ELSE "none"
         /\ Part(k, Part(k, a)) = Part(k, a)
BY DEF Part, Lists, Nothing, Status

LEMMA PartNotOlder ==
  ASSUME NEW k, NEW a \in Lists, NEW b \in Lists, NotOlder(a, b)
  PROVE  NotOlder(a, Part(k, b)) /\ NotOlder(Part(k, a), Part(k, b))
<1>1. PICK pa, pb : pa = Part(k, a) /\ pb = Part(k, b)
  OBVIOUS
<1>2. /\ pa.files = IF FilesUpdate(k) THEN a.files ELSE {}
      /\ \A p \in Pids : pa.instances[p] = IF InstancesUpdate(k) THEN a.instances[p] ELSE "none"
  BY <1>1, PartIs
<1>3. /\ pb.files = IF FilesUpdate(k) THEN b.files ELSE {}
      /\ \A p \in Pids : pb.instances[p] = IF InstancesUpdate(k) THEN b.instances[p] ELSE "none"
  BY <1>1, PartIs
<1>4. b.files \subseteq a.files /\ \A p \in Pids : a.instances[p] \in Later[b.instances[p]]
  BY DEF NotOlder
<1>5. \A p \in Pids : a.instances[p] \in Later["none"] /\ "none" \in Later["none"]
  <2>1. \A p \in Pids : a.instances[p] \in Status
    BY DEF Lists
  <2>2. "none" \in Status
    BY DEF Status
  <2> QED BY <2>1, <2>2, LaterIs
<1>6. pb.files \subseteq a.files /\ pb.files \subseteq pa.files
  BY <1>2, <1>3, <1>4
<1>7. \A p \in Pids : /\ a.instances[p] \in Later[pb.instances[p]]
                      /\ pa.instances[p] \in Later[pb.instances[p]]
  BY <1>2, <1>3, <1>4, <1>5
<1> QED BY <1>1, <1>6, <1>7 DEF NotOlder

-----------------------------------------------------------------------------
(* The server only gains files, and its processes only go on.              *)
ServerGoesOn ==
  /\ disk \subseteq disk' /\ disk' \subseteq Files
  /\ procs' \in [Pids -> Status]
  /\ \A p \in Pids : procs'[p] \in Later[procs[p]]

LEMMA ServerAhead ==
  ASSUME PageTypeOK, ServerGoesOn
  PROVE  OnServer' \in Lists /\ NotOlder(OnServer', OnServer)
BY DEF PageTypeOK, ServerGoesOn, OnServer, Lists, NotOlder

LEMMA ServerStays ==
  ASSUME PageTypeOK, UNCHANGED serverVars
  PROVE  ServerGoesOn
BY LaterIs DEF PageTypeOK, ServerGoesOn, serverVars

LEMMA TaskStays ==
  ASSUME PageTypeOK, ServerGoesOn, NEW r, TaskInOrder(r)
  PROVE  TaskInOrder(r)'
<1>1. r \in Task /\ r.seen \in Lists /\ r.answer \in Lists /\ r.pid \subseteq Pids
  BY DEF TaskInOrder, Task
<1>2. PICK a, b : a = OnServer /\ b = OnServer'
  OBVIOUS
<1>3. a \in Lists /\ b \in Lists /\ NotOlder(b, a)
  BY <1>2, ListsAre, ServerAhead
<1>4. r.stage = "ask" => NotOlder(b, r.seen)
  BY <1>1, <1>2, <1>3, NotOlderTrans DEF TaskInOrder
<1>5. r.stage = "answered" => NotOlder(b, r.answer)
  BY <1>1, <1>2, <1>3, NotOlderTrans DEF TaskInOrder
<1>6. \A p \in r.pid : procs'[p] # "none"
  <2> SUFFICES ASSUME NEW p \in r.pid PROVE procs'[p] # "none"
    OBVIOUS
  <2>1. p \in Pids /\ procs[p] # "none"
    BY <1>1 DEF TaskInOrder
  <2>2. procs[p] \in Status /\ procs'[p] \in Status /\ procs'[p] \in Later[procs[p]]
    BY <2>1 DEF PageTypeOK, ServerGoesOn
  <2> QED BY <2>1, <2>2, LaterIs
<1>7. r.stored \subseteq disk'
  BY DEF TaskInOrder, ServerGoesOn
<1>8. NotOlder(OnServer', r.seen) <=> NotOlder(b, r.seen)
  BY <1>2
<1>9. r.stage = "ask" => NotOlder(OnServer, r.seen)'
  BY <1>2, <1>4 DEF NotOlder
<1>10. r.stage = "answered" => NotOlder(OnServer, r.answer)'
  BY <1>2, <1>5 DEF NotOlder
<1> QED BY <1>6, <1>7, <1>9, <1>10 DEF TaskInOrder, NotOlder, Part, Nothing

(* New tasks are in order.                                                 *)
LEMMA NewTasks ==
  ASSUME PageTypeOK, NotOlder(OnServer, OnScreen)
  PROVE  /\ TaskInOrder(Free)
         /\ \A k \in {"files", "instances"} : TaskInOrder(NewTask(k, "ask", {}))
         /\ \A fs \in (SUBSET Files) \ {{}} : TaskInOrder(NewTask("upload", "drop", fs))
         /\ \A f \in Files : TaskInOrder(NewTask("run", "post", {f}))
<1>1. OnServer \in Lists /\ OnScreen \in Lists /\ Nothing \in Lists
  BY ListsAre
<1>2. TaskInOrder(Free)
  BY <1>1 DEF TaskInOrder, Free, NewTask, Task, Kinds
<1>3. ASSUME NEW k \in {"files", "instances"} PROVE TaskInOrder(NewTask(k, "ask", {}))
  <2>1. PICK s : s = Part(k, OnScreen)
    OBVIOUS
  <2>2. s \in Lists /\ Part(k, s) = s /\ NotOlder(OnServer, s)
    BY <1>1, <2>1, PartIs, PartNotOlder
  <2>3. PICK r : r = NewTask(k, "ask", {})
    OBVIOUS
  <2>4. r = [kind |-> k, stage |-> "ask", mine |-> FALSE, left |-> {}, stored |-> {},
             pid |-> {}, seen |-> s, answer |-> Nothing]
    BY <2>1, <2>3 DEF NewTask
  <2>5. r \in Task
    BY <1>1, <2>2, <2>4 DEF Task, Kinds
  <2>6. TaskInOrder(r)
    BY <2>2, <2>4, <2>5 DEF TaskInOrder
  <2> QED BY <2>3, <2>6
<1>4. ASSUME NEW fs \in (SUBSET Files) \ {{}} PROVE TaskInOrder(NewTask("upload", "drop", fs))
  <2>1. PICK r : r = NewTask("upload", "drop", fs)
    OBVIOUS
  <2>2. r = [kind |-> "upload", stage |-> "drop", mine |-> TRUE, left |-> fs, stored |-> {},
             pid |-> {}, seen |-> Nothing, answer |-> Nothing]
    BY <2>1 DEF NewTask
  <2>3. r \in Task
    BY <1>1, <2>2 DEF Task, Kinds
  <2>4. fs # {}
    BY <1>4
  <2>5. TaskInOrder(r)
    BY <2>2, <2>3, <2>4 DEF TaskInOrder
  <2> QED BY <2>1, <2>5
<1>5. ASSUME NEW f \in Files PROVE TaskInOrder(NewTask("run", "post", {f}))
  BY <1>1 DEF TaskInOrder, NewTask, Task, Kinds
<1> QED BY <1>2, <1>3, <1>4, <1>5

-----------------------------------------------------------------------------
(* Steps on the tasks.                                                     *)

LEMMA OneTask ==
  ASSUME PageTypeOK, TasksInv, ServerGoesOn, NEW n \in Slots, NEW r,
         task' = [task EXCEPT ![n] = r], TaskInOrder(r)'
  PROVE  /\ \A m \in Slots : TaskInOrder(task[m])'
         /\ \A m \in Slots : task'[m] = IF m = n THEN r ELSE task[m]
         /\ task' \in [Slots -> Task]
<1>1. \A m \in Slots : task'[m] = IF m = n THEN r ELSE task[m]
  BY DEF PageTypeOK
<1>2. ASSUME NEW m \in Slots PROVE TaskInOrder(task[m])'
  <2>1. PICK q : q = task[m]
    OBVIOUS
  <2>2. TaskInOrder(q)'
    BY <2>1, TaskStays DEF TasksInv
  <2> QED BY <1>1, <2>1, <2>2
<1>3. r \in Task
  BY DEF TaskInOrder
<1> QED BY <1>1, <1>2, <1>3 DEF PageTypeOK

LEMMA TwoTasks ==
  ASSUME PageTypeOK, TasksInv, ServerGoesOn, NEW n \in Slots, NEW k \in Slots, NEW r, NEW s,
         n # k, task' = [task EXCEPT ![n] = r, ![k] = s], TaskInOrder(r)', TaskInOrder(s)'
  PROVE  /\ \A m \in Slots : TaskInOrder(task[m])'
         /\ \A m \in Slots : task'[m] = IF m = k THEN s ELSE IF m = n THEN r ELSE task[m]
         /\ task' \in [Slots -> Task]
<1>1. \A m \in Slots : task'[m] = IF m = k THEN s ELSE IF m = n THEN r ELSE task[m]
  BY DEF PageTypeOK
<1>2. ASSUME NEW m \in Slots PROVE TaskInOrder(task[m])'
  <2>1. PICK q : q = task[m]
    OBVIOUS
  <2>2. TaskInOrder(q)'
    BY <2>1, TaskStays DEF TasksInv
  <2> QED BY <1>1, <2>1, <2>2
<1>3. r \in Task /\ s \in Task
  BY DEF TaskInOrder
<1> QED BY <1>1, <1>2, <1>3 DEF PageTypeOK

(* What a step has to show, but for the flag.                              *)
LEMMA StepKeeps ==
  ASSUME PageTypeOK, TasksInv, ServerGoesOn, UNCHANGED listVars,
         mounted' \in BOOLEAN, canvasOpen' \in BOOLEAN, uploading' \in BOOLEAN,
         lost' \in BOOLEAN, crossed' \in BOOLEAN,
         task' \in [Slots -> Task], \A m \in Slots : TaskInOrder(task[m])'
  PROVE  PageTypeOK' /\ TasksInv'
<1>1. OnScreen' \in Lists /\ OnScreen' = OnScreen
  BY ListsAre DEF OnScreen, listVars
<1>2. PICK a, b, c : a = OnServer' /\ b = OnServer /\ c = OnScreen
  OBVIOUS
<1>3. a \in Lists /\ b \in Lists /\ c \in Lists /\ NotOlder(a, b) /\ NotOlder(b, c)
  BY <1>2, ListsAre, ServerAhead DEF TasksInv, NotOlder
<1>4. NotOlder(a, c)
  BY <1>3, NotOlderTrans
<1>5. NotOlder(OnServer, OnScreen)'
  BY <1>1, <1>2, <1>4 DEF NotOlder
<1>6. \A m \in Slots : /\ task'[m].stage = "free" <=> task'[m].kind = "none"
                       /\ task'[m].stage \in {"drop", "post", "rejected"}
                            <=> task'[m].left # {}
  BY DEF TaskInOrder
<1>7. PageTypeOK'
  BY <1>1, <1>6 DEF PageTypeOK, ServerGoesOn
<1> QED BY <1>5, <1>7 DEF TasksInv

LEMMA FlagStays ==
  ASSUME FlagInv, UNCHANGED <<mounted, uploading, lost, crossed>>,
         \A m \in Slots : /\ task'[m].mine <=> task[m].mine
                          /\ task[m].mine =>
                               (task'[m].stage = "drop" <=> task[m].stage = "drop")
  PROVE  FlagInv'
<1>1. \A m \in Slots : Begun(m)' <=> Begun(m)
  BY DEF Begun
<1>2. \A m \in Slots : task'[m].mine /\ task'[m].stage = "drop"
                         <=> task[m].mine /\ task[m].stage = "drop"
  OBVIOUS
<1>3. uploading' => lost' \/ \E m \in Slots : Begun(m)'
  BY <1>1 DEF FlagInv
<1>4. ~crossed' => (lost' \/ (\E m \in Slots : Begun(m)') => uploading')
  BY <1>1 DEF FlagInv
<1>5. ~crossed' =>
        /\ \A m, k \in Slots : task'[m].mine /\ task'[k].mine => m = k
        /\ \A m \in Slots : task'[m].mine => ~lost'
        /\ \A m \in Slots : task'[m].mine /\ task'[m].stage = "drop" => ~uploading'
  BY <1>2 DEF FlagInv
<1>6. (\A m \in Slots : task'[m].mine => mounted') /\ (lost' \/ uploading' => mounted')
  BY DEF FlagInv
<1> QED BY <1>3, <1>4, <1>5, <1>6 DEF FlagInv

(* New tasks other than uploads do not count for the flag.                 *)
LEMMA NotMine ==
  ASSUME PageTypeOK, TasksInv
  PROVE  /\ \A m \in FreeSlots : m \in Slots /\ ~task[m].mine
         /\ ~Free.mine
         /\ \A k, st, fs : NewTask(k, st, fs).mine <=> k = "upload"
BY DEF PageTypeOK, TasksInv, TaskInOrder, FreeSlots, Free, NewTask, Task

LEMMA StartKeeps ==
  ASSUME PageIInv, UNCHANGED <<serverVars, listVars, mounted, uploading, pageHist>>,
         canvasOpen' \in BOOLEAN,
         NEW t0, TaskInOrder(t0), ~t0.mine, Start(t0)
  PROVE  PageIInv'
<1>0. PageTypeOK /\ TasksInv /\ FlagInv
  BY DEF PageIInv
<1>1. PICK n \in FreeSlots : task' = [task EXCEPT ![n] = t0]
  BY DEF Start
<1>2. n \in Slots /\ ~task[n].mine
  BY <1>0, <1>1, NotMine
<1>3. ServerGoesOn
  BY <1>0, ServerStays
<1>4. TaskInOrder(t0)'
  BY <1>0, <1>3, TaskStays
<1>5. /\ \A m \in Slots : TaskInOrder(task[m])'
      /\ \A m \in Slots : task'[m] = IF m = n THEN t0 ELSE task[m]
      /\ task' \in [Slots -> Task]
  BY <1>0, <1>1, <1>2, <1>3, <1>4, OneTask
<1>6. PageTypeOK' /\ TasksInv'
  BY <1>0, <1>3, <1>5, StepKeeps DEF PageTypeOK, pageHist
<1>7. t0.mine = FALSE /\ task[n].mine = FALSE
  <2>1. t0.mine \in BOOLEAN /\ task[n].mine \in BOOLEAN
    BY <1>0, <1>2 DEF TasksInv, TaskInOrder, Task
  <2> QED BY <1>2, <2>1
<1>8. FlagInv'
  BY <1>0, <1>5, <1>7, FlagStays DEF pageHist
<1> QED BY <1>6, <1>8 DEF PageIInv

LEMMA KeepsLeave == PageIInv /\ LeavePage => PageIInv'
<1> SUFFICES ASSUME PageIInv, LeavePage PROVE PageIInv'
  OBVIOUS
<1>0. PageTypeOK /\ TasksInv /\ FlagInv
  BY DEF PageIInv
<1>1. /\ mounted' = FALSE /\ canvasOpen' = FALSE /\ uploading' = FALSE
      /\ lost' = FALSE /\ crossed' = FALSE
      /\ task' = [n \in Slots |-> [task[n] EXCEPT !.mine = FALSE]]
      /\ UNCHANGED <<serverVars, listVars>>
  BY DEF LeavePage
<1>2. ServerGoesOn
  BY <1>0, <1>1, ServerStays
<1>3. ASSUME NEW m \in Slots
      PROVE  TaskInOrder(task[m])' /\ task'[m] \in Task /\ task'[m].mine = FALSE
  <2>1. PICK r : r = task[m]
    OBVIOUS
  <2>2. PICK q : q = [r EXCEPT !.mine = FALSE]
    OBVIOUS
  <2>3. r \in Task /\ TaskInOrder(r)
    BY <1>0, <2>1 DEF TasksInv, TaskInOrder
  <2>4. q \in Task
    BY <2>2, <2>3 DEF Task
  <2>5. /\ q.kind = r.kind /\ q.stage = r.stage /\ q.mine = FALSE /\ q.left = r.left
        /\ q.stored = r.stored /\ q.pid = r.pid /\ q.seen = r.seen /\ q.answer = r.answer
    BY <2>2, <2>3 DEF Task
  <2>6. TaskInOrder(q)
    BY <2>3, <2>4, <2>5 DEF TaskInOrder
  <2>7. TaskInOrder(q)'
    BY <1>0, <1>2, <2>6, TaskStays
  <2>8. task'[m] = q
    BY <1>1, <2>1, <2>2
  <2> QED BY <2>4, <2>5, <2>7, <2>8
<1>4. task' \in [Slots -> Task]
  BY <1>1, <1>3
<1>5. PageTypeOK' /\ TasksInv'
  BY <1>0, <1>1, <1>2, <1>3, <1>4, StepKeeps
<1>6. FlagInv'
  BY <1>1, <1>3 DEF FlagInv, Begun
<1> QED BY <1>5, <1>6 DEF PageIInv

LEMMA KeepsEnter == PageIInv /\ EnterPage => PageIInv'
<1> SUFFICES ASSUME PageIInv, EnterPage PROVE PageIInv'
  OBVIOUS
<1>0. PageTypeOK /\ TasksInv /\ FlagInv
  BY DEF PageIInv
<1>1. /\ ~mounted /\ mounted' = TRUE
      /\ UNCHANGED <<serverVars, canvasOpen, uploading, listVars, pageHist>>
  BY DEF EnterPage
<1>2. PICK a, b : a = NewTask("files", "ask", {}) /\ b = NewTask("instances", "ask", {})
  OBVIOUS
<1>3. PICK n \in FreeSlots, k \in FreeSlots : n # k /\ task' = [task EXCEPT ![n] = a, ![k] = b]
  BY <1>2 DEF EnterPage, StartBoth
<1>4. ServerGoesOn
  BY <1>0, <1>1, ServerStays
<1>5. TaskInOrder(a) /\ TaskInOrder(b) /\ ~a.mine /\ ~b.mine /\ n \in Slots /\ k \in Slots
      /\ ~task[n].mine /\ ~task[k].mine
  BY <1>0, <1>2, <1>3, NewTasks, NotMine DEF TasksInv
<1>6. TaskInOrder(a)' /\ TaskInOrder(b)'
  BY <1>0, <1>4, <1>5, TaskStays
<1>7. /\ \A m \in Slots : TaskInOrder(task[m])'
      /\ \A m \in Slots : task'[m] = IF m = k THEN b ELSE IF m = n THEN a ELSE task[m]
      /\ task' \in [Slots -> Task]
  BY <1>0, <1>3, <1>4, <1>5, <1>6, TwoTasks
<1>8. PageTypeOK' /\ TasksInv'
  BY <1>0, <1>1, <1>4, <1>7, StepKeeps DEF PageTypeOK, pageHist
<1>9. \A m \in Slots : ~task[m].mine
  BY <1>0, <1>1 DEF FlagInv
<1>10. \A m \in Slots : ~task'[m].mine
  BY <1>5, <1>7, <1>9
<1>11. ~lost' /\ ~uploading'
  <2>1. ~lost
    BY <1>0, <1>1 DEF FlagInv
  <2> QED BY <1>0, <1>1, <2>1 DEF FlagInv, pageHist
<1>12. FlagInv'
  BY <1>10, <1>11 DEF FlagInv, Begun
<1> QED BY <1>8, <1>12 DEF PageIInv

LEMMA KeepsToggle == PageIInv /\ ToggleCanvas => PageIInv'
<1> SUFFICES ASSUME PageIInv, ToggleCanvas PROVE PageIInv'
  OBVIOUS
<1>0. PageTypeOK /\ TasksInv
  BY DEF PageIInv
<1>1. PICK t0 : t0 = NewTask("instances", "ask", {})
  OBVIOUS
<1>2. /\ canvasOpen' \in BOOLEAN /\ Start(t0)
      /\ UNCHANGED <<serverVars, listVars, mounted, uploading, pageHist>>
  BY <1>1 DEF ToggleCanvas
<1>3. TaskInOrder(t0) /\ ~t0.mine
  BY <1>0, <1>1, NewTasks, NotMine DEF TasksInv
<1> QED BY <1>2, <1>3, StartKeeps

LEMMA KeepsFileSelect == PageIInv /\ (\E f \in Files : OnFileSelect(f)) => PageIInv'
<1> SUFFICES ASSUME PageIInv, NEW f \in Files, OnFileSelect(f) PROVE PageIInv'
  OBVIOUS
<1>0. PageTypeOK /\ TasksInv
  BY DEF PageIInv
<1>1. PICK t0 : t0 = NewTask("run", "post", {f})
  OBVIOUS
<1>2. /\ canvasOpen' \in BOOLEAN /\ Start(t0)
      /\ UNCHANGED <<serverVars, listVars, mounted, uploading, pageHist>>
  BY <1>0, <1>1 DEF OnFileSelect, viewVars, PageTypeOK
<1>3. TaskInOrder(t0) /\ ~t0.mine
  BY <1>0, <1>1, NewTasks, NotMine DEF TasksInv
<1> QED BY <1>2, <1>3, StartKeeps

(* A drop is accepted while the flag is down: unless another drop of the   *)
(* visit is being read, the visit has no upload then, and lost none.       *)
LEMMA KeepsDrop ==
  PageIInv /\ (\E fs \in (SUBSET Files) \ {{}} : DropFiles(fs)) => PageIInv'
<1> SUFFICES ASSUME PageIInv, NEW fs \in (SUBSET Files) \ {{}}, DropFiles(fs) PROVE PageIInv'
  OBVIOUS
<1>0. PageTypeOK /\ TasksInv /\ FlagInv
  BY DEF PageIInv
<1>1. PICK t0 : t0 = NewTask("upload", "drop", fs)
  OBVIOUS
<1>2. /\ mounted /\ ~uploading /\ crossed' = (crossed \/ Reading # {})
      /\ UNCHANGED <<serverVars, mounted, canvasOpen, uploading, listVars, lost>>
  BY DEF DropFiles, DropAccepted, viewVars
<1>3. PICK n \in FreeSlots : task' = [task EXCEPT ![n] = t0]
  BY <1>1 DEF DropFiles, Start
<1>4. TaskInOrder(t0) /\ t0.mine /\ t0.stage = "drop" /\ n \in Slots /\ ~task[n].mine
  <2>1. t0.stage = "drop"
    BY <1>1 DEF NewTask
  <2> QED BY <1>0, <1>1, <1>3, <2>1, NewTasks, NotMine DEF TasksInv
<1>5. ServerGoesOn
  BY <1>0, <1>2, ServerStays
<1>6. TaskInOrder(t0)'
  BY <1>0, <1>4, <1>5, TaskStays
<1>7. /\ \A m \in Slots : TaskInOrder(task[m])'
      /\ \A m \in Slots : task'[m] = IF m = n THEN t0 ELSE task[m]
      /\ task' \in [Slots -> Task]
  BY <1>0, <1>3, <1>4, <1>5, <1>6, OneTask
<1>8. PageTypeOK' /\ TasksInv'
  BY <1>0, <1>2, <1>5, <1>7, StepKeeps DEF PageTypeOK
<1>9. ~crossed' => ~lost /\ \A m \in Slots : ~task[m].mine
  <2>1. ~crossed' => ~crossed /\ Reading = {}
    BY <1>2
  <2>2. ~crossed => ~lost /\ \A m \in Slots : ~Begun(m)
    BY <1>0, <1>2 DEF FlagInv
  <2> QED BY <2>1, <2>2 DEF Reading, Begun
<1>10. FlagInv'
  BY <1>0, <1>2, <1>4, <1>7, <1>9 DEF FlagInv, Begun
<1> QED BY <1>8, <1>10 DEF PageIInv

(* Of a task that only changes its stage, all but the flag follows from    *)
(* the task itself.                                                        *)
LEMMA KeepsOnUpload ==
  ASSUME PageIInv, NEW n \in Slots, OnUpload(n)
  PROVE  PageIInv'
<1>0. PageTypeOK /\ TasksInv /\ FlagInv
  BY DEF PageIInv
<1>1. /\ task[n].stage = "drop" /\ task' = [task EXCEPT ![n].stage = "post"]
      /\ uploading' = (uploading \/ task[n].mine)
      /\ UNCHANGED <<serverVars, mounted, canvasOpen, listVars, pageHist>>
  BY DEF OnUpload
<1>2. PICK q : q = task[n]
  OBVIOUS
<1>3. q \in Task /\ TaskInOrder(q) /\ q.stage = "drop"
  BY <1>0, <1>1, <1>2 DEF TasksInv, TaskInOrder
<1>4. PICK r : r = [q EXCEPT !.stage = "post"]
  OBVIOUS
<1>5. task' = [task EXCEPT ![n] = r]
  BY <1>0, <1>1, <1>2, <1>4 DEF PageTypeOK
<1>6. /\ r.kind = q.kind /\ r.stage = "post" /\ r.mine = q.mine /\ r.left = q.left
      /\ r.stored = q.stored /\ r.pid = q.pid /\ r.seen = q.seen /\ r.answer = q.answer
  BY <1>3, <1>4 DEF Task
<1>7. r \in Task
  BY <1>3, <1>4 DEF Task
<1>8. TaskInOrder(r)
  <2>1. q.kind = "upload" /\ q.left # {} /\ q.stored \subseteq disk /\ q.pid = {}
    BY <1>3 DEF TaskInOrder
  <2> QED BY <1>6, <1>7, <2>1 DEF TaskInOrder
<1>9. ServerGoesOn
  BY <1>0, <1>1, ServerStays
<1>10. TaskInOrder(r)'
  BY <1>0, <1>8, <1>9, TaskStays
<1>11. /\ \A m \in Slots : TaskInOrder(task[m])'
       /\ \A m \in Slots : task'[m] = IF m = n THEN r ELSE task[m]
       /\ task' \in [Slots -> Task]
  BY <1>0, <1>5, <1>9, <1>10, OneTask
<1>12. task[n].mine \in BOOLEAN
  BY <1>2, <1>3 DEF Task
<1>13. PageTypeOK' /\ TasksInv'
  BY <1>0, <1>1, <1>9, <1>11, <1>12, StepKeeps DEF PageTypeOK, pageHist
<1>14. /\ \A m \in Slots : task'[m].mine <=> task[m].mine
       /\ \A m \in Slots : m # n => task'[m].stage = task[m].stage
       /\ task'[n].stage = "post"
  BY <1>2, <1>6, <1>11
<1>15. FlagInv'
  BY <1>0, <1>1, <1>14 DEF FlagInv, Begun, pageHist
<1> QED BY <1>13, <1>15 DEF PageIInv

-----------------------------------------------------------------------------
(* The server.  A POST answered leaves the task in order when the file is  *)
(* on disk, and the process listed.                                        *)
LEMMA PostedIs ==
  ASSUME PageTypeOK, TasksInv, NEW n \in Slots, NEW f \in task[n].left,
         NEW fs \in SUBSET Files, NEW ps \in SUBSET Pids, Posted(n, f, fs, ps)
  PROVE  \E r \in Task :
           /\ task' = [task EXCEPT ![n] = r]
           /\ r.kind = task[n].kind /\ r.mine = task[n].mine
           /\ r.left = task[n].left \ {f} /\ r.stored = task[n].stored \cup fs
           /\ r.pid = ps /\ r.seen = task[n].seen /\ r.answer = task[n].answer
           /\ r.stage = IF task[n].left = {f} THEN "posted" ELSE "post"
<1>1. PICK q : q = task[n]
  OBVIOUS
<1>2. q \in Task /\ f \in q.left
  BY <1>1 DEF PageTypeOK
<1>3. PICK st : st = IF q.left = {f} THEN "posted" ELSE "post"
  OBVIOUS
<1>4. PICK r : r = [q EXCEPT !.left = q.left \ {f}, !.stored = q.stored \cup fs,
                        !.pid = ps, !.stage = st]
  OBVIOUS
<1>5. task' = [task EXCEPT ![n] = r]
  BY <1>1, <1>3, <1>4 DEF Posted, PageTypeOK
<1>6. r \in Task
  BY <1>2, <1>3, <1>4 DEF Task
<1>7. /\ r.kind = q.kind /\ r.mine = q.mine /\ r.left = q.left \ {f}
      /\ r.stored = q.stored \cup fs
      /\ r.pid = ps /\ r.seen = q.seen /\ r.answer = q.answer /\ r.stage = st
  BY <1>2, <1>4 DEF Task
<1> QED BY <1>1, <1>3, <1>5, <1>6, <1>7

LEMMA KeepsPost ==
  ASSUME PageIInv, NEW n \in Slots, NEW f \in Files, Upload(n, f)
  PROVE  PageIInv'
<1>0. PageTypeOK /\ TasksInv /\ FlagInv
  BY DEF PageIInv
<1>1. /\ task[n].kind = "upload" /\ task[n].stage = "post" /\ f \in task[n].left
      /\ UNCHANGED <<procs, viewVars, listVars, pageHist>>
  BY DEF Upload, At
<1>2. PICK fs \in SUBSET {f} : disk' = disk \cup fs /\ Posted(n, f, fs, {})
  BY DEF Upload
<1>3. PICK r \in Task :
        /\ task' = [task EXCEPT ![n] = r]
        /\ r.kind = task[n].kind /\ r.mine = task[n].mine
        /\ r.left = task[n].left \ {f} /\ r.stored = task[n].stored \cup fs
        /\ r.pid = {} /\ r.seen = task[n].seen /\ r.answer = task[n].answer
        /\ r.stage = IF task[n].left = {f} THEN "posted" ELSE "post"
  <2>1. fs \in SUBSET Files /\ {} \in SUBSET Pids
    BY <1>2
  <2> QED BY <1>0, <1>1, <1>2, <2>1, PostedIs
<1>4. ServerGoesOn
  BY <1>0, <1>1, <1>2, LaterIs DEF PageTypeOK, ServerGoesOn
<1>5. /\ r.stage \in {"post", "posted"}
      /\ r.stage \in {"drop", "post", "rejected"} <=> r.left # {}
  BY <1>1, <1>3
<1>6. task[n].stored \subseteq disk
  BY <1>0 DEF TasksInv, TaskInOrder
<1>7. r.stored \subseteq disk'
  BY <1>2, <1>3, <1>6
<1>8. TaskInOrder(r)'
  BY <1>1, <1>3, <1>5, <1>7 DEF TaskInOrder
<1>9. /\ \A m \in Slots : TaskInOrder(task[m])'
      /\ \A m \in Slots : task'[m] = IF m = n THEN r ELSE task[m]
      /\ task' \in [Slots -> Task]
  BY <1>0, <1>3, <1>4, <1>8, OneTask
<1>10. PageTypeOK' /\ TasksInv'
  BY <1>0, <1>1, <1>4, <1>9, StepKeeps DEF PageTypeOK, viewVars, pageHist
<1>11. FlagInv'
  BY <1>0, <1>1, <1>3, <1>9, FlagStays DEF viewVars, pageHist
<1> QED BY <1>10, <1>11 DEF PageIInv

LEMMA InsertGoesOn ==
  ASSUME PageTypeOK, NEW p \in Pids, procs[p] = "none", Insert(p), disk' = disk
  PROVE  ServerGoesOn /\ procs'[p] = "spawned"
<1>1. /\ \A q \in Pids : procs'[q] = IF q = p THEN "spawned" ELSE procs[q]
      /\ procs' \in [Pids -> Status]
  BY DEF Insert, PageTypeOK, Status
<1>2. ASSUME NEW q \in Pids PROVE procs'[q] \in Later[procs[q]]
  <2>1. procs[q] \in Status /\ procs'[q] \in Status
    BY <1>1 DEF PageTypeOK
  <2> QED BY <1>1, <2>1, LaterIs
<1> QED BY <1>1, <1>2 DEF ServerGoesOn, PageTypeOK

LEMMA KeepsRun ==
  ASSUME PageIInv, NEW n \in Slots, NEW p \in Pids, Run(n, p)
  PROVE  PageIInv'
<1>0. PageTypeOK /\ TasksInv /\ FlagInv
  BY DEF PageIInv
<1>1. /\ task[n].kind = "run" /\ task[n].stage = "post" /\ procs[p] = "none"
      /\ UNCHANGED <<disk, viewVars, listVars, pageHist>>
  BY DEF Run, At
<1>2. PICK f \in task[n].left, fs \in SUBSET Files, ps \in SUBSET Pids :
        Posted(n, f, fs, ps) /\ fs = {} /\ ps = {p}
  BY DEF Run
<1>3. PICK r \in Task :
        /\ task' = [task EXCEPT ![n] = r]
        /\ r.kind = task[n].kind /\ r.mine = task[n].mine
        /\ r.left = task[n].left \ {f} /\ r.stored = task[n].stored \cup fs
        /\ r.pid = ps /\ r.seen = task[n].seen /\ r.answer = task[n].answer
        /\ r.stage = IF task[n].left = {f} THEN "posted" ELSE "post"
  <2>1. Posted(n, f, fs, ps)
    BY <1>2
  <2> QED BY <1>0, <2>1, PostedIs
<1>4. ServerGoesOn /\ procs'[p] = "spawned"
  BY <1>0, <1>1, InsertGoesOn DEF Run
<1>5. /\ r.stage \in {"post", "posted"}
      /\ r.stage \in {"drop", "post", "rejected"} <=> r.left # {}
  BY <1>2, <1>3
<1>6. (task[n].mine => task[n].kind = "upload") /\ r.stored = {} /\ r.pid = {p}
  <2>1. (task[n].mine => task[n].kind = "upload") /\ task[n].stored = {}
    BY <1>0, <1>1 DEF TasksInv, TaskInOrder
  <2> QED BY <1>2, <1>3, <2>1
<1>7. TaskInOrder(r)'
  BY <1>1, <1>3, <1>4, <1>5, <1>6 DEF TaskInOrder
<1>8. /\ \A m \in Slots : TaskInOrder(task[m])'
      /\ \A m \in Slots : task'[m] = IF m = n THEN r ELSE task[m]
      /\ task' \in [Slots -> Task]
  BY <1>0, <1>3, <1>4, <1>7, OneTask
<1>9. PageTypeOK' /\ TasksInv'
  BY <1>0, <1>1, <1>4, <1>8, StepKeeps DEF PageTypeOK, viewVars, pageHist
<1>10. FlagInv'
  BY <1>0, <1>1, <1>3, <1>8, FlagStays DEF viewVars, pageHist
<1> QED BY <1>9, <1>10 DEF PageIInv

LEMMA KeepsExit ==
  ASSUME PageIInv, NEW p \in Pids, Exit(p)
  PROVE  PageIInv'
<1>0. PageTypeOK /\ TasksInv /\ FlagInv
  BY DEF PageIInv
<1>1. /\ procs[p] = "spawned" /\ procs' = [procs EXCEPT ![p] = "exited"]
      /\ UNCHANGED <<disk, viewVars, listVars, task, pageHist>>
  BY DEF Exit
<1>2. /\ \A q \in Pids : procs'[q] = IF q = p THEN "exited" ELSE procs[q]
      /\ procs' \in [Pids -> Status]
  BY <1>0, <1>1 DEF PageTypeOK, Status
<1>3. ServerGoesOn
  <2>1. ASSUME NEW q \in Pids PROVE procs'[q] \in Later[procs[q]]
    <3>1. procs[q] \in Status /\ procs'[q] \in Status
      BY <1>0, <1>2 DEF PageTypeOK
    <3>2. "exited" \in Later["spawned"]
      BY DEF Later
    <3> QED BY <1>1, <1>2, <3>1, <3>2, LaterIs
  <2> QED BY <1>0, <1>1, <1>2, <2>1 DEF ServerGoesOn, PageTypeOK
<1>4. ASSUME NEW m \in Slots PROVE TaskInOrder(task[m])'
  <2>1. PICK q : q = task[m]
    OBVIOUS
  <2>2. TaskInOrder(q)'
    BY <1>0, <1>3, <2>1, TaskStays DEF TasksInv
  <2> QED BY <1>1, <2>1, <2>2
<1>5. PageTypeOK' /\ TasksInv'
  BY <1>0, <1>1, <1>3, <1>4, StepKeeps DEF PageTypeOK, viewVars, pageHist
<1>6. FlagInv'
  BY <1>0, <1>1, FlagStays DEF viewVars, pageHist
<1> QED BY <1>5, <1>6 DEF PageIInv

LEMMA KeepsAnswer ==
  ASSUME PageIInv, NEW n \in Slots, AnswerGet(n)
  PROVE  PageIInv'
<1>0. PageTypeOK /\ TasksInv /\ FlagInv
  BY DEF PageIInv
<1>1. /\ task[n].stage = "ask" /\ UNCHANGED <<serverVars, viewVars, listVars, pageHist>>
      /\ task' = [task EXCEPT ![n].stage = "answered",
                              ![n].answer = Part(task[n].kind, OnServer),
                              ![n].stored = @ \ Part(task[n].kind, OnServer).files]
  BY DEF AnswerGet, At, Answer
<1>2. PICK q, s, a : q = task[n] /\ s = OnServer /\ a = Part(q.kind, s)
  OBVIOUS
<1>3. /\ q \in Task /\ TaskInOrder(q) /\ q.stage = "ask" /\ s \in Lists /\ q.seen \in Lists
  <2>1. q \in Task /\ TaskInOrder(q) /\ q.stage = "ask"
    BY <1>0, <1>1, <1>2 DEF TasksInv, TaskInOrder
  <2>2. q.seen \in Lists
    BY <2>1 DEF Task
  <2> QED BY <1>0, <1>2, <2>1, <2>2, ListsAre
<1>4. PICK r : r = [q EXCEPT !.stage = "answered", !.answer = a, !.stored = @ \ a.files]
  OBVIOUS
<1>5. task' = [task EXCEPT ![n] = r]
  BY <1>0, <1>1, <1>2, <1>4 DEF PageTypeOK
<1>6. a \in Lists /\ Part(q.kind, a) = a /\ NotOlder(s, a)
  BY <1>2, <1>3, PartIs, PartNotOlder, NotOlderItself
<1>7. NotOlder(a, q.seen)
  <2>1. NotOlder(s, q.seen) /\ Part(q.kind, q.seen) = q.seen
    BY <1>2, <1>3 DEF TaskInOrder
  <2>2. NotOlder(a, Part(q.kind, q.seen))
    BY <1>2, <1>3, <2>1, PartNotOlder
  <2> QED BY <2>1, <2>2
<1>8. /\ r.kind = q.kind /\ r.stage = "answered" /\ r.mine = q.mine /\ r.left = q.left
      /\ r.stored = q.stored \ a.files /\ r.pid = q.pid /\ r.seen = q.seen /\ r.answer = a
  BY <1>3, <1>4 DEF Task
<1>9. r \in Task
  BY <1>3, <1>4, <1>6 DEF Task
<1>10. r.stored = {}
  <2>1. q.stored \subseteq disk /\ (q.stored # {} => q.kind = "upload")
    BY <1>3 DEF TaskInOrder
  <2>2. q.kind = "upload" => a.files = disk
    BY <1>2, <1>3, PartIs DEF OnServer, FilesUpdate
  <2> QED BY <1>8, <2>1, <2>2
<1>11. ASSUME NEW p \in q.pid PROVE procs[p] # "none" /\ a.instances[p] # "none"
  <2>1. p \in Pids /\ procs[p] # "none" /\ q.kind = "run"
    BY <1>3 DEF TaskInOrder, Task
  <2>2. a.instances[p] = s.instances[p]
    BY <1>2, <1>3, <2>1, PartIs DEF InstancesUpdate
  <2>3. s.instances[p] = procs[p]
    BY <1>2 DEF OnServer
  <2> QED BY <2>1, <2>2, <2>3
<1>12. TaskInOrder(r)
  <2>1. q.stage # "free" /\ (q.stage = "free" <=> q.kind = "none") /\ q.left = {}
        /\ (q.mine => q.kind = "upload") /\ (q.pid # {} => q.kind = "run")
        /\ Part(q.kind, q.seen) = q.seen
    BY <1>3 DEF TaskInOrder
  <2>2. NotOlder(OnServer, a)
    BY <1>2, <1>6
  <2> QED BY <1>6, <1>7, <1>8, <1>9, <1>10, <1>11, <2>1, <2>2 DEF TaskInOrder
<1>13. ServerGoesOn
  BY <1>0, <1>1, ServerStays
<1>14. TaskInOrder(r)'
  BY <1>0, <1>12, <1>13, TaskStays
<1>15. /\ \A m \in Slots : TaskInOrder(task[m])'
       /\ \A m \in Slots : task'[m] = IF m = n THEN r ELSE task[m]
       /\ task' \in [Slots -> Task]
  BY <1>0, <1>5, <1>13, <1>14, OneTask
<1>16. PageTypeOK' /\ TasksInv'
  BY <1>0, <1>1, <1>13, <1>15, StepKeeps DEF PageTypeOK, viewVars, pageHist
<1>17. FlagInv'
  BY <1>0, <1>1, <1>2, <1>8, <1>15, FlagStays DEF viewVars, pageHist
<1> QED BY <1>16, <1>17 DEF PageIInv

(* A task ends.                                                            *)
LEMMA FreedIs ==
  ASSUME PageTypeOK, TasksInv, ServerGoesOn, NEW n \in Slots,
         task' = [task EXCEPT ![n] = Free]
  PROVE  /\ \A m \in Slots : TaskInOrder(task[m])'
         /\ \A m \in Slots : task'[m] = IF m = n THEN Free ELSE task[m]
         /\ task' \in [Slots -> Task]
<1>1. PICK r : r = Free
  OBVIOUS
<1>2. TaskInOrder(r)
  BY <1>1, NewTasks DEF TasksInv
<1>3. TaskInOrder(r)'
  BY <1>2, TaskStays
<1>4. task' = [task EXCEPT ![n] = r]
  BY <1>1
<1>5. /\ \A m \in Slots : TaskInOrder(task[m])'
      /\ \A m \in Slots : task'[m] = IF m = n THEN r ELSE task[m]
      /\ task' \in [Slots -> Task]
  BY <1>3, <1>4, OneTask
<1> QED BY <1>1, <1>5

(* An upload that had begun and fails is lost instead.                     *)
LEMMA FlagAfterLoss ==
  ASSUME FlagInv, UNCHANGED <<mounted, uploading, crossed>>,
         NEW n \in Slots, task[n].stage # "drop", lost' = (lost \/ task[n].mine),
         ~task'[n].mine,
         \A m \in Slots : m # n => task'[m] = task[m]
  PROVE  FlagInv'
<1>1. task[n].mine <=> Begun(n)
  BY DEF Begun
<1>2. \A m \in Slots : task'[m].mine => task[m].mine /\ m # n
  OBVIOUS
<1>3. \A m \in Slots : task'[m].mine => (task'[m].stage = "drop" <=> task[m].stage = "drop")
  OBVIOUS
<1>4. \A m \in Slots : m # n => (Begun(m)' <=> Begun(m))
  BY DEF Begun
<1>5. \A m \in Slots : Begun(m)' => m # n
  BY DEF Begun
<1>6. \A m \in Slots : task'[m].mine => mounted'
  BY <1>2 DEF FlagInv
<1>7. lost' \/ uploading' => mounted'
  BY DEF FlagInv
<1>8. uploading' => lost' \/ \E m \in Slots : Begun(m)'
  BY <1>1, <1>4 DEF FlagInv
<1>9. ASSUME ~crossed'
      PROVE  /\ \A m, k \in Slots : task'[m].mine /\ task'[k].mine => m = k
             /\ \A m \in Slots : task'[m].mine => ~lost'
             /\ \A m \in Slots : task'[m].mine /\ task'[m].stage = "drop" => ~uploading'
             /\ lost' \/ (\E m \in Slots : Begun(m)') => uploading'
  BY <1>1, <1>2, <1>3, <1>4, <1>5, <1>9 DEF FlagInv
<1> QED BY <1>6, <1>7, <1>8, <1>9 DEF FlagInv

LEMMA AbandonKeeps ==
  ASSUME PageIInv, NEW n \in Slots, Abandon(n), ServerGoesOn, task[n].stage # "drop",
         UNCHANGED <<viewVars, listVars, crossed>>
  PROVE  PageIInv'
<1>0. PageTypeOK /\ TasksInv /\ FlagInv
  BY DEF PageIInv
<1>1. task' = [task EXCEPT ![n] = Free] /\ lost' = (lost \/ task[n].mine)
  BY DEF Abandon
<1>2. /\ \A m \in Slots : TaskInOrder(task[m])'
      /\ \A m \in Slots : task'[m] = IF m = n THEN Free ELSE task[m]
      /\ task' \in [Slots -> Task]
  BY <1>0, <1>1, FreedIs
<1>3. task[n].mine \in BOOLEAN /\ lost \in BOOLEAN /\ lost' \in BOOLEAN
  BY <1>0, <1>1 DEF PageTypeOK, Task
<1>4. PageTypeOK' /\ TasksInv'
  BY <1>0, <1>2, <1>3, StepKeeps DEF PageTypeOK, viewVars
<1>5. ~task'[n].mine
  BY <1>0, <1>2, NotMine
<1>6. UNCHANGED <<mounted, uploading, crossed>>
  BY DEF viewVars
<1>7. FlagInv'
  BY <1>0, <1>1, <1>2, <1>5, <1>6, FlagAfterLoss
<1> QED BY <1>4, <1>7 DEF PageIInv

LEMMA KeepsGetFails ==
  ASSUME PageIInv, NEW n \in Slots, GetFails(n)
  PROVE  PageIInv'
<1>1. ServerGoesOn
  BY ServerStays DEF PageIInv, GetFails
<1> QED BY <1>1, AbandonKeeps DEF GetFails, At

(* The request may have been handled before it failed.                     *)
LEMMA KeepsRunFails ==
  ASSUME PageIInv, NEW n \in Slots, RunFails(n)
  PROVE  PageIInv'
<1>0. PageTypeOK /\ disk' = disk
  BY DEF PageIInv, RunFails
<1>1. CASE procs' = procs
  <2>1. ServerGoesOn
    BY <1>0, <1>1, ServerStays DEF serverVars
  <2> QED BY <2>1, AbandonKeeps DEF RunFails, At
<1>2. CASE \E p \in Pids : procs[p] = "none" /\ Insert(p)
  <2>1. PICK p \in Pids : procs[p] = "none" /\ Insert(p)
    BY <1>2
  <2>2. ServerGoesOn
    BY <1>0, <2>1, InsertGoesOn
  <2> QED BY <2>2, AbandonKeeps DEF RunFails, At
<1> QED BY <1>1, <1>2 DEF RunFails

LEMMA KeepsUploadFails ==
  ASSUME PageIInv, NEW n \in Slots, NEW f \in Files, UploadFails(n, f)
  PROVE  PageIInv'
<1>0. PageTypeOK /\ TasksInv /\ FlagInv
  BY DEF PageIInv
<1>1. /\ task[n].stage \in {"post", "rejected"} /\ task[n].kind = "upload"
      /\ f \in task[n].left
      /\ UNCHANGED <<procs, viewVars, listVars, crossed>>
  BY DEF UploadFails, At
<1>2. PICK fs \in SUBSET {f} : disk' = disk \cup fs
  BY DEF UploadFails
<1>3. ServerGoesOn
  BY <1>0, <1>1, <1>2, LaterIs DEF PageTypeOK, ServerGoesOn
<1>4. CASE task[n].left = {f}
  <2>1. Abandon(n)
    BY <1>4 DEF UploadFails
  <2> QED BY <1>1, <1>3, <2>1, AbandonKeeps
<1>5. CASE task[n].left # {f}
  <2>1. /\ task' = [task EXCEPT ![n].left = @ \ {f}, ![n].stage = "rejected",
                                ![n].mine = FALSE, ![n].stored = {}]
        /\ lost' = (lost \/ task[n].mine)
    BY <1>5 DEF UploadFails
  <2>2. PICK q : q = task[n]
    OBVIOUS
  <2>3. q \in Task /\ TaskInOrder(q) /\ q.kind = "upload" /\ q.left \ {f} # {}
    BY <1>0, <1>1, <1>5, <2>2 DEF TasksInv, TaskInOrder
  <2>4. PICK r : r = [q EXCEPT !.left = q.left \ {f}, !.stage = "rejected",
                               !.mine = FALSE, !.stored = {}]
    OBVIOUS
  <2>5. task' = [task EXCEPT ![n] = r]
    BY <1>0, <2>1, <2>2, <2>4 DEF PageTypeOK
  <2>6. /\ r.kind = q.kind /\ r.stage = "rejected" /\ r.mine = FALSE
        /\ r.left = q.left \ {f} /\ r.stored = {}
        /\ r.pid = q.pid /\ r.seen = q.seen /\ r.answer = q.answer
    BY <2>3, <2>4 DEF Task
  <2>7. r \in Task
    BY <2>3, <2>4 DEF Task
  <2>8. q.pid = {}
    BY <2>3 DEF TaskInOrder
  <2>9. TaskInOrder(r)
    BY <2>3, <2>6, <2>7, <2>8 DEF TaskInOrder
  <2>10. TaskInOrder(r)'
    BY <1>0, <1>3, <2>9, TaskStays
  <2>11. /\ \A m \in Slots : TaskInOrder(task[m])'
         /\ \A m \in Slots : task'[m] = IF m = n THEN r ELSE task[m]
         /\ task' \in [Slots -> Task]
    BY <1>0, <1>3, <2>5, <2>10, OneTask
  <2>12. task[n].mine \in BOOLEAN /\ lost' \in BOOLEAN
    BY <1>0, <2>1, <2>2, <2>3 DEF PageTypeOK, Task
  <2>13. PageTypeOK' /\ TasksInv'
    BY <1>0, <1>1, <1>3, <2>11, <2>12, StepKeeps DEF PageTypeOK, viewVars
  <2>14. task[n].stage # "drop" /\ ~task'[n].mine /\ UNCHANGED <<mounted, uploading, crossed>>
    BY <1>1, <2>6, <2>11 DEF viewVars
  <2>15. FlagInv'
    BY <1>0, <2>1, <2>11, <2>14, FlagAfterLoss
  <2> QED BY <2>13, <2>15 DEF PageIInv
<1> QED BY <1>4, <1>5

LEMMA KeepsAsk ==
  ASSUME PageIInv, NEW n \in Slots, Ask(n)
  PROVE  PageIInv'
<1>0. PageTypeOK /\ TasksInv /\ FlagInv
  BY DEF PageIInv
<1>1. /\ task[n].stage = "posted" /\ UNCHANGED <<serverVars, viewVars, listVars, pageHist>>
      /\ task' = [task EXCEPT ![n].stage = "ask",
                              ![n].seen = Part(task[n].kind, OnScreen)]
  BY DEF Ask, AllPosted, At
<1>2. PICK q, c, s : q = task[n] /\ c = OnScreen /\ s = Part(q.kind, c)
  OBVIOUS
<1>3. q \in Task /\ TaskInOrder(q) /\ q.stage = "posted" /\ c \in Lists
  BY <1>0, <1>1, <1>2, ListsAre DEF TasksInv, TaskInOrder
<1>4. PICK r : r = [q EXCEPT !.stage = "ask", !.seen = s]
  OBVIOUS
<1>5. task' = [task EXCEPT ![n] = r]
  BY <1>0, <1>1, <1>2, <1>4 DEF PageTypeOK
<1>6. s \in Lists /\ Part(q.kind, s) = s
  BY <1>2, <1>3, PartIs
<1>7. NotOlder(OnServer, s)
  <2>1. OnServer \in Lists /\ NotOlder(OnServer, c)
    BY <1>0, <1>2, ListsAre DEF TasksInv
  <2> QED BY <1>2, <1>3, <2>1, PartNotOlder
<1>8. /\ r.kind = q.kind /\ r.stage = "ask" /\ r.mine = q.mine /\ r.left = q.left
      /\ r.stored = q.stored /\ r.pid = q.pid /\ r.seen = s /\ r.answer = q.answer
  BY <1>3, <1>4 DEF Task
<1>9. r \in Task
  BY <1>3, <1>4, <1>6 DEF Task
<1>10. TaskInOrder(r)
  <2>1. q.kind # "none" /\ q.left = {}
        /\ (q.mine => q.kind = "upload") /\ (q.pid # {} => q.kind = "run")
        /\ q.stored \subseteq disk /\ (q.stored # {} => q.kind = "upload")
        /\ \A p \in q.pid : procs[p] # "none"
    BY <1>3 DEF TaskInOrder
  <2> QED BY <1>6, <1>7, <1>8, <1>9, <2>1 DEF TaskInOrder
<1>11. ServerGoesOn
  BY <1>0, <1>1, ServerStays
<1>12. TaskInOrder(r)'
  BY <1>0, <1>10, <1>11, TaskStays
<1>13. /\ \A m \in Slots : TaskInOrder(task[m])'
       /\ \A m \in Slots : task'[m] = IF m = n THEN r ELSE task[m]
       /\ task' \in [Slots -> Task]
  BY <1>0, <1>5, <1>11, <1>12, OneTask
<1>14. PageTypeOK' /\ TasksInv'
  BY <1>0, <1>1, <1>11, <1>13, StepKeeps DEF PageTypeOK, viewVars, pageHist
<1>15. FlagInv'
  BY <1>0, <1>1, <1>2, <1>8, <1>13, FlagStays DEF viewVars, pageHist
<1> QED BY <1>14, <1>15 DEF PageIInv

(* What a task shows is part of an answer the server has not gone back on. *)
LEMMA DispatchShows ==
  ASSUME PageTypeOK, TasksInv, NEW n \in Slots, Dispatch(n)
  PROVE  /\ Part(task[n].kind, OnScreen') = task[n].answer
         /\ OnScreen' \in Lists /\ NotOlder(OnServer, OnScreen')
<1>1. /\ task[n].stage = "answered"
      /\ files' = IF FilesUpdate(task[n].kind) THEN task[n].answer.files ELSE files
      /\ instances' = IF InstancesUpdate(task[n].kind) THEN task[n].answer.instances
                                                       ELSE instances
  BY DEF Dispatch, At
<1>2. PICK q, k, a : q = task[n] /\ k = q.kind /\ a = q.answer
  OBVIOUS
<1>3. TaskInOrder(q) /\ a \in Lists
  BY <1>2 DEF TasksInv, TaskInOrder, Task
<1>4. NotOlder(OnServer, a) /\ Part(k, a) = a
  BY <1>1, <1>2, <1>3 DEF TaskInOrder
<1>5. OnScreen \in Lists /\ OnServer \in Lists /\ NotOlder(OnServer, OnScreen)
  BY ListsAre DEF TasksInv
<1>6. OnScreen' \in Lists
  BY <1>1, <1>2, <1>3, <1>5 DEF OnScreen, Lists
<1>7. Part(k, OnScreen') = a
  <2>1. Part(k, OnScreen') = Part(k, a)
    BY <1>1, <1>2 DEF OnScreen, Part
  <2> QED BY <1>4, <2>1
<1>8. NotOlder(OnServer, OnScreen')
  BY <1>1, <1>2, <1>4, <1>5 DEF OnScreen, NotOlder
<1> QED BY <1>2, <1>6, <1>7, <1>8

LEMMA KeepsDispatch ==
  ASSUME PageIInv, NEW n \in Slots, Dispatch(n)
  PROVE  PageIInv'
<1>0. PageTypeOK /\ TasksInv /\ FlagInv
  BY DEF PageIInv
<1>1. /\ uploading' = (uploading /\ ~task[n].mine) /\ task' = [task EXCEPT ![n] = Free]
      /\ UNCHANGED <<serverVars, mounted, canvasOpen, pageHist>>
  BY DEF Dispatch, SetUploadingFalse
<1>2. ServerGoesOn
  BY <1>0, <1>1, ServerStays
<1>3. /\ \A m \in Slots : TaskInOrder(task[m])'
      /\ \A m \in Slots : task'[m] = IF m = n THEN Free ELSE task[m]
      /\ task' \in [Slots -> Task]
  BY <1>0, <1>1, <1>2, FreedIs
<1>4. OnScreen' \in Lists /\ NotOlder(OnServer, OnScreen')
  BY <1>0, DispatchShows
<1>5. OnServer' = OnServer
  BY <1>1 DEF OnServer, serverVars
<1>6. TasksInv'
  BY <1>3, <1>4, <1>5 DEF TasksInv, NotOlder
<1>7. \A m \in Slots : /\ task'[m].stage = "free" <=> task'[m].kind = "none"
                       /\ task'[m].stage \in {"drop", "post", "rejected"}
                            <=> task'[m].left # {}
  BY <1>3 DEF TaskInOrder
<1>8. PageTypeOK'
  BY <1>0, <1>1, <1>2, <1>3, <1>4, <1>7 DEF PageTypeOK, ServerGoesOn, pageHist
<1>9. \A m \in Slots : task'[m].mine <=> task[m].mine /\ m # n
  BY <1>0, <1>3, NotMine
<1>10. task[n].mine => Begun(n)
  BY DEF Dispatch, At, Begun
<1>11. \A m \in Slots : m # n => (Begun(m)' <=> Begun(m)) /\ task'[m].stage = task[m].stage
  BY <1>3 DEF Begun
<1>12. \A m \in Slots : Begun(m)' => m # n
  BY <1>9 DEF Begun
<1>13. FlagInv'
  <2>1. \A m \in Slots : task'[m].mine => mounted'
    BY <1>0, <1>1, <1>9 DEF FlagInv
  <2>2. lost' \/ uploading' => mounted'
    BY <1>0, <1>1 DEF FlagInv, pageHist
  <2>3. uploading' => lost' \/ \E m \in Slots : Begun(m)'
    BY <1>0, <1>1, <1>11 DEF FlagInv, Begun, pageHist
  <2>4. ASSUME ~crossed'
        PROVE  /\ \A m, k \in Slots : task'[m].mine /\ task'[k].mine => m = k
               /\ \A m \in Slots : task'[m].mine => ~lost'
               /\ \A m \in Slots : task'[m].mine /\ task'[m].stage = "drop" => ~uploading'
               /\ lost' \/ (\E m \in Slots : Begun(m)') => uploading'
    <3>1. ~crossed /\ lost' = lost
      BY <1>1, <2>4 DEF pageHist
    <3>2. task[n].mine => ~lost /\ \A m \in Slots : ~Begun(m)'
      BY <1>0, <1>11, <1>12, <3>1 DEF FlagInv, Begun
    <3> QED BY <1>0, <1>1, <1>9, <1>11, <1>12, <3>1, <3>2 DEF FlagInv
  <2> QED BY <2>1, <2>2, <2>3, <2>4 DEF FlagInv
<1> QED BY <1>6, <1>8, <1>13 DEF PageIInv

LEMMA InitPage == PageInit => PageIInv
<1> SUFFICES ASSUME PageInit PROVE PageIInv
  OBVIOUS
<1>1. PICK n \in Slots, k \in Slots :
        n # k /\ task = [[s \in Slots |-> Free] EXCEPT ![n] = NewTask("files", "ask", {}),
                                                       ![k] = NewTask("instances", "ask", {})]
  BY DEF PageInit
<1>2. /\ disk \subseteq Files /\ procs = Nothing.instances /\ mounted = TRUE
      /\ canvasOpen = FALSE /\ uploading = FALSE /\ files = {}
      /\ instances = Nothing.instances /\ lost = FALSE /\ crossed = FALSE
  BY DEF PageInit
<1>3. OnScreen = Nothing /\ OnScreen \in Lists /\ procs \in [Pids -> Status]
  BY <1>2 DEF OnScreen, Nothing, Lists, Status
<1>4. NotOlder(OnServer, OnScreen)
  <2>1. OnServer.files = disk /\ OnServer.instances = procs
    BY DEF OnServer
  <2>2. \A p \in Pids : procs[p] = "none" /\ instances[p] = "none"
    BY <1>2 DEF Nothing
  <2>3. "none" \in Later["none"]
    BY LaterIs DEF Status
  <2>4. OnScreen.files = {} /\ OnScreen.instances = instances
    BY <1>2 DEF OnScreen
  <2> QED BY <2>1, <2>2, <2>3, <2>4 DEF NotOlder
<1>5. PICK a, b : a = NewTask("files", "ask", {}) /\ b = NewTask("instances", "ask", {})
  OBVIOUS
<1>6. TaskInOrder(a) /\ TaskInOrder(b) /\ TaskInOrder(Free)
  <2>1. OnServer \in Lists
    BY <1>2, <1>3 DEF OnServer, Lists
  <2>2. Nothing \in Lists
    BY <1>3
  <2>3. TaskInOrder(Free)
    BY <2>2 DEF TaskInOrder, Free, NewTask, Task, Kinds
  <2>4. ASSUME NEW knd \in {"files", "instances"} PROVE TaskInOrder(NewTask(knd, "ask", {}))
    <3>1. PICK s : s = Part(knd, OnScreen)
      OBVIOUS
    <3>2. s \in Lists /\ Part(knd, s) = s /\ NotOlder(OnServer, s)
      BY <1>3, <1>4, <2>1, <3>1, PartIs, PartNotOlder
    <3>3. PICK r : r = NewTask(knd, "ask", {})
      OBVIOUS
    <3>4. r = [kind |-> knd, stage |-> "ask", mine |-> FALSE, left |-> {}, stored |-> {},
               pid |-> {}, seen |-> s, answer |-> Nothing]
      BY <3>1, <3>3 DEF NewTask
    <3>5. r \in Task
      BY <2>2, <3>2, <3>4 DEF Task, Kinds
    <3>6. TaskInOrder(r)
      BY <3>2, <3>4, <3>5 DEF TaskInOrder
    <3> QED BY <3>3, <3>6
  <2> QED BY <1>5, <2>3, <2>4
<1>7. \A m \in Slots : task[m] = IF m = k THEN b ELSE IF m = n THEN a ELSE Free
  BY <1>1, <1>5
<1>8. /\ \A m \in Slots : TaskInOrder(task[m])
      /\ \A m \in Slots : task[m].stage = "free" <=> task[m].kind = "none"
      /\ \A m \in Slots : task[m].stage \in {"drop", "post", "rejected"}
                           <=> task[m].left # {}
  <2>1. \A m \in Slots : TaskInOrder(task[m])
    BY <1>6, <1>7
  <2> QED BY <2>1 DEF TaskInOrder
<1>9. task \in [Slots -> Task]
  BY <1>1, <1>5, <1>6 DEF TaskInOrder
<1>10. PageTypeOK
  BY <1>2, <1>3, <1>8, <1>9 DEF PageTypeOK
<1>11. \A m \in Slots : ~task[m].mine
  <2>1. TasksInv
    BY <1>4, <1>8 DEF TasksInv
  <2>2. ~a.mine /\ ~b.mine /\ ~Free.mine
    BY <1>5, <1>10, <2>1, NotMine
  <2> QED BY <1>7, <2>2
<1>12. FlagInv
  BY <1>2, <1>11 DEF FlagInv, Begun
<1> QED BY <1>4, <1>8, <1>10, <1>12 DEF PageIInv, TasksInv

LEMMA StepPage == PageIInv /\ [PageNext]_pageVars => PageIInv'
<1> SUFFICES ASSUME PageIInv, [PageNext]_pageVars PROVE PageIInv'
  OBVIOUS
<1>1. CASE User
  BY <1>1, KeepsLeave, KeepsEnter, KeepsToggle, KeepsDrop, KeepsFileSelect DEF User
<1>2. CASE \E p \in Pids : Exit(p)
  BY <1>2, KeepsExit
<1>3. CASE \E n \in Slots : Proceed(n)
  BY <1>3, KeepsOnUpload, KeepsPost, KeepsUploadFails, KeepsRun, KeepsRunFails, KeepsAnswer,
     KeepsGetFails, KeepsAsk, KeepsDispatch DEF Proceed
<1>4. CASE UNCHANGED pageVars
  <2>1. UNCHANGED <<serverVars, viewVars, listVars, task, lost, crossed>>
    BY <1>4 DEF pageVars, pageHist
  <2>2. PageTypeOK /\ TasksInv /\ FlagInv
    BY DEF PageIInv
  <2>3. ServerGoesOn
    BY <2>1, <2>2, ServerStays
  <2>4. ASSUME NEW m \in Slots PROVE TaskInOrder(task[m])'
    <3>1. PICK q : q = task[m]
      OBVIOUS
    <3>2. TaskInOrder(q)'
      BY <2>2, <2>3, <3>1, TaskStays DEF TasksInv
    <3> QED BY <2>1, <3>1, <3>2
  <2>5. PageTypeOK' /\ TasksInv'
    BY <2>1, <2>2, <2>3, <2>4, StepKeeps DEF PageTypeOK, viewVars
  <2>6. FlagInv'
    BY <2>1, <2>2, FlagStays DEF viewVars
  <2> QED BY <2>5, <2>6 DEF PageIInv
<1> QED BY <1>1, <1>2, <1>3, <1>4 DEF PageNext

LEMMA PageInvariance == PageSpec => []PageIInv
BY InitPage, StepPage, PTL DEF PageSpec

-----------------------------------------------------------------------------
LEMMA FlagTells == PageIInv => UploadFlag
<1> SUFFICES ASSUME PageIInv PROVE UploadFlag
  OBVIOUS
<1>1. PageTypeOK /\ FlagInv
  BY DEF PageIInv
<1>2. Unfinished = {n \in Slots : Begun(n)}
  BY DEF Unfinished, Begun
<1>3. uploading => Unfinished # {} \/ lost
  BY <1>1, <1>2 DEF FlagInv
<1>4. ASSUME ~crossed
      PROVE  /\ Cardinality(Unfinished) + (IF lost THEN 1 ELSE 0) <= 1
             /\ Unfinished # {} \/ lost => uploading
  <2>1. Unfinished # {} \/ lost => uploading
    BY <1>1, <1>2, <1>4 DEF FlagInv
  <2>2. CASE Unfinished = {}
    <3>1. Cardinality(Unfinished) = 0
      BY <2>2, FS_EmptySet
    <3>2. (IF lost THEN 1 ELSE 0) \in {0, 1}
      OBVIOUS
    <3> QED BY <2>1, <3>1, <3>2
  <2>3. CASE Unfinished # {}
    <3>1. PICK n : n \in Unfinished
      BY <2>3
    <3>2. Unfinished = {n} /\ ~lost
      BY <1>1, <1>4, <3>1 DEF FlagInv, Unfinished
    <3>3. Cardinality(Unfinished) = 1
      BY <3>2, FS_Singleton
    <3> QED BY <2>1, <3>2, <3>3
  <2> QED BY <2>2, <2>3
<1> QED BY <1>3, <1>4 DEF UploadFlag

(* Only the last step of a task shows its list.                            *)
LEMMA ShownByDispatch ==
  ASSUME PageTypeOK, TasksInv, [PageNext]_pageVars, NEW n \in Slots, ListShown(n)
  PROVE  Dispatch(n)
<1>1. task[n].stage = "answered" /\ task'[n].stage = "free"
  BY DEF ListShown, At
<1>2. task[n] \in Task /\ task \in [Slots -> Task]
  BY DEF PageTypeOK
<1>3. ASSUME NEW t0, Start(t0) PROVE task'[n] = task[n]
  BY <1>1, <1>2, <1>3 DEF Start, FreeSlots
<1>4. CASE User
  <2>1. CASE LeavePage
    <3>1. task'[n].stage = task[n].stage
      BY <1>2, <2>1 DEF LeavePage, Task
    <3> QED BY <1>1, <3>1
  <2>2. CASE EnterPage
    <3>1. task'[n] = task[n]
      BY <1>1, <1>2, <2>2 DEF EnterPage, StartBoth, FreeSlots
    <3> QED BY <1>1, <3>1
  <2> QED BY <1>1, <1>3, <1>4, <2>1, <2>2 DEF User, ToggleCanvas, DropFiles, OnFileSelect
<1>5. CASE \E p \in Pids : Exit(p)
  BY <1>1, <1>5 DEF Exit
<1>6. ASSUME NEW m \in Slots, Proceed(m), m # n PROVE FALSE
  <2>1. \A r : [task EXCEPT ![m] = r][n] = task[n]
    BY <1>2, <1>6
  <2>2. task'[n] = task[n]
    BY <1>2, <1>6, <2>1 DEF Proceed, OnUpload, Upload, Run, Posted, AnswerGet, GetFails, RunFails,
          UploadFails, Abandon, Ask, Dispatch
  <2> QED BY <1>1, <2>2
<1>7. ASSUME Proceed(n) PROVE Dispatch(n)
  BY <1>1, <1>7 DEF Proceed, OnUpload, Upload, Run, AnswerGet, GetFails, RunFails, UploadFails,
       Ask, AllPosted, At
<1>8. CASE UNCHANGED pageVars
  BY <1>1, <1>8 DEF pageVars
<1> QED BY <1>4, <1>5, <1>6, <1>7, <1>8 DEF PageNext

(* While the flag of the page is up, the visit has an upload that has not  *)
(* succeeded; and while no two drops of a visit were read at one time, it  *)
(* has at most one, and the flag is up whenever it has one (Monitor.js:    *)
(* onUpload and its useState flag, FileList.js: onDropAccepted), for any   *)
(* number of tasks, programs and visits.                                   *)
THEOREM PageInvHolds == PageSpec => []PageInv
<1>1. PageIInv => PageInv
  BY FlagTells DEF PageInv, PageIInv
<1> QED BY <1>1, PageInvariance, PTL

(* However the requests of the page overtake each other, a list is never   *)
(* replaced by one older than what was on screen when it was asked for     *)
(* (Monitor.js:71-86).                                                     *)
THEOREM RefreshNotOlderHolds == PageSpec => RefreshNotOlder
<1>1. ASSUME PageIInv, [PageNext]_pageVars, NEW n \in Slots, ListShown(n)
      PROVE  NotOlder(Part(task[n].kind, OnScreen'), task[n].seen)
  <2>1. PageTypeOK /\ TasksInv
    BY <1>1 DEF PageIInv
  <2>2. Dispatch(n)
    BY <1>1, <2>1, ShownByDispatch
  <2>3. Part(task[n].kind, OnScreen') = task[n].answer
    BY <2>1, <2>2, DispatchShows
  <2>4. NotOlder(task[n].answer, task[n].seen)
    BY <1>1, <2>1 DEF TasksInv, TaskInOrder, ListShown, At
  <2> QED BY <2>3, <2>4
<1>2. PageIInv /\ [PageNext]_pageVars =>
        [\A n \in Slots :
           ListShown(n) => NotOlder(Part(task[n].kind, OnScreen'), task[n].seen)]_pageVars
  BY <1>1
<1> QED BY <1>2, PageInvariance, PTL DEF PageSpec, RefreshNotOlder

(* When an upload or a launch ends with its list, all its POSTs have been  *)
(* answered, and what the server stored for them, or launched, is on       *)
(* screen, even if other answers came in between (Monitor.js:100-114).     *)
THEOREM ResultShownHolds == PageSpec => ResultShown
<1>1. ASSUME PageIInv, [PageNext]_pageVars, NEW n \in Slots, ListShown(n)
      PROVE  /\ task[n].kind = "upload" =>
                  task[n].left = {} /\ task[n].stored \subseteq files'
             /\ \A p \in task[n].pid : instances'[p] # "none"
  <2>1. PageTypeOK /\ TasksInv
    BY <1>1 DEF PageIInv
  <2>2. Dispatch(n)
    BY <1>1, <2>1, ShownByDispatch
  <2>3. /\ files' = IF FilesUpdate(task[n].kind) THEN task[n].answer.files ELSE files
        /\ instances' = IF InstancesUpdate(task[n].kind) THEN task[n].answer.instances
                                                         ELSE instances
    BY <2>2 DEF Dispatch
  <2>4. TaskInOrder(task[n]) /\ task[n].stage = "answered"
    BY <1>1, <2>1 DEF TasksInv, ListShown, At
  <2>5. task[n].left = {} /\ task[n].stored = {}
    BY <2>4 DEF TaskInOrder
  <2>6. \A p \in task[n].pid : instances'[p] # "none"
    BY <2>3, <2>4 DEF TaskInOrder, InstancesUpdate
  <2> QED BY <2>5, <2>6
<1>2. PageIInv /\ [PageNext]_pageVars =>
        [\A n \in Slots :
           ListShown(n) => /\ task[n].kind = "upload" =>
                                task[n].left = {} /\ task[n].stored \subseteq files'
                           /\ \A p \in task[n].pid : instances'[p] # "none"]_pageVars
  BY <1>1
<1> QED BY <1>2, PageInvariance, PTL DEF PageSpec, ResultShown
=============================================================================
