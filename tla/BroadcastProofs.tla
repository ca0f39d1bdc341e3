-------------------------- MODULE BroadcastProofs --------------------------
(* Proofs about Broadcast, for any number of connections and messages.     *)
EXTENDS Broadcast, FiniteSetTheorems, SequenceTheorems, TLAPS

-----------------------------------------------------------------------------
(* Lemmas about the queue.                                                 *)

LEMMA ActionTypes ==
  /\ \A c \in Connections : Subscribe(c) \in Action /\ Unsubscribe(c) \in Action
  /\ \A n \in 1 .. MaxMessages : MessageOf(n) \in Action
  /\ \A a \in Action : a.type = "MESSAGE" => a.entry \in 1 .. MaxMessages
  /\ \A a \in Action : a.type # "MESSAGE" => a.hdl \in Connections
BY DEF Action, Subscribe, Unsubscribe, MessageOf

LEMMA PopType ==
  ASSUME TypeOK, NEW type \in {"SUBSCRIBE", "UNSUBSCRIBE", "MESSAGE"}, Pop(type)
  PROVE  /\ Head(m_actions) \in Action /\ Head(m_actions).type = type
         /\ m_actions' \in Seq(Action)
         /\ UNCHANGED <<filerVars, netVars, proc, unsent, feed, since, crashed>>
<1>1. m_actions \in Seq(Action) /\ m_actions # <<>>
  BY DEF TypeOK, Pop
<1>2. Head(m_actions) \in Action /\ Tail(m_actions) \in Seq(Action)
  BY <1>1
<1> QED BY <1>2 DEF Pop

-----------------------------------------------------------------------------
(* The drain loop keeps the types.                                         *)

LEMMA DrainType ==
  ASSUME TypeOK, DrainSubscribe \/ DrainUnsubscribe \/ DrainMessage
  PROVE  TypeOK'
<1>1. CASE DrainSubscribe
  <2>1. Head(m_actions).hdl \in Connections
    BY <1>1, PopType, ActionTypes DEF DrainSubscribe
  <2>2. m_connections' \subseteq Connections /\ sent' = sent
    BY <1>1, <2>1 DEF DrainSubscribe, TypeOK
  <2> QED BY <1>1, <2>2, PopType DEF DrainSubscribe, TypeOK, filerVars, netVars
<1>2. CASE DrainUnsubscribe
  <2>1. m_connections' \subseteq Connections /\ sent' = sent
    BY <1>2 DEF DrainUnsubscribe, TypeOK
  <2> QED BY <1>2, <2>1, PopType DEF DrainUnsubscribe, TypeOK, filerVars, netVars
<1>3. CASE DrainMessage
  <2>1. Head(m_actions).entry \in 1 .. MaxMessages
    BY <1>3, PopType, ActionTypes DEF DrainMessage
  <2>2. sent' \in Seq(1 .. MaxMessages) /\ m_connections' = m_connections
    BY <1>3, <2>1 DEF DrainMessage, TypeOK
  <2> QED BY <1>3, <2>2, PopType DEF DrainMessage, TypeOK, filerVars, netVars
<1> QED BY <1>1, <1>2, <1>3

(* So do the steps that push an action; the pusher of a message knows that *)
(* there is one (PushInv), that of a connection's action which (HandleInv).*)
PushInv   == ipc = "push" => messages \in 1 .. MaxMessages
HandleInv == asio \in {"on_open", "on_close"} => handle \in Connections

IInv == TypeOK /\ PushInv /\ HandleInv /\ NoLostWakeup

LEMMA PushType ==
  ASSUME IInv, PushMessageEntry \/ OnOpen \/ OnClose
  PROVE  m_actions' \in Seq(Action)
<1> USE DEF IInv
<1>1. CASE PushMessageEntry
  BY <1>1, ActionTypes DEF PushMessageEntry, Push, PushInv, TypeOK
<1>2. CASE OnOpen
  BY <1>2, ActionTypes DEF OnOpen, Push, HandleInv, TypeOK
<1>3. CASE OnClose
  BY <1>3, ActionTypes DEF OnClose, Push, HandleInv, TypeOK
<1> QED BY <1>1, <1>2, <1>3

LEMMA NextType == IInv /\ [Next]_vars => TypeOK'
<1> SUFFICES ASSUME IInv, [Next]_vars PROVE TypeOK'
  OBVIOUS
<1>1. TypeOK /\ PushInv /\ HandleInv
  BY DEF IInv
<1> USE DEF filerVars, netVars, procVars
<1>2. CASE PushMessage
  BY <1>1, <1>2, MaxMessagesAssumption DEF PushMessage, TypeOK
<1>3. CASE PushMessageEntry
  BY <1>1, <1>3, PushType DEF PushMessageEntry, TypeOK
<1>4. CASE NotifyEntry
  BY <1>1, <1>4 DEF NotifyEntry, Notify, TypeOK
<1>5. CASE Request \/ Answer
  BY <1>1, <1>5 DEF Request, Answer, TypeOK
<1>6. CASE Listen \/ ListenFails
  BY <1>1, <1>6 DEF Listen, ListenFails, TypeOK
<1>7. CASE OnOpen
  <2>1. Published \in 0 .. MaxMessages
    BY <1>1, MaxMessagesAssumption DEF Published, PushInv, TypeOK
  <2> QED BY <1>1, <1>7, <2>1, PushType DEF OnOpen, TypeOK
<1>8. CASE OnClose
  BY <1>1, <1>8, PushType DEF OnClose, TypeOK
<1>9. CASE NotifyAction
  BY <1>1, <1>9 DEF NotifyAction, Notify, TypeOK
<1>10. ASSUME NEW c \in Connections,
              Accept(c) \/ StartClosing(c) \/ Terminate(c) \/ HandleTerminate(c)
       PROVE  TypeOK'
  BY <1>1, <1>10 DEF Accept, StartClosing, Terminate, HandleTerminate, TypeOK
<1>11. CASE LockOrWait \/ SpuriousWakeup
  BY <1>1, <1>11 DEF LockOrWait, SpuriousWakeup, TypeOK
<1>12. CASE DrainSubscribe \/ DrainUnsubscribe \/ DrainMessage
  BY <1>1, <1>12, DrainType
<1>13. CASE StartSending
  BY <1>1, <1>13 DEF StartSending, TypeOK
<1>14. CASE Unlock
  BY <1>1, <1>14 DEF Unlock, TypeOK
<1>15. ASSUME NEW c \in Connections, Send(c) PROVE TypeOK'
  <2>1. feed[c] \o sent \in Seq(1 .. MaxMessages)
    BY <1>1 DEF TypeOK
  <2> QED BY <1>1, <1>15, <2>1 DEF Send, TypeOK
<1>16. ASSUME NEW c \in Connections, SendThrows(c) PROVE TypeOK'
  BY <1>1, <1>16 DEF SendThrows, TypeOK
<1>17. CASE UNCHANGED vars
  BY <1>1, <1>17 DEF TypeOK, vars
<1> QED
  BY <1>2, <1>3, <1>4, <1>5, <1>6, <1>7, <1>8, <1>9, <1>10, <1>11, <1>12,
     <1>13, <1>14, <1>15, <1>16, <1>17
  DEF Next, Filer, Handlers, Processor

(* A push is made by a thread that goes on to notify, the processing       *)
(* thread goes to sleep only on an empty queue, and a notification wakes   *)
(* it; nothing else leaves it asleep with more in the queue than before.   *)
LEMMA NextWakeup == IInv /\ [Next]_vars => PushInv' /\ HandleInv' /\ NoLostWakeup'
<1> SUFFICES ASSUME IInv, [Next]_vars PROVE PushInv' /\ HandleInv' /\ NoLostWakeup'
  OBVIOUS
<1>1. TypeOK /\ PushInv /\ HandleInv /\ NoLostWakeup
  BY DEF IInv
<1> USE DEF filerVars, netVars, procVars, PushInv, HandleInv, NoLostWakeup
<1>2. CASE PushMessage
  BY <1>1, <1>2, MaxMessagesAssumption DEF PushMessage, TypeOK
<1>3. CASE PushMessageEntry
  BY <1>1, <1>3 DEF PushMessageEntry
<1>4. CASE NotifyEntry
  BY <1>1, <1>4 DEF NotifyEntry, Notify
<1>5. CASE Request \/ Answer
  BY <1>1, <1>5 DEF Request, Answer
<1>6. CASE Listen \/ ListenFails
  BY <1>1, <1>6 DEF Listen, ListenFails
<1>7. CASE OnOpen \/ OnClose
  BY <1>1, <1>7 DEF OnOpen, OnClose
<1>8. CASE NotifyAction
  BY <1>1, <1>8 DEF NotifyAction, Notify
<1>9. ASSUME NEW c \in Connections,
             Accept(c) \/ StartClosing(c) \/ Terminate(c) \/ HandleTerminate(c)
      PROVE  PushInv' /\ HandleInv' /\ NoLostWakeup'
  BY <1>1, <1>9 DEF Accept, StartClosing, Terminate, HandleTerminate
<1>10. CASE LockOrWait \/ SpuriousWakeup
  BY <1>1, <1>10 DEF LockOrWait, SpuriousWakeup
<1>11. CASE DrainSubscribe \/ DrainUnsubscribe \/ DrainMessage
  BY <1>1, <1>11 DEF DrainSubscribe, DrainUnsubscribe, DrainMessage, Pop
<1>12. CASE StartSending \/ Unlock
  BY <1>1, <1>12 DEF StartSending, Unlock
<1>13. ASSUME NEW c \in Connections, Send(c) \/ SendThrows(c)
       PROVE  PushInv' /\ HandleInv' /\ NoLostWakeup'
  BY <1>1, <1>13 DEF Send, SendThrows
<1>14. CASE UNCHANGED vars
  BY <1>1, <1>14 DEF vars
<1> QED
  BY <1>2, <1>3, <1>4, <1>5, <1>6, <1>7, <1>8, <1>9, <1>10, <1>11, <1>12,
     <1>13, <1>14
  DEF Next, Filer, Handlers, Processor

-----------------------------------------------------------------------------
LEMMA InitIInv == Init => IInv
<1> SUFFICES ASSUME Init PROVE IInv
  OBVIOUS
<1>1. <<>> \in Seq(Action) /\ <<>> \in Seq(1 .. MaxMessages)
  OBVIOUS
<1>2. m_actions \in Seq(Action) /\ sent \in Seq(1 .. MaxMessages)
  BY <1>1 DEF Init
<1>3. feed \in [Connections -> Seq(1 .. MaxMessages)]
  BY <1>1 DEF Init
<1>4. since \in [Connections -> 0 .. MaxMessages] /\ messages \in 0 .. MaxMessages
  BY MaxMessagesAssumption DEF Init
<1>5. con \in [Connections -> {"none", "open", "closing", "closed", "gone"}]
  BY DEF Init
<1>6. TypeOK
  BY <1>2, <1>3, <1>4, <1>5 DEF Init, TypeOK
<1> QED BY <1>6 DEF Init, IInv, PushInv, HandleInv, NoLostWakeup

THEOREM Invariant == Spec => []IInv
<1>1. IInv /\ [Next]_vars => IInv'
  BY NextType, NextWakeup DEF IInv
<1> QED BY <1>1, InitIInv, PTL DEF Spec

(* Every variable of the broadcast server keeps its type: the queue holds  *)
(* actions of known connections and of entries that exist.                 *)
THEOREM TypeCorrect == Spec => []TypeOK
<1>1. IInv => TypeOK
  BY DEF IInv
<1> QED BY <1>1, Invariant, PTL

(* The processing thread never sleeps on a queue that holds an action with *)
(* no notification to come, though both notifiers have released            *)
(* m_action_lock before they call notify_one (ywebsock.h:97, 117, 127).    *)
THEOREM NoLostWakeupHolds == Spec => []NoLostWakeup
<1>1. IInv => NoLostWakeup
  BY DEF IInv
<1> QED BY <1>1, Invariant, PTL

-----------------------------------------------------------------------------
(* The subscribers, and what they were sent, follow the queue.             *)

(* MESSAGEs among the first k actions of a queue.                          *)
Messages(q, k) == {j \in 1 .. k : q[j].type = "MESSAGE"}
Count(q, k)    == Cardinality(Messages(q, k))

(* The handler the asio thread is in belongs to the connection it is for.  *)
HandlerInv ==
  /\ asio = "on_open"  => con[handle] = "open"
  /\ asio = "on_close" => con[handle] = "gone"

(* A connection queues one SUBSCRIBE, then one UNSUBSCRIBE ...             *)
QueuedOnce ==
  \A i, j \in DOMAIN m_actions :
    /\ m_actions[i] = m_actions[j] /\ m_actions[i].type # "MESSAGE" => i = j
    /\ m_actions[i].type = "UNSUBSCRIBE" /\ m_actions[j] = Subscribe(m_actions[i].hdl) => j < i

(* ... and is a subscriber from when the one is popped until the other is. *)
Membership(c) ==
  /\ Queued(Subscribe(c)) => c \notin m_connections
  /\ ~Joined(c) => ~Queued(Subscribe(c)) /\ ~Queued(Unsubscribe(c)) /\ c \notin m_connections
  /\ Joined(c) /\ ~Left(c) => ~Queued(Unsubscribe(c)) /\ (c \in m_connections \/ Queued(Subscribe(c)))
  /\ Queued(Unsubscribe(c)) => c \in m_connections \/ Queued(Subscribe(c))
  /\ Left(c) /\ (c \in m_connections \/ Queued(Subscribe(c))) => Queued(Unsubscribe(c))

(* The queue holds the entries that follow on those drained, in order, and *)
(* each SUBSCRIBE at the place its connection joined.                      *)
QueueInv ==
  /\ Drained \in Nat
  /\ \A i \in DOMAIN m_actions :
       /\ m_actions[i].type = "MESSAGE" => m_actions[i].entry = Drained + Count(m_actions, i)
       /\ m_actions[i].type = "SUBSCRIBE" =>
            since[m_actions[i].hdl] = Drained + Count(m_actions, i)

(* What is being collected or sent are the last of those drained.          *)
BatchInv ==
  /\ sent # <<>> => ActionLocked
  /\ Len(sent) <= Drained
  /\ \A i \in DOMAIN sent : sent[i] = Drained - Len(sent) + i
  /\ proc = "send" => sent # <<>> /\ m_actions = <<>>
  /\ unsent \subseteq m_connections
  /\ proc # "send" => unsent = {}

(* A subscriber has all that was drained before this batch, and the batch  *)
(* once it was sent; a new one joined before the batch's end.              *)
Served(c) ==
  /\ ~Joined(c) \/ Queued(Subscribe(c)) => feed[c] = <<>>
  /\ c \in m_connections /\ feed[c] # <<>> =>
       feed[c][Len(feed[c])] =
         IF proc = "send" /\ c \notin unsent THEN Drained ELSE Drained - Len(sent)
  /\ c \in m_connections /\ feed[c] = <<>> =>
       /\ proc = "send" => c \in unsent
       /\ Drained - Len(sent) <= since[c] /\ since[c] <= Drained

SInv ==
  /\ IInv /\ HandlerInv /\ QueuedOnce /\ QueueInv /\ BatchInv
  /\ \A c \in Connections : Membership(c) /\ Served(c)

-----------------------------------------------------------------------------
(* Counting in the queue.                                                  *)

LEMMA ActionShape ==
  /\ \A a \in Action : a.type \in {"SUBSCRIBE", "UNSUBSCRIBE", "MESSAGE"}
  /\ \A a \in Action : a.type = "SUBSCRIBE" => a = Subscribe(a.hdl)
  /\ \A a \in Action : a.type = "UNSUBSCRIBE" => a = Unsubscribe(a.hdl)
  /\ \A c : /\ Subscribe(c).type = "SUBSCRIBE" /\ Subscribe(c).hdl = c
            /\ Unsubscribe(c).type = "UNSUBSCRIBE" /\ Unsubscribe(c).hdl = c
  /\ \A n : MessageOf(n).type = "MESSAGE" /\ MessageOf(n).entry = n
BY DEF Action, Subscribe, Unsubscribe, MessageOf

LEMMA CountType ==
  ASSUME NEW q, NEW k \in Nat
  PROVE  IsFiniteSet(Messages(q, k)) /\ Count(q, k) \in Nat
<1>1. IsFiniteSet(1 .. k)
  BY FS_Interval
<1>2. Messages(q, k) \in SUBSET (1 .. k)
  BY DEF Messages
<1>3. IsFiniteSet(Messages(q, k))
  BY <1>1, <1>2, FS_Subset
<1> QED BY <1>3, FS_CardinalityType DEF Count

LEMMA CountNone == ASSUME NEW q PROVE Count(q, 0) = 0
<1>1. Messages(q, 0) = {}
  BY DEF Messages
<1> QED BY <1>1, FS_EmptySet DEF Count

(* The first k actions of a queue that is longer by one ...                *)
LEMMA CountNext ==
  ASSUME NEW q, NEW k \in Nat
  PROVE  Count(q, k + 1) = IF q[k + 1].type = "MESSAGE" THEN Count(q, k) + 1
                                                       ELSE Count(q, k)
<1>1. CASE q[k + 1].type = "MESSAGE"
  <2>1. Messages(q, k + 1) = Messages(q, k) \cup {k + 1}
    BY <1>1 DEF Messages
  <2>2. k + 1 \notin Messages(q, k)
    BY DEF Messages
  <2> QED BY <1>1, <2>1, <2>2, CountType, FS_AddElement DEF Count
<1>2. CASE q[k + 1].type # "MESSAGE"
  <2>1. Messages(q, k + 1) = Messages(q, k)
    BY <1>2 DEF Messages
  <2> QED BY <1>2, <2>1 DEF Count
<1> QED BY <1>1, <1>2

LEMMA CountAppend ==
  ASSUME NEW q \in Seq(Action), NEW a \in Action
  PROVE  /\ \A k \in 0 .. Len(q) : Count(Append(q, a), k) = Count(q, k)
         /\ Count(Append(q, a), Len(q) + 1) =
              IF a.type = "MESSAGE" THEN Count(q, Len(q)) + 1 ELSE Count(q, Len(q))
<1>1. ASSUME NEW k \in 0 .. Len(q) PROVE Count(Append(q, a), k) = Count(q, k)
  <2>1. \A j \in 1 .. k : Append(q, a)[j] = q[j]
    BY AppendProperties
  <2>2. Messages(Append(q, a), k) = Messages(q, k)
    BY <2>1 DEF Messages
  <2> QED BY <2>2 DEF Count
<1>2. Append(q, a)[Len(q) + 1] = a /\ Len(q) \in Nat /\ Len(q) \in 0 .. Len(q)
  BY AppendProperties
<1>3. Count(Append(q, a), Len(q)) = Count(q, Len(q))
  BY <1>1, <1>2
<1> QED BY <1>1, <1>2, <1>3, CountNext

(* ... or that has lost its head.                                          *)
LEMMA CountTail ==
  ASSUME NEW q \in Seq(Action), q # <<>>, NEW k \in 0 .. Len(Tail(q))
  PROVE  Count(q, k + 1) = IF Head(q).type = "MESSAGE" THEN Count(Tail(q), k) + 1
                                                      ELSE Count(Tail(q), k)
<1> DEFINE later == {j \in 2 .. k + 1 : q[j].type = "MESSAGE"}
<1>1. /\ Len(Tail(q)) = Len(q) - 1 /\ Len(q) \in Nat /\ k \in Nat
      /\ \A j \in 1 .. Len(Tail(q)) : Tail(q)[j] = q[j + 1]
  BY HeadTailProperties, LenProperties
<1>2. Head(q) = q[1]
  OBVIOUS
<1>3. \A j \in 1 .. k : Tail(q)[j] = q[j + 1]
  BY <1>1
<1>4. ExistsBijection(Messages(Tail(q), k), later)
  <2> DEFINE f == [j \in Messages(Tail(q), k) |-> j + 1]
  <2>1. \A j \in Messages(Tail(q), k) : j \in 1 .. k /\ j + 1 \in later
    BY <1>1, <1>3 DEF Messages
  <2>2. \A i \in later : i - 1 \in Messages(Tail(q), k) /\ (i - 1) + 1 = i
    BY <1>1, <1>3 DEF Messages
  <2>3. f \in [Messages(Tail(q), k) -> later]
    BY <2>1
  <2>4. \A i, j \in Messages(Tail(q), k) : f[i] = f[j] => i = j
    BY <2>1
  <2>5. \A i \in later : \E j \in Messages(Tail(q), k) : f[j] = i
    BY <2>2
  <2>6. f \in Bijection(Messages(Tail(q), k), later)
    BY <2>3, <2>4, <2>5 DEF Bijection, Injection, Surjection, IsInjective
  <2> QED BY <2>6 DEF ExistsBijection
<1>5. IsFiniteSet(later) /\ Cardinality(later) = Count(Tail(q), k)
  BY <1>1, <1>4, CountType, FS_Bijection DEF Count
<1>6. CASE Head(q).type = "MESSAGE"
  <2>1. Messages(q, k + 1) = later \cup {1}
    BY <1>1, <1>2, <1>6 DEF Messages
  <2>2. 1 \notin later
    OBVIOUS
  <2> HIDE DEF later
  <2> QED BY <1>5, <1>6, <2>1, <2>2, FS_AddElement DEF Count
<1>7. CASE Head(q).type # "MESSAGE"
  <2>1. Messages(q, k + 1) = later
    BY <1>1, <1>2, <1>7 DEF Messages
  <2> HIDE DEF later
  <2> QED BY <1>5, <1>7, <2>1 DEF Count
<1> QED BY <1>6, <1>7

LEMMA DrainedIs ==
  ASSUME TypeOK
  PROVE  /\ Drained = Published - Count(m_actions, Len(m_actions))
         /\ Len(m_actions) \in Nat /\ DOMAIN m_actions = 1 .. Len(m_actions)
         /\ Count(m_actions, Len(m_actions)) \in Nat
<1>1. Len(m_actions) \in Nat /\ DOMAIN m_actions = 1 .. Len(m_actions)
  BY DEF TypeOK
<1> QED BY <1>1, CountType DEF Drained, Count, Messages

LEMMA PublishedType == IInv => Published \in 0 .. MaxMessages /\ Published \in Nat
BY MaxMessagesAssumption DEF IInv, Published, PushInv, TypeOK

-----------------------------------------------------------------------------
(* What a step does to the queue, the subscribers and what they were sent. *)

SameWorld ==
  /\ UNCHANGED <<Published, since>>
  /\ \A c \in Connections : (Joined(c)' <=> Joined(c)) /\ (Left(c)' <=> Left(c))

(* Most steps touch none of it.                                            *)
Still ==
  /\ UNCHANGED <<m_actions, procVars>> /\ SameWorld
  /\ (proc' = "send" <=> proc = "send") /\ (ActionLocked => ActionLocked')

(* An entry or a connection's action is queued, under the queue's lock.    *)
Queues(a) ==
  /\ a \in Action /\ ~ActionLocked
  /\ m_actions' = Append(m_actions, a) /\ UNCHANGED <<proc, procVars>>

Publishes ==
  /\ Queues(MessageOf(Published + 1)) /\ UNCHANGED since
  /\ Published < MaxMessages /\ Published' = Published + 1
  /\ \A c \in Connections : (Joined(c)' <=> Joined(c)) /\ (Left(c)' <=> Left(c))

Joins(c) ==
  /\ Queues(Subscribe(c)) /\ UNCHANGED Published
  /\ since' = [since EXCEPT ![c] = Published]
  /\ ~Joined(c) /\ Joined(c)' /\ ~Left(c) /\ ~Left(c)'
  /\ \A d \in Connections \ {c} : (Joined(d)' <=> Joined(d)) /\ (Left(d)' <=> Left(d))

Leaves(c) ==
  /\ Queues(Unsubscribe(c)) /\ UNCHANGED <<Published, since>>
  /\ Joined(c) /\ Joined(c)' /\ ~Left(c) /\ Left(c)'
  /\ \A d \in Connections \ {c} : (Joined(d)' <=> Joined(d)) /\ (Left(d)' <=> Left(d))

(* The processing thread pops one action, ...                              *)
Pops(type) ==
  /\ proc = "drain" /\ proc' = "drain" /\ SameWorld
  /\ m_actions # <<>> /\ Head(m_actions).type = type
  /\ m_actions' = Tail(m_actions)
  /\ UNCHANGED <<unsent, feed>>

Admits   == Pops("SUBSCRIBE")   /\ m_connections' = m_connections \cup {Head(m_actions).hdl} /\ sent' = sent
Dismisses == Pops("UNSUBSCRIBE") /\ m_connections' = m_connections \ {Head(m_actions).hdl} /\ sent' = sent
Collects == Pops("MESSAGE") /\ m_connections' = m_connections /\ sent' = Append(sent, Head(m_actions).entry)

(* ... or begins, continues or ends the sending of a batch.                *)
Begins  == StartSending /\ SameWorld
Hands(c) == Send(c) /\ SameWorld
Ends    == Unlock /\ SameWorld

Effect ==
  \/ Still \/ Publishes \/ Admits \/ Dismisses \/ Collects \/ Begins \/ Ends
  \/ \E c \in Connections : Joins(c) \/ Leaves(c) \/ Hands(c)

LEMMA SameNet ==
  ASSUME UNCHANGED <<messages, ipc, netVars, since>>
  PROVE  SameWorld
BY DEF SameWorld, Published, Joined, Left, netVars

LEMMA StepEffect == SInv /\ [Next]_vars => Effect
<1> SUFFICES ASSUME SInv, [Next]_vars PROVE Effect
  OBVIOUS
<1>1. TypeOK /\ PushInv /\ HandleInv /\ HandlerInv
  BY DEF SInv, IInv
<1>2. Published \in Nat
  BY PublishedType DEF SInv
<1> USE DEF filerVars, netVars, procVars
<1>3. CASE PushMessage
  <2>1. UNCHANGED Published
    BY <1>1, <1>3 DEF PushMessage, Published, TypeOK
  <2>2. SameWorld
    BY <1>3, <2>1 DEF PushMessage, SameWorld, Joined, Left
  <2> QED BY <1>3, <2>2 DEF PushMessage, Effect, Still, ActionLocked
<1>4. CASE PushMessageEntry
  <2>1. messages \in 1 .. MaxMessages
    BY <1>1, <1>4 DEF PushMessageEntry, PushInv
  <2>2. messages = Published + 1 /\ Published < MaxMessages /\ Published' = Published + 1
    BY <1>4, <2>1, MaxMessagesAssumption DEF PushMessageEntry, Published
  <2>3. MessageOf(Published + 1) \in Action
    BY <2>1, <2>2, ActionTypes
  <2>4. Queues(MessageOf(Published + 1))
    BY <1>4, <2>2, <2>3 DEF PushMessageEntry, Push, Queues
  <2>5. \A c \in Connections : (Joined(c)' <=> Joined(c)) /\ (Left(c)' <=> Left(c))
    BY <1>4 DEF PushMessageEntry, Joined, Left
  <2>6. UNCHANGED since
    BY <1>4 DEF PushMessageEntry
  <2> QED BY <2>2, <2>4, <2>5, <2>6 DEF Effect, Publishes
<1>5. CASE NotifyEntry
  <2>1. SameWorld
    BY <1>5 DEF NotifyEntry, SameWorld, Published, Joined, Left
  <2> QED BY <1>5, <2>1 DEF NotifyEntry, Notify, Effect, Still, ActionLocked
<1>6. CASE Request \/ Answer
  <2>1. SameWorld
    BY <1>6, SameNet DEF Request, Answer
  <2> QED BY <1>6, <2>1 DEF Request, Answer, Effect, Still, ActionLocked
<1>7. CASE Listen \/ ListenFails
  <2>1. SameWorld
    BY <1>7 DEF Listen, ListenFails, SameWorld, Published, Joined, Left
  <2> QED BY <1>7, <2>1 DEF Listen, ListenFails, Effect, Still, ActionLocked
<1>8. CASE OnOpen
  <2>0. PICK c \in Connections : c = handle
    BY <1>1, <1>8 DEF OnOpen, HandleInv
  <2>1. Subscribe(c) \in Action
    BY ActionTypes
  <2>2. Queues(Subscribe(c))
    BY <1>8, <2>0, <2>1 DEF OnOpen, Push, Queues
  <2>3. UNCHANGED Published /\ since' = [since EXCEPT ![c] = Published]
    BY <1>8, <2>0 DEF OnOpen, Published
  <2>4. con[c] = "open"
    BY <1>1, <1>8, <2>0 DEF OnOpen, HandlerInv
  <2>5. ~Joined(c) /\ Joined(c)' /\ ~Left(c) /\ ~Left(c)'
    BY <1>8, <2>0, <2>4 DEF OnOpen, Joined, Left
  <2>6. \A d \in Connections \ {c} : (Joined(d)' <=> Joined(d)) /\ (Left(d)' <=> Left(d))
    BY <1>8, <2>0 DEF OnOpen, Joined, Left
  <2> QED BY <2>2, <2>3, <2>5, <2>6 DEF Effect, Joins
<1>9. CASE OnClose
  <2>0. PICK c \in Connections : c = handle
    BY <1>1, <1>9 DEF OnClose, HandleInv
  <2>1. Unsubscribe(c) \in Action
    BY ActionTypes
  <2>2. Queues(Unsubscribe(c))
    BY <1>9, <2>0, <2>1 DEF OnClose, Push, Queues
  <2>3. UNCHANGED <<Published, since>>
    BY <1>9 DEF OnClose, Published
  <2>4. con[c] = "gone"
    BY <1>1, <1>9, <2>0 DEF OnClose, HandlerInv
  <2>5. Joined(c) /\ Joined(c)' /\ ~Left(c) /\ Left(c)'
    BY <1>9, <2>0, <2>4 DEF OnClose, Joined, Left
  <2>6. \A d \in Connections \ {c} : (Joined(d)' <=> Joined(d)) /\ (Left(d)' <=> Left(d))
    BY <1>9, <2>0 DEF OnClose, Joined, Left
  <2> QED BY <2>2, <2>3, <2>5, <2>6 DEF Effect, Leaves
<1>10. CASE NotifyAction
  <2>1. SameWorld
    BY <1>10 DEF NotifyAction, SameWorld, Published, Joined, Left
  <2> QED BY <1>10, <2>1 DEF NotifyAction, Notify, Effect, Still, ActionLocked
<1>11. ASSUME NEW c \in Connections,
              Accept(c) \/ StartClosing(c) \/ Terminate(c) \/ HandleTerminate(c)
       PROVE  Effect
  <2>1. \A d \in Connections : (Joined(d)' <=> Joined(d)) /\ (Left(d)' <=> Left(d))
    BY <1>1, <1>11 DEF Accept, StartClosing, Terminate, HandleTerminate, Joined, Left, TypeOK
  <2>2. UNCHANGED <<Published, since, m_actions, proc, procVars>>
    BY <1>11 DEF Accept, StartClosing, Terminate, HandleTerminate, Published
  <2> QED BY <2>1, <2>2 DEF Effect, Still, SameWorld, ActionLocked
<1>12. CASE LockOrWait \/ SpuriousWakeup
  <2>1. SameWorld
    BY <1>12, SameNet DEF LockOrWait, SpuriousWakeup
  <2> QED BY <1>12, <2>1 DEF LockOrWait, SpuriousWakeup, Effect, Still, ActionLocked
<1>13. CASE DrainSubscribe
  <2>1. SameWorld
    BY <1>13, SameNet DEF DrainSubscribe, Pop
  <2> QED BY <1>13, <2>1 DEF DrainSubscribe, Pop, Effect, Admits, Pops
<1>14. CASE DrainUnsubscribe
  <2>1. SameWorld
    BY <1>14, SameNet DEF DrainUnsubscribe, Pop
  <2> QED BY <1>14, <2>1 DEF DrainUnsubscribe, Pop, Effect, Dismisses, Pops
<1>15. CASE DrainMessage
  <2>1. SameWorld
    BY <1>15, SameNet DEF DrainMessage, Pop
  <2> QED BY <1>15, <2>1 DEF DrainMessage, Pop, Effect, Collects, Pops
<1>16. CASE StartSending
  BY <1>16, SameNet DEF StartSending, Effect, Begins
<1>17. CASE Unlock
  BY <1>17, SameNet DEF Unlock, Effect, Ends
<1>18. ASSUME NEW c \in Connections, Send(c) PROVE Effect
  BY <1>18, SameNet DEF Send, Effect, Hands
<1>19. ASSUME NEW c \in Connections, SendThrows(c) PROVE Effect
  <2>1. SameWorld
    BY <1>19, SameNet DEF SendThrows
  <2> QED BY <1>19, <2>1 DEF SendThrows, Effect, Still, ActionLocked
<1>20. CASE UNCHANGED vars
  <2>1. SameWorld
    BY <1>20, SameNet DEF vars
  <2> QED BY <1>20, <2>1 DEF vars, Effect, Still, ActionLocked
<1> QED
  BY <1>3, <1>4, <1>5, <1>6, <1>7, <1>8, <1>9, <1>10, <1>11, <1>12, <1>13,
     <1>14, <1>15, <1>16, <1>17, <1>18, <1>19, <1>20
  DEF Next, Filer, Handlers, Processor

LEMMA NextHandlerInv == IInv /\ HandlerInv /\ [Next]_vars => HandlerInv'
<1> SUFFICES ASSUME IInv, HandlerInv, [Next]_vars PROVE HandlerInv'
  OBVIOUS
<1>1. TypeOK
  BY DEF IInv
<1> USE DEF filerVars, netVars, procVars, HandlerInv
<1>2. ASSUME NEW c \in Connections,
             Accept(c) \/ StartClosing(c) \/ Terminate(c) \/ HandleTerminate(c)
      PROVE  HandlerInv'
  BY <1>1, <1>2 DEF Accept, StartClosing, Terminate, HandleTerminate, TypeOK
<1>3. CASE Listen \/ ListenFails \/ OnOpen \/ OnClose \/ NotifyAction
  BY <1>3 DEF Listen, ListenFails, OnOpen, OnClose, NotifyAction
<1>4. CASE PushMessage \/ PushMessageEntry \/ NotifyEntry \/ Request \/ Answer
  BY <1>4 DEF PushMessage, PushMessageEntry, NotifyEntry, Request, Answer
<1>5. CASE LockOrWait \/ SpuriousWakeup \/ StartSending \/ Unlock
  BY <1>5 DEF LockOrWait, SpuriousWakeup, StartSending, Unlock
<1>6. CASE DrainSubscribe \/ DrainUnsubscribe \/ DrainMessage
  BY <1>6 DEF DrainSubscribe, DrainUnsubscribe, DrainMessage, Pop
<1>7. ASSUME NEW c \in Connections, Send(c) \/ SendThrows(c) PROVE HandlerInv'
  BY <1>7 DEF Send, SendThrows
<1>8. CASE UNCHANGED vars
  BY <1>8 DEF vars
<1> QED
  BY <1>2, <1>3, <1>4, <1>5, <1>6, <1>7, <1>8 DEF Next, Filer, Handlers, Processor

-----------------------------------------------------------------------------
(* What is queued after an action was queued, or popped.                   *)

LEMMA QueueAppend ==
  ASSUME TypeOK, NEW a, Queues(a)
  PROVE  /\ Len(m_actions)' = Len(m_actions) + 1
         /\ \A i \in DOMAIN m_actions : m_actions'[i] = m_actions[i]
         /\ m_actions'[Len(m_actions) + 1] = a
         /\ DOMAIN m_actions' = 1 .. Len(m_actions) + 1
         /\ \A b : Queued(b)' <=> Queued(b) \/ b = a
         /\ \A k \in 0 .. Len(m_actions) : Count(m_actions', k) = Count(m_actions, k)
         /\ Count(m_actions', Len(m_actions) + 1) =
              IF a.type = "MESSAGE" THEN Count(m_actions, Len(m_actions)) + 1
                                    ELSE Count(m_actions, Len(m_actions))
<1> DEFINE q == m_actions
<1>1. q \in Seq(Action) /\ a \in Action /\ m_actions' = Append(q, a)
  BY DEF TypeOK, Queues
<1>2. /\ Len(m_actions') = Len(q) + 1 /\ Len(q) \in Nat
      /\ DOMAIN q = 1 .. Len(q) /\ DOMAIN m_actions' = 1 .. Len(q) + 1
      /\ \A i \in DOMAIN q : m_actions'[i] = q[i]
      /\ m_actions'[Len(q) + 1] = a
  BY <1>1, AppendProperties
<1>3. \A b : Queued(b)' <=> Queued(b) \/ b = a
  BY <1>2 DEF Queued
<1> QED BY <1>1, <1>2, <1>3, CountAppend

LEMMA QueuePop ==
  ASSUME TypeOK, QueuedOnce, NEW type, Pops(type), NEW a, a = Head(m_actions)
  PROVE  /\ a \in Action /\ a.type = type /\ Queued(a) /\ m_actions[1] = a
         /\ Len(m_actions) = Len(m_actions)' + 1
         /\ DOMAIN m_actions = 1 .. Len(m_actions) /\ 1 \in DOMAIN m_actions
         /\ DOMAIN m_actions' = 1 .. Len(m_actions)' /\ Len(m_actions)' \in Nat
         /\ \A i \in DOMAIN m_actions' : i + 1 \in DOMAIN m_actions /\ m_actions'[i] = m_actions[i + 1]
         /\ \A b : b # a => (Queued(b)' <=> Queued(b))
         /\ type # "MESSAGE" => ~Queued(a)'
         /\ \A k \in 0 .. Len(m_actions)' :
              Count(m_actions, k + 1) = IF type = "MESSAGE" THEN Count(m_actions', k) + 1
                                                            ELSE Count(m_actions', k)
<1>1. m_actions \in Seq(Action) /\ m_actions # <<>> /\ m_actions' = Tail(m_actions)
  BY DEF TypeOK, Pops
<1>2. a \in Action /\ a = m_actions[1] /\ a.type = type
  BY <1>1 DEF Pops
<1>3. /\ Len(m_actions') = Len(m_actions) - 1 /\ Len(m_actions) \in Nat
      /\ Len(m_actions') \in Nat /\ 1 \in DOMAIN m_actions
      /\ DOMAIN m_actions' = 1 .. Len(m_actions') /\ DOMAIN m_actions = 1 .. Len(m_actions)
  BY <1>1, HeadTailProperties
<1>4. \A i \in DOMAIN m_actions' : i + 1 \in DOMAIN m_actions /\ m_actions'[i] = m_actions[i + 1]
  BY <1>1, <1>3, HeadTailProperties
<1>5. \A i \in DOMAIN m_actions : i # 1 => i - 1 \in DOMAIN m_actions' /\ (i - 1) + 1 = i
  BY <1>3
<1>6. ASSUME NEW b, b # a PROVE Queued(b)' <=> Queued(b)
  <2>1. ASSUME Queued(b)' PROVE Queued(b)
    <3>1. PICK i \in DOMAIN m_actions' : m_actions'[i] = b
      BY <2>1 DEF Queued
    <3> QED BY <1>4, <3>1 DEF Queued
  <2>2. ASSUME Queued(b) PROVE Queued(b)'
    <3>1. PICK i \in DOMAIN m_actions : m_actions[i] = b
      BY <2>2 DEF Queued
    <3>2. i # 1
      BY <1>2, <1>6, <3>1
    <3>3. i - 1 \in DOMAIN m_actions' /\ m_actions'[i - 1] = b
      BY <1>4, <1>5, <3>1, <3>2
    <3> QED BY <3>3 DEF Queued
  <2> QED BY <2>1, <2>2
<1>7. ASSUME type # "MESSAGE", Queued(a)' PROVE FALSE
  <2>1. PICK i \in DOMAIN m_actions' : m_actions'[i] = a
    BY <1>7 DEF Queued
  <2>2. i + 1 \in DOMAIN m_actions /\ m_actions[i + 1] = m_actions[1] /\ i + 1 # 1
    BY <1>2, <1>3, <1>4, <2>1
  <2> QED BY <1>2, <1>3, <1>7, <2>2 DEF QueuedOnce
<1>8. Queued(a)
  BY <1>2, <1>3 DEF Queued
<1>9. \A k \in 0 .. Len(m_actions)' :
        Count(m_actions, k + 1) = IF type = "MESSAGE" THEN Count(m_actions', k) + 1
                                                      ELSE Count(m_actions', k)
  BY <1>1, <1>2, CountTail
<1>10. Len(m_actions) = Len(m_actions)' + 1
  BY <1>3
<1> QED BY <1>2, <1>3, <1>4, <1>6, <1>7, <1>8, <1>9, <1>10

(* The number of entries drained grows when one is popped, else it stays.  *)
LEMMA NextDrained ==
  ASSUME SInv, TypeOK', Effect
  PROVE  /\ Drained \in Nat /\ Drained' \in Nat
         /\ Collects => Drained' = Drained + 1
         /\ ~Collects => Drained' = Drained
<1>1. TypeOK /\ IInv /\ QueuedOnce /\ Drained \in Nat /\ Published \in Nat
  BY PublishedType DEF SInv, IInv, QueueInv
<1>2. /\ Drained = Published - Count(m_actions, Len(m_actions))
      /\ Count(m_actions, Len(m_actions)) \in Nat
  BY <1>1, DrainedIs
<1>3. /\ Drained' = Published' - Count(m_actions', Len(m_actions'))
      /\ Count(m_actions', Len(m_actions')) \in Nat
  <2>1. DOMAIN m_actions' = 1 .. Len(m_actions') /\ Len(m_actions') \in Nat
    BY DEF TypeOK
  <2> QED BY <2>1, CountType DEF Drained, Count, Messages
<1>4. ASSUME UNCHANGED <<m_actions, Published>> PROVE Drained' = Drained
  BY <1>2, <1>3, <1>4
<1>5. CASE Still \/ Begins \/ Ends \/ \E c \in Connections : Hands(c)
  <2>1. UNCHANGED <<m_actions, Published>>
    BY <1>5 DEF Still, Begins, Ends, Hands, StartSending, Unlock, Send, SameWorld
  <2>2. ~Collects
    <3>1. ASSUME Collects PROVE FALSE
      <4>1. Len(m_actions) = Len(m_actions)' + 1 /\ Len(m_actions)' \in Nat
        BY <1>1, <3>1, QueuePop DEF Collects
      <4> QED BY <2>1, <4>1
    <3> QED BY <3>1
  <2> QED BY <1>1, <1>4, <2>1, <2>2
<1>6. ASSUME NEW a, Queues(a) PROVE ~Collects
  BY <1>6 DEF Queues, Collects, Pops, ActionLocked
<1>7. CASE Publishes
  <2>1. /\ Len(m_actions') = Len(m_actions) + 1
        /\ Count(m_actions', Len(m_actions) + 1) = Count(m_actions, Len(m_actions)) + 1
    BY <1>1, <1>7, QueueAppend, ActionShape DEF Publishes
  <2>2. Published' = Published + 1
    BY <1>7 DEF Publishes
  <2>3. ~Collects
    BY <1>6, <1>7 DEF Publishes
  <2> QED BY <1>1, <1>2, <1>3, <2>1, <2>2, <2>3
<1>8. ASSUME NEW c \in Connections, Joins(c) \/ Leaves(c)
      PROVE  Drained' = Drained /\ ~Collects
  <2>1. PICK a : Queues(a) /\ a.type # "MESSAGE"
    BY <1>8, ActionShape DEF Joins, Leaves
  <2>2. /\ Len(m_actions') = Len(m_actions) + 1
        /\ Count(m_actions', Len(m_actions) + 1) = Count(m_actions, Len(m_actions))
    BY <1>1, <2>1, QueueAppend
  <2>3. Published' = Published
    BY <1>8 DEF Joins, Leaves
  <2> QED BY <1>2, <1>3, <1>6, <2>1, <2>2, <2>3
<1>9. ASSUME NEW type, Pops(type)
      PROVE  Drained' = IF type = "MESSAGE" THEN Drained + 1 ELSE Drained
  <2>1. PICK a : a = Head(m_actions)
    OBVIOUS
  <2>2. Published' = Published
    BY <1>9 DEF Pops, SameWorld
  <2>3. /\ Len(m_actions) = Len(m_actions)' + 1 /\ Len(m_actions)' \in Nat
        /\ \A k \in 0 .. Len(m_actions)' :
             Count(m_actions, k + 1) = IF type = "MESSAGE" THEN Count(m_actions', k) + 1
                                                           ELSE Count(m_actions', k)
    BY <1>1, <1>9, <2>1, QueuePop
  <2>4. Count(m_actions, Len(m_actions)) =
          IF type = "MESSAGE" THEN Count(m_actions', Len(m_actions')) + 1
                              ELSE Count(m_actions', Len(m_actions'))
    BY <2>3
  <2> QED BY <1>1, <1>2, <1>3, <2>2, <2>4
<1>10. CASE Collects
  BY <1>1, <1>9, <1>10 DEF Collects
<1>11. CASE Admits \/ Dismisses
  <2>1. ~Collects
    BY <1>11 DEF Admits, Dismisses, Collects, Pops
  <2> QED BY <1>1, <1>9, <1>11, <2>1 DEF Admits, Dismisses
<1> QED BY <1>1, <1>5, <1>7, <1>8, <1>10, <1>11 DEF Effect

-----------------------------------------------------------------------------
(* Every effect keeps the queue in order, ...                              *)

LEMMA EffectQueuedOnce == SInv /\ TypeOK' /\ Effect => QueuedOnce'
<1> SUFFICES ASSUME SInv, TypeOK', Effect PROVE QueuedOnce'
  OBVIOUS
<1>1. TypeOK /\ QueuedOnce /\ \A c \in Connections : Membership(c)
  BY DEF SInv, IInv
<1>2. DOMAIN m_actions = 1 .. Len(m_actions) /\ Len(m_actions) \in Nat
  BY <1>1 DEF TypeOK
<1>3. ASSUME UNCHANGED m_actions PROVE QueuedOnce'
  BY <1>1, <1>3 DEF QueuedOnce
<1>4. CASE Still \/ Begins \/ Ends \/ \E c \in Connections : Hands(c)
  BY <1>3, <1>4 DEF Still, Begins, Ends, Hands, StartSending, Unlock, Send
<1>5. ASSUME NEW a, Queues(a), a.type # "MESSAGE" => ~Queued(a),
             \A c \in Connections : a = Subscribe(c) => ~Queued(Unsubscribe(c))
      PROVE  QueuedOnce'
  <2>1. a \in Action
    BY <1>5 DEF Queues
  <2>2. /\ DOMAIN m_actions' = 1 .. Len(m_actions) + 1
        /\ \A i \in DOMAIN m_actions : m_actions'[i] = m_actions[i]
        /\ m_actions'[Len(m_actions) + 1] = a
    BY <1>1, <1>5, QueueAppend
  <2>3. \A i \in DOMAIN m_actions : m_actions[i] \in Action
    BY <1>1 DEF TypeOK
  <2>4. SUFFICES ASSUME NEW i \in DOMAIN m_actions', NEW j \in DOMAIN m_actions'
                 PROVE  /\ m_actions'[i] = m_actions'[j] /\ m_actions'[i].type # "MESSAGE" => i = j
                        /\ m_actions'[i].type = "UNSUBSCRIBE"
                             /\ m_actions'[j] = Subscribe(m_actions'[i].hdl) => j < i
    BY DEF QueuedOnce
  <2>5. CASE i \in DOMAIN m_actions /\ j \in DOMAIN m_actions
    BY <1>1, <2>2, <2>5 DEF QueuedOnce
  <2>6. CASE i \in DOMAIN m_actions /\ j = Len(m_actions) + 1
    <3>1. m_actions'[i] = m_actions[i] /\ m_actions'[j] = a /\ Queued(m_actions[i])
      BY <2>2, <2>6 DEF Queued
    <3>2. ~(m_actions[i].type # "MESSAGE" /\ m_actions[i] = a)
      BY <1>5, <3>1
    <3>3. ~(m_actions[i].type = "UNSUBSCRIBE" /\ a = Subscribe(m_actions[i].hdl))
      <4>1. ASSUME m_actions[i].type = "UNSUBSCRIBE", a = Subscribe(m_actions[i].hdl) PROVE FALSE
        <5>1. m_actions[i].hdl \in Connections /\ m_actions[i] = Unsubscribe(m_actions[i].hdl)
          BY <2>3, <2>6, <4>1, ActionTypes, ActionShape
        <5> QED BY <1>5, <3>1, <4>1, <5>1
      <4> QED BY <4>1
    <3> QED BY <3>1, <3>2, <3>3
  <2>7. CASE i = Len(m_actions) + 1 /\ j \in DOMAIN m_actions
    <3>1. m_actions'[i] = a /\ m_actions'[j] = m_actions[j] /\ Queued(m_actions[j])
      BY <2>2, <2>7 DEF Queued
    <3>2. j < i
      BY <1>2, <2>7
    <3> QED BY <1>5, <3>1, <3>2
  <2>8. CASE i = Len(m_actions) + 1 /\ j = Len(m_actions) + 1
    <3>1. ~(a.type = "UNSUBSCRIBE" /\ a = Subscribe(a.hdl))
      BY ActionShape
    <3> QED BY <2>2, <2>8, <3>1
  <2> QED BY <1>2, <2>2, <2>5, <2>6, <2>7, <2>8
<1>6. CASE Publishes
  BY <1>5, <1>6, ActionShape DEF Publishes
<1>7. ASSUME NEW c \in Connections, Joins(c) PROVE QueuedOnce'
  <2>1. ~Queued(Subscribe(c)) /\ ~Queued(Unsubscribe(c))
    BY <1>1, <1>7 DEF Joins, Membership
  <2>2. \A d : Subscribe(c) = Subscribe(d) => c = d
    BY ActionShape
  <2> QED BY <1>5, <1>7, <2>1, <2>2 DEF Joins
<1>8. ASSUME NEW c \in Connections, Leaves(c) PROVE QueuedOnce'
  <2>1. ~Queued(Unsubscribe(c))
    BY <1>1, <1>8 DEF Leaves, Membership
  <2>2. \A d : Unsubscribe(c) # Subscribe(d)
    BY ActionShape
  <2> QED BY <1>5, <1>8, <2>1, <2>2 DEF Leaves
<1>9. ASSUME NEW type, Pops(type) PROVE QueuedOnce'
  <2>1. PICK a : a = Head(m_actions)
    OBVIOUS
  <2>2. /\ \A i \in DOMAIN m_actions' : i + 1 \in DOMAIN m_actions /\ m_actions'[i] = m_actions[i + 1]
        /\ DOMAIN m_actions' = 1 .. Len(m_actions)'
    BY <1>1, <1>9, <2>1, QueuePop
  <2>3. SUFFICES ASSUME NEW i \in DOMAIN m_actions', NEW j \in DOMAIN m_actions'
                 PROVE  /\ m_actions'[i] = m_actions'[j] /\ m_actions'[i].type # "MESSAGE" => i = j
                        /\ m_actions'[i].type = "UNSUBSCRIBE"
                             /\ m_actions'[j] = Subscribe(m_actions'[i].hdl) => j < i
    BY DEF QueuedOnce
  <2>4. m_actions'[i] = m_actions[i + 1] /\ m_actions'[j] = m_actions[j + 1]
    BY <2>2
  <2>5. /\ m_actions[i + 1] = m_actions[j + 1] /\ m_actions[i + 1].type # "MESSAGE" => i + 1 = j + 1
        /\ m_actions[i + 1].type = "UNSUBSCRIBE"
             /\ m_actions[j + 1] = Subscribe(m_actions[i + 1].hdl) => j + 1 < i + 1
    BY <1>1, <2>2 DEF QueuedOnce
  <2>6. i \in Int /\ j \in Int
    BY <2>2
  <2> QED BY <2>4, <2>5, <2>6
<1> QED BY <1>4, <1>6, <1>7, <1>8, <1>9 DEF Effect, Admits, Dismisses, Collects

(* ... the subscribers in step with it, ...                                *)
LEMMA EffectMembership ==
  SInv /\ TypeOK' /\ Effect => \A c \in Connections : Membership(c)'
<1> SUFFICES ASSUME SInv, TypeOK', Effect, NEW c \in Connections PROVE Membership(c)'
  OBVIOUS
<1>1. TypeOK /\ QueuedOnce /\ Membership(c)
  BY DEF SInv, IInv
<1>2. Subscribe(c) # Unsubscribe(c)
  BY ActionShape
<1>3. ASSUME SameWorld, UNCHANGED <<m_actions, m_connections>> PROVE Membership(c)'
  BY <1>1, <1>3 DEF SameWorld, Membership, Queued
<1>4. CASE Still \/ Begins \/ Ends \/ \E d \in Connections : Hands(d)
  BY <1>3, <1>4 DEF Still, Begins, Ends, Hands, StartSending, Unlock, Send, procVars
<1>5. ASSUME NEW a, Queues(a), a # Subscribe(c), a # Unsubscribe(c),
             Joined(c)' <=> Joined(c), Left(c)' <=> Left(c)
      PROVE  Membership(c)'
  <2>1. \A b : Queued(b)' <=> Queued(b) \/ b = a
    BY <1>1, <1>5, QueueAppend
  <2>2. m_connections' = m_connections
    BY <1>5 DEF Queues, procVars
  <2> QED BY <1>1, <1>5, <2>1, <2>2 DEF Membership
<1>6. CASE Publishes
  <2>1. MessageOf(Published + 1) # Subscribe(c) /\ MessageOf(Published + 1) # Unsubscribe(c)
    BY ActionShape
  <2> QED BY <1>5, <1>6, <2>1 DEF Publishes
<1>7. ASSUME NEW d \in Connections, Joins(d) PROVE Membership(c)'
  <2>1. CASE d # c
    <3>1. Subscribe(d) # Subscribe(c) /\ Subscribe(d) # Unsubscribe(c)
      BY <2>1, ActionShape
    <3> QED BY <1>5, <1>7, <2>1, <3>1 DEF Joins
  <2>2. CASE d = c
    <3>1. \A b : Queued(b)' <=> Queued(b) \/ b = Subscribe(c)
      BY <1>1, <1>7, <2>2, QueueAppend DEF Joins
    <3>2. m_connections' = m_connections
      BY <1>7 DEF Joins, Queues, procVars
    <3> QED BY <1>1, <1>2, <1>7, <2>2, <3>1, <3>2 DEF Joins, Membership
  <2> QED BY <2>1, <2>2
<1>8. ASSUME NEW d \in Connections, Leaves(d) PROVE Membership(c)'
  <2>1. CASE d # c
    <3>1. Unsubscribe(d) # Subscribe(c) /\ Unsubscribe(d) # Unsubscribe(c)
      BY <2>1, ActionShape
    <3> QED BY <1>5, <1>8, <2>1, <3>1 DEF Leaves
  <2>2. CASE d = c
    <3>1. \A b : Queued(b)' <=> Queued(b) \/ b = Unsubscribe(c)
      BY <1>1, <1>8, <2>2, QueueAppend DEF Leaves
    <3>2. m_connections' = m_connections
      BY <1>8 DEF Leaves, Queues, procVars
    <3> QED BY <1>1, <1>2, <1>8, <2>2, <3>1, <3>2 DEF Leaves, Membership
  <2> QED BY <2>1, <2>2
<1>9. ASSUME NEW type, Pops(type), NEW a, a = Head(m_actions)
      PROVE  /\ a \in Action /\ a.type = type /\ Queued(a)
             /\ \A b : b # a => (Queued(b)' <=> Queued(b))
             /\ type # "MESSAGE" => ~Queued(a)'
             /\ (Joined(c)' <=> Joined(c)) /\ (Left(c)' <=> Left(c))
  <2>1. (Joined(c)' <=> Joined(c)) /\ (Left(c)' <=> Left(c))
    BY <1>9 DEF Pops, SameWorld
  <2> QED BY <1>1, <1>9, <2>1, QueuePop
<1>10. CASE Admits
  <2>1. PICK a : a = Head(m_actions)
    OBVIOUS
  <2>2. /\ a = Subscribe(a.hdl) /\ Queued(a) /\ ~Queued(a)'
        /\ \A b : b # a => (Queued(b)' <=> Queued(b))
        /\ (Joined(c)' <=> Joined(c)) /\ (Left(c)' <=> Left(c))
    BY <1>9, <1>10, <2>1, ActionShape DEF Admits
  <2>3. m_connections' = m_connections \cup {a.hdl}
    BY <1>10, <2>1 DEF Admits
  <2>4. CASE a.hdl = c
    BY <1>1, <1>2, <2>2, <2>3, <2>4 DEF Membership
  <2>5. CASE a.hdl # c
    <3>1. a # Subscribe(c) /\ a # Unsubscribe(c)
      BY <2>2, <2>5, ActionShape
    <3> QED BY <1>1, <2>2, <2>3, <2>5, <3>1 DEF Membership
  <2> QED BY <2>4, <2>5
<1>11. CASE Dismisses
  <2>1. PICK a : a = Head(m_actions)
    OBVIOUS
  <2>2. /\ a = Unsubscribe(a.hdl) /\ a.type = "UNSUBSCRIBE" /\ Queued(a) /\ ~Queued(a)'
        /\ \A b : b # a => (Queued(b)' <=> Queued(b))
        /\ (Joined(c)' <=> Joined(c)) /\ (Left(c)' <=> Left(c))
    BY <1>9, <1>11, <2>1, ActionShape DEF Dismisses
  <2>3. m_connections' = m_connections \ {a.hdl}
    BY <1>11, <2>1 DEF Dismisses
  <2>4. CASE a.hdl = c
    <3>1. ~Queued(Subscribe(c))
      <4>1. ASSUME NEW j \in DOMAIN m_actions, m_actions[j] = Subscribe(c) PROVE FALSE
        <5>1. m_actions[1] = a /\ 1 \in DOMAIN m_actions /\ DOMAIN m_actions = 1 .. Len(m_actions)
          BY <1>1, <1>11, <2>1, QueuePop DEF Dismisses
        <5>2. j < 1
          BY <1>1, <2>2, <2>4, <4>1, <5>1 DEF QueuedOnce
        <5> QED BY <5>1, <5>2
      <4> QED BY <4>1 DEF Queued
    <3>2. ~Queued(Unsubscribe(c))' /\ ~Queued(Subscribe(c))' /\ Queued(Unsubscribe(c))
      BY <1>2, <2>2, <2>4, <3>1
    <3>3. c \notin m_connections' /\ (Joined(c) => Left(c))
      BY <1>1, <2>3, <2>4, <3>2 DEF Membership
    <3> QED BY <2>2, <3>2, <3>3 DEF Membership
  <2>5. CASE a.hdl # c
    <3>1. a # Subscribe(c) /\ a # Unsubscribe(c)
      BY <2>2, <2>5, ActionShape
    <3>2. (Queued(Subscribe(c))' <=> Queued(Subscribe(c)))
            /\ (Queued(Unsubscribe(c))' <=> Queued(Unsubscribe(c)))
            /\ (c \in m_connections' <=> c \in m_connections)
      BY <2>2, <2>3, <2>5, <3>1
    <3> QED BY <1>1, <2>2, <3>2 DEF Membership
  <2> QED BY <2>4, <2>5
<1>12. CASE Collects
  <2>1. PICK a : a = Head(m_actions)
    OBVIOUS
  <2>2. /\ a.type = "MESSAGE" /\ \A b : b # a => (Queued(b)' <=> Queued(b))
        /\ (Joined(c)' <=> Joined(c)) /\ (Left(c)' <=> Left(c))
    BY <1>9, <1>12, <2>1 DEF Collects
  <2>3. a # Subscribe(c) /\ a # Unsubscribe(c)
    BY <2>2, ActionShape
  <2>4. m_connections' = m_connections
    BY <1>12 DEF Collects
  <2> QED BY <1>1, <2>2, <2>3, <2>4 DEF Membership
<1> QED BY <1>4, <1>6, <1>7, <1>8, <1>10, <1>11, <1>12 DEF Effect

(* ... the entries in the queue numbered on from those drained, ...        *)
LEMMA EffectQueueInv == SInv /\ TypeOK' /\ Effect => QueueInv'
<1> SUFFICES ASSUME SInv, TypeOK', Effect PROVE QueueInv'
  OBVIOUS
<1>1. TypeOK /\ QueuedOnce /\ QueueInv /\ \A c \in Connections : Membership(c)
  BY DEF SInv, IInv
<1>2. /\ Drained \in Nat /\ Drained' \in Nat
      /\ Collects => Drained' = Drained + 1
      /\ ~Collects => Drained' = Drained
  BY NextDrained
<1>3. DOMAIN m_actions = 1 .. Len(m_actions) /\ Len(m_actions) \in Nat
  BY <1>1 DEF TypeOK
<1>4. /\ Drained = Published - Count(m_actions, Len(m_actions)) /\ Published \in Nat
      /\ Count(m_actions, Len(m_actions)) \in Nat
  BY <1>1, DrainedIs, PublishedType DEF SInv
<1>5. \A i \in DOMAIN m_actions : m_actions[i] \in Action
  BY <1>1 DEF TypeOK
<1>6. ASSUME UNCHANGED <<m_actions, since, Drained>> PROVE QueueInv'
  BY <1>1, <1>6 DEF QueueInv, Count, Messages
<1>7. CASE Still \/ Begins \/ Ends \/ \E c \in Connections : Hands(c)
  <2>1. UNCHANGED <<m_actions, since>>
    BY <1>7 DEF Still, Begins, Ends, Hands, StartSending, Unlock, Send, SameWorld
  <2>2. ~Collects
    <3>1. ASSUME Collects PROVE FALSE
      <4>1. Len(m_actions) = Len(m_actions)' + 1 /\ Len(m_actions)' \in Nat
        BY <1>1, <3>1, QueuePop DEF Collects
      <4> QED BY <2>1, <4>1
    <3> QED BY <3>1
  <2> QED BY <1>2, <1>6, <2>1, <2>2
<1>8. ASSUME NEW a, Queues(a),
             a.type = "MESSAGE" => a.entry = Published + 1,
             a.type = "SUBSCRIBE" => since'[a.hdl] = Published,
             \A i \in DOMAIN m_actions :
               m_actions[i].type = "SUBSCRIBE" => since'[m_actions[i].hdl] = since[m_actions[i].hdl]
      PROVE  QueueInv'
  <2>1. /\ DOMAIN m_actions' = 1 .. Len(m_actions) + 1
        /\ \A i \in DOMAIN m_actions : m_actions'[i] = m_actions[i]
        /\ m_actions'[Len(m_actions) + 1] = a
        /\ \A k \in 0 .. Len(m_actions) : Count(m_actions', k) = Count(m_actions, k)
        /\ Count(m_actions', Len(m_actions) + 1) =
              IF a.type = "MESSAGE" THEN Count(m_actions, Len(m_actions)) + 1
                                    ELSE Count(m_actions, Len(m_actions))
    BY <1>1, <1>8, QueueAppend
  <2>2. Drained' = Drained
    BY <1>2, <1>8 DEF Queues, Collects, Pops, ActionLocked
  <2>3. ASSUME NEW i \in DOMAIN m_actions'
        PROVE  /\ m_actions'[i].type = "MESSAGE" =>
                    m_actions'[i].entry = Drained' + Count(m_actions', i)
               /\ m_actions'[i].type = "SUBSCRIBE" =>
                    since'[m_actions'[i].hdl] = Drained' + Count(m_actions', i)
    <3>1. CASE i \in DOMAIN m_actions
      <4>1. m_actions'[i] = m_actions[i] /\ Count(m_actions', i) = Count(m_actions, i)
        BY <1>3, <2>1, <3>1
      <4> QED BY <1>1, <1>8, <2>2, <3>1, <4>1 DEF QueueInv
    <3>2. CASE i = Len(m_actions) + 1
      <4>1. m_actions'[i] = a
        BY <2>1, <3>2
      <4>2. a.type = "MESSAGE" => Drained' + Count(m_actions', i) = Published + 1
        BY <1>2, <1>4, <2>1, <2>2, <3>2
      <4>3. a.type = "SUBSCRIBE" => Drained' + Count(m_actions', i) = Published
        BY <1>2, <1>4, <2>1, <2>2, <3>2
      <4> QED BY <1>8, <4>1, <4>2, <4>3
    <3> QED BY <1>3, <2>1, <3>1, <3>2
  <2> QED BY <1>2, <2>3 DEF QueueInv
<1>9. CASE Publishes
  <2>1. Queues(MessageOf(Published + 1)) /\ UNCHANGED since
    BY <1>9 DEF Publishes
  <2> QED BY <1>8, <2>1, ActionShape
<1>10. ASSUME NEW c \in Connections, Joins(c) PROVE QueueInv'
  <2>1. Queues(Subscribe(c)) /\ since' = [since EXCEPT ![c] = Published]
    BY <1>10 DEF Joins
  <2>2. ~Queued(Subscribe(c))
    BY <1>1, <1>10 DEF Joins, Membership
  <2>3. \A d \in Connections : since'[d] = IF d = c THEN Published ELSE since[d]
    BY <1>1, <2>1 DEF TypeOK
  <2>4. ASSUME NEW i \in DOMAIN m_actions, m_actions[i].type = "SUBSCRIBE"
        PROVE  since'[m_actions[i].hdl] = since[m_actions[i].hdl]
    <3>1. m_actions[i] = Subscribe(m_actions[i].hdl) /\ m_actions[i].hdl \in Connections
      BY <1>5, <2>4, ActionShape, ActionTypes
    <3>2. m_actions[i].hdl # c
      BY <2>2, <3>1 DEF Queued
    <3> QED BY <2>3, <3>1, <3>2
  <2>5. Subscribe(c).type = "SUBSCRIBE" /\ Subscribe(c).hdl = c
    BY ActionShape
  <2> QED BY <1>8, <2>1, <2>3, <2>4, <2>5
<1>11. ASSUME NEW c \in Connections, Leaves(c) PROVE QueueInv'
  <2>1. Queues(Unsubscribe(c)) /\ UNCHANGED since
    BY <1>11 DEF Leaves
  <2> QED BY <1>8, <2>1, ActionShape
<1>12. ASSUME NEW type, Pops(type),
              Drained' = IF type = "MESSAGE" THEN Drained + 1 ELSE Drained
       PROVE  QueueInv'
  <2>1. PICK a : a = Head(m_actions)
    OBVIOUS
  <2>2. /\ DOMAIN m_actions' = 1 .. Len(m_actions)' /\ Len(m_actions)' \in Nat
        /\ \A i \in DOMAIN m_actions' : i + 1 \in DOMAIN m_actions /\ m_actions'[i] = m_actions[i + 1]
        /\ \A k \in 0 .. Len(m_actions)' :
             Count(m_actions, k + 1) = IF type = "MESSAGE" THEN Count(m_actions', k) + 1
                                                           ELSE Count(m_actions', k)
    BY <1>1, <1>12, <2>1, QueuePop
  <2>3. UNCHANGED since
    BY <1>12 DEF Pops, SameWorld
  <2>4. ASSUME NEW i \in DOMAIN m_actions'
        PROVE  /\ m_actions'[i].type = "MESSAGE" =>
                    m_actions'[i].entry = Drained' + Count(m_actions', i)
               /\ m_actions'[i].type = "SUBSCRIBE" =>
                    since'[m_actions'[i].hdl] = Drained' + Count(m_actions', i)
    <3>1. i \in Nat /\ i \in 0 .. Len(m_actions)'
      BY <2>2
    <3>2. Count(m_actions', i) \in Nat
      BY <3>1, CountType
    <3>3. Count(m_actions, i + 1) = IF type = "MESSAGE" THEN Count(m_actions', i) + 1
                                                        ELSE Count(m_actions', i)
      BY <2>2, <3>1
    <3>4. Drained + Count(m_actions, i + 1) = Drained' + Count(m_actions', i)
      BY <1>2, <1>12, <3>2, <3>3
    <3>5. i + 1 \in DOMAIN m_actions /\ m_actions'[i] = m_actions[i + 1]
      BY <2>2
    <3> QED BY <1>1, <2>3, <3>4, <3>5 DEF QueueInv
  <2> QED BY <1>2, <2>4 DEF QueueInv
<1>13. CASE Collects
  BY <1>2, <1>12, <1>13 DEF Collects
<1>14. CASE Admits \/ Dismisses
  <2>1. ~Collects
    BY <1>14 DEF Admits, Dismisses, Collects, Pops
  <2> QED BY <1>2, <1>12, <1>14, <2>1 DEF Admits, Dismisses
<1> QED BY <1>7, <1>9, <1>10, <1>11, <1>13, <1>14 DEF Effect

(* ... the batch at the end of those drained, ...                          *)
LEMMA EffectBatchInv == SInv /\ TypeOK' /\ Effect => BatchInv'
<1> SUFFICES ASSUME SInv, TypeOK', Effect PROVE BatchInv'
  OBVIOUS
<1>1. TypeOK /\ QueuedOnce /\ QueueInv /\ BatchInv
  BY DEF SInv, IInv
<1>2. /\ Drained \in Nat /\ Drained' \in Nat
      /\ Collects => Drained' = Drained + 1
      /\ ~Collects => Drained' = Drained
  BY NextDrained
<1>3. DOMAIN sent = 1 .. Len(sent) /\ Len(sent) \in Nat
  BY <1>1 DEF TypeOK
<1>4. ASSUME ~Collects, sent' = sent
      PROVE  Len(sent') <= Drained' /\ \A i \in DOMAIN sent' : sent'[i] = Drained' - Len(sent') + i
  BY <1>1, <1>2, <1>4 DEF BatchInv
<1>5. ASSUME Collects PROVE proc = "drain" /\ m_actions # <<>> /\ m_actions' # m_actions
  <2>1. PICK a : a = Head(m_actions)
    OBVIOUS
  <2>2. Len(m_actions) = Len(m_actions)' + 1 /\ Len(m_actions)' \in Nat
    BY <1>1, <1>5, <2>1, QueuePop DEF Collects
  <2>3. m_actions' # m_actions
    BY <2>2
  <2> QED BY <1>5, <2>3 DEF Collects, Pops
<1>6. CASE Still
  <2>1. ~Collects
    BY <1>5, <1>6 DEF Still
  <2>2. sent' = sent
    BY <1>6 DEF Still, procVars
  <2> QED BY <1>1, <1>4, <1>6, <2>1, <2>2 DEF Still, BatchInv, procVars
<1>7. ASSUME NEW a, Queues(a) PROVE BatchInv'
  <2>1. ~Collects /\ proc' = proc /\ proc # "send" /\ sent = <<>> /\ unsent = {}
    BY <1>1, <1>5, <1>7 DEF Queues, ActionLocked, BatchInv
  <2>2. sent' = sent /\ unsent' = unsent /\ m_connections' = m_connections
    BY <1>7 DEF Queues, procVars
  <2> QED BY <1>4, <2>1, <2>2 DEF BatchInv
<1>8. CASE Admits \/ Dismisses
  <2>1. ~Collects
    BY <1>8 DEF Admits, Dismisses, Collects, Pops
  <2>2. sent' = sent /\ unsent' = unsent /\ proc = "drain" /\ proc' = "drain" /\ unsent = {}
    BY <1>1, <1>8 DEF Admits, Dismisses, Pops, BatchInv
  <2> QED BY <1>4, <2>1, <2>2 DEF BatchInv, ActionLocked
<1>9. CASE Collects
  <2>1. PICK a : a = Head(m_actions)
    OBVIOUS
  <2>2. a.type = "MESSAGE" /\ a \in Action /\ 1 \in DOMAIN m_actions /\ m_actions[1] = a
    BY <1>1, <1>9, <2>1, QueuePop DEF Collects
  <2>3. Count(m_actions, 1) = 1
    <3>1. Count(m_actions, 0 + 1) = Count(m_actions, 0) + 1
      BY <2>2, CountNext
    <3> QED BY <3>1, CountNone
  <2>4. a.entry = Drained + 1 /\ a.entry \in 1 .. MaxMessages
    BY <1>1, <2>2, <2>3, ActionTypes DEF QueueInv
  <2>5. sent \in Seq(1 .. MaxMessages) /\ sent' = Append(sent, a.entry)
    BY <1>1, <1>9, <2>1 DEF TypeOK, Collects
  <2>6. /\ Len(sent') = Len(sent) + 1 /\ DOMAIN sent' = 1 .. Len(sent) + 1
        /\ \A i \in 1 .. Len(sent) : sent'[i] = sent[i]
        /\ sent'[Len(sent) + 1] = a.entry
    BY <2>4, <2>5, AppendProperties
  <2>7. Drained' = Drained + 1
    BY <1>2, <1>9
  <2>8. Len(sent') <= Drained'
    BY <1>1, <1>2, <1>3, <2>6, <2>7 DEF BatchInv
  <2>9. ASSUME NEW i \in DOMAIN sent' PROVE sent'[i] = Drained' - Len(sent') + i
    <3>1. CASE i \in 1 .. Len(sent)
      <4>1. sent'[i] = Drained - Len(sent) + i
        BY <1>1, <1>3, <2>6, <3>1 DEF BatchInv
      <4> QED BY <1>2, <1>3, <2>6, <2>7, <3>1, <4>1
    <3>2. CASE i = Len(sent) + 1
      BY <1>2, <1>3, <2>4, <2>6, <2>7, <3>2
    <3> QED BY <1>3, <2>6, <3>1, <3>2
  <2>10. proc' = "drain" /\ unsent' = unsent /\ unsent = {}
    BY <1>1, <1>9 DEF Collects, Pops, BatchInv
  <2> QED BY <2>8, <2>9, <2>10 DEF BatchInv, ActionLocked
<1>10. CASE Begins
  <2>1. ~Collects
    BY <1>5, <1>10 DEF Begins, StartSending
  <2>2. sent' = sent
    BY <1>10 DEF Begins, StartSending
  <2> QED BY <1>4, <1>10, <2>1, <2>2 DEF Begins, StartSending, BatchInv, ActionLocked
<1>11. ASSUME NEW c \in Connections, Hands(c) PROVE BatchInv'
  <2>1. ~Collects
    BY <1>5, <1>11 DEF Hands, Send
  <2>2. sent' = sent
    BY <1>11 DEF Hands, Send
  <2> QED BY <1>1, <1>4, <1>11, <2>1, <2>2 DEF Hands, Send, BatchInv, ActionLocked
<1>12. CASE Ends
  <2>1. sent' = <<>> /\ proc' = "lock" /\ unsent' = {}
    BY <1>12 DEF Ends, Unlock
  <2> QED BY <1>2, <2>1 DEF BatchInv
<1> QED
  BY <1>6, <1>7, <1>8, <1>9, <1>10, <1>11, <1>12 DEF Effect, Publishes, Joins, Leaves

(* ... and every subscriber served with all that was drained before it.    *)
LEMMA EffectServed ==
  SInv /\ TypeOK' /\ Effect => \A c \in Connections : Served(c)'
<1> SUFFICES ASSUME SInv, TypeOK', Effect, NEW c \in Connections PROVE Served(c)'
  OBVIOUS
<1>1. TypeOK /\ QueuedOnce /\ QueueInv /\ BatchInv /\ Membership(c) /\ Served(c)
  BY DEF SInv, IInv
<1>2. /\ Drained \in Nat /\ Drained' \in Nat
      /\ Collects => Drained' = Drained + 1
      /\ ~Collects => Drained' = Drained
  BY NextDrained
<1>3. /\ Len(sent) \in Nat /\ Len(sent) <= Drained
      /\ since[c] \in Nat /\ feed[c] \in Seq(1 .. MaxMessages)
  BY <1>1 DEF TypeOK, BatchInv
<1>4. ASSUME NEW a, Queues(a)
      PROVE  /\ ~Collects /\ proc' = proc /\ proc # "send"
             /\ UNCHANGED <<m_connections, sent, unsent, feed>>
             /\ \A b : Queued(b)' <=> Queued(b) \/ b = a
  <2>1. ~Collects /\ proc # "send"
    BY <1>4 DEF Queues, Collects, Pops, ActionLocked
  <2>2. \A b : Queued(b)' <=> Queued(b) \/ b = a
    BY <1>1, <1>4, QueueAppend
  <2> QED BY <1>4, <2>1, <2>2 DEF Queues, procVars
<1>5. CASE Still
  <2>1. UNCHANGED <<m_actions, procVars>> /\ SameWorld /\ (proc' = "send" <=> proc = "send")
    BY <1>5 DEF Still
  <2>2. Drained' = Drained
    <3>1. ~Collects
      BY <1>1, <2>1 DEF Collects, Pops, SameWorld, procVars, BatchInv
    <3> QED BY <1>2, <3>1
  <2> QED BY <1>1, <2>1, <2>2 DEF Served, SameWorld, Queued, procVars
<1>6. ASSUME NEW a, Queues(a), a # Subscribe(c), since'[c] = since[c], (Joined(c)' <=> Joined(c))
      PROVE  Served(c)'
  <2>1. /\ Drained' = Drained /\ proc' = proc
        /\ UNCHANGED <<m_connections, sent, unsent, feed>>
        /\ Queued(Subscribe(c))' <=> Queued(Subscribe(c))
    BY <1>2, <1>4, <1>6
  <2> QED BY <1>1, <1>6, <2>1 DEF Served
<1>7. CASE Publishes
  <2>1. MessageOf(Published + 1) # Subscribe(c)
    BY ActionShape
  <2> QED BY <1>6, <1>7, <2>1 DEF Publishes
<1>8. ASSUME NEW d \in Connections, Joins(d) PROVE Served(c)'
  <2>1. CASE d # c
    <3>1. Subscribe(d) # Subscribe(c)
      BY <2>1, ActionShape
    <3>2. since'[c] = since[c]
      BY <1>1, <1>8, <2>1 DEF Joins, TypeOK
    <3> QED BY <1>6, <1>8, <2>1, <3>1, <3>2 DEF Joins
  <2>2. CASE d = c
    <3>1. c \notin m_connections /\ feed[c] = <<>>
      BY <1>1, <1>8, <2>2 DEF Joins, Membership, Served
    <3>2. c \notin m_connections' /\ feed'[c] = <<>>
      BY <1>4, <1>8, <3>1 DEF Joins
    <3> QED BY <3>2 DEF Served
  <2> QED BY <2>1, <2>2
<1>9. ASSUME NEW d \in Connections, Leaves(d) PROVE Served(c)'
  <2>1. Unsubscribe(d) # Subscribe(c)
    BY ActionShape
  <2>2. (Joined(c)' <=> Joined(c))
    BY <1>9 DEF Leaves
  <2>3. Queues(Unsubscribe(d)) /\ since' = since
    BY <1>9 DEF Leaves
  <2> QED BY <1>6, <2>1, <2>2, <2>3
<1>10. CASE Admits
  <2>1. PICK a : a = Head(m_actions)
    OBVIOUS
  <2>2. /\ a \in Action /\ a.type = "SUBSCRIBE" /\ Queued(a) /\ m_actions[1] = a
        /\ 1 \in DOMAIN m_actions /\ ~Queued(a)'
        /\ \A b : b # a => (Queued(b)' <=> Queued(b))
    BY <1>1, <1>10, <2>1, QueuePop DEF Admits
  <2>3. ~Collects
    BY <1>10 DEF Admits, Collects, Pops
  <2>4. /\ Drained' = Drained /\ UNCHANGED <<sent, unsent, feed, since>>
        /\ proc = "drain" /\ proc' = "drain" /\ (Joined(c)' <=> Joined(c))
        /\ m_connections' = m_connections \cup {a.hdl}
    BY <1>2, <1>10, <2>1, <2>3 DEF Admits, Pops, SameWorld
  <2>5. CASE a = Subscribe(c)
    <3>1. a.hdl = c
      BY <2>5, ActionShape
    <3>2. Count(m_actions, 1) = 0
      <4>1. Count(m_actions, 0 + 1) = Count(m_actions, 0)
        BY <2>2, CountNext
      <4> QED BY <4>1, CountNone
    <3>3. since[c] = Drained
      BY <1>1, <1>2, <2>2, <3>1, <3>2 DEF QueueInv
    <3>4. feed[c] = <<>>
      BY <1>1, <2>2, <2>5 DEF Served
    <3>5. Drained - Len(sent) <= since[c] /\ since[c] <= Drained
      BY <1>2, <1>3, <3>3
    <3> QED BY <2>4, <3>4, <3>5 DEF Served
  <2>6. CASE a # Subscribe(c)
    <3>1. a.hdl # c
      BY <2>2, <2>6, ActionShape
    <3>2. (Queued(Subscribe(c))' <=> Queued(Subscribe(c)))
            /\ (c \in m_connections' <=> c \in m_connections)
      BY <2>2, <2>4, <2>6, <3>1
    <3> QED BY <1>1, <2>4, <3>2 DEF Served
  <2> QED BY <2>5, <2>6
<1>11. CASE Dismisses
  <2>1. PICK a : a = Head(m_actions)
    OBVIOUS
  <2>2. a.type = "UNSUBSCRIBE" /\ \A b : b # a => (Queued(b)' <=> Queued(b))
    BY <1>1, <1>11, <2>1, QueuePop DEF Dismisses
  <2>3. Queued(Subscribe(c))' <=> Queued(Subscribe(c))
    BY <2>2, ActionShape
  <2>4. ~Collects
    BY <1>11 DEF Dismisses, Collects, Pops
  <2>5. /\ Drained' = Drained /\ UNCHANGED <<sent, unsent, feed, since>>
        /\ proc = "drain" /\ proc' = "drain" /\ (Joined(c)' <=> Joined(c))
        /\ m_connections' \subseteq m_connections
    BY <1>2, <1>11, <2>4 DEF Dismisses, Pops, SameWorld
  <2> QED BY <1>1, <2>3, <2>5 DEF Served
<1>12. CASE Collects
  <2>1. PICK a : a = Head(m_actions)
    OBVIOUS
  <2>2. /\ a.type = "MESSAGE" /\ a \in Action
        /\ \A b : b # a => (Queued(b)' <=> Queued(b))
    BY <1>1, <1>12, <2>1, QueuePop DEF Collects
  <2>3. Queued(Subscribe(c))' <=> Queued(Subscribe(c))
    BY <2>2, ActionShape
  <2>4. /\ UNCHANGED <<m_connections, unsent, feed, since>> /\ sent' = Append(sent, a.entry)
        /\ proc = "drain" /\ proc' = "drain" /\ (Joined(c)' <=> Joined(c))
    BY <1>12, <2>1 DEF Collects, Pops, SameWorld
  <2>5. Len(sent') = Len(sent) + 1
    BY <1>1, <2>2, <2>4, ActionTypes, AppendProperties DEF TypeOK
  <2>6. Drained' - Len(sent') = Drained - Len(sent) /\ Drained <= Drained'
    BY <1>2, <1>3, <1>12, <2>5
  <2>7. c \in m_connections /\ feed[c] = <<>> =>
          Drained' - Len(sent') <= since[c] /\ since[c] <= Drained'
    BY <1>1, <1>2, <1>3, <2>6 DEF Served
  <2> QED BY <1>1, <2>3, <2>4, <2>6, <2>7 DEF Served
<1>13. ASSUME SameWorld, ~Collects, UNCHANGED <<m_actions, m_connections>>
       PROVE  /\ Drained' = Drained /\ since' = since /\ (Joined(c)' <=> Joined(c))
              /\ m_connections' = m_connections
              /\ Queued(Subscribe(c))' <=> Queued(Subscribe(c))
  BY <1>2, <1>13 DEF SameWorld, Queued
<1>14. CASE Begins
  <2>1. ~Collects
    BY <1>14 DEF Begins, StartSending, Collects, Pops
  <2>2. /\ Drained' = Drained /\ since' = since /\ (Joined(c)' <=> Joined(c))
        /\ m_connections' = m_connections
        /\ Queued(Subscribe(c))' <=> Queued(Subscribe(c))
    BY <1>13, <1>14, <2>1 DEF Begins, StartSending
  <2>3. /\ proc = "drain" /\ UNCHANGED <<sent, feed>>
        /\ proc' = "send" => unsent' = m_connections
    BY <1>14 DEF Begins, StartSending
  <2> QED BY <1>1, <2>2, <2>3 DEF Served
<1>15. ASSUME NEW d \in Connections, Hands(d) PROVE Served(c)'
  <2>1. ~Collects
    BY <1>15 DEF Hands, Send, Collects, Pops
  <2>2. /\ Drained' = Drained /\ since' = since /\ (Joined(c)' <=> Joined(c))
        /\ m_connections' = m_connections
        /\ Queued(Subscribe(c))' <=> Queued(Subscribe(c))
    BY <1>13, <1>15, <2>1 DEF Hands, Send
  <2>3. /\ proc = "send" /\ proc' = "send" /\ d \in unsent /\ unsent' = unsent \ {d} /\ sent' = sent
        /\ feed' = [feed EXCEPT ![d] = @ \o sent]
    BY <1>15 DEF Hands, Send
  <2>4. CASE d # c
    <3>1. feed'[c] = feed[c] /\ (c \in unsent' <=> c \in unsent)
      BY <1>1, <2>3, <2>4 DEF TypeOK
    <3> QED BY <1>1, <2>2, <2>3, <3>1 DEF Served
  <2>5. CASE d = c
    <3>1. c \in m_connections /\ sent # <<>> /\ sent \in Seq(1 .. MaxMessages)
      BY <1>1, <2>3, <2>5 DEF BatchInv, TypeOK
    <3>2. Joined(c) /\ ~Queued(Subscribe(c))
      BY <1>1, <3>1 DEF Membership
    <3>3. feed'[c] = feed[c] \o sent
      BY <1>1, <2>3, <2>5 DEF TypeOK
    <3>4. Len(sent) \in 1 .. Len(sent) /\ DOMAIN sent = 1 .. Len(sent) /\ Len(feed[c]) \in Nat
      BY <1>3, <3>1
    <3>5. sent[Len(sent)] = Drained
      <4>1. sent[Len(sent)] = Drained - Len(sent) + Len(sent)
        BY <1>1, <3>4 DEF BatchInv
      <4> QED BY <1>2, <1>3, <4>1
    <3>6. /\ Len(feed'[c]) = Len(feed[c]) + Len(sent)
          /\ \A i \in 1 .. Len(feed[c]) + Len(sent) :
               (feed'[c])[i] = IF i <= Len(feed[c]) THEN (feed[c])[i] ELSE sent[i - Len(feed[c])]
      BY <1>3, <3>1, <3>3, ConcatProperties
    <3>7. feed'[c] # <<>>
      BY <3>4, <3>6
    <3>8. (feed'[c])[Len(feed'[c])] = Drained
      <4>1. /\ Len(feed[c]) + Len(sent) \in 1 .. Len(feed[c]) + Len(sent)
            /\ ~(Len(feed[c]) + Len(sent) <= Len(feed[c]))
            /\ Len(feed[c]) + Len(sent) - Len(feed[c]) = Len(sent)
        BY <1>3, <3>4
      <4> QED BY <3>5, <3>6, <4>1
    <3> QED BY <2>2, <2>3, <2>5, <3>2, <3>7, <3>8 DEF Served
  <2> QED BY <2>4, <2>5
<1>16. CASE Ends
  <2>1. ~Collects
    BY <1>16 DEF Ends, Unlock, Collects, Pops
  <2>2. /\ Drained' = Drained /\ since' = since /\ (Joined(c)' <=> Joined(c))
        /\ m_connections' = m_connections
        /\ Queued(Subscribe(c))' <=> Queued(Subscribe(c))
    BY <1>13, <1>16, <2>1 DEF Ends, Unlock
  <2>3. proc = "send" /\ unsent = {} /\ proc' = "lock" /\ sent' = <<>> /\ feed' = feed
    BY <1>16 DEF Ends, Unlock
  <2>4. c \in m_connections => feed[c] # <<>> /\ feed[c][Len(feed[c])] = Drained
    BY <1>1, <2>3 DEF Served
  <2>5. Drained' - Len(sent') = Drained
    <3>1. Len(<<>>) = 0
      OBVIOUS
    <3> QED BY <1>2, <2>2, <2>3, <3>1
  <2> QED BY <1>1, <2>2, <2>3, <2>4, <2>5 DEF Served
<1> QED
  BY <1>5, <1>7, <1>8, <1>9, <1>10, <1>11, <1>12, <1>14, <1>15, <1>16 DEF Effect

-----------------------------------------------------------------------------
LEMMA InitSInv == Init => SInv
<1> SUFFICES ASSUME Init PROVE SInv
  OBVIOUS
<1>1. IInv
  BY InitIInv
<1>2. m_actions = <<>> /\ sent = <<>> /\ DOMAIN m_actions = {} /\ DOMAIN sent = {} /\ Len(sent) = 0
  BY DEF Init
<1>3. Drained = 0
  <2>1. Published = 0 /\ Len(m_actions) = 0
    BY <1>2 DEF Init, Published
  <2>2. TypeOK
    BY <1>1 DEF IInv
  <2>3. Drained = Published - Count(m_actions, Len(m_actions))
    BY <2>2, DrainedIs
  <2> QED BY <2>1, <2>3, CountNone
<1>4. HandlerInv /\ QueuedOnce /\ QueueInv
  BY <1>2, <1>3 DEF Init, HandlerInv, QueuedOnce, QueueInv
<1>5. BatchInv
  BY <1>2, <1>3 DEF Init, BatchInv
<1>6. ASSUME NEW c \in Connections PROVE Membership(c) /\ Served(c)
  BY <1>2 DEF Init, Membership, Served, Joined, Left, Queued
<1> QED BY <1>1, <1>4, <1>5, <1>6 DEF SInv

LEMMA NextSInv == SInv /\ [Next]_vars => SInv'
<1> SUFFICES ASSUME SInv, [Next]_vars PROVE SInv'
  OBVIOUS
<1>1. IInv' /\ TypeOK'
  BY NextType, NextWakeup DEF IInv, SInv
<1>2. HandlerInv'
  BY NextHandlerInv DEF SInv
<1>3. Effect
  BY StepEffect
<1> QED
  BY <1>1, <1>2, <1>3, EffectQueuedOnce, EffectMembership, EffectQueueInv,
     EffectBatchInv, EffectServed
  DEF SInv

LEMMA SInvHolds == Spec => []SInv
<1> QED BY InitSInv, NextSInv, PTL DEF Spec

LEMMA FollowsQueue == SInv => SubscribersInv
<1> SUFFICES ASSUME SInv PROVE SubscribersInv
  OBVIOUS
<1>1. TypeOK /\ QueueInv /\ BatchInv /\ \A c \in Connections : Membership(c) /\ Served(c)
  BY DEF SInv, IInv
<1>2. Registered
  BY <1>1 DEF Registered, Membership
<1>3. CaughtUp
  <2> SUFFICES ASSUME ~ActionLocked, NEW c \in m_connections
               PROVE  IF feed[c] = <<>> THEN since[c] = Drained
                                        ELSE feed[c][Len(feed[c])] = Drained
    BY DEF CaughtUp
  <2>1. c \in Connections
    BY <1>1 DEF TypeOK
  <2>2. sent = <<>> /\ proc # "send" /\ Drained \in Nat
    BY <1>1 DEF BatchInv, QueueInv, ActionLocked
  <2>3. Drained - Len(sent) = Drained
    BY <2>2
  <2>4. since[c] \in Nat
    BY <1>1, <2>1 DEF TypeOK
  <2>5. CASE feed[c] = <<>>
    <3>1. Drained <= since[c] /\ since[c] <= Drained
      BY <1>1, <2>1, <2>3, <2>5 DEF Served
    <3> QED BY <2>2, <2>4, <2>5, <3>1
  <2>6. CASE feed[c] # <<>>
    BY <1>1, <2>1, <2>2, <2>3, <2>6 DEF Served
  <2> QED BY <2>5, <2>6
<1> QED BY <1>1, <1>2, <1>3 DEF SubscribersInv

(* The set of subscribers follows the opened and ended connections as far  *)
(* as the queue has been worked off, and whenever the queue's lock is free *)
(* every subscriber has been handed all that left the queue since it       *)
(* joined, whoever joins, leaves or publishes while a batch goes out       *)
(* (process_messages, ywebsock.h:134-191).                                 *)
THEOREM SubscribersInvHolds == Spec => []SubscribersInv
<1> QED BY SInvHolds, FollowsQueue, PTL

-----------------------------------------------------------------------------
(* The server implements Feed: a step publishes, joins or delivers, or     *)
(* changes nothing that Feed sees.                                         *)

(* A batch is the interval that ends with the last entry drained, ...      *)
LEMMA BatchIsInterval ==
  ASSUME SInv, sent # <<>>
  PROVE  /\ Drained - Len(sent) + 1 \in 1 .. Drained
         /\ sent = [i \in 1 .. Drained - (Drained - Len(sent) + 1) + 1 |->
                      (Drained - Len(sent) + 1) + i - 1]
<1>1. sent \in Seq(1 .. MaxMessages) /\ BatchInv /\ Drained \in Nat
  BY DEF SInv, IInv, TypeOK, QueueInv
<1>2. /\ Len(sent) \in Nat /\ Len(sent) # 0 /\ DOMAIN sent = 1 .. Len(sent)
      /\ Len(sent) <= Drained
      /\ sent = [i \in 1 .. Len(sent) |-> sent[i]]
  BY <1>1 DEF BatchInv
<1>3. Drained - (Drained - Len(sent) + 1) + 1 = Len(sent)
  BY <1>1, <1>2
<1>4. \A i \in 1 .. Len(sent) : sent[i] = (Drained - Len(sent) + 1) + i - 1
  <2> SUFFICES ASSUME NEW i \in 1 .. Len(sent)
               PROVE  sent[i] = (Drained - Len(sent) + 1) + i - 1
    OBVIOUS
  <2>1. sent[i] = Drained - Len(sent) + i
    BY <1>1, <1>2 DEF BatchInv
  <2> QED BY <1>1, <1>2, <2>1
<1>5. Drained - Len(sent) + 1 \in 1 .. Drained
  BY <1>1, <1>2
<1>6. sent = [i \in 1 .. Len(sent) |-> (Drained - Len(sent) + 1) + i - 1]
  BY <1>2, <1>4
<1> QED BY <1>3, <1>5, <1>6

(* ... and it goes on where the subscriber's feed ends.                    *)
LEMMA BatchFollows ==
  ASSUME SInv, NEW c \in Connections, proc = "send", c \in unsent
  PROVE  /\ Joined(c)
         /\ IF feed[c] = <<>> THEN Drained - Len(sent) + 1 \in 1 .. since[c] + 1
                              ELSE Drained - Len(sent) + 1 = feed[c][Len(feed[c])] + 1
<1>1. TypeOK /\ BatchInv /\ Membership(c) /\ Served(c) /\ Drained \in Nat
  BY DEF SInv, IInv, QueueInv
<1>2. c \in m_connections /\ Len(sent) \in Nat /\ Len(sent) <= Drained /\ since[c] \in Nat
  BY <1>1 DEF BatchInv, TypeOK
<1>3. Joined(c)
  BY <1>1, <1>2 DEF Membership
<1>4. CASE feed[c] = <<>>
  <2>1. Drained - Len(sent) <= since[c]
    BY <1>1, <1>2, <1>4 DEF Served
  <2>2. Drained - Len(sent) + 1 \in 1 .. since[c] + 1
    BY <1>1, <1>2, <2>1
  <2> QED BY <1>3, <1>4, <2>2
<1>5. CASE feed[c] # <<>>
  <2>1. feed[c][Len(feed[c])] = Drained - Len(sent)
    BY <1>1, <1>2, <1>5 DEF Served
  <2> QED BY <1>3, <1>5, <2>1
<1> QED BY <1>4, <1>5

LEMMA DrainedPublished == SInv => Drained \in Nat /\ Drained <= Published /\ Published \in Nat
<1> SUFFICES ASSUME SInv PROVE Drained \in Nat /\ Drained <= Published /\ Published \in Nat
  OBVIOUS
<1>1. Drained \in Nat /\ Published \in Nat /\ TypeOK
  BY PublishedType DEF SInv, QueueInv, IInv
<1>2. Drained = Published - Count(m_actions, Len(m_actions)) /\ Count(m_actions, Len(m_actions)) \in Nat
  BY <1>1, DrainedIs
<1> QED BY <1>1, <1>2

LEMMA FeedInit == Init => FeedOfServer!Init
<1> SUFFICES ASSUME Init PROVE FeedOfServer!Init
  OBVIOUS
<1>1. Published = 0 /\ {c \in Connections : Joined(c)} = {}
  BY DEF Init, Published, Joined
<1> QED BY <1>1 DEF Init, FeedOfServer!Init

LEMMA FeedStep == SInv /\ [Next]_vars => [FeedOfServer!Next]_(FeedOfServer!vars)
<1> DEFINE joined == {c \in Connections : Joined(c)}
<1> SUFFICES ASSUME SInv, [Next]_vars
             PROVE  FeedOfServer!Next \/ UNCHANGED <<Published, joined, since, feed>>
  BY DEF FeedOfServer!vars
<1>1. Effect
  BY StepEffect
<1>2. TypeOK
  BY DEF SInv, IInv
<1>3. ASSUME SameWorld PROVE joined' = joined
  BY <1>3 DEF SameWorld
<1>4. CASE Still \/ Admits \/ Dismisses \/ Collects \/ Begins \/ Ends
  <2>1. SameWorld /\ UNCHANGED feed
    BY <1>4 DEF Still, Admits, Dismisses, Collects, Pops, Begins, Ends, StartSending, Unlock, procVars
  <2> QED BY <1>3, <2>1 DEF SameWorld
<1>5. CASE Publishes
  <2>1. joined' = joined
    BY <1>5 DEF Publishes
  <2>2. Published < MaxMessages /\ Published' = Published + 1 /\ UNCHANGED <<since, feed>>
    BY <1>5 DEF Publishes, Queues, procVars
  <2>3. FeedOfServer!Publish
    BY <2>1, <2>2 DEF FeedOfServer!Publish
  <2> QED BY <2>3 DEF FeedOfServer!Next
<1>6. ASSUME NEW c \in Connections, Joins(c) PROVE FeedOfServer!Next
  <2>1. c \notin joined /\ joined' = joined \cup {c}
    BY <1>6 DEF Joins
  <2>2. since' = [since EXCEPT ![c] = Published] /\ UNCHANGED <<Published, feed>>
    BY <1>6 DEF Joins, Queues, procVars
  <2>3. FeedOfServer!Join(c)
    BY <2>1, <2>2 DEF FeedOfServer!Join
  <2> QED BY <2>3 DEF FeedOfServer!Next
<1>7. ASSUME NEW c \in Connections, Leaves(c)
      PROVE  UNCHANGED <<Published, joined, since, feed>>
  <2>1. joined' = joined
    BY <1>7 DEF Leaves
  <2> QED BY <1>7, <2>1 DEF Leaves, Queues, procVars
<1>8. ASSUME NEW c \in Connections, Hands(c) PROVE FeedOfServer!Next
  <2> DEFINE first == Drained - Len(sent) + 1
             last == Drained
  <2>1. proc = "send" /\ c \in unsent /\ feed' = [feed EXCEPT ![c] = @ \o sent]
    BY <1>8 DEF Hands, Send
  <2>2. sent # <<>>
    BY <2>1 DEF SInv, BatchInv
  <2>3. first \in 1 .. last /\ sent = [i \in 1 .. last - first + 1 |-> first + i - 1]
    BY <2>2, BatchIsInterval
  <2>4. c \in joined /\ FeedOfServer!MayStart(c, first)
    BY <2>1, BatchFollows DEF FeedOfServer!MayStart
  <2>5. UNCHANGED <<Published, joined, since>>
    BY <1>3, <1>8 DEF Hands, SameWorld
  <2>6. first \in 1 .. Published /\ last \in 1 .. Published /\ first <= last
    BY <2>3, DrainedPublished
  <2>7. feed' = [feed EXCEPT ![c] = @ \o [i \in 1 .. last - first + 1 |-> first + i - 1]]
    BY <2>1, <2>3
  <2> HIDE DEF first, last
  <2>8. FeedOfServer!Deliver(c)
    BY <2>4, <2>5, <2>6, <2>7 DEF FeedOfServer!Deliver
  <2> QED BY <2>8 DEF FeedOfServer!Next
<1> QED BY <1>1, <1>4, <1>5, <1>6, <1>7, <1>8 DEF Effect

(* A subscriber is handed an unbroken stretch of state.messages, in order, *)
(* from no later than the first entry filed after its on_open.             *)
THEOREM ServerImplementsFeed == Spec => ImplementsFeed
<1>1. Init => FeedOfServer!Init
  BY FeedInit
<1>2. SInv /\ [Next]_vars => [FeedOfServer!Next]_(FeedOfServer!vars)
  BY FeedStep
<1> QED BY <1>1, <1>2, SInvHolds, PTL DEF Spec, ImplementsFeed, FeedOfServer!Spec

-----------------------------------------------------------------------------
(* From the processes to the browsers.  IpcServer implements ProcessLog,   *)
(* Broadcast implements Feed, and state.messages is what the two share:    *)
(* entry n of the one is log[n] of the other.                              *)

CONSTANTS Clients, MaxWrites
VARIABLES client, written, log

LogOfServer == INSTANCE ProcessLog

(* The parts run side by side on one state.messages (yprocmon.cc:27-30).   *)
Monitor == Spec /\ LogOfServer!Spec /\ [](messages = Len(log))

(* The log holds of each process its first messages, each once and in      *)
(* order.                                                                  *)
LogEntry == [author : Clients, seq : Nat]
FiledOf(a) == Cardinality({i \in DOMAIN log : log[i].author = a})
Prefixes ==
  /\ log \in Seq(LogEntry)
  /\ \A a \in Clients : \A j \in DOMAIN log :
       log[j].author = a => log[j].seq \in 1 .. FiledOf(a)
  /\ \A i, j \in DOMAIN log :
       i < j /\ log[i].author = log[j].author => log[i].seq < log[j].seq
  /\ \A a \in Clients : \A n \in 1 .. FiledOf(a) :
       \E i \in DOMAIN log : log[i].author = a /\ log[i].seq = n

(* What a subscriber was handed is an interval of what was published, and  *)
(* starts no later than the first entry published after it joined.         *)
IntervalOf(c) ==
  /\ ~Joined(c) => feed[c] = <<>>
  /\ \A i \in DOMAIN feed[c] :
       feed[c][i] \in 1 .. Published /\ feed[c][i] = feed[c][1] + i - 1
  /\ feed[c] # <<>> => feed[c][1] <= since[c] + 1
Intervals == \A c \in Connections : IntervalOf(c)

(* Counting is the same there and here.                                    *)
LEMMA SameCount == \A a : LogOfServer!Filed(a) = FiledOf(a)
<1>1. \A S : LogOfServer!Cardinality(S) = Cardinality(S)
  BY DEF Cardinality, LogOfServer!Cardinality
<1> QED BY <1>1 DEF FiledOf, LogOfServer!Filed

LEMMA FiledType ==
  ASSUME log \in Seq(LogEntry), NEW a PROVE FiledOf(a) \in Nat
<1>1. IsFiniteSet(DOMAIN log)
  <2>1. DOMAIN log = 1 .. Len(log) /\ Len(log) \in Nat
    OBVIOUS
  <2> QED BY <2>1, FS_Interval
<1>2. IsFiniteSet({i \in DOMAIN log : log[i].author = a})
  BY <1>1, FS_Subset
<1> QED BY <1>2, FS_CardinalityType DEF FiledOf

(* Appending an entry adds one to what is filed of its author.             *)
LEMMA FiledNext ==
  ASSUME log \in Seq(LogEntry), NEW e \in LogEntry, log' = Append(log, e), NEW a
  PROVE  FiledOf(a)' = IF e.author = a THEN FiledOf(a) + 1 ELSE FiledOf(a)
<1> DEFINE S == {i \in DOMAIN log : log[i].author = a}
           T == {i \in DOMAIN log' : log'[i].author = a}
           n == Len(log) + 1
<1>1. /\ Len(log) \in Nat /\ DOMAIN log = 1 .. Len(log) /\ DOMAIN log' = 1 .. n
      /\ log'[n] = e /\ \A i \in 1 .. Len(log) : log'[i] = log[i]
  OBVIOUS
<1>2. IsFiniteSet(S) /\ n \notin S
  <2>1. IsFiniteSet(DOMAIN log)
    BY <1>1, FS_Interval
  <2> QED BY <1>1, <2>1, FS_Subset
<1>3. T = IF e.author = a THEN S \cup {n} ELSE S
  <2>1. \A i \in DOMAIN log' : i \in DOMAIN log \/ i = n
    BY <1>1
  <2>2. DOMAIN log \subseteq DOMAIN log' /\ n \in DOMAIN log'
    BY <1>1
  <2> QED BY <1>1, <2>1, <2>2
<1>4. Cardinality(S \cup {n}) = Cardinality(S) + 1
  BY <1>2, FS_AddElement
<1> QED BY <1>3, <1>4 DEF FiledOf

LEMMA InitPrefixes == LogOfServer!Init => Prefixes
<1> SUFFICES ASSUME log = <<>> PROVE Prefixes
  BY DEF LogOfServer!Init
<1>1. DOMAIN log = {} /\ log \in Seq(LogEntry)
  OBVIOUS
<1>2. \A a : FiledOf(a) = 0
  <2>1. \A a : {i \in DOMAIN log : log[i].author = a} = {}
    BY <1>1
  <2> QED BY <2>1, FS_EmptySet DEF FiledOf
<1> QED BY <1>1, <1>2 DEF Prefixes

LEMMA NextPrefixes == Prefixes /\ [LogOfServer!Next]_(LogOfServer!vars) => Prefixes'
<1> SUFFICES ASSUME Prefixes, [LogOfServer!Next]_(LogOfServer!vars) PROVE Prefixes'
  OBVIOUS
<1>1. CASE UNCHANGED log
  <2>1. \A a : FiledOf(a)' = FiledOf(a)
    BY <1>1 DEF FiledOf
  <2> QED BY <1>1, <2>1 DEF Prefixes
<1>2. ASSUME NEW c \in Clients, LogOfServer!File(c) PROVE Prefixes'
  <2>1. PICK e \in LogEntry : /\ e.author = c /\ e.seq = FiledOf(c) + 1
                              /\ log' = Append(log, e)
    <3>1. FiledOf(c) \in Nat
      BY FiledType DEF Prefixes
    <3>2. log' = Append(log, [author |-> c, seq |-> FiledOf(c) + 1])
      BY <1>2, SameCount DEF LogOfServer!File
    <3>3. [author |-> c, seq |-> FiledOf(c) + 1] \in LogEntry
      BY <3>1 DEF LogEntry
    <3> QED BY <3>2, <3>3
  <2>2. PICK n : n = Len(log) + 1
    OBVIOUS
  <2>3. log \in Seq(LogEntry) /\ \A a : FiledOf(a) \in Nat
    BY FiledType DEF Prefixes
  <2>4. \A a : FiledOf(a)' = IF a = c THEN FiledOf(a) + 1 ELSE FiledOf(a)
    BY <2>1, <2>3, FiledNext
  <2>5. /\ log' \in Seq(LogEntry) /\ DOMAIN log' = 1 .. n /\ n \in 1 .. n
        /\ DOMAIN log = 1 .. n - 1
        /\ log'[n] = e /\ \A i \in DOMAIN log : log'[i] = log[i]
    BY <2>1, <2>2, <2>3
  <2>6. \A i \in DOMAIN log' : i \in DOMAIN log \/ i = n
    BY <2>5
  <2>7. \A i \in DOMAIN log : log[i].author \in Clients /\ log[i].seq \in Nat
    <3>1. \A i \in DOMAIN log : log[i] \in LogEntry
      BY <2>3
    <3> QED BY <3>1 DEF LogEntry
  <2>8. ASSUME NEW a \in Clients, NEW j \in DOMAIN log', log'[j].author = a
        PROVE  log'[j].seq \in 1 .. FiledOf(a)'
    <3>1. CASE j \in DOMAIN log
      <4>1. log[j].seq \in 1 .. FiledOf(a)
        BY <2>5, <2>8, <3>1 DEF Prefixes
      <4>2. FiledOf(a) \in Nat /\ FiledOf(a)' \in {FiledOf(a), FiledOf(a) + 1}
        BY <2>3, <2>4
      <4>3. log[j].seq \in 1 .. FiledOf(a)'
        BY <4>1, <4>2
      <4> QED BY <2>5, <3>1, <4>3
    <3>2. CASE j = n
      <4>1. FiledOf(c)' = FiledOf(c) + 1 /\ FiledOf(c) \in Nat
        BY <2>3, <2>4
      <4>2. e.seq \in 1 .. FiledOf(c)'
        BY <2>1, <4>1
      <4>3. a = c
        BY <2>1, <2>5, <2>8, <3>2
      <4> QED BY <2>5, <3>2, <4>2, <4>3
    <3> QED BY <2>6, <3>1, <3>2
  <2>9. ASSUME NEW i \in DOMAIN log', NEW j \in DOMAIN log',
               i < j, log'[i].author = log'[j].author
        PROVE  log'[i].seq < log'[j].seq
    <3>1. i \in DOMAIN log
      BY <2>5, <2>9
    <3>2. CASE j \in DOMAIN log
      BY <2>5, <2>9, <3>1, <3>2 DEF Prefixes
    <3>3. CASE j = n
      <4>1. log[i].author = c /\ log[i].seq \in 1 .. FiledOf(c)
        BY <2>1, <2>5, <2>9, <3>1, <3>3 DEF Prefixes
      <4> QED BY <2>1, <2>3, <2>5, <3>1, <3>3, <4>1
    <3> QED BY <2>6, <3>2, <3>3
  <2>10. ASSUME NEW a \in Clients, NEW m \in 1 .. FiledOf(a)'
         PROVE  \E i \in DOMAIN log' : log'[i].author = a /\ log'[i].seq = m
    <3>1. FiledOf(a) \in Nat /\ FiledOf(c) \in Nat
      BY <2>3
    <3>2. CASE m \in 1 .. FiledOf(a)
      <4>1. PICK i \in DOMAIN log : log[i].author = a /\ log[i].seq = m
        BY <3>2 DEF Prefixes
      <4> QED BY <2>5, <4>1
    <3>3. CASE m \notin 1 .. FiledOf(a)
      <4>1. a = c /\ m = FiledOf(c) + 1
        BY <2>4, <2>10, <3>1, <3>3
      <4>2. n \in DOMAIN log'
        BY <2>5
      <4> QED BY <2>1, <2>5, <4>1, <4>2
    <3> QED BY <3>2, <3>3
  <2> QED BY <2>5, <2>8, <2>9, <2>10 DEF Prefixes
<1> QED BY <1>1, <1>2 DEF LogOfServer!Next, LogOfServer!vars, LogOfServer!Start,
      LogOfServer!Write, LogOfServer!Close

(* The predecessor of an entry is filed before it.                         *)
LEMMA Predecessor ==
  ASSUME Prefixes, NEW j \in DOMAIN log, log[j].seq > 1
  PROVE  \E i \in 1 .. j - 1 : log[i].author = log[j].author /\ log[i].seq + 1 = log[j].seq
<1>1. /\ DOMAIN log = 1 .. Len(log) /\ Len(log) \in Nat
      /\ \A i \in DOMAIN log : log[i].author \in Clients /\ log[i].seq \in Nat
  <2>1. log \in Seq(LogEntry)
    BY DEF Prefixes
  <2>2. \A i \in DOMAIN log : log[i] \in LogEntry
    BY <2>1
  <2> QED BY <2>1, <2>2 DEF LogEntry
<1>2. PICK a \in Clients : a = log[j].author
  BY <1>1
<1>3. FiledOf(a) \in Nat
  BY FiledType DEF Prefixes
<1>4. log[j].seq \in 1 .. FiledOf(a)
  BY <1>2 DEF Prefixes
<1>5. log[j].seq - 1 \in 1 .. FiledOf(a)
  BY <1>3, <1>4
<1>6. PICK i \in DOMAIN log : log[i].author = a /\ log[i].seq = log[j].seq - 1
  BY <1>5 DEF Prefixes
<1>7. ~(j < i) /\ i # j
  <2>1. j < i => log[j].seq < log[i].seq
    BY <1>2, <1>6 DEF Prefixes
  <2> QED BY <1>1, <1>4, <1>6, <2>1
<1>8. i \in 1 .. j - 1
  BY <1>1, <1>7
<1> QED BY <1>1, <1>2, <1>6, <1>8

LEMMA InitIntervals == FeedOfServer!Init => Intervals
BY DEF FeedOfServer!Init, Intervals, IntervalOf

LEMMA NextIntervals ==
  TypeOK /\ PushInv /\ Intervals /\ [FeedOfServer!Next]_(FeedOfServer!vars) => Intervals'
<1> DEFINE joined == {c \in Connections : Joined(c)}
<1> SUFFICES ASSUME TypeOK, PushInv, Intervals, NEW c \in Connections,
                    [FeedOfServer!Next]_(FeedOfServer!vars)
             PROVE  IntervalOf(c)'
  BY DEF Intervals
<1>1. /\ feed \in [Connections -> Seq(1 .. MaxMessages)]
      /\ since \in [Connections -> 0 .. MaxMessages]
      /\ Published \in Nat
  <2>1. messages \in Nat /\ (ipc = "push" => messages > 0)
    BY MaxMessagesAssumption DEF TypeOK, PushInv
  <2> QED BY <2>1 DEF TypeOK, Published
<1>2. IntervalOf(c) /\ feed[c] \in Seq(1 .. MaxMessages) /\ since[c] \in Nat
  BY <1>1 DEF Intervals
<1>3. CASE UNCHANGED <<Published, joined, since, feed>>
  <2>1. Joined(c)' <=> Joined(c)
    BY <1>3
  <2> QED BY <1>2, <1>3, <2>1 DEF IntervalOf
<1>4. CASE FeedOfServer!Publish
  <2>1. Published' = Published + 1 /\ UNCHANGED <<joined, since, feed>>
    BY <1>4 DEF FeedOfServer!Publish
  <2>2. Joined(c)' <=> Joined(c)
    BY <2>1
  <2>3. \A i \in DOMAIN feed[c] : feed[c][i] \in 1 .. Published'
    BY <1>1, <1>2, <2>1 DEF IntervalOf
  <2> QED BY <1>2, <2>1, <2>2, <2>3 DEF IntervalOf
<1>5. ASSUME NEW d \in Connections, FeedOfServer!Join(d) PROVE IntervalOf(c)'
  <2>1. /\ d \notin joined /\ joined' = joined \cup {d}
        /\ since' = [since EXCEPT ![d] = Published]
        /\ UNCHANGED <<Published, feed>>
    BY <1>5 DEF FeedOfServer!Join
  <2>2. CASE c = d
    <3>1. feed[c] = <<>>
      BY <1>2, <2>1, <2>2 DEF IntervalOf
    <3> QED BY <2>1, <3>1 DEF IntervalOf
  <2>3. CASE c # d
    <3>1. (Joined(c)' <=> Joined(c)) /\ since'[c] = since[c]
      BY <1>1, <2>1, <2>3
    <3> QED BY <1>2, <2>1, <3>1 DEF IntervalOf
  <2> QED BY <2>2, <2>3
<1>6. ASSUME NEW d \in Connections, FeedOfServer!Deliver(d) PROVE IntervalOf(c)'
  <2>1. PICK first \in 1 .. Published, last \in 1 .. Published :
          /\ FeedOfServer!MayStart(d, first) /\ first <= last
          /\ feed' = [feed EXCEPT ![d] = @ \o [i \in 1 .. last - first + 1 |-> first + i - 1]]
    BY <1>6 DEF FeedOfServer!Deliver
  <2>2. d \in joined /\ UNCHANGED <<Published, joined, since>>
    BY <1>6 DEF FeedOfServer!Deliver
  <2>3. CASE c # d
    <3>1. (Joined(c)' <=> Joined(c)) /\ feed'[c] = feed[c]
      BY <1>1, <2>1, <2>2, <2>3
    <3> QED BY <1>2, <2>2, <3>1 DEF IntervalOf
  <2>4. CASE c = d
    <3> DEFINE batch == [i \in 1 .. last - first + 1 |-> first + i - 1]
    <3>1. PICK n, m : n = Len(feed[c]) /\ m = last - first + 1
      OBVIOUS
    <3>2. n \in Nat /\ m \in Nat /\ m > 0 /\ DOMAIN feed[c] = 1 .. n
      BY <1>1, <1>2, <2>1, <3>1
    <3>3. batch \in Seq(Nat) /\ Len(batch) = m /\ \A i \in 1 .. m : batch[i] = first + i - 1
      BY <1>1, <2>1, <3>1, <3>2
    <3> HIDE DEF batch
    <3>4. feed'[c] = feed[c] \o batch
      BY <1>1, <2>1, <2>4 DEF batch
    <3>5. feed[c] \in Seq(Nat)
      BY <1>2, MaxMessagesAssumption
    <3>6. /\ DOMAIN feed'[c] = 1 .. n + m
          /\ \A i \in 1 .. n : feed'[c][i] = feed[c][i]
          /\ \A i \in n + 1 .. n + m : feed'[c][i] = first + (i - n) - 1
      <4>1. /\ DOMAIN (feed[c] \o batch) = 1 .. n + m
            /\ \A i \in 1 .. n + m :
                 (feed[c] \o batch)[i] = IF i <= n THEN feed[c][i] ELSE batch[i - n]
        <5>1. PICK p \in Seq(Nat), q \in Seq(Nat) : p = feed[c] /\ q = batch
          BY <3>3, <3>5
        <5>2. Len(p) = n /\ Len(q) = m
          BY <3>1, <3>3, <5>1
        <5>3. /\ p \o q \in Seq(Nat) /\ Len(p \o q) = n + m
              /\ \A i \in 1 .. n + m : (p \o q)[i] = IF i <= n THEN p[i] ELSE q[i - n]
          BY <5>2, ConcatProperties
        <5>4. DOMAIN (p \o q) = 1 .. n + m
          BY <5>3, LenProperties
        <5> QED BY <5>1, <5>3, <5>4
      <4>2. \A i \in n + 1 .. n + m : i - n \in 1 .. m /\ i \in 1 .. n + m /\ ~(i <= n)
        BY <3>2
      <4>3. \A i \in 1 .. n : i \in 1 .. n + m /\ i <= n
        BY <3>2
      <4> QED BY <3>3, <3>4, <4>1, <4>2, <4>3
    <3>7. IF n = 0 THEN first <= since[c] + 1 ELSE first = feed[c][1] + n
      <4>1. CASE n = 0
        <5>1. feed[c] = <<>>
          BY <3>1, <3>5, <4>1, EmptySeq
        <5> QED BY <1>2, <2>1, <2>4, <4>1, <5>1 DEF FeedOfServer!MayStart
      <4>2. CASE n # 0
        <5>1. feed[c] # <<>> /\ n \in DOMAIN feed[c]
          BY <3>1, <3>2, <4>2
        <5>2. first = feed[c][n] + 1
          BY <2>1, <2>4, <3>1, <5>1 DEF FeedOfServer!MayStart
        <5>3. feed[c][n] = feed[c][1] + n - 1 /\ 1 \in DOMAIN feed[c]
          BY <1>2, <3>2, <4>2, <5>1 DEF IntervalOf
        <5>4. feed[c][1] \in Nat
          BY <3>5, <5>3
        <5> QED BY <3>2, <4>2, <5>2, <5>3, <5>4
      <4> QED BY <4>1, <4>2
    <3>8. PICK k \in Nat : k = (IF n = 0 THEN first ELSE feed[c][1])
      <4>1. CASE n = 0
        BY <1>1, <4>1
      <4>2. CASE n # 0
        <5>1. 1 \in DOMAIN feed[c]
          BY <3>2, <4>2
        <5> QED BY <3>5, <4>2, <5>1
      <4> QED BY <4>1, <4>2
    <3>9. first = k + n /\ first \in Nat /\ last \in 1 .. Published /\ first >= 1 /\ since[c] \in Nat
      BY <1>1, <1>2, <3>2, <3>7, <3>8
    <3>10. feed'[c][1] = k /\ k <= since[c] + 1
      <4>1. CASE n = 0
        <5>1. 1 \in n + 1 .. n + m
          BY <3>2, <4>1
        <5> QED BY <3>6, <3>7, <3>8, <3>9, <4>1, <5>1
      <4>2. CASE n # 0
        <5>1. 1 \in 1 .. n /\ feed[c] # <<>>
          BY <3>1, <3>2, <4>2
        <5> QED BY <1>2, <3>6, <3>8, <4>2, <5>1 DEF IntervalOf
      <4> QED BY <4>1, <4>2
    <3>11. ASSUME NEW i \in 1 .. n + m
           PROVE  feed'[c][i] \in 1 .. Published /\ feed'[c][i] = k + i - 1
      <4>1. CASE i \in 1 .. n
        <5>1. feed[c][i] \in 1 .. Published /\ feed[c][i] = feed[c][1] + i - 1
          BY <1>2, <3>2, <4>1 DEF IntervalOf
        <5>2. n # 0
          BY <3>2, <4>1
        <5> QED BY <3>6, <3>8, <4>1, <5>1, <5>2
      <4>2. CASE i \in n + 1 .. n + m
        <5>1. feed'[c][i] = first + (i - n) - 1
          BY <3>6, <4>2
        <5>2. feed'[c][i] = k + i - 1
          BY <3>2, <3>9, <5>1
        <5>3. first + (i - n) - 1 \in 1 .. Published
          BY <1>1, <3>1, <3>2, <3>9, <4>2
        <5> QED BY <5>1, <5>2, <5>3
      <4> QED BY <3>2, <4>1, <4>2
    <3>12. Joined(c)' /\ since'[c] = since[c] /\ Published' = Published
      <4>1. c \in joined' /\ UNCHANGED <<Published, since>>
        BY <2>2, <2>4
      <4> QED BY <4>1
    <3> QED BY <3>6, <3>10, <3>11, <3>12 DEF IntervalOf
  <2> QED BY <2>3, <2>4
<1> QED BY <1>3, <1>4, <1>5, <1>6 DEF FeedOfServer!Next, FeedOfServer!vars

-----------------------------------------------------------------------------
(* Of each process a browser is handed messages in order, each once; and   *)
(* the one before a message that it is handed came before it, unless that  *)
(* was published before the browser joined.                                *)
NoGapInAnyProcess ==
  \A c \in Connections : \A j \in DOMAIN feed[c] :
    /\ \A i \in 1 .. j - 1 :
         log[feed[c][i]].author = log[feed[c][j]].author
           => log[feed[c][i]].seq < log[feed[c][j]].seq
    /\ log[feed[c][j]].seq > 1 =>
         \/ \E i \in 1 .. j - 1 :
              /\ log[feed[c][i]].author = log[feed[c][j]].author
              /\ log[feed[c][i]].seq + 1 = log[feed[c][j]].seq
         \/ \E n \in 1 .. since[c] :
              /\ log[n].author = log[feed[c][j]].author
              /\ log[n].seq + 1 = log[feed[c][j]].seq

LEMMA IntervalsOfPrefixes ==
  ASSUME TypeOK, PushInv, Prefixes, Intervals, messages = Len(log)
  PROVE  NoGapInAnyProcess
<1> SUFFICES ASSUME NEW c \in Connections, NEW j \in DOMAIN feed[c]
             PROVE  /\ \A i \in 1 .. j - 1 :
                         log[feed[c][i]].author = log[feed[c][j]].author
                           => log[feed[c][i]].seq < log[feed[c][j]].seq
                    /\ log[feed[c][j]].seq > 1 =>
                         \/ \E i \in 1 .. j - 1 :
                              /\ log[feed[c][i]].author = log[feed[c][j]].author
                              /\ log[feed[c][i]].seq + 1 = log[feed[c][j]].seq
                         \/ \E n \in 1 .. since[c] :
                              /\ log[n].author = log[feed[c][j]].author
                              /\ log[n].seq + 1 = log[feed[c][j]].seq
  BY DEF NoGapInAnyProcess
<1>1. IntervalOf(c) /\ since[c] \in Nat /\ Published \in Nat
  BY MaxMessagesAssumption DEF Intervals, TypeOK, PushInv, Published
<1>2. PICK l : l = Len(feed[c])
  OBVIOUS
<1>3. l \in Nat /\ DOMAIN feed[c] = 1 .. l /\ feed[c] # <<>>
  <2>1. feed[c] \in Seq(1 .. MaxMessages)
    BY DEF TypeOK
  <2> QED BY <1>2, <2>1
<1>4. DOMAIN log = 1 .. messages /\ messages \in Nat /\ Published <= messages
  <2>1. log \in Seq(LogEntry) /\ messages \in Nat
    BY MaxMessagesAssumption DEF Prefixes, TypeOK
  <2> QED BY <2>1 DEF Published
<1>5. PICK k \in Nat : k = feed[c][1]
  <2>1. 1 \in DOMAIN feed[c]
    BY <1>3
  <2> QED BY <1>1, <2>1 DEF IntervalOf
<1>6. k <= since[c] + 1
  BY <1>1, <1>3, <1>5 DEF IntervalOf
<1>7. ASSUME NEW i \in 1 .. l
      PROVE  feed[c][i] = k + i - 1 /\ feed[c][i] \in DOMAIN log
  <2>1. feed[c][i] \in 1 .. Published /\ feed[c][i] = feed[c][1] + i - 1
    BY <1>1, <1>3, <1>7 DEF IntervalOf
  <2>2. feed[c][i] \in 1 .. messages
    BY <1>1, <1>4, <2>1
  <2> QED BY <1>4, <1>5, <2>1, <2>2
<1>8. j \in 1 .. l /\ \A i \in 1 .. j - 1 : i \in 1 .. l
  BY <1>3
<1>9. ASSUME NEW i \in 1 .. j - 1, log[feed[c][i]].author = log[feed[c][j]].author
      PROVE  log[feed[c][i]].seq < log[feed[c][j]].seq
  <2>1. feed[c][i] < feed[c][j]
    BY <1>7, <1>8
  <2> QED BY <1>7, <1>8, <1>9, <2>1 DEF Prefixes
<1>10. ASSUME log[feed[c][j]].seq > 1
       PROVE  \/ \E i \in 1 .. j - 1 :
                   /\ log[feed[c][i]].author = log[feed[c][j]].author
                   /\ log[feed[c][i]].seq + 1 = log[feed[c][j]].seq
              \/ \E n \in 1 .. since[c] :
                   /\ log[n].author = log[feed[c][j]].author
                   /\ log[n].seq + 1 = log[feed[c][j]].seq
  <2>1. feed[c][j] \in DOMAIN log /\ feed[c][j] = k + j - 1
    BY <1>7, <1>8
  <2>2. PICK n \in 1 .. feed[c][j] - 1 :
          log[n].author = log[feed[c][j]].author /\ log[n].seq + 1 = log[feed[c][j]].seq
    BY <1>10, <2>1, Predecessor
  <2>3. CASE n >= k
    <3>1. PICK i \in 1 .. j - 1 : i = n - k + 1
      BY <1>8, <2>1, <2>3
    <3>2. i \in 1 .. l
      BY <1>8, <3>1
    <3>3. feed[c][i] = n
      BY <1>7, <3>1, <3>2
    <3> QED BY <2>2, <3>1, <3>3
  <2>4. CASE n < k
    <3>1. n \in 1 .. since[c]
      BY <1>1, <1>6, <2>1, <2>4
    <3> QED BY <2>2, <3>1
  <2> QED BY <1>8, <2>1, <2>3, <2>4
<1> QED BY <1>9, <1>10

THEOREM NoGapInAnyProcessHolds == Monitor => []NoGapInAnyProcess
<1>1. LogOfServer!Spec => []Prefixes
  BY InitPrefixes, NextPrefixes, PTL DEF LogOfServer!Spec
<1>2. Spec => FeedOfServer!Spec /\ [](TypeOK /\ PushInv)
  <2>1. IInv => TypeOK /\ PushInv
    BY DEF IInv
  <2> QED BY <2>1, ServerImplementsFeed, Invariant, PTL DEF ImplementsFeed
<1>3. FeedOfServer!Spec /\ [](TypeOK /\ PushInv) => []Intervals
  BY InitIntervals, NextIntervals, PTL DEF FeedOfServer!Spec
<1>4. TypeOK /\ PushInv /\ Prefixes /\ Intervals /\ messages = Len(log) => NoGapInAnyProcess
  BY IntervalsOfPrefixes
<1> QED BY <1>1, <1>2, <1>3, <1>4, PTL DEF Monitor
=============================================================================
