----------------------------- MODULE Broadcast -----------------------------
(***************************************************************************)
(* The road of a message from push_message to the browsers: yprocmon.cc    *)
(* appends it to state.messages and hands it to broadcast_server           *)
(* (src/src/ywebsock.h), whose processing thread drains the queue and      *)
(* sends what it found to every subscriber as one batch.                   *)
(*                                                                         *)
(* Threads: the IPC thread (ipc), the asio thread that runs the handlers   *)
(* of all connections (asio), the processing thread (proc) and an HTTP     *)
(* worker that needs state_mutex (api).  An action ends where the code     *)
(* releases a lock, waits, or returns to its event loop; sends and pops    *)
(* are actions of their own because connections change state meanwhile.    *)
(* websocketpp is external: con holds what the server can observe of it.   *)
(***************************************************************************)
EXTENDS Naturals, Sequences, FiniteSets

CONSTANTS
  Connections,  \* connection handles; a browser that reconnects is a new one
  Nobody,       \* "no connection"
  MaxMessages   \* bound on the messages the IPC thread files

ASSUME ConnectionsAssumption == Nobody \notin Connections
ASSUME MaxMessagesAssumption == MaxMessages \in Nat

(* struct action.  An entry is its position in state.messages.             *)
Action == [type : {"SUBSCRIBE", "UNSUBSCRIBE"}, hdl : Connections, entry : {0}]
            \cup [type : {"MESSAGE"}, hdl : {Nobody}, entry : 1 .. MaxMessages]

Subscribe(c)   == [type |-> "SUBSCRIBE",   hdl |-> c,      entry |-> 0]
Unsubscribe(c) == [type |-> "UNSUBSCRIBE", hdl |-> c,      entry |-> 0]
MessageOf(n)   == [type |-> "MESSAGE",     hdl |-> Nobody, entry |-> n]

VARIABLES
  messages,       \* number of entries in state.messages
  ipc,            \* IPC thread inside push_message; it holds state_mutex
  api,            \* HTTP worker that has a request needing state_mutex
  asio,           \* asio thread: its place in run, on_open or on_close
  handle,         \* the connection on_open or on_close was called with
  con,            \* state of each connection in websocketpp
  m_actions,      \* the queue
  proc,           \* processing thread
  m_connections,  \* the subscribers
  sent,           \* entries of the batch being collected or sent
  unsent,         \* connections the send loop has not come to
  feed,           \* entries handed to each connection
  since,          \* history: entries queued before each SUBSCRIBE
  crashed         \* std::terminate was called: the program is gone

filerVars == <<messages, ipc, api>>
netVars   == <<asio, handle, con>>
procVars  == <<m_connections, sent, unsent, feed>>
vars == <<filerVars, netVars, m_actions, proc, procVars, since, crashed>>

TypeOK ==
  /\ messages \in 0 .. MaxMessages
  /\ ipc \in {"idle", "push", "notify"}
  /\ api \in {"idle", "waiting"}
  /\ asio \in {"listen", "run", "on_open", "on_close", "notify"}
  /\ handle \in Connections \cup {Nobody}
  /\ con \in [Connections -> {"none", "open", "closing", "closed", "gone"}]
  /\ m_actions \in Seq(Action)
  /\ proc \in {"lock", "wait", "drain", "send"}
  /\ m_connections \subseteq Connections
  /\ sent \in Seq(1 .. MaxMessages)
  /\ unsent \subseteq Connections
  /\ feed \in [Connections -> Seq(1 .. MaxMessages)]
  /\ since \in [Connections -> 0 .. MaxMessages]
  /\ crashed \in BOOLEAN

Init ==
  /\ messages = 0 /\ ipc = "idle" /\ api = "idle"
  /\ asio = "listen" /\ handle = Nobody
  /\ con = [c \in Connections |-> "none"]
  /\ m_actions = <<>>
  /\ proc = "lock"
  /\ m_connections = {} /\ sent = <<>> /\ unsent = {}
  /\ feed  = [c \in Connections |-> <<>>]
  /\ since = [c \in Connections |-> 0]
  /\ crashed = FALSE

(* state_mutex is held through push_message, the notification included;    *)
(* m_action_lock through a batch, its sends included (ywebsock.h:134-191), *)
(* but not in wait().                                                      *)
StateLocked  == ipc # "idle"
ActionLocked == proc \in {"drain", "send"}

(* Mutant: nobody is notified.                                             *)
NotifiesNobody == UNCHANGED proc

(* m_action_cond.notify_one: only the processing thread ever waits on it.  *)
Notify == proc' = IF proc = "wait" THEN "lock" ELSE proc

Push(a) ==
  /\ ~ActionLocked
  /\ m_actions' = Append(m_actions, a)

(* Entries that have reached the queue.                                    *)
Published == IF ipc = "push" THEN messages - 1 ELSE messages

-----------------------------------------------------------------------------
(* yprocmon.cc: the IPC thread in push_message, an HTTP worker in a        *)
(* handler that takes state_mutex (/api/instances, /api/run).              *)

PushMessage ==
  /\ ipc = "idle" /\ messages < MaxMessages
  /\ messages' = messages + 1
  /\ ipc' = "push"
  /\ UNCHANGED <<api, netVars, m_actions, proc, procVars, since, crashed>>

PushMessageEntry ==
  /\ ipc = "push"
  /\ Push(MessageOf(messages))
  /\ ipc' = "notify"
  /\ UNCHANGED <<messages, api, netVars, proc, procVars, since, crashed>>

NotifyEntry ==
  /\ ipc = "notify"
  /\ Notify
  /\ ipc' = "idle"
  /\ UNCHANGED <<messages, api, netVars, m_actions, procVars, since, crashed>>

Request ==
  /\ api = "idle" /\ api' = "waiting"
  /\ UNCHANGED <<messages, ipc, netVars, m_actions, proc, procVars, since, crashed>>

Answer ==
  /\ api = "waiting" /\ ~StateLocked /\ api' = "idle"
  /\ UNCHANGED <<messages, ipc, netVars, m_actions, proc, procVars, since, crashed>>

-----------------------------------------------------------------------------
(* The asio thread.                                                        *)

(* run: the port is listened on, ...                                       *)
Listen ==
  /\ asio = "listen" /\ asio' = "run"
  /\ UNCHANGED <<filerVars, handle, con, m_actions, proc, procVars, since, crashed>>

(* ... or is taken: listen() throws, which destroys the joinable thread t  *)
(* of start_websocket_server on its way to the catch (ywebsock.h:213-219). *)
ListenFails ==
  /\ asio = "listen" /\ crashed' = TRUE
  /\ UNCHANGED <<filerVars, netVars, m_actions, proc, procVars, since>>

(* A handshake completes, which opens the connection and calls on_open.    *)
Accept(c) ==
  /\ asio = "run" /\ con[c] = "none"
  /\ con' = [con EXCEPT ![c] = "open"]
  /\ asio' = "on_open" /\ handle' = c
  /\ UNCHANGED <<filerVars, m_actions, proc, procVars, since, crashed>>

(* The browser's close frame is read and answered, ...                     *)
StartClosing(c) ==
  /\ asio = "run" /\ con[c] = "open"
  /\ con' = [con EXCEPT ![c] = "closing"]
  /\ UNCHANGED <<filerVars, asio, handle, m_actions, proc, procVars, since, crashed>>

(* ... and in the end, or at once when the connection breaks, terminate()  *)
(* closes it.                                                              *)
Terminate(c) ==
  /\ asio = "run" /\ con[c] \in {"open", "closing"}
  /\ con' = [con EXCEPT ![c] = "closed"]
  /\ UNCHANGED <<filerVars, asio, handle, m_actions, proc, procVars, since, crashed>>

(* The shutdown of its socket completes, which calls on_close.             *)
HandleTerminate(c) ==
  /\ asio = "run" /\ con[c] = "closed"
  /\ con' = [con EXCEPT ![c] = "gone"]
  /\ asio' = "on_close" /\ handle' = c
  /\ UNCHANGED <<filerVars, m_actions, proc, procVars, since, crashed>>

OnOpen ==
  /\ asio = "on_open"
  /\ Push(Subscribe(handle))
  /\ since' = [since EXCEPT ![handle] = Published]
  /\ asio' = "notify"
  /\ UNCHANGED <<filerVars, handle, con, proc, procVars, crashed>>

OnClose ==
  /\ asio = "on_close"
  /\ Push(Unsubscribe(handle))
  /\ asio' = "notify"
  /\ UNCHANGED <<filerVars, handle, con, proc, procVars, since, crashed>>

NotifyAction ==
  /\ asio = "notify"
  /\ Notify
  /\ asio' = "run" /\ handle' = Nobody
  /\ UNCHANGED <<filerVars, con, m_actions, procVars, since, crashed>>

-----------------------------------------------------------------------------
(* The processing thread: process_messages.                                *)

(* It takes m_action_lock and waits, which gives the lock back, while the  *)
(* queue is empty.                                                         *)
LockOrWait ==
  /\ proc = "lock"
  /\ proc' = IF m_actions = <<>> THEN "wait" ELSE "drain"
  /\ UNCHANGED <<filerVars, netVars, m_actions, procVars, since, crashed>>

SpuriousWakeup ==
  /\ proc = "wait" /\ proc' = "lock"
  /\ UNCHANGED <<filerVars, netVars, m_actions, procVars, since, crashed>>

(* One turn of the inner loop pops one action.                             *)
Pop(type) ==
  /\ proc = "drain" /\ m_actions # <<>> /\ Head(m_actions).type = type
  /\ m_actions' = Tail(m_actions)
  /\ UNCHANGED <<filerVars, netVars, proc, unsent, feed, since, crashed>>

DrainSubscribe ==
  /\ Pop("SUBSCRIBE")
  /\ m_connections' = m_connections \cup {Head(m_actions).hdl}
  /\ UNCHANGED sent

DrainUnsubscribe ==
  /\ Pop("UNSUBSCRIBE")
  /\ m_connections' = m_connections \ {Head(m_actions).hdl}
  /\ UNCHANGED sent

(* Mutants: only the last entry of a batch survives; state_mutex is taken  *)
(* under m_action_lock.                                                    *)
DrainLastMessage ==
  /\ Pop("MESSAGE")
  /\ sent' = <<Head(m_actions).entry>>
  /\ UNCHANGED m_connections

DrainMessageLocked ==
  /\ Pop("MESSAGE") /\ ~StateLocked
  /\ sent' = Append(sent, Head(m_actions).entry)
  /\ UNCHANGED m_connections

DrainMessage ==
  /\ Pop("MESSAGE")
  /\ sent' = Append(sent, Head(m_actions).entry)
  /\ UNCHANGED m_connections

(* The queue is empty: the batch goes to everyone subscribed by now; with  *)
(* no data the lock is released.                                           *)
StartSending ==
  /\ proc = "drain" /\ m_actions = <<>>
  /\ proc' = IF sent # <<>> THEN "send" ELSE "lock"
  /\ unsent' = IF sent # <<>> THEN m_connections ELSE {}
  /\ UNCHANGED <<filerVars, netVars, m_actions, m_connections, sent, feed, since, crashed>>

(* send() queues the batch on an open connection ...                       *)
Send(c) ==
  /\ proc = "send" /\ c \in unsent /\ con[c] = "open"
  /\ feed' = [feed EXCEPT ![c] = @ \o sent]
  /\ unsent' = unsent \ {c}
  /\ UNCHANGED <<filerVars, netVars, m_actions, proc, m_connections, sent, since, crashed>>

(* ... and throws on any other; process_messages catches nothing.          *)
SendThrows(c) ==
  /\ proc = "send" /\ c \in unsent /\ con[c] # "open"
  /\ crashed' = TRUE
  /\ UNCHANGED <<filerVars, netVars, m_actions, proc, procVars, since>>

(* Mutant: the loop stops after one connection.                            *)
UnlockEarly ==
  /\ proc = "send" /\ (unsent = {} \/ unsent # m_connections)
  /\ proc' = "lock" /\ sent' = <<>> /\ unsent' = {}
  /\ UNCHANGED <<filerVars, netVars, m_actions, m_connections, feed, since, crashed>>

Unlock ==
  /\ proc = "send" /\ unsent = {}
  /\ proc' = "lock" /\ sent' = <<>>
  /\ UNCHANGED <<filerVars, netVars, m_actions, m_connections, unsent, feed, since, crashed>>

-----------------------------------------------------------------------------
Filer == PushMessageEntry \/ NotifyEntry

Handlers ==
  \/ OnOpen \/ OnClose \/ NotifyAction
  \/ \E c \in Connections : HandleTerminate(c)

Processor ==
  \/ LockOrWait \/ StartSending \/ Unlock
  \/ DrainSubscribe \/ DrainUnsubscribe \/ DrainMessage
  \/ \E c \in Connections : Send(c) \/ SendThrows(c)

Next ==
  /\ ~crashed
  /\ \/ PushMessage \/ Filer \/ Request \/ Answer
     \/ Listen \/ ListenFails \/ Handlers
     \/ \E c \in Connections : Accept(c) \/ StartClosing(c) \/ Terminate(c)
     \/ Processor \/ SpuriousWakeup

(* A thread that can go on does; messages, requests, connections and their *)
(* ends owe nothing.  Once crashed, Next allows no step.                   *)
Fairness ==
  /\ WF_vars(~crashed /\ Filer)
  /\ WF_vars(~crashed /\ Answer)
  /\ WF_vars(~crashed /\ Handlers)
  /\ WF_vars(~crashed /\ Processor)

Spec == Init /\ [][Next]_vars /\ Fairness
-----------------------------------------------------------------------------
(* Properties.                                                             *)

(* Both notifiers call notify_one after they released m_action_lock        *)
(* (ywebsock.h:97, 117, 127): the processing thread never waits on a queue *)
(* that holds an action unless a notification is still on its way.         *)
NoLostWakeup ==
  proc = "wait" /\ m_actions # <<>> => ipc = "notify" \/ asio = "notify"

(* on_open, respectively on_close, has queued its action for c.            *)
Joined(c) == con[c] # "none" /\ ~(asio = "on_open" /\ handle = c)
Left(c)   == con[c] = "gone" /\ ~(asio = "on_close" /\ handle = c)

Queued(a) == \E i \in DOMAIN m_actions : m_actions[i] = a

(* The set of subscribers trails the connections by what is in the queue,  *)
(* never by more: a connection is a subscriber or about to become one from *)
(* its on_open on, and until its on_close has reached the queue.           *)
Registered ==
  \A c \in Connections :
    /\ Joined(c) /\ ~Left(c) <=> /\ c \in m_connections \/ Queued(Subscribe(c))
                               /\ ~Queued(Unsubscribe(c))
    /\ Left(c) /\ c \in m_connections => Queued(Unsubscribe(c))

(* Entries popped from the queue.                                          *)
Drained == Published - Cardinality({i \in DOMAIN m_actions : m_actions[i].type = "MESSAGE"})

(* Whenever the queue's lock is free, every subscriber has been handed all *)
(* that was taken off the queue since it joined: no batch is left half     *)
(* sent, whoever joins, leaves or publishes while it goes out.             *)
CaughtUp ==
  ~ActionLocked =>
    \A c \in m_connections :
      IF feed[c] = <<>> THEN since[c] = Drained ELSE feed[c][Len(feed[c])] = Drained

(* The set of subscribers, and what they were sent, follow the queue.      *)
SubscribersInv == TypeOK /\ Registered /\ CaughtUp

FeedOfServer == INSTANCE Feed WITH
  published <- Published,
  joined    <- {c \in Connections : Joined(c)}

(* A subscriber sees an unbroken stretch of state.messages in order, from  *)
(* no later than the first entry filed after its on_open; a SUBSCRIBE that *)
(* shares a batch with earlier entries gets those too (ywebsock.h:144-165).*)
ImplementsFeed == FeedOfServer!Spec

(* Every entry filed after a browser joined is handed to it, unless its    *)
(* connection ends first or the program does.                              *)
Fed ==
  \A c \in Connections : \A n \in 1 .. MaxMessages :
    Joined(c) /\ since[c] < n /\ n <= messages
      ~> (\E i \in DOMAIN feed[c] : feed[c][i] = n) \/ con[c] # "open" \/ crashed

(* A connection that ended leaves the set of subscribers, unless a send to *)
(* it comes first, which is uncaught (ywebsock.h:184-188).                 *)
GhostsLeave ==
  \A c \in Connections : con[c] = "closed" ~> c \notin m_connections \/ crashed

(* The IPC thread keeps state_mutex while it waits for m_action_lock       *)
(* (yprocmon.cc:28-30), which is held during network sends; HTTP handlers  *)
(* that need state_mutex are answered all the same: no circular wait.      *)
ApiAnswered == api = "waiting" ~> api = "idle" \/ crashed
=============================================================================
