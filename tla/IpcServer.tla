----------------------------- MODULE IpcServer -----------------------------
(***************************************************************************)
(* The IPC server of yprocmon (src/src/yipcsrv.h): one thread serves all   *)
(* instances of the named pipe \\.\pipe\YhookPipe with overlapped I/O.     *)
(* Its clients are the monitored processes: each one opens the pipe once,  *)
(* writes messages that nobody answers for, and closes it when it exits.   *)
(*                                                                         *)
(* One action is one system call of the server thread together with the    *)
(* code up to the next one, so clients interleave between any two calls.   *)
(* The pipe file system is external: pipe, peer, inq, io and event hold    *)
(* what the server can observe of it.                                      *)
(***************************************************************************)
EXTENDS Naturals, Sequences, FiniteSets

CONSTANTS
  Instances,   \* INSTANCES: pipe instances, and so simultaneous clients
  Clients,     \* the monitored processes, named by their pid
  Early,       \* the clients that may run while the server is starting
  Nobody,      \* "no client"
  BufSize,     \* BUFSIZE: capacity of chRequest, in blocks of 4096 bytes
  CharWidth,   \* sizeof(TCHAR): the reads ask for BufSize * CharWidth
  Sizes,       \* the message lengths that occur, in the same blocks
  Quota,       \* messages the pipe buffers before a blocking write waits
  MaxWrites    \* bound on the messages one client writes

ASSUME InstancesAssumption == Instances \in Nat \ {0}
ASSUME ClientsAssumption   == Early \subseteq Clients /\ Nobody \notin Clients
ASSUME SizesAssumption     == /\ BufSize \in Nat \ {0} /\ CharWidth \in Nat \ {0}
                              /\ Sizes \subseteq Nat \ {0}
ASSUME BoundsAssumption    == Quota \in Nat \ {0} /\ MaxWrites \in Nat

Slots == 0 .. Instances - 1

Message   == [from : Clients, seq : 1 .. MaxWrites, size : Sizes]
NoRequest == [from |-> Nobody, seq |-> 0, size |-> 0]

(* What push_message files: the pid the server asked the pipe for, and     *)
(* whether the text survived the request buffer.  author and seq are the   *)
(* real sender and its message number, which the properties compare.       *)
Entry == [pid : Clients \cup {Nobody}, author : Clients \cup {Nobody},
          seq : 0 .. MaxWrites, intact : BOOLEAN]

VARIABLES
  pc,          \* the server thread's next call
  cur,         \* i: the slot it is working on
  dwState,     \* Pipe[i].dwState
  fPendingIO,  \* Pipe[i].fPendingIO
  request,     \* Pipe[i].chRequest
  messages,    \* state.messages, appended to by push_message
  pipe,        \* state of the server end of each pipe instance
  peer,        \* client at the other end of the instance
  inq,         \* messages written to the instance and not yet read
  io,          \* status of the overlapped call started last
  event,       \* hEvents[i], manual reset
  client,      \* each client's pipe handle
  written      \* number of messages the pipe accepted from each client

serverVars == <<pc, cur, dwState, fPendingIO, messages>>
kernelVars == <<pipe, peer, inq, io, event, request>>
clientVars == <<client, written>>
vars == <<serverVars, kernelVars, clientVars>>

TypeOK ==
  /\ pc \in {"create", "listen", "wait", "read", "answer", "write",
             "disconnect", "connect", "stopped", "crashed"}
  /\ cur \in Slots
  /\ dwState \in [Slots -> {"CONNECTING", "READING", "WRITING"}]
  /\ fPendingIO \in [Slots -> BOOLEAN]
  /\ request \in [Slots -> Message \cup {NoRequest}]
  /\ messages \in Seq(Entry)
  /\ pipe \in [Slots -> {"absent", "listening", "connected", "closing", "disconnected"}]
  /\ peer \in [Slots -> Clients \cup {Nobody}]
  /\ inq \in [Slots -> Seq(Message)]
  /\ io \in [Slots -> {"idle", "pending", "ok", "failed"}]
  /\ event \in [Slots -> BOOLEAN]
  /\ client \in [Clients -> {"idle", "open", "refused", "closed"}]
  /\ written \in [Clients -> 0 .. MaxWrites]

Init ==
  /\ pc = "create" /\ cur = 0
  /\ dwState    = [s \in Slots |-> "CONNECTING"]   \* zero-initialised globals
  /\ fPendingIO = [s \in Slots |-> FALSE]
  /\ request    = [s \in Slots |-> NoRequest]
  /\ messages   = <<>>
  /\ pipe       = [s \in Slots |-> "absent"]
  /\ peer       = [s \in Slots |-> Nobody]
  /\ inq        = [s \in Slots |-> <<>>]
  /\ io         = [s \in Slots |-> "idle"]
  /\ event      = [s \in Slots |-> FALSE]
  /\ client     = [c \in Clients |-> "idle"]
  /\ written    = [c \in Clients |-> 0]

Starting == pc \in {"create", "listen"}

-----------------------------------------------------------------------------
(* Start-up and (re)connection.                                            *)

(* One turn of the first loop: CreateEvent makes a signalled event,        *)
(* CreateNamedPipe an instance that clients can open from now on.          *)
CreatePipe ==
  /\ pc = "create"
  /\ pipe'  = [pipe  EXCEPT ![cur] = "listening"]
  /\ event' = [event EXCEPT ![cur] = TRUE]
  /\ pc'    = "listen"
  /\ UNCHANGED <<cur, dwState, fPendingIO, messages, peer, inq, io, request, clientVars>>

(* CreateEvent or CreateNamedPipe fails: the thread returns; the instances *)
(* it already made stay, since the program goes on without it.             *)
CreateFails ==
  /\ pc = "create"
  /\ pc' = "stopped"
  /\ UNCHANGED <<cur, dwState, fPendingIO, messages, kernelVars, clientVars>>

(* ConnectNamedPipe clears the event.  It pends when no client is there;   *)
(* with a client already there the code sets the event itself; with a      *)
(* client that came and went the call fails and only an error is printed.  *)
CanListen(s) == pipe[s] \in {"listening", "disconnected"}

(* Mutant: ERROR_PIPE_CONNECTED without SetEvent.                          *)
ConnectSetsNoEvent(s) ==
  /\ pipe'  = [pipe EXCEPT ![s] = IF CanListen(s) THEN "listening" ELSE @]
  /\ io'    = [io EXCEPT ![s] = IF CanListen(s) THEN "pending" ELSE "idle"]
  /\ event' = [event EXCEPT ![s] = FALSE]

ConnectNamedPipe(s) ==
  /\ pipe'  = [pipe EXCEPT ![s] = IF CanListen(s) THEN "listening" ELSE @]
  /\ io'    = [io EXCEPT ![s] = IF CanListen(s) THEN "pending" ELSE "idle"]
  /\ event' = [event EXCEPT ![s] = pipe[s] = "connected"]

(* Mutant: the caller does not assign dwState.                             *)
ConnectKeepsState(s) ==
  /\ ConnectNamedPipe(s)
  /\ fPendingIO' = [fPendingIO EXCEPT ![s] = CanListen(s)]
  /\ UNCHANGED <<dwState, messages, peer, inq, request, clientVars>>

(* Anything but "pending" returns FALSE, which callers take for READING.   *)
ConnectToNewClient(s) ==
  /\ ConnectNamedPipe(s)
  /\ fPendingIO' = [fPendingIO EXCEPT ![s] = CanListen(s)]
  /\ dwState'    = [dwState EXCEPT ![s] = IF CanListen(s) THEN "CONNECTING" ELSE "READING"]
  /\ UNCHANGED <<messages, peer, inq, request, clientVars>>

(* The rest of that turn, and on to the next instance or the main loop.    *)
ListenFirst ==
  /\ pc = "listen"
  /\ ConnectToNewClient(cur)
  /\ IF cur + 1 \in Slots
     THEN cur' = cur + 1 /\ pc' = "create"
     ELSE cur' = cur     /\ pc' = "wait"

(* DisconnectAndReconnect, first call: unread messages are discarded and   *)
(* the client's handle goes dead.                                          *)
DisconnectNamedPipe ==
  /\ pc = "disconnect"
  /\ pipe' = [pipe EXCEPT ![cur] = "disconnected"]
  /\ peer' = [peer EXCEPT ![cur] = Nobody]
  /\ inq'  = [inq  EXCEPT ![cur] = <<>>]
  /\ pc'   = "connect"
  /\ UNCHANGED <<cur, dwState, fPendingIO, messages, io, event, request, clientVars>>

(* DisconnectAndReconnect, second call.                                    *)
Reconnect ==
  /\ pc = "connect"
  /\ ConnectToNewClient(cur)
  /\ pc' = "wait" /\ cur' = cur

-----------------------------------------------------------------------------
(* The main loop.                                                          *)

(* Mutants: a finished connect does not become READING_STATE; a finished   *)
(* read does not become WRITING_STATE.                                     *)
StaysConnecting == [CONNECTING |-> "CONNECTING", READING |-> "WRITING", WRITING |-> "READING"]
StaysReading    == [CONNECTING |-> "READING",    READING |-> "READING", WRITING |-> "READING"]

(* What a finished overlapped call means for the slot's state ...          *)
Finished == [CONNECTING |-> "READING", READING |-> "WRITING", WRITING |-> "READING"]

(* ... and what a slot state makes the thread do next; CONNECTING_STATE is *)
(* an "Invalid pipe state." there.                                         *)
NextCall == [CONNECTING |-> "stopped", READING |-> "read", WRITING |-> "answer"]

(* WaitForMultipleObjects returns the lowest signalled slot; when its call *)
(* was pending, GetOverlappedResult tells how it ended.                    *)
Wake(s) ==
  /\ pc = "wait"
  /\ event[s] /\ \A t \in Slots : event[t] => s <= t
  /\ cur' = s
  /\ \/ /\ ~fPendingIO[s]
        /\ pc' = NextCall[dwState[s]] /\ UNCHANGED dwState
     \/ /\ fPendingIO[s] /\ io[s] = "ok"
        /\ dwState' = [dwState EXCEPT ![s] = Finished[@]]
        /\ pc' = NextCall[Finished[dwState[s]]]
     \/ /\ fPendingIO[s] /\ io[s] # "ok"
        /\ pc' = IF dwState[s] = "CONNECTING" THEN "stopped" ELSE "disconnect"
        /\ UNCHANGED dwState
  /\ UNCHANGED <<fPendingIO, messages, kernelVars, clientVars>>

(* Mutant: dwState does not move on.                                       *)
CompletesInPlace(next) ==
  /\ event' = [event EXCEPT ![cur] = TRUE]
  /\ io'    = [io EXCEPT ![cur] = "idle"]
  /\ fPendingIO' = [fPendingIO EXCEPT ![cur] = FALSE]
  /\ pc' = "wait"
  /\ UNCHANGED dwState

(* A ReadFile or WriteFile completes at once, ...                          *)
Completes(next) ==
  /\ event' = [event EXCEPT ![cur] = TRUE]
  /\ io'    = [io EXCEPT ![cur] = "idle"]
  /\ fPendingIO' = [fPendingIO EXCEPT ![cur] = FALSE]
  /\ dwState'    = [dwState EXCEPT ![cur] = next]
  /\ pc' = "wait"

(* Mutant: fPendingIO is not set.                                          *)
PendsUnmarked ==
  /\ event' = [event EXCEPT ![cur] = FALSE]
  /\ io'    = [io EXCEPT ![cur] = "pending"]
  /\ pc' = "wait"
  /\ UNCHANGED <<fPendingIO, dwState>>

(* ... pends, ...                                                          *)
Pends ==
  /\ event' = [event EXCEPT ![cur] = FALSE]
  /\ io'    = [io EXCEPT ![cur] = "pending"]
  /\ fPendingIO' = [fPendingIO EXCEPT ![cur] = TRUE]
  /\ pc' = "wait"
  /\ UNCHANGED dwState

(* Mutant: DisconnectAndReconnect is not called.                           *)
FailsUnnoticed ==
  /\ event' = [event EXCEPT ![cur] = FALSE]
  /\ io'    = [io EXCEPT ![cur] = "idle"]
  /\ pc' = "wait"
  /\ UNCHANGED <<fPendingIO, dwState>>

(* ... or fails, and the server gives the client up.                       *)
Fails ==
  /\ event' = [event EXCEPT ![cur] = FALSE]
  /\ io'    = [io EXCEPT ![cur] = "idle"]
  /\ pc' = "disconnect"
  /\ UNCHANGED <<fPendingIO, dwState>>

(* READING_STATE: the first message in the pipe that the read can hold, a  *)
(* wait when the pipe is open and empty, or an error: the client is gone,  *)
(* or its message is too long (ERROR_MORE_DATA; its rest stays unread).    *)
Fits(m) == m.size <= BufSize * CharWidth

ReadNow ==
  /\ pc = "read"
  /\ inq[cur] # <<>> /\ Fits(Head(inq[cur]))
  /\ request' = [request EXCEPT ![cur] = Head(inq[cur])]
  /\ inq'     = [inq EXCEPT ![cur] = Tail(@)]
  /\ Completes("WRITING")
  /\ UNCHANGED <<cur, messages, pipe, peer, clientVars>>

ReadPends ==
  /\ pc = "read"
  /\ inq[cur] = <<>> /\ pipe[cur] = "connected"
  /\ Pends
  /\ UNCHANGED <<cur, messages, pipe, peer, inq, request, clientVars>>

ReadFails ==
  /\ pc = "read"
  /\ IF inq[cur] = <<>> THEN pipe[cur] # "connected" ELSE ~Fits(Head(inq[cur]))
  /\ Fails
  /\ UNCHANGED <<cur, messages, pipe, peer, inq, request, clientVars>>

(* WRITING_STATE: GetAnswerToRequest files one entry per read, with the    *)
(* pid the pipe instance reports now.  A text longer than chRequest had    *)
(* four of its bytes overwritten by cbRead, the field after it.            *)
GetAnswerToRequest ==
  /\ pc = "answer"
  /\ LET m == request[cur] IN
     messages' = Append(messages, [pid    |-> peer[cur], author |-> m.from,
                                   seq    |-> m.seq,     intact |-> m.size <= BufSize])
  /\ pc' = "write"
  /\ UNCHANGED <<cur, dwState, fPendingIO, kernelVars, clientVars>>

(* Such a text may also have lost the lengths it is parsed by: a string    *)
(* with a wild length throws, which nothing catches.                       *)
ParseCrashes ==
  /\ pc = "answer" /\ request[cur].size > BufSize
  /\ pc' = "crashed"
  /\ UNCHANGED <<cur, dwState, fPendingIO, messages, kernelVars, clientVars>>

(* The reply has cbToWrite = 0 bytes and nobody reads it.  It is accepted  *)
(* at once or later while the client is connected, and refused once it     *)
(* closed its end (ERROR_NO_DATA).                                         *)
WriteNow ==
  /\ pc = "write" /\ pipe[cur] = "connected"
  /\ Completes("READING")
  /\ UNCHANGED <<cur, messages, pipe, peer, inq, request, clientVars>>

WritePends ==
  /\ pc = "write" /\ pipe[cur] = "connected"
  /\ Pends
  /\ UNCHANGED <<cur, messages, pipe, peer, inq, request, clientVars>>

WriteFails ==
  /\ pc = "write" /\ pipe[cur] # "connected"
  /\ Fails
  /\ UNCHANGED <<cur, messages, pipe, peer, inq, request, clientVars>>

Server ==
  \/ CreatePipe \/ CreateFails \/ ListenFirst
  \/ \E s \in Slots : Wake(s)
  \/ ReadNow \/ ReadPends \/ ReadFails
  \/ GetAnswerToRequest \/ ParseCrashes
  \/ WriteNow \/ WritePends \/ WriteFails
  \/ DisconnectNamedPipe \/ Reconnect

-----------------------------------------------------------------------------
(* The pipe file system and the monitored processes.                       *)

(* A pending reply completes.                                              *)
CompleteWrite(s) ==
  /\ io[s] = "pending" /\ dwState[s] = "WRITING" /\ pipe[s] = "connected"
  /\ io'    = [io EXCEPT ![s] = "ok"]
  /\ event' = [event EXCEPT ![s] = TRUE]
  /\ UNCHANGED <<serverVars, pipe, peer, inq, request, clientVars>>

(* A crash breaks the pipes of all clients and ends the model.             *)
MayRun(c) == pc # "crashed" /\ (Starting => c \in Early)

(* yhook_ipc_start: CreateFile opens a listening instance ...              *)
OpenPipe(c) ==
  /\ client[c] = "idle" /\ MayRun(c)
  /\ client' = [client EXCEPT ![c] = "open"]
  /\ \E s \in Slots :
       /\ pipe[s] = "listening"
       /\ pipe'  = [pipe EXCEPT ![s] = "connected"]
       /\ peer'  = [peer EXCEPT ![s] = c]
       /\ io'    = [io EXCEPT ![s] = IF @ = "pending" THEN "ok" ELSE @]
       /\ event' = [event EXCEPT ![s] = @ \/ io[s] = "pending"]
  /\ UNCHANGED <<serverVars, inq, request, written>>

(* ... or, with none listening, gets INVALID_HANDLE_VALUE, and the process *)
(* runs unmonitored from then on.                                          *)
OpenRefused(c) ==
  /\ client[c] = "idle" /\ MayRun(c)
  /\ \A s \in Slots : pipe[s] # "listening"
  /\ client' = [client EXCEPT ![c] = "refused"]
  /\ UNCHANGED <<serverVars, kernelVars, written>>

(* write_pipe: a blocking WriteFile of one message.  A write on a handle   *)
(* the server disconnected fails unnoticed and changes nothing.            *)
CanWrite(c, s) ==
  /\ client[c] = "open" /\ written[c] < MaxWrites /\ MayRun(c)
  /\ pipe[s] = "connected" /\ peer[s] = c

Sent(c, size) == [from |-> c, seq |-> written[c] + 1, size |-> size]

ReadPending(s) == io[s] = "pending" /\ dwState[s] = "READING"

(* It completes the server's pending read ...                              *)
WriteToReader(c) ==
  \E s \in Slots, size \in Sizes :
    LET m == Sent(c, size) IN
    /\ CanWrite(c, s) /\ ReadPending(s)
    /\ written' = [written EXCEPT ![c] = @ + 1]
    /\ io'      = [io EXCEPT ![s] = IF Fits(m) THEN "ok" ELSE "failed"]
    /\ event'   = [event EXCEPT ![s] = TRUE]
    /\ request' = [request EXCEPT ![s] = m]
    /\ inq'     = [inq EXCEPT ![s] = IF Fits(m) THEN @ ELSE <<m>>]
    /\ UNCHANGED <<serverVars, pipe, peer, client>>

(* ... or is buffered, once there is room.                                 *)
WriteToBuffer(c) ==
  \E s \in Slots, size \in Sizes :
    /\ CanWrite(c, s) /\ ~ReadPending(s) /\ Len(inq[s]) < Quota
    /\ written' = [written EXCEPT ![c] = @ + 1]
    /\ inq'     = [inq EXCEPT ![s] = Append(@, Sent(c, size))]
    /\ UNCHANGED <<serverVars, pipe, peer, io, event, request, client>>

(* yhook_ipc_close, or the death of the process.  What it wrote stays      *)
(* readable; a pending read or reply of the server fails.                  *)
ClosePipe(c) ==
  /\ client[c] = "open" /\ MayRun(c)
  /\ client' = [client EXCEPT ![c] = "closed"]
  /\ LET mine == {s \in Slots : peer[s] = c} IN
     /\ pipe'  = [s \in Slots |-> IF s \in mine THEN "closing" ELSE pipe[s]]
     /\ io'    = [s \in Slots |-> IF s \in mine /\ io[s] = "pending"
                                  THEN "failed" ELSE io[s]]
     /\ event' = [s \in Slots |-> event[s] \/ (s \in mine /\ io[s] = "pending")]
  /\ UNCHANGED <<serverVars, peer, inq, request, written>>

Next ==
  \/ Server
  \/ \E s \in Slots : CompleteWrite(s)
  \/ \E c \in Clients : \/ OpenPipe(c) \/ OpenRefused(c)
                       \/ WriteToReader(c) \/ WriteToBuffer(c) \/ ClosePipe(c)

(* The server thread and the pipe keep working; clients owe nothing.       *)
Fairness == WF_vars(Server) /\ \A s \in Slots : WF_vars(CompleteWrite(s))

Spec == Init /\ [][Next]_vars /\ Fairness
-----------------------------------------------------------------------------
(* Properties.                                                             *)

(* The server thread is inside the turn of slot s.                         *)
Handling(s) == cur = s /\ pc # "wait"

(* A message was read into chRequest and its entry is not yet filed.       *)
InHand(s) ==
  IF Handling(s) THEN pc \in {"answer", "crashed"}
  ELSE \/ dwState[s] = "READING" /\ fPendingIO[s] /\ io[s] = "ok"
       \/ dwState[s] = "WRITING" /\ ~fPendingIO[s]

Logged(c) == Cardinality({i \in DOMAIN messages : messages[i].author = c})

(* GetAnswerToRequest asks the pipe, after the read, who its client is     *)
(* (yipcsrv.h:347).  The instance may have been handed to another process  *)
(* by then only if the server reconnected it with a request in hand: every *)
(* entry carries the pid of the process that really wrote it.              *)
Attribution ==
  \A i \in DOMAIN messages :
    messages[i].pid = messages[i].author /\ messages[i].pid # Nobody

(* Whatever instance, connection or server step intervenes, the entries of *)
(* one process are its first messages in the order it wrote them: nothing  *)
(* is filed twice (chRequest survives the turn, yipcsrv.h:216-217), out of *)
(* order, or after a gap; losses only cut off the tail.                    *)
PrefixDelivery ==
  \A j \in DOMAIN messages :
    /\ \A i \in 1 .. j - 1 :
         messages[i].author = messages[j].author => messages[i].seq < messages[j].seq
    /\ messages[j].seq > 1 =>
         \E i \in 1 .. j - 1 : /\ messages[i].author = messages[j].author
                              /\ messages[i].seq + 1 = messages[j].seq

(* While a process keeps its end of the pipe open, every message the pipe  *)
(* accepted from it is filed, in chRequest, or still in the pipe.          *)
Conservation ==
  \A s \in Slots :
    pipe[s] = "connected" =>
      written[peer[s]] = Logged(peer[s]) + Len(inq[s]) + (IF InHand(s) THEN 1 ELSE 0)

(* The account of messages balances, per process and in order.             *)
LedgerInv == TypeOK /\ PrefixDelivery /\ Conservation

(* An instance the thread is not working on has its event set, or a call   *)
(* pending that will set it.                                               *)
Watched(s) ==
  pipe[s] # "absent" /\ ~Handling(s) =>
    \/ event[s]
    \/ fPendingIO[s] /\ io[s] = "pending"
    \/ pipe[s] = "closing" /\ peer[s] \in Early

(* The thread sleeps on hEvents alone, so no client may be left without an *)
(* event to come (yipcsrv.h:111-114, 302-309).  The one exception is an    *)
(* instance whose client came and went before the server had called        *)
(* ConnectNamedPipe, whose failure is only printed (:313-317).             *)
NotForgotten == \A s \in Slots : Watched(s)

(* hEvents are manual-reset and shared by all calls of an instance: the    *)
(* thread never takes an event left over from an earlier call for the end  *)
(* of the pending one, which it would treat as an error (yipcsrv.h:125).   *)
NoStaleEvent ==
  \A s \in Slots : event[s] /\ fPendingIO[s] => io[s] \in {"ok", "failed"}

(* Once every instance exists, no behaviour of the clients reaches one of  *)
(* the four "return 0" of the main loop: a failed connect (yipcsrv.h:139)  *)
(* or an invalid pipe state (:168, :245) would end all monitoring.  (A     *)
(* request that overran its buffer can, by crashing the program instead.)  *)
NeverStopsServing == [][pc \notin {"create", "stopped"} => pc' # "stopped"]_vars

(* The server thread has returned or crashed.                              *)
Halted == pc \in {"stopped", "crashed"}

(* c still has its end of an instance open and the server has not hung up. *)
Linked(c) == \E s \in Slots : pipe[s] = "connected" /\ peer[s] = c

(* Although WaitForMultipleObjects always prefers the lowest instance,     *)
(* every message of a process that keeps its pipe open is filed in the end *)
(* (processes that write for ever, and starve the rest, are out of bounds).*)
Delivered ==
  \A c \in Clients : \A n \in 1 .. MaxWrites :
    Linked(c) /\ written[c] >= n ~> Logged(c) >= n \/ ~Linked(c) \/ Halted

(* "This function is called ... when the client closes its handle to the   *)
(* pipe.  Disconnect from this client, then call ConnectNamedPipe to wait  *)
(* for another client" (yipcsrv.h:256-259): an instance whose client has   *)
(* closed its end does not stay taken for ever.                            *)
SlotReclaimed ==
  \A s \in Slots : pipe[s] = "closing" ~> pipe[s] # "closing" \/ Halted

(* The same with the exception that NotForgotten makes: an instance is     *)
(* given up again unless its client was there while the server started.    *)
LateSlotReclaimed ==
  \A s \in Slots : pipe[s] = "closing" /\ peer[s] \notin Early
                      ~> pipe[s] # "closing" \/ Halted

(* The thread implements the log that ProcessLog promises the front end.   *)
ProcessLogOfServer == INSTANCE ProcessLog WITH
  log <- [i \in DOMAIN messages |-> [author |-> messages[i].author,
                                     seq    |-> messages[i].seq]]

(* Every step of server, pipe and clients is one of an abstract log of     *)
(* numbered messages, or invisible to it: an entry appears only after its  *)
(* process wrote it, once, next in its process's order, and for good.      *)
ImplementsProcessLog == ProcessLogOfServer!Spec
=============================================================================
