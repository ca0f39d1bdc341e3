---------------------------- MODULE WsConnection ----------------------------
(***************************************************************************)
(* One server-side connection of websocketpp as yprocmon uses it           *)
(* (include/websocketpp/impl/connection_impl.hpp, transport/asio), from    *)
(* its acceptance to its close handler.  All its handlers run on the asio  *)
(* thread, one after the other; process_messages calls send() from another *)
(* thread.  A handler is one action: what the sender could do between two  *)
(* of its lock sections it can do before or after it.  Only terminate() is *)
(* split, as the sender may find m_state closed before on_close is called. *)
(*                                                                         *)
(* The browser and the network are external.  A batch is its number; a     *)
(* frame of the browser is its kind.                                       *)
(***************************************************************************)
EXTENDS Naturals, Sequences, FiniteSets

CONSTANTS
  MaxSends,  \* bound on the batches process_messages sends
  MaxFrames  \* bound on the frames the browser sends

ASSUME BoundsAssumption == MaxSends \in Nat /\ MaxFrames \in Nat

VARIABLES
  m_state,           \* session state
  m_internal_state,  \* istate
  tstat,             \* terminate_status of the one effective terminate()
  status,            \* status code of m_response
  was_clean,         \* m_was_clean
  timers,            \* running handshake timers; "held" is m_handshake_timer
  expired,           \* TRUE while a timer's expiry waits to be handled
  reading,           \* the outstanding asynchronous read
  writing,           \* the outstanding asynchronous write
  dispatched,        \* calls of write_frame posted to the asio thread
  m_send_queue,
  m_write_flag,
  m_current_msgs,    \* what write_frame has handed to async_write
  shutdown,          \* "now": terminate() is about to call handle_terminate
  sender,            \* where process_messages is in send()
  sent,              \* history: sends accepted so far
  calls,             \* history: the handlers called
  delivered,         \* history: frames written completely
  socket,            \* the TCP connection
  stalled,           \* TRUE once the browser no longer reads
  inbound,           \* what the browser sent and nobody has read
  frames             \* number of frames the browser has sent

stateVars  == <<m_state, m_internal_state, tstat, status, was_clean, shutdown, calls>>
timerVars  == <<timers, expired>>
writeVars  == <<writing, dispatched, m_send_queue, m_write_flag, m_current_msgs, delivered>>
senderVars == <<sender, sent>>
peerVars   == <<stalled, inbound, frames>>
vars == <<stateVars, timerVars, reading, writeVars, senderVars, socket, peerVars>>

Batch == [kind : {"batch"}, n : 1 .. MaxSends]
Frame == Batch \cup [kind : {"pong", "close"}, n : {0}]
Control(k) == [kind |-> k, n |-> 0]

(* What a browser may send: a part of a request, (the rest of) an upgrade  *)
(* request, frames, and what is neither.                                   *)
Kinds == {"part", "upgrade", "message", "ping", "close", "badclose", "violation"}

TypeOK ==
  /\ m_state \in {"connecting", "open", "closing", "closed"}
  /\ m_internal_state \in {"USER_INIT", "TRANSPORT_INIT", "READ_HTTP_REQUEST",
                           "PROCESS_HTTP_REQUEST", "PROCESS_CONNECTION"}
  /\ tstat \in {"unknown", "failed", "closed"}
  /\ status \in {"uninitialized", "switching_protocols", "bad_request"}
  /\ was_clean \in BOOLEAN
  /\ timers \subseteq {"held", "orphan"} /\ expired \in BOOLEAN
  /\ reading \in {"none", "handshake", "frame"}
  /\ writing \in {"none", "response", "frames", "failing"}
  /\ dispatched \in Nat
  /\ m_send_queue \in Seq(Frame) /\ m_current_msgs \in Seq(Frame)
  /\ m_write_flag \in BOOLEAN
  /\ shutdown \in {"none", "now", "late"}
  /\ sender \in {"idle", "checked", "pushed"} /\ sent \in 0 .. MaxSends
  /\ calls \in Seq({"on_open", "on_close"})
  /\ delivered \in Seq(Frame)
  /\ socket \in {"up", "broken", "shut"}
  /\ stalled \in BOOLEAN /\ inbound \in Seq(Kinds) /\ frames \in 0 .. MaxFrames

Init ==
  /\ m_state = "connecting" /\ m_internal_state = "USER_INIT"
  /\ tstat = "unknown" /\ status = "uninitialized" /\ was_clean = FALSE
  /\ timers = {} /\ expired = FALSE
  /\ reading = "none" /\ writing = "none" /\ dispatched = 0
  /\ m_send_queue = <<>> /\ m_write_flag = FALSE /\ m_current_msgs = <<>>
  /\ shutdown = "none" /\ sender = "idle" /\ sent = 0
  /\ calls = <<>> /\ delivered = <<>>
  /\ socket = "up" /\ stalled = FALSE /\ inbound = <<>> /\ frames = 0

-----------------------------------------------------------------------------
(* The parts handlers are made of.                                         *)

(* The asio thread is not inside terminate().                              *)
Idle == shutdown # "now"

(* Mutant: no timer is set.                                                *)
SetNoTimer == timers' = timers

(* m_handshake_timer = set_timer(...): a timer it still held goes on.      *)
SetTimer == timers' = IF "held" \in timers THEN {"held", "orphan"} ELSE timers \cup {"held"}

(* Mutant: a connection that is closed can be terminated again.            *)
TerminateAgain ==
  /\ timers' = timers \ {"held"}
  /\ m_state' = "closed"
  /\ tstat' = IF m_state = "connecting" THEN "failed" ELSE "closed"
  /\ socket' = "shut" /\ shutdown' \in {"now", "late"}

(* terminate(): the timer is cancelled, which does not call back an expiry *)
(* that waits already.  The shutdown of the socket is synchronous; only if *)
(* it took longer than its own timer does that timer call back.            *)
Terminate ==
  /\ timers' = timers \ {"held"}
  /\ IF m_state = "closed" THEN UNCHANGED <<m_state, tstat, socket, shutdown>>
     ELSE /\ m_state' = "closed"
          /\ tstat' = IF m_state = "connecting" THEN "failed" ELSE "closed"
          /\ socket' = "shut"
          /\ shutdown' \in {"now", "late"}

NoTerminate == UNCHANGED <<m_state, tstat, timers, socket, shutdown>>

(* write_push() and the dispatch of write_frame, under m_write_lock.       *)
PushAndDispatch(f) ==
  /\ m_send_queue' = Append(m_send_queue, f)
  /\ dispatched' = IF m_write_flag THEN dispatched ELSE dispatched + 1
  /\ UNCHANGED <<writing, m_write_flag, m_current_msgs, delivered>>

(* send_close_frame() of a server: always terminal (close.hpp:217).        *)
SendCloseFrame(ack) ==
  /\ m_state' = "closing"
  /\ was_clean' = (was_clean \/ ack)
  /\ SetTimer
  /\ PushAndDispatch(Control("close"))
  /\ UNCHANGED <<tstat, socket, shutdown>>

-----------------------------------------------------------------------------
(* Opening handshake.                                                      *)

(* start(), handle_transport_init(), read_handshake().                     *)
Start ==
  /\ Idle /\ m_internal_state = "USER_INIT" /\ m_state = "connecting"
  /\ m_internal_state' = "READ_HTTP_REQUEST"
  /\ SetTimer
  /\ reading' = "handshake"
  /\ UNCHANGED <<m_state, tstat, status, was_clean, shutdown, calls, expired, writeVars,
                 senderVars, socket, peerVars>>

(* The expiry of post_init's timer is called back instead: terminate().    *)
InitTimesOut ==
  /\ Idle /\ m_internal_state = "USER_INIT"
  /\ m_internal_state' = "TRANSPORT_INIT"
  /\ Terminate
  /\ UNCHANGED <<status, was_clean, calls, expired, reading, writeVars, senderVars, peerVars>>

(* A read that ended well may be handled after the socket broke or was     *)
(* shut down; a write that ended well too.                                 *)
Readable  == inbound # <<>>
ReadFails == socket # "up"
Written   == ~stalled
WriteFails == socket # "up"

(* handle_read_handshake() with data; closed meanwhile, it returns.        *)
HandleReadHandshake ==
  /\ Idle /\ reading = "handshake" /\ Readable
  /\ inbound' = Tail(inbound)
  /\ IF m_state = "closed"
       THEN reading' = "none" /\ UNCHANGED <<m_internal_state, status, writing>>
     ELSE IF Head(inbound) = "part"
       THEN UNCHANGED <<reading, m_internal_state, status, writing>>
     ELSE /\ m_internal_state' = "PROCESS_HTTP_REQUEST"   \* ready, or not HTTP
          /\ status' = IF Head(inbound) = "upgrade" THEN "switching_protocols"
                                                    ELSE "bad_request"
          /\ reading' = "none" /\ writing' = "response"
  /\ UNCHANGED <<m_state, tstat, was_clean, shutdown, calls, timerVars, dispatched, m_send_queue,
                 m_write_flag, m_current_msgs, delivered, senderVars, socket, stalled, frames>>

HandleReadHandshakeError ==
  /\ Idle /\ reading = "handshake" /\ ReadFails
  /\ reading' = "none"
  /\ Terminate
  /\ UNCHANGED <<m_internal_state, status, was_clean, calls, expired, writeVars,
                 senderVars, peerVars>>

(* handle_write_http_response() after a complete write: closed meanwhile,  *)
(* it returns; else a refusal ends the connection, an upgrade opens it.    *)
OpenConnection ==
  /\ m_internal_state' = "PROCESS_CONNECTION"
  /\ m_state' = "open"
  /\ calls' = Append(calls, "on_open")
  /\ timers' = timers \ {"held"}
  /\ reading' = "frame"
  /\ UNCHANGED <<tstat, socket, shutdown>>

HandleWriteHttpResponse ==
  /\ Idle /\ writing = "response" /\ Written
  /\ writing' = "none"
  /\ \/ /\ m_state = "closed"
        /\ NoTerminate /\ UNCHANGED <<m_internal_state, calls, reading>>
     \/ /\ m_state # "closed" /\ status # "switching_protocols"
        /\ Terminate /\ UNCHANGED <<m_internal_state, calls, reading>>
     \/ /\ m_state # "closed" /\ status = "switching_protocols"
        /\ OpenConnection
  /\ UNCHANGED <<status, was_clean, expired, dispatched, m_send_queue, m_write_flag,
                 m_current_msgs, delivered, senderVars, peerVars>>

HandleWriteHttpResponseError ==
  /\ Idle /\ writing = "response" /\ WriteFails
  /\ writing' = "none"
  /\ Terminate
  /\ UNCHANGED <<m_internal_state, status, was_clean, calls, expired, reading, dispatched,
                 m_send_queue, m_write_flag, m_current_msgs, delivered, senderVars, peerVars>>

-----------------------------------------------------------------------------
(* An open connection: reading frames.                                     *)

ReadsFrame(kinds) ==
  /\ Idle /\ reading = "frame" /\ Readable /\ Head(inbound) \in kinds
  /\ inbound' = Tail(inbound)
  /\ UNCHANGED <<m_internal_state, status, calls, expired, senderVars, stalled, frames>>

(* A message: there is no message handler.  process_control_frame() of a   *)
(* ping or a close frame that comes too late.                              *)
HandleIgnored ==
  /\ ReadsFrame({"message", "ping", "close", "badclose"})
  /\ \/ Head(inbound) = "message"
     \/ Head(inbound) = "ping" /\ m_state # "open"
     \/ m_state = "closed"
     \/ Head(inbound) = "close" /\ m_state = "closing" /\ was_clean
  /\ UNCHANGED <<m_state, tstat, was_clean, timers, shutdown, socket, reading, writeVars>>

HandlePing ==
  /\ ReadsFrame({"ping"}) /\ m_state = "open"
  /\ PushAndDispatch(Control("pong"))
  /\ UNCHANGED <<m_state, tstat, was_clean, timers, shutdown, socket, reading>>

(* The browser closes: acknowledged; so is a close frame with an illegal   *)
(* code or reason, even while closing.                                     *)
HandleClose ==
  /\ ReadsFrame({"close", "badclose"})
  /\ m_state = "open" \/ (m_state = "closing" /\ Head(inbound) = "badclose")
  /\ SendCloseFrame(TRUE)
  /\ UNCHANGED reading

(* A frame that consume() refuses: close() of an open connection, the end  *)
(* of any other.  There is no further read, so the answer to a close frame *)
(* of ours, which yprocmon has no other cause to send, is never seen.      *)
HandleViolation ==
  /\ ReadsFrame({"violation", "upgrade", "part"})
  /\ reading' = "none"
  /\ IF m_state = "open"
       THEN SendCloseFrame(FALSE)
       ELSE Terminate /\ UNCHANGED <<was_clean, writeVars>>

HandleReadFrameError ==
  /\ Idle /\ reading = "frame" /\ ReadFails
  /\ reading' = "none"
  /\ Terminate
  /\ UNCHANGED <<m_internal_state, status, was_clean, calls, expired, writeVars,
                 senderVars, peerVars>>

-----------------------------------------------------------------------------
(* Writing frames.                                                         *)

IsTerminal(f) == f.kind = "close"

(* Mutant: a terminal frame does not stop the loop.                        *)
PoppedAll == m_send_queue

(* The frames write_frame() takes off the queue: all up to a terminal one. *)
Popped ==
  LET ends == {i \in DOMAIN m_send_queue : IsTerminal(m_send_queue[i])}
      n == IF ends = {} THEN Len(m_send_queue)
                        ELSE CHOOSE i \in ends : \A j \in ends : i <= j
  IN SubSeq(m_send_queue, 1, n)

WritesNow == ~m_write_flag /\ m_send_queue # <<>>

WriteFrame ==
  /\ Idle /\ dispatched > 0
  /\ dispatched' = dispatched - 1
  /\ IF WritesNow
       THEN /\ m_current_msgs' = m_current_msgs \o Popped
            /\ m_send_queue' = SubSeq(m_send_queue, Len(Popped) + 1, Len(m_send_queue))
            /\ m_write_flag' = TRUE
            /\ writing' = IF socket = "up" THEN "frames" ELSE "failing"
       ELSE UNCHANGED <<m_current_msgs, m_send_queue, m_write_flag, writing>>
  /\ UNCHANGED <<stateVars, timerVars, reading, delivered, senderVars, socket, peerVars>>

(* Mutant: what was queued during the write is left to the next send.      *)
LeaveQueue == UNCHANGED dispatched

WriteQueue == dispatched' = IF m_send_queue # <<>> THEN dispatched + 1 ELSE dispatched

(* handle_write_frame(): the flag stays up after a terminal frame.         *)
HandleWriteFrame ==
  /\ Idle /\ writing = "frames" /\ Written
  /\ delivered' = delivered \o m_current_msgs
  /\ m_current_msgs' = <<>> /\ writing' = "none"
  /\ IF IsTerminal(m_current_msgs[Len(m_current_msgs)])
       THEN Terminate /\ UNCHANGED <<m_write_flag, dispatched>>
       ELSE m_write_flag' = FALSE /\ WriteQueue /\ NoTerminate
  /\ UNCHANGED <<m_internal_state, status, was_clean, calls, expired, reading,
                 m_send_queue, senderVars, peerVars>>

HandleWriteFrameError ==
  /\ Idle
  /\ writing = "failing" \/ (writing = "frames" /\ WriteFails)
  /\ m_current_msgs' = <<>> /\ writing' = "none"
  /\ Terminate
  /\ UNCHANGED <<m_internal_state, status, was_clean, calls, expired, reading, dispatched,
                 m_send_queue, m_write_flag, delivered, senderVars, peerVars>>

-----------------------------------------------------------------------------
(* send() on the thread of process_messages: m_state is read under one     *)
(* lock, the batch pushed under another, write_frame dispatched under none.*)

SendChecks ==
  /\ sender = "idle" /\ sent < MaxSends
  /\ m_state = "open"
  /\ sender' = "checked" /\ sent' = sent + 1
  /\ UNCHANGED <<stateVars, timerVars, reading, writeVars, socket, peerVars>>

(* Mutant: the batch is numbered after the next one was announced.         *)
NextBatch == [kind |-> "batch", n |-> sent + 1]

OutgoingMsg == [kind |-> "batch", n |-> sent]

SendPushes ==
  /\ sender = "checked"
  /\ m_send_queue' = Append(m_send_queue, OutgoingMsg)
  /\ sender' = IF m_write_flag THEN "idle" ELSE "pushed"
  /\ UNCHANGED <<stateVars, timerVars, reading, writing, dispatched, m_write_flag,
                 m_current_msgs, delivered, sent, socket, peerVars>>

SendDispatches ==
  /\ sender = "pushed"
  /\ dispatched' = dispatched + 1 /\ sender' = "idle"
  /\ UNCHANGED <<stateVars, timerVars, reading, writing, m_send_queue, m_write_flag,
                 m_current_msgs, delivered, sent, socket, peerVars>>

-----------------------------------------------------------------------------
(* Timers and the end.                                                     *)

Expire ==
  /\ \E k \in timers : timers' = timers \ {k}
  /\ expired' = TRUE
  /\ UNCHANGED <<stateVars, reading, writeVars, senderVars, socket, peerVars>>

(* handle_open_handshake_timeout(), handle_close_handshake_timeout().      *)
HandleTimeout ==
  /\ Idle /\ expired
  /\ expired' = FALSE
  /\ Terminate
  /\ UNCHANGED <<m_internal_state, status, was_clean, calls, reading, writeVars,
                 senderVars, peerVars>>

(* handle_terminate(): yprocmon sets no fail handler.                      *)
HandleTerminate ==
  /\ shutdown # "none" /\ shutdown' = "none"
  /\ calls' = IF tstat = "closed" THEN Append(calls, "on_close") ELSE calls
  /\ UNCHANGED <<m_state, m_internal_state, tstat, status, was_clean, timerVars, reading,
                 writeVars, senderVars, socket, peerVars>>

-----------------------------------------------------------------------------
(* The browser and the network.                                            *)

BrowserSends ==
  /\ socket = "up" /\ frames < MaxFrames
  /\ \E f \in Kinds : inbound' = Append(inbound, f)
  /\ frames' = frames + 1
  /\ UNCHANGED <<stateVars, timerVars, reading, writeVars, senderVars, socket, stalled>>

(* It goes away, with or without what it sent last.                        *)
BrowserBreaks ==
  /\ socket = "up" /\ socket' = "broken"
  /\ inbound' \in {inbound, <<>>}
  /\ UNCHANGED <<stateVars, timerVars, reading, writeVars, senderVars, stalled, frames>>

BrowserStalls ==
  /\ ~stalled /\ stalled' = TRUE
  /\ UNCHANGED <<stateVars, timerVars, reading, writeVars, senderVars, socket, inbound, frames>>

-----------------------------------------------------------------------------
Handlers ==
  \/ Start \/ InitTimesOut
  \/ HandleReadHandshake \/ HandleReadHandshakeError
  \/ HandleWriteHttpResponse \/ HandleWriteHttpResponseError
  \/ HandleIgnored \/ HandlePing \/ HandleClose \/ HandleViolation
  \/ HandleReadFrameError
  \/ WriteFrame \/ HandleWriteFrame \/ HandleWriteFrameError

Sender == SendPushes \/ SendDispatches

Next ==
  \/ Handlers \/ Expire \/ HandleTimeout \/ HandleTerminate
  \/ SendChecks \/ Sender
  \/ BrowserSends \/ BrowserBreaks \/ BrowserStalls

Spec == Init /\ [][Next]_vars

(* The asio thread runs every handler that is ready, the sender comes out  *)
(* of send(), and time passes.  The browser owes nothing, not even to read *)
(* what is written.                                                        *)
FairSpec ==
  /\ Spec
  /\ WF_vars(Start \/ InitTimesOut)
  /\ WF_vars(HandleReadHandshake \/ HandleReadHandshakeError)
  /\ WF_vars(HandleWriteHttpResponse \/ HandleWriteHttpResponseError)
  /\ WF_vars(HandleWriteFrame \/ HandleWriteFrameError)
  /\ WF_vars(WriteFrame)
  /\ WF_vars(Expire) /\ WF_vars(HandleTimeout) /\ WF_vars(HandleTerminate)
  /\ WF_vars(Sender)

-----------------------------------------------------------------------------
(* Properties.                                                             *)

FramesOut == writing \in {"frames", "failing"}

(* handle_write_frame() reads the last of m_current_msgs: there is one     *)
(* whenever a write is outstanding, and none that nobody is writing.       *)
OneWrite == FramesOut <=> m_current_msgs # <<>>

(* The transport writes straight out of m_current_msgs: while a write is   *)
(* outstanding they stay what they are, whatever is sent meanwhile.        *)
BuffersStay == [][FramesOut /\ FramesOut' => m_current_msgs' = m_current_msgs]_vars

(* No queued frame is forgotten: a queue that nobody writes has a          *)
(* write_frame coming, though flag and queue are seen under the lock and   *)
(* the dispatch happens after it.                                          *)
NotForgotten ==
  m_state # "closed" /\ m_send_queue # <<>> /\ ~m_write_flag
    => dispatched > 0 \/ sender = "pushed"

(* The write side, whose flag, queue and buffers change under different    *)
(* locks and on two threads, stays in step.                                *)
WriteInv == TypeOK /\ OneWrite /\ NotForgotten

(* Among the first k frames of a queue, the batches.                       *)
BatchesAmong(q, k) == {j \in 1 .. k : q[j].kind = "batch"}

(* The batches that reach the browser are those of the first sends, in     *)
(* order, and nothing follows a close frame: a send that found the         *)
(* connection open just before it started to close is accepted and lost.   *)
SentInOrder ==
  /\ \A i \in DOMAIN delivered :
       delivered[i].kind = "batch" => delivered[i].n = Cardinality(BatchesAmong(delivered, i))
  /\ \A i \in DOMAIN delivered : IsTerminal(delivered[i]) => i = Len(delivered)

(* What Broadcast relies on: opened once, then closing ends, and on_close  *)
(* is called once, after m_state has become closed, for the connections    *)
(* that had opened and no other; a send is accepted only while it is open. *)
ConnectionOfServer == INSTANCE Connection WITH
  con <- IF m_state = "connecting" THEN "none"
         ELSE IF m_state # "closed" THEN m_state
         ELSE IF tstat = "failed" THEN "failed"
         ELSE IF Len(calls) = 1 THEN "closed" ELSE "gone"

ImplementsConnection == ConnectionOfServer!Spec

(* Whoever connects and then says nothing, or stalls, is opened or dropped *)
(* in the end: the open handshake timer covers reading and answering.      *)
HandshakeEnds == <>(m_state # "connecting")

(* An accepted batch is written, unless the connection ends or the browser *)
(* stops reading.                                                          *)
Flushed ==
  \A n \in 1 .. MaxSends :
    sent >= n ~> \/ \E i \in DOMAIN delivered : delivered[i].n = n
                \/ m_state = "closed" \/ stalled
=============================================================================
