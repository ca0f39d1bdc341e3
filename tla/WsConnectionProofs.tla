------------------------- MODULE WsConnectionProofs -------------------------
(* Proofs about WsConnection, for any number of batches and frames.        *)
EXTENDS WsConnection, FiniteSetTheorems, SequenceTheorems, WellFoundedInduction, TLAPS

-----------------------------------------------------------------------------
(* The inductive invariant.  A connection passes through its phases in     *)
(* order: requests are read before the response is written, and frames are *)
(* read, queued and written only after it has opened.                      *)
Opened == m_internal_state = "PROCESS_CONNECTION"

Phases ==
  /\ reading = "handshake" => m_internal_state = "READ_HTTP_REQUEST" /\ writing = "none"
  /\ writing = "response" => m_internal_state = "PROCESS_HTTP_REQUEST" /\ reading = "none"
  /\ m_internal_state = "USER_INIT" => reading = "none" /\ writing = "none"
  /\ reading = "frame" \/ FramesOut \/ sender # "idle" \/ dispatched > 0
       \/ m_send_queue # <<>> => Opened
  /\ sender = "checked" => sent > 0
  /\ Opened <=> m_state \in {"open", "closing"} \/ (m_state = "closed" /\ tstat = "closed")
  /\ m_state = "connecting" => tstat = "unknown"
  /\ m_state = "closed" => tstat \in {"failed", "closed"}

(* An outstanding write of frames holds the flag.                          *)
FlagHeld == FramesOut => m_write_flag

(* The handlers called are told by the state, and the close handler is yet *)
(* to come exactly while the shutdown goes on.                             *)
HandlersCalled ==
  /\ m_state = "connecting" => calls = <<>>
  /\ m_state \in {"open", "closing"} => calls = <<"on_open">>
  /\ m_state = "closed" /\ tstat = "failed" => calls = <<>>
  /\ m_state = "closed" /\ tstat = "closed" =>
       calls = IF shutdown = "none" THEN Append(<<"on_open">>, "on_close") ELSE <<"on_open">>
  /\ shutdown # "none" => m_state = "closed"

IInv == TypeOK /\ Phases /\ FlagHeld /\ HandlersCalled /\ OneWrite /\ NotForgotten

-----------------------------------------------------------------------------
(* Lemmas about the operators.                                             *)

(* A nonempty set of naturals has a least element.                         *)
LEMMA LeastOf ==
  ASSUME NEW S \in SUBSET Nat, S # {}
  PROVE  \E i \in S : \A j \in S : i <= j
<1> DEFINE R == {ss \in Nat \X Nat : ss[1] < ss[2]}
<1>1. IsWellFoundedOn(R, Nat)
  BY NatLessThanWellFounded DEF OpToRel
<1> HIDE DEF R
<1>2. PICK x \in S : \A y \in S : ~ (<<y, x>> \in R)
  BY <1>1, WFMin
<1>3. \A y \in S : ~ (y < x)
  BY <1>2 DEF R
<1> QED BY <1>3

(* write_frame() takes at least one frame off a queue that has any, and    *)
(* only frames.                                                            *)
LEMMA PoppedSome ==
  ASSUME m_send_queue \in Seq(Frame), m_send_queue # <<>>
  PROVE  /\ Popped \in Seq(Frame) /\ Popped # <<>>
         /\ Len(Popped) \in 1 .. Len(m_send_queue)
<1> DEFINE ends == {i \in DOMAIN m_send_queue : IsTerminal(m_send_queue[i])}
           n == IF ends = {} THEN Len(m_send_queue)
                             ELSE CHOOSE i \in ends : \A j \in ends : i <= j
<1>1. Len(m_send_queue) \in Nat \ {0} /\ DOMAIN m_send_queue = 1 .. Len(m_send_queue)
  BY EmptySeq, LenProperties
<1>2. n \in 1 .. Len(m_send_queue)
  <2>1. CASE ends = {}
    BY <2>1, <1>1
  <2>2. CASE ends # {}
    <3>1. ends \in SUBSET Nat /\ ends \subseteq 1 .. Len(m_send_queue)
      BY <1>1
    <3> HIDE DEF ends
    <3>2. \E i \in ends : \A j \in ends : i <= j
      BY <2>2, <3>1, LeastOf
    <3>3. n \in ends
      BY <2>2, <3>2
    <3> QED BY <3>1, <3>3
  <2> QED BY <2>1, <2>2
<1>3. Popped = SubSeq(m_send_queue, 1, n)
  BY DEF Popped
<1> HIDE DEF n
<1>4. /\ SubSeq(m_send_queue, 1, n) \in Seq(Frame)
      /\ Len(SubSeq(m_send_queue, 1, n)) = n
  BY <1>1, <1>2, SubSeqProperties
<1> QED BY <1>2, <1>3, <1>4, EmptySeq

(* What is pushed is a frame.                                              *)
LEMMA FrameTypes ==
  /\ Control("pong") \in Frame /\ Control("close") \in Frame
  /\ sent \in 1 .. MaxSends => OutgoingMsg \in Frame
BY DEF Frame, Batch, Control, OutgoingMsg

-----------------------------------------------------------------------------
(* Steps.  Every action keeps the inductive invariant.                     *)

LEMMA StartKeeps == IInv /\ Start => IInv'
<1> SUFFICES ASSUME IInv, Start PROVE IInv' OBVIOUS
<1>1. TypeOK'
  BY DEF IInv, Start, SetTimer, TypeOK, vars, stateVars, timerVars,
         writeVars, senderVars, peerVars
<1>2. Phases'
  BY DEF IInv, Start, SetTimer, Phases, TypeOK, FramesOut, Opened,
         vars, stateVars, timerVars, writeVars, senderVars, peerVars
<1>3. FlagHeld'
  BY DEF IInv, Start, SetTimer, FlagHeld, FramesOut, Phases, Opened,
         vars, stateVars, timerVars, writeVars, senderVars, peerVars
<1>4. HandlersCalled'
  BY DEF IInv, Start, SetTimer, HandlersCalled, Phases, Opened, Idle,
         TypeOK, vars, stateVars, timerVars, writeVars, senderVars,
         peerVars
<1>5. OneWrite'
  BY DEF IInv, Start, SetTimer, OneWrite, FlagHeld, FramesOut, Phases,
         Opened, vars, stateVars, timerVars, writeVars, senderVars,
         peerVars
<1>6. NotForgotten'
  BY DEF IInv, Start, SetTimer, NotForgotten, FlagHeld, FramesOut,
         TypeOK, vars, stateVars, timerVars, writeVars, senderVars,
         peerVars
<1> QED BY <1>1, <1>2, <1>3, <1>4, <1>5, <1>6 DEF IInv

LEMMA InitTimesOutKeeps == IInv /\ InitTimesOut => IInv'
<1> SUFFICES ASSUME IInv, InitTimesOut PROVE IInv' OBVIOUS
<1>1. TypeOK'
  BY DEF IInv, InitTimesOut, Terminate, TypeOK, vars, stateVars,
         timerVars, writeVars, senderVars, peerVars
<1>2. Phases'
  BY DEF IInv, InitTimesOut, Terminate, Phases, TypeOK, FramesOut,
         Opened, vars, stateVars, timerVars, writeVars, senderVars,
         peerVars
<1>3. FlagHeld'
  BY DEF IInv, InitTimesOut, Terminate, FlagHeld, FramesOut, Phases,
         Opened, vars, stateVars, timerVars, writeVars, senderVars,
         peerVars
<1>4. HandlersCalled'
  BY DEF IInv, InitTimesOut, Terminate, HandlersCalled, Phases,
         Opened, Idle, TypeOK, vars, stateVars, timerVars, writeVars,
         senderVars, peerVars
<1>5. OneWrite'
  BY DEF IInv, InitTimesOut, Terminate, OneWrite, FlagHeld, FramesOut,
         Phases, Opened, vars, stateVars, timerVars, writeVars,
         senderVars, peerVars
<1>6. NotForgotten'
  BY DEF IInv, InitTimesOut, Terminate, NotForgotten, FlagHeld,
         FramesOut, TypeOK, vars, stateVars, timerVars, writeVars,
         senderVars, peerVars
<1> QED BY <1>1, <1>2, <1>3, <1>4, <1>5, <1>6 DEF IInv

LEMMA HandleReadHandshakeKeeps == IInv /\ HandleReadHandshake => IInv'
<1> SUFFICES ASSUME IInv, HandleReadHandshake PROVE IInv' OBVIOUS
<1>a. Tail(inbound) \in Seq(Kinds)
  BY HeadTailProperties DEF IInv, TypeOK, HandleReadHandshake, Readable
<1>1. TypeOK'
  BY <1>a
     DEF IInv, HandleReadHandshake, TypeOK, vars, stateVars,
         timerVars, writeVars, senderVars, peerVars
<1>2. Phases'
  BY DEF IInv, HandleReadHandshake, Phases, TypeOK, FramesOut, Opened,
         vars, stateVars, timerVars, writeVars, senderVars, peerVars
<1>3. FlagHeld'
  BY DEF IInv, HandleReadHandshake, FlagHeld, FramesOut, Phases,
         Opened, vars, stateVars, timerVars, writeVars, senderVars,
         peerVars
<1>4. HandlersCalled'
  BY DEF IInv, HandleReadHandshake, HandlersCalled, Phases, Opened,
         Idle, TypeOK, vars, stateVars, timerVars, writeVars,
         senderVars, peerVars
<1>5. OneWrite'
  BY DEF IInv, HandleReadHandshake, OneWrite, FlagHeld, FramesOut,
         Phases, Opened, vars, stateVars, timerVars, writeVars,
         senderVars, peerVars
<1>6. NotForgotten'
  BY DEF IInv, HandleReadHandshake, NotForgotten, FlagHeld, FramesOut,
         TypeOK, vars, stateVars, timerVars, writeVars, senderVars,
         peerVars
<1> QED BY <1>1, <1>2, <1>3, <1>4, <1>5, <1>6 DEF IInv

LEMMA HandleReadHandshakeErrorKeeps == IInv /\ HandleReadHandshakeError => IInv'
<1> SUFFICES ASSUME IInv, HandleReadHandshakeError PROVE IInv' OBVIOUS
<1>1. TypeOK'
  BY DEF IInv, HandleReadHandshakeError, Terminate, TypeOK, vars,
         stateVars, timerVars, writeVars, senderVars, peerVars
<1>2. Phases'
  BY DEF IInv, HandleReadHandshakeError, Terminate, Phases, TypeOK,
         FramesOut, Opened, vars, stateVars, timerVars, writeVars,
         senderVars, peerVars
<1>3. FlagHeld'
  BY DEF IInv, HandleReadHandshakeError, Terminate, FlagHeld,
         FramesOut, Phases, Opened, vars, stateVars, timerVars,
         writeVars, senderVars, peerVars
<1>4. HandlersCalled'
  BY DEF IInv, HandleReadHandshakeError, Terminate, HandlersCalled,
         Phases, Opened, Idle, TypeOK, vars, stateVars, timerVars,
         writeVars, senderVars, peerVars
<1>5. OneWrite'
  BY DEF IInv, HandleReadHandshakeError, Terminate, OneWrite,
         FlagHeld, FramesOut, Phases, Opened, vars, stateVars,
         timerVars, writeVars, senderVars, peerVars
<1>6. NotForgotten'
  BY DEF IInv, HandleReadHandshakeError, Terminate, NotForgotten,
         FlagHeld, FramesOut, TypeOK, vars, stateVars, timerVars,
         writeVars, senderVars, peerVars
<1> QED BY <1>1, <1>2, <1>3, <1>4, <1>5, <1>6 DEF IInv

LEMMA HandleWriteHttpResponseKeeps == IInv /\ HandleWriteHttpResponse => IInv'
<1> SUFFICES ASSUME IInv, HandleWriteHttpResponse PROVE IInv' OBVIOUS
<1>a. Append(calls, "on_open") \in Seq({"on_open", "on_close"})
  BY AppendProperties DEF IInv, TypeOK
<1>b. Append(<<>>, "on_open") = <<"on_open">>
  OBVIOUS
<1>1. TypeOK'
  <2>1. /\ m_state' \in {"connecting", "open", "closing", "closed"}
        /\ tstat' \in {"unknown", "failed", "closed"}
        /\ timers' \subseteq {"held", "orphan"}
        /\ socket' \in {"up", "broken", "shut"}
        /\ shutdown' \in {"none", "now", "late"}
    BY DEF IInv, TypeOK, HandleWriteHttpResponse, OpenConnection, NoTerminate,
           Terminate,
           vars, stateVars, timerVars, writeVars, senderVars, peerVars
  <2>2. /\ m_send_queue' \in Seq(Frame) /\ m_current_msgs' \in Seq(Frame)
        /\ delivered' \in Seq(Frame) /\ inbound' \in Seq(Kinds)
        /\ calls' \in Seq({"on_open", "on_close"})
    BY <1>a
       DEF IInv, TypeOK, HandleWriteHttpResponse, OpenConnection, NoTerminate,
           Terminate,
           vars, stateVars, timerVars, writeVars, senderVars, peerVars
  <2>3. /\ was_clean' \in BOOLEAN /\ expired' \in BOOLEAN
        /\ m_write_flag' \in BOOLEAN /\ stalled' \in BOOLEAN
    BY DEF IInv, TypeOK, HandleWriteHttpResponse, OpenConnection, NoTerminate,
           Terminate,
           vars, stateVars, timerVars, writeVars, senderVars, peerVars
  <2>4. /\ m_internal_state' \in {"USER_INIT", "TRANSPORT_INIT", "READ_HTTP_REQUEST",
                                  "PROCESS_HTTP_REQUEST", "PROCESS_CONNECTION"}
        /\ status' \in {"uninitialized", "switching_protocols", "bad_request"}
        /\ reading' \in {"none", "handshake", "frame"}
        /\ writing' \in {"none", "response", "frames", "failing"}
        /\ dispatched' \in Nat
        /\ sender' \in {"idle", "checked", "pushed"} /\ sent' \in 0 .. MaxSends
        /\ frames' \in 0 .. MaxFrames
    BY DEF IInv, TypeOK, HandleWriteHttpResponse, OpenConnection, NoTerminate,
           Terminate,
           vars, stateVars, timerVars, writeVars, senderVars, peerVars
  <2> QED BY <2>1, <2>2, <2>3, <2>4 DEF TypeOK
<1>2. Phases'
  BY DEF IInv, HandleWriteHttpResponse, OpenConnection, NoTerminate,
         Terminate, Phases, TypeOK, FramesOut, Opened, vars,
         stateVars, timerVars, writeVars, senderVars, peerVars
<1>3. FlagHeld'
  BY DEF IInv, HandleWriteHttpResponse, OpenConnection, NoTerminate,
         Terminate, FlagHeld, FramesOut, Phases, Opened, vars,
         stateVars, timerVars, writeVars, senderVars, peerVars
<1>4. HandlersCalled'
  BY <1>b
     DEF IInv, HandleWriteHttpResponse, OpenConnection, NoTerminate,
         Terminate, HandlersCalled, Phases, Opened, Idle, TypeOK,
         vars, stateVars, timerVars, writeVars, senderVars, peerVars
<1>5. OneWrite'
  BY DEF IInv, HandleWriteHttpResponse, OpenConnection, NoTerminate,
         Terminate, OneWrite, FlagHeld, FramesOut, Phases, Opened,
         vars, stateVars, timerVars, writeVars, senderVars, peerVars
<1>6. NotForgotten'
  BY DEF IInv, HandleWriteHttpResponse, OpenConnection, NoTerminate,
         Terminate, NotForgotten, FlagHeld, FramesOut, TypeOK, vars,
         stateVars, timerVars, writeVars, senderVars, peerVars
<1> QED BY <1>1, <1>2, <1>3, <1>4, <1>5, <1>6 DEF IInv

LEMMA HandleWriteHttpResponseErrorKeeps == IInv /\ HandleWriteHttpResponseError => IInv'
<1> SUFFICES ASSUME IInv, HandleWriteHttpResponseError PROVE IInv' OBVIOUS
<1>1. TypeOK'
  BY DEF IInv, HandleWriteHttpResponseError, Terminate, TypeOK, vars,
         stateVars, timerVars, writeVars, senderVars, peerVars
<1>2. Phases'
  BY DEF IInv, HandleWriteHttpResponseError, Terminate, Phases,
         TypeOK, FramesOut, Opened, vars, stateVars, timerVars,
         writeVars, senderVars, peerVars
<1>3. FlagHeld'
  BY DEF IInv, HandleWriteHttpResponseError, Terminate, FlagHeld,
         FramesOut, Phases, Opened, vars, stateVars, timerVars,
         writeVars, senderVars, peerVars
<1>4. HandlersCalled'
  BY DEF IInv, HandleWriteHttpResponseError, Terminate,
         HandlersCalled, Phases, Opened, Idle, TypeOK, vars,
         stateVars, timerVars, writeVars, senderVars, peerVars
<1>5. OneWrite'
  BY DEF IInv, HandleWriteHttpResponseError, Terminate, OneWrite,
         FlagHeld, FramesOut, Phases, Opened, vars, stateVars,
         timerVars, writeVars, senderVars, peerVars
<1>6. NotForgotten'
  BY DEF IInv, HandleWriteHttpResponseError, Terminate, NotForgotten,
         FlagHeld, FramesOut, TypeOK, vars, stateVars, timerVars,
         writeVars, senderVars, peerVars
<1> QED BY <1>1, <1>2, <1>3, <1>4, <1>5, <1>6 DEF IInv

LEMMA HandleIgnoredKeeps == IInv /\ HandleIgnored => IInv'
<1> SUFFICES ASSUME IInv, HandleIgnored PROVE IInv' OBVIOUS
<1>a. Tail(inbound) \in Seq(Kinds)
  BY HeadTailProperties DEF IInv, TypeOK, HandleIgnored, ReadsFrame, Readable
<1>1. TypeOK'
  BY <1>a
     DEF IInv, HandleIgnored, ReadsFrame, TypeOK, vars, stateVars,
         timerVars, writeVars, senderVars, peerVars
<1>2. Phases'
  BY DEF IInv, HandleIgnored, ReadsFrame, Phases, TypeOK, FramesOut,
         Opened, vars, stateVars, timerVars, writeVars, senderVars,
         peerVars
<1>3. FlagHeld'
  BY DEF IInv, HandleIgnored, ReadsFrame, FlagHeld, FramesOut, Phases,
         Opened, vars, stateVars, timerVars, writeVars, senderVars,
         peerVars
<1>4. HandlersCalled'
  BY DEF IInv, HandleIgnored, ReadsFrame, HandlersCalled, Phases,
         Opened, Idle, TypeOK, vars, stateVars, timerVars, writeVars,
         senderVars, peerVars
<1>5. OneWrite'
  BY DEF IInv, HandleIgnored, ReadsFrame, OneWrite, FlagHeld,
         FramesOut, Phases, Opened, vars, stateVars, timerVars,
         writeVars, senderVars, peerVars
<1>6. NotForgotten'
  BY DEF IInv, HandleIgnored, ReadsFrame, NotForgotten, FlagHeld,
         FramesOut, TypeOK, vars, stateVars, timerVars, writeVars,
         senderVars, peerVars
<1> QED BY <1>1, <1>2, <1>3, <1>4, <1>5, <1>6 DEF IInv

LEMMA HandlePingKeeps == IInv /\ HandlePing => IInv'
<1> SUFFICES ASSUME IInv, HandlePing PROVE IInv' OBVIOUS
<1>a. Tail(inbound) \in Seq(Kinds)
  BY HeadTailProperties DEF IInv, TypeOK, HandlePing, ReadsFrame, Readable
<1>b. Append(m_send_queue, Control("pong")) \in Seq(Frame) /\ Append(m_send_queue, Control("pong")) # <<>>
  BY FrameTypes, AppendProperties DEF IInv, TypeOK
<1>1. TypeOK'
  BY <1>a, <1>b
     DEF IInv, HandlePing, ReadsFrame, PushAndDispatch, TypeOK, vars,
         stateVars, timerVars, writeVars, senderVars, peerVars
<1>2. Phases'
  BY <1>b
     DEF IInv, HandlePing, ReadsFrame, PushAndDispatch, Phases,
         TypeOK, FramesOut, Opened, vars, stateVars, timerVars,
         writeVars, senderVars, peerVars
<1>3. FlagHeld'
  BY DEF IInv, HandlePing, ReadsFrame, PushAndDispatch, FlagHeld,
         FramesOut, Phases, Opened, vars, stateVars, timerVars,
         writeVars, senderVars, peerVars
<1>4. HandlersCalled'
  BY DEF IInv, HandlePing, ReadsFrame, PushAndDispatch,
         HandlersCalled, Phases, Opened, Idle, TypeOK, vars,
         stateVars, timerVars, writeVars, senderVars, peerVars
<1>5. OneWrite'
  BY DEF IInv, HandlePing, ReadsFrame, PushAndDispatch, OneWrite,
         FlagHeld, FramesOut, Phases, Opened, vars, stateVars,
         timerVars, writeVars, senderVars, peerVars
<1>6. NotForgotten'
  BY <1>b
     DEF IInv, HandlePing, ReadsFrame, PushAndDispatch, NotForgotten,
         FlagHeld, FramesOut, TypeOK, vars, stateVars, timerVars,
         writeVars, senderVars, peerVars
<1> QED BY <1>1, <1>2, <1>3, <1>4, <1>5, <1>6 DEF IInv

LEMMA HandleCloseKeeps == IInv /\ HandleClose => IInv'
<1> SUFFICES ASSUME IInv, HandleClose PROVE IInv' OBVIOUS
<1>a. Tail(inbound) \in Seq(Kinds)
  BY HeadTailProperties DEF IInv, TypeOK, HandleClose, ReadsFrame, Readable
<1>b. Append(m_send_queue, Control("close")) \in Seq(Frame) /\ Append(m_send_queue, Control("close")) # <<>>
  BY FrameTypes, AppendProperties DEF IInv, TypeOK
<1>1. TypeOK'
  BY <1>a, <1>b
     DEF IInv, HandleClose, ReadsFrame, SendCloseFrame, SetTimer,
         PushAndDispatch, TypeOK, vars, stateVars, timerVars,
         writeVars, senderVars, peerVars
<1>2. Phases'
  BY <1>b
     DEF IInv, HandleClose, ReadsFrame, SendCloseFrame, SetTimer,
         PushAndDispatch, Phases, TypeOK, FramesOut, Opened, vars,
         stateVars, timerVars, writeVars, senderVars, peerVars
<1>3. FlagHeld'
  BY DEF IInv, HandleClose, ReadsFrame, SendCloseFrame, SetTimer,
         PushAndDispatch, FlagHeld, FramesOut, Phases, Opened, vars,
         stateVars, timerVars, writeVars, senderVars, peerVars
<1>4. HandlersCalled'
  BY DEF IInv, HandleClose, ReadsFrame, SendCloseFrame, SetTimer,
         PushAndDispatch, HandlersCalled, Phases, Opened, Idle,
         TypeOK, vars, stateVars, timerVars, writeVars, senderVars,
         peerVars
<1>5. OneWrite'
  BY DEF IInv, HandleClose, ReadsFrame, SendCloseFrame, SetTimer,
         PushAndDispatch, OneWrite, FlagHeld, FramesOut, Phases,
         Opened, vars, stateVars, timerVars, writeVars, senderVars,
         peerVars
<1>6. NotForgotten'
  BY <1>b
     DEF IInv, HandleClose, ReadsFrame, SendCloseFrame, SetTimer,
         PushAndDispatch, NotForgotten, FlagHeld, FramesOut, TypeOK,
         vars, stateVars, timerVars, writeVars, senderVars, peerVars
<1> QED BY <1>1, <1>2, <1>3, <1>4, <1>5, <1>6 DEF IInv

LEMMA HandleViolationKeeps == IInv /\ HandleViolation => IInv'
<1> SUFFICES ASSUME IInv, HandleViolation PROVE IInv' OBVIOUS
<1>a. Tail(inbound) \in Seq(Kinds)
  BY HeadTailProperties DEF IInv, TypeOK, HandleViolation, ReadsFrame, Readable
<1>b. Append(m_send_queue, Control("close")) \in Seq(Frame) /\ Append(m_send_queue, Control("close")) # <<>>
  BY FrameTypes, AppendProperties DEF IInv, TypeOK
<1>c. was_clean' \in BOOLEAN
  BY DEF IInv, TypeOK, HandleViolation, SendCloseFrame
<1>1. TypeOK'
  <2>1. /\ m_state' \in {"connecting", "open", "closing", "closed"}
        /\ tstat' \in {"unknown", "failed", "closed"}
        /\ timers' \subseteq {"held", "orphan"}
        /\ socket' \in {"up", "broken", "shut"}
        /\ shutdown' \in {"none", "now", "late"}
    BY DEF IInv, TypeOK, HandleViolation, ReadsFrame, SendCloseFrame, SetTimer,
           PushAndDispatch, Terminate,
           vars, stateVars, timerVars, writeVars, senderVars, peerVars
  <2>2. /\ m_send_queue' \in Seq(Frame) /\ m_current_msgs' \in Seq(Frame)
        /\ delivered' \in Seq(Frame) /\ inbound' \in Seq(Kinds)
        /\ calls' \in Seq({"on_open", "on_close"})
    BY <1>a, <1>b
       DEF IInv, TypeOK, HandleViolation, ReadsFrame, SendCloseFrame, SetTimer,
           PushAndDispatch, Terminate,
           vars, stateVars, timerVars, writeVars, senderVars, peerVars
  <2>3. /\ was_clean' \in BOOLEAN /\ expired' \in BOOLEAN
        /\ m_write_flag' \in BOOLEAN /\ stalled' \in BOOLEAN
    BY DEF IInv, TypeOK, HandleViolation, ReadsFrame, SendCloseFrame, SetTimer,
           PushAndDispatch, Terminate,
           vars, stateVars, timerVars, writeVars, senderVars, peerVars
  <2>4. /\ m_internal_state' \in {"USER_INIT", "TRANSPORT_INIT", "READ_HTTP_REQUEST",
                                  "PROCESS_HTTP_REQUEST", "PROCESS_CONNECTION"}
        /\ status' \in {"uninitialized", "switching_protocols", "bad_request"}
        /\ reading' \in {"none", "handshake", "frame"}
        /\ writing' \in {"none", "response", "frames", "failing"}
        /\ dispatched' \in Nat
        /\ sender' \in {"idle", "checked", "pushed"} /\ sent' \in 0 .. MaxSends
        /\ frames' \in 0 .. MaxFrames
    BY DEF IInv, TypeOK, HandleViolation, ReadsFrame, SendCloseFrame, SetTimer,
           PushAndDispatch, Terminate,
           vars, stateVars, timerVars, writeVars, senderVars, peerVars
  <2> QED BY <2>1, <2>2, <2>3, <2>4 DEF TypeOK
<1>2. Phases'
  BY <1>b
     DEF IInv, HandleViolation, ReadsFrame, SendCloseFrame, SetTimer,
         PushAndDispatch, Terminate, Phases, TypeOK, FramesOut,
         Opened, vars, stateVars, timerVars, writeVars, senderVars,
         peerVars
<1>3. FlagHeld'
  BY DEF IInv, HandleViolation, ReadsFrame, SendCloseFrame, SetTimer,
         PushAndDispatch, Terminate, FlagHeld, FramesOut, Phases,
         Opened, vars, stateVars, timerVars, writeVars, senderVars,
         peerVars
<1>4. HandlersCalled'
  BY DEF IInv, HandleViolation, ReadsFrame, SendCloseFrame, SetTimer,
         PushAndDispatch, Terminate, HandlersCalled, Phases, Opened,
         Idle, TypeOK, vars, stateVars, timerVars, writeVars,
         senderVars, peerVars
<1>5. OneWrite'
  BY DEF IInv, HandleViolation, ReadsFrame, SendCloseFrame, SetTimer,
         PushAndDispatch, Terminate, OneWrite, FlagHeld, FramesOut,
         Phases, Opened, vars, stateVars, timerVars, writeVars,
         senderVars, peerVars
<1>6. NotForgotten'
  BY <1>b
     DEF IInv, HandleViolation, ReadsFrame, SendCloseFrame, SetTimer,
         PushAndDispatch, Terminate, NotForgotten, FlagHeld,
         FramesOut, TypeOK, vars, stateVars, timerVars, writeVars,
         senderVars, peerVars
<1> QED BY <1>1, <1>2, <1>3, <1>4, <1>5, <1>6 DEF IInv

LEMMA HandleReadFrameErrorKeeps == IInv /\ HandleReadFrameError => IInv'
<1> SUFFICES ASSUME IInv, HandleReadFrameError PROVE IInv' OBVIOUS
<1>1. TypeOK'
  BY DEF IInv, HandleReadFrameError, Terminate, TypeOK, vars,
         stateVars, timerVars, writeVars, senderVars, peerVars
<1>2. Phases'
  BY DEF IInv, HandleReadFrameError, Terminate, Phases, TypeOK,
         FramesOut, Opened, vars, stateVars, timerVars, writeVars,
         senderVars, peerVars
<1>3. FlagHeld'
  BY DEF IInv, HandleReadFrameError, Terminate, FlagHeld, FramesOut,
         Phases, Opened, vars, stateVars, timerVars, writeVars,
         senderVars, peerVars
<1>4. HandlersCalled'
  BY DEF IInv, HandleReadFrameError, Terminate, HandlersCalled,
         Phases, Opened, Idle, TypeOK, vars, stateVars, timerVars,
         writeVars, senderVars, peerVars
<1>5. OneWrite'
  BY DEF IInv, HandleReadFrameError, Terminate, OneWrite, FlagHeld,
         FramesOut, Phases, Opened, vars, stateVars, timerVars,
         writeVars, senderVars, peerVars
<1>6. NotForgotten'
  BY DEF IInv, HandleReadFrameError, Terminate, NotForgotten,
         FlagHeld, FramesOut, TypeOK, vars, stateVars, timerVars,
         writeVars, senderVars, peerVars
<1> QED BY <1>1, <1>2, <1>3, <1>4, <1>5, <1>6 DEF IInv

LEMMA WriteFrameKeeps == IInv /\ WriteFrame => IInv'
<1> SUFFICES ASSUME IInv, WriteFrame PROVE IInv' OBVIOUS
<1>a. WritesNow =>
        /\ m_current_msgs \o Popped \in Seq(Frame)
        /\ m_current_msgs \o Popped # <<>>
        /\ SubSeq(m_send_queue, Len(Popped) + 1, Len(m_send_queue)) \in Seq(Frame)
  <2> SUFFICES ASSUME WritesNow
               PROVE  /\ m_current_msgs \o Popped \in Seq(Frame)
                      /\ m_current_msgs \o Popped # <<>>
                      /\ SubSeq(m_send_queue, Len(Popped) + 1, Len(m_send_queue)) \in Seq(Frame)
    OBVIOUS
  <2>1. /\ m_send_queue \in Seq(Frame) /\ m_send_queue # <<>> /\ m_current_msgs \in Seq(Frame)
    BY DEF IInv, TypeOK, WritesNow
  <2>2. /\ Popped \in Seq(Frame) /\ Popped # <<>>
        /\ Len(Popped) \in 1 .. Len(m_send_queue)
    BY <2>1, PoppedSome
  <2>3. /\ m_current_msgs \o Popped \in Seq(Frame)
        /\ Len(m_current_msgs \o Popped) = Len(m_current_msgs) + Len(Popped)
    BY <2>1, <2>2, ConcatProperties
  <2>4. m_current_msgs \o Popped # <<>>
    <3>1. Len(m_current_msgs) \in Nat
      BY <2>1, LenProperties
    <3>2. Len(m_current_msgs \o Popped) # 0
      BY <2>2, <2>3, <3>1
    <3> QED BY <3>2, EmptySeq
  <2>5. SubSeq(m_send_queue, Len(Popped) + 1, Len(m_send_queue)) \in Seq(Frame)
    <3>1. /\ Len(m_send_queue) \in Nat /\ Len(Popped) \in Nat
          /\ \A i \in 1 .. Len(m_send_queue) : m_send_queue[i] \in Frame
      BY <2>1, <2>2, LenProperties, ElementOfSeq
    <3> QED BY <3>1, SubSeqProperties
  <2> QED BY <2>3, <2>4, <2>5
<1>1. TypeOK'
  <2>1. /\ m_state' \in {"connecting", "open", "closing", "closed"}
        /\ tstat' \in {"unknown", "failed", "closed"}
        /\ timers' \subseteq {"held", "orphan"}
        /\ socket' \in {"up", "broken", "shut"}
        /\ shutdown' \in {"none", "now", "late"}
    BY DEF IInv, TypeOK, WriteFrame, WritesNow,
           vars, stateVars, timerVars, writeVars, senderVars, peerVars
  <2>2. /\ m_send_queue' \in Seq(Frame) /\ m_current_msgs' \in Seq(Frame)
        /\ delivered' \in Seq(Frame) /\ inbound' \in Seq(Kinds)
        /\ calls' \in Seq({"on_open", "on_close"})
    BY <1>a
       DEF IInv, TypeOK, WriteFrame, WritesNow,
           vars, stateVars, timerVars, writeVars, senderVars, peerVars
  <2>3. /\ was_clean' \in BOOLEAN /\ expired' \in BOOLEAN
        /\ m_write_flag' \in BOOLEAN /\ stalled' \in BOOLEAN
    BY DEF IInv, TypeOK, WriteFrame, WritesNow,
           vars, stateVars, timerVars, writeVars, senderVars, peerVars
  <2>4. /\ m_internal_state' \in {"USER_INIT", "TRANSPORT_INIT", "READ_HTTP_REQUEST",
                                  "PROCESS_HTTP_REQUEST", "PROCESS_CONNECTION"}
        /\ status' \in {"uninitialized", "switching_protocols", "bad_request"}
        /\ reading' \in {"none", "handshake", "frame"}
        /\ writing' \in {"none", "response", "frames", "failing"}
        /\ dispatched' \in Nat
        /\ sender' \in {"idle", "checked", "pushed"} /\ sent' \in 0 .. MaxSends
        /\ frames' \in 0 .. MaxFrames
    BY DEF IInv, TypeOK, WriteFrame, WritesNow,
           vars, stateVars, timerVars, writeVars, senderVars, peerVars
  <2> QED BY <2>1, <2>2, <2>3, <2>4 DEF TypeOK
<1>2. Phases'
  BY DEF IInv, WriteFrame, WritesNow, Phases, TypeOK, FramesOut,
         Opened, vars, stateVars, timerVars, writeVars, senderVars,
         peerVars
<1>3. FlagHeld'
  BY DEF IInv, WriteFrame, WritesNow, FlagHeld, FramesOut, Phases,
         Opened, vars, stateVars, timerVars, writeVars, senderVars,
         peerVars
<1>4. HandlersCalled'
  BY DEF IInv, WriteFrame, WritesNow, HandlersCalled, Phases, Opened,
         Idle, TypeOK, vars, stateVars, timerVars, writeVars,
         senderVars, peerVars
<1>5. OneWrite'
  BY <1>a
     DEF IInv, WriteFrame, WritesNow, OneWrite, FlagHeld, FramesOut,
         Phases, Opened, vars, stateVars, timerVars, writeVars,
         senderVars, peerVars
<1>6. NotForgotten'
  BY DEF IInv, WriteFrame, WritesNow, NotForgotten, FlagHeld,
         FramesOut, TypeOK, vars, stateVars, timerVars, writeVars,
         senderVars, peerVars
<1> QED BY <1>1, <1>2, <1>3, <1>4, <1>5, <1>6 DEF IInv

LEMMA HandleWriteFrameKeeps == IInv /\ HandleWriteFrame => IInv'
<1> SUFFICES ASSUME IInv, HandleWriteFrame PROVE IInv' OBVIOUS
<1>a. delivered \o m_current_msgs \in Seq(Frame) /\ <<>> \in Seq(Frame)
  BY ConcatProperties, EmptySeq DEF IInv, TypeOK
<1>1. TypeOK'
  <2>1. /\ m_state' \in {"connecting", "open", "closing", "closed"}
        /\ tstat' \in {"unknown", "failed", "closed"}
        /\ timers' \subseteq {"held", "orphan"}
        /\ socket' \in {"up", "broken", "shut"}
        /\ shutdown' \in {"none", "now", "late"}
    BY DEF IInv, TypeOK, HandleWriteFrame, WriteQueue, NoTerminate, Terminate,
           vars, stateVars, timerVars, writeVars, senderVars, peerVars
  <2>2. /\ m_send_queue' \in Seq(Frame) /\ m_current_msgs' \in Seq(Frame)
        /\ delivered' \in Seq(Frame) /\ inbound' \in Seq(Kinds)
        /\ calls' \in Seq({"on_open", "on_close"})
    BY <1>a
       DEF IInv, TypeOK, HandleWriteFrame, WriteQueue, NoTerminate, Terminate,
           vars, stateVars, timerVars, writeVars, senderVars, peerVars
  <2>3. /\ was_clean' \in BOOLEAN /\ expired' \in BOOLEAN
        /\ m_write_flag' \in BOOLEAN /\ stalled' \in BOOLEAN
    BY DEF IInv, TypeOK, HandleWriteFrame, WriteQueue, NoTerminate, Terminate,
           vars, stateVars, timerVars, writeVars, senderVars, peerVars
  <2>4. /\ m_internal_state' \in {"USER_INIT", "TRANSPORT_INIT", "READ_HTTP_REQUEST",
                                  "PROCESS_HTTP_REQUEST", "PROCESS_CONNECTION"}
        /\ status' \in {"uninitialized", "switching_protocols", "bad_request"}
        /\ reading' \in {"none", "handshake", "frame"}
        /\ writing' \in {"none", "response", "frames", "failing"}
        /\ dispatched' \in Nat
        /\ sender' \in {"idle", "checked", "pushed"} /\ sent' \in 0 .. MaxSends
        /\ frames' \in 0 .. MaxFrames
    BY DEF IInv, TypeOK, HandleWriteFrame, WriteQueue, NoTerminate, Terminate,
           vars, stateVars, timerVars, writeVars, senderVars, peerVars
  <2> QED BY <2>1, <2>2, <2>3, <2>4 DEF TypeOK
<1>2. Phases'
  BY DEF IInv, HandleWriteFrame, WriteQueue, NoTerminate, Terminate,
         Phases, TypeOK, FramesOut, Opened, vars, stateVars,
         timerVars, writeVars, senderVars, peerVars
<1>3. FlagHeld'
  BY DEF IInv, HandleWriteFrame, WriteQueue, NoTerminate, Terminate,
         FlagHeld, FramesOut, Phases, Opened, vars, stateVars,
         timerVars, writeVars, senderVars, peerVars
<1>4. HandlersCalled'
  BY DEF IInv, HandleWriteFrame, WriteQueue, NoTerminate, Terminate,
         HandlersCalled, Phases, Opened, Idle, TypeOK, vars,
         stateVars, timerVars, writeVars, senderVars, peerVars
<1>5. OneWrite'
  BY DEF IInv, HandleWriteFrame, WriteQueue, NoTerminate, Terminate,
         OneWrite, FlagHeld, FramesOut, Phases, Opened, vars,
         stateVars, timerVars, writeVars, senderVars, peerVars
<1>6. NotForgotten'
  <2>1. CASE IsTerminal(m_current_msgs[Len(m_current_msgs)])
    BY <2>1
       DEF IInv, HandleWriteFrame, WriteQueue, NoTerminate,
           Terminate, NotForgotten, FlagHeld, FramesOut, TypeOK,
           OneWrite, Phases, Opened, vars, stateVars, timerVars,
           writeVars, senderVars, peerVars
  <2>2. CASE ~IsTerminal(m_current_msgs[Len(m_current_msgs)])
    BY <2>2
       DEF IInv, HandleWriteFrame, WriteQueue, NoTerminate,
           Terminate, NotForgotten, FlagHeld, FramesOut, TypeOK,
           OneWrite, Phases, Opened, vars, stateVars, timerVars,
           writeVars, senderVars, peerVars
  <2> QED BY <2>1, <2>2
<1> QED BY <1>1, <1>2, <1>3, <1>4, <1>5, <1>6 DEF IInv

LEMMA HandleWriteFrameErrorKeeps == IInv /\ HandleWriteFrameError => IInv'
<1> SUFFICES ASSUME IInv, HandleWriteFrameError PROVE IInv' OBVIOUS
<1>a. <<>> \in Seq(Frame)
  BY EmptySeq
<1>1. TypeOK'
  BY <1>a
     DEF IInv, HandleWriteFrameError, Terminate, TypeOK, vars,
         stateVars, timerVars, writeVars, senderVars, peerVars
<1>2. Phases'
  BY DEF IInv, HandleWriteFrameError, Terminate, Phases, TypeOK,
         FramesOut, Opened, vars, stateVars, timerVars, writeVars,
         senderVars, peerVars
<1>3. FlagHeld'
  BY DEF IInv, HandleWriteFrameError, Terminate, FlagHeld, FramesOut,
         Phases, Opened, vars, stateVars, timerVars, writeVars,
         senderVars, peerVars
<1>4. HandlersCalled'
  BY DEF IInv, HandleWriteFrameError, Terminate, HandlersCalled,
         Phases, Opened, Idle, TypeOK, vars, stateVars, timerVars,
         writeVars, senderVars, peerVars
<1>5. OneWrite'
  BY DEF IInv, HandleWriteFrameError, Terminate, OneWrite, FlagHeld,
         FramesOut, Phases, Opened, vars, stateVars, timerVars,
         writeVars, senderVars, peerVars
<1>6. NotForgotten'
  BY DEF IInv, HandleWriteFrameError, Terminate, NotForgotten,
         FlagHeld, FramesOut, TypeOK, vars, stateVars, timerVars,
         writeVars, senderVars, peerVars
<1> QED BY <1>1, <1>2, <1>3, <1>4, <1>5, <1>6 DEF IInv

LEMMA ExpireKeeps == IInv /\ Expire => IInv'
<1> SUFFICES ASSUME IInv, Expire PROVE IInv' OBVIOUS
<1>1. TypeOK'
  BY DEF IInv, Expire, TypeOK, vars, stateVars, timerVars, writeVars,
         senderVars, peerVars
<1>2. Phases'
  BY DEF IInv, Expire, Phases, TypeOK, FramesOut, Opened, vars,
         stateVars, timerVars, writeVars, senderVars, peerVars
<1>3. FlagHeld'
  BY DEF IInv, Expire, FlagHeld, FramesOut, Phases, Opened, vars,
         stateVars, timerVars, writeVars, senderVars, peerVars
<1>4. HandlersCalled'
  BY DEF IInv, Expire, HandlersCalled, Phases, Opened, Idle, TypeOK,
         vars, stateVars, timerVars, writeVars, senderVars, peerVars
<1>5. OneWrite'
  BY DEF IInv, Expire, OneWrite, FlagHeld, FramesOut, Phases, Opened,
         vars, stateVars, timerVars, writeVars, senderVars, peerVars
<1>6. NotForgotten'
  BY DEF IInv, Expire, NotForgotten, FlagHeld, FramesOut, TypeOK,
         vars, stateVars, timerVars, writeVars, senderVars, peerVars
<1> QED BY <1>1, <1>2, <1>3, <1>4, <1>5, <1>6 DEF IInv

LEMMA HandleTimeoutKeeps == IInv /\ HandleTimeout => IInv'
<1> SUFFICES ASSUME IInv, HandleTimeout PROVE IInv' OBVIOUS
<1>a. expired' \in BOOLEAN
  BY DEF HandleTimeout
<1>1. TypeOK'
  BY <1>a
     DEF IInv, HandleTimeout, Terminate, TypeOK, vars, stateVars,
         timerVars, writeVars, senderVars, peerVars
<1>2. Phases'
  BY DEF IInv, HandleTimeout, Terminate, Phases, TypeOK, FramesOut,
         Opened, vars, stateVars, timerVars, writeVars, senderVars,
         peerVars
<1>3. FlagHeld'
  BY DEF IInv, HandleTimeout, Terminate, FlagHeld, FramesOut, Phases,
         Opened, vars, stateVars, timerVars, writeVars, senderVars,
         peerVars
<1>4. HandlersCalled'
  BY DEF IInv, HandleTimeout, Terminate, HandlersCalled, Phases,
         Opened, Idle, TypeOK, vars, stateVars, timerVars, writeVars,
         senderVars, peerVars
<1>5. OneWrite'
  BY DEF IInv, HandleTimeout, Terminate, OneWrite, FlagHeld,
         FramesOut, Phases, Opened, vars, stateVars, timerVars,
         writeVars, senderVars, peerVars
<1>6. NotForgotten'
  BY DEF IInv, HandleTimeout, Terminate, NotForgotten, FlagHeld,
         FramesOut, TypeOK, vars, stateVars, timerVars, writeVars,
         senderVars, peerVars
<1> QED BY <1>1, <1>2, <1>3, <1>4, <1>5, <1>6 DEF IInv

LEMMA HandleTerminateKeeps == IInv /\ HandleTerminate => IInv'
<1> SUFFICES ASSUME IInv, HandleTerminate PROVE IInv' OBVIOUS
<1>a. Append(calls, "on_close") \in Seq({"on_open", "on_close"})
  BY AppendProperties DEF IInv, TypeOK
<1>1. TypeOK'
  BY <1>a
     DEF IInv, HandleTerminate, TypeOK, vars, stateVars, timerVars,
         writeVars, senderVars, peerVars
<1>2. Phases'
  BY DEF IInv, HandleTerminate, Phases, TypeOK, FramesOut, Opened,
         vars, stateVars, timerVars, writeVars, senderVars, peerVars
<1>3. FlagHeld'
  BY DEF IInv, HandleTerminate, FlagHeld, FramesOut, Phases, Opened,
         vars, stateVars, timerVars, writeVars, senderVars, peerVars
<1>4. HandlersCalled'
  BY DEF IInv, HandleTerminate, HandlersCalled, Phases, Opened, Idle,
         TypeOK, vars, stateVars, timerVars, writeVars, senderVars,
         peerVars
<1>5. OneWrite'
  BY DEF IInv, HandleTerminate, OneWrite, FlagHeld, FramesOut, Phases,
         Opened, vars, stateVars, timerVars, writeVars, senderVars,
         peerVars
<1>6. NotForgotten'
  BY DEF IInv, HandleTerminate, NotForgotten, FlagHeld, FramesOut,
         TypeOK, vars, stateVars, timerVars, writeVars, senderVars,
         peerVars
<1> QED BY <1>1, <1>2, <1>3, <1>4, <1>5, <1>6 DEF IInv

LEMMA SendChecksKeeps == IInv /\ SendChecks => IInv'
<1> SUFFICES ASSUME IInv, SendChecks PROVE IInv' OBVIOUS
<1>1. TypeOK'
  BY BoundsAssumption
     DEF IInv, SendChecks, TypeOK, vars, stateVars, timerVars,
         writeVars, senderVars, peerVars
<1>2. Phases'
  BY BoundsAssumption
     DEF IInv, SendChecks, Phases, TypeOK, FramesOut, Opened, vars,
         stateVars, timerVars, writeVars, senderVars, peerVars
<1>3. FlagHeld'
  BY DEF IInv, SendChecks, FlagHeld, FramesOut, Phases, Opened, vars,
         stateVars, timerVars, writeVars, senderVars, peerVars
<1>4. HandlersCalled'
  BY DEF IInv, SendChecks, HandlersCalled, Phases, Opened, Idle,
         TypeOK, vars, stateVars, timerVars, writeVars, senderVars,
         peerVars
<1>5. OneWrite'
  BY DEF IInv, SendChecks, OneWrite, FlagHeld, FramesOut, Phases,
         Opened, vars, stateVars, timerVars, writeVars, senderVars,
         peerVars
<1>6. NotForgotten'
  BY DEF IInv, SendChecks, NotForgotten, FlagHeld, FramesOut, TypeOK,
         vars, stateVars, timerVars, writeVars, senderVars, peerVars
<1> QED BY <1>1, <1>2, <1>3, <1>4, <1>5, <1>6 DEF IInv

LEMMA SendPushesKeeps == IInv /\ SendPushes => IInv'
<1> SUFFICES ASSUME IInv, SendPushes PROVE IInv' OBVIOUS
<1>b. Append(m_send_queue, OutgoingMsg) \in Seq(Frame)
  BY FrameTypes, AppendProperties DEF IInv, TypeOK, Phases, SendPushes
<1>1. TypeOK'
  BY <1>b
     DEF IInv, SendPushes, TypeOK, vars, stateVars, timerVars,
         writeVars, senderVars, peerVars
<1>2. Phases'
  BY DEF IInv, SendPushes, Phases, TypeOK, FramesOut, Opened, vars,
         stateVars, timerVars, writeVars, senderVars, peerVars
<1>3. FlagHeld'
  BY DEF IInv, SendPushes, FlagHeld, FramesOut, Phases, Opened, vars,
         stateVars, timerVars, writeVars, senderVars, peerVars
<1>4. HandlersCalled'
  BY DEF IInv, SendPushes, HandlersCalled, Phases, Opened, Idle,
         TypeOK, vars, stateVars, timerVars, writeVars, senderVars,
         peerVars
<1>5. OneWrite'
  BY DEF IInv, SendPushes, OneWrite, FlagHeld, FramesOut, Phases,
         Opened, vars, stateVars, timerVars, writeVars, senderVars,
         peerVars
<1>6. NotForgotten'
  BY DEF IInv, SendPushes, NotForgotten, FlagHeld, FramesOut, TypeOK,
         vars, stateVars, timerVars, writeVars, senderVars, peerVars
<1> QED BY <1>1, <1>2, <1>3, <1>4, <1>5, <1>6 DEF IInv

LEMMA SendDispatchesKeeps == IInv /\ SendDispatches => IInv'
<1> SUFFICES ASSUME IInv, SendDispatches PROVE IInv' OBVIOUS
<1>1. TypeOK'
  BY DEF IInv, SendDispatches, TypeOK, vars, stateVars, timerVars,
         writeVars, senderVars, peerVars
<1>2. Phases'
  BY DEF IInv, SendDispatches, Phases, TypeOK, FramesOut, Opened,
         vars, stateVars, timerVars, writeVars, senderVars, peerVars
<1>3. FlagHeld'
  BY DEF IInv, SendDispatches, FlagHeld, FramesOut, Phases, Opened,
         vars, stateVars, timerVars, writeVars, senderVars, peerVars
<1>4. HandlersCalled'
  BY DEF IInv, SendDispatches, HandlersCalled, Phases, Opened, Idle,
         TypeOK, vars, stateVars, timerVars, writeVars, senderVars,
         peerVars
<1>5. OneWrite'
  BY DEF IInv, SendDispatches, OneWrite, FlagHeld, FramesOut, Phases,
         Opened, vars, stateVars, timerVars, writeVars, senderVars,
         peerVars
<1>6. NotForgotten'
  BY DEF IInv, SendDispatches, NotForgotten, FlagHeld, FramesOut,
         TypeOK, vars, stateVars, timerVars, writeVars, senderVars,
         peerVars
<1> QED BY <1>1, <1>2, <1>3, <1>4, <1>5, <1>6 DEF IInv

LEMMA BrowserSendsKeeps == IInv /\ BrowserSends => IInv'
<1> SUFFICES ASSUME IInv, BrowserSends PROVE IInv' OBVIOUS
<1>a. \A f \in Kinds : Append(inbound, f) \in Seq(Kinds)
  BY AppendProperties DEF IInv, TypeOK
<1>1. TypeOK'
  BY <1>a, BoundsAssumption
     DEF IInv, BrowserSends, TypeOK, vars, stateVars, timerVars,
         writeVars, senderVars, peerVars
<1>2. Phases'
  BY DEF IInv, BrowserSends, Phases, TypeOK, FramesOut, Opened, vars,
         stateVars, timerVars, writeVars, senderVars, peerVars
<1>3. FlagHeld'
  BY DEF IInv, BrowserSends, FlagHeld, FramesOut, Phases, Opened,
         vars, stateVars, timerVars, writeVars, senderVars, peerVars
<1>4. HandlersCalled'
  BY DEF IInv, BrowserSends, HandlersCalled, Phases, Opened, Idle,
         TypeOK, vars, stateVars, timerVars, writeVars, senderVars,
         peerVars
<1>5. OneWrite'
  BY DEF IInv, BrowserSends, OneWrite, FlagHeld, FramesOut, Phases,
         Opened, vars, stateVars, timerVars, writeVars, senderVars,
         peerVars
<1>6. NotForgotten'
  BY DEF IInv, BrowserSends, NotForgotten, FlagHeld, FramesOut,
         TypeOK, vars, stateVars, timerVars, writeVars, senderVars,
         peerVars
<1> QED BY <1>1, <1>2, <1>3, <1>4, <1>5, <1>6 DEF IInv

LEMMA BrowserBreaksKeeps == IInv /\ BrowserBreaks => IInv'
<1> SUFFICES ASSUME IInv, BrowserBreaks PROVE IInv' OBVIOUS
<1>a. <<>> \in Seq(Kinds)
  BY EmptySeq
<1>b. inbound' \in Seq(Kinds)
  BY <1>a DEF IInv, TypeOK, BrowserBreaks
<1>1. TypeOK'
  BY <1>b
     DEF IInv, BrowserBreaks, TypeOK, vars, stateVars, timerVars,
         writeVars, senderVars, peerVars
<1>2. Phases'
  BY DEF IInv, BrowserBreaks, Phases, TypeOK, FramesOut, Opened, vars,
         stateVars, timerVars, writeVars, senderVars, peerVars
<1>3. FlagHeld'
  BY DEF IInv, BrowserBreaks, FlagHeld, FramesOut, Phases, Opened,
         vars, stateVars, timerVars, writeVars, senderVars, peerVars
<1>4. HandlersCalled'
  BY DEF IInv, BrowserBreaks, HandlersCalled, Phases, Opened, Idle,
         TypeOK, vars, stateVars, timerVars, writeVars, senderVars,
         peerVars
<1>5. OneWrite'
  BY DEF IInv, BrowserBreaks, OneWrite, FlagHeld, FramesOut, Phases,
         Opened, vars, stateVars, timerVars, writeVars, senderVars,
         peerVars
<1>6. NotForgotten'
  BY DEF IInv, BrowserBreaks, NotForgotten, FlagHeld, FramesOut,
         TypeOK, vars, stateVars, timerVars, writeVars, senderVars,
         peerVars
<1> QED BY <1>1, <1>2, <1>3, <1>4, <1>5, <1>6 DEF IInv

LEMMA BrowserStallsKeeps == IInv /\ BrowserStalls => IInv'
<1> SUFFICES ASSUME IInv, BrowserStalls PROVE IInv' OBVIOUS
<1>1. TypeOK'
  BY DEF IInv, BrowserStalls, TypeOK, vars, stateVars, timerVars,
         writeVars, senderVars, peerVars
<1>2. Phases'
  BY DEF IInv, BrowserStalls, Phases, TypeOK, FramesOut, Opened, vars,
         stateVars, timerVars, writeVars, senderVars, peerVars
<1>3. FlagHeld'
  BY DEF IInv, BrowserStalls, FlagHeld, FramesOut, Phases, Opened,
         vars, stateVars, timerVars, writeVars, senderVars, peerVars
<1>4. HandlersCalled'
  BY DEF IInv, BrowserStalls, HandlersCalled, Phases, Opened, Idle,
         TypeOK, vars, stateVars, timerVars, writeVars, senderVars,
         peerVars
<1>5. OneWrite'
  BY DEF IInv, BrowserStalls, OneWrite, FlagHeld, FramesOut, Phases,
         Opened, vars, stateVars, timerVars, writeVars, senderVars,
         peerVars
<1>6. NotForgotten'
  BY DEF IInv, BrowserStalls, NotForgotten, FlagHeld, FramesOut,
         TypeOK, vars, stateVars, timerVars, writeVars, senderVars,
         peerVars
<1> QED BY <1>1, <1>2, <1>3, <1>4, <1>5, <1>6 DEF IInv

LEMMA StutterKeeps == IInv /\ UNCHANGED vars => IInv'
<1> SUFFICES ASSUME IInv, UNCHANGED vars PROVE IInv' OBVIOUS
<1>1. TypeOK'
  BY DEF IInv, TypeOK, vars, stateVars, timerVars, writeVars, senderVars, peerVars
<1>2. Phases' /\ FlagHeld' /\ HandlersCalled' /\ OneWrite' /\ NotForgotten'
  BY DEF IInv, Phases, FlagHeld, HandlersCalled, OneWrite, NotForgotten, FramesOut, Opened,
         vars, stateVars, timerVars, writeVars, senderVars, peerVars
<1> QED BY <1>1, <1>2 DEF IInv

LEMMA InitIInv == Init => IInv
<1> SUFFICES ASSUME Init PROVE IInv OBVIOUS
<1>1. TypeOK
  <2>1. /\ m_send_queue \in Seq(Frame) /\ m_current_msgs \in Seq(Frame)
        /\ delivered \in Seq(Frame) /\ inbound \in Seq(Kinds)
        /\ calls \in Seq({"on_open", "on_close"})
    BY EmptySeq DEF Init
  <2>2. sent \in 0 .. MaxSends /\ frames \in 0 .. MaxFrames
    BY BoundsAssumption DEF Init
  <2> QED BY <2>1, <2>2 DEF Init, TypeOK
<1> QED BY <1>1 DEF Init, IInv, Phases, FlagHeld, HandlersCalled, OneWrite, NotForgotten,
                    FramesOut, Opened

LEMMA NextIInv == IInv /\ [Next]_vars => IInv'
BY StartKeeps, InitTimesOutKeeps, HandleReadHandshakeKeeps,
     HandleReadHandshakeErrorKeeps, HandleWriteHttpResponseKeeps,
     HandleWriteHttpResponseErrorKeeps, HandleIgnoredKeeps,
     HandlePingKeeps, HandleCloseKeeps, HandleViolationKeeps,
     HandleReadFrameErrorKeeps, WriteFrameKeeps, HandleWriteFrameKeeps,
     HandleWriteFrameErrorKeeps, ExpireKeeps, HandleTimeoutKeeps,
     HandleTerminateKeeps, SendChecksKeeps, SendPushesKeeps,
     SendDispatchesKeeps, BrowserSendsKeeps, BrowserBreaksKeeps,
     BrowserStallsKeeps, StutterKeeps
   DEF Next, Handlers, Sender

THEOREM Invariant == Spec => []IInv
BY InitIInv, NextIInv, PTL DEF Spec

(* Every variable of the connection keeps its type.                        *)
THEOREM TypeCorrect == Spec => []TypeOK
<1>1. IInv => TypeOK
  BY DEF IInv
<1> QED BY <1>1, Invariant, PTL

(* Flag, queue and buffers of the write side stay in step, though they     *)
(* change on two threads under different locks, for any number of batches  *)
(* (connection_impl.hpp:1777, 1855): handle_write_frame always finds a     *)
(* frame to look at, and no queue is left without a writer.                *)
THEOREM WriteInvHolds == Spec => []WriteInv
<1>1. IInv => WriteInv
  BY DEF IInv, WriteInv
<1> QED BY <1>1, Invariant, PTL

(* While the transport writes, the frames it writes from are not touched.  *)
THEOREM BuffersStayHolds == Spec => BuffersStay
<1> DEFINE Stay == FramesOut /\ FramesOut' => m_current_msgs' = m_current_msgs
<1>1. IInv /\ [Next]_vars => [Stay]_vars
  <2> SUFFICES ASSUME IInv, Next, FramesOut, FramesOut'
               PROVE  m_current_msgs' = m_current_msgs
    OBVIOUS
  <2> USE DEF writeVars, FramesOut
  <2>1. CASE Start \/ InitTimesOut \/ HandleReadHandshake \/ HandleReadHandshakeError
    BY <2>1 DEF Start, InitTimesOut, HandleReadHandshake, HandleReadHandshakeError
  <2>2. CASE HandleWriteHttpResponse \/ HandleWriteHttpResponseError
    BY <2>2 DEF HandleWriteHttpResponse, HandleWriteHttpResponseError
  <2>3. CASE HandleIgnored \/ HandlePing \/ HandleClose
    BY <2>3 DEF HandleIgnored, HandlePing, HandleClose, SendCloseFrame, PushAndDispatch
  <2>4. CASE HandleViolation \/ HandleReadFrameError
    BY <2>4 DEF HandleViolation, HandleReadFrameError, SendCloseFrame, PushAndDispatch
  <2>5. CASE WriteFrame
    BY <2>5 DEF WriteFrame, WritesNow, IInv, FlagHeld
  <2>6. CASE HandleWriteFrame \/ HandleWriteFrameError
    BY <2>6 DEF HandleWriteFrame, HandleWriteFrameError
  <2>7. CASE Expire \/ HandleTimeout \/ HandleTerminate
    BY <2>7 DEF Expire, HandleTimeout, HandleTerminate
  <2>8. CASE SendChecks \/ SendPushes \/ SendDispatches
    BY <2>8 DEF SendChecks, SendPushes, SendDispatches
  <2>9. CASE BrowserSends \/ BrowserBreaks \/ BrowserStalls
    BY <2>9 DEF BrowserSends, BrowserBreaks, BrowserStalls
  <2> QED BY <2>1, <2>2, <2>3, <2>4, <2>5, <2>6, <2>7, <2>8, <2>9 DEF Next, Handlers, Sender
<1> QED BY <1>1, Invariant, PTL DEF Spec, BuffersStay

-----------------------------------------------------------------------------
(* The connection that Broadcast relies on.                                *)

CStep == [ConnectionOfServer!Next]_(ConnectionOfServer!vars)

LEMMA NoStep == UNCHANGED <<m_state, tstat, calls, sent>> => CStep
BY DEF CStep, ConnectionOfServer!vars

(* However terminate() comes to be called, the abstract connection fails,  *)
(* ends, or had ended before.                                              *)
LEMMA TerminateStep == IInv /\ Terminate /\ UNCHANGED <<calls, sent>> => CStep
<1> SUFFICES ASSUME IInv, Terminate, UNCHANGED <<calls, sent>> PROVE CStep OBVIOUS
<1>1. CASE m_state = "closed"
  BY <1>1, NoStep DEF Terminate
<1>2. CASE m_state = "connecting"
  BY <1>2 DEF Terminate, CStep, ConnectionOfServer!Next, ConnectionOfServer!Fail
<1>3. CASE m_state \in {"open", "closing"}
  <2>1. calls = <<"on_open">> /\ Len(calls) = 1
    BY <1>3 DEF IInv, HandlersCalled
  <2>2. m_state' = "closed" /\ tstat' = "closed"
    BY <1>3 DEF Terminate
  <2> QED BY <1>3, <2>1, <2>2
          DEF CStep, ConnectionOfServer!Next, ConnectionOfServer!Terminate
<1> QED BY <1>1, <1>2, <1>3 DEF IInv, TypeOK

LEMMA CloseFrameStep ==
  ASSUME NEW ack, IInv, m_state \in {"open", "closing"}, SendCloseFrame(ack),
         UNCHANGED <<calls, sent>>
  PROVE  CStep
<1>1. CASE m_state = "open"
  BY <1>1 DEF SendCloseFrame, CStep, ConnectionOfServer!Next, ConnectionOfServer!StartClosing
<1>2. CASE m_state = "closing"
  BY <1>2, NoStep DEF SendCloseFrame
<1> QED BY <1>1, <1>2

LEMMA NextStep == IInv /\ [Next]_vars => CStep
<1> SUFFICES ASSUME IInv, [Next]_vars PROVE CStep OBVIOUS
<1> USE DEF stateVars, senderVars
<1>1. CASE Start \/ HandleReadHandshake \/ HandleIgnored \/ HandlePing
  BY <1>1, NoStep DEF Start, HandleReadHandshake, HandleIgnored, HandlePing, ReadsFrame
<1>2. CASE \/ InitTimesOut \/ HandleReadHandshakeError \/ HandleWriteHttpResponseError
           \/ HandleReadFrameError \/ HandleWriteFrameError \/ HandleTimeout
  BY <1>2, TerminateStep
     DEF InitTimesOut, HandleReadHandshakeError, HandleWriteHttpResponseError,
         HandleReadFrameError, HandleWriteFrameError, HandleTimeout
<1>3. CASE HandleWriteHttpResponse
  <2>1. CASE m_state = "closed"
    BY <1>3, <2>1, NoStep DEF HandleWriteHttpResponse, NoTerminate
  <2>2. CASE m_state # "closed" /\ status # "switching_protocols"
    BY <1>3, <2>2, TerminateStep DEF HandleWriteHttpResponse
  <2>3. CASE m_state # "closed" /\ status = "switching_protocols"
    <3>1. m_state = "connecting"
      BY <1>3, <2>3 DEF HandleWriteHttpResponse, IInv, TypeOK, Phases, Opened
    <3> QED BY <1>3, <2>3, <3>1
            DEF HandleWriteHttpResponse, OpenConnection, CStep, ConnectionOfServer!Next,
                ConnectionOfServer!Open
  <2> QED BY <2>1, <2>2, <2>3
<1>4. CASE HandleClose
  BY <1>4, CloseFrameStep DEF HandleClose, ReadsFrame
<1>5. CASE HandleViolation
  BY <1>5, CloseFrameStep, TerminateStep DEF HandleViolation, ReadsFrame
<1>6. CASE HandleWriteFrame
  BY <1>6, TerminateStep, NoStep DEF HandleWriteFrame, NoTerminate
<1>7. CASE HandleTerminate
  <2>1. m_state = "closed" /\ tstat \in {"failed", "closed"} /\ shutdown # "none"
    BY <1>7 DEF HandleTerminate, IInv, HandlersCalled, Phases
  <2>2. CASE tstat = "failed"
    BY <1>7, <2>2, NoStep DEF HandleTerminate
  <2>3. CASE tstat = "closed"
    <3>1. calls = <<"on_open">> /\ calls' = Append(calls, "on_close")
      BY <1>7, <2>1, <2>3 DEF HandleTerminate, IInv, HandlersCalled
    <3>2. Len(calls) = 1 /\ Len(calls') = 2
      BY <3>1
    <3> QED BY <1>7, <2>1, <2>3, <3>1, <3>2
            DEF HandleTerminate, CStep, ConnectionOfServer!Next,
                ConnectionOfServer!HandleTerminate
  <2> QED BY <2>1, <2>2, <2>3
<1>8. CASE SendChecks
  BY <1>8 DEF SendChecks, CStep, ConnectionOfServer!Next, ConnectionOfServer!Send
<1>9. CASE WriteFrame \/ SendPushes \/ SendDispatches \/ Expire
  BY <1>9, NoStep DEF WriteFrame, SendPushes, SendDispatches, Expire
<1>10. CASE BrowserSends \/ BrowserBreaks \/ BrowserStalls
  BY <1>10, NoStep DEF BrowserSends, BrowserBreaks, BrowserStalls
<1>11. CASE UNCHANGED vars
  BY <1>11, NoStep DEF vars
<1> QED BY <1>1, <1>2, <1>3, <1>4, <1>5, <1>6, <1>7, <1>8, <1>9, <1>10, <1>11
        DEF Next, Handlers, Sender

(* The safety half of the refinement: websocketpp gives yprocmon what      *)
(* Connection promises, whatever the browser sends and the timers do.  The *)
(* fairness half is model-checked (ImplementsConnection).                  *)
THEOREM StepsOfConnection ==
  Spec => ConnectionOfServer!Init /\ [][ConnectionOfServer!Next]_(ConnectionOfServer!vars)
<1>1. Init => ConnectionOfServer!Init
  BY DEF Init, ConnectionOfServer!Init
<1>2. IInv /\ [Next]_vars => [ConnectionOfServer!Next]_(ConnectionOfServer!vars)
  BY NextStep DEF CStep
<1> QED BY <1>1, <1>2, Invariant, PTL DEF Spec

-----------------------------------------------------------------------------
(* The order of what is written.                                           *)

Count(q, k) == Cardinality(BatchesAmong(q, k))
Total(q)    == Count(q, Len(q))

(* The batches of q are numbered on from those before it.                  *)
Numbered(q, before) ==
  \A i \in DOMAIN q : q[i].kind = "batch" => q[i].n = before + Count(q, i)

EndsTerminal(q) == \A i \in DOMAIN q : IsTerminal(q[i]) => i = Len(q)

(* The sends whose batch has been pushed.                                  *)
PushedSoFar == IF sender = "checked" THEN sent - 1 ELSE sent

(* After a terminal frame, or a write that failed, the flag stays up and   *)
(* nothing is ever written again; until then all frames still to be        *)
(* written follow on those that were.                                      *)
Writable == ~m_write_flag \/ FramesOut

StillInOrder ==
  /\ \A i \in DOMAIN delivered : ~IsTerminal(delivered[i])
  /\ EndsTerminal(m_current_msgs)
  /\ Numbered(m_current_msgs, Total(delivered))
  /\ Numbered(m_send_queue, Total(delivered) + Total(m_current_msgs))
  /\ PushedSoFar = Total(delivered) + Total(m_current_msgs) + Total(m_send_queue)

OrderInv == Numbered(delivered, 0) /\ EndsTerminal(delivered) /\ (Writable => StillInOrder)

LEMMA CountType ==
  ASSUME NEW q, NEW k \in Nat
  PROVE  IsFiniteSet(BatchesAmong(q, k)) /\ Count(q, k) \in Nat
<1>1. IsFiniteSet(1 .. k)
  BY FS_Interval
<1>2. BatchesAmong(q, k) \in SUBSET (1 .. k)
  BY DEF BatchesAmong
<1>3. IsFiniteSet(BatchesAmong(q, k))
  BY <1>1, <1>2, FS_Subset
<1> QED BY <1>3, FS_CardinalityType DEF Count

LEMMA TotalType == ASSUME NEW q \in Seq(Frame) PROVE Total(q) \in Nat
BY CountType, LenProperties DEF Total

LEMMA NothingCounted ==
  /\ Total(<<>>) = 0
  /\ \A b : Numbered(<<>>, b)
  /\ EndsTerminal(<<>>)
<1>1. BatchesAmong(<<>>, 0) = {} /\ Len(<<>>) = 0 /\ DOMAIN <<>> = {}
  BY DEF BatchesAmong
<1>2. Total(<<>>) = 0
  BY <1>1, FS_EmptySet DEF Total, Count
<1> QED BY <1>1, <1>2 DEF Numbered, EndsTerminal

(* The batches among the first frames of a queue behind another one.       *)
LEMMA CountConcat ==
  ASSUME NEW p \in Seq(Frame), NEW q \in Seq(Frame)
  PROVE  /\ \A k \in 0 .. Len(p) : Count(p \o q, k) = Count(p, k)
         /\ \A k \in 0 .. Len(q) : Count(p \o q, Len(p) + k) = Total(p) + Count(q, k)
         /\ Total(p \o q) = Total(p) + Total(q)
<1>1. /\ Len(p) \in Nat /\ Len(q) \in Nat /\ Len(p \o q) = Len(p) + Len(q)
      /\ \A i \in 1 .. Len(p) : (p \o q)[i] = p[i]
      /\ \A i \in 1 .. Len(q) : (p \o q)[Len(p) + i] = q[i]
  <2>1. /\ Len(p) \in Nat /\ Len(q) \in Nat /\ Len(p \o q) = Len(p) + Len(q)
        /\ \A i \in 1 .. Len(p) + Len(q) : (p \o q)[i] =
             IF i <= Len(p) THEN p[i] ELSE q[i - Len(p)]
    BY ConcatProperties, LenProperties
  <2>2. \A i \in 1 .. Len(q) : /\ Len(p) + i \in 1 .. Len(p) + Len(q)
                               /\ ~(Len(p) + i <= Len(p)) /\ Len(p) + i - Len(p) = i
    BY <2>1
  <2>3. \A i \in 1 .. Len(p) : i \in 1 .. Len(p) + Len(q) /\ i <= Len(p)
    BY <2>1
  <2> QED BY <2>1, <2>2, <2>3
<1>2. ASSUME NEW k \in 0 .. Len(p) PROVE Count(p \o q, k) = Count(p, k)
  <2>1. \A j \in 1 .. k : (p \o q)[j] = p[j]
    BY <1>1
  <2>2. BatchesAmong(p \o q, k) = BatchesAmong(p, k)
    BY <2>1 DEF BatchesAmong
  <2> QED BY <2>2 DEF Count
<1>3. ASSUME NEW k \in 0 .. Len(q) PROVE Count(p \o q, Len(p) + k) = Total(p) + Count(q, k)
  <2> DEFINE front == BatchesAmong(p, Len(p))
             later == {j \in Len(p) + 1 .. Len(p) + k : (p \o q)[j].kind = "batch"}
             f     == [j \in BatchesAmong(q, k) |-> Len(p) + j]
  <2>0. \A j \in 1 .. k : (p \o q)[Len(p) + j] = q[j]
    BY <1>1
  <2>1. \A j \in BatchesAmong(q, k) : Len(p) + j \in later
    BY <1>1, <2>0 DEF BatchesAmong
  <2>2. \A i \in later : i - Len(p) \in BatchesAmong(q, k) /\ Len(p) + (i - Len(p)) = i
    <3> SUFFICES ASSUME NEW i \in later
                 PROVE  i - Len(p) \in BatchesAmong(q, k) /\ Len(p) + (i - Len(p)) = i
      OBVIOUS
    <3>1. i - Len(p) \in 1 .. k /\ Len(p) + (i - Len(p)) = i
      BY <1>1
    <3>2. (p \o q)[i] = q[i - Len(p)]
      BY <2>0, <3>1
    <3> QED BY <3>1, <3>2 DEF BatchesAmong
  <2>3. f \in [BatchesAmong(q, k) -> later]
    BY <2>1
  <2>4. \A i, j \in BatchesAmong(q, k) : f[i] = f[j] => i = j
    BY <1>1 DEF BatchesAmong
  <2>5. \A i \in later : \E j \in BatchesAmong(q, k) : f[j] = i
    BY <2>2
  <2>6. ExistsBijection(BatchesAmong(q, k), later)
    <3>1. f \in Bijection(BatchesAmong(q, k), later)
      BY <2>3, <2>4, <2>5 DEF Bijection, Injection, Surjection, IsInjective
    <3> QED BY <3>1 DEF ExistsBijection
  <2>7. IsFiniteSet(later) /\ Cardinality(later) = Count(q, k)
    <3>1. IsFiniteSet(BatchesAmong(q, k))
      <4>1. k \in Nat
        BY <1>1
      <4> QED BY <4>1, CountType
    <3> HIDE DEF later
    <3> QED BY <2>6, <3>1, FS_Bijection DEF Count
  <2>8. IsFiniteSet(front) /\ Cardinality(front) = Total(p) /\ Total(p) \in Nat
    BY <1>1, CountType DEF Count, Total
  <2>9. BatchesAmong(p \o q, Len(p) + k) = front \cup later
    BY <1>1 DEF BatchesAmong
  <2>10. front \cap later = {}
    BY <1>1 DEF BatchesAmong
  <2> HIDE DEF front, later
  <2>11. Cardinality(front \cup later) = Cardinality(front) + Cardinality(later) - Cardinality({})
    BY <2>7, <2>8, <2>10, FS_Union
  <2>12. Count(q, k) \in Nat
    <3>1. k \in Nat
      BY <1>1
    <3> QED BY <3>1, CountType
  <2>13. Count(p \o q, Len(p) + k) = Cardinality(front) + Cardinality(later) - 0
    BY <2>9, <2>11, FS_EmptySet DEF Count
  <2> QED BY <2>7, <2>8, <2>12, <2>13
<1>4. Total(p \o q) = Total(p) + Total(q)
  BY <1>1, <1>3 DEF Total
<1> QED BY <1>2, <1>3, <1>4

(* Two queues are numbered on from each other exactly when their           *)
(* concatenation is.                                                       *)
LEMMA NumberedConcat ==
  ASSUME NEW p \in Seq(Frame), NEW q \in Seq(Frame), NEW b \in Nat
  PROVE  Numbered(p \o q, b) <=> Numbered(p, b) /\ Numbered(q, b + Total(p))
<1>1. /\ Len(p) \in Nat /\ Len(q) \in Nat
      /\ DOMAIN (p \o q) = 1 .. Len(p) + Len(q)
      /\ DOMAIN p = 1 .. Len(p) /\ DOMAIN q = 1 .. Len(q)
      /\ \A i \in 1 .. Len(p) + Len(q) : (p \o q)[i] =
           IF i <= Len(p) THEN p[i] ELSE q[i - Len(p)]
  BY ConcatProperties, LenProperties
<1>2. ASSUME NEW i \in DOMAIN p
      PROVE  i \in DOMAIN (p \o q) /\ (p \o q)[i] = p[i] /\ Count(p \o q, i) = Count(p, i)
  <2>1. i \in 0 .. Len(p) /\ i \in 1 .. Len(p) + Len(q) /\ i <= Len(p)
    BY <1>1
  <2> QED BY <1>1, <2>1, CountConcat
<1>3. ASSUME NEW i \in DOMAIN q
      PROVE  /\ Len(p) + i \in DOMAIN (p \o q) /\ (p \o q)[Len(p) + i] = q[i]
             /\ b + Count(p \o q, Len(p) + i) = (b + Total(p)) + Count(q, i)
  <2>1. /\ i \in 0 .. Len(q) /\ Len(p) + i \in 1 .. Len(p) + Len(q)
        /\ ~(Len(p) + i <= Len(p)) /\ Len(p) + i - Len(p) = i
    BY <1>1
  <2>2. Count(p \o q, Len(p) + i) = Total(p) + Count(q, i)
    BY <2>1, CountConcat
  <2>3. Count(q, i) \in Nat /\ Total(p) \in Nat
    BY <2>1, CountType, TotalType
  <2>4. b + Count(p \o q, Len(p) + i) = (b + Total(p)) + Count(q, i)
    BY <2>2, <2>3
  <2> QED BY <1>1, <2>1, <2>4
<1>4. ASSUME Numbered(p \o q, b) PROVE Numbered(p, b) /\ Numbered(q, b + Total(p))
  BY <1>2, <1>3, <1>4 DEF Numbered
<1>5. ASSUME Numbered(p, b), Numbered(q, b + Total(p)) PROVE Numbered(p \o q, b)
  <2> SUFFICES ASSUME NEW i \in DOMAIN (p \o q), (p \o q)[i].kind = "batch"
               PROVE  (p \o q)[i].n = b + Count(p \o q, i)
    BY DEF Numbered
  <2>1. CASE i \in DOMAIN p
    BY <1>2, <1>5, <2>1 DEF Numbered
  <2>2. CASE i \notin DOMAIN p
    <3>1. PICK j \in DOMAIN q : i = Len(p) + j
      <4>1. i - Len(p) \in DOMAIN q /\ i = Len(p) + (i - Len(p))
        BY <1>1, <2>2
      <4> QED BY <4>1
    <3> QED BY <1>3, <1>5, <3>1 DEF Numbered
  <2> QED BY <2>1, <2>2
<1> QED BY <1>4, <1>5

(* A frame is pushed: a control frame, or the next batch.                  *)
LEMMA NumberedAppend ==
  ASSUME NEW q \in Seq(Frame), NEW f \in Frame, NEW b \in Nat, Numbered(q, b)
  PROVE  /\ f.kind # "batch" => Numbered(Append(q, f), b) /\ Total(Append(q, f)) = Total(q)
         /\ f.kind = "batch" /\ f.n = b + Total(q) + 1 =>
              Numbered(Append(q, f), b) /\ Total(Append(q, f)) = Total(q) + 1
<1>1. Append(q, f) = q \o <<f>> /\ <<f>> \in Seq(Frame)
  BY AppendIsConcat
<1>2. /\ Numbered(Append(q, f), b) <=> Numbered(q, b) /\ Numbered(<<f>>, b + Total(q))
      /\ Total(Append(q, f)) = Total(q) + Total(<<f>>)
  <2>1. Numbered(q \o <<f>>, b) <=> Numbered(q, b) /\ Numbered(<<f>>, b + Total(q))
    BY <1>1, NumberedConcat
  <2>2. Total(q \o <<f>>) = Total(q) + Total(<<f>>)
    BY <1>1, CountConcat
  <2> QED BY <1>1, <2>1, <2>2
<1>3. Total(<<f>>) = IF f.kind = "batch" THEN 1 ELSE 0
  <2>1. Len(<<f>>) = 1 /\ <<f>>[1] = f
    OBVIOUS
  <2>2. CASE f.kind = "batch"
    <3>1. BatchesAmong(<<f>>, 1) = {1}
      BY <2>1, <2>2 DEF BatchesAmong
    <3> QED BY <2>1, <2>2, <3>1, FS_Singleton DEF Total, Count
  <2>3. CASE f.kind # "batch"
    <3>1. BatchesAmong(<<f>>, 1) = {}
      BY <2>1, <2>3 DEF BatchesAmong
    <3> QED BY <2>1, <2>3, <3>1, FS_EmptySet DEF Total, Count
  <2> QED BY <2>2, <2>3
<1>4. Numbered(<<f>>, b + Total(q)) <=> (f.kind = "batch" => f.n = b + Total(q) + Total(<<f>>))
  <2>1. DOMAIN <<f>> = {1} /\ <<f>>[1] = f /\ Len(<<f>>) = 1
    OBVIOUS
  <2> QED BY <2>1 DEF Numbered, Total
<1>5. Total(q) \in Nat
  BY TotalType
<1>6. CASE f.kind # "batch"
  BY <1>2, <1>3, <1>4, <1>5, <1>6
<1>7. CASE f.kind = "batch"
  <2>1. Total(<<f>>) = 1
    BY <1>3, <1>7
  <2> QED BY <1>2, <1>4, <1>7, <2>1
<1> QED BY <1>6, <1>7

(* What write_frame() takes and leaves is what there was, and only the     *)
(* last frame it takes can be terminal.                                    *)
LEMMA PoppedSplits ==
  ASSUME m_send_queue \in Seq(Frame), m_send_queue # <<>>
  PROVE  /\ Popped \o SubSeq(m_send_queue, Len(Popped) + 1, Len(m_send_queue)) = m_send_queue
         /\ SubSeq(m_send_queue, Len(Popped) + 1, Len(m_send_queue)) \in Seq(Frame)
         /\ EndsTerminal(Popped)
<1> DEFINE ends == {i \in DOMAIN m_send_queue : IsTerminal(m_send_queue[i])}
           n == IF ends = {} THEN Len(m_send_queue)
                             ELSE CHOOSE i \in ends : \A j \in ends : i <= j
<1>1. Len(m_send_queue) \in Nat \ {0} /\ DOMAIN m_send_queue = 1 .. Len(m_send_queue)
  BY EmptySeq, LenProperties
<1>2. n \in 1 .. Len(m_send_queue) /\ \A i \in ends : n <= i
  <2>1. CASE ends = {}
    BY <2>1, <1>1
  <2>2. CASE ends # {}
    <3>1. ends \in SUBSET Nat /\ ends \subseteq 1 .. Len(m_send_queue)
      BY <1>1
    <3> HIDE DEF ends
    <3>2. \E i \in ends : \A j \in ends : i <= j
      BY <2>2, <3>1, LeastOf
    <3>3. n \in ends /\ \A j \in ends : n <= j
      BY <2>2, <3>2
    <3> QED BY <3>1, <3>3
  <2> QED BY <2>1, <2>2
<1>3. Popped = SubSeq(m_send_queue, 1, n)
  BY DEF Popped
<1>4. \A i \in 1 .. Len(m_send_queue) : IsTerminal(m_send_queue[i]) => n <= i
  BY <1>1, <1>2
<1> HIDE DEF n
<1>5. \A i \in 1 .. n : m_send_queue[i] \in Frame
  BY <1>1, <1>2, ElementOfSeq
<1>6. /\ Len(Popped) = n /\ DOMAIN Popped = 1 .. n
      /\ \A i \in 1 .. n : Popped[i] = m_send_queue[i]
  <2>1. /\ Popped \in Seq(Frame) /\ Len(Popped) = n
        /\ \A i \in 1 .. n - 1 + 1 : Popped[i] = m_send_queue[1 + i - 1]
    BY <1>1, <1>2, <1>3, <1>5, SubSeqProperties
  <2>2. \A i \in 1 .. n : i \in 1 .. n - 1 + 1 /\ 1 + i - 1 = i
    BY <1>2
  <2> QED BY <2>1, <2>2, LenProperties
<1>7. EndsTerminal(Popped)
  <2> SUFFICES ASSUME NEW i \in 1 .. n, IsTerminal(Popped[i]) PROVE i = n
    BY <1>6 DEF EndsTerminal
  <2>1. n <= i
    BY <1>1, <1>2, <1>4, <1>6
  <2> QED BY <1>2, <2>1
<1>8. Popped \o SubSeq(m_send_queue, n + 1, Len(m_send_queue)) = m_send_queue
  <2>1. /\ 1 \in 1 .. Len(m_send_queue) + 1 /\ n \in 1 - 1 .. Len(m_send_queue)
        /\ Len(m_send_queue) \in n .. Len(m_send_queue)
    BY <1>1, <1>2
  <2>2. Popped \o SubSeq(m_send_queue, n + 1, Len(m_send_queue))
          = SubSeq(m_send_queue, 1, Len(m_send_queue))
    BY <1>3, <2>1, ConcatAdjacentSubSeq
  <2> QED BY <2>2, SubSeqFull
<1>9. SubSeq(m_send_queue, n + 1, Len(m_send_queue)) \in Seq(Frame)
  <2>1. n + 1 \in Int /\ Len(m_send_queue) \in Int
    BY <1>1, <1>2
  <2>2. \A i \in n + 1 .. Len(m_send_queue) : i \in 1 .. Len(m_send_queue)
    BY <1>1, <1>2
  <2>3. \A i \in n + 1 .. Len(m_send_queue) : m_send_queue[i] \in Frame
    BY <2>2, ElementOfSeq
  <2> QED BY <2>1, <2>3, SubSeqProperties
<1> QED BY <1>6, <1>7, <1>8, <1>9

-----------------------------------------------------------------------------
(* Steps.  Most of them push nothing and write nothing, ...                *)

LeavesQueue ==
  /\ UNCHANGED <<delivered, m_current_msgs, m_write_flag, m_send_queue>>
  /\ FramesOut' <=> FramesOut
  /\ PushedSoFar' = PushedSoFar

(* ... some push a control frame or the next batch, ...                    *)
PushesControl ==
  /\ UNCHANGED <<delivered, m_current_msgs, m_write_flag>>
  /\ FramesOut' <=> FramesOut
  /\ PushedSoFar' = PushedSoFar
  /\ \E k \in {"pong", "close"} : m_send_queue' = Append(m_send_queue, Control(k))

PushesBatch ==
  /\ UNCHANGED <<delivered, m_current_msgs, m_write_flag>>
  /\ FramesOut' <=> FramesOut
  /\ PushedSoFar' = PushedSoFar + 1
  /\ m_send_queue' = Append(m_send_queue, [kind |-> "batch", n |-> PushedSoFar + 1])

(* ... and three hand frames to the transport, or have them back.          *)
Takes == WriteFrame /\ WritesNow /\ PushedSoFar' = PushedSoFar
Wrote == HandleWriteFrame /\ PushedSoFar' = PushedSoFar
Failed == HandleWriteFrameError /\ PushedSoFar' = PushedSoFar

Effect == LeavesQueue \/ PushesControl \/ PushesBatch \/ Takes \/ Wrote \/ Failed

LEMMA StepEffect == IInv /\ [Next]_vars => Effect
<1> SUFFICES ASSUME IInv, [Next]_vars PROVE Effect
  OBVIOUS
<1> USE DEF writeVars, senderVars
<1>1. TypeOK /\ Phases
  BY DEF IInv
<1>2. CASE Start \/ InitTimesOut
  BY <1>2 DEF Start, InitTimesOut, Effect, LeavesQueue, FramesOut, PushedSoFar
<1>3. CASE HandleReadHandshake
  <2>1. writing = "none" /\ writing' \in {"none", "response"}
    BY <1>1, <1>3 DEF HandleReadHandshake, Phases
  <2> QED BY <1>3, <2>1 DEF HandleReadHandshake, Effect, LeavesQueue, FramesOut, PushedSoFar
<1>4. CASE HandleReadHandshakeError \/ HandleReadFrameError \/ HandleTimeout
  BY <1>4 DEF HandleReadHandshakeError, HandleReadFrameError, HandleTimeout, Effect,
              LeavesQueue, FramesOut, PushedSoFar
<1>5. CASE HandleWriteHttpResponse \/ HandleWriteHttpResponseError
  <2>1. writing = "response" /\ writing' = "none"
    BY <1>5 DEF HandleWriteHttpResponse, HandleWriteHttpResponseError
  <2> QED BY <1>5, <2>1 DEF HandleWriteHttpResponse, HandleWriteHttpResponseError, Effect,
                            LeavesQueue, FramesOut, PushedSoFar
<1>6. CASE HandleIgnored
  BY <1>6 DEF HandleIgnored, ReadsFrame, Effect, LeavesQueue, FramesOut, PushedSoFar
<1>7. CASE HandlePing
  BY <1>7 DEF HandlePing, ReadsFrame, PushAndDispatch, Effect, PushesControl, FramesOut,
              PushedSoFar
<1>8. CASE HandleClose
  BY <1>8 DEF HandleClose, ReadsFrame, SendCloseFrame, PushAndDispatch, Effect,
              PushesControl, FramesOut, PushedSoFar
<1>9. CASE HandleViolation
  <2>1. CASE m_state = "open"
    BY <1>9, <2>1 DEF HandleViolation, ReadsFrame, SendCloseFrame, PushAndDispatch, Effect,
                      PushesControl, FramesOut, PushedSoFar
  <2>2. CASE m_state # "open"
    BY <1>9, <2>2 DEF HandleViolation, ReadsFrame, Effect, LeavesQueue, FramesOut, PushedSoFar
  <2> QED BY <2>1, <2>2
<1>10. CASE WriteFrame
  <2>1. CASE WritesNow
    BY <1>10, <2>1 DEF WriteFrame, Effect, Takes, PushedSoFar
  <2>2. CASE ~WritesNow
    BY <1>10, <2>2 DEF WriteFrame, Effect, LeavesQueue, FramesOut, PushedSoFar
  <2> QED BY <2>1, <2>2
<1>11. CASE HandleWriteFrame \/ HandleWriteFrameError
  BY <1>11 DEF HandleWriteFrame, HandleWriteFrameError, Effect, Wrote, Failed, PushedSoFar
<1>12. CASE Expire \/ HandleTerminate
  BY <1>12 DEF Expire, HandleTerminate, Effect, LeavesQueue, FramesOut, PushedSoFar
<1>13. CASE SendChecks
  <2>1. PushedSoFar' = PushedSoFar
    BY <1>1, <1>13, BoundsAssumption DEF SendChecks, PushedSoFar, TypeOK
  <2> QED BY <1>13, <2>1 DEF SendChecks, Effect, LeavesQueue, FramesOut
<1>14. CASE SendPushes
  <2>1. sent \in Nat /\ sender = "checked" /\ sender' # "checked" /\ sent' = sent
    BY <1>1, <1>14, BoundsAssumption DEF SendPushes, TypeOK
  <2>2. PushedSoFar' = PushedSoFar + 1 /\ sent = PushedSoFar + 1
    BY <2>1 DEF PushedSoFar
  <2> QED BY <1>14, <2>2 DEF SendPushes, OutgoingMsg, Effect, PushesBatch, FramesOut
<1>15. CASE SendDispatches
  BY <1>15 DEF SendDispatches, Effect, LeavesQueue, FramesOut, PushedSoFar
<1>16. CASE BrowserSends \/ BrowserBreaks \/ BrowserStalls
  BY <1>16 DEF BrowserSends, BrowserBreaks, BrowserStalls, Effect, LeavesQueue, FramesOut,
               PushedSoFar
<1>17. CASE UNCHANGED vars
  BY <1>17 DEF vars, Effect, LeavesQueue, FramesOut, PushedSoFar
<1> QED
  BY <1>2, <1>3, <1>4, <1>5, <1>6, <1>7, <1>8, <1>9, <1>10, <1>11, <1>12, <1>13,
     <1>14, <1>15, <1>16, <1>17
  DEF Next, Handlers, Sender

LEMMA EffectOrder == IInv /\ OrderInv /\ TypeOK' /\ Effect => OrderInv'
<1> SUFFICES ASSUME IInv, OrderInv, TypeOK', Effect PROVE OrderInv'
  OBVIOUS
<1>1. /\ delivered \in Seq(Frame) /\ m_current_msgs \in Seq(Frame) /\ m_send_queue \in Seq(Frame)
      /\ OneWrite /\ FlagHeld
  BY DEF IInv, TypeOK
<1>2. Total(delivered) \in Nat /\ Total(m_current_msgs) \in Nat /\ Total(m_send_queue) \in Nat
  BY <1>1, TotalType
<1>3. Numbered(delivered, 0) /\ EndsTerminal(delivered) /\ (Writable => StillInOrder)
  BY DEF OrderInv
<1>4. ASSUME UNCHANGED <<delivered, m_current_msgs, m_write_flag>>, FramesOut' <=> FramesOut,
             Writable => Numbered(m_send_queue', Total(delivered) + Total(m_current_msgs)),
             Writable => PushedSoFar' = Total(delivered) + Total(m_current_msgs) + Total(m_send_queue')
      PROVE  OrderInv'
  <2>1. Writable' <=> Writable
    BY <1>4 DEF Writable
  <2>2. Numbered(delivered', 0) /\ EndsTerminal(delivered')
    BY <1>3, <1>4
  <2>3. ASSUME Writable PROVE StillInOrder'
    BY <1>3, <1>4, <2>3 DEF StillInOrder
  <2> QED BY <2>1, <2>2, <2>3 DEF OrderInv
<1>5. CASE LeavesQueue
  <2>1. Writable => StillInOrder
    BY <1>3
  <2> QED BY <1>4, <1>5, <2>1 DEF LeavesQueue, StillInOrder
<1>6. CASE PushesControl
  <2>1. PICK k \in {"pong", "close"} : m_send_queue' = Append(m_send_queue, Control(k))
    BY <1>6 DEF PushesControl
  <2>2. Control(k) \in Frame /\ Control(k).kind # "batch"
    BY <2>1, FrameTypes DEF Control
  <2>3. ASSUME Writable
        PROVE  /\ Numbered(m_send_queue', Total(delivered) + Total(m_current_msgs))
               /\ PushedSoFar' = Total(delivered) + Total(m_current_msgs) + Total(m_send_queue')
    <3>1. /\ Numbered(m_send_queue, Total(delivered) + Total(m_current_msgs))
          /\ PushedSoFar = Total(delivered) + Total(m_current_msgs) + Total(m_send_queue)
      BY <1>3, <2>3 DEF StillInOrder
    <3>2. Total(delivered) + Total(m_current_msgs) \in Nat
      BY <1>2
    <3>3. /\ Numbered(m_send_queue', Total(delivered) + Total(m_current_msgs))
          /\ Total(m_send_queue') = Total(m_send_queue)
      BY <1>1, <2>1, <2>2, <3>1, <3>2, NumberedAppend
    <3> QED BY <1>6, <3>1, <3>3 DEF PushesControl
  <2> QED BY <1>4, <1>6, <2>3 DEF PushesControl
<1>7. CASE PushesBatch
  <2> DEFINE f == [kind |-> "batch", n |-> PushedSoFar + 1]
  <2>1. m_send_queue' = Append(m_send_queue, f) /\ m_send_queue' \in Seq(Frame)
    BY <1>7 DEF PushesBatch, TypeOK
  <2>2. f \in Frame
    <3>1. m_send_queue'[Len(m_send_queue) + 1] = f /\ Len(m_send_queue) + 1 \in DOMAIN m_send_queue'
      BY <1>1, <2>1
    <3> QED BY <2>1, <3>1
  <2>3. f.kind = "batch" /\ f.n = PushedSoFar + 1
    OBVIOUS
  <2> HIDE DEF f
  <2>4. ASSUME Writable
        PROVE  /\ Numbered(m_send_queue', Total(delivered) + Total(m_current_msgs))
               /\ PushedSoFar' = Total(delivered) + Total(m_current_msgs) + Total(m_send_queue')
    <3>1. /\ Numbered(m_send_queue, Total(delivered) + Total(m_current_msgs))
          /\ PushedSoFar = Total(delivered) + Total(m_current_msgs) + Total(m_send_queue)
      BY <1>3, <2>4 DEF StillInOrder
    <3>2. Total(delivered) + Total(m_current_msgs) \in Nat
      BY <1>2
    <3>3. f.n = (Total(delivered) + Total(m_current_msgs)) + Total(m_send_queue) + 1
      BY <2>3, <3>1
    <3>4. /\ Numbered(m_send_queue', Total(delivered) + Total(m_current_msgs))
          /\ Total(m_send_queue') = Total(m_send_queue) + 1
      BY <1>1, <2>1, <2>2, <2>3, <3>1, <3>2, <3>3, NumberedAppend
    <3>5. PushedSoFar' = PushedSoFar + 1
      BY <1>7 DEF PushesBatch
    <3> QED BY <1>2, <3>1, <3>4, <3>5
  <2> QED BY <1>4, <1>7, <2>4 DEF PushesBatch
<1>8. CASE Takes
  <2> DEFINE rest == SubSeq(m_send_queue, Len(Popped) + 1, Len(m_send_queue))
  <2>1. ~m_write_flag /\ m_send_queue # <<>> /\ m_current_msgs = <<>>
    BY <1>1, <1>8 DEF Takes, WritesNow, OneWrite, FlagHeld
  <2>2. /\ Popped \in Seq(Frame) /\ rest \in Seq(Frame)
        /\ Popped \o rest = m_send_queue /\ EndsTerminal(Popped)
    BY <1>1, <2>1, PoppedSome, PoppedSplits
  <2>3. m_current_msgs' = Popped /\ m_send_queue' = rest /\ delivered' = delivered
    <3>1. m_current_msgs' = m_current_msgs \o Popped /\ m_send_queue' = rest /\ delivered' = delivered
      BY <1>8 DEF Takes, WriteFrame
    <3>2. <<>> \o Popped = Popped
      BY <2>2, ConcatEmptySeq
    <3> QED BY <2>1, <3>1, <3>2
  <2> HIDE DEF rest
  <2>4. StillInOrder
    BY <1>3, <2>1 DEF Writable
  <2>5. Total(m_current_msgs) = 0
    BY <2>1, NothingCounted
  <2>6. /\ Numbered(m_send_queue, Total(delivered))
        /\ PushedSoFar = Total(delivered) + Total(m_send_queue)
    <3>1. Total(delivered) + Total(m_current_msgs) = Total(delivered)
      BY <1>2, <2>5
    <3> QED BY <2>4, <3>1 DEF StillInOrder
  <2>7. /\ Numbered(Popped, Total(delivered)) /\ Numbered(rest, Total(delivered) + Total(Popped))
        /\ Total(m_send_queue) = Total(Popped) + Total(rest)
    <3>1. Numbered(Popped \o rest, Total(delivered))
      BY <2>2, <2>6
    <3>2. Numbered(Popped, Total(delivered)) /\ Numbered(rest, Total(delivered) + Total(Popped))
      BY <1>2, <2>2, <3>1, NumberedConcat
    <3>3. Total(Popped \o rest) = Total(Popped) + Total(rest)
      BY <2>2, CountConcat
    <3> QED BY <2>2, <3>2, <3>3
  <2>8. Total(Popped) \in Nat /\ Total(rest) \in Nat
    BY <2>2, TotalType
  <2>9. PushedSoFar = Total(delivered) + Total(Popped) + Total(rest)
    BY <1>2, <2>6, <2>7, <2>8
  <2>10. PushedSoFar' = PushedSoFar
    BY <1>8 DEF Takes
  <2>11. StillInOrder'
    BY <2>2, <2>3, <2>4, <2>7, <2>9, <2>10 DEF StillInOrder
  <2> QED BY <1>3, <2>3, <2>11 DEF OrderInv
<1>9. CASE Wrote
  <2>1. /\ writing = "frames" /\ delivered' = delivered \o m_current_msgs
        /\ m_current_msgs' = <<>> /\ m_send_queue' = m_send_queue /\ writing' = "none"
    BY <1>9 DEF Wrote, HandleWriteFrame
  <2>2. Writable /\ StillInOrder /\ m_current_msgs # <<>>
    BY <1>1, <1>3, <2>1 DEF Writable, FramesOut, OneWrite
  <2>3. Numbered(delivered', 0) /\ Total(delivered') = Total(delivered) + Total(m_current_msgs)
    <3>1. 0 + Total(delivered) = Total(delivered)
      BY <1>2
    <3>2. Numbered(delivered \o m_current_msgs, 0)
      BY <1>1, <1>3, <2>2, <3>1, NumberedConcat DEF StillInOrder
    <3> QED BY <1>1, <2>1, <3>2, CountConcat
  <2>4. /\ Len(delivered) \in Nat /\ Len(m_current_msgs) \in Nat
        /\ Len(delivered') = Len(delivered) + Len(m_current_msgs)
        /\ DOMAIN delivered' = 1 .. Len(delivered) + Len(m_current_msgs)
        /\ \A i \in 1 .. Len(delivered) + Len(m_current_msgs) : delivered'[i] =
             IF i <= Len(delivered) THEN delivered[i] ELSE m_current_msgs[i - Len(delivered)]
    BY <1>1, <2>1, ConcatProperties, LenProperties
  <2>5. /\ Len(m_current_msgs) # 0 /\ DOMAIN delivered = 1 .. Len(delivered)
        /\ DOMAIN m_current_msgs = 1 .. Len(m_current_msgs)
    BY <1>1, <2>2, EmptySeq, LenProperties
  <2>6. ASSUME NEW i \in DOMAIN delivered', IsTerminal(delivered'[i])
        PROVE  i = Len(delivered') /\ IsTerminal(m_current_msgs[Len(m_current_msgs)])
    <3>1. CASE i <= Len(delivered)
      <4>1. i \in DOMAIN delivered /\ delivered'[i] = delivered[i]
        BY <2>4, <2>5, <3>1
      <4> QED BY <2>2, <2>6, <4>1 DEF StillInOrder
    <3>2. CASE ~(i <= Len(delivered))
      <4>1. i - Len(delivered) \in DOMAIN m_current_msgs
        BY <2>4, <2>5, <3>2
      <4>2. IsTerminal(m_current_msgs[i - Len(delivered)])
        BY <2>4, <2>6, <3>2
      <4>3. i - Len(delivered) = Len(m_current_msgs)
        BY <2>2, <4>1, <4>2 DEF StillInOrder, EndsTerminal
      <4> QED BY <2>4, <4>2, <4>3
    <3> QED BY <3>1, <3>2
  <2>7. EndsTerminal(delivered')
    BY <2>6 DEF EndsTerminal
  <2>8. ASSUME Writable' PROVE StillInOrder'
    <3>1. ~m_write_flag'
      BY <2>1, <2>8 DEF Writable, FramesOut
    <3>2. ~IsTerminal(m_current_msgs[Len(m_current_msgs)])
      <4>1. m_write_flag
        BY <1>1, <2>1 DEF FlagHeld, FramesOut
      <4> QED BY <1>9, <3>1, <4>1 DEF Wrote, HandleWriteFrame
    <3>3. \A i \in DOMAIN delivered' : ~IsTerminal(delivered'[i])
      BY <2>6, <3>2
    <3>4. EndsTerminal(m_current_msgs') /\ Numbered(m_current_msgs', Total(delivered'))
            /\ Total(m_current_msgs') = 0
      BY <2>1, NothingCounted
    <3>5. Total(delivered') + Total(m_current_msgs') = Total(delivered) + Total(m_current_msgs)
      BY <1>2, <2>3, <3>4
    <3>6. /\ Numbered(m_send_queue', Total(delivered') + Total(m_current_msgs'))
          /\ PushedSoFar' = Total(delivered') + Total(m_current_msgs') + Total(m_send_queue')
      BY <1>9, <2>1, <2>2, <3>5 DEF Wrote, StillInOrder
    <3> QED BY <3>3, <3>4, <3>6 DEF StillInOrder
  <2> QED BY <2>3, <2>7, <2>8 DEF OrderInv
<1>10. CASE Failed
  <2>1. /\ FramesOut /\ writing' = "none" /\ m_write_flag' = m_write_flag /\ delivered' = delivered
    BY <1>10 DEF Failed, HandleWriteFrameError, FramesOut
  <2>2. m_write_flag
    BY <1>1, <2>1 DEF FlagHeld
  <2>3. ~Writable'
    BY <2>1, <2>2 DEF Writable, FramesOut
  <2> QED BY <1>3, <2>1, <2>3 DEF OrderInv
<1> QED BY <1>5, <1>6, <1>7, <1>8, <1>9, <1>10 DEF Effect

LEMMA InitOrder == Init => OrderInv
<1> SUFFICES ASSUME Init PROVE OrderInv
  OBVIOUS
<1>1. m_send_queue = <<>> /\ m_current_msgs = <<>> /\ delivered = <<>> /\ PushedSoFar = 0
  BY DEF Init, PushedSoFar
<1>2. DOMAIN delivered = {}
  BY <1>1
<1> QED BY <1>1, <1>2, NothingCounted DEF OrderInv, StillInOrder

(* The batches a browser is sent are those of the first calls of send(),   *)
(* in order and without a gap, and nothing follows a close frame, though   *)
(* sends are accepted and pushed under different locks, and the close      *)
(* frame and pongs are pushed by another thread (connection_impl.hpp:1777, *)
(* 1855).                                                                  *)
THEOREM SentInOrderHolds == Spec => []SentInOrder
<1>1. IInv /\ OrderInv /\ [Next]_vars => (IInv /\ OrderInv)'
  <2> SUFFICES ASSUME IInv, OrderInv, [Next]_vars PROVE IInv' /\ OrderInv'
    OBVIOUS
  <2>1. IInv' /\ TypeOK'
    BY NextIInv DEF IInv
  <2> QED BY <2>1, StepEffect, EffectOrder
<1>2. IInv /\ OrderInv => SentInOrder
  <2> SUFFICES ASSUME IInv, OrderInv PROVE SentInOrder
    OBVIOUS
  <2>1. delivered \in Seq(Frame) /\ Numbered(delivered, 0) /\ EndsTerminal(delivered)
    BY DEF IInv, TypeOK, OrderInv
  <2>2. ASSUME NEW i \in DOMAIN delivered PROVE 0 + Count(delivered, i) = Count(delivered, i)
    <3>1. i \in Nat
      BY <2>1
    <3>2. Count(delivered, i) \in Nat
      BY <3>1, CountType
    <3> QED BY <3>2
  <2> QED BY <2>1, <2>2 DEF SentInOrder, Numbered, EndsTerminal, Count
<1> QED BY <1>1, <1>2, InitIInv, InitOrder, PTL DEF Spec
=============================================================================
