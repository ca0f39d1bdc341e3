---------------------------- MODULE MessageView ----------------------------
(***************************************************************************)
(* How the page comes by the messages it shows (App.js of the front end):  *)
(* every WebSocket batch is decoded with an await of its own and then      *)
(* dispatched to the reducer, which appends it to state.messages; the      *)
(* Clear button empties that list at any time.  A batch is its number in   *)
(* the order of the server's sends.  The component <Ws> is external: it    *)
(* calls onMessage in the order of arrival and connects again when the     *)
(* socket closes; what is sent meanwhile never reaches the page.           *)
(***************************************************************************)
EXTENDS Naturals, Sequences

CONSTANTS
  MaxBatches,   \* bound on the batches sent
  Malformed     \* batches with a send() that lacks its argument "data"

ASSUME MaxBatchesAssumption == MaxBatches \in Nat
ASSUME MalformedAssumption  == Malformed \subseteq 1 .. MaxBatches

VARIABLES
  sent,       \* number of batches the server has sent
  socket,     \* TRUE while the page is connected
  inbound,    \* batches on their way to onMessage
  decoding,   \* batches whose text() is awaited
  messages,   \* state.messages
  alive,      \* FALSE once the reducer has thrown: React unmounts the page
  cleared,    \* history: the batches Clear took off the page
  together    \* history: pairs of batches that were decoded at one time

netVars  == <<sent, socket, inbound>>
histVars == <<cleared, together>>
vars == <<netVars, decoding, messages, alive, histVars>>

Batches == 1 .. MaxBatches
Shown   == {messages[i] : i \in DOMAIN messages}

TypeOK ==
  /\ sent \in 0 .. MaxBatches
  /\ socket \in BOOLEAN
  /\ inbound \in Seq(Batches)
  /\ decoding \subseteq Batches
  /\ messages \in Seq(Batches)
  /\ alive \in BOOLEAN
  /\ cleared \subseteq Batches
  /\ together \subseteq SUBSET Batches

Init ==
  /\ sent = 0 /\ socket = TRUE /\ inbound = <<>>
  /\ decoding = {}
  /\ messages = <<>>
  /\ alive = TRUE
  /\ cleared = {} /\ together = {}

-----------------------------------------------------------------------------
(* The server and the socket.                                              *)

NextBatch == sent + 1

Send ==
  /\ sent < MaxBatches
  /\ sent' = sent + 1
  /\ inbound' = IF socket THEN Append(inbound, NextBatch) ELSE inbound
  /\ UNCHANGED <<socket, decoding, messages, alive, histVars>>

SocketCloses ==
  /\ socket
  /\ socket' = FALSE
  /\ inbound' = <<>>
  /\ UNCHANGED <<sent, decoding, messages, alive, histVars>>

Reconnect ==
  /\ ~socket /\ alive
  /\ socket' = TRUE
  /\ UNCHANGED <<sent, inbound, decoding, messages, alive, histVars>>

-----------------------------------------------------------------------------
(* The page.                                                               *)

(* Mutant: one place for the batch being decoded.                          *)
AwaitsOnlyLast(b) == decoding' = {b}

AwaitsText(b) == decoding' = decoding \cup {b}

OnMessage ==
  /\ alive /\ inbound # <<>>
  /\ AwaitsText(Head(inbound))
  /\ together' = together \cup {{Head(inbound), b} : b \in decoding}
  /\ inbound' = Tail(inbound)
  /\ UNCHANGED <<sent, socket, messages, alive, cleared>>

(* Mutant: the newest batch is put on top.                                 *)
ConcatBefore(b) == <<b>> \o messages

(* state.messages.concat(newMessages)                                      *)
Concat(b) == messages \o <<b>>

(* The decode of any batch may end first.                                  *)
MessagesAppend(b) ==
  /\ alive /\ b \in decoding
  /\ decoding' = decoding \ {b}
  /\ IF b \in Malformed
       THEN alive' = FALSE /\ UNCHANGED messages
       ELSE messages' = Concat(b) /\ UNCHANGED alive
  /\ UNCHANGED <<netVars, histVars>>

(* Mutant: only messagesClearAt is set, which nobody reads.                *)
OnlyMarksTime == UNCHANGED messages

EmptiesList == messages' = <<>>

MessagesClear ==
  /\ alive
  /\ EmptiesList
  /\ cleared' = cleared \cup Shown
  /\ UNCHANGED <<netVars, decoding, alive, together>>

Page == OnMessage \/ MessagesClear \/ \E b \in Batches : MessagesAppend(b)

Next == Send \/ SocketCloses \/ Reconnect \/ Page

Spec == Init /\ [][Next]_vars

(* Arrived messages are handled and every text() resolves: the browser     *)
(* runs its event loop.  Nothing makes the server send, the socket close   *)
(* or come back, or the user press Clear.                                  *)
FairSpec == /\ Spec
            /\ WF_vars(OnMessage)
            /\ \A b \in Batches : WF_vars(MessagesAppend(b))

-----------------------------------------------------------------------------
Elements(s) == {s[i] : i \in DOMAIN s}

(* A batch is at one place: on the wire, being decoded, on the page or     *)
(* cleared from it, and on the page at most once.  A clear between receipt *)
(* and decoding, a reconnection, or decodes that end in any order neither  *)
(* duplicate a batch nor bring back a cleared one.                         *)
ShownOnce ==
  /\ \A i, j \in DOMAIN messages : messages[i] = messages[j] => i = j
  /\ decoding \cap Shown = {} /\ decoding \cap cleared = {} /\ Shown \cap cleared = {}
  /\ Elements(inbound) \cap (decoding \cup Shown \cup cleared) = {}

ViewInv == TypeOK /\ ShownOnce

(* Batches are out of order on the page only if they were being decoded at *)
(* the same time: a batch that was appended before another arrived stays   *)
(* above it (App.js:127-134).                                              *)
OrderedUnlessOverlapped ==
  \A i, j \in DOMAIN messages :
    i < j => messages[i] < messages[j] \/ {messages[i], messages[j]} \in together

(* What arrives is shown: a batch on the wire is handed over unless the    *)
(* socket closes first, and one being decoded is appended, unless the page *)
(* has died of a malformed one.                                            *)
ReceivedShown ==
  \A b \in Batches :
    /\ b \in Elements(inbound) ~> (b \in decoding \cup Shown \/ ~alive \/ ~socket)
    /\ b \in decoding ~> (b \in Shown \cup cleared \/ ~alive)
=============================================================================
