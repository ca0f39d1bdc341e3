------------------------------- MODULE Feed -------------------------------
(* What the WebSocket endpoint promises its subscribers                    *)
(* (src/src/ywebsock.h): entries are published 1, 2, ... and a subscriber  *)
(* is handed, in order and without a gap, an interval of them that starts  *)
(* no later than the first entry published after it joined.  Older entries *)
(* may come with it; nothing is ever replayed from the beginning.          *)
EXTENDS Naturals, Sequences

CONSTANTS
  Connections,  \* the subscribers
  MaxMessages   \* bound on the entries published

VARIABLES
  published,    \* number of entries published
  joined,       \* the subscribers that have joined so far
  since,        \* number of entries published when each one joined
  feed          \* what each was handed

vars == <<published, joined, since, feed>>

Init ==
  /\ published = 0
  /\ joined = {}
  /\ since = [c \in Connections |-> 0]
  /\ feed  = [c \in Connections |-> <<>>]

Publish ==
  /\ published < MaxMessages
  /\ published' = published + 1
  /\ UNCHANGED <<joined, since, feed>>

Join(c) ==
  /\ c \notin joined
  /\ joined' = joined \cup {c}
  /\ since'  = [since EXCEPT ![c] = published]
  /\ UNCHANGED <<published, feed>>

(* The first entry a delivery to c may start with.                         *)
MayStart(c, k) ==
  IF feed[c] = <<>> THEN k \in 1 .. since[c] + 1
                    ELSE k = feed[c][Len(feed[c])] + 1

Deliver(c) ==
  /\ c \in joined
  /\ \E first, last \in 1 .. published :
       /\ MayStart(c, first) /\ first <= last
       /\ feed' = [feed EXCEPT ![c] = @ \o [i \in 1 .. last - first + 1 |-> first + i - 1]]
  /\ UNCHANGED <<published, joined, since>>

Next == Publish \/ \E c \in Connections : Join(c) \/ Deliver(c)

Spec == Init /\ [][Next]_vars
=============================================================================
