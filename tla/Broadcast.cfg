\* Two browsers that come and go and two messages: a connection joins or
\* leaves before, during and after every batch.  The program may crash, so
\* it may stop.
CONSTANTS
  c1 = c1
  c2 = c2
  Nobody = Nobody
  Connections = {c1, c2}
  MaxMessages = 2
SPECIFICATION Spec
CHECK_DEADLOCK FALSE
INVARIANTS
  SubscribersInv
  NoLostWakeup
PROPERTIES
  ImplementsFeed
  Fed
  GhostsLeave
  ApiAnswered
