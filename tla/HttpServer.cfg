\* Two workers and three connections, so that one may wait behind a full pool;
\* two requests, so that one connection may use up its turns.
CONSTANTS
  w1 = w1
  w2 = w2
  Workers = {w1, w2}
  Connections = {1, 2, 3}
  NoConnection = 0
  MaxCount = 2
  MaxRequests = 2
  MaxUnread = 1
SPECIFICATION FairSpec
CHECK_DEADLOCK FALSE
INVARIANTS
  PoolInv
  NoJobWaits
  AnnouncedClose
PROPERTIES
  Released
