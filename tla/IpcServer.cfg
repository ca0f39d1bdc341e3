\* Two processes share two instances, one of them there before the server
\* is ready; messages overrun chRequest or exceed the read.  One that overruns
\* may be parsed all the same, which is all that one that fits can do.
CONSTANTS
  c1 = c1
  c2 = c2
  Nobody = Nobody
  Clients = {c1, c2}
  Early = {c1}
  Instances = 2
  BufSize = 1
  CharWidth = 2
  Sizes = {2, 3}
  Quota = 1
  MaxWrites = 2
SPECIFICATION Spec
CHECK_DEADLOCK FALSE
INVARIANTS
  LedgerInv
  Attribution
  NotForgotten
PROPERTIES
  NeverStopsServing
  ImplementsProcessLog
  Delivered
  LateSlotReclaimed
