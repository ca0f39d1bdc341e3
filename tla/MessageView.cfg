\* Four batches, the last of which kills the page: every order of decodes,
\* with clears and reconnections anywhere.  All batches may have been sent,
\* or the page be dead, so the system may stop.
CONSTANTS
  MaxBatches = 4
  Malformed <- LastMalformed
SPECIFICATION FairSpec
CHECK_DEADLOCK FALSE
INVARIANTS
  ViewInv
  OrderedUnlessOverlapped
PROPERTIES
  ReceivedShown
