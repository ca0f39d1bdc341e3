\* Two batches of the processing thread and three frames of the browser.
CONSTANTS
  MaxSends = 2
  MaxFrames = 3
SPECIFICATION FairSpec
CHECK_DEADLOCK FALSE
INVARIANTS
  WriteInv
  SentInOrder
PROPERTIES
  ImplementsConnection
  HandshakeEnds
  Flushed
