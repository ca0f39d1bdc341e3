\* A process opens and closes the pipe while the server is starting.
CONSTANTS
  c1 = c1
  c2 = c2
  Nobody = Nobody
  Clients = {c1, c2}
  Early = {c1}
  Instances = 1
  BufSize = 1
  CharWidth = 2
  Sizes = {1}
  Quota = 1
  MaxWrites = 1
SPECIFICATION Spec
CHECK_DEADLOCK FALSE
PROPERTIES
  SlotReclaimed
