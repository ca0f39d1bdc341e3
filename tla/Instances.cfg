\* Three requests and as many pids: any of them could come back if the
\* system were free to reuse it.  Once all processes are gone it stops.
CONSTANTS
  r1 = r1
  r2 = r2
  r3 = r3
  p1 = p1
  p2 = p2
  p3 = p3
  NoPid = NoPid
  Requests = {r1, r2, r3}
  Pids = {p1, p2, p3}
SPECIFICATION Spec
CHECK_DEADLOCK FALSE
INVARIANTS
  NeverTerminates
  RightVerdict
  Found
PROPERTIES
  Settles
