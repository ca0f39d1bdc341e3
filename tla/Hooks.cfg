\* Two threads share the guard.  The process may exit.
CONSTANTS
  t1 = t1
  t2 = t2
  Threads = {t1, t2}
  Main = t1
  MaxCalls = 3
  MaxReports = 2
SPECIFICATION Spec
CHECK_DEADLOCK FALSE
INVARIANTS
  GuardInv
  RecursionNeedsOverlap
  EveryCallReported
