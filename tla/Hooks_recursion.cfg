\* Two threads share the guard: a report is reported.
CONSTANTS
  t1 = t1
  t2 = t2
  Threads = {t1, t2}
  Main = t1
  MaxCalls = 2
  MaxReports = 2
SPECIFICATION Spec
CHECK_DEADLOCK FALSE
INVARIANTS
  PreventRecursion
