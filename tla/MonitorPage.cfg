\* Two programs and two processes, and any two tasks at one time, over any
\* number of visits and tasks: two drops read at one time, an upload beside a
\* launch, an upload left behind by a visit beside one of the next, lists that
\* overtake each other; any request may fail.
CONSTANTS
  f1 = f1
  f2 = f2
  p1 = p1
  p2 = p2
  Files = {f1, f2}
  Pids = {p1, p2}
  s1 = s1
  s2 = s2
  Slots = {s1, s2}
SPECIFICATION PageSpec
SYMMETRY Symmetric
INVARIANTS
  PageInv
PROPERTIES
  RefreshNotOlder
  ResultShown
