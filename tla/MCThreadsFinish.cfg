SPECIFICATION Spec
CONSTANTS
  t1 = t1  t2 = t2  t3 = t3  t4 = t4
  Threads = {t1, t2, t3}
  Calls <- FinishCalls
  Streams = {s1}
  Contexts = {c1, c2}
  Pipelines = {p1}
  Tracks = {"video"}
  NULL = NULL
CHECK_DEADLOCK FALSE
INVARIANTS TypeOK UnregisterSafe
PROPERTY EveryCallReturns
