SPECIFICATION Spec
CONSTANTS
  t1 = t1  t2 = t2  t3 = t3  t4 = t4
  Threads = {t1, t2, t3, t4}
  Calls <- ReplaceCalls
  Streams = {s1}
  Contexts = {c1, c2}
  Pipelines = {p1, p2}
  Tracks = {"video"}
  NULL = NULL
CHECK_DEADLOCK FALSE
SYMMETRY ObjectSymmetry
INVARIANT NoLaterOutput
