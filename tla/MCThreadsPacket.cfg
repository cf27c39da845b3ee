SPECIFICATION Spec
CONSTANTS
  t1 = t1  t2 = t2  t3 = t3  t4 = t4
  Threads = {t1, t2}
  Calls <- PacketCalls
  Streams = {s1}
  Contexts = {c1}
  Pipelines = {p1}
  Tracks = {"audio"}
  NULL = NULL
CHECK_DEADLOCK FALSE
INVARIANT PacketsChecked
