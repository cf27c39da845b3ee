SPECIFICATION Spec
CONSTANTS
  MaxRead = 2
  MaxCalls = 3
  video = video  data = data  a1 = a1
  Streams = {video, data}
  Known = {video}
  Seekers = {a1}
  Seeks <- TwoSeeks
  Modes = {"push", "pull"}
  FileLen = 3
  MaxActivations = 2
  NoSegment = NoSegment  Upstream = Upstream
CHECK_DEADLOCK FALSE
INVARIANTS TypeOK OneWaiter NoStaleData SegmentFirst FlushIsNoEnd
PROPERTIES ChainReturns SeekReturns StopReturns
