SPECIFICATION Spec
CONSTANTS
  video = video  audio = audio  c1 = c1  c2 = c2
  Pads = {video, audio}
  InCaps = {c1, c2}
  None = None
  MaxTime = 2
  NoTime = 3
  MaxBuffers = 4
  MaxRuns = 2
CHECK_DEADLOCK FALSE
INVARIANTS HeaderCovers HeaderDescribes InOrder
