SPECIFICATION Spec
CONSTANTS
  c1 = c1  c2 = c2  c3 = c3
  InCaps = {c1, c2, c3}
  Unpositioned = {c2}
  Reordered = {c3}
  None = None
  Delay = 1
  MaxFrames = 4
  MaxFormats = 3
CHECK_DEADLOCK FALSE
INVARIANTS FrameForEveryPacket OwnFrame CodecFitsFormat AcceptedIsOpen DrainedStartsAnew OwnLayout
