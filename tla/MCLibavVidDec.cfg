SPECIFICATION Spec
CONSTANTS
  plain = plain  nal = nal  bad = bad  i420 = i420  rgb = rgb  odd = odd
  InCaps = {plain, nal, bad}
  NalCaps = {nal}
  BadCaps = {bad}
  Formats = {i420, rgb, odd}
  Supported = {i420, rgb}
  None = None
  Delay = 2
  MaxFrames = 3
  MaxFormats = 2
CHECK_DEADLOCK FALSE
INVARIANTS AcceptedIsOpen OutputMatches RealFrames DrainComplete NullFrameAtDrain
PROPERTIES SendReturns
