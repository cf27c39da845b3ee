SPECIFICATION Spec
CONSTANTS
  c1 = c1  c2 = c2  f1 = f1  f2 = f2  odd = odd
  InCaps = {c1, c2}
  Formats = {f1, f2, odd}
  Unknown = {odd}
  None = None
  Delay = 1
  MaxPackets = 4
  MaxFormats = 2
CHECK_DEADLOCK FALSE
INVARIANTS LastCapsOpen SubframesFinished OutputMatches OwnDate
