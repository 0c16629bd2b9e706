SPECIFICATION PartsSpec
CONSTANTS
  MaxEnables = 3
  MAX_DAMAGE_RECTS = 2
  FbWidth = 3
  FbHeight = 2
  Buffers <- MCBuffers
  Capacities = {1, 2, 16}
  N = 8
  Fine = 4
  COEF_MAX = 255
  Matrices <- MCMatrices
  Ramps <- MCRamps
  Absent = Absent
  Images = {i1, i2}
  NoImage = NoImage
  Width = 3
  Size = 2
  EventCap = 2
  MaxCommits = 3
  MaxSwitches = 2
CHECK_DEADLOCK FALSE
INVARIANT TimerAlive
 
INVARIANT PointerIsThePlanes
PROPERTY FlipsComplete
PROPERTY KeepsThePromise
