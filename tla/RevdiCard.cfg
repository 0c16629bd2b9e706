SPECIFICATION Spec
CONSTANTS
  m1 = m1
  m2 = m2
  r1 = r1
  Modes = {m1, m2}
  Regions = {r1}
  NoMode = NoMode
  MaxFlips = 2
  MaxEnables = 2
  MaxClients = 2
  MaxCursors = 1
  QueueCap = 2
CHECK_DEADLOCK FALSE
INVARIANT NoLostWakeup
PROPERTY FlippedFrameIsGrabbed
PROPERTY CardKeepsThePromise
