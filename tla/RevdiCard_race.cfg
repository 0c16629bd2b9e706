SPECIFICATION Spec
CONSTANTS
  m1 = m1
  r1 = r1
  r2 = r2
  Modes = {m1}
  Regions = {r1, r2}
  NoMode = NoMode
  MaxFlips = 2
  MaxEnables = 1
  MaxClients = 1
  MaxCursors = 0
  QueueCap = 9
CHECK_DEADLOCK FALSE
INVARIANT ClientHasTheFrame
