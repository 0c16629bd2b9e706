SPECIFICATION Spec
CONSTANTS
  m1 = m1
  m2 = m2
  Modes = {m1, m2}
  NoMode = NoMode
  MAX_CONNECTORS = 2
  Connectors = 2
  DockKinds = {TRUE, FALSE}
  ReportsPresence = TRUE
  DiscoverByEdid = FALSE
  PRESENCE_SILENT_LIMIT = 1
  MaxChanges = 3
  MaxPlugs = 2
  MaxFailures = 1
  MaxSilences = 1
  MaxEvents = 4
CHECK_DEADLOCK FALSE
INVARIANT ActiveIsLit
PROPERTY PluggedIsKept
 
 
