SPECIFICATION Spec
CONSTANTS
  Connectors = 2
  FIRST_TRIES = 2
  MaxLate = 1
  MaxFaults = 1
  POLL_ITERS = 2
  POLL_PROBE_EVERY = 2
  FINAL_FETCH_ROUNDS = 1
  MaxFetches = 2
INVARIANTS
  StaysInStep
  SocketsAuthenticated
  OutputIsItsMonitor
PROPERTY
  EngageSucceeds
