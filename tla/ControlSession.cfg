SPECIFICATION Spec
CONSTANTS
  Heads = {1, 2}
  Shapes = {"arrow"}
  Places = {"origin", "aside"}
  CounterMod = 8
  MaxLag = 1
  MaxWindow = 1
  MaxOps = 3
  MaxFaults = 1
INVARIANTS
  FramesAreScannedOut
  DockFollowsTheSession
  
  
