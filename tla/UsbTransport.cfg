SPECIFICATION Spec
CONSTANTS
  PIPELINE_DEPTH = 2
  RECV_QUEUE_DEPTH = 2
  MaxChunks = 3
  MaxReplies = 2
  MaxFaults = 1
INVARIANTS
  OkMeansWholeFrame
  FreedIsIdle
  RepliesInOrder

  
