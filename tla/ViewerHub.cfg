SPECIFICATION FairSpec
CONSTANTS
  Viewers = {v1, v2}
  Nobody = Nobody
  Depth = 2
  PendingLimit = 1
  FrameBound = 3
INVARIANTS NoSilentLoss NewestKept
PROPERTIES ImplementsBuffer CallbackEnds
CHECK_DEADLOCK FALSE
