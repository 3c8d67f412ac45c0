SPECIFICATION FairSpec
CONSTANTS
  Backoff <- MCBackoff
  Window = 9
  Threshold = 4
  Cap = 4
  LedTicks = 2
  EventBound = 3
INVARIANTS
  OneRetrySource
  WindowExact
  LightTells
PROPERTIES
  RecoversAtThreshold
  RecoveryCompletes
  KeepsTrying
