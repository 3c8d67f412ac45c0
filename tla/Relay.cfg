\* Two viewers and two goroutines: a session can outlive its removal while the
\* next one runs.
SPECIFICATION FairSpec
CONSTANTS
  Viewers = {v1, v2}
  Sessions = {s1, s2}
  None = None
  Stale = Stale
  MinDelay = 2
  MaxDelay = 3
INVARIANTS ClaimsCounted SessionAlive NobodyStranded
PROPERTIES OnlyCurrentIngests RemovedEnds RetriesForever
CHECK_DEADLOCK FALSE
