SPECIFICATION DiscoveryFairSpec
CONSTANTS
  Networks <- MCNetworks
  Cameras = {m1, m2}
  Watched = m1
  m1 = m1
  m2 = m2
  Nowhere = Nowhere
  Nobody = Nobody
  Workers = {w1, w2}
  MoveBound = 1
INVARIANT NothingMissed
PROPERTIES
  ScannerStops
  Settles
CHECK_DEADLOCK FALSE
