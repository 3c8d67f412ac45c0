SPECIFICATION Spec
CONSTANTS
  StartTime = 2
  Grace = 6
  BootWindow = 9
  BootLong = 3
  RuntimeLong = 9
  TapMax = 2
  Debounce = 2
  Late = 2
  Horizon = 42
INVARIANTS
  HeldWhenFired
  HoldFires
PROPERTIES
  CallsSpaced
