\* Three copies, a ring of two, and a body of every outcome.
SPECIFICATION FairSpec
CONSTANTS
  c1 = c1
  c2 = c2
  c3 = c3
  Cells = {c1, c2, c3}
  NoCell = NoCell
  Bodies <- MCBodies
  NoBody = NoBody
  Depth = 2
  FpsMin = 1
  FpsMax = 2
  FpsDefault = 1
  CounterMod = 2
  Absent = Absent
  Long = Long
  Wrong = Wrong
  Huge = Huge
  x = x
  text = text
CONSTRAINT UntilTorn
INVARIANTS
  FreedOnce
  NoLostWakeup
PROPERTIES
  ImplementsLine
  EveryCopyFreed
