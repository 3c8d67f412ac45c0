SPECIFICATION Spec
CONSTANTS
  Posts = {p1, p2}
  Empty = Empty
  Absent = Absent
  None = None
SYMMETRY Resubmissions
INVARIANTS
  LoadsTheRecord
  AckSurvives
  PairKept
