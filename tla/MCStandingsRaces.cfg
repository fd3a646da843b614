SPECIFICATION Spec
CONSTANTS
  Players = {p1, p2}
  Regions = {g1, g2}
  Requests = {q1, q2, q3}
  Values = {1, 2, 3}
  Days = {1}
  Keys = {k1}
  Nil = Nil
  MaxValue = 2
  Bar = 2
  HigherIsBetter = TRUE
  HasModule = FALSE
  Aggregate <- MCSum
  MaxInFlight = 3
  Kinds = {"submit", "review", "status", "resolve", "read", "region", "rebuild", "crash"}
SYMMETRY Symmetry
CHECK_DEADLOCK FALSE
INVARIANTS TypeOK ExamBeforeBoard QualificationEarned HeldRunsStayOff OwnRegionOnly OneEntryPerKey
