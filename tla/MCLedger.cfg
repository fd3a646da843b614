SPECIFICATION Spec
CONSTANTS
  Players = {p1, p2}
  Regions = {g1}
  Requests = {q1, q2, q3, q4, q5}
  Values = {1, 2, 3}
  Days = {1}
  Keys = {k1}
  Nil = Nil
  MaxValue = 2
  Bar = 2
  HigherIsBetter = FALSE
  HasModule = TRUE
  Aggregate <- MCLowest
  MaxInFlight = 1
  Kinds = {"submit", "result", "status", "read", "region", "rebuild"}
SYMMETRY Symmetry
CHECK_DEADLOCK FALSE
INVARIANTS BoardIsLedger 
PROPERTY RebuildRestoresTheBoard
