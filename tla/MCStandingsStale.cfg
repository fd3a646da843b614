SPECIFICATION Spec
CONSTANTS
  Players = {p1}
  Regions = {g1}
  Requests = {q1, q2}
  Values = {1, 2}
  Days = {1}
  Keys = {k1}
  Nil = Nil
  MaxValue = Nil
  Bar = Nil
  HigherIsBetter = TRUE
  HasModule = FALSE
  Aggregate <- MCSum
  MaxInFlight = 2
  Kinds = {"submit"}
SYMMETRY Symmetry
CHECK_DEADLOCK FALSE
INVARIANTS BoardIsLedger
