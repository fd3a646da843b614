SPECIFICATION Spec
CONSTANTS
  Players = {p1, p2, p3}
  ChallengeIds = {c1}
  Handlers = {h1}
  Values = {1, 3}
  MaxValue = 2
  HigherIsBetter = TRUE
  Aggregate <- MCSum
  MaxRuns = 3
  MayInvite <- MCMayInvite
  MayBlock <- MCMayBlock
  p1 = p1
  p2 = p2
  Nil = Nil
INVARIANT BlockDissolves
CHECK_DEADLOCK FALSE
