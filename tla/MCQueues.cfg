SPECIFICATION QueuesSpec
CONSTANTS
  Workers = {w1}
  w2 = w2
  Limit = 2
  MaxJobs = 2
  MaxFaults = 2
  MaxAttempts = 4
  MaxBilled = 2
  Players = {1, 2, 3}
  Calls = {c1, c2, c3}
  Parties = {party}
  Nil = Nil
  Kinds = {"poll", "cancel"}
  MaxInFlight = 3
INVARIANTS NoEarlyGiveUp VerdictsStand
PROPERTIES NobodyStaysAlone EveryJobEnds
CHECK_DEADLOCK FALSE
