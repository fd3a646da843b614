SPECIFICATION PartsSpec
CONSTANTS
  Players = {1, 2}
  Calls = {c1, c2, c3, c4}
  Parties = {}
  Nil = Nil
  Rating <- MCRating
  Kinds = {"poll", "cancel", "timeout", "crash"}
  MaxInFlight = 2
  Fighters = {p1, p2, p3}
  Handlers = {h1, h2}
  Keys = {k1}
  MaxCalls = 2
SYMMETRY Symmetry
INVARIANTS TypesOK JoinTicketsAreForPairs EveryMatchIsRated
PROPERTY KeepsPromise
CHECK_DEADLOCK FALSE
