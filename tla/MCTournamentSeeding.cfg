SPECIFICATION Spec
CONSTANTS
  Players = {1, 2, 3, 4}
  Handlers = {h1}
  Nil = Nil
  MaxEntrants = 4
  HigherIsBetter = FALSE
  Standing <- MCStanding
INVARIANT SeededByStanding
CHECK_DEADLOCK FALSE
