SPECIFICATION FairSpec
CONSTANTS
  Players = {1, 2, 3, 4, 5}
  Handlers = {h1, h2}
  Nil = Nil
  MaxEntrants = 4
  HigherIsBetter = TRUE
  Standing <- MCStanding
INVARIANTS SeedsAreTheDraw TopSeedsAreSpared ChairsAreEarned
PROPERTIES PlaysKnockout EveryMatchOpens
CHECK_DEADLOCK FALSE
