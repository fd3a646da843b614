SPECIFICATION PartsSpec
CONSTANTS
  Players = {p1, p2}
  Handlers = {h1, h2}
  Regions = {d1, d2, c1}
  Parent <- MCParent
  Level <- MCLevel
  Threshold <- MCThreshold
  MaxTitleLevel = 2
  MinPlayers = 2
  Values = {1, 2}
  HigherIsBetter = TRUE
  MaxCalls = 3
  Nil = Nil
  d1 = d1
  d2 = d2
  c1 = c1
  Disciplines = {run, read}
  AppOf <- MCAppOf
  CategoryOf <- MCCategoryOf
  CollectionOf <- MCCollectionOf
  HomeOf <- MCHomeOf
  Scope <- MCScope
  Rule <- MCRule
  Depth <- MCDepth
  run = run
  read = read
  a1 = a1
  a2 = a2
  Days = {1, 2}
  Items = {i1, i2}
  i1 = i1
  i2 = i2
  Badges = {b1, b2, b3}
  b1 = b1
  b2 = b2
  b3 = b3
  LastDay = 6
  MaxRuns = 4
SYMMETRY Symmetry
INVARIANTS TitlesFollowTheBoard FullRegionsOpen  
CHECK_DEADLOCK FALSE
