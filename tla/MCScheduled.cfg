SPECIFICATION FairSpec
CONSTANTS
  Deliveries = {d1}
  Requests = {r1}
  Cron = cron
  MAX_ATTEMPTS = 2
  LastDay = 2
  MaxEntries = 2
  Nil = Nil
  MaxDeaths = 1
INVARIANTS GivingUpIsEarned
PROPERTIES EveryDeliveryEnds FrozenStays EveryDayIsFrozen
CHECK_DEADLOCK FALSE
