SPECIFICATION PartsSpec
CONSTANTS
  Players = {p1, p2}
  Founders = {p1}
  Handlers = {h1, h2}
  InviteOnly = TRUE
  Quota = 1
  SignupsPerHour = 1
  RecoveryPerHour = 2
  MaxCalls = 5
  Apps = {a1}
  AppQuota = 1
  LinksPerHour = 2
  CodeAttempts = 2
  Nil = Nil
SYMMETRY Symmetry
INVARIANTS TypesOK OneSessionPerTicket InvitesAddUp OlderMailsAreDead LastKeyIsKept
PROPERTY RecoveryEndsTheOthers
CHECK_DEADLOCK FALSE
