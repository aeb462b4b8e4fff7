SPECIFICATION Spec
CONSTANTS

  Links = {l1}
  NoLink = NoLink
  Workers = 2
  MaxClaims = 2
  MaxAttempts = 2
  Quantities = {0, 1}
  MaxVersion = 2
  MaxRequests = 1
  MaxFaults = 1
  MaxCrashes = 1
INVARIANTS TypeOK SuccessSentItsVersion NothingDropped
PROPERTIES BegunWorkEnds
CHECK_DEADLOCK FALSE
