SPECIFICATION Spec
CONSTANTS

  Links = {l1}
  NoLink = NoLink
  Workers = 2
  MaxClaims = 2
  MaxAttempts = 2
  Quantities = {0, 1}
  MaxVersion = 3
  MaxRequests = 0
  MaxFaults = 0
  MaxCrashes = 0
CHECK_DEADLOCK FALSE
INVARIANT SupersededIsReplaced
