SPECIFICATION ProviderSpec
CONSTANTS
  Runs = {r1}
  Callers = {c1}
  Callbacks = {b1}
  States = {s1}
  MaxTokens = 2
  MaxTries = 1
  MaxEvents = 1
  Ops = {"disconnect"}
  None = None
  Items = {i1, i2}
  First = first
  Scanners = {w1}
  NumOrders = 3
  PageSize = 1
  MaxPages = 2
  Overlap = 1
  LockTime = 2
  MaxTime = 3
  Handlers = {h1, h2}
  Quantities = {0, 1}
  MaxVersion = 2
  MaxTampers = 1
INVARIANTS
  ProviderTypeOK
  SecretsSpentOnce
  CallsKeepTheirLimits
  NoUpdateSlips
  NoTwinDivergence
PROPERTIES
  AlarmsAreReal
  RequestedRunEnds
CHECK_DEADLOCK FALSE
