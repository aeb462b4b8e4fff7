SPECIFICATION Spec
CONSTANTS
  a1 = a1
  Events = {e1, e2}
  Accounts = {a1}
  AccountOf <- SameAccount
  Workers = {w1, w2}
  Nobody = Nobody
  MaxAttempts = 2
  MaxCrashes = 1
  MaxDelays = 1
  MaxActions = 1
INVARIANTS TypeOK HandlersAreExclusive
PROPERTIES ImplementsDelivery EventSettles
CHECK_DEADLOCK FALSE
