SPECIFICATION Spec
CONSTANTS
  i1 = i1
  w1 = w1
  w2 = w2
  Items <- OneItem
  Workers <- TwoWorkers
  Attempts = 2
  MaxOrderAt = 2
  MaxParcelAt = 2
  MaxExtra = 1
INVARIANTS
  TypeOK
  CanceledHoldsNothing
  BillingMatchesStock
  PaidIsDecided
PROPERTIES
  HistoryAdvances
  CancellationArrives
CHECK_DEADLOCK FALSE
