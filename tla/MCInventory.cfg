SPECIFICATION Spec
CONSTANTS
  i1 = i1
  m1 = m1
  k1 = k1
  k2 = k2
  kit = kit
  NoKey = NoKey
  NoRef = NoRef
  Products = {1, 2}
  Kits = {kit}
  Composition <- KitComposition
  OrderItems = {i1}
  ManualRefs = {m1}
  Keys = {k1, k2}
  MaxQty = 2
  MaxMoves = 6
SYMMETRY Symmetry
INVARIANTS
  TypeOK
  ReservationsAreCovered
  SalesMatchReservations
  LedgerExplainsBalance
  NewestEventTellsAvailability
PROPERTIES
  ReserveAllOrNothing
  NeverRevived
CHECK_DEADLOCK FALSE
