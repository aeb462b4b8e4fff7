SPECIFICATION Spec
CONSTANTS
  Requests = {r1, r2, r3}
  r1 = r1
  r2 = r2
  r3 = r3
  Companies = {"A", "B"}
  Filters = {"x", "y"}
  MaxChanges = 3
SYMMETRY Symmetry
INVARIANTS
  OpenDataIsDiscarded
CHECK_DEADLOCK FALSE
