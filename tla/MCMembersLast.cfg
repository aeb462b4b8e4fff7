SPECIFICATION Spec
CONSTANTS
  Users = {u1, u2, u3}
  u1 = u1
  u2 = u2
  u3 = u3
  Requests = {q1, q2}
  q1 = q1
  q2 = q2
  MaxSaves = 3
  Nobody = Nobody
SYMMETRY Symmetry
INVARIANTS
  LastAdministratorStays
CHECK_DEADLOCK FALSE
