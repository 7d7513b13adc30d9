\* A log-in, a renewal and a request.
CONSTANTS
  Users = {u1}
  Requests = {r1, r2, r3}
  Unit = 2
  Life <- Lives
  MaxTime = 4
  None = None
SPECIFICATION Spec
SYMMETRY Slots
INVARIANTS ServedAsSelf
CHECK_DEADLOCK FALSE
