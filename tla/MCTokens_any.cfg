\* One user, four requests, two units a second, two and a half seconds.
CONSTANTS
  Users = {u1}
  Requests = {r1, r2, r3, r4}
  Unit = 2
  Life <- Lives
  MaxTime = 5
  None = None
SPECIFICATION Spec
SYMMETRY Slots
INVARIANTS TypeOK BlockedStaysOut RefusalHasCause
CHECK_DEADLOCK FALSE
