\* Two tabs of one user: the counters drift.
CONSTANTS
  m1 = m1
  m2 = m2
  c1 = c1
  c2 = c2
  u1 = u1
  u2 = u2
  Movies = {m1}
  Users = {u1, u2}
  Clients = {c1, c2}
  UserOf <- TwoTabs
  MaxToggles = 2
SPECIFICATION DaySpec
INVARIANTS CountersExact
CHECK_DEADLOCK FALSE
