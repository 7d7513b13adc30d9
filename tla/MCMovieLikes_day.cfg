\* Two users vote on two movies that may be removed; no recount.
CONSTANTS
  m1 = m1
  m2 = m2
  c1 = c1
  c2 = c2
  u1 = u1
  u2 = u2
  Movies = {m1, m2}
  Users = {u1, u2}
  Clients = {c1, c2}
  UserOf <- OneTabEach
  MaxToggles = 2
SPECIFICATION DaySpec
INVARIANTS TypeOK CountersExact ReadStillValid ToldIsStored
PROPERTIES LedgerSpec
CHECK_DEADLOCK FALSE
