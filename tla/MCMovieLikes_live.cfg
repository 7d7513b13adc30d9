\* Fairness: every toggle ends, and the recount repairs the counters.
CONSTANTS
  m1 = m1
  m2 = m2
  c1 = c1
  c2 = c2
  u1 = u1
  u2 = u2
  Movies = {m1}
  Users = {u1}
  Clients = {c1, c2}
  UserOf <- TwoTabs
  MaxToggles = 1
SPECIFICATION FairSpec
INVARIANTS Referential CountersHaveRow
PROPERTIES EveryToggleEnds EventuallyExact
