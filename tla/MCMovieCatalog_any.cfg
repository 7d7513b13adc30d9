\* Two requests in any interleaving, and removals.
CONSTANTS
  m1 = m1
  m2 = m2
  t1 = t1
  t2 = t2
  t3 = t3
  d1 = d1
  d2 = d2
  g1 = g1
  g2 = g2
  r1 = r1
  r2 = r2
  None = None
  Movies = {m1, m2}
  Titles = {t1, t2}
  Directors = {d1}
  Genres = {g1, g2}
  Requests = {r1, r2}
SPECIFICATION Spec
SYMMETRY Symmetry
INVARIANTS TypeOK Consistent NeverWithoutGenres AnswerIsRequest
PROPERTY StoreSpec
CHECK_DEADLOCK FALSE
