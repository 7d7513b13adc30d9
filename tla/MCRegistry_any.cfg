\* Three requests at once over up to two rows of any of the tables.
CONSTANTS
  i1 = i1
  i2 = i2
  v1 = v1
  v2 = v2
  q1 = q1
  q2 = q2
  q3 = q3
  Nobody = Nobody
  Ids = {i1, i2}
  Values = {v1, v2}
  Requests = {q1, q2, q3}
SPECIFICATION Spec
SYMMETRY Symmetry
INVARIANTS TypeOK RefusedForAnother CrashHasRival AnswerIsOwn
PROPERTIES NoLostUpdate
CHECK_DEADLOCK FALSE
