\* An upload of up to two files, three attempts, a create request, the clean-up.
CONSTANTS
  r1 = r1
  f1 = f1
  f2 = f2
  u1 = u1
  Requests = {r1}
  Files = {f1, f2}
  Folders = {r1}
  MaxRefs = 1
  Uploads = {u1}
  Videos = {f1}
  MaxAttempts = 3
SPECIFICATION ThumbFairSpec
INVARIANTS ThumbTypeOK GivenUpForCause
PROPERTIES TempIsReclaimed EveryCreateEnds JobsEnd
CHECK_DEADLOCK FALSE
