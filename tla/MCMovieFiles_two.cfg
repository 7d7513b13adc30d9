\* Two files in one request: a failure strands one.
CONSTANTS
  r1 = r1
  r2 = r2
  f1 = f1
  f2 = f2
  f3 = f3
  Requests = {r1}
  Files = {f1, f2}
  Folders = {}
  MaxRefs = 2
SPECIFICATION Spec
INVARIANTS NoStrandedFile
CHECK_DEADLOCK FALSE
