\* Two requests with up to two files each, in public/temp or in the folders of
\* their movies, the clean-up, and crashes.
CONSTANTS
  r1 = r1
  r2 = r2
  f1 = f1
  f2 = f2
  f3 = f3
  Requests = {r1, r2}
  Files = {f1, f2}
  Folders = {r1, r2}
  MaxRefs = 2
SPECIFICATION Spec
SYMMETRY Symmetry
INVARIANTS RowsPointAtFiles StrandedForCause
CHECK_DEADLOCK FALSE
