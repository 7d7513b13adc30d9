\* Pages of one or two movies while movies come, go and change.
CONSTANTS
  Ids = {1, 2, 3}
  Columns = {"id", "likeCount"}
  Values = {0, 1}
  Orders <- SomeOrders
  Takes = {1, 2}
SPECIFICATION Spec
INVARIANTS TypeOK WhereIsOrder NothingTwice NothingSkipped PagesInOrder
CHECK_DEADLOCK FALSE
