\* Three rows, pages of one or two rows, a nullable column in ascending order.
CONSTANTS
  Ids = {1, 2, 3}
  Numbers = {1, 2}
  Null = Null
  NoRow = NoRow
  Direction = "asc"
  Nullable = TRUE
  Slots = {1, 2}
  MaxLimit = 2
  Entries = {1}
  Vacant = {2}
  MaxClicks = 3
  MaxWrites = 2
SPECIFICATION FairClientSpec
INVARIANTS ListsEveryStableRow ShowsLatestRequest
PROPERTIES LoadingEnds
CHECK_DEADLOCK FALSE
