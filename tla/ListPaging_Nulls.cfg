\* Two rows and no writes: the nullable column in descending order.
CONSTANTS
  Ids = {1, 2}
  Numbers = {1, 2}
  Null = Null
  NoRow = NoRow
  Direction = "desc"
  Nullable = TRUE
  Slots = {1, 2}
  MaxLimit = 1
  Entries = {1}
  Vacant = {}
  MaxClicks = 3
  MaxWrites = 0
SPECIFICATION ClientSpec
INVARIANT ListsEveryStableRow
CHECK_DEADLOCK FALSE
