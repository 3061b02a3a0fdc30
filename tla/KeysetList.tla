----------------------------- MODULE KeysetList -----------------------------
(* Keyset pages (packages/effect-domains/src/sqlite/list.ts) over one table.
   A row is its identifier, a number, and the content of one nullable column,
   which the list may filter and order by; the identifier is appended to the
   order as its last field, ascending.  A cursor carries the order fields of
   the last row of a page and the filter the page was asked with.            *)
EXTENDS Integers, Sequences, FiniteSets

CONSTANTS
  Ids,         \* identifiers, ascending numbers
  Numbers,     \* contents of the column
  Null,        \* the stored null
  NoRow,       \* an identifier without a row
  Direction,   \* declared direction of the column, "asc" or "desc"
  Nullable     \* whether the column may be null

ASSUME KeysetAssumption ==
  /\ Ids \subseteq Int /\ Numbers \subseteq Int
  /\ Null \notin Int /\ NoRow \notin Int \cup {Null}
  /\ Direction \in {"asc", "desc"} /\ Nullable \in BOOLEAN

Cells == Numbers \cup (IF Nullable THEN {Null} ELSE {})
Tables == [Ids -> Cells \cup {NoRow}]

\* The order fields of a row, and the cursor value they make.
Key(table, id) == [value |-> table[id], id |-> id]

\* SQLite's order of one column: nulls before every value, and so after every
\* value if descending.
Below(a, b) == a # b /\ (a = Null \/ (b # Null /\ a < b))
Precedes(k, l) ==
  \/ IF Direction = "asc" THEN Below(k.value, l.value) ELSE Below(l.value, k.value)
  \/ k.value = l.value /\ k.id < l.id

\* column > value or column < value, in SQL: never true of a null on either side.
\* A cursor at a null is followed by the values if ascending, by nothing if not.
Comparison(value, after, direction) ==
  IF after = Null THEN direction = "asc" /\ value # Null
  ELSE /\ value # Null
       /\ IF direction = "asc" THEN value > after ELSE value < after

\* Fault: the rows that share the value of the cursor are taken for read.
FaultKeyset(key, after) == Comparison(key.value, after.value, Direction)

\* The lexicographic keyset: a later value, or an equal one and a later row.
Keyset(key, after) ==
  \/ Comparison(key.value, after.value, Direction)
  \/ key.value = after.value /\ Comparison(key.id, after.id, "asc")

\* A filter is empty or one value the column must equal; a null is matched by IS.
Selected(table, filter) == {id \in Ids : table[id] # NoRow /\ filter \subseteq {table[id]}}

\* ORDER BY column, identifier.
Sorted(table, ids) ==
  CHOOSE s \in [1..Cardinality(ids) -> ids] :
    \A i, j \in DOMAIN s : i < j => Precedes(Key(table, s[i]), Key(table, s[j]))

\* LIMIT n.
Take(s, n) == SubSeq(s, 1, IF n < Len(s) THEN n ELSE Len(s))

\* The statement: WHERE filter AND keyset ORDER BY ... LIMIT n.
Query(table, filter, after, limit) ==
  LET ids == {id \in Selected(table, filter) :
                \A key \in after : Keyset(Key(table, id), key)}
  IN Take(Sorted(table, ids), limit)

\* A cursor that was made for another filter is refused.
CursorMatches(cursor, filter) == \A c \in cursor : c.filter = filter

\* One row more than the page is read to know whether there is a next page.
Page(table, filter, cursor, limit) ==
  LET rows == Query(table, filter, {c.after : c \in cursor}, limit + 1)
  IN [items |-> Take(rows, limit),
      next |-> IF Len(rows) <= limit THEN {}
               ELSE {[filter |-> filter, after |-> Key(table, rows[limit])]}]

=============================================================================
