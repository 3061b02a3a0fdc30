------------------------------ MODULE Expenses ------------------------------
(***************************************************************************)
(* The commands of the expense ledger example.  They are no transactions:  *)
(* each statement is committed as it is executed.                          *)
(***************************************************************************)
EXTENDS FiniteSets, FiniteSetsExt, Statements

CONSTANTS
  Categories,
  AmountsMinor,
  MaxExpenses   \* bound on the expenses a run records

Database == [app |-> "expenses", rows |-> << >>, recorded |-> 0]

Rows == [category : Categories, amount : AmountsMinor]

\* The payloads; 0 is an identifier of no row.  The dates of a query either
\* include the recorded expenses or are in the wrong order.
Payloads(db) ==
  LET ids == 0..db.recorded
  IN  UNION {
        IF db.recorded < MaxExpenses
          THEN [app : {"expenses"}, op : {"record"}, row : Rows] ELSE {},
        [app : {"expenses"}, op : {"get", "remove"}, id : ids],
        [app : {"expenses"}, op : {"update"}, id : ids, row : Rows],
        [app : {"expenses"}, op : {"totals"}, ordered : BOOLEAN]}

Handler(q) == IF q.op = "remove" THEN <<"get", "remove">> ELSE <<q.op>>

Errors(q) ==
  CASE q.op = "record" -> {}
    [] q.op = "totals" -> {"InvalidExpenseDateRange"}
    [] OTHER -> {"ExpenseNotFound"}

-----------------------------------------------------------------------------

Record(q, db) ==
  Done([db EXCEPT !.rows = Put(@, db.recorded + 1, q.row), !.recorded = @ + 1], q.row)

Get(q, db) ==
  IF q.id \in DOMAIN db.rows THEN Done(db, db.rows[q.id])
                             ELSE Fails(db, "ExpenseNotFound")

Update(q, db) ==
  IF q.id \in DOMAIN db.rows THEN Done([db EXCEPT !.rows[q.id] = q.row], q.row)
                             ELSE Fails(db, "ExpenseNotFound")

\* The answer is the row that was read before.  A row that is gone by now is a
\* ResourceNotFound that nobody translates.
Remove(q, seen, db) ==
  IF q.id \in DOMAIN db.rows
  THEN Done([db EXCEPT !.rows = [i \in DOMAIN @ \ {q.id} |-> @[i]]], seen)
  ELSE Fails(db, "ResourceNotFound")

CalculateTotals(db) ==
  LET amount(i) == db.rows[i].amount
      of(c) == {i \in DOMAIN db.rows : db.rows[i].category = c}
  IN  [c \in {c \in Categories : of(c) # {}} |-> MapThenSumSet(amount, of(c))]

Totals(q, db) ==
  IF q.ordered THEN Done(db, [totals |-> CalculateTotals(db)])
               ELSE Fails(db, "InvalidExpenseDateRange")

RunStatement(statement, q, seen, db) ==
  CASE statement = "record" -> Record(q, db)
    [] statement = "get" -> Get(q, db)
    [] statement = "update" -> Update(q, db)
    [] statement = "remove" -> Remove(q, seen, db)
    [] statement = "totals" -> Totals(q, db)
=============================================================================
