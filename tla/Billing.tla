------------------------------- MODULE Billing -------------------------------
(***************************************************************************)
(* The commands of the orders and invoices example: what each statement    *)
(* does to orders, lines and invoices.  Every command is a transaction.    *)
(***************************************************************************)
EXTENDS FiniteSets, FiniteSetsExt, Statements

CONSTANTS
  Tenants,     \* the tenants of the subjects
  Numbers,     \* order and invoice numbers
  LineNumbers,
  Amounts,     \* quantity * unitAmountMinor of a line
  MaxSafe,     \* Number.MAX_SAFE_INTEGER
  MaxOrders    \* bound on the orders a run creates

Orders(db) == DOMAIN db.orders
Versions == 1..(Cardinality(LineNumbers) + 2)

Database == [app |-> "billing", orders |-> <<>>, lines |-> {}, invoices |-> <<>>]

\* The payloads a caller may send; 0 is an identifier of no row.
Payloads(db) ==
  LET orders == Orders(db) \cup {0}
  IN  UNION {
        IF Len(db.orders) < MaxOrders
          THEN [app : {"billing"}, op : {"createOrder"}, tenant : Tenants,
                number : Numbers]
          ELSE {},
        [app : {"billing"}, op : {"addLine"}, tenant : Tenants, order : orders,
         expected : Versions, line : LineNumbers, amount : Amounts],
        [app : {"billing"}, op : {"issueInvoice"}, tenant : Tenants,
         order : orders, expected : Versions, number : Numbers],
        [app : {"billing"}, op : {"payInvoice"}, tenant : Tenants,
         invoice : DOMAIN db.invoices \cup {0}, expected : {1, 2}],
        [app : {"billing"}, op : {"getOrder"}, tenant : Tenants, order : orders]}

Handler(q) ==
  CASE q.op = "createOrder" -> <<"insertOrder">>
    [] q.op = "addLine" ->
         <<"getOrder", "orderSummary", "raiseTotal", "insertLine",
           "getOrder", "orderSummary">>
    [] q.op = "issueInvoice" ->
         <<"getOrder", "orderSummary", "invoiceOrder", "insertInvoice">>
    [] q.op = "payInvoice" -> <<"getInvoice", "payInvoice">>
    [] q.op = "getOrder" -> <<"getOrder", "orderSummary">>

Errors(q) ==
  CASE q.op = "createOrder" -> {"DuplicateOrderNumber"}
    [] q.op = "addLine" ->
         {"OrderNotFound", "OrderNotDraft", "TotalOverflow", "VersionConflict"}
    [] q.op = "issueInvoice" ->
         {"OrderNotFound", "InvoiceRequiresLines", "DuplicateInvoiceNumber",
          "VersionConflict", "InvalidOrderTransition"}
    [] q.op = "payInvoice" ->
         {"InvoiceNotFound", "VersionConflict", "InvalidInvoiceTransition"}
    [] q.op = "getOrder" -> {"OrderNotFound"}

-----------------------------------------------------------------------------
(* Statements.                                                             *)

\* Rows of another tenant are out of the policy's scope: not found.
Owned(rows, id, q) == id \in DOMAIN rows /\ rows[id].tenant = q.tenant

LinesOf(db, order) == {l \in db.lines : l.order = order}
InvoicesOf(db, order) == {i \in DOMAIN db.invoices : db.invoices[i].order = order}

InsertOrder(q, db) ==
  LET order == [tenant |-> q.tenant, number |-> q.number, status |-> "draft",
                total |-> 0, version |-> 1]
  IN  IF \E i \in Orders(db) : /\ db.orders[i].tenant = q.tenant
                               /\ db.orders[i].number = q.number
      THEN Fails(db, "DuplicateOrderNumber")
      ELSE Done([db EXCEPT !.orders = Append(@, order)], order)

GetOrder(q, seen, db) ==
  IF Owned(db.orders, q.order, q) THEN Done(db, seen)
                                  ELSE Fails(db, "OrderNotFound")

\* One SELECT: the order, its lines and its invoice.
OrderSummary(q, db) ==
  Done(db, [order |-> db.orders[q.order], lines |-> LinesOf(db, q.order),
             invoice |-> {db.invoices[i] : i \in InvoicesOf(db, q.order)}])

\* The version a caller last read must still be the row's.
FaultCurrent(row, q) == TRUE
Current(row, q) == row.version = q.expected

MayGrow(order) == order.status = "draft"

\* The guards of addLine, then the patch of the total under the version.
RaiseTotal(q, seen, db) ==
  LET total == seen.order.total + q.amount
  IN  IF ~MayGrow(seen.order) THEN Fails(db, "OrderNotDraft")
      ELSE IF q.amount > MaxSafe \/ total > MaxSafe THEN Fails(db, "TotalOverflow")
      ELSE IF ~Current(db.orders[q.order], q) THEN Fails(db, "VersionConflict")
      ELSE Done([db EXCEPT !.orders[q.order].total = total,
                           !.orders[q.order].version = @ + 1], seen)

\* A duplicate line number violates a unique index; addLine declares no error
\* for it.
InsertLine(q, seen, db) ==
  IF \E l \in LinesOf(db, q.order) : l.line = q.line
  THEN Fails(db, "UniqueViolation")
  ELSE Done([db EXCEPT !.lines = @ \cup
               {[order |-> q.order, line |-> q.line, amount |-> q.amount]}], seen)

\* Repository.transition: the edge is checked before the version.
InvoiceOrder(q, seen, db) ==
  IF seen.lines = {} THEN Fails(db, "InvoiceRequiresLines")
  ELSE IF db.orders[q.order].status # "draft" THEN Fails(db, "InvalidOrderTransition")
  ELSE IF ~Current(db.orders[q.order], q) THEN Fails(db, "VersionConflict")
  ELSE Done([db EXCEPT !.orders[q.order].status = "invoiced",
                       !.orders[q.order].version = @ + 1], seen)

\* The invoice's total is the one read before the transition.
InsertInvoice(q, seen, db) ==
  LET invoice == [tenant |-> q.tenant, order |-> q.order, number |-> q.number,
                  status |-> "issued", total |-> seen.order.total, version |-> 1]
  IN  IF \/ InvoicesOf(db, q.order) # {}
         \/ \E i \in DOMAIN db.invoices : /\ db.invoices[i].tenant = q.tenant
                                          /\ db.invoices[i].number = q.number
      THEN Fails(db, "DuplicateInvoiceNumber")
      ELSE Done([db EXCEPT !.invoices = Append(@, invoice)], invoice)

GetInvoice(q, seen, db) ==
  IF Owned(db.invoices, q.invoice, q) THEN Done(db, seen)
                                      ELSE Fails(db, "InvoiceNotFound")

PayInvoice(q, seen, db) ==
  LET invoice == db.invoices[q.invoice]
      paid == [invoice EXCEPT !.status = "paid", !.version = @ + 1]
  IN  IF invoice.status # "issued" THEN Fails(db, "InvalidInvoiceTransition")
      ELSE IF ~Current(invoice, q) THEN Fails(db, "VersionConflict")
      ELSE Done([db EXCEPT !.invoices[q.invoice] = paid], paid)

RunStatement(statement, q, seen, db) ==
  CASE statement = "insertOrder" -> InsertOrder(q, db)
    [] statement = "getOrder" -> GetOrder(q, seen, db)
    [] statement = "orderSummary" -> OrderSummary(q, db)
    [] statement = "raiseTotal" -> RaiseTotal(q, seen, db)
    [] statement = "insertLine" -> InsertLine(q, seen, db)
    [] statement = "invoiceOrder" -> InvoiceOrder(q, seen, db)
    [] statement = "insertInvoice" -> InsertInvoice(q, seen, db)
    [] statement = "getInvoice" -> GetInvoice(q, seen, db)
    [] statement = "payInvoice" -> PayInvoice(q, seen, db)

-----------------------------------------------------------------------------

\* What is charged is what was ordered: the total of an order is the sum of its
\* lines and fits an integer, its version counts the lines and the invoice (no
\* line is added twice, or after the order was invoiced), and exactly the
\* invoiced orders have an invoice, one, over their total.
TotalsAgree(db) ==
  \A o \in Orders(db) :
    LET order == db.orders[o]
        amount == [line \in LinesOf(db, o) |-> line.amount]
        invoiced == order.status = "invoiced"
    IN  /\ order.total = SumFunctionOnSet(amount, LinesOf(db, o))
        /\ order.total <= MaxSafe
        /\ order.version =
             1 + Cardinality(LinesOf(db, o)) + (IF invoiced THEN 1 ELSE 0)
        /\ Cardinality(InvoicesOf(db, o)) = (IF invoiced THEN 1 ELSE 0)
        /\ \A i \in InvoicesOf(db, o) :
             order.total > 0 /\ db.invoices[i].total = order.total

\* An invoice is over the lines its caller had seen: the version it expected
\* counts them.
ChargedAsSeen(answer, db) ==
  LET q == answer.request
  IN  answer.failure = Succeeds /\ q.op = "issueInvoice" =>
        q.expected = 1 + Cardinality(LinesOf(db, q.order))
=============================================================================
