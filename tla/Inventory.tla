------------------------------ MODULE Inventory ------------------------------
(***************************************************************************)
(* The commands of the reservations example over stock and reservations.   *)
(***************************************************************************)
EXTENDS FiniteSets, FiniteSetsExt, Statements

CONSTANTS
  Skus,
  Stock,        \* the quantity of each sku that is seeded
  Quantities,   \* quantities callers ask for
  MaxSafe,      \* Number.MAX_SAFE_INTEGER
  MaxReservations

Database == [app |-> "inventory", stock |-> Stock, reservations |-> <<>>]

Payloads(db) ==
  LET ids == DOMAIN db.reservations \cup {0}
  IN  (IF Len(db.reservations) < MaxReservations
       THEN [app : {"inventory"}, op : {"reserve"}, sku : Skus,
             quantity : Quantities]
       ELSE {})
      \cup [app : {"inventory"}, op : {"confirm", "release"}, id : ids]

Handler(q) ==
  CASE q.op = "reserve" -> <<"findStock", "decrement", "insertReservation">>
    [] q.op = "confirm" -> <<"transition">>
    [] q.op = "release" -> <<"transition", "restoreStock">>

Errors(q) == {"UnknownSku", "InsufficientStock", "ResourceNotFound",
                "InvalidReservationTransition"}

FindStock(q, db) ==
  IF q.sku \in DOMAIN db.stock
  THEN Done(db, [available |-> db.stock[q.sku]])
  ELSE Fails(db, "UnknownSku")

\* UPDATE ... WHERE available >= quantity.  The failure reports the quantity
\* that was read before.
Enough(available, quantity) == available >= quantity

Decrement(q, seen, db) ==
  IF Enough(db.stock[q.sku], q.quantity)
  THEN Done([db EXCEPT !.stock[q.sku] = @ - q.quantity], seen)
  ELSE FailsWith(db, "InsufficientStock", seen)

InsertReservation(q, db) ==
  LET reservation == [sku |-> q.sku, quantity |-> q.quantity, status |-> "held"]
  IN  Done([db EXCEPT !.reservations = Append(@, reservation)], reservation)

\* Both edges leave "held" only.
FaultMayLeave(status) == status # "confirmed"
MayLeave(status) == status = "held"

Transition(q, db) ==
  LET to == IF q.op = "confirm" THEN "confirmed" ELSE "released"
  IN  IF q.id \notin DOMAIN db.reservations THEN Fails(db, "ResourceNotFound")
      ELSE IF ~MayLeave(db.reservations[q.id].status)
      THEN Fails(db, "InvalidReservationTransition")
      ELSE Done([db EXCEPT !.reservations[q.id].status = to],
                [db.reservations[q.id] EXCEPT !.status = to])

\* UPDATE ... WHERE available <= MAX_SAFE_INTEGER - quantity.
RestoreStock(seen, db) ==
  IF db.stock[seen.sku] <= MaxSafe - seen.quantity
  THEN Done([db EXCEPT !.stock[seen.sku] = @ + seen.quantity], seen)
  ELSE Fails(db, Unavailable)

RunStatement(statement, q, seen, db) ==
  CASE statement = "findStock" -> FindStock(q, db)
    [] statement = "decrement" -> Decrement(q, seen, db)
    [] statement = "insertReservation" -> InsertReservation(q, db)
    [] statement = "transition" -> Transition(q, db)
    [] statement = "restoreStock" -> RestoreStock(seen, db)

-----------------------------------------------------------------------------

\* No unit of stock is promised twice, lost or returned twice: what is
\* available and what held and confirmed reservations have taken is what there
\* was, and nothing is negative.
StockAccounted(db) ==
  \A sku \in DOMAIN Stock :
    LET taken == {i \in DOMAIN db.reservations :
                    /\ db.reservations[i].sku = sku
                    /\ db.reservations[i].status \in {"held", "confirmed"}}
        quantity == [i \in taken |-> db.reservations[i].quantity]
    IN  /\ db.stock[sku] >= 0
        /\ db.stock[sku] + SumFunctionOnSet(quantity, taken) = Stock[sku]

\* A caller is told that stock is insufficient only when it is, and how much
\* there was.
RefusalIsTrue(answer) ==
  answer.failure = "InsufficientStock" =>
    answer.seen.available < answer.request.quantity
=============================================================================
