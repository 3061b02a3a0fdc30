----------------------------- MODULE Applications -----------------------------
(***************************************************************************)
(* Five example applications behind the command boundary.  A run starts    *)
(* from the database of one of them; requests carry their application, and *)
(* the bundle that is served gives them their handlers.                    *)
(***************************************************************************)
EXTENDS Commands

CONSTANTS
  Tenants, Numbers, LineNumbers, Amounts, MaxSafe, MaxOrders,
  Skus, Stock, Quantities, MaxReservations,
  Agents, Customers, MaxCases, MaxVersion, NoAgent,
  Voters, TenantOf, Editor, Rankings, Stored, MaxSlate, MaxElections,
  Categories, AmountsMinor, MaxExpenses

\* What the schemas of the payloads and of the seed say.
ASSUME ApplicationsAssumption ==
  /\ Amounts \subseteq Nat \ {0}
  /\ Quantities \subseteq Nat \ {0}
  /\ MaxSafe \in Nat
  /\ Stock \in [DOMAIN Stock -> Nat]
  /\ Editor \in DOMAIN TenantOf
  /\ Rankings \subseteq Seq(Nat) \ {<<>>}

Billing == INSTANCE Billing
Inventory == INSTANCE Inventory
Support == INSTANCE SupportCases
Elections == INSTANCE Elections
Ledger == INSTANCE Expenses

\* The elections that are stored were brought there by the same commands.
ASSUME StoredAssumption == \A d \in Stored : Elections!WellFormed(d)

ServedDatabases ==
  {Billing!Database, Inventory!Database, Support!Database, Ledger!Database}
    \cup Stored

ServedRequests(d) ==
  CASE d.app = "billing" -> Billing!Payloads(d)
    [] d.app = "inventory" -> Inventory!Payloads(d)
    [] d.app = "support" -> Support!Payloads(d)
    [] d.app = "elections" -> Elections!Payloads(d)
    [] d.app = "expenses" -> Ledger!Payloads(d)

ServedScript(q) ==
  CASE q.app = "billing" -> Billing!Handler(q)
    [] q.app = "inventory" -> Inventory!Handler(q)
    [] q.app = "support" -> Support!Handler(q)
    [] q.app = "elections" -> Elections!Handler(q)
    [] q.app = "expenses" -> Ledger!Handler(q)

ServedExecute(statement, q, seen, d) ==
  CASE q.app = "billing" -> Billing!RunStatement(statement, q, seen, d)
    [] q.app = "inventory" -> Inventory!RunStatement(statement, q, seen, d)
    [] q.app = "support" -> Support!RunStatement(statement, q, seen, d)
    [] q.app = "elections" -> Elections!RunStatement(statement, q, seen, d)
    [] q.app = "expenses" -> Ledger!RunStatement(statement, q, seen, d)

ServedTransactional(q) ==
  CASE q.app = "support" -> Support!InTransaction(q)
    [] q.app = "expenses" -> FALSE
    [] OTHER -> TRUE

ServedDeclared(q) ==
  CASE q.app = "billing" -> Billing!Errors(q)
    [] q.app = "inventory" -> Inventory!Errors(q)
    [] q.app = "support" -> Support!Errors(q)
    [] q.app = "elections" -> Elections!Errors(q)
    [] q.app = "expenses" -> Ledger!Errors(q)

-----------------------------------------------------------------------------

\* Orders, their lines and their invoices agree on what is charged, which is
\* what the caller who issued the invoice had seen.
TotalsAgree ==
  db.app = "billing" =>
    /\ Billing!TotalsAgree(db)
    /\ answer.request # None => Billing!ChargedAsSeen(answer, db)

\* Stock is neither oversold nor leaked, and callers are refused truthfully.
StockAccounted ==
  db.app = "inventory" =>
    /\ Inventory!StockAccounted(db)
    /\ Inventory!RefusalIsTrue(answer)

\* Events and audits tell the whole history of every support case.
TrailTellsTheCase == db.app = "support" => Support!TrailTellsTheCase(db)

\* A result counts whole ballots over the slate and elects somebody who may
\* win; and once an election is closed its ballots and its slate stay.
Counted ==
  LET q == answer.request
  IN  q # None /\ answer.failure = Succeeds /\ q.op = "result" =>
        Elections!Defensible(answer.seen,
          Elections!CandidatesOf(db, q.election), Elections!BallotsOf(db, q.election))

ClosedStaysClosed ==
  db.app = "elections" =>
    \A e \in DOMAIN db.elections : db.elections[e].status = "closed" =>
      /\ db'.elections[e] = db.elections[e]
      /\ Elections!BallotsOf(db', e) = Elections!BallotsOf(db, e)
      /\ Elections!CandidatesOf(db', e) = Elections!CandidatesOf(db, e)

ResultsAreFinal ==
  /\ [](db.app = "elections" => Elections!BallotsWhole(db) /\ Counted)
  /\ [][ClosedStaysClosed]_vars
=============================================================================
