------------------------------ MODULE Commands ------------------------------
(***************************************************************************)
(* Commands: named handlers that callers invoke over RPC.  A handler is a  *)
(* script of statements over one SQLite database with one connection.  The *)
(* statements of a transactional command are one transaction, which holds  *)
(* the connection until it commits or rolls back; the statements of any    *)
(* other command are committed one by one, and statements of other         *)
(* commands come between them.                                             *)
(*                                                                         *)
(* A failure the command declares is answered as it is, any other one as   *)
(* the command's "unavailable".  Statements and commits may fail, callers  *)
(* may go away, and the process may crash; an answer that is lost on the   *)
(* way, and the same request sent again, are two calls.                    *)
(***************************************************************************)
EXTENDS Statements

CONSTANTS
  Clients,
  Databases,           \* the databases a run may start from
  Requests(_),         \* the requests callers send to an application
  Script(_),           \* the statements of a request's handler, in order
  Execute(_, _, _, _), \* statement, request, seen, database: what it does
  Transactional(_),
  Declared(_),         \* the failures the command of a request declares
  MaxCalls(_),         \* bound on the calls a run makes
  None

ASSUME CommandsAssumption == None \notin Clients

VARIABLES
  db,      \* what is committed
  work,    \* the database as the open transaction has it, or db
  holder,  \* the client whose transaction holds the connection
  calls,   \* the call each client has in progress
  left,    \* how many calls may still be made
  answer   \* the answer given last

vars == <<db, work, holder, calls, left, answer>>

Idle == [pc |-> "idle"]
Running(q, at, seen) == [pc |-> "running", request |-> q, at |-> at, seen |-> seen]
Answer(q, failure, seen) == [request |-> q, failure |-> failure, seen |-> seen]
NoAnswer == Answer(None, Succeeds, Nothing)

Init ==
  /\ db \in Databases
  /\ work = db
  /\ holder = None
  /\ calls = [c \in Clients |-> Idle]
  /\ left = MaxCalls(db)
  /\ answer = NoAnswer

-----------------------------------------------------------------------------

Request(c) == calls[c].request
Statement(c) == Script(Request(c))[calls[c].at]
AtEnd(c) == calls[c].at > Len(Script(Request(c)))

\* inTransaction: whether the whole handler is one transaction.
InTransaction(q) == Transactional(q)

\* The connection: of the transaction that is open, or free for anybody.
Free == holder = None

\* Who may execute a statement now.
Ready(c) ==
  /\ calls[c] # Idle
  /\ IF InTransaction(Request(c)) THEN holder = c ELSE Free

\* declaredFailure and translate.
Translated(q, failure) ==
  IF failure \in Declared(q) \cup {Succeeds} THEN failure ELSE Unavailable

Return(c, failure, seen) ==
  /\ calls' = [calls EXCEPT ![c] = Idle]
  /\ answer' = Answer(Request(c), Translated(Request(c), failure), seen)
  /\ UNCHANGED left

\* ROLLBACK, which also ends a transaction its fiber leaves in any other way.
FaultRollBack == db' = work /\ holder' = None /\ UNCHANGED work
RollBack == work' = db /\ holder' = None /\ UNCHANGED db

Release(c) ==
  IF holder = c THEN RollBack ELSE UNCHANGED <<db, work, holder>>

-----------------------------------------------------------------------------

\* A handler starts.  A transactional one begins with BEGIN: a call that waits
\* for the connection has not started.
Start(c, q) ==
  /\ calls[c] = Idle
  /\ left > 0
  /\ left' = left - 1
  /\ calls' = [calls EXCEPT ![c] = Running(q, 1, Nothing)]
  /\ IF InTransaction(q)
     THEN Free /\ holder' = c
     ELSE UNCHANGED holder
  /\ UNCHANGED <<db, work, answer>>

\* A statement succeeds; the handler goes on with what it knows now.
Proceed(c) ==
  /\ Ready(c)
  /\ ~AtEnd(c)
  /\ LET q == Request(c)
         outcome == Execute(Statement(c), q, calls[c].seen, work)
     IN  /\ outcome.failure = Succeeds
         /\ work' = outcome.db
         /\ UNCHANGED holder
         /\ IF InTransaction(q)
            THEN UNCHANGED db
            ELSE db' = outcome.db
         /\ IF ~InTransaction(q) /\ calls[c].at = Len(Script(q))
            THEN Return(c, Succeeds, outcome.seen)
            ELSE /\ calls' = [calls EXCEPT
                      ![c] = Running(q, calls[c].at + 1, outcome.seen)]
                 /\ UNCHANGED <<left, answer>>

\* A guard of the handler, or the database, refuses.
Refuse(c) ==
  /\ Ready(c)
  /\ ~AtEnd(c)
  /\ LET outcome == Execute(Statement(c), Request(c), calls[c].seen, work)
     IN  /\ outcome.failure # Succeeds
         /\ Return(c, outcome.failure, outcome.seen)
  /\ Release(c)

Commit(c) ==
  /\ holder = c
  /\ AtEnd(c)
  /\ db' = work
  /\ holder' = None
  /\ Return(c, Succeeds, calls[c].seen)
  /\ UNCHANGED work

\* A statement or COMMIT fails with an SQL error.
Break(c) ==
  /\ Ready(c)
  /\ Return(c, "SqlError", Nothing)
  /\ Release(c)

\* The caller goes away; nobody is answered.
Interrupt(c) ==
  /\ calls[c] # Idle
  /\ calls' = [calls EXCEPT ![c] = Idle]
  /\ Release(c)
  /\ UNCHANGED <<left, answer>>

\* The process ends: an open transaction leaves nothing, a committed statement
\* stays.
Crash ==
  /\ \E c \in Clients : calls[c] # Idle
  /\ calls' = [c \in Clients |-> Idle]
  /\ work' = db
  /\ holder' = None
  /\ UNCHANGED <<db, left, answer>>

Next ==
  \/ \E c \in Clients :
       \/ \E q \in Requests(db) : Start(c, q)
       \/ Proceed(c)
       \/ Refuse(c)
       \/ Commit(c)
       \/ Break(c)
       \/ Interrupt(c)
  \/ Crash

Spec == Init /\ [][Next]_vars

-----------------------------------------------------------------------------

\* Each call takes effect at most once and as a whole, at one moment, and is
\* answered what that moment says; a refused, failed or abandoned one has no
\* effect.  Only a command of several statements that is no transaction may be
\* cut.
Atomic ==
  INSTANCE AtomicCommands WITH
    pending <- [c \in Clients |-> IF calls[c] = Idle THEN None ELSE Request(c)]
ImplementsAtomic == Atomic!Spec

-----------------------------------------------------------------------------

\* What the boundary relies on of the applications behind it.  A handler is a
\* script, no command declares the database's own error, and a statement that
\* is committed on its own, in a command that may be cut, leaves what the
\* script up to some statement would leave if it were executed now.
IsHandled(q) ==
  /\ q # None
  /\ Script(q) \in Seq({Script(q)[i] : i \in DOMAIN Script(q)})
  /\ "SqlError" \notin Declared(q)

PartStands(c) ==
  LET q == Request(c)
      outcome == Execute(Statement(c), q, calls[c].seen, work)
  IN  Ready(c) /\ ~AtEnd(c) /\ ~Atomic!IsWhole(q) /\ outcome.failure = Succeeds =>
        \E i \in DOMAIN Script(q) :
          /\ Atomic!After(q, i, db).failure = Succeeds
          /\ Atomic!After(q, i, db).db = outcome.db
          /\ calls[c].at = Len(Script(q)) => i = Len(Script(q))

Handled == \A q \in Requests(db) : IsHandled(q)

HandlersSound == Handled /\ \A c \in Clients : PartStands(c)
=============================================================================
