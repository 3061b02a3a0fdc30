---------------------------- MODULE AtomicCommands ----------------------------
(***************************************************************************)
(* What callers of commands are promised: a command is one step, from the  *)
(* call to its answer, on the database as it is at that moment.            *)
(***************************************************************************)
EXTENDS Statements

CONSTANTS
  Clients, Databases, Requests(_), Script(_), Execute(_, _, _, _),
  Transactional(_), Declared(_), None

VARIABLES
  db,
  pending,  \* the request of each client that waits for an answer
  answer    \* the answer given last

vars == <<db, pending, answer>>

Answer(q, failure, seen) == [request |-> q, failure |-> failure, seen |-> seen]

Init ==
  /\ db \in Databases
  /\ pending = [c \in Clients |-> None]
  /\ answer = Answer(None, Succeeds, Nothing)

\* The first n statements of a handler, up to the first failure.
After(q, n, d) ==
  LET after[i \in 0..n] ==
        IF i = 0 THEN Done(d, Nothing)
        ELSE LET before == after[i - 1]
             IN  IF before.failure # Succeeds THEN before
                 ELSE Execute(Script(q)[i], q, before.seen, before.db)
  IN  after[n]

Whole(q, d) == After(q, Len(Script(q)), d)

IsWhole(q) == Transactional(q) \/ Len(Script(q)) = 1

Ask(c) ==
  /\ pending[c] = None
  /\ \E q \in Requests(db) : pending' = [pending EXCEPT ![c] = q]
  /\ UNCHANGED <<db, answer>>

Forget(c) == pending' = [pending EXCEPT ![c] = None]

Perform(c) ==
  LET q == pending[c]
      end == Whole(q, db)
  IN  /\ q # None
      /\ IsWhole(q)
      /\ Forget(c)
      /\ IF end.failure = Succeeds
         THEN db' = end.db /\ answer' = Answer(q, Succeeds, end.seen)
         ELSE /\ db' = db
              /\ answer' = Answer(q, IF end.failure \in Declared(q)
                                     THEN end.failure ELSE Unavailable, end.seen)

\* A statement of a command that is no transaction.  What it was told by the
\* statements before need not hold any more: its answer is not promised.
Part(c) ==
  LET q == pending[c]
  IN  /\ q # None
      /\ ~IsWhole(q)
      /\ \E i \in DOMAIN Script(q) :
           LET outcome == After(q, i, db)
           IN  /\ outcome.failure = Succeeds
               /\ db' = outcome.db
               /\ \/ UNCHANGED <<pending, answer>>
                  \/ /\ i = Len(Script(q))
                     /\ Forget(c)
                     /\ answer'.request = q
                     /\ answer'.failure = Succeeds

\* Something fails, or a command that is no transaction meets what another one
\* did between its statements.
GiveUp(c) ==
  /\ pending[c] # None
  /\ Forget(c)
  /\ UNCHANGED db
  /\ answer'.request = pending[c]
  /\ \/ answer'.failure = Unavailable
     \/ ~IsWhole(pending[c]) /\ answer'.failure # Succeeds

Abandon ==
  /\ \E some \in SUBSET Clients :
       pending' = [c \in Clients |-> IF c \in some THEN None ELSE pending[c]]
  /\ UNCHANGED <<db, answer>>

Next ==
  \/ \E c \in Clients : Ask(c) \/ Perform(c) \/ Part(c) \/ GiveUp(c)
  \/ Abandon

Spec == Init /\ [][Next]_vars
=============================================================================
