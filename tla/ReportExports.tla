---------------------------- MODULE ReportExports ----------------------------
(***************************************************************************)
(* The report-exports example: an export is accepted as a row of the       *)
(* application database, dispatched by a relay to a workflow engine that   *)
(* has a database of its own, rendered, written to a file by a queue       *)
(* worker and recorded as succeeded.  Operators poll, release, resume,     *)
(* cancel and reconcile it meanwhile, from processes that share the        *)
(* databases and the directory.  The three stores are not updated          *)
(* together, and what is in memory may be lost between any two steps.      *)
(*                                                                         *)
(* The engine, its deferred and its queue are libraries: they are modelled *)
(* by what this code relies on.  An execution is started once, by its id;  *)
(* its body is run again from the start after a crash, and finds the       *)
(* results of its activity and of its queued job; a job is delivered at    *)
(* least once.                                                             *)
(***************************************************************************)
EXTENDS Integers

CONSTANTS
  Ids,            \* execution ids, one for each account and report id
  Requests,       \* lines, period and release policy of a report
  NeedsApproval,  \* the requests whose policy is operatorApproval
  Operators,      \* administrators
  Relays,         \* one for each process that dispatches
  Workers,        \* fibers that take queued jobs
  MaxFaults,      \* bound on the failures of libraries, stores and memory
  None

ASSUME ReportExportsAssumption ==
  /\ NeedsApproval \subseteq Requests
  /\ None \notin Ids \cup Requests \cup Operators
  /\ None \notin [request : Requests, releasedBy : Operators \cup {None}]
  /\ None \notin {"resume", "release", "cancel", "reconcile"}
  /\ Operators \cap Workers = {}
  /\ MaxFaults \in Nat

VARIABLES
  row,       \* report_export_executions
  audit,     \* report_export_audits, as <<action, target>>
  tx,        \* the transaction each operator has open on the application database
  engine,    \* executions: state, payload and result of the activity
  at,        \* where the body of each running execution is, in memory
  released,  \* the deferred ReleaseApproval
  signal,    \* executions that were asked to stop
  queue,     \* the job of each execution
  file,      \* the artifacts
  relay,     \* what each relay remembers of its scan
  caller,    \* Generate requests between acceptance and execution
  writer,    \* what each queue worker and each Reconcile is doing
  poller,    \* what Poll remembers
  written,   \* history: exports for which a file was ever written
  faults

execution == <<engine, at, released, signal, queue>>
files == <<file, writer, written>>
vars == <<row, audit, tx, engine, at, released, signal, queue, file,
          relay, caller, writer, poller, written, faults>>

Writers == Workers \cup Operators
Kinds == {"resume", "release", "cancel", "reconcile"}
Artifacts == [request : Requests, releasedBy : Operators \cup {None}]
Maybe(S) == S \cup {None}

Statuses ==
  {"absent", "accepted", "dispatched", "writing", "succeeded", "cancelled", "failed"}
Rows == [status : Statuses, request : Maybe(Requests), artifact : Maybe(Artifacts)]
NoRow == [status |-> "absent", request |-> None, artifact |-> None]

\* "suspended": by a failure, until it is resumed.  "interrupted": for ever.
Executions ==
  [state : {"none", "running", "suspended", "interrupted", "succeeded"},
   request : Maybe(Requests), job : Maybe(Artifacts)]
NotStarted == [state |-> "none", request |-> None, job |-> None]

\* "stale": another connection wrote since the transaction first read.
Transactions ==
  [kind : Maybe(Kinds), id : Maybe(Ids), acted : BOOLEAN, stale : BOOLEAN]
NoTransaction == [kind |-> None, id |-> None, acted |-> FALSE, stale |-> FALSE]

Scans == [todo : SUBSET Ids, sent : Maybe(Ids)]
Scanned(ids) == [todo |-> ids, sent |-> None]
Writings ==
  [pc : {"idle", "checking", "writing", "reading"}, id : Maybe(Ids),
   contents : Maybe(Artifacts)]
Resting == [pc |-> "idle", id |-> None, contents |-> None]
Checking(id, job) == [pc |-> "checking", id |-> id, contents |-> job]
Polls == [id : Maybe(Ids), verdict : {"none", "failed", "succeeded"}]
NotPolling == [id |-> None, verdict |-> "none"]

TypeOK ==
  /\ row \in [Ids -> Rows]
  /\ audit \subseteq Kinds \X Ids
  /\ tx \in [Operators -> Transactions]
  /\ engine \in [Ids -> Executions]
  /\ at \in [Ids -> {"none", "start", "rendered", "enqueuing", "waiting", "recorded"}]
  /\ released \in [Ids -> Maybe(Operators)]
  /\ signal \in [Ids -> BOOLEAN]
  /\ queue \in [Ids -> {"none", "offered", "done", "died"}]
  /\ file \in [Ids -> Maybe(Artifacts)]
  /\ relay \in [Relays -> Scans]
  /\ caller \subseteq Ids \X Requests
  /\ writer \in [Writers -> Writings]
  /\ poller \in Polls
  /\ written \subseteq Ids
  /\ faults \in 0..MaxFaults

Init ==
  /\ row = [id \in Ids |-> NoRow]
  /\ audit = {}
  /\ tx = [o \in Operators |-> NoTransaction]
  /\ engine = [id \in Ids |-> NotStarted]
  /\ at = [id \in Ids |-> "none"]
  /\ released = [id \in Ids |-> None]
  /\ signal = [id \in Ids |-> FALSE]
  /\ queue = [id \in Ids |-> "none"]
  /\ file = [id \in Ids |-> None]
  /\ relay = [r \in Relays |-> Scanned({})]
  /\ caller = {}
  /\ writer = [w \in Writers |-> Resting]
  /\ poller = NotPolling
  /\ written = {}
  /\ faults = 0

Failure == faults < MaxFaults /\ faults' = faults + 1
------------------------------------------------------------------------------
(* The application database *)

\* Cancel starts with an UPDATE, which holds the write lock to its commit.
Unlocked == \A o \in Operators : tx[o].kind # "cancel"

\* A transaction that read before another connection wrote cannot write.
Outdated(t) == [t EXCEPT !.stale = t.kind # None]

\* One statement outside a transaction.
Put(id, new) ==
  /\ Unlocked
  /\ row' = [row EXCEPT ![id] = new]
  /\ tx' = [o \in Operators |-> Outdated(tx[o])]

Update(id, from, to) ==
  IF row[id].status \in from
  THEN Put(id, [row[id] EXCEPT !.status = to])
  ELSE Unlocked /\ UNCHANGED <<row, tx>>

\* A wrong accept: a repeated id starts over.
FaultAcceptAgain(id, request) ==
  Put(id, [NoRow EXCEPT !.status = "accepted", !.request = request])

accept(id, request) ==
  IF row[id] = NoRow
  THEN Put(id, [NoRow EXCEPT !.status = "accepted", !.request = request])
  ELSE Unlocked /\ UNCHANGED <<row, tx>>

markDispatched(id) == Update(id, {"accepted"}, "dispatched")

\* A wrong beginWriting: the number of updated rows is not looked at.
FaultWriteAnyway(id) == id \in Ids

Writable(id) == row[id].status \in {"accepted", "dispatched", "writing"}

succeed(id, artifact) ==
  IF row[id].status = "writing"
  THEN Put(id, [row[id] EXCEPT !.status = "succeeded", !.artifact = artifact])
  ELSE Unlocked /\ UNCHANGED <<row, tx>>

\* A wrong fail: it does not look at the status.
FaultFailAlways(id) == Update(id, Statuses \ {"absent"}, "failed")

fail(id) == Update(id, Statuses \ {"absent", "succeeded", "cancelled"}, "failed")

------------------------------------------------------------------------------
(* Acceptance and dispatch *)

\* An id runs once, with the payload of whoever starts it first.
Start(id, request) ==
  IF engine[id].state = "none"
  THEN /\ engine' = [engine EXCEPT ![id] =
                       [NotStarted EXCEPT !.state = "running", !.request = request]]
       /\ at' = [at EXCEPT ![id] = "start"]
  ELSE UNCHANGED <<engine, at>>

GenerateDiscard(id, request) ==
  /\ accept(id, request)
  /\ UNCHANGED <<audit, execution, files, relay, caller, poller, faults>>

Generate(id, request) ==
  /\ accept(id, request)
  /\ caller' = caller \cup {<<id, request>>}
  /\ UNCHANGED <<audit, execution, files, relay, poller, faults>>

Execute(id, request) ==
  /\ <<id, request>> \in caller
  /\ caller' = caller \ {<<id, request>>}
  /\ Start(id, request)
  /\ UNCHANGED <<row, audit, tx, released, signal, queue, files, relay, poller, faults>>

\* The caller's process stops between the two.
Abandon(id, request) ==
  /\ <<id, request>> \in caller
  /\ caller' = caller \ {<<id, request>>}
  /\ UNCHANGED <<row, audit, tx, execution, files, relay, poller, faults>>

Scan(r) ==
  /\ relay[r] = Scanned({})
  /\ relay' = [relay EXCEPT ![r] = Scanned({id \in Ids : row[id].status = "accepted"})]
  /\ UNCHANGED <<row, audit, tx, execution, files, caller, poller, faults>>

Dispatch(r, id) ==
  /\ relay[r].sent = None
  /\ id \in relay[r].todo
  /\ relay' = [relay EXCEPT ![r] = [todo |-> @.todo \ {id}, sent |-> id]]
  /\ Start(id, row[id].request)
  /\ UNCHANGED <<row, audit, tx, released, signal, queue, files, caller, poller, faults>>

Mark(r) ==
  /\ relay[r].sent # None
  /\ markDispatched(relay[r].sent)
  /\ relay' = [relay EXCEPT ![r].sent = None]
  /\ UNCHANGED <<audit, execution, files, caller, poller, faults>>

\* A wrong dispatch: the row is marked whether or not the engine took it.
FaultMarkAnyway(r) ==
  /\ Failure
  /\ \E id \in relay[r].todo : markDispatched(id)
  /\ relay' = [relay EXCEPT ![r] = Scanned({})]
  /\ UNCHANGED <<audit, execution, files, caller, poller>>

\* An error is logged and the next export taken; a crash forgets the scan.
DispatchFails(r) ==
  /\ Failure
  /\ relay[r] # Scanned({})
  /\ \E todo \in {{}, relay[r].todo} \cup {relay[r].todo \ {id} : id \in Ids} :
       relay' = [relay EXCEPT ![r] = Scanned(todo)]
  /\ UNCHANGED <<row, audit, tx, execution, files, caller, poller>>

Relay(r) == Scan(r) \/ (\E id \in Ids : Dispatch(r, id)) \/ Mark(r)
------------------------------------------------------------------------------
(* The body of the workflow *)

Running(id, step) == engine[id].state = "running" /\ at[id] = step

Approved(id) == engine[id].request \in NeedsApproval => released[id] # None

makeReportExportJob(request, releasedBy) ==
  [request |-> request, releasedBy |-> releasedBy]

\* The activity runs once; a replay finds what it returned.
Render(id) ==
  /\ Running(id, "start")
  /\ Approved(id)
  /\ engine' = [engine EXCEPT ![id].job =
       IF @ # None THEN @
       ELSE makeReportExportJob(engine[id].request,
              IF engine[id].request \in NeedsApproval THEN released[id] ELSE None)]
  /\ at' = [at EXCEPT ![id] = "rendered"]
  /\ UNCHANGED <<row, audit, tx, released, signal, queue, files, relay, caller, poller, faults>>

Stop(id, state) ==
  /\ engine' = [engine EXCEPT ![id].state = state]
  /\ at' = [at EXCEPT ![id] = "none"]

\* The library may take the body's own interrupt for a failure.
BeginWriting(id) ==
  /\ Running(id, "rendered")
  /\ Update(id, {"accepted", "dispatched", "writing"}, "writing")
  /\ IF Writable(id)
     THEN at' = [at EXCEPT ![id] = "enqueuing"] /\ UNCHANGED engine
     ELSE \E state \in {"interrupted", "suspended"} : Stop(id, state)
  /\ UNCHANGED <<audit, released, signal, queue, files, relay, caller, poller, faults>>

Enqueue(id) ==
  /\ Running(id, "enqueuing")
  /\ queue' = [queue EXCEPT ![id] = IF @ = "none" THEN "offered" ELSE @]
  /\ at' = [at EXCEPT ![id] = "waiting"]
  /\ UNCHANGED <<row, audit, tx, engine, released, signal, files, relay, caller, poller, faults>>

Record(id) ==
  /\ Running(id, "waiting")
  /\ queue[id] = "done"
  /\ succeed(id, engine[id].job)
  /\ at' = [at EXCEPT ![id] = "recorded"]
  /\ UNCHANGED <<audit, engine, released, signal, queue, files, relay, caller, poller, faults>>

Complete(id) ==
  /\ Running(id, "recorded")
  /\ Stop(id, "succeeded")
  /\ UNCHANGED <<row, audit, tx, released, signal, queue, files, relay, caller, poller, faults>>

\* SuspendOnFailure, for the defect of a writer and for any other failure.
WriterDied(id) ==
  /\ Running(id, "waiting")
  /\ queue[id] = "died"
  /\ Stop(id, "suspended")
  /\ UNCHANGED <<row, audit, tx, released, signal, queue, files, relay, caller, poller, faults>>

Unavailable(id) ==
  /\ Failure
  /\ engine[id].state = "running"
  /\ Stop(id, "suspended")
  /\ UNCHANGED <<row, audit, tx, released, signal, queue, files, relay, caller, poller>>

Replay(id) ==
  /\ Failure
  /\ engine[id].state = "running"
  /\ at' = [at EXCEPT ![id] = "start"]
  /\ UNCHANGED <<row, audit, tx, engine, released, signal, queue, files, relay, caller, poller>>

Interrupted(id) ==
  /\ signal[id]
  /\ engine[id].state \in {"running", "suspended"}
  /\ Stop(id, "interrupted")
  /\ UNCHANGED <<row, audit, tx, released, signal, queue, files, relay, caller, poller, faults>>

Flow(id) ==
  \/ Render(id)
  \/ BeginWriting(id)
  \/ Enqueue(id)
  \/ Record(id)
  \/ Complete(id)
  \/ WriterDied(id)

------------------------------------------------------------------------------
(* writeReportArtifact, for a queued job and for Reconcile *)

\* A job whose worker is slow or lost is delivered again.
Take(w, id) ==
  /\ w \in Workers
  /\ writer[w] = Resting
  /\ queue[id] = "offered"
  /\ writer' = [writer EXCEPT ![w] = Checking(id, engine[id].job)]
  /\ UNCHANGED <<row, audit, tx, execution, file, relay, caller, poller, written, faults>>

Check(w) ==
  /\ writer[w].pc = "checking"
  /\ writer' = [writer EXCEPT ![w].pc =
                  IF file[writer[w].id] = None THEN "writing" ELSE "reading"]
  /\ UNCHANGED <<row, audit, tx, execution, file, relay, caller, poller, written, faults>>

\* A temporary file takes the name: no reader sees half of it.
WriteFile(w) ==
  /\ writer[w].pc = "writing"
  /\ file' = [file EXCEPT ![writer[w].id] = writer[w].contents]
  /\ written' = written \cup {writer[w].id}
  /\ writer' = [writer EXCEPT ![w].pc = "reading"]
  /\ UNCHANGED <<row, audit, tx, execution, relay, caller, poller, faults>>

Agrees(w) == file[writer[w].id] = writer[w].contents

\* The first answer to a job stays.
Answered(w) ==
  /\ w \in Workers
  /\ \E answer \in IF Agrees(w) THEN {"done"} ELSE {"offered", "died"} :
       queue' = [queue EXCEPT ![writer[w].id] = IF @ = "offered" THEN answer ELSE @]
  /\ UNCHANGED tx

Reconciled(o) ==
  /\ o \in Operators
  /\ tx' = [tx EXCEPT ![o] = IF Agrees(o) THEN [@ EXCEPT !.acted = TRUE]
                             ELSE NoTransaction]
  /\ UNCHANGED queue

ReadBack(w) ==
  /\ writer[w].pc = "reading"
  /\ Answered(w) \/ Reconciled(w)
  /\ writer' = [writer EXCEPT ![w] = Resting]
  /\ UNCHANGED <<row, audit, engine, at, released, signal, file, relay, caller,
                 poller, written, faults>>

WorkerLost(w) ==
  /\ Failure
  /\ w \in Workers
  /\ writer[w] # Resting
  /\ writer' = [writer EXCEPT ![w] = Resting]
  /\ UNCHANGED <<row, audit, tx, execution, file, relay, caller, poller, written>>

LoseFile(id) ==
  /\ Failure
  /\ file[id] # None
  /\ file' = [file EXCEPT ![id] = None]
  /\ UNCHANGED <<row, audit, tx, execution, relay, caller, writer, poller, written>>

Writing(w) == (\E id \in Ids : Take(w, id)) \/ Check(w) \/ WriteFile(w) \/ ReadBack(w)
------------------------------------------------------------------------------
(* What operators do *)

\* A wrong reconcile: the operator takes the place of who released.
FaultJobOfOperator(o, id) == makeReportExportJob(row[id].request, o)

\* The job that is made again from the row.
RetainedJob(o, id) == makeReportExportJob(row[id].request, row[id].artifact.releasedBy)

Admits(kind, id) ==
  /\ row[id] # NoRow
  /\ CASE kind = "resume" -> row[id].status \notin {"cancelled", "failed", "succeeded"}
       [] kind = "release" -> row[id].status # "cancelled"
       [] kind = "cancel" -> row[id].status \in {"accepted", "dispatched", "cancelled"}
       [] kind = "reconcile" -> row[id].status = "succeeded"

\* The guard of a command; one that rejects changes nothing.
Begin(o, kind, id) ==
  /\ tx[o] = NoTransaction
  /\ kind = "cancel" => Unlocked
  /\ Admits(kind, id)
  /\ tx' = [tx EXCEPT ![o] =
              [kind |-> kind, id |-> id, acted |-> FALSE, stale |-> FALSE]]
  /\ writer' = IF kind # "reconcile" THEN writer
               ELSE [writer EXCEPT ![o] =
                 Checking(id, RetainedJob(o, id))]
  /\ UNCHANGED <<row, audit, execution, file, relay, caller, poller, written, faults>>

\* The call that leaves the transaction for the engine's database.
Acts(o, kind) ==
  /\ tx[o].kind = kind
  /\ ~tx[o].acted
  /\ tx' = [tx EXCEPT ![o].acted = TRUE]
  /\ UNCHANGED <<row, audit, queue, files, relay, caller, poller, faults>>

ResumeEngine(o) ==
  LET id == tx[o].id
  IN  /\ Acts(o, "resume")
      /\ IF engine[id].state = "suspended"
         THEN /\ engine' = [engine EXCEPT ![id].state = "running"]
              /\ at' = [at EXCEPT ![id] = "start"]
         ELSE UNCHANGED <<engine, at>>
      /\ UNCHANGED <<released, signal>>

ReleaseEngine(o) ==
  LET id == tx[o].id
  IN  /\ Acts(o, "release")
      /\ released' = [released EXCEPT ![id] = IF @ = None THEN o ELSE @]
      /\ UNCHANGED <<engine, at, signal>>

\* Nothing is promised of the signal to an execution that has not started.
InterruptEngine(o) ==
  LET id == tx[o].id
  IN  /\ Acts(o, "cancel")
      /\ \/ signal' = [signal EXCEPT ![id] = TRUE]
         \/ engine[id].state = "none" /\ UNCHANGED signal
      /\ UNCHANGED <<engine, at, released>>

Commit(o) ==
  LET t == tx[o]
  IN  /\ t.acted /\ ~t.stale
      /\ t.kind = "cancel" \/ Unlocked
      /\ row' = IF t.kind # "cancel" THEN row
                ELSE [row EXCEPT ![t.id].status = "cancelled"]
      /\ audit' = audit \cup {<<t.kind, t.id>>}
      /\ tx' = [p \in Operators |-> IF p = o THEN NoTransaction ELSE Outdated(tx[p])]
      /\ UNCHANGED <<execution, files, relay, caller, poller, faults>>

\* What the engine was told, and the file that was written, stay.
Abort(o) ==
  /\ tx[o] # NoTransaction
  /\ IF tx[o].stale /\ tx[o].acted THEN UNCHANGED faults ELSE Failure
  /\ tx' = [tx EXCEPT ![o] = NoTransaction]
  /\ writer' = [writer EXCEPT ![o] = Resting]
  /\ UNCHANGED <<row, audit, execution, file, relay, caller, poller, written>>

Command(o) ==
  ResumeEngine(o) \/ ReleaseEngine(o) \/ InterruptEngine(o) \/ Commit(o) \/ Abort(o)

\* Poll asks the engine only of what is dispatched or writing.
PollFind(id) ==
  /\ poller = NotPolling
  /\ row[id].status \in {"dispatched", "writing"}
  /\ poller' = [NotPolling EXCEPT !.id = id]
  /\ UNCHANGED <<row, audit, tx, execution, files, relay, caller, faults>>

\* Only a complete execution has an outcome.
Outcome(id) ==
  CASE engine[id].state = "interrupted" -> "failed"
    [] engine[id].state = "succeeded" -> "succeeded"
    [] OTHER -> "none"

PollEngine ==
  LET id == poller.id
  IN  /\ id # None
      /\ poller.verdict = "none"
      /\ poller' = IF Outcome(id) = "none" THEN NotPolling
                   ELSE [poller EXCEPT !.verdict = Outcome(id)]
      /\ UNCHANGED <<row, audit, tx, execution, files, relay, caller, faults>>

PollSettle ==
  /\ \/ poller.verdict = "failed" /\ fail(poller.id)
     \/ poller.verdict = "succeeded" /\ succeed(poller.id, engine[poller.id].job)
  /\ poller' = NotPolling
  /\ UNCHANGED <<audit, execution, files, relay, caller, faults>>

Poll == (\E id \in Ids : PollFind(id)) \/ PollEngine \/ PollSettle

------------------------------------------------------------------------------
Accepting ==
  \E id \in Ids, request \in Requests :
    \/ GenerateDiscard(id, request)
    \/ Generate(id, request)
    \/ Execute(id, request)
    \/ Abandon(id, request)

Next ==
  \/ Accepting
  \/ \E r \in Relays : Relay(r) \/ DispatchFails(r)
  \/ \E id \in Ids : Flow(id) \/ Unavailable(id) \/ Replay(id) \/ Interrupted(id) \/ LoseFile(id)
  \/ \E w \in Writers : Writing(w) \/ WorkerLost(w)
  \/ \E o \in Operators :
       Command(o) \/ (\E kind \in Kinds, id \in Ids : Begin(o, kind, id))
  \/ Poll

\* The relay and the workflow wait for the write lock, which is free again
\* and again: strong fairness.  Nobody must ever call a command.
Fairness ==
  /\ \A r \in Relays : SF_vars(Relay(r))
  /\ \A id \in Ids : SF_vars(Flow(id))
  /\ \A w \in Writers : WF_vars(Writing(w))
  /\ \A o \in Operators : WF_vars(Command(o))

Spec == Init /\ [][Next]_vars
FairSpec == Spec /\ Fairness
------------------------------------------------------------------------------
Busy(id) ==
  \/ at[id] \in {"enqueuing", "waiting", "recorded"}
  \/ queue[id] # "none"
  \/ \E w \in Writers : writer[w].id = id

\* Cancellation never races past the transition to writing: whatever the
\* relay, the replayed workflow, the queue and the writers still hold, nothing
\* is written for a cancelled export, and nothing is about to be
\* (executions.ts beginWriting and cancel, workflow.ts Cancel).
CancelledWritesNothing ==
  \A id \in Ids : row[id].status = "cancelled" => ~Busy(id) /\ id \notin written

\* The two databases agree about success: an execution that the engine calls
\* succeeded is recorded as succeeded with the artifact of its job, and an
\* export that is recorded as succeeded had its job answered (workflow.ts
\* executeFinancialReportExport, Poll).
OutcomesAgree ==
  \A id \in Ids :
    /\ engine[id].state = "succeeded" => row[id].status = "succeeded"
    /\ row[id].status = "succeeded" =>
         row[id].artifact = engine[id].job /\ queue[id] = "done"

StoresAgree == CancelledWritesNothing /\ OutcomesAgree

\* An audit row is evidence of what happened, although the engine acts outside
\* of the transaction that writes it and whatever other connections write
\* meanwhile (workflow.ts Cancel, Release, Reconcile; audit.ts).
AuditTellsTruth ==
  \A id \in Ids :
    /\ <<"cancel", id>> \in audit => row[id].status = "cancelled"
    /\ <<"release", id>> \in audit => released[id] # None
    /\ <<"reconcile", id>> \in audit => row[id].status = "succeeded"

\* The file of a succeeded export holds what its row says, however often its
\* job was delivered and whoever restored it, as long as the execution ran the
\* request that was accepted (writer.ts; workflow.ts Reconcile).
FileMatchesArtifact ==
  \A id \in Ids :
    row[id].status = "succeeded" /\ file[id] # None =>
      file[id] = row[id].artifact \/ engine[id].request # row[id].request

\* The whole of the example keeps what Poll promises.
StageOf(status) ==
  CASE status = "absent" -> "unknown"
    [] status \in {"accepted", "dispatched", "writing"} -> "pending"
    [] OTHER -> status

Promise == INSTANCE Exports WITH stage <- [id \in Ids |-> StageOf(row[id].status)]
ImplementsExports == Promise!Spec

\* What Poll answers, of which only the release of an operator-approved export
\* is waited for without an answer.
Answer(id) ==
  IF row[id].status \in {"dispatched", "writing"}
  THEN CASE Outcome(id) # "none" -> Outcome(id)
         [] engine[id].state = "suspended" -> "recoverable"
         [] OTHER -> "pending"
  ELSE StageOf(row[id].status)

AwaitsRelease(id) == Running(id, "start") /\ ~Approved(id)

\* Every accepted export gets an answer other than pending, or waits for an
\* operator's release, with failures between any two steps, as long as they
\* are finitely many (runtime.ts dispatchAccepted, the replayed workflow, the
\* redelivered job, SuspendOnFailure).
Settles ==
  \A id \in Ids :
    row[id] # NoRow ~> Answer(id) # "pending" \/ AwaitsRelease(id)
===============================================================================
