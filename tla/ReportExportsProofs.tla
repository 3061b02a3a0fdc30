------------------------- MODULE ReportExportsProofs -------------------------
(***************************************************************************)
(* Theorems about ReportExports, for any number of exports, requests,      *)
(* operators, relays, workers and failures.                                *)
(*                                                                         *)
(* The properties join three stores that are never updated together, so    *)
(* none is inductive.  The strengthening says, of every place an export    *)
(* can have come to in the engine, the queue and the writers, how far its  *)
(* row must have come (Underway), what of the engine is settled for ever   *)
(* (Settled), what a writer carries (Carried), and what a transaction or a *)
(* poll that read earlier may still rely on (Relied).                      *)
(***************************************************************************)
EXTENDS ReportExports, TLAPS

USE ReportExportsAssumption

\* What was submitted reaches the engine: nothing starts without a request.
Submitted ==
  \A id \in Ids :
    /\ row[id].status # "absent" => row[id].request \in Requests
    /\ row[id].status = "absent" => row[id] = NoRow
    /\ engine[id].state # "none" => engine[id].request \in Requests
    /\ \A r \in Relays : id \in relay[r].todo => row[id].status # "absent"

\* An export past BeginWriting; its row can no longer be cancelled.
Begun(id) == row[id].status \in {"writing", "succeeded", "failed"}

\* Only the body leads to the queue and to the writers, and only a row that
\* was found writable lets the body through.
Underway ==
  \A id \in Ids :
    /\ at[id] \in {"enqueuing", "waiting", "recorded"} => Begun(id)
    /\ queue[id] # "none" => Begun(id) /\ engine[id].job # None
    /\ file[id] # None => id \in written
    /\ id \in written => Begun(id)
    /\ queue[id] = "done" => id \in written

\* What the engine says of an export, and what is recorded of it.
Settled ==
  \A id \in Ids :
    /\ at[id] # "none" => engine[id].state = "running"
    /\ at[id] \in {"rendered", "enqueuing", "waiting", "recorded"} => engine[id].job # None
    /\ engine[id].state = "none" => engine[id].job = None
    /\ engine[id].job # None => engine[id].job.request = engine[id].request
    /\ at[id] = "recorded" => row[id].status = "succeeded"
    /\ row[id].status = "failed" => engine[id].state = "interrupted"
    /\ row[id].status = "succeeded" => engine[id].job # None

\* A worker carries the job of the execution, Reconcile the one of the row.
Job(w, id) == IF w \in Workers THEN engine[id].job ELSE RetainedJob(w, id)

Carries(w) ==
  /\ writer[w].pc # "idle" =>
       /\ writer[w].id \in Ids
       /\ writer[w].contents \in Artifacts
       /\ writer[w].contents = Job(w, writer[w].id)
       /\ Begun(writer[w].id)
       /\ w \in Operators => row[writer[w].id].status = "succeeded"
  /\ writer[w].pc = "idle" => writer[w] = Resting
  /\ writer[w].pc = "reading" => writer[w].id \in written

Carried ==
  /\ \A w \in Writers : Carries(w)
  /\ \A id \in Ids : file[id] # None =>
       \/ file[id] = engine[id].job
       \/ row[id].status = "succeeded" /\ file[id] = RetainedJob(None, id)

\* What was read before the last step and is used after it.
Relies(o) ==
  /\ tx[o].kind # None => tx[o].id \in Ids
  /\ tx[o].acted => tx[o].kind # None
  /\ tx[o].kind = "cancel" =>
       row[tx[o].id].status \in {"accepted", "dispatched", "cancelled"}
  /\ tx[o].kind = "reconcile" => row[tx[o].id].status = "succeeded"
  /\ tx[o].kind = "release" /\ tx[o].acted => released[tx[o].id] # None
  /\ writer[o].pc # "idle" => tx[o].kind = "reconcile" /\ ~tx[o].acted

Relied ==
  /\ \A o \in Operators : Relies(o)
  /\ \A o, p \in Operators : tx[o].kind = "cancel" /\ tx[p].kind = "cancel" => o = p
  /\ poller.verdict # "none" => poller.id \in Ids
  /\ poller.verdict = "failed" => engine[poller.id].state = "interrupted"
  /\ poller.verdict = "succeeded" => engine[poller.id].state = "succeeded"

IInv ==
  /\ TypeOK
  /\ Submitted
  /\ Underway
  /\ Settled
  /\ Carried
  /\ Relied
  /\ OutcomesAgree
  /\ AuditTellsTruth

------------------------------------------------------------------------------
(* Types *)

LEMMA PutTyped ==
  ASSUME TypeOK, NEW id \in Ids, NEW new \in Rows, Put(id, new)
  PROVE  row' \in [Ids -> Rows] /\ tx' \in [Operators -> Transactions]
<1>1. row' \in [Ids -> Rows]
  BY DEF TypeOK, Put
<1>2. \A t \in Transactions : Outdated(t) \in Transactions
  BY DEF Outdated, Transactions
<1>3. tx' \in [Operators -> Transactions]
  BY <1>2 DEF TypeOK, Put
<1> QED BY <1>1, <1>3

LEMMA UpdateTyped ==
  ASSUME TypeOK, NEW id \in Ids, NEW from, NEW to \in Statuses, Update(id, from, to)
  PROVE  row' \in [Ids -> Rows] /\ tx' \in [Operators -> Transactions]
<1>1. CASE row[id].status \in from
  <2>1. row[id] \in Rows
    BY DEF TypeOK
  <2>2. [row[id] EXCEPT !.status = to] \in Rows
    BY <2>1 DEF Rows
  <2> QED BY <1>1, <2>2, PutTyped DEF Update
<1>2. CASE row[id].status \notin from
  BY <1>2 DEF Update, TypeOK
<1> QED BY <1>1, <1>2

LEMMA AcceptTyped ==
  ASSUME TypeOK, NEW id \in Ids, NEW request \in Requests, accept(id, request)
  PROVE  row' \in [Ids -> Rows] /\ tx' \in [Operators -> Transactions]
<1>1. [NoRow EXCEPT !.status = "accepted", !.request = request] \in Rows
  BY DEF NoRow, Rows, Maybe, Statuses
<1> QED BY <1>1, PutTyped DEF accept, TypeOK

LEMMA SucceedTyped ==
  ASSUME TypeOK, NEW id \in Ids, NEW job \in Maybe(Artifacts), succeed(id, job)
  PROVE  row' \in [Ids -> Rows] /\ tx' \in [Operators -> Transactions]
<1>1. row[id] \in Rows
  BY DEF TypeOK
<1>2. [row[id] EXCEPT !.status = "succeeded", !.artifact = job] \in Rows
  BY <1>1 DEF Rows, Statuses
<1> QED BY <1>2, PutTyped DEF succeed, TypeOK

LEMMA StartTyped ==
  ASSUME TypeOK, NEW id \in Ids, NEW request \in Maybe(Requests), Start(id, request)
  PROVE  /\ engine' \in [Ids -> Executions]
         /\ at' \in [Ids -> {"none", "start", "rendered", "enqueuing", "waiting", "recorded"}]
<1>1. [NotStarted EXCEPT !.state = "running", !.request = request] \in Executions
  BY DEF NotStarted, Executions, Maybe
<1> QED BY <1>1 DEF Start, TypeOK

LEMMA StopTyped ==
  ASSUME TypeOK, NEW id \in Ids, NEW state \in {"suspended", "interrupted", "succeeded"},
         Stop(id, state)
  PROVE  /\ engine' \in [Ids -> Executions]
         /\ at' \in [Ids -> {"none", "start", "rendered", "enqueuing", "waiting", "recorded"}]
<1>1. engine[id] \in Executions
  BY DEF TypeOK
<1>2. [engine[id] EXCEPT !.state = state] \in Executions
  BY <1>1 DEF Executions
<1> QED BY <1>2 DEF Stop, TypeOK

LEMMA FailureTyped ==
  ASSUME TypeOK, Failure
  PROVE  faults' \in 0..MaxFaults
BY DEF TypeOK, Failure

LEMMA JobTyped ==
  ASSUME TypeOK, NEW id \in Ids
  PROVE  engine[id].job \in Maybe(Artifacts) /\ row[id].request \in Maybe(Requests)
BY DEF TypeOK, Executions, Rows

LEMMA InitTyped == Init => TypeOK
<1> SUFFICES ASSUME Init PROVE TypeOK
  OBVIOUS
<1>1. NoRow \in Rows /\ NotStarted \in Executions
  BY DEF NoRow, Rows, NotStarted, Executions, Maybe, Statuses
<1>2. NoTransaction \in Transactions /\ Resting \in Writings /\ NotPolling \in Polls
  BY DEF NoTransaction, Transactions, Resting, Writings, NotPolling, Polls, Maybe
<1>3. Scanned({}) \in Scans
  BY DEF Scanned, Scans, Maybe
<1> QED BY <1>1, <1>2, <1>3 DEF Init, TypeOK, Maybe

\* Acceptance and dispatch.
LEMMA AcceptingTyped ==
  ASSUME TypeOK, Accepting
  PROVE  TypeOK'
<1>1. ASSUME NEW id \in Ids, NEW request \in Requests, GenerateDiscard(id, request)
      PROVE  TypeOK'
  BY <1>1, AcceptTyped DEF GenerateDiscard, TypeOK, execution, files
<1>2. ASSUME NEW id \in Ids, NEW request \in Requests, Generate(id, request)
      PROVE  TypeOK'
  BY <1>2, AcceptTyped DEF Generate, TypeOK, execution, files
<1>3. ASSUME NEW id \in Ids, NEW request \in Requests, Execute(id, request)
      PROVE  TypeOK'
  BY <1>3, StartTyped DEF Execute, TypeOK, files, Maybe
<1>4. ASSUME NEW id \in Ids, NEW request \in Requests, Abandon(id, request)
      PROVE  TypeOK'
  BY <1>4 DEF Abandon, TypeOK, execution, files
<1> QED BY <1>1, <1>2, <1>3, <1>4 DEF Accepting

LEMMA RelayTyped ==
  ASSUME TypeOK, NEW r \in Relays, Relay(r) \/ DispatchFails(r)
  PROVE  TypeOK'
<1>0. relay[r] \in Scans /\ \A ids \in SUBSET Ids : Scanned(ids) \in Scans
  BY DEF TypeOK, Scanned, Scans, Maybe
<1>1. CASE Scan(r)
  <2>1. relay' \in [Relays -> Scans]
    BY <1>0, <1>1 DEF Scan, TypeOK
  <2> QED BY <1>1, <2>1 DEF Scan, TypeOK, execution, files
<1>2. ASSUME NEW id \in Ids, Dispatch(r, id)
      PROVE  TypeOK'
  <2>1. [todo |-> relay[r].todo \ {id}, sent |-> id] \in Scans
    BY <1>0 DEF Scans, Maybe
  <2>2. relay' \in [Relays -> Scans]
    BY <1>2, <2>1 DEF Dispatch, TypeOK
  <2> QED BY <1>2, <2>2, JobTyped, StartTyped DEF Dispatch, TypeOK, files
<1>3. CASE Mark(r)
  <2>1. relay[r].sent \in Ids
    BY <1>0, <1>3 DEF Mark, Scans, Maybe
  <2>2. row' \in [Ids -> Rows] /\ tx' \in [Operators -> Transactions]
    BY <1>3, <2>1, UpdateTyped DEF Mark, markDispatched, Statuses
  <2>3. [relay[r] EXCEPT !.sent = None] \in Scans
    BY <1>0 DEF Scans, Maybe
  <2>4. relay' \in [Relays -> Scans]
    BY <1>3, <2>3 DEF Mark, TypeOK
  <2> QED BY <1>3, <2>2, <2>4 DEF Mark, TypeOK, execution, files
<1>4. CASE DispatchFails(r)
  <2>1. relay[r].todo \in SUBSET Ids
    BY <1>0 DEF Scans
  <2>2. \A todo \in {{}, relay[r].todo} \cup {relay[r].todo \ {id} : id \in Ids} :
          todo \in SUBSET Ids
    BY <2>1
  <2>3. relay' \in [Relays -> Scans]
    BY <1>0, <1>4, <2>2 DEF DispatchFails, TypeOK
  <2> QED BY <1>4, <2>3, FailureTyped DEF DispatchFails, TypeOK, execution, files
<1> QED BY <1>1, <1>2, <1>3, <1>4 DEF Relay

\* The body and the engine.
LEMMA FlowTyped ==
  ASSUME TypeOK, Submitted, NEW id \in Ids,
         Flow(id) \/ Unavailable(id) \/ Replay(id) \/ Interrupted(id) \/ LoseFile(id)
  PROVE  TypeOK'
<1>0. engine[id] \in Executions /\ released[id] \in Maybe(Operators)
  BY DEF TypeOK
<1>1. CASE Render(id)
  <2> DEFINE made == makeReportExportJob(engine[id].request,
                IF engine[id].request \in NeedsApproval THEN released[id] ELSE None)
  <2>1. engine[id].request \in Requests
    BY <1>1 DEF Render, Running, Submitted
  <2>2. made \in Artifacts
    BY <1>0, <2>1 DEF Artifacts, Maybe, makeReportExportJob
  <2> HIDE DEF made
  <2>3. [engine[id] EXCEPT !.job = IF @ # None THEN @ ELSE made] \in Executions
    BY <1>0, <2>2 DEF Executions, Maybe
  <2>4. engine' = [engine EXCEPT ![id] =
                     [engine[id] EXCEPT !.job = IF @ # None THEN @ ELSE made]]
    BY <1>1 DEF Render, made, TypeOK
  <2>5. engine' \in [Ids -> Executions]
    BY <2>3, <2>4 DEF TypeOK
  <2> QED BY <1>1, <2>5 DEF Render, TypeOK, files
<1>2. CASE BeginWriting(id)
  <2>1. row' \in [Ids -> Rows] /\ tx' \in [Operators -> Transactions]
    BY <1>2, UpdateTyped DEF BeginWriting, Statuses
  <2>2. /\ engine' \in [Ids -> Executions]
        /\ at' \in [Ids -> {"none", "start", "rendered", "enqueuing", "waiting", "recorded"}]
    BY <1>2, StopTyped DEF BeginWriting, TypeOK
  <2> QED BY <1>2, <2>1, <2>2 DEF BeginWriting, TypeOK, files
<1>3. CASE Enqueue(id)
  BY <1>3 DEF Enqueue, TypeOK, files
<1>4. CASE Record(id)
  BY <1>4, SucceedTyped, JobTyped DEF Record, TypeOK, files
<1>5. CASE Complete(id)
  BY <1>5, StopTyped DEF Complete, TypeOK, files
<1>6. CASE WriterDied(id)
  BY <1>6, StopTyped DEF WriterDied, TypeOK, files
<1>7. CASE Unavailable(id)
  BY <1>7, StopTyped, FailureTyped DEF Unavailable, TypeOK, files
<1>8. CASE Replay(id)
  BY <1>8, FailureTyped DEF Replay, TypeOK, files
<1>9. CASE Interrupted(id)
  BY <1>9, StopTyped DEF Interrupted, TypeOK, files
<1>10. CASE LoseFile(id)
  BY <1>10, FailureTyped DEF LoseFile, TypeOK, execution, Maybe
<1> QED
  BY <1>1, <1>2, <1>3, <1>4, <1>5, <1>6, <1>7, <1>8, <1>9, <1>10 DEF Flow

\* The writers.
LEMMA WritingTyped ==
  ASSUME TypeOK, Carried, Relied, NEW w \in Writers, Writing(w) \/ WorkerLost(w)
  PROVE  TypeOK'
<1>0. writer[w] \in Writings /\ Resting \in Writings
  BY DEF TypeOK, Resting, Writings, Maybe
<1>1. ASSUME NEW id \in Ids, Take(w, id)
      PROVE  TypeOK'
  <2>1. Checking(id, engine[id].job) \in Writings
    BY JobTyped DEF Checking, Writings, Maybe
  <2>2. writer' \in [Writers -> Writings]
    BY <1>1, <2>1 DEF Take, TypeOK
  <2> QED BY <1>1, <2>2 DEF Take, TypeOK, execution
<1>2. CASE Check(w)
  <2>1. \A pc \in {"writing", "reading"} : [writer[w] EXCEPT !.pc = pc] \in Writings
    BY <1>0 DEF Writings
  <2>2. writer' \in [Writers -> Writings]
    BY <1>2, <2>1 DEF Check, TypeOK
  <2> QED BY <1>2, <2>2 DEF Check, TypeOK, execution
<1>3. CASE WriteFile(w)
  <2>1. writer[w].id \in Ids /\ writer[w].contents \in Artifacts
    BY <1>3 DEF WriteFile, Carried, Carries
  <2>2. [writer[w] EXCEPT !.pc = "reading"] \in Writings
    BY <1>0 DEF Writings
  <2>3. writer' \in [Writers -> Writings]
    BY <1>3, <2>2 DEF WriteFile, TypeOK
  <2>4. file' \in [Ids -> Maybe(Artifacts)]
    BY <1>3, <2>1 DEF WriteFile, TypeOK, Maybe
  <2> QED BY <1>3, <2>1, <2>3, <2>4 DEF WriteFile, TypeOK, execution
<1>4. CASE ReadBack(w)
  <2>1. writer' \in [Writers -> Writings]
    BY <1>0, <1>4 DEF ReadBack, TypeOK
  <2>2. queue' \in [Ids -> {"none", "offered", "done", "died"}]
    BY <1>4 DEF ReadBack, Answered, Reconciled, TypeOK
  <2>3. ASSUME Reconciled(w)
        PROVE  tx' \in [Operators -> Transactions]
    <3>1. tx[w] \in Transactions /\ NoTransaction \in Transactions
      BY <2>3 DEF Reconciled, TypeOK, NoTransaction, Transactions, Maybe
    <3>2. [tx[w] EXCEPT !.acted = TRUE] \in Transactions
      BY <3>1 DEF Transactions
    <3> QED BY <2>3, <3>1, <3>2 DEF Reconciled, TypeOK
  <2>4. tx' \in [Operators -> Transactions]
    BY <1>4, <2>3 DEF ReadBack, Answered, TypeOK
  <2> QED BY <1>4, <2>1, <2>2, <2>4 DEF ReadBack, TypeOK
<1>5. CASE WorkerLost(w)
  <2>1. writer' \in [Writers -> Writings]
    BY <1>0, <1>5 DEF WorkerLost, TypeOK
  <2> QED BY <1>5, <2>1, FailureTyped DEF WorkerLost, TypeOK, execution
<1> QED BY <1>1, <1>2, <1>3, <1>4, <1>5 DEF Writing

\* The operators.
LEMMA RetainedTyped ==
  ASSUME TypeOK, Submitted, Settled, OutcomesAgree, NEW id \in Ids, NEW o,
         row[id].status = "succeeded"
  PROVE  /\ row[id].artifact \in Artifacts
         /\ row[id].artifact = engine[id].job
         /\ RetainedJob(o, id) \in Artifacts
<1>1. row[id].artifact = engine[id].job /\ engine[id].job # None
  BY DEF OutcomesAgree, Settled
<1>2. row[id].artifact \in Artifacts
  BY <1>1, JobTyped DEF Maybe
<1>3. row[id].request \in Requests
  BY DEF Submitted
<1>4. RetainedJob(o, id) \in Artifacts
  BY <1>2, <1>3 DEF RetainedJob, makeReportExportJob, Artifacts
<1> QED BY <1>1, <1>2, <1>4

LEMMA BeginTyped ==
  ASSUME TypeOK, Submitted, Settled, OutcomesAgree,
         NEW o \in Operators, NEW kind \in Kinds, NEW id \in Ids, Begin(o, kind, id)
  PROVE  TypeOK'
<1>1. [kind |-> kind, id |-> id, acted |-> FALSE, stale |-> FALSE] \in Transactions
  BY DEF Transactions, Maybe
<1>2. tx' \in [Operators -> Transactions]
  BY <1>1 DEF Begin, TypeOK
<1>3. CASE kind = "reconcile"
  <2>1. row[id].status = "succeeded"
    BY <1>3 DEF Begin, Admits
  <2>2. Checking(id, RetainedJob(o, id)) \in Writings
    BY <2>1, RetainedTyped DEF Checking, Writings, Maybe
  <2>3. writer' \in [Writers -> Writings]
    BY <1>3, <2>2 DEF Begin, TypeOK
  <2> QED BY <1>2, <2>3 DEF Begin, TypeOK, execution
<1>4. CASE kind # "reconcile"
  BY <1>2, <1>4 DEF Begin, TypeOK, execution
<1> QED BY <1>3, <1>4

LEMMA CommandTyped ==
  ASSUME TypeOK, Relied, NEW o \in Operators, Command(o)
  PROVE  TypeOK'
<1>0. tx[o] \in Transactions /\ NoTransaction \in Transactions
  BY DEF TypeOK, NoTransaction, Transactions, Maybe
<1>1. [tx[o] EXCEPT !.acted = TRUE] \in Transactions
  BY <1>0 DEF Transactions
<1>2. ASSUME NEW kind \in Kinds, Acts(o, kind)
      PROVE  tx' \in [Operators -> Transactions] /\ tx[o].id \in Ids
  <2>1. tx' \in [Operators -> Transactions]
    BY <1>1, <1>2 DEF Acts, TypeOK
  <2>2. kind # None
    BY DEF Kinds
  <2> QED BY <1>2, <2>1, <2>2 DEF Acts, Relied, Relies
<1>3. CASE ResumeEngine(o)
  <2>1. tx' \in [Operators -> Transactions] /\ tx[o].id \in Ids
    BY <1>2, <1>3 DEF ResumeEngine, Kinds
  <2>2. engine[tx[o].id] \in Executions
    BY <2>1 DEF TypeOK
  <2>3. [engine[tx[o].id] EXCEPT !.state = "running"] \in Executions
    BY <2>2 DEF Executions
  <2>4. engine' \in [Ids -> Executions]
    BY <1>3, <2>3 DEF ResumeEngine, TypeOK
  <2> QED BY <1>3, <2>1, <2>4 DEF ResumeEngine, Acts, TypeOK, files
<1>4. CASE ReleaseEngine(o)
  BY <1>2, <1>4 DEF ReleaseEngine, Acts, TypeOK, files, Kinds, Maybe
<1>5. CASE InterruptEngine(o)
  BY <1>2, <1>5 DEF InterruptEngine, Acts, TypeOK, files, Kinds
<1>6. CASE Commit(o)
  <2>1. tx[o].kind \in Kinds /\ tx[o].id \in Ids
    BY <1>0, <1>6 DEF Commit, Relied, Relies, Transactions, Maybe
  <2>2. \A t \in Transactions : Outdated(t) \in Transactions
    BY DEF Outdated, Transactions
  <2>3. tx' \in [Operators -> Transactions]
    BY <1>0, <1>6, <2>2 DEF Commit, TypeOK
  <2>4. row[tx[o].id] \in Rows
    BY <2>1 DEF TypeOK
  <2>5. [row[tx[o].id] EXCEPT !.status = "cancelled"] \in Rows
    BY <2>4 DEF Rows, Statuses
  <2>6. row' \in [Ids -> Rows]
    BY <1>6, <2>5 DEF Commit, TypeOK
  <2>7. audit' \subseteq Kinds \X Ids
    BY <1>6, <2>1 DEF Commit, TypeOK
  <2> QED BY <1>6, <2>3, <2>6, <2>7 DEF Commit, TypeOK, execution, files
<1>7. CASE Abort(o)
  <2>1. Resting \in Writings
    BY DEF Resting, Writings, Maybe
  <2>2. tx' \in [Operators -> Transactions] /\ writer' \in [Writers -> Writings]
    BY <1>0, <1>7, <2>1 DEF Abort, TypeOK
  <2>3. faults' \in 0..MaxFaults
    BY <1>7, FailureTyped DEF Abort, TypeOK
  <2> QED BY <1>7, <2>2, <2>3 DEF Abort, TypeOK, execution
<1> QED BY <1>3, <1>4, <1>5, <1>6, <1>7 DEF Command

LEMMA PollTyped ==
  ASSUME TypeOK, Relied, Poll
  PROVE  TypeOK'
<1>0. poller \in Polls /\ NotPolling \in Polls
  BY DEF TypeOK, NotPolling, Polls, Maybe
<1>1. ASSUME NEW id \in Ids, PollFind(id)
      PROVE  TypeOK'
  <2>1. poller' \in Polls
    BY <1>1 DEF PollFind, NotPolling, Polls, Maybe
  <2> QED BY <1>1, <2>1 DEF PollFind, TypeOK, execution, files
<1>2. CASE PollEngine
  <2>1. Outcome(poller.id) \in {"none", "failed", "succeeded"}
    BY DEF Outcome
  <2>2. poller' \in Polls
    BY <1>0, <1>2, <2>1 DEF PollEngine, Polls
  <2> QED BY <1>2, <2>2 DEF PollEngine, TypeOK, execution, files
<1>3. CASE PollSettle
  <2>1. poller.id \in Ids
    BY <1>3 DEF PollSettle, Relied, Relies
  <2>2. row' \in [Ids -> Rows] /\ tx' \in [Operators -> Transactions]
    BY <1>3, <2>1, UpdateTyped, SucceedTyped, JobTyped DEF PollSettle, fail, Statuses
  <2> QED BY <1>0, <1>3, <2>2 DEF PollSettle, TypeOK, execution, files
<1> QED BY <1>1, <1>2, <1>3 DEF Poll

LEMMA Typed ==
  ASSUME IInv, [Next]_vars
  PROVE  TypeOK'
<1>1. CASE Next
  BY <1>1, AcceptingTyped, RelayTyped, FlowTyped, WritingTyped, BeginTyped, CommandTyped,
     PollTyped
  DEF Next, IInv
<1>2. CASE UNCHANGED vars
  BY <1>2 DEF IInv, TypeOK, vars
<1> QED BY <1>1, <1>2

------------------------------------------------------------------------------
(* What a step may do to the row of an export. *)

RowStep(id) ==
  \/ row'[id] = row[id]
  \/ /\ row[id] = NoRow
     /\ row'[id].status = "accepted" /\ row'[id].request \in Requests
  \/ /\ row'[id].request = row[id].request
     /\ \/ row[id].status = "accepted" /\ row'[id].status = "dispatched"
        \/ /\ Writable(id) /\ Running(id, "rendered")
           /\ row'[id].status = "writing"
        \/ /\ row[id].status = "writing" /\ Running(id, "waiting") /\ queue[id] = "done"
           /\ row'[id].status = "succeeded" /\ row'[id].artifact = engine[id].job
        \/ /\ row[id].status \notin {"absent", "succeeded", "cancelled"}
           /\ engine[id].state = "interrupted"
           /\ row'[id].status = "failed"
        \/ /\ row[id].status \in {"accepted", "dispatched", "cancelled"}
           /\ row'[id].status = "cancelled"

LEMMA UpdateRow ==
  ASSUME TypeOK, NEW id \in Ids, NEW from, NEW to \in Statuses, Update(id, from, to)
  PROVE  /\ \A j \in Ids : j # id => row'[j] = row[j]
         /\ row[id].status \in from =>
              row'[id].status = to /\ row'[id].request = row[id].request
         /\ row[id].status \notin from => row'[id] = row[id]
<1>1. row[id] \in Rows /\ row \in [Ids -> Rows]
  BY DEF TypeOK
<1>2. /\ [row[id] EXCEPT !.status = to].status = to
      /\ [row[id] EXCEPT !.status = to].request = row[id].request
  BY <1>1 DEF Rows
<1> QED BY <1>1, <1>2 DEF Update, Put

LEMMA AcceptRow ==
  ASSUME TypeOK, NEW id \in Ids, NEW request \in Requests, accept(id, request)
  PROVE  \A j \in Ids : RowStep(j)
<1> DEFINE new == [NoRow EXCEPT !.status = "accepted", !.request = request]
<1>1. new.status = "accepted" /\ new.request = request
  BY DEF NoRow
<1>2. row' = row \/ (Put(id, new) /\ row[id] = NoRow)
  BY Zenon DEF accept
<1> HIDE DEF new
<1>3. \A j \in Ids : row'[j] = row[j] \/ (row'[j] = new /\ row[j] = NoRow)
  BY <1>2 DEF Put, TypeOK
<1> QED BY <1>1, <1>3 DEF RowStep

LEMMA SucceedRow ==
  ASSUME TypeOK, NEW id \in Ids, NEW job, succeed(id, job)
  PROVE  /\ \A j \in Ids : j # id => row'[j] = row[j]
         /\ row'[id] # row[id] =>
              /\ row[id].status = "writing"
              /\ row'[id].status = "succeeded" /\ row'[id].artifact = job
              /\ row'[id].request = row[id].request
<1> DEFINE new == [row[id] EXCEPT !.status = "succeeded", !.artifact = job]
<1>1. row[id] \in Rows /\ row \in [Ids -> Rows]
  BY DEF TypeOK
<1>2. new.status = "succeeded" /\ new.artifact = job /\ new.request = row[id].request
  BY <1>1 DEF Rows
<1>3. row' = row \/ (Put(id, new) /\ row[id].status = "writing")
  BY Zenon DEF succeed
<1> HIDE DEF new
<1> QED BY <1>1, <1>2, <1>3 DEF Put

LEMMA RowSteps ==
  ASSUME IInv, Next
  PROVE  \A id \in Ids : RowStep(id)
<1>0. TypeOK
  BY DEF IInv
<1>1. CASE UNCHANGED row
  BY <1>1 DEF RowStep
<1>2. CASE Accepting
  BY <1>0, <1>1, <1>2, AcceptRow
  DEF Accepting, GenerateDiscard, Generate, Execute, Abandon
<1>3. ASSUME NEW r \in Relays, Mark(r)
      PROVE  \A id \in Ids : RowStep(id)
  <2>1. relay[r] \in Scans
    BY <1>0 DEF TypeOK
  <2>2. relay[r].sent \in Ids
    BY <1>3, <2>1 DEF Mark, Scans, Maybe
  <2> QED BY <1>0, <1>3, <2>2, UpdateRow DEF Mark, markDispatched, Statuses, RowStep
<1>4. ASSUME NEW id \in Ids, BeginWriting(id)
      PROVE  \A j \in Ids : RowStep(j)
  BY <1>0, <1>4, UpdateRow DEF BeginWriting, Statuses, RowStep, Writable
<1>5. ASSUME NEW id \in Ids, Record(id)
      PROVE  \A j \in Ids : RowStep(j)
  BY <1>0, <1>5, SucceedRow DEF Record, RowStep
<1>6. ASSUME NEW o \in Operators, Commit(o)
      PROVE  \A id \in Ids : RowStep(id)
  <2>1. CASE tx[o].kind = "cancel"
    <3>1. /\ tx[o].id \in Ids
          /\ row[tx[o].id].status \in {"accepted", "dispatched", "cancelled"}
      BY <2>1 DEF IInv, Relied, Relies
    <3>2. row[tx[o].id] \in Rows
      BY <1>0, <3>1 DEF TypeOK
    <3>3. /\ [row[tx[o].id] EXCEPT !.status = "cancelled"].status = "cancelled"
          /\ [row[tx[o].id] EXCEPT !.status = "cancelled"].request = row[tx[o].id].request
      BY <3>2 DEF Rows
    <3>4. row' = [row EXCEPT ![tx[o].id] = [row[tx[o].id] EXCEPT !.status = "cancelled"]]
      BY <1>6, <2>1 DEF Commit
    <3> QED BY <1>0, <3>1, <3>3, <3>4 DEF TypeOK, RowStep
  <2>2. CASE tx[o].kind # "cancel"
    BY <1>1, <1>6, <2>2 DEF Commit
  <2> QED BY <2>1, <2>2
<1>7. CASE PollSettle
  <2>1. poller.id \in Ids
    BY <1>7 DEF PollSettle, IInv, Relied, Relies
  <2>2. CASE poller.verdict = "failed" /\ fail(poller.id)
    <3>1. engine[poller.id].state = "interrupted"
      BY <2>2 DEF IInv, Relied, Relies
    <3> QED BY <1>0, <2>1, <2>2, <3>1, UpdateRow DEF fail, Statuses, RowStep
  <2>3. CASE poller.verdict = "succeeded" /\ succeed(poller.id, engine[poller.id].job)
    <3>1. row[poller.id].status = "succeeded"
      BY <2>1, <2>3 DEF IInv, Relied, Relies, OutcomesAgree
    <3> QED BY <1>1, <2>3, <3>1 DEF succeed
  <2> QED BY <1>7, <2>2, <2>3 DEF PollSettle
<1> QED
  BY <1>1, <1>2, <1>3, <1>4, <1>5, <1>6, <1>7
  DEF Next, Relay, Scan, Dispatch, DispatchFails, Flow, Render, Enqueue, Complete,
      WriterDied, Unavailable, Replay, Interrupted, LoseFile, Writing, Take, Check,
      WriteFile, ReadBack, WorkerLost, Command, ResumeEngine, ReleaseEngine,
      InterruptEngine, Acts, Abort, Begin, Poll, PollFind, PollEngine

------------------------------------------------------------------------------
(* What a step may do to an execution, its job and its file. *)

Past == {"rendered", "enqueuing", "waiting", "recorded"}

EngineStep(id) ==
  /\ engine[id].state # "none" =>
       engine'[id].state # "none" /\ engine'[id].request = engine[id].request
  /\ engine'[id].state # "none" => engine'[id].request \in Requests
  /\ engine'[id].state = "none" => engine'[id] = engine[id]
  /\ engine[id].job # None => engine'[id].job = engine[id].job
  /\ engine'[id].job # None => engine'[id].job.request = engine'[id].request
  /\ engine[id].state \in {"interrupted", "succeeded"} =>
       engine'[id].state = engine[id].state
  /\ engine'[id].state = "succeeded" =>
       engine[id].state = "succeeded" \/ at[id] = "recorded"

BodyStep(id) ==
  /\ at'[id] # "none" => engine'[id].state = "running"
  /\ at'[id] \in Past => engine'[id].job # None
  /\ at'[id] = "enqueuing" => at[id] = "enqueuing" \/ row'[id].status = "writing"
  /\ at'[id] = "waiting" => at[id] \in {"enqueuing", "waiting"}
  /\ at'[id] = "recorded" => at[id] = "recorded" \/ row'[id].status = "succeeded"

LEMMA EngineKept ==
  ASSUME IInv, NEW id \in Ids, engine'[id] = engine[id]
  PROVE  EngineStep(id)
BY DEF IInv, Submitted, Settled, EngineStep

LEMMA BodyKept ==
  ASSUME IInv, NEW id \in Ids, engine'[id] = engine[id], at'[id] = at[id]
  PROVE  BodyStep(id)
BY DEF IInv, Settled, BodyStep, Past

LEMMA StartSteps ==
  ASSUME IInv, NEW id \in Ids, NEW request \in Requests, Start(id, request)
  PROVE  \A j \in Ids : EngineStep(j) /\ BodyStep(j)
<1> DEFINE new == [NotStarted EXCEPT !.state = "running", !.request = request]
<1>1. new.state = "running" /\ new.request = request /\ new.job = None
  BY DEF NotStarted
<1>2. \/ UNCHANGED <<engine, at>>
      \/ /\ engine[id].state = "none"
         /\ engine' = [engine EXCEPT ![id] = new]
         /\ at' = [at EXCEPT ![id] = "start"]
  BY Zenon DEF Start
<1> HIDE DEF new
<1>3. \A j \in Ids :
        \/ engine'[j] = engine[j] /\ at'[j] = at[j]
        \/ j = id /\ engine[id].state = "none" /\ engine'[id] = new /\ at'[id] = "start"
  BY <1>2 DEF IInv, TypeOK
<1>4. engine[id].state = "none" => engine[id].job = None
  BY DEF IInv, Settled
<1>5. ASSUME engine[id].state = "none", engine'[id] = new, at'[id] = "start"
      PROVE  EngineStep(id) /\ BodyStep(id)
  BY <1>1, <1>4, <1>5 DEF EngineStep, BodyStep, Past
<1> QED BY <1>3, <1>5, EngineKept, BodyKept

LEMMA StopSteps ==
  ASSUME IInv, NEW id \in Ids, NEW state, Stop(id, state),
         engine[id].state \in {"running", "suspended"},
         state \in {"suspended", "interrupted"} \/ (state = "succeeded" /\ at[id] = "recorded")
  PROVE  \A j \in Ids : EngineStep(j) /\ BodyStep(j)
<1>1. engine[id] \in Executions /\ engine \in [Ids -> Executions]
  BY DEF IInv, TypeOK
<1>2. /\ engine'[id].state = state
      /\ engine'[id].request = engine[id].request
      /\ engine'[id].job = engine[id].job
      /\ at'[id] = "none"
  BY <1>1 DEF Stop, Executions, IInv, TypeOK
<1>3. \A j \in Ids : j # id => engine'[j] = engine[j] /\ at'[j] = at[j]
  BY <1>1 DEF Stop, IInv, TypeOK
<1>4. EngineStep(id) /\ BodyStep(id)
  BY <1>2 DEF EngineStep, BodyStep, Past, IInv, Submitted, Settled
<1> QED BY <1>3, <1>4, EngineKept, BodyKept

LEMMA EngineSteps ==
  ASSUME IInv, Next
  PROVE  \A id \in Ids : EngineStep(id) /\ BodyStep(id)
<1>0. TypeOK
  BY DEF IInv
<1>1. CASE UNCHANGED <<engine, at>>
  BY <1>1, EngineKept, BodyKept
<1>2. ASSUME NEW id \in Ids, NEW request \in Requests, Execute(id, request)
      PROVE  \A j \in Ids : EngineStep(j) /\ BodyStep(j)
  BY <1>2, StartSteps DEF Execute
<1>3. ASSUME NEW r \in Relays, NEW id \in Ids, Dispatch(r, id)
      PROVE  \A j \in Ids : EngineStep(j) /\ BodyStep(j)
  <2>1. row[id].request \in Requests
    BY <1>3 DEF Dispatch, IInv, Submitted
  <2> QED BY <1>3, <2>1, StartSteps DEF Dispatch
<1>4. ASSUME NEW id \in Ids, Render(id)
      PROVE  \A j \in Ids : EngineStep(j) /\ BodyStep(j)
  <2> DEFINE made == makeReportExportJob(engine[id].request,
                IF engine[id].request \in NeedsApproval THEN released[id] ELSE None)
  <2>1. /\ engine[id].state = "running" /\ engine[id].request \in Requests
        /\ released[id] \in Maybe(Operators) /\ engine[id] \in Executions
    BY <1>0, <1>4 DEF Render, Running, IInv, Submitted, TypeOK
  <2>2. made \in Artifacts /\ made.request = engine[id].request
    BY <2>1 DEF Artifacts, Maybe, makeReportExportJob
  <2>3. engine' = [engine EXCEPT ![id] =
                     [engine[id] EXCEPT !.job = IF @ # None THEN @ ELSE made]]
    BY <1>0, <1>4 DEF Render, TypeOK
  <2> HIDE DEF made
  <2>4. /\ engine'[id].state = "running" /\ engine'[id].request = engine[id].request
        /\ engine'[id].job = IF engine[id].job # None THEN engine[id].job ELSE made
    BY <1>0, <2>1, <2>3 DEF Executions, TypeOK
  <2>5. at'[id] = "rendered" /\ \A j \in Ids : j # id => at'[j] = at[j]
    BY <1>0, <1>4 DEF Render, TypeOK
  <2>6. \A j \in Ids : j # id => engine'[j] = engine[j]
    BY <1>0, <2>3 DEF TypeOK
  <2>7. EngineStep(id) /\ BodyStep(id)
    <3>1. made # None
      BY <2>2 DEF Artifacts
    <3> QED BY <2>1, <2>2, <2>4, <2>5, <3>1 DEF EngineStep, BodyStep, Past, IInv, Settled
  <2> QED BY <2>5, <2>6, <2>7, EngineKept, BodyKept
<1>5. ASSUME NEW id \in Ids, BeginWriting(id)
      PROVE  \A j \in Ids : EngineStep(j) /\ BodyStep(j)
  <2>1. CASE Writable(id)
    <3>1. row'[id].status = "writing"
      BY <1>0, <1>5, <2>1, UpdateRow DEF BeginWriting, Writable, Statuses
    <3>2. /\ UNCHANGED engine /\ Running(id, "rendered")
          /\ at'[id] = "enqueuing" /\ \A j \in Ids : j # id => at'[j] = at[j]
      BY <1>0, <1>5, <2>1 DEF BeginWriting, TypeOK
    <3>3. BodyStep(id)
      BY <3>1, <3>2 DEF BodyStep, Past, Running, IInv, Settled
    <3> QED BY <3>2, <3>3, EngineKept, BodyKept
  <2>2. CASE ~Writable(id)
    BY <1>5, <2>2, StopSteps DEF BeginWriting, Running
  <2> QED BY <2>1, <2>2
<1>6. ASSUME NEW id \in Ids, Enqueue(id)
      PROVE  \A j \in Ids : EngineStep(j) /\ BodyStep(j)
  <2>1. /\ UNCHANGED engine /\ Running(id, "enqueuing")
        /\ at'[id] = "waiting" /\ \A j \in Ids : j # id => at'[j] = at[j]
    BY <1>0, <1>6 DEF Enqueue, TypeOK
  <2>2. BodyStep(id)
    BY <2>1 DEF BodyStep, Past, Running, IInv, Settled
  <2> QED BY <2>1, <2>2, EngineKept, BodyKept
<1>7. ASSUME NEW id \in Ids, Record(id)
      PROVE  \A j \in Ids : EngineStep(j) /\ BodyStep(j)
  <2>1. /\ UNCHANGED engine /\ Running(id, "waiting")
        /\ at'[id] = "recorded" /\ \A j \in Ids : j # id => at'[j] = at[j]
    BY <1>0, <1>7 DEF Record, TypeOK
  <2>2. row[id].status \in {"writing", "succeeded"}
    BY <2>1 DEF Running, IInv, Underway, Begun, Settled
  <2>3. row'[id].status = "succeeded"
    <3>1. CASE row[id].status = "writing"
      <4>1. row[id] \in Rows
        BY <1>0 DEF TypeOK
      <4>2. [row[id] EXCEPT !.status = "succeeded", !.artifact = engine[id].job].status
              = "succeeded"
        BY <4>1 DEF Rows
      <4>3. row' = [row EXCEPT ![id] = [row[id] EXCEPT !.status = "succeeded",
                                                      !.artifact = engine[id].job]]
        BY <1>7, <3>1, Zenon DEF Record, succeed, Put
      <4> QED BY <1>0, <4>2, <4>3 DEF TypeOK
    <3>2. CASE row[id].status = "succeeded"
      BY <1>7, <3>2 DEF Record, succeed
    <3> QED BY <2>2, <3>1, <3>2
  <2>4. BodyStep(id)
    BY <2>1, <2>3 DEF BodyStep, Past, Running, IInv, Settled
  <2> QED BY <2>1, <2>4, EngineKept, BodyKept
<1>8. ASSUME NEW id \in Ids,
             Complete(id) \/ WriterDied(id) \/ Unavailable(id) \/ Interrupted(id)
      PROVE  \A j \in Ids : EngineStep(j) /\ BodyStep(j)
  <2>1. CASE Complete(id)
    BY <2>1, StopSteps DEF Complete, Running
  <2>2. CASE WriterDied(id)
    BY <2>2, StopSteps DEF WriterDied, Running
  <2>3. CASE Unavailable(id)
    BY <2>3, StopSteps DEF Unavailable
  <2>4. CASE Interrupted(id)
    BY <2>4, StopSteps DEF Interrupted
  <2> QED BY <1>8, <2>1, <2>2, <2>3, <2>4
<1>9. ASSUME NEW id \in Ids, Replay(id)
      PROVE  \A j \in Ids : EngineStep(j) /\ BodyStep(j)
  <2>1. /\ UNCHANGED engine /\ engine[id].state = "running"
        /\ at'[id] = "start" /\ \A j \in Ids : j # id => at'[j] = at[j]
    BY <1>0, <1>9 DEF Replay, TypeOK
  <2>2. BodyStep(id)
    BY <2>1 DEF BodyStep, Past
  <2> QED BY <2>1, <2>2, EngineKept, BodyKept
<1>10. ASSUME NEW o \in Operators, ResumeEngine(o)
       PROVE  \A j \in Ids : EngineStep(j) /\ BodyStep(j)
  <2> DEFINE id == tx[o].id
  <2>1. id \in Ids
    BY <1>10 DEF ResumeEngine, Acts, IInv, Relied, Relies, Kinds
  <2> HIDE DEF id
  <2>2. CASE engine[id].state = "suspended"
    <3>0. engine[id] \in Executions
      BY <1>0, <2>1 DEF TypeOK
    <3>1. /\ engine' = [engine EXCEPT ![id].state = "running"]
          /\ at' = [at EXCEPT ![id] = "start"]
      BY <1>10, <2>2 DEF ResumeEngine, id
    <3>2. /\ engine'[id].state = "running" /\ engine'[id].request = engine[id].request
          /\ engine'[id].job = engine[id].job /\ at'[id] = "start"
      BY <1>0, <2>1, <3>0, <3>1 DEF TypeOK, Executions
    <3>3. \A j \in Ids : j # id => engine'[j] = engine[j] /\ at'[j] = at[j]
      BY <1>0, <3>1 DEF TypeOK
    <3>4. EngineStep(id) /\ BodyStep(id)
      BY <2>1, <2>2, <3>2 DEF EngineStep, BodyStep, Past, IInv, Submitted, Settled
    <3> QED BY <3>3, <3>4, EngineKept, BodyKept
  <2>3. CASE engine[id].state # "suspended"
    BY <1>1, <1>10, <2>3 DEF ResumeEngine, id
  <2> QED BY <2>2, <2>3
<1> QED
  BY <1>1, <1>2, <1>3, <1>4, <1>5, <1>6, <1>7, <1>8, <1>9, <1>10
  DEF Next, Accepting, GenerateDiscard, Generate, Abandon, Relay, Scan, Mark,
      DispatchFails, Flow, LoseFile, Writing, Take, Check, WriteFile, ReadBack,
      WorkerLost, Command, ReleaseEngine, InterruptEngine, Commit, Acts, Abort, Begin,
      Poll, PollFind, PollEngine, PollSettle, execution

QueueStep(id) ==
  \/ queue'[id] = queue[id]
  \/ queue[id] = "none" /\ at[id] = "enqueuing" /\ queue'[id] = "offered"
  \/ /\ queue[id] = "offered" /\ queue'[id] # "none"
     /\ queue'[id] = "done" => id \in written

LEMMA QueueSteps ==
  ASSUME IInv, Next
  PROVE  \A id \in Ids : QueueStep(id)
<1>0. TypeOK
  BY DEF IInv
<1>1. CASE UNCHANGED queue
  BY <1>1 DEF QueueStep
<1>2. ASSUME NEW id \in Ids, Enqueue(id)
      PROVE  \A j \in Ids : QueueStep(j)
  BY <1>0, <1>2 DEF Enqueue, Running, TypeOK, QueueStep
<1>3. ASSUME NEW w \in Writers, ReadBack(w)
      PROVE  \A j \in Ids : QueueStep(j)
  <2> DEFINE id == writer[w].id
  <2>1. id \in Ids /\ id \in written
    BY <1>3 DEF ReadBack, IInv, Carried, Carries
  <2> HIDE DEF id
  <2>2. CASE Answered(w)
    <3>1. PICK answer \in {"done", "offered", "died"} :
            queue' = [queue EXCEPT ![id] = IF @ = "offered" THEN answer ELSE @]
      BY <2>2 DEF Answered, id
    <3> QED BY <1>0, <2>1, <3>1 DEF TypeOK, QueueStep
  <2>3. CASE Reconciled(w)
    BY <1>1, <2>3 DEF Reconciled
  <2> QED BY <1>3, <2>2, <2>3 DEF ReadBack
<1> QED
  BY <1>1, <1>2, <1>3
  DEF Next, Accepting, GenerateDiscard, Generate, Execute, Abandon, Relay, Scan, Dispatch,
      Mark, DispatchFails, Flow, Render, BeginWriting, Record, Complete, WriterDied,
      Unavailable, Replay, Interrupted, LoseFile, Writing, Take, Check, WriteFile,
      WorkerLost, Command, ResumeEngine, ReleaseEngine, InterruptEngine, Commit, Acts,
      Abort, Begin, Poll, PollFind, PollEngine, PollSettle, execution

\* w is about to write the file of id.
Holding(w, id) == writer[w].pc = "writing" /\ writer[w].id = id

FileStep(id) ==
  /\ \/ file'[id] \in {file[id], None}
     \/ \E w \in Writers :
          Holding(w, id) /\ file'[id] = writer[w].contents /\ id \in written'
  /\ id \in written => id \in written'
  /\ id \in written' => id \in written \/ \E w \in Writers : Holding(w, id)

LEMMA FileSteps ==
  ASSUME IInv, Next
  PROVE  \A id \in Ids : FileStep(id)
<1>0. TypeOK
  BY DEF IInv
<1>1. CASE UNCHANGED <<file, written>>
  BY <1>1 DEF FileStep
<1>2. ASSUME NEW w \in Writers, WriteFile(w)
      PROVE  \A id \in Ids : FileStep(id)
  BY <1>0, <1>2 DEF WriteFile, TypeOK, FileStep, Holding
<1>3. ASSUME NEW id \in Ids, LoseFile(id)
      PROVE  \A j \in Ids : FileStep(j)
  BY <1>0, <1>3 DEF LoseFile, TypeOK, FileStep
<1> QED
  BY <1>1, <1>2, <1>3
  DEF Next, Accepting, GenerateDiscard, Generate, Execute, Abandon, Relay, Scan, Dispatch,
      Mark, DispatchFails, Flow, Render, BeginWriting, Enqueue, Record, Complete,
      WriterDied, Unavailable, Replay, Interrupted, Writing, Take, Check, ReadBack,
      WorkerLost, Command, ResumeEngine, ReleaseEngine, InterruptEngine, Commit, Acts,
      Abort, Begin, Poll, PollFind, PollEngine, PollSettle, files

------------------------------------------------------------------------------
(* The invariants about one export, from what a step may do to it. *)

LEMMA RowKept ==
  ASSUME IInv, NEW id \in Ids, RowStep(id)
  PROVE  /\ row[id].status # "absent" =>
              row'[id].status # "absent" /\ row'[id].request = row[id].request
         /\ row[id].status = "succeeded" => row'[id] = row[id]
         /\ row[id].status = "cancelled" => row'[id].status = "cancelled"
         /\ Begun(id) => row'[id].status \in {"writing", "succeeded", "failed"}
         /\ row'[id].status = "absent" => row'[id] = row[id]
BY DEF RowStep, Begun, Writable, NoRow, IInv, Submitted

LEMMA SubmittedKept ==
  ASSUME IInv, Next
  PROVE  Submitted'
<1> SUFFICES ASSUME NEW id \in Ids
             PROVE  /\ row'[id].status # "absent" => row'[id].request \in Requests
                    /\ row'[id].status = "absent" => row'[id] = NoRow
                    /\ engine'[id].state # "none" => engine'[id].request \in Requests
                    /\ \A r \in Relays : id \in relay'[r].todo => row'[id].status # "absent"
  BY DEF Submitted
<1>0. TypeOK /\ \A r \in Relays : relay[r] \in Scans
  BY DEF IInv, TypeOK
<1>1. RowStep(id) /\ EngineStep(id)
  BY RowSteps, EngineSteps
<1>2. row'[id].status # "absent" => row'[id].request \in Requests
  BY <1>1 DEF RowStep, Writable, IInv, Submitted
<1>3. row'[id].status = "absent" => row'[id] = NoRow
  BY <1>1, RowKept DEF IInv, Submitted
<1>4. engine'[id].state # "none" => engine'[id].request \in Requests
  BY <1>1 DEF EngineStep
<1>5. ASSUME NEW r \in Relays, id \in relay'[r].todo
      PROVE  row[id].status # "absent"
  <2>1. CASE UNCHANGED relay
    BY <1>5, <2>1 DEF IInv, Submitted
  <2>2. ASSUME NEW q \in Relays, Scan(q)
        PROVE  row[id].status # "absent"
    BY <1>0, <1>5, <2>2 DEF Scan, Scanned, TypeOK, IInv, Submitted
  <2>3. ASSUME NEW q \in Relays, NEW j \in Ids, Dispatch(q, j)
        PROVE  row[id].status # "absent"
    BY <1>0, <1>5, <2>3 DEF Dispatch, TypeOK, IInv, Submitted
  <2>4. ASSUME NEW q \in Relays, Mark(q)
        PROVE  row[id].status # "absent"
    <3>1. [relay[q] EXCEPT !.sent = None].todo = relay[q].todo
      BY <1>0 DEF Scans
    <3> QED BY <1>0, <1>5, <2>4, <3>1 DEF Mark, TypeOK, IInv, Submitted
  <2>5. ASSUME NEW q \in Relays, DispatchFails(q)
        PROVE  row[id].status # "absent"
    <3>1. PICK todo \in {{}, relay[q].todo} \cup {relay[q].todo \ {j} : j \in Ids} :
            relay' = [relay EXCEPT ![q] = Scanned(todo)]
      BY <2>5 DEF DispatchFails
    <3>2. todo \subseteq relay[q].todo
      BY <3>1
    <3>3. relay'[r].todo \subseteq relay[r].todo
      BY <1>0, <3>1, <3>2 DEF Scanned, TypeOK
    <3> QED BY <1>5, <3>3 DEF IInv, Submitted
  <2> QED
    BY <2>1, <2>2, <2>3, <2>4, <2>5
    DEF Next, Accepting, GenerateDiscard, Generate, Execute, Abandon, Relay,
        Flow, Render, BeginWriting, Enqueue, Record, Complete, WriterDied, Unavailable,
        Replay, Interrupted, LoseFile, Writing, Take, Check, WriteFile, ReadBack,
        WorkerLost, Command, ResumeEngine, ReleaseEngine, InterruptEngine, Commit, Acts,
        Abort, Begin, Poll, PollFind, PollEngine, PollSettle
<1> QED BY <1>1, <1>2, <1>3, <1>4, <1>5, RowKept

LEMMA UnderwayKept ==
  ASSUME IInv, Next
  PROVE  Underway'
<1> SUFFICES ASSUME NEW id \in Ids
             PROVE  /\ at'[id] \in {"enqueuing", "waiting", "recorded"} => Begun(id)'
                    /\ queue'[id] # "none" => Begun(id)' /\ engine'[id].job # None
                    /\ file'[id] # None => id \in written'
                    /\ id \in written' => Begun(id)'
                    /\ queue'[id] = "done" => id \in written'
  BY DEF Underway
<1>1. /\ RowStep(id) /\ EngineStep(id) /\ BodyStep(id)
      /\ QueueStep(id) /\ FileStep(id)
  BY RowSteps, EngineSteps, QueueSteps, FileSteps
<1>2. Begun(id) => Begun(id)'
  BY <1>1, RowKept DEF Begun
<1>3. at'[id] \in {"enqueuing", "waiting", "recorded"} => Begun(id)'
  BY <1>1, <1>2 DEF BodyStep, Begun, IInv, Underway
<1>4. queue'[id] # "none" => Begun(id)' /\ engine'[id].job # None
  <2>1. queue'[id] # "none" => Begun(id) /\ engine[id].job # None
    BY <1>1 DEF QueueStep, IInv, Underway, Settled
  <2> QED BY <1>1, <1>2, <2>1 DEF EngineStep
<1>5. file'[id] # None => id \in written'
  BY <1>1 DEF FileStep, IInv, Underway
<1>6. id \in written' => Begun(id)'
  <2>1. \A w \in Writers : Holding(w, id) => Begun(id)
    BY DEF Holding, IInv, Carried, Carries
  <2> QED BY <1>1, <1>2, <2>1 DEF FileStep, IInv, Underway
<1>7. queue'[id] = "done" => id \in written'
  <2>1. queue'[id] = "done" => queue[id] = "done" \/ id \in written
    BY <1>1 DEF QueueStep
  <2> QED BY <1>1, <2>1 DEF FileStep, IInv, Underway
<1> QED BY <1>3, <1>4, <1>5, <1>6, <1>7

LEMMA SettledKept ==
  ASSUME IInv, Next
  PROVE  Settled'
<1> SUFFICES ASSUME NEW id \in Ids
             PROVE  /\ at'[id] # "none" => engine'[id].state = "running"
                    /\ at'[id] \in Past => engine'[id].job # None
                    /\ engine'[id].state = "none" => engine'[id].job = None
                    /\ engine'[id].job # None => engine'[id].job.request = engine'[id].request
                    /\ at'[id] = "recorded" => row'[id].status = "succeeded"
                    /\ row'[id].status = "failed" => engine'[id].state = "interrupted"
                    /\ row'[id].status = "succeeded" => engine'[id].job # None
  BY DEF Settled, Past
<1>1. RowStep(id) /\ EngineStep(id) /\ BodyStep(id)
  BY RowSteps, EngineSteps
<1>2. engine'[id].state = "none" => engine'[id].job = None
  BY <1>1 DEF EngineStep, IInv, Settled
<1>3. at'[id] = "recorded" => row'[id].status = "succeeded"
  BY <1>1, RowKept DEF BodyStep, IInv, Settled
<1>4. row'[id].status = "failed" => engine'[id].state = "interrupted"
  <2>1. row'[id].status = "failed" => engine[id].state = "interrupted"
    BY <1>1 DEF RowStep, IInv, Settled
  <2> QED BY <1>1, <2>1 DEF EngineStep
<1>5. row'[id].status = "succeeded" => engine'[id].job # None
  <2>1. row'[id].status = "succeeded" => engine[id].job # None
    BY <1>1 DEF RowStep, IInv, Settled, Running
  <2> QED BY <1>1, <2>1 DEF EngineStep
<1> QED BY <1>1, <1>2, <1>3, <1>4, <1>5 DEF EngineStep, BodyStep

LEMMA OutcomesKept ==
  ASSUME IInv, Next
  PROVE  OutcomesAgree'
<1> SUFFICES ASSUME NEW id \in Ids
             PROVE  /\ engine'[id].state = "succeeded" => row'[id].status = "succeeded"
                    /\ row'[id].status = "succeeded" =>
                         row'[id].artifact = engine'[id].job /\ queue'[id] = "done"
  BY DEF OutcomesAgree
<1>1. RowStep(id) /\ EngineStep(id) /\ QueueStep(id)
  BY RowSteps, EngineSteps, QueueSteps
<1>2. engine'[id].state = "succeeded" => row'[id].status = "succeeded"
  BY <1>1, RowKept DEF EngineStep, IInv, Settled, OutcomesAgree
<1>3. row'[id].status = "succeeded" =>
        row'[id].artifact = engine[id].job /\ queue[id] = "done" /\ engine[id].job # None
  BY <1>1 DEF RowStep, IInv, Settled, OutcomesAgree, Running
<1> QED BY <1>1, <1>2, <1>3 DEF EngineStep, QueueStep

\* The deferred keeps its first value, and only a release gives it one.
LEMMA ReleasedKept ==
  ASSUME IInv, Next, NEW id \in Ids, released[id] # None
  PROVE  released'[id] # None
<1>1. CASE UNCHANGED released
  BY <1>1
<1>2. ASSUME NEW o \in Operators, ReleaseEngine(o)
      PROVE  released'[id] # None
  BY <1>2 DEF ReleaseEngine, IInv, TypeOK
<1> QED
  BY <1>1, <1>2
  DEF Next, Accepting, GenerateDiscard, Generate, Execute, Abandon, Relay, Scan, Dispatch,
      Mark, DispatchFails, Flow, Render, BeginWriting, Enqueue, Record, Complete,
      WriterDied, Unavailable, Replay, Interrupted, LoseFile, Writing, Take, Check,
      WriteFile, ReadBack, WorkerLost, Command, ResumeEngine, InterruptEngine, Commit,
      Acts, Abort, Begin, Poll, PollFind, PollEngine, PollSettle, execution

LEMMA AuditKept ==
  ASSUME IInv, Next
  PROVE  AuditTellsTruth'
<1> SUFFICES ASSUME NEW id \in Ids
             PROVE  /\ <<"cancel", id>> \in audit' => row'[id].status = "cancelled"
                    /\ <<"release", id>> \in audit' => released'[id] # None
                    /\ <<"reconcile", id>> \in audit' => row'[id].status = "succeeded"
  BY DEF AuditTellsTruth
<1>0. TypeOK
  BY DEF IInv
<1>1. /\ row[id].status = "cancelled" => row'[id].status = "cancelled"
      /\ row[id].status = "succeeded" => row'[id].status = "succeeded"
      /\ released[id] # None => released'[id] # None
  BY RowSteps, RowKept, ReleasedKept
<1>2. CASE UNCHANGED audit
  BY <1>1, <1>2 DEF IInv, AuditTellsTruth
<1>3. ASSUME NEW o \in Operators, Commit(o)
      PROVE  /\ <<"cancel", id>> \in audit' => row'[id].status = "cancelled"
             /\ <<"release", id>> \in audit' => released'[id] # None
             /\ <<"reconcile", id>> \in audit' => row'[id].status = "succeeded"
  <2>1. audit' = audit \cup {<<tx[o].kind, tx[o].id>>} /\ tx[o].acted
    BY <1>3 DEF Commit
  <2>2. tx[o].id \in Ids
    BY <2>1 DEF IInv, Relied, Relies
  <2>3. ASSUME <<"cancel", id>> = <<tx[o].kind, tx[o].id>>
        PROVE  row'[id].status = "cancelled"
    <3>1. row[id] \in Rows
      BY <1>0 DEF TypeOK
    <3>2. [row[id] EXCEPT !.status = "cancelled"].status = "cancelled"
      BY <3>1 DEF Rows
    <3>3. row' = [row EXCEPT ![id] = [row[id] EXCEPT !.status = "cancelled"]]
      BY <1>3, <2>3 DEF Commit
    <3> QED BY <1>0, <3>2, <3>3 DEF TypeOK
  <2>4. ASSUME <<"release", id>> = <<tx[o].kind, tx[o].id>>
        PROVE  released'[id] # None
    BY <1>1, <2>1, <2>4 DEF IInv, Relied, Relies
  <2>5. ASSUME <<"reconcile", id>> = <<tx[o].kind, tx[o].id>>
        PROVE  row'[id].status = "succeeded"
    BY <1>1, <2>5 DEF IInv, Relied, Relies
  <2> QED BY <1>1, <2>1, <2>3, <2>4, <2>5 DEF IInv, AuditTellsTruth
<1> QED
  BY <1>2, <1>3
  DEF Next, Accepting, GenerateDiscard, Generate, Execute, Abandon, Relay, Scan, Dispatch,
      Mark, DispatchFails, Flow, Render, BeginWriting, Enqueue, Record, Complete,
      WriterDied, Unavailable, Replay, Interrupted, LoseFile, Writing, Take, Check,
      WriteFile, ReadBack, WorkerLost, Command, ResumeEngine, ReleaseEngine,
      InterruptEngine, Acts, Abort, Begin, Poll, PollFind, PollEngine, PollSettle

------------------------------------------------------------------------------
(* What writers carry. *)

LEMMA JobKept ==
  ASSUME IInv, Next, NEW w, NEW id \in Ids, NEW job \in Artifacts,
         job = Job(w, id), Begun(id), w \notin Workers => row[id].status = "succeeded"
  PROVE  /\ job = Job(w, id)' /\ Begun(id)'
         /\ row[id].status = "succeeded" => row'[id].status = "succeeded"
<1>1. RowStep(id) /\ EngineStep(id)
  BY RowSteps, EngineSteps
<1>2. Begun(id)' /\ (row[id].status = "succeeded" => row'[id] = row[id])
  BY <1>1, RowKept DEF Begun
<1>3. CASE w \in Workers
  <2>1. engine[id].job = job /\ job # None
    BY <1>3 DEF Job, Artifacts
  <2> QED BY <1>1, <1>2, <1>3, <2>1 DEF EngineStep, Job
<1>4. CASE w \notin Workers
  BY <1>2, <1>4 DEF Job, RetainedJob
<1> QED BY <1>2, <1>3, <1>4

LEMMA CarriesKept ==
  ASSUME IInv, Next, NEW w \in Writers, writer'[w] = writer[w]
  PROVE  Carries(w)'
<1>1. CASE writer[w].pc = "idle"
  BY <1>1 DEF Carries, IInv, Carried
<1>2. CASE writer[w].pc # "idle"
  <2>1. PICK id \in Ids, job \in Artifacts :
          /\ writer[w].id = id /\ writer[w].contents = job
          /\ job = Job(w, id) /\ Begun(id)
          /\ w \in Operators => row[id].status = "succeeded"
    BY <1>2 DEF Carries, IInv, Carried
  <2>2. w \notin Workers => w \in Operators
    BY DEF Writers
  <2>3. /\ job = Job(w, id)' /\ Begun(id)'
        /\ w \in Operators => row'[id].status = "succeeded"
    BY <2>1, <2>2, JobKept
  <2>4. writer[w].pc = "reading" => id \in written'
    BY <2>1, FileSteps DEF FileStep, Carries, IInv, Carried
  <2> QED BY <1>2, <2>1, <2>3, <2>4 DEF Carries, Job, Begun, RetainedJob
<1> QED BY <1>1, <1>2

\* A writer at rest carries nothing.
LEMMA RestingCarries ==
  ASSUME NEW w \in Writers, writer'[w] = Resting
  PROVE  Carries(w)'
BY DEF Carries, Resting

LEMMA CarriedKept ==
  ASSUME IInv, Next
  PROVE  Carried'
<1>0. TypeOK
  BY DEF IInv
<1>1. \A id \in Ids : file'[id] # None =>
        \/ file'[id] = engine'[id].job
        \/ row'[id].status = "succeeded" /\ file'[id] = RetainedJob(None, id)'
  <2> TAKE id \in Ids
  <2> HAVE file'[id] # None
  <2>1. RowStep(id) /\ EngineStep(id) /\ FileStep(id)
    BY RowSteps, EngineSteps, FileSteps
  <2>2. \/ file'[id] = engine[id].job
        \/ row[id].status = "succeeded" /\ file'[id] = RetainedJob(None, id)
    <3>1. CASE file'[id] = file[id]
      BY <3>1 DEF IInv, Carried
    <3>2. ASSUME NEW w \in Writers, Holding(w, id), file'[id] = writer[w].contents
          PROVE  \/ file'[id] = engine[id].job
                 \/ row[id].status = "succeeded" /\ file'[id] = RetainedJob(None, id)
      BY <3>2 DEF Holding, IInv, Carried, Carries, Job, RetainedJob, Writers
    <3> QED BY <2>1, <3>1, <3>2 DEF FileStep
  <2>3. row[id].status = "succeeded" => row'[id] = row[id]
    BY <2>1, RowKept
  <2> QED BY <2>1, <2>2, <2>3 DEF EngineStep, RetainedJob
<1>2. \A w \in Writers : Carries(w)'
  <2>1. CASE UNCHANGED writer
    BY <2>1, CarriesKept
  <2>2. ASSUME NEW w \in Writers, NEW id \in Ids, Take(w, id)
        PROVE  \A v \in Writers : Carries(v)'
    <3>1. /\ Begun(id) /\ engine[id].job # None
          /\ UNCHANGED <<row, engine>> /\ w \in Workers
          /\ writer'[w] = Checking(id, engine[id].job)
          /\ \A v \in Writers : v # w => writer'[v] = writer[v]
      BY <1>0, <2>2 DEF Take, execution, IInv, Underway, TypeOK
    <3>2. engine[id].job \in Artifacts
      BY <1>0, <3>1, JobTyped DEF Maybe
    <3>3. Carries(w)'
      BY <3>1, <3>2 DEF Carries, Checking, Job, Begun
    <3> QED BY <3>1, <3>3, CarriesKept
  <2>3. ASSUME NEW w \in Writers, Check(w)
        PROVE  \A v \in Writers : Carries(v)'
    <3>1. PICK pc \in {"writing", "reading"} :
            /\ writer' = [writer EXCEPT ![w].pc = pc]
            /\ pc = "reading" => file[writer[w].id] # None
      BY <2>3 DEF Check
    <3>2. writer[w] \in Writings
      BY <1>0 DEF TypeOK
    <3>3. /\ writer'[w].pc = pc /\ writer'[w].id = writer[w].id
          /\ writer'[w].contents = writer[w].contents
          /\ \A v \in Writers : v # w => writer'[v] = writer[v]
      BY <1>0, <3>1, <3>2 DEF TypeOK, Writings
    <3>4. Carries(w)'
      BY <2>3, <3>1, <3>3
      DEF Check, execution, Carries, Job, RetainedJob, Begun, IInv, Carried, Underway
    <3> QED BY <3>3, <3>4, CarriesKept
  <2>4. ASSUME NEW w \in Writers, WriteFile(w)
        PROVE  \A v \in Writers : Carries(v)'
    <3>1. writer[w] \in Writings
      BY <1>0 DEF TypeOK
    <3>2. /\ writer'[w].pc = "reading" /\ writer'[w].id = writer[w].id
          /\ writer'[w].contents = writer[w].contents
          /\ \A v \in Writers : v # w => writer'[v] = writer[v]
      BY <1>0, <2>4, <3>1 DEF WriteFile, TypeOK, Writings
    <3>3. Carries(w)'
      BY <2>4, <3>2
      DEF WriteFile, execution, Carries, Job, RetainedJob, Begun, IInv, Carried
    <3> QED BY <3>2, <3>3, CarriesKept
  <2>5. ASSUME NEW w \in Writers, ReadBack(w) \/ WorkerLost(w) \/ (w \in Operators /\ Abort(w))
        PROVE  \A v \in Writers : Carries(v)'
    <3>1. writer' = [writer EXCEPT ![w] = Resting]
      BY <2>5 DEF ReadBack, WorkerLost, Abort
    <3>2. writer'[w] = Resting /\ \A v \in Writers : v # w => writer'[v] = writer[v]
      BY <1>0, <3>1 DEF TypeOK
    <3> QED BY <3>2, RestingCarries, CarriesKept
  <2>6. ASSUME NEW o \in Operators, NEW kind \in Kinds, NEW id \in Ids, Begin(o, kind, id)
        PROVE  \A v \in Writers : Carries(v)'
    <3>1. CASE kind = "reconcile"
      <4>1. row[id].status = "succeeded" /\ UNCHANGED <<row, engine>>
        BY <2>6, <3>1 DEF Begin, Admits, execution
      <4>2. RetainedJob(o, id) \in Artifacts
        BY <4>1, RetainedTyped DEF IInv
      <4>3. o \in Writers /\ o \notin Workers
        BY DEF Writers
      <4>4. /\ writer'[o] = Checking(id, RetainedJob(o, id))
            /\ \A v \in Writers : v # o => writer'[v] = writer[v]
        BY <1>0, <2>6, <3>1, <4>3 DEF Begin, TypeOK
      <4>5. Carries(o)'
        BY <4>1, <4>2, <4>3, <4>4 DEF Carries, Checking, Job, RetainedJob, Begun
      <4> QED BY <4>4, <4>5, CarriesKept
    <3>2. CASE kind # "reconcile"
      BY <2>1, <2>6, <3>2 DEF Begin
    <3> QED BY <3>1, <3>2
  <2> QED
    BY <2>1, <2>2, <2>3, <2>4, <2>5, <2>6
    DEF Next, Accepting, GenerateDiscard, Generate, Execute, Abandon, Relay, Scan, Dispatch,
        Mark, DispatchFails, Flow, Render, BeginWriting, Enqueue, Record, Complete,
        WriterDied, Unavailable, Replay, Interrupted, LoseFile, Writing, Command,
        ResumeEngine, ReleaseEngine, InterruptEngine, Commit, Acts, Poll, PollFind,
        PollEngine, PollSettle, files, Writers
<1> QED BY <1>1, <1>2 DEF Carried

------------------------------------------------------------------------------
(* What transactions and the poller rely on. *)

TxStep(o) ==
  \/ tx'[o] = NoTransaction /\ writer'[o].pc = "idle"
  \/ /\ tx'[o].kind = tx[o].kind /\ tx'[o].id = tx[o].id /\ tx'[o].acted = tx[o].acted
     /\ writer'[o].pc # "idle" => writer[o].pc # "idle"
  \/ /\ tx'[o].kind = tx[o].kind /\ tx'[o].id = tx[o].id /\ tx[o].kind # None
     /\ writer'[o].pc = "idle"
     /\ tx[o].kind = "release" => released'[tx[o].id] # None
  \/ /\ tx'[o].id \in Ids /\ ~tx'[o].acted
     /\ Admits(tx'[o].kind, tx'[o].id) /\ UNCHANGED row
     /\ tx'[o].kind = "cancel" => Unlocked
     /\ \A p \in Operators : p # o => tx'[p] = tx[p]
     /\ writer'[o].pc # "idle" => tx'[o].kind = "reconcile"

\* A step that at most makes transactions outdated.
LEMMA OnlyOutdated ==
  ASSUME TypeOK, NEW o \in Operators, tx'[o] \in {tx[o], Outdated(tx[o])},
         writer'[o].pc # "idle" => writer[o].pc # "idle"
  PROVE  TxStep(o)
<1>1. tx[o] \in Transactions
  BY DEF TypeOK
<1>2. /\ Outdated(tx[o]).kind = tx[o].kind /\ Outdated(tx[o]).id = tx[o].id
      /\ Outdated(tx[o]).acted = tx[o].acted
  BY <1>1 DEF Outdated, Transactions
<1> QED BY <1>2 DEF TxStep

LEMMA RowWritten ==
  ASSUME TypeOK, NEW id \in Ids, NEW from, NEW to, NEW job, NEW request,
         accept(id, request) \/ Update(id, from, to) \/ succeed(id, job)
  PROVE  /\ \A o \in Operators : tx'[o] \in {tx[o], Outdated(tx[o])}
         /\ \A j \in Ids : j # id => row'[j] = row[j]
         /\ Unlocked
<1>1. \A new : Put(id, new) =>
        /\ \A o \in Operators : tx'[o] \in {tx[o], Outdated(tx[o])}
        /\ \A j \in Ids : j # id => row'[j] = row[j]
        /\ Unlocked
  BY DEF Put, TypeOK
<1>2. ASSUME UNCHANGED <<row, tx>>
      PROVE  /\ \A o \in Operators : tx'[o] \in {tx[o], Outdated(tx[o])}
             /\ \A j \in Ids : j # id => row'[j] = row[j]
  BY <1>2
<1>3. Unlocked /\ (UNCHANGED <<row, tx>> \/ \E new : Put(id, new))
  <2>1. CASE accept(id, request)
    BY <1>1, <2>1, Zenon DEF accept
  <2>2. CASE Update(id, from, to)
    BY <1>1, <2>2, Zenon DEF Update
  <2>3. CASE succeed(id, job)
    BY <1>1, <2>3, Zenon DEF succeed
  <2> QED BY <2>1, <2>2, <2>3
<1> QED BY <1>1, <1>2, <1>3

\* The actions that write one row outside of a transaction.
RowWriting ==
  \/ \E id \in Ids, request \in Requests : accept(id, request)
  \/ \E id \in Ids : BeginWriting(id) \/ Record(id)
  \/ \E r \in Relays : Mark(r)
  \/ PollSettle

LEMMA RowWritings ==
  ASSUME IInv, RowWriting
  PROVE  /\ \A o \in Operators : tx'[o] \in {tx[o], Outdated(tx[o])}
         /\ \E id \in Ids : \A j \in Ids : j # id => row'[j] = row[j]
         /\ Unlocked
<1>0. TypeOK
  BY DEF IInv
<1>1. CASE \E id \in Ids, request \in Requests : accept(id, request)
  BY <1>0, <1>1, RowWritten
<1>2. CASE \E id \in Ids : BeginWriting(id) \/ Record(id)
  BY <1>0, <1>2, RowWritten DEF BeginWriting, Record
<1>3. CASE \E r \in Relays : Mark(r)
  <2>1. PICK r \in Relays : Mark(r)
    BY <1>3
  <2>2. relay[r] \in Scans
    BY <1>0 DEF TypeOK
  <2>3. relay[r].sent \in Ids
    BY <2>1, <2>2 DEF Mark, Scans, Maybe
  <2> QED BY <1>0, <2>1, <2>3, RowWritten DEF Mark, markDispatched
<1>4. CASE PollSettle
  <2>1. poller.id \in Ids
    BY <1>4 DEF PollSettle, IInv, Relied
  <2> QED BY <1>0, <1>4, <2>1, RowWritten DEF PollSettle, fail
<1> QED BY <1>1, <1>2, <1>3, <1>4 DEF RowWriting

LEMMA TxSteps ==
  ASSUME IInv, Next
  PROVE  \A o \in Operators : TxStep(o)
<1>0. TypeOK /\ \A o \in Operators : o \in Writers /\ o \notin Workers
  BY DEF IInv, Writers
<1>1. ASSUME UNCHANGED writer, \A o \in Operators : tx'[o] \in {tx[o], Outdated(tx[o])}
      PROVE  \A o \in Operators : TxStep(o)
  BY <1>0, <1>1, OnlyOutdated
<1>2. CASE UNCHANGED <<tx, writer>>
  BY <1>1, <1>2
<1>3. CASE RowWriting /\ UNCHANGED writer
  BY <1>1, <1>3, RowWritings
<1>4. ASSUME NEW w \in Writers,
             Check(w) \/ WriteFile(w) \/ WorkerLost(w) \/ \E id \in Ids : Take(w, id)
      PROVE  \A o \in Operators : TxStep(o)
  <2>1. UNCHANGED tx
    BY <1>4 DEF Check, WriteFile, WorkerLost, Take
  <2>2. \A o \in Operators : writer'[o].pc # "idle" => writer[o].pc # "idle"
    <3> TAKE o \in Operators
    <3>1. o = w => w \notin Workers
      BY <1>0
    <3>2. CASE o = w
      <4>1. writer[w] \in Writings
        BY <1>0 DEF TypeOK
      <4> QED BY <1>4, <3>1, <3>2 DEF Check, WriteFile, WorkerLost, Take
    <3>3. CASE o # w
      BY <1>0, <1>4, <3>3 DEF Check, WriteFile, WorkerLost, Take, TypeOK
    <3> QED BY <3>2, <3>3
  <2> QED BY <1>0, <2>1, <2>2, OnlyOutdated
<1>5. ASSUME NEW w \in Writers, ReadBack(w)
      PROVE  \A o \in Operators : TxStep(o)
  <2>0. /\ writer'[w].pc = "idle" /\ writer[w].pc # "idle"
        /\ \A o \in Operators : o # w => writer'[o] = writer[o]
    BY <1>0, <1>5 DEF ReadBack, Resting, TypeOK
  <2>1. CASE Answered(w)
    <3>1. UNCHANGED tx
      BY <2>1 DEF Answered
    <3> QED BY <1>0, <2>0, <3>1, OnlyOutdated
  <2>2. CASE Reconciled(w)
    <3>1. /\ w \in Operators
          /\ \A o \in Operators : o # w => tx'[o] = tx[o]
      BY <1>0, <2>2 DEF Reconciled, TypeOK
    <3>2. tx[w].kind = "reconcile" /\ tx[w] \in Transactions
      BY <1>0, <2>0, <3>1 DEF IInv, Relied, Relies, TypeOK
    <3>3. TxStep(w)
      <4>1. tx'[w] = NoTransaction \/ tx'[w] = [tx[w] EXCEPT !.acted = TRUE]
        BY <1>0, <2>2 DEF Reconciled, TypeOK
      <4>2. /\ [tx[w] EXCEPT !.acted = TRUE].kind = tx[w].kind
            /\ [tx[w] EXCEPT !.acted = TRUE].id = tx[w].id
        BY <3>2 DEF Transactions
      <4>3. tx[w].kind # None
        BY <3>2
      <4> QED BY <2>0, <3>2, <4>1, <4>2, <4>3 DEF TxStep
    <3> QED BY <1>0, <2>0, <3>1, <3>3, OnlyOutdated
  <2> QED BY <1>5, <2>1, <2>2 DEF ReadBack
<1>6. ASSUME NEW o \in Operators, NEW kind \in {"resume", "release", "cancel"},
             Acts(o, kind), kind = "release" => released'[tx[o].id] # None
      PROVE  \A p \in Operators : TxStep(p)
  <2>1. /\ tx[o].kind = kind /\ kind # None /\ tx[o] \in Transactions
        /\ tx'[o] = [tx[o] EXCEPT !.acted = TRUE]
        /\ \A p \in Operators : p # o => tx'[p] = tx[p]
        /\ UNCHANGED writer
    BY <1>0, <1>6 DEF Acts, Kinds, files, TypeOK
  <2>2. writer[o].pc = "idle"
    BY <2>1 DEF IInv, Relied, Relies
  <2>3. /\ [tx[o] EXCEPT !.acted = TRUE].kind = tx[o].kind
        /\ [tx[o] EXCEPT !.acted = TRUE].id = tx[o].id
    BY <2>1 DEF Transactions
  <2>4. TxStep(o)
    BY <1>6, <2>1, <2>2, <2>3 DEF TxStep
  <2> QED BY <1>0, <2>1, <2>4, OnlyOutdated
<1>7. ASSUME NEW o \in Operators, ReleaseEngine(o)
      PROVE  \A p \in Operators : TxStep(p)
  <2>1. tx[o].id \in Ids
    BY <1>7 DEF ReleaseEngine, Acts, IInv, Relied, Relies, Kinds
  <2>2. o # None
    OBVIOUS
  <2>3. released'[tx[o].id] # None
    BY <1>0, <1>7, <2>1, <2>2 DEF ReleaseEngine, TypeOK
  <2> QED BY <1>6, <1>7, <2>3 DEF ReleaseEngine
<1>8. ASSUME NEW o \in Operators, Commit(o)
      PROVE  \A p \in Operators : TxStep(p)
  <2>1. tx[o].acted /\ UNCHANGED writer
    BY <1>8 DEF Commit, files
  <2>2. writer[o].pc = "idle"
    BY <2>1 DEF IInv, Relied, Relies
  <2>3. \A p \in Operators : tx'[p] = IF p = o THEN NoTransaction ELSE Outdated(tx[p])
    BY <1>8 DEF Commit
  <2>4. TxStep(o)
    BY <2>1, <2>2, <2>3 DEF TxStep
  <2> QED BY <1>0, <2>1, <2>3, <2>4, OnlyOutdated
<1>9. ASSUME NEW o \in Operators, Abort(o)
      PROVE  \A p \in Operators : TxStep(p)
  <2>1. /\ tx'[o] = NoTransaction /\ writer'[o].pc = "idle"
        /\ \A p \in Operators : p # o => tx'[p] = tx[p] /\ writer'[p] = writer[p]
    BY <1>0, <1>9 DEF Abort, Resting, TypeOK
  <2>2. TxStep(o)
    BY <2>1 DEF TxStep
  <2> QED BY <1>0, <2>1, <2>2, OnlyOutdated
<1>10. ASSUME NEW o \in Operators, NEW kind \in Kinds, NEW id \in Ids, Begin(o, kind, id)
       PROVE  \A p \in Operators : TxStep(p)
  <2>1. /\ tx'[o].kind = kind /\ tx'[o].id = id /\ ~tx'[o].acted
        /\ Admits(kind, id) /\ UNCHANGED row
        /\ kind = "cancel" => Unlocked
        /\ \A p \in Operators : p # o => tx'[p] = tx[p]
    BY <1>0, <1>10 DEF Begin, TypeOK
  <2>2. tx[o].kind = None
    BY <1>10 DEF Begin, NoTransaction
  <2>3. writer[o].pc = "idle"
    BY <2>2 DEF IInv, Relied, Relies
  <2>4. /\ \A p \in Operators : p # o => writer'[p] = writer[p]
        /\ kind # "reconcile" => writer'[o] = writer[o]
    BY <1>0, <1>10 DEF Begin, TypeOK
  <2>5. TxStep(o)
    BY <2>1, <2>3, <2>4 DEF TxStep
  <2> QED BY <1>0, <2>1, <2>4, <2>5, OnlyOutdated
<1> QED
  BY <1>2, <1>3, <1>4, <1>5, <1>6, <1>7, <1>8, <1>9, <1>10
  DEF Next, Accepting, GenerateDiscard, Generate, Execute, Abandon, Relay, Scan, Dispatch,
      Mark, DispatchFails, Flow, Render, BeginWriting, Enqueue, Record, Complete,
      WriterDied, Unavailable, Replay, Interrupted, LoseFile, Writing, Command,
      ResumeEngine, InterruptEngine, Poll, PollFind, PollEngine, PollSettle, RowWriting,
      execution, files

\* From its first statement to its end, Cancel keeps the row as it is.
LEMMA LockHeld ==
  ASSUME IInv, Next, NEW o \in Operators, tx[o].kind = "cancel", tx'[o].kind = "cancel"
  PROVE  UNCHANGED row
<1>1. ~Unlocked
  BY DEF Unlocked
<1>2. ASSUME NEW p \in Operators, Commit(p)
      PROVE  UNCHANGED row
  <2>1. tx'[p] = NoTransaction
    BY <1>2 DEF Commit
  <2>2. p # o
    BY <2>1 DEF NoTransaction, Kinds
  <2>3. tx[p].kind # "cancel"
    BY <2>2 DEF IInv, Relied
  <2> QED BY <1>2, <2>3 DEF Commit
<1>3. ~RowWriting
  BY <1>1, RowWritings
<1> QED
  BY <1>2, <1>3
  DEF Next, Accepting, GenerateDiscard, Generate, Execute, Abandon, Relay, Scan, Dispatch,
      DispatchFails, Flow, Render, Enqueue, Complete, WriterDied, Unavailable, Replay,
      Interrupted, LoseFile, Writing, Take, Check, WriteFile, ReadBack, WorkerLost,
      Command, ResumeEngine, ReleaseEngine, InterruptEngine, Acts, Abort, Begin, Poll,
      PollFind, PollEngine, RowWriting

LEMMA RelyKept ==
  ASSUME IInv, Next
  PROVE  Relied'
<1>0. TypeOK
  BY DEF IInv
<1>1. ASSUME NEW o \in Operators
      PROVE  Relies(o)'
  <2>0. Relies(o) /\ TxStep(o)
    BY TxSteps DEF IInv, Relied
  <2>1. CASE tx'[o] = NoTransaction /\ writer'[o].pc = "idle"
    BY <2>1 DEF Relies, NoTransaction, Kinds
  <2>2. ASSUME tx[o].kind # None, tx'[o].kind = tx[o].kind, tx'[o].id = tx[o].id
        PROVE  /\ tx[o].id \in Ids
               /\ tx[o].kind = "cancel" =>
                    row'[tx[o].id].status \in {"accepted", "dispatched", "cancelled"}
               /\ tx[o].kind = "reconcile" => row'[tx[o].id].status = "succeeded"
    <3>1. PICK id \in Ids : id = tx[o].id
      BY <2>0, <2>2 DEF Relies
    <3>2. tx[o].kind = "cancel" => row'[id].status \in {"accepted", "dispatched", "cancelled"}
      BY <2>0, <2>2, <3>1, LockHeld DEF Relies
    <3>3. row[id].status = "succeeded" => row'[id].status = "succeeded"
      BY RowSteps, RowKept
    <3> QED BY <2>0, <3>1, <3>2, <3>3 DEF Relies
  <2>3. tx[o].kind = "release" /\ tx[o].acted => released'[tx[o].id] # None
    <3>1. tx[o].acted => tx[o].id \in Ids
      BY <2>0 DEF Relies
    <3> QED BY <2>0, <3>1, ReleasedKept DEF Relies
  <2>4. CASE /\ tx'[o].kind = tx[o].kind /\ tx'[o].id = tx[o].id /\ tx'[o].acted = tx[o].acted
             /\ writer'[o].pc # "idle" => writer[o].pc # "idle"
    <3>1. CASE tx[o].kind = None
      BY <2>0, <2>4, <3>1 DEF Relies, Kinds
    <3>2. CASE tx[o].kind # None
      BY <2>0, <2>2, <2>3, <2>4, <3>2 DEF Relies
    <3> QED BY <3>1, <3>2
  <2>5. CASE /\ tx'[o].kind = tx[o].kind /\ tx'[o].id = tx[o].id /\ tx[o].kind # None
             /\ writer'[o].pc = "idle"
             /\ tx[o].kind = "release" => released'[tx[o].id] # None
    BY <2>2, <2>5 DEF Relies
  <2>6. CASE /\ tx'[o].id \in Ids /\ ~tx'[o].acted
             /\ Admits(tx'[o].kind, tx'[o].id) /\ UNCHANGED row
             /\ writer'[o].pc # "idle" => tx'[o].kind = "reconcile"
    BY <2>6 DEF Relies, Admits
  <2> QED BY <2>0, <2>1, <2>4, <2>5, <2>6 DEF TxStep
<1>2. ASSUME NEW o \in Operators, NEW p \in Operators,
             tx'[o].kind = "cancel", tx'[p].kind = "cancel"
      PROVE  o = p
  <2>0. None # "cancel"
    BY DEF Kinds
  <2>1. \A q \in Operators : tx'[q].kind = "cancel" =>
          \/ tx[q].kind = "cancel"
          \/ Unlocked /\ \A r \in Operators : r # q => tx'[r] = tx[r]
    BY <2>0, TxSteps DEF TxStep, NoTransaction
  <2>2. tx[o].kind = "cancel" /\ tx[p].kind = "cancel" => o = p
    BY DEF IInv, Relied
  <2> QED BY <1>2, <2>1, <2>2 DEF Unlocked
<1>3. /\ poller'.verdict # "none" => poller'.id \in Ids
      /\ poller'.verdict = "failed" => engine'[poller'.id].state = "interrupted"
      /\ poller'.verdict = "succeeded" => engine'[poller'.id].state = "succeeded"
  <2>1. CASE UNCHANGED poller
    <3>1. CASE poller.verdict = "none"
      BY <2>1, <3>1
    <3>2. CASE poller.verdict # "none"
      <4>1. PICK id \in Ids : id = poller.id
        BY <3>2 DEF IInv, Relied
      <4>2. EngineStep(id)
        BY EngineSteps
      <4> QED BY <2>1, <4>1, <4>2 DEF EngineStep, IInv, Relied
    <3> QED BY <3>1, <3>2
  <2>2. CASE poller'.verdict = "none"
    BY <2>2
  <2>3. CASE PollEngine
    <3>1. poller \in Polls /\ UNCHANGED engine
      BY <1>0, <2>3 DEF TypeOK, PollEngine, execution
    <3>2. CASE Outcome(poller.id) = "none"
      BY <2>2, <2>3, <3>2 DEF PollEngine, NotPolling
    <3>3. CASE Outcome(poller.id) # "none"
      <4>1. poller'.verdict = Outcome(poller.id) /\ poller'.id = poller.id
        BY <2>3, <3>1, <3>3 DEF PollEngine, Polls
      <4>2. poller.id \in Ids
        BY <2>3, <3>1 DEF PollEngine, Polls, Maybe
      <4> QED BY <3>1, <4>1, <4>2 DEF Outcome
    <3> QED BY <3>2, <3>3
  <2>4. ASSUME PollSettle \/ \E id \in Ids : PollFind(id)
        PROVE  poller'.verdict = "none"
    BY <2>4 DEF PollSettle, PollFind, NotPolling
  <2> QED
    BY <2>1, <2>2, <2>3, <2>4
    DEF Next, Accepting, GenerateDiscard, Generate, Execute, Abandon, Relay, Scan, Dispatch,
        Mark, DispatchFails, Flow, Render, BeginWriting, Enqueue, Record, Complete,
        WriterDied, Unavailable, Replay, Interrupted, LoseFile, Writing, Take, Check,
        WriteFile, ReadBack, WorkerLost, Command, ResumeEngine, ReleaseEngine,
        InterruptEngine, Commit, Acts, Abort, Begin, Poll
<1> QED BY <1>1, <1>2, <1>3 DEF Relied

------------------------------------------------------------------------------
(* The invariant. *)

LEMMA InitIInv == Init => IInv
<1> SUFFICES ASSUME Init PROVE IInv
  OBVIOUS
<1>1. Submitted /\ Underway /\ Settled
  BY DEF Init, Submitted, Underway, Settled, NoRow, NotStarted, Scanned
<1>2. Carried
  BY DEF Init, Carried, Carries, Resting
<1>3. Relied
  BY DEF Init, Relied, Relies, NoTransaction, Resting, NotPolling, Writers, Kinds
<1>4. OutcomesAgree /\ AuditTellsTruth
  BY DEF Init, OutcomesAgree, AuditTellsTruth, NotStarted, NoRow
<1> QED BY <1>1, <1>2, <1>3, <1>4, InitTyped DEF IInv

LEMMA StutterIInv ==
  ASSUME IInv, UNCHANGED vars
  PROVE  IInv'
<1> USE DEF vars
<1>1. TypeOK' /\ Submitted' /\ Underway' /\ Settled'
  BY DEF IInv, TypeOK, Submitted, Underway, Begun, Settled
<1>2. Carried'
  BY DEF IInv, Carried, Carries, Job, RetainedJob, Begun
<1>3. Relied' /\ OutcomesAgree' /\ AuditTellsTruth'
  BY DEF IInv, Relied, Relies, OutcomesAgree, AuditTellsTruth
<1> QED BY <1>1, <1>2, <1>3 DEF IInv

\* In every reachable state the places an export has come to, in the engine,
\* the queue, the writers and memory, are ones its row allows.
THEOREM Inductive == Spec => []IInv
<1>1. ASSUME IInv, [Next]_vars
      PROVE  IInv'
  <2>1. CASE Next
    BY <1>1, <2>1, Typed, SubmittedKept, UnderwayKept, SettledKept, CarriedKept, RelyKept,
       OutcomesKept, AuditKept
    DEF IInv
  <2>2. CASE UNCHANGED vars
    BY <1>1, <2>2, StutterIInv
  <2> QED BY <1>1, <2>1, <2>2
<1> QED BY <1>1, InitIInv, PTL DEF Spec

\* Every variable keeps to the values the code gives it.
THEOREM TypeCorrect == Spec => []TypeOK
<1>1. IInv => TypeOK
  BY DEF IInv
<1> QED BY <1>1, Inductive, PTL

\* Nothing is written for a cancelled export, and nothing is about to be: an
\* export that has come to the queue, to a writer or past BeginWriting can no
\* longer be cancelled, and a cancelled one does not come there
\* (executions.ts beginWriting and cancel).
THEOREM NothingForCancelled == Spec => []CancelledWritesNothing
<1>1. IInv => CancelledWritesNothing
  <2> SUFFICES ASSUME IInv, NEW id \in Ids, row[id].status = "cancelled"
               PROVE  ~Busy(id) /\ id \notin written
    BY DEF CancelledWritesNothing
  <2>1. ~Begun(id)
    BY DEF Begun
  <2>2. ASSUME NEW w \in Writers, writer[w].id = id
        PROVE  FALSE
    BY <2>1, <2>2 DEF IInv, Carried, Carries, Resting
  <2> QED BY <2>1, <2>2 DEF Busy, IInv, Underway
<1> QED BY <1>1, Inductive, PTL

\* The application database and the engine's never disagree about success.
THEOREM OutcomesNeverDisagree == Spec => []OutcomesAgree
<1>1. IInv => OutcomesAgree
  BY DEF IInv
<1> QED BY <1>1, Inductive, PTL

\* Whatever is replayed, redelivered or stale, the store, the engine, the queue
\* and the files never contradict one another.
THEOREM StoresNeverDisagree == Spec => []StoresAgree
BY NothingForCancelled, OutcomesNeverDisagree, PTL DEF StoresAgree

\* No audit row says what did not happen, whoever wrote meanwhile.
THEOREM AuditIsEvidence == Spec => []AuditTellsTruth
<1>1. IInv => AuditTellsTruth
  BY DEF IInv
<1> QED BY <1>1, Inductive, PTL

\* The file of a succeeded export holds what its row says, or was made again
\* from another request than the one its execution ran.
THEOREM FilesMatch == Spec => []FileMatchesArtifact
<1>1. IInv => FileMatchesArtifact
  <2> SUFFICES ASSUME IInv, NEW id \in Ids, row[id].status = "succeeded", file[id] # None,
                      engine[id].request = row[id].request
               PROVE  file[id] = row[id].artifact
    BY DEF FileMatchesArtifact
  <2>1. row[id].artifact = engine[id].job /\ row[id].artifact \in Artifacts
    BY RetainedTyped DEF IInv
  <2>2. row[id].artifact.request = row[id].request
    BY <2>1 DEF IInv, Settled, Artifacts
  <2>3. RetainedJob(None, id) = row[id].artifact
    BY <2>1, <2>2 DEF RetainedJob, makeReportExportJob, Artifacts
  <2> QED BY <2>1, <2>3 DEF IInv, Carried
<1> QED BY <1>1, Inductive, PTL

------------------------------------------------------------------------------
(* Refinement. *)

\* A step writes one row, or a file, or neither.
LEMMA OneRow ==
  ASSUME IInv, Next
  PROVE  \/ UNCHANGED row
         \/ /\ UNCHANGED written
            /\ \E id \in Ids : \A j \in Ids : j # id => row'[j] = row[j]
<1>0. TypeOK
  BY DEF IInv
<1>1. CASE RowWriting /\ UNCHANGED written
  BY <1>1, RowWritings
<1>2. ASSUME NEW o \in Operators, Commit(o)
      PROVE  \/ UNCHANGED row
             \/ /\ UNCHANGED written
                /\ \E id \in Ids : \A j \in Ids : j # id => row'[j] = row[j]
  <2>1. tx[o].id \in Ids /\ UNCHANGED written
    BY <1>2 DEF Commit, files, IInv, Relied, Relies
  <2>2. \A j \in Ids : j # tx[o].id => row'[j] = row[j]
    BY <1>0, <1>2 DEF Commit, TypeOK
  <2> QED BY <2>1, <2>2
<1> QED
  BY <1>1, <1>2
  DEF Next, Accepting, GenerateDiscard, Generate, Execute, Abandon, Relay, Scan, Dispatch,
      Mark, DispatchFails, Flow, Render, BeginWriting, Enqueue, Record, Complete,
      WriterDied, Unavailable, Replay, Interrupted, LoseFile, Writing, Take, Check,
      WriteFile, ReadBack, WorkerLost, Command, ResumeEngine, ReleaseEngine,
      InterruptEngine, Acts, Abort, Begin, Poll, PollFind, PollEngine, PollSettle,
      RowWriting, files

LEMMA WrittenSteps ==
  ASSUME IInv, Next
  PROVE  \/ UNCHANGED written
         \/ \E id \in Ids : Begun(id) /\ written' = written \cup {id} /\ UNCHANGED row
<1>1. ASSUME NEW w \in Writers, WriteFile(w)
      PROVE  \E id \in Ids : Begun(id) /\ written' = written \cup {id} /\ UNCHANGED row
  BY <1>1 DEF WriteFile, IInv, Carried, Carries
<1> QED
  BY <1>1
  DEF Next, Accepting, GenerateDiscard, Generate, Execute, Abandon, Relay, Scan, Dispatch,
      Mark, DispatchFails, Flow, Render, BeginWriting, Enqueue, Record, Complete,
      WriterDied, Unavailable, Replay, Interrupted, LoseFile, Writing, Take, Check,
      ReadBack, WorkerLost, Command, ResumeEngine, ReleaseEngine, InterruptEngine, Commit,
      Acts, Abort, Begin, Poll, PollFind, PollEngine, PollSettle, files

\* The three stores together keep what Poll promises: every step is a step of
\* Exports or changes nothing of what it promises (executions.ts, workflow.ts,
\* writer.ts).
THEOREM Refinement == Spec => ImplementsExports
<1> DEFINE stage == [id \in Ids |-> StageOf(row[id].status)]
<1>1. Init => Promise!Init
  BY DEF Init, Promise!Init, StageOf, NoRow
<1>2. ASSUME IInv, Next
      PROVE  Promise!Next \/ UNCHANGED <<stage, written>>
  <2>1. CASE UNCHANGED row /\ UNCHANGED written
    BY <2>1
  <2>2. ASSUME NEW id \in Ids, Begun(id), written' = written \cup {id}, UNCHANGED row
        PROVE  Promise!Next
    <3>1. Promise!Write(id)
      BY <2>2 DEF Promise!Write, Begun, StageOf
    <3> QED BY <3>1 DEF Promise!Next
  <2>3. ASSUME NEW id \in Ids, UNCHANGED written,
               \A j \in Ids : j # id => row'[j] = row[j]
        PROVE  Promise!Next \/ UNCHANGED <<stage, written>>
    <3> DEFINE old == StageOf(row[id].status)
               new == StageOf(row'[id].status)
    <3>1. \/ old = new
          \/ old = "unknown" /\ new = "pending"
          \/ old = "pending" /\ new = "cancelled" /\ id \notin written
          \/ old = "pending" /\ new = "failed"
          \/ old = "pending" /\ new = "succeeded" /\ id \in written
      <4>1. RowStep(id)
        BY <1>2, RowSteps
      <4>2. row[id].status \in Statuses
        BY <1>2 DEF IInv, TypeOK, Rows
      <4> QED
        BY <1>2, <4>1, <4>2
        DEF RowStep, Writable, StageOf, IInv, Underway, Begun, NoRow, Statuses
    <3>2. stage' = [stage EXCEPT ![id] = new] /\ stage[id] = old
      BY <2>3
    <3>3. Promise!Become(id, old, new)
      BY <3>2 DEF Promise!Become
    <3>4. old = new => stage' = stage
      BY <3>2
    <3> HIDE DEF old, new, stage
    <3>5. old # new =>
            \/ Promise!Accept(id) \/ Promise!Cancel(id)
            \/ Promise!Fail(id) \/ Promise!Succeed(id)
      BY <2>3, <3>1, <3>3
      DEF Promise!Accept, Promise!Cancel, Promise!Fail, Promise!Succeed
    <3> QED BY <2>3, <3>4, <3>5 DEF Promise!Next
  <2> QED BY <1>2, <2>1, <2>2, <2>3, OneRow, WrittenSteps
<1>3. IInv /\ [Next]_vars => [Promise!Next]_<<stage, written>>
  BY <1>2 DEF vars
<1> QED BY <1>1, <1>3, Inductive, PTL DEF Spec, ImplementsExports, Promise!Spec
==============================================================================
