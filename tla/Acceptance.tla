------------------------------ MODULE Acceptance ------------------------------
(* One scenario of the acceptance harness (packages/effect-domains-acceptance:
   runner.ts, browser.ts, server.ts): an exploration in which a model chooses
   among the actions the generated UI offers, and the replay of its recording
   without a model.  Answers may be lost or late, the deadline falls anywhere, a
   neighbour may take the port and the server may die at any step.           *)
EXTENDS InputCases

CONSTANTS
  Scenarios,    \* scenarios: cases, the required ones, requirements, whether they reload
  DirectProbes, \* operations whose required cases are called once more at the end
  Refreshing,   \* operations after which the UI shows the list
  Returned(_, _), \* fields of what the server of a fixture returns for an accepted case
  MaxActions    \* action limit of the configuration

ASSUME ScenariosAssumption == \A s \in Scenarios : s.cases \subseteq DOMAIN Operation

VARIABLES
  scenario,    \* the scenario
  host,        \* the served application: directory, port and child process
  mode,        \* "record" or "replay"
  pc,          \* where the run of the scenario is
  screen,      \* what the page shows: the list, or the form of an operation
  progress,    \* Progress: submissions, whether reloaded, trace, repetitions
  chosen,      \* the action that is being executed
  outcome,     \* Closing and interruption of the scenario
  report,      \* run.json of this run
  recording,   \* run.json of the exploration, for the replay
  build,       \* identity of the application's sources
  calls,       \* history: the calls of each case that reached the server
  fresh        \* history: the page was loaded since the last of them

harnessVars ==
  <<scenario, host, mode, pc, screen, progress, chosen, outcome, report, recording, build, calls, fresh>>

List == [kind |-> "list"]
FormOf(op, form) == [kind |-> "form", op |-> op, form |-> form]

\* Actions by what tells them apart.
Open(op) == [kind |-> "open", op |-> op]
Observe == [kind |-> "observe"]
Filling(c, input) == [kind |-> "fill", case |-> c, input |-> input]
Submitting(c, input) == [kind |-> "submit", case |-> c, input |-> input]
Reload == [kind |-> "reload"]
CannotProceed == [kind |-> "cannot-proceed"]
NoAction == [kind |-> "none"]

NoHost == [directory |-> FALSE, port |-> "free", child |-> "none"]
NoProgress == [submissions |-> <<>>, reloaded |-> FALSE, trace |-> <<>>, repeated |-> <<>>]
NoRecording == [trace |-> <<>>, candidates |-> <<>>]
NoReport == [status |-> "none", build |-> 0, recording |-> NoRecording]
Undecided ==
  [interruption |-> "none", closed |-> FALSE, reloaded |-> FALSE, seen |-> [c \in DOMAIN Operation |-> 0],
   fresh |-> FALSE, verdict |-> FALSE]

HarnessInit ==
  /\ scenario \in Scenarios /\ host = NoHost
  /\ mode = "record" /\ pc = "validate" /\ screen = List
  /\ progress = NoProgress /\ chosen = NoAction /\ outcome = Undecided
  /\ report = [NoReport EXCEPT !.build = 1] /\ recording = NoRecording /\ build = 1
  /\ calls = [c \in DOMAIN Operation |-> 0] /\ fresh = TRUE

-----------------------------------------------------------------------------
(* Preparation: the catalog, the server in a process and a directory of its
   own, the baseline.                                                        *)

Interrupt(reason) == pc' = "closing" /\ outcome' = [outcome EXCEPT !.interruption = reason]
Run == UNCHANGED <<scenario, mode, report, recording, build>>
Played == UNCHANGED <<screen, progress, chosen, calls, fresh>>
Blocked == pc' = "release" /\ outcome' = [outcome EXCEPT !.interruption = "blocked"]

ValidateCatalog ==
  /\ pc = "validate"
  /\ pc' = IF ScenarioAccepted(scenario) THEN "prepare" ELSE "rejected"
  /\ UNCHANGED <<host, outcome>> /\ Run /\ Played

\* A port is chosen by listening on it for a moment.
PrepareDirectory ==
  /\ pc = "prepare" /\ pc' = "spawn" /\ host' = [host EXCEPT !.directory = TRUE]
  /\ UNCHANGED outcome /\ Run /\ Played

SpawnServer ==
  /\ pc = "spawn" /\ pc' = "await" /\ host' = [host EXCEPT !.child = "starting"]
  /\ UNCHANGED outcome /\ Run /\ Played

\* Until the server listens, the port is anybody's.
Neighbour ==
  /\ pc \in {"spawn", "await"} /\ host.port = "free" /\ host' = [host EXCEPT !.port = "other"]
  /\ UNCHANGED <<pc, outcome>> /\ Run /\ Played

Listen ==
  /\ host.child = "starting" /\ host.port = "free"
  /\ host' = [host EXCEPT !.port = "own", !.child = "serving"]
  /\ UNCHANGED <<pc, outcome>> /\ Run /\ Played

\* It cannot listen, or it crashes.
Exit ==
  /\ host.child \in {"starting", "serving"} /\ pc # "release"
  /\ host' = [host EXCEPT !.child = "exited", !.port = IF @ = "own" THEN "free" ELSE @]
  /\ UNCHANGED <<pc, outcome>> /\ Run /\ Played

Serving == host.child = "serving"

\* awaitReady: what answers at the port says that it is this application.
Ready ==
  /\ pc = "await" /\ Serving /\ pc' = "prerequisites"
  /\ UNCHANGED <<host, outcome>> /\ Run /\ Played

\* The directory cannot be made, the child exits, or 20 seconds pass.
NotReady ==
  /\ pc \in {"prepare", "spawn", "await"} /\ Blocked
  /\ UNCHANGED host /\ Run /\ Played

\* The page is opened and signed in, and the lists are captured.
Prerequisites(ok) ==
  /\ pc = "prerequisites" /\ (ok => Serving)
  /\ IF ok THEN pc' = "offer" /\ UNCHANGED outcome ELSE Blocked
  /\ UNCHANGED host /\ Run /\ Played

-----------------------------------------------------------------------------
(* What is offered.                                                          *)

Submitted == {progress.submissions[i].case : i \in DOMAIN progress.submissions}

\* The cases are resolved again at every step.
ThisFixture == IF mode = "record" THEN 1 ELSE 2
Recorded == {recording.candidates[i].case : i \in DOMAIN recording.candidates}
RecordedInput(c) == (CHOOSE r \in Range(recording.candidates) : r.case = c).input
Considered == IF mode = "record" THEN scenario.cases ELSE Recorded
Resolution(c) ==
  IF mode = "record" THEN ResolveCase(c, ThisFixture, progress.submissions)
  ELSE ReplayCandidate(c, RecordedInput(c), ThisFixture, progress.submissions)

Pool ==
  LET resolved == [c \in Considered |-> Resolution(c)]
  IN [problems |-> {resolved[c].boundary : c \in {d \in Considered : resolved[d].is = "failed"}},
      inputs |-> [c \in {d \in Considered : resolved[d].is = "part"} |-> resolved[c].pairs]]

\* Fault: a case that was submitted is offered again.
FaultAvailable(pool) == pool.inputs

Available(pool) == Restrict(pool.inputs, DOMAIN pool.inputs \ Submitted)

RequiredConsumed == scenario.required \subseteq Submitted

IsComplete(p) ==
  /\ scenario.required \subseteq {p.submissions[i].case : i \in DOMAIN p.submissions}
  /\ p.reloaded \/ ~scenario.reload

ActiveForm(c) == screen.kind = "form" /\ screen.op = Operation[c]

\* offeredActions, of the page as it is rendered.
Offered(available) ==
  LET shown == {c \in DOMAIN available : ActiveForm(c)}
  IN {Open(Operation[c]) : c \in {d \in scenario.cases : ~ActiveForm(d)}}
       \cup (IF screen = List THEN {} ELSE {Observe})
       \cup {Filling(c, available[c]) : c \in {d \in shown : Fillable(screen.form, available[d])}}
       \cup {Submitting(c, available[c]) : c \in {d \in shown : Submittable(screen.form, available[d])}}
       \cup (IF RequiredConsumed /\ ~progress.reloaded /\ scenario.reload THEN {Reload} ELSE {})
       \cup {CannotProceed}

-----------------------------------------------------------------------------
(* The interaction.                                                          *)

Entry(action, executed) == [action |-> action, executed |-> executed]
Traced(action) == Append(progress.trace, Entry(action, FALSE))
Executed == [progress.trace EXCEPT ![Len(progress.trace)] = Entry(chosen, TRUE)]

Step == Len(progress.trace) + 1
Count(repeated, action) == IF action \in DOMAIN repeated THEN repeated[action] ELSE 0
Tallied(action) == (action :> Count(progress.repeated, action) + 1) @@ progress.repeated

Exhausted ==
  /\ pc = "offer" /\ Step > MaxActions /\ Interrupt("deadline")
  /\ UNCHANGED host /\ Run /\ Played

\* One case that cannot be resolved ends the interaction, even a submitted one.
ResolveFails ==
  /\ pc = "offer" /\ Step <= MaxActions
  /\ \E boundary \in Pool.problems : Interrupt(boundary)
  /\ UNCHANGED host /\ Run /\ Played

\* The model chooses; a choice below the confidence limit or the third choice of
\* the same action since the last submission is traced and not executed.
Choose(confident) ==
  /\ pc = "offer" /\ mode = "record" /\ Step <= MaxActions
  /\ \E pool \in {Pool} :
        /\ pool.problems = {}
        /\ \E action \in Offered(Available(pool)) :
             LET refused == ~confident \/ action = CannotProceed
             IN /\ chosen' = action
                /\ progress' = [progress EXCEPT !.trace = Traced(action),
                                  !.repeated = IF refused THEN @ ELSE Tallied(action)]
                /\ IF refused THEN Interrupt("decision")
                   ELSE IF Count(progress.repeated, action) >= 2 THEN Interrupt("progress")
                   ELSE pc' = "execute" /\ UNCHANGED outcome
  /\ Run /\ UNCHANGED <<host, screen, calls, fresh>>

\* The model does not answer, or names no action that is offered.
ModelFails ==
  /\ pc = "offer" /\ mode = "record" /\ Step <= MaxActions /\ Interrupt("decision")
  /\ UNCHANGED host /\ Run /\ Played

\* Fault: a recorded action is taken for the one of its kind that is offered.
FaultMatchesRecorded(recorded, option, available) == recorded.kind = option.kind

\* What is filled in is what the case resolves to now, fresh identities included.
MatchesRecorded(recorded, option, available) ==
  /\ DOMAIN recorded = DOMAIN option
  /\ \A f \in DOMAIN recorded \ {"input"} : recorded[f] = option[f]
  /\ recorded.kind = "fill" => option.input = available[recorded.case]

\* recordedChoice: the recorded action at this step, if it is offered again.
RecordedChoice ==
  /\ pc = "offer" /\ mode = "replay" /\ Step <= MaxActions
  /\ \E pool \in {Pool} :
       LET available == Available(pool)
           entry == recording.trace[Step]
           matching == {a \in Offered(available) : MatchesRecorded(entry.action, a, available)}
       IN /\ pool.problems = {}
          /\ IF Step > Len(recording.trace) \/ matching = {}
             THEN Interrupt("replay") /\ UNCHANGED <<progress, chosen>>
             ELSE \E action \in matching :
                    /\ chosen' = action
                    /\ progress' = [progress EXCEPT !.trace = Traced(action),
                                      !.repeated = IF entry.executed THEN Tallied(action) ELSE @]
                    /\ IF ~entry.executed THEN Interrupt("replay")
                       ELSE IF action = CannotProceed THEN Interrupt("decision")
                       ELSE IF Count(progress.repeated, action) >= 2 THEN Interrupt("progress")
                       ELSE pc' = "execute" /\ UNCHANGED outcome
  /\ Run /\ UNCHANGED <<host, screen, calls, fresh>>

\* The UI did what was asked.  A submission is still to be answered.
Execute ==
  /\ pc = "execute" /\ (chosen = Reload => Serving)
  /\ CASE chosen.kind = "open" -> screen' = FormOf(chosen.op, EmptyForm)
       [] chosen.kind = "fill" ->
            LET filled == Fill(screen.form, chosen.input)
            IN Retained(screen.form, chosen.input, filled) /\ screen' = [screen EXCEPT !.form = filled]
       [] chosen.kind = "submit" -> UNCHANGED screen
       [] OTHER -> screen' = List
  /\ fresh' = (fresh \/ chosen = Reload)
  /\ pc' = IF chosen.kind = "submit" THEN "answer" ELSE "observe"
  /\ progress' = IF chosen.kind = "submit" THEN progress ELSE [progress EXCEPT !.trace = Executed]
  /\ Run /\ UNCHANGED <<host, chosen, outcome, calls>>

\* A field does not keep its value, or the page does not answer in time.
ExecuteFails ==
  /\ pc = "execute" /\ Interrupt("runtime")
  /\ UNCHANGED host /\ Run /\ Played

\* The click of a submission reaches the server, at the latest while the
\* harness has given up waiting for its answer.  A refused form stays.
Call(c, accepted) ==
  /\ Serving /\ (accepted => Validity[c] = "native-valid")
  /\ calls' = [calls EXCEPT ![c] = @ + 1] /\ fresh' = FALSE
  /\ screen' = IF accepted /\ Operation[c] \in Refreshing THEN List ELSE screen

\* submissionOf and recordSubmission; a denied call consumes its case as well.
Answer(accepted) ==
  /\ pc = "answer" /\ Call(chosen.case, accepted)
  /\ progress' = [progress EXCEPT
                    !.submissions = Append(@, [case |-> chosen.case, input |-> chosen.input, accepted |-> accepted,
                                               result |-> Returned(ThisFixture, chosen.case)]),
                    !.reloaded = FALSE, !.repeated = <<>>, !.trace = Executed]
  /\ pc' = IF accepted THEN "probe" ELSE "observe"
  /\ Run /\ UNCHANGED <<host, chosen, outcome>>

AnswerLost ==
  /\ pc = "answer" /\ Interrupt("runtime")
  /\ \/ UNCHANGED <<screen, calls, fresh>>
     \/ \E accepted \in BOOLEAN : Call(chosen.case, accepted)
  /\ Run /\ UNCHANGED <<host, progress, chosen>>

\* submissionProbes, after an accepted submission.
Probe ==
  /\ pc = "probe" /\ Serving /\ pc' = "observe"
  /\ UNCHANGED <<host, outcome>> /\ Run /\ Played

ProbeFails ==
  /\ pc = "probe" /\ Interrupt("probe")
  /\ UNCHANGED host /\ Run /\ Played

\* navigated comes before the page is observed.
Navigated(p) == [p EXCEPT !.reloaded = @ \/ chosen = Reload]
View ==
  /\ pc = "observe" /\ progress' = Navigated(progress)
  /\ pc' = IF IsComplete(progress') THEN "closing" ELSE "offer"
  /\ Run /\ UNCHANGED <<host, screen, chosen, outcome, calls, fresh>>

\* The deadline interrupts whatever the harness waits for; a call that was
\* clicked may reach the server afterwards, and a reload has been noted.
Deadline ==
  /\ pc \in {"offer", "execute", "answer", "probe", "observe"} /\ Interrupt("deadline")
  /\ progress' = IF pc = "observe" THEN Navigated(progress) ELSE progress
  /\ \/ UNCHANGED <<screen, calls, fresh>>
     \/ pc = "answer" /\ \E accepted \in BOOLEAN : Call(chosen.case, accepted)
  /\ Run /\ UNCHANGED <<host, chosen>>

-----------------------------------------------------------------------------
(* The verdict and the report.                                               *)

\* closingEvidence: the lists are captured, with the label of the last reload, or
\* they cannot be.  The outcome notes the calls that came before.
Close(ok) ==
  /\ pc = "closing" /\ (ok => Serving)
  /\ pc' = IF ok THEN "enforce" ELSE "evaluate"
  /\ outcome' = [outcome EXCEPT !.reloaded = progress.reloaded, !.seen = calls, !.fresh = fresh]
  /\ screen' = IF ok THEN List ELSE screen
  /\ Run /\ UNCHANGED <<host, progress, chosen, calls, fresh>>

\* directEnforcement: the required cases of some operations are called once more,
\* without the UI.  An error anywhere leaves the closing without evidence.
Audited == {c \in scenario.required : Operation[c] \in DirectProbes}
Enforce(ok) ==
  /\ pc = "enforce" /\ pc' = "evaluate"
  /\ ok /\ Audited # {} =>
       /\ Serving
       /\ \E pool \in {Pool} :
            pool.problems = {} /\ Audited \subseteq Submitted \cup DOMAIN pool.inputs
  /\ outcome' = [outcome EXCEPT !.closed = ok]
  /\ IF ok /\ Audited # {}
     THEN calls' = [c \in DOMAIN calls |-> IF c \in Audited THEN calls[c] + 1 ELSE calls[c]] /\ fresh' = FALSE
     ELSE UNCHANGED <<calls, fresh>>
  /\ Run /\ UNCHANGED <<host, screen, progress, chosen>>

\* Every result is a pass; a scenario without requirements has no results.
EveryPassing(passing) == passing = scenario.requirements

\* The evaluators decide which requirements pass; without closing evidence every
\* one is inconclusive.
Evaluate(passing) ==
  /\ pc = "evaluate" /\ (passing # {} => outcome.closed) /\ pc' = "release"
  /\ outcome' = [outcome EXCEPT !.verdict = EveryPassing(passing)]
  /\ UNCHANGED host /\ Run /\ Played

\* The scope of the scenario ends: the browser is closed, the child stopped and
\* its directory removed.
Release ==
  /\ pc = "release" /\ pc' = "report" /\ host' = NoHost
  /\ screen' = List /\ chosen' = NoAction
  /\ calls' = [c \in DOMAIN Operation |-> 0] /\ fresh' = TRUE
  /\ UNCHANGED <<progress, outcome>> /\ Run

\* Everything retained is searched for secrets before the run has a status.
Report(sealed) ==
  /\ pc = "report" /\ pc' = "done"
  /\ report' = [report EXCEPT
                  !.status = IF IsComplete(progress) /\ outcome.verdict /\ sealed THEN "pass" ELSE "not-passed",
                  !.recording = [trace |-> progress.trace,
                                 candidates |-> [i \in DOMAIN progress.submissions |->
                                   [case |-> progress.submissions[i].case, input |-> progress.submissions[i].input]]]]
  /\ Played /\ UNCHANGED <<scenario, host, mode, outcome, recording, build>>

Rebuild ==
  /\ pc = "done" /\ build = 1 /\ build' = 2
  /\ Played /\ UNCHANGED <<scenario, host, mode, pc, outcome, report, recording>>

\* runAcceptance with --replay: a fresh directory, a fresh fixture and page, and
\* only a recording of this very build.
Replay ==
  /\ pc = "done" /\ mode = "record" /\ report.build = build
  /\ mode' = "replay" /\ recording' = report.recording
  /\ report' = [NoReport EXCEPT !.build = build]
  /\ pc' = "prepare" /\ progress' = NoProgress /\ outcome' = Undecided
  /\ UNCHANGED <<scenario, host, screen, chosen, build, calls, fresh>>

HarnessNext ==
  \/ ValidateCatalog \/ PrepareDirectory \/ SpawnServer \/ Neighbour \/ Listen \/ Exit \/ Ready \/ NotReady
  \/ \E ok \in BOOLEAN : Prerequisites(ok)
  \/ Exhausted \/ ResolveFails \/ \E confident \in BOOLEAN : Choose(confident)
  \/ ModelFails
  \/ RecordedChoice \/ Execute \/ ExecuteFails
  \/ \E accepted \in BOOLEAN : Answer(accepted)
  \/ AnswerLost \/ Probe \/ ProbeFails \/ View \/ Deadline
  \/ \E ok \in BOOLEAN : Close(ok) \/ Enforce(ok)
  \/ \E passing \in SUBSET scenario.requirements : Evaluate(passing)
  \/ Release \/ \E sealed \in BOOLEAN : Report(sealed)
  \/ Rebuild \/ Replay

HarnessSpec == HarnessInit /\ [][HarnessNext]_harnessVars

-----------------------------------------------------------------------------
(* Properties.                                                               *)

\* A report says "pass" only of a run in which every required input had reached
\* the server exactly once when the interaction was over and was answered, no
\* input more than once, and, if the scenario reloads, the page had been loaded
\* after all of them: whatever was lost, late, refused or interrupted on the
\* way, whoever else took the port and whenever the server died.  What it says of
\* a requirement it says on evidence captured after that; a scenario without
\* requirements passes without any.
EvidenceBacksPass ==
  report.status = "pass" =>
    /\ \A c \in scenario.cases : outcome.seen[c] <= 1
    /\ \A c \in scenario.required : outcome.seen[c] = 1 /\ c \in Submitted
    /\ scenario.reload => outcome.reloaded /\ outcome.fresh
    /\ scenario.requirements # {} => outcome.closed

\* What the generated form sends when a submission is offered is the candidate,
\* whatever was filled in before and left behind in the form, and whatever the
\* case resolved to before.
SubmittedIsCandidate ==
  pc = "offer" =>
    \A available \in {Available(Pool)} :
      \A c \in DOMAIN available :
        Submitting(c, available[c]) \in Offered(available) => Sent(screen.form) = {available[c]}

\* What a replay has in common with its recording: the action and, of what it
\* enters, the values no fixture and no earlier result gives.  What was entered
\* and never sent is sampled anew when other values come to go with it.
Declared(c) == {p \in DOMAIN Sources[c] : IsNative(Sources[c][p])} \cup LiteralFields(c)
Repeated(action) ==
  CASE action.kind = "fill" -> Declared(action.case) \ SampledFields(action.case)
    [] action.kind = "submit" -> Declared(action.case)
    [] OTHER -> {}
Kept(action) ==
  IF action.kind \in {"fill", "submit"} THEN [action EXCEPT !.input = PartAt(@, Repeated(action))] ELSE action
ExecutedActions(trace) == {<<i, Kept(trace[i].action)>> : i \in {j \in DOMAIN trace : trace[j].executed}}

\* A replay executes what its recording executed, step by step and with the same
\* values, and passes only when it has executed all of it, unless the scenario is
\* complete before anything is executed.
ReplayRepeats ==
  mode = "replay" =>
    /\ ExecutedActions(progress.trace) \subseteq ExecutedActions(recording.trace)
    /\ report.status = "pass" /\ (scenario.required # {} \/ scenario.reload) =>
         ExecutedActions(progress.trace) = ExecutedActions(recording.trace)

\* No scenario the catalog lets run is interrupted by a source that cannot be
\* applied to its field: that is found before a server is started.
ValidatedInputsApply == outcome.interruption # "unsupported"
=============================================================================
