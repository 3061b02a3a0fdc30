# TLA+ verification of effect-domains

Specifications of `effect-domains`, from the stores an application is built on to the
tools that deploy it and accept it: the identity store with its groups, the
repository a resource is compiled to, the policies that guard it, the pages its list
is read in, the commands of an application, the migration of its file, the generated
user interface, the deployment, the acceptance harness, and the examples in which
several of these meet. A component has a module, a TLC configuration that explores a
small instance, and theorems proved with TLAPS for every value of the constants. All paths below are relative to the root of the repository.

## Reading order

Source paths are under `packages/effect-domains/src/` unless they begin with `apps/`,
`examples/` or `packages/`. `PROJECT.json` maps each definition to its lines.

| module | models | explored by | proofs |
|---|---|---|---|
| `Accounts` | what others may rely on about accounts | (by `Identity`, `Groups`) | |
| `Identity` | `identity/sqlite/index.ts`, `identity/sqlite/reset.ts`, `identity/rpc.ts` | `MCIdentity` | `IdentityProofs` |
| `TenantRights` | what others may rely on about permissions | (by `Groups`) | |
| `Groups` | `identity/sqlite/groups.ts`, `identity/groups/rpc.ts` | `MCGroups` | `GroupsProofs` |
| `VersionedTable` | what others may rely on about a resource's table | (by `Repository`) | |
| `Repository` | `resource/compiler.ts`, `resource/compiler-prepare.ts`, `resource/repository-store.ts`, `authorization/runtime.ts` | `MCRepository` | `RepositoryProofs` |
| `Policies` | `authorization/`: `policy.ts`, `policy-sql.ts`, `validation.ts`, `entitlements.ts`, `runtime.ts`, `rpc.ts` | `MCPolicies` | `GroupsProofs` |
| `Migrations` | `sqlite/migrations.ts`, `sqlite/migration-database.ts`, `sqlite/migration-model.ts` | `MCMigrations` | `MigrationsProofs` |
| `KeysetList` | `sqlite/list.ts`, `page.ts` | (by `AdminClient`) | `RepositoryProofs` |
| `AdminClient` | `apps/application-ui/src/client.ts`: views, calls, pages | itself | `RepositoryProofs` |
| `GeneratedForm` | the same file: the form of an operation; `packages/effect-domains-acceptance/src/browser.ts`: how it is filled | (by `Acceptance`) | `BrowserProofs` |
| `InputCases` | `packages/effect-domains-acceptance/src/`: `inputs.ts`, `catalog.ts` | (by `Acceptance`) | `BrowserProofs` |
| `Acceptance` | the same directory: `runner.ts`, `browser.ts`, `server.ts`, `evidence.ts` | `MCAcceptance` | `BrowserProofs` |
| `Statements`, `AtomicCommands` | one statement of a handler; what a caller may rely on | (by `Commands`) | |
| `Commands` | `command.ts`, `sqlite/runtime.ts` | `MCCommands` | `CommandsProofs` |
| `Billing`, `Inventory`, `SupportCases`, `Elections`, `Expenses`, put together by `Applications` | the commands of `examples/orders-invoices`, `reservations`, `support-cases`, `community-elections`, `expense-ledger` | `MCCommands` | `CommandsProofs` |
| `NoteSync` | `examples/field-notes/sync.ts` | `MCNoteSync` | `BrowserProofs` |
| `Infrastructure`, `Gateway` | `infrastructure/`, the backends of `packages/effect-domains-alchemy`; `application/telemetry/browser.ts`, `config.ts` | (by `Deployment`) | |
| `Deployment` | `application/runtime.ts`, `application/bun/runtime.ts`, `packages/effect-domains-alchemy/src/`, `packages/example-support/src/cluster-runtime.ts` | `MCDeployment` | `DeploymentProofs` |
| `Exports` | what others may rely on about an export | (by `ReportExports`) | |
| `ReportExports` | `executions.ts`, `workflow.ts`, `runtime.ts`, `writer.ts`, `audit.ts` of `examples/report-exports` | `MCReportExports` | `ReportExportsProofs` |

## Inventory of the system

effect-domains derives tables, repositories, RPC contracts, command-line inputs and a
user interface from schemas. An application is composed of resources, commands and
native RPC groups and served by one Bun process over one or two SQLite files (the
application's and the identity store's).

**Identity store.** State: accounts, sessions, tenant invitations and password
resets, four tables; in memory, a semaphore with two permits for password
verification and the requests in flight. Operations: seed, login, authenticate,
logout, signup, close, issue invitation, issue reset, redeem reset. Called by the RPC
handlers; its `authenticate` precedes every protected operation. Hard: hashing takes
long and happens outside transactions; tokens expire, are replaced and are
single-use; the process restarts and seeds again. Correct if an account is permanent,
a token admits or resets once and in time, sessions do not survive what revokes them,
nothing crosses a tenant and no permit is lost.

**Groups and permissions.** State: groups, memberships, account grants, group grants.
Operations: `create`, `update`, `delete`, `addMember`, `removeMember`,
`grant/revokeAccount`, `grant/revokeGroup`, `check` and lists. The actor is captured
by authentication and passed to the operation. Hard: accounts and groups disappear
between the two. Correct if links join things of one tenant, and rights come from
administrators of that tenant only.

**Resource repository.** State: one table per resource; the copies its clients hold.
Operations: create, get, list, update, patch, remove, transition, ensure. Each passes
the policy of the resource, canonical validation and, if declared, an expected
version. Hard: stale copies, `ensure` racing with itself, ownership moved by a write.
Correct if no update is lost, a write stays in its subject's scope, and every step is
an insertion, a replacement or a removal.

**Authorization.** A policy is a scope and a rule per action, over columns, claims
and entitlements. It has two evaluators, one in memory for candidates and one that
SQLite runs as a WHERE clause, and a request passes a preflight with its claims, a
read, and a check with its entitlements. Hard: two type systems, three-valued nulls,
entitlements that end between the steps. Correct if the evaluators agree, what may be
written may be read, and the preflight refuses nothing a check would allow.

**SQLite runtime.** One connection per file behind a semaphore; `transaction` runs a
block atomically, statements outside interleave. Translates unique violations, and
binds a policy into the WHERE clause of every statement.

**Commands.** A named handler over RPC, in one transaction unless it says otherwise.
State: the database, the open transaction, the calls in flight. Hard: statements and
commits fail, callers go away, the process dies, undeclared failures are translated.
Correct if a transactional command is one step or none. The examples add their own
invariants: totals agree with lines and invoices, stock stays between its bounds, a
trail tells a case's history, a result does not change after it was answered.

**Migrations.** State: the catalog of a file, the ledger table. One operation,
`prepare`, run by each starting process: read the ledger, verify, apply pending
migrations, verify. Hard: crash between or inside migrations, two processes at once,
diverging or edited releases. Correct if the catalog is where the ledger says,
nothing is applied twice, and a serving process shares the file's history.

**List paging.** Filter, order, keyset cursor and limit of a resource's list; the
cursor carries the order fields of the last row. Hard: rows come, go and move between
two pages. Correct if a client that follows the cursors sees every row that stays,
once and in order. **Read models** page in the same way over joins.

**Application UI.** A server of prebuilt assets and a browser client generated from
the published operations. State: the view on the screen, its pages, the calls in
flight, the controls of a form. Hard: answers arrive late, out of order or never, for
views that are gone. Correct if the screen shows what was asked for last and a
loading notice ends.

**Acceptance tooling.** Starts the application in a directory of its own, lets a model
choose among the actions the page offers, records what was executed, and replays the
recording without a model. State: the child process and its port, the page, the
progress of the scenario, the recording, the report. Hard: the deadline, the death of
the server, a neighbour on the port, lost answers, forms that keep earlier entries.
Correct if a pass has evidence, a submission is the intended candidate and a replay
repeats.

**Application composition, infrastructure, deployment.** A design (HTTP options,
storage, parts) is compiled, checked against the capabilities of a backend, resolved
to a plan and deployed; a process then opens its database, builds its services, starts
its background and serves. State: the stack, the disk, the processes, the topology the
execution store records, the routes. Hard: options pass through four sets of defaults,
a start fails half-way, two processes start at once, a stack is replaced or removed.
Correct if what is declared is what is served, acknowledged rows last as promised, and
processes that share work share a topology.

**Telemetry.** Signals, exporters, and a gateway for the browser's batches with a
request window per address in a table of bounded size. Correct if the limits hold and
nobody is refused for what others sent, until the table is full.

**Report exports.** State: the table of accepted exports and the audit table
(application database); executions, a deferred for the release and a queue of jobs
(the engine's database); the files; in memory, what the relay, the callers of
`Generate`, the workflow bodies, the queue workers and `Poll` hold between two steps.
Operations: `Generate`, `GenerateDiscard`, `Poll`, `Release`, `GenerateResume`,
`Cancel`, `Reconcile`, and in the background the relay, the workflow and the writer.
Hard: nothing updates the three stores together; the body is replayed, the job
delivered again, the dispatch repeated; operators act between any two steps. Correct
if a cancelled export writes nothing, both databases agree about success, audits are
true, a file is what its row says, and every accepted export settles.

**Field notes.** State per replica: a journal of edits and a projection of it.
Operations: edit, synchronize, rebuild. Hard: nothing makes journal and projection
one step. Correct if readers see the winner of the journal.

**Other parts.** Table compiler, DDL, read models, RPC, CLI and MCP derivation,
inspection, feature flags, and the remaining examples: see "Not modelled".

The hazards found in this code, each at its line and with the properties aimed at it,
are listed in `PROJECT.json`.


## How state and actions correspond to the code

One rule decides the grain everywhere: **a transaction of the code is one action,
and so is a statement outside a transaction; every await between two of them is
a point at which other requests, other processes, the clock or a crash may run.**
The client of `sqlite/runtime.ts` has one connection that a transaction holds
until it commits, so transactions of one process do not interleave; SQLite's
locking gives the same for two processes. An operation that is refused changes
nothing and is a stuttering step, except where a failure is a step the code
continues from (`ensure`) or where the request's memory is released. `Commands`
is the module that looks inside that rule: there a transaction is several steps,
and what the rule says is what it is shown to implement.

`Identity`. `account`, `session`, `invite` and `reset` are the four tables;
`client` is what a handler remembers between awaits: the hash `login` captured
(`verifying`), the account it verified (`granted`), the identity `authenticate`
read (`authenticated`), the token `resetPassword` looked up (`hashing`). `server`
is `starting` while the layer seeds. `permits` is the semaphore; hashing of a new
password takes no permit in the code and none here. Random tokens and session
ids are model values that are drawn at most once. The clock does not go back and
is capped by `MaxTime`; lifetimes are parameters. Fields and row states called
"history" are not columns: they say what a row was granted for.

`Groups`. `group`, `member`, `direct` and `granted` are the tables, `account` the
accounts of `Accounts`, so that `Groups` composes with everything `Identity` is
shown to do. `client` is the captured actor.

`Repository`. `table` maps keys to rows, `copy` is the last answer each client
received (a submitted row may have any content and any expected version, copies
included), and `client` the `ensure` in progress. The policy is given by a
relation for the scope and one for each action's rule, so the theorems hold for
every policy of that form. `life` and `writer` are history. The rows of one
resource are modelled; relations between tables are not.

`Policies`. What `Repository` takes as given. A value is a kind and one of two
contents of that kind, or null; what SQLite stores of it, and what `typeof` and the
comparison of two stored values say, is modelled by storage class. A policy is a tree
that the code folds (`Policy.fold`): the trees and their parts are in `Terms`, and a
fold is a recursive function on these, which descends in `Depth`. A definition is
compiled or rejected, and one that compiles is served. A request is admitted by its
claims alone, then reads and checks; grants come, go and expire in between, and the
clock moves (`MaxNow`). `GrantRows` are the rows of an entitlement's source, read
by a statement of their own.

`Migrations`. `catalog` abstracts tables and indexes to a schema name, `ledger`
is the ledger table, `process` where each process is in `prepare`. An artifact
stands for the whole migration, so an edited migration is another artifact with
the same id; `Steps` says what executing it makes of each catalog, or that it
fails.

`KeysetList` and `AdminClient`. The table is at the server, and answering a request
is one statement of it (`KeysetList`). `content` is what the screen shows: a view with
its page, its notice, its cursors. A request occupies a slot from the click to its
answer, and remembers which view and which submission it belongs to, as the fibers of
the client do; an answer for a view that is gone is still delivered (`Detached`,
`Orphan`). `walk` and `still` are history: the pages followed so far and the rows
nobody touched since the first.

`GeneratedForm`, `InputCases`, `Acceptance`. A payload is a set of pairs of a path and
a value; numbers are counted in halves, so that an integer field has values that do
not fit. `pc` is where the runner's program is, `host` the directory, the port and the
child process, and `progress`, `recording` and `report` are the records of those
names. A run records, the next one replays. `Neighbour`, `Listen` and `Exit` are the
environment: another program takes the port, the child begins to listen, or dies.
What the model chooses is any action the page offers. The evaluators may pass any of
the scenario's requirements once closing evidence is captured and none without it.

`Commands`. `db` is the database, `work` what the open transaction has done to it and
`holder` the caller whose transaction has the connection; `calls`, `left` and `answer`
are the calls in progress and how they ended. A handler is a script, the
statements it executes in order, each of which sees what the earlier ones read; a step
executes one of them;
`Break`, `Interrupt` and `Crash` are a failing statement or commit, a caller that goes
away, and the death of the process. `AtomicCommands` executes a handler at once.
`Billing`, `Inventory`, `SupportCases`, `Elections` and `Expenses` are handlers with
the guards, WHERE clauses and errors of the examples' SQL, and `Applications` serves
one of them.

`NoteSync`. `journal` and `note` are the two tables of a replica, `work` what each of
its activities (an edit, a synchronization, a rebuild) has still to apply, and `lost`
is history: the edits that were journaled and that a crash, or a rebuild that read the
journal before them, left to nobody.

`Infrastructure`, `Gateway`, `Deployment`. `Infrastructure` is pure: definition,
compiler, capabilities, plan and HTTP options, in the order the code has them. A
behaviour of `Deployment` chooses its `site` once (backend, stage, designs, binaries,
traffic) and then deploys, starts, fails, upgrades and removes. A process goes through
`starting`, `prepared`, `recorded`, `services`, `background` and `serving`, the order
in which its layers are built. `windows` is the gateway's table, `requests` what it
answered.

`ReportExports`. `row` and `audit` are the application's tables. A command of an
operator is a transaction `tx[o]` of four actions: its guard (`Begin`), the call
into the engine's database (`ResumeEngine`, `ReleaseEngine`, `InterruptEngine`, or
the writer for `Reconcile`), and `Commit` or `Abort`, after which the engine keeps
what it was told. The README of the example lets several processes share the
databases, so others may write in between: `Cancel` begins with an UPDATE and
holds SQLite's write lock to its end (`Unlocked`); the others only read until they
audit, so a write of another connection makes them `stale`, and SQLite refuses
their commit. The statements of `executions.ts` (`accept`, `markDispatched`,
`succeed`, `fail`, and the UPDATE of `BeginWriting`) keep their WHERE clauses.
`engine`, `at`, `released`, `signal` and `queue` are the library's: an execution
starts once per id with the payload of its first caller, a replay goes back to
the start and finds the result of the activity and of the job, the first answer
to a job and to the deferred stays, and a failure suspends (`SuspendOnFailure`).
What the library makes of the body's own interrupt is left open, and so is
whether an execution that has not started keeps a signal. `written` is history.

## What the runs check

Each property is aimed at a hazard of `PROJECT.json`.

| run | bounds | shows |
|---|---|---|
| `Identity` | 2 seeded accounts, 1 username to register, 2 reset tokens, 1 invitation, 2 sessions, 2 requests for 1 permit, lifetimes and clock of 1 | no session survives a password replacement it preceded (`SessionsOutliveNoReset`), at most one stored token per open account (`OneResetPerOpenAccount`), a token replaces one password and an invitation admits one account (`CredentialsSpentOnce`), on an authority that holds at that moment (`AuthorityIsCurrent`), inside the tenant (`TenantBoundary`); no permit is lost (`PermitsConserved`); accounts are permanent (`ImplementsAccounts`) |
| `Groups` | 3 accounts, 2 tenants, 1 group, 2 requests | `LinksStayInTenant`, `GainNeedsAdmin`, and `check` implements `TenantRights` |
| `Repository` | 2 subjects, 1 key, versions to 3, 3 lives, a seed | `VersionIdentifiesRow` (no lost update in a row's life), `WritesStayInScope`, every step is one of `VersionedTable` |
| `Policies` | every equality and inclusion of 22 operands over columns of every kind; 3 served definitions | SQL and memory agree (`EvaluatorsAgree`), `AllowedWriteIsReadable`, `PreflightRefusesOnlyHopeless` |
| `Migrations` | 2 processes, 5 releases over 6 artifacts | the catalog and its rows are what the ledger says (`LedgerTellsTruth`), `OneHistory` |
| `AdminClient` | 3 rows of which 1 does not exist at first, a nullable column in ascending order, pages of 1 or 2 rows, 2 requests in flight, 3 clicks, 2 writes | `ListsEveryStableRow`, `ShowsLatestRequest`, `LoadingEnds` |
| `ListPaging_Nulls` | 2 rows, descending order, nobody writes | the finding below |
| `Acceptance` | 2 operations, 8 cases of inputs, 6 scenarios, 8 actions | a pass has its submissions, and the evidence its requirements ask for (`EvidenceBacksPass`), what is submitted is the candidate (`SubmittedIsCandidate`), a replay repeats what was recorded or fails (`ReplayRepeats`), what validation let through can be applied (`ValidatedInputsApply`) |
| `Commands` | 2 callers of one of five applications, 1 to 4 calls | every transactional command is one step or none (`ImplementsAtomic`); `TotalsAgree`, `StockAccounted`, `TrailTellsTheCase`, `ResultsAreFinal` |
| `NoteSync` | 2 replicas, 3 edits of which 2 tie | a replica that lost nothing shows the winner of its journal (`ShowsTheWinner`) |
| `Deployment` | 200 sites; a gateway with windows for 2 of 4 addresses, 1 request a minute; 2 processes of 3 binaries | `ServedAsDeclared`, `AcknowledgedRowsLast`, `RunnersAgree`, `GatewayLimits` |
| `ReportExports` | 1 export, 2 requests (one needs approval), 1 operator, 1 relay, 1 queue worker, 1 failure | the three stores never contradict one another (`StoresAgree`), `AuditTellsTruth`, `FileMatchesArtifact`, `Settles`, and the example implements `Exports` |

The largest instances have 1.9 million (`Identity`), 3.3 million (`Acceptance`) and
370 thousand (`Commands`) distinct states and take one to two minutes.

**Bounds.** They are small because the hazards are about few actors: two redeemers of
one token, a newer token while an older one is being redeemed, an admin that closes
while its request waits, two processes that both find a migration pending, two
callers of one stock. Two tokens, two requests and two sessions admit each of these;
two logins are one more than the permits of the instance. Three versions include the
boundary at which the successor is refused; three lives let a key be removed and
inserted again twice. One failure is enough to lose a file, abort a command after its
effect on the engine, replay a body or deliver a job twice, and the callers of
`Generate`, the relay, the writer of `Reconcile` and `Poll` are actors of their own
(the safety properties of `ReportExports` were also explored with two workers, and
with two operators). The five releases contain a prefix, a divergence, an edit and
steps that miss their promised schema. For policies two contents per kind tell apart
equal, different and null; deeper terms are built from the comparisons that are all
enumerated. Three rows are the fewest at which a cursor's row, one before and one
after it can move, and three clicks reach a second page and a view opened over a page
still loading, or back to the first page with another page size and on from there.
A form has no limit at first, so the first page is as large as the list allows; at every
later load its limit may have become another. Eight actions are a prepared form, a
submission, a second submission into the same form and the way back, or a form that is
filled twice with different samples before it is sent. A gateway table of two windows is full with two
addresses, which leaves two more of the four for the shared window, and six units of
clock are three minutes. An application that interprets ballots is started with every
bag of five ballots over three candidates whose first choices do not decide.

Symmetry is used for interchangeable accounts, tokens, sessions and requests, in runs
of safety properties only. Deadlock is checked except where the instance may stop
because its clicks, calls, requests or actions are used up (`Policies`, `AdminClient`,
`ListPaging_Nulls`, `Acceptance`, `Commands`, `Deployment`).

**Fairness.** `Settles` assumes that a relay and a workflow that can go on again and
again do (strong fairness: each waits for the write lock, which commands take and
return; the connection's semaphore is first come, first served, and SQLite waits for
another process's lock), that writers and commands that can go on do (weak fairness:
their fibers are scheduled), and that failures are finitely many. The relay repeats
every second and its errors are logged, so it goes on after a failure; the engine
restarts interrupted bodies. No operator is assumed to do anything, which is why an
export that needs a release may wait for ever and a suspended one counts as answered
("Recoverable"). `LoadingEnds` assumes that a browser's `fetch` settles, answered,
refused or lost, and its continuation runs (weak fairness of `Answering(s)` for each
request). The user is assumed to do nothing.

**Mutants.** Every property is broken by a plausible mistake in the code it is about:
a dropped guard, a statement in another order, a boundary off by one. The mistake
stands beside the definition it replaces, as an operator whose name begins with
`Fault`.

**A finding.** `ListPaging_Nulls`: for a descending nullable column the comparison
that skips the rows before the cursor (`sqlite/list.ts:280`) is never true of a null,
and SQLite sorts nulls last there, so a client that follows the cursors never sees
them, although `docs/reference/resources.md:88` tells it to return a cursor "to read
the next page". In ascending order nulls come first and are all seen
(`AdminClient`). Read models refuse such columns.

**Narrower than one might think.** Where a property is weaker than a reader may
expect, the code is why:

- A login whose verification began before a password replacement inserts its session
  after it (`identity/sqlite/index.ts:343`): `SessionsOutliveNoReset` is about the
  sessions inserted before the replacement.
- A self-signup under a username equal to the tenant id of the seeded accounts joins
  that tenant as an admin (`identity/sqlite/index.ts:293`): `TenantBoundary` speaks of
  invitations and resets.
- An admin closed after authentication still completes a group operation
  (`identity/groups/rpc.ts:104`); invitations and resets read the session again
  (`AuthorityIsCurrent`).
- Versions start again at 1 when a key is removed and inserted again
  (`resource/compiler.ts:137`), so a stale copy may match: `VersionIdentifiesRow` holds
  within one life of a row. `ensure`, after a unique violation, answers
  ResourceNotFound if the row is gone again or hidden (`resource/compiler.ts:432`), and
  `patch` writes a status around the declared transitions (`transitions.ts:176`).
- A report ID submitted again with other lines before the relay has dispatched it is
  exported with the later lines and the later release policy
  (`workflow.ts:221`): `FileMatchesArtifact` excepts that execution.
- The list that replaces a mutation's form stays at its loading notice when its first
  load fails (`apps/application-ui/src/client.ts:1262`): `LoadingEnds` excepts it.
- A scenario that states no requirement passes without closing evidence, for there is
  no result that could be inconclusive (`runner.ts:770`, `runner.ts:872`):
  `EvidenceBacksPass` asks for evidence of a scenario with requirements, and of every
  one for its submissions and its reload.
- An edit that a crash, or a rebuild that read the journal before it, left unapplied
  is missing until the next rebuild (`sync.ts`): `ShowsTheWinner` is about replicas that
  lost nothing.
- A window of the gateway starts with a sender's first batch, so a minute that spans two
  windows may see twice the limit: `GatewayLimits` says so, where
  `docs/reference/runtime.md:301` speaks of the limit per minute.
- Two applications of the same contract on one port: a harness whose child lost the
  port to such a neighbour accepts the neighbour's answers.

## What is proved

The theorems hold for every value of the constants that satisfies the module's
assumption. Each safety theorem follows from an inductive invariant; the proof has
one step per action and, under it, one per conjunct the action can disturb.

- `IdentityProofs`: `TypeCorrect`; `SessionsFollowResets`; `OneResetStored`;
  `TenantsAreBounded`; `ImplementsAbstractAccounts`; `CredentialsAreSpentOnce`;
  `AuthorityReadWhenUsed`; `PermitsAreConserved`. A session's `issued`
  generation is its account's current one because the transaction that raises
  the generation revokes every active session of the account. For the tenant
  boundary, tenants and roles must not change and accounts named by a session or
  an invitation must exist, which the strengthening adds. That credentials are spent
  once needs that the redeemed tokens of an account are as many as the replacements of
  its password, and that permits are conserved that the set of verifying
  requests is finite; both are counted in finite sets. `AuthorityIsCurrent` is about a
  step: the transaction that spends a token or issues one reads again what the request
  had read.
- `GroupsProofs`: `TypeCorrect`; `LinksAreLocal`; `RightsComeFromAdmins`;
  `ImplementsTenantRights`. The invariant is `LinksStayInTenant` with the fact
  that every captured actor is an account with that tenant and role
  (`ActorsAreAccounts`): accounts are permanent, which is why a stale actor can
  do no harm across tenants.
- `GroupsProofs`, the policies: `PolicyInvariance`; `MemoryAgreesWithSql`;
  `WritesStayReadable`; `PreflightIsSound`, for any schemas, definitions, terms of any
  depth, rows, claims and entitlements. That a fold gives every term a value
  (`Fixpoint`) and that what passes from parts to wholes holds of all terms
  (`TermInduction`) rest on `Depth`. What a description says of a value (`FieldFits`,
  `LiteralFits`) makes the two comparisons of a checked terminal equal
  (`ComparesScalars`, `TerminalAgrees`), and from the terminals to the policy both
  evaluators fold alike (`FoldsAgree`), although the one in memory stops at the first
  child that decides and SQL binds them all. The other two theorems follow: a scope and
  a rule for reading know no next row, so what was checked with the candidate is what
  the next list selects; and a policy or key about the subject is the same for all rows.
- `RepositoryProofs`, the repository: `TypeCorrect`; `VersionsIdentifyRows`;
  `WritesInScope`; `ImplementsVersionedTable`. A copy's version is at most the stored
  one within a life, and equal only if nothing was written since.
- `RepositoryProofs`, the client that pages through a list of it: `ClientTypeCorrect`;
  `LatestRequestShown`; `StableRowsListed`, for any rows, page sizes, writes and number of
  requests in flight. The declared order with the identifier as its last field is total
  (`RowOrder`), so a finite set of rows can be sorted (`SortExists`) and a page holds
  exactly the untouched rows that match between two marks of the order, the cursor it was
  asked with and the one it hands out (`PageIs`, `Covers`). The invariant says that the
  pages read so far are such pages between the cursors a request carries
  (`Walked`), of every request in flight and every page on the screen, whichever
  of Next, Back and a new filter asked for it; and that one load at most is in flight for a view
  (`OneLoad`), which is what the disabled buttons and the emptied page bring about.
  `StableRowsListed` has the hypothesis `NullsFirst`, that no null is ordered after a
  value: without it the keyset is not "after the cursor" (`KeysetIs`) and the property is
  false, as `ListPaging_Nulls` shows. The table is assumed finite (`TableAssumption`).
- `MigrationsProofs`: `TypeCorrect`; `LedgerIsTruthful`; `ServersShareHistory`.
  The ledger at a process's remembered length agrees with its release up to there
  (`Founded`), and the unique position and id of a record make a second application
  fail.
- `CommandsProofs`, the boundary: `CommandsAreAtomic`, a refinement: for any
  applications, callers and failures, a transactional command takes effect at its
  commit, on the database as it is then, or not at all. What the open transaction has
  done is what the first statements of its handler, executed from the last commit, would
  do; where that execution ends is the least of a set of numbers, since it is defined by
  the existence of a run. It assumes of the application `HandlersSound`: handlers are
  scripts, no command declares the database's own error, and a command that may be cut
  between two statements promises nothing across them.
- `CommandsProofs`, the applications behind it: `ApplicationsAreAtomic`,
  `TotalsAlwaysAgree`, `StockIsAccounted`, `TrailTellsEveryCase`, `ResultsStayFinal`.
  Their hypothesis `Serves` says that the constants of `Commands` are what the served
  bundle makes of them (`Applications`), and that a request is not the absence of one;
  `ApplicationsAssumption` says what the payload schemas say (amounts and quantities are
  positive, a ranking is not empty), and `StoredAssumption` that a database an
  application starts from is one its own commands could have left (`WellFormed`, which
  TLC evaluates for every stored election of the run). `HandlersSound` is derived there,
  not assumed. The inductive invariant is `IInv`, which relates the open transaction to
  the last commit, with `AInv`: what each application's database always is (`DbOK`),
  what an answer still says of the database as it has become since (`AnswerOK`), and that a
  call in progress is one of the application's requests (`AskedOK`). The step lemma of an
  application is about a whole handler; that the interleaving of statements cannot come
  between is taken from the first part. Three arguments carry the data:
  - *Sums* of amounts and quantities: `SumFunctionOnSet` folds over a set in an order it
    chooses, and it is shown that the order does not matter, that adding or changing one
    element changes the sum by its difference, and that sums are natural numbers.
  - *Trails*: one event and one audit per version, so the version of a case is the length
    of its trail, and the update that a stale version refuses is what keeps two agents from
    adding the same event.
  - *Tallies*: a count eliminates in rounds, so what it computes is shown by induction
    on the number of candidates left, over a set of naturals. Every round keeps two
    candidates at least and some ballot that counts, and after the first of them nobody
    has a majority of the first choices and everybody left has a first choice (`Kept`). A round
    that goes on eliminates exactly one candidate, and who wins a round beats another of
    its candidates head to head (`WinnerBeats`), so whatever a count ends with may be
    defended (`TallyDefended`).
- `BrowserProofs`, the replicas: `TypeCorrect`; `WinnerShown`, for any replicas and edits. What a
  replica shows, with what it has still to apply and what it lost, has the winner of
  its journal among it; edits are totally ordered.
- `BrowserProofs`, the acceptance harness: `PassesAreBacked`, `AcceptedInputsApply`,
  `FormsSendCandidates`, `ReplaysRepeat`. The
  invariant (`HarnessInv`) counts the calls of a case against the submissions of the run:
  at every point of the loop a case was called as often as it is recorded, but for
  the one being submitted, whose call may have been made and not answered, which ends
  the interaction; so every submitted case was called exactly once when the interaction
  is over. A requirement passes only on closing evidence, which is captured after that; a
  scenario that states no requirement (`requirements: []`, which `model.ts` and
  `catalog.ts` accept) has no results, and `runner.ts` passes it although the closing
  evidence failed, which the theorem leaves open and an instance of the run reaches. A reload is the last step of a scenario, since it is offered only
  when nothing else is missing, so the page is still fresh then. Neither argument asks
  what a contract's codec accepts. `AcceptedInputsApply` follows the sources through
  resolution and replay: one that the catalog accepts never fails with the boundary
  `unsupported`. Its hypothesis, `UnaryOperations`, is needed: the catalog does not ask
  whether an operation streams, and one that does fails when it is first offered.
  `FormsSendCandidates` is about the form as a tree: whatever toggle is ticked, some control
  under it is included (`Backed`, which filling preserves and no other action of the harness
  disturbs), so a form whose controls all agree with the candidate includes no object that
  the candidate leaves out, and by `Complete` or `Anchored` leaves out none that it has. Its
  hypotheses are about payloads: they are trees, each source gives a value under its own
  member, and what a codec returns conforms to the schema of the form (`PayloadsAreTrees`);
  and a candidate that the codec is to reject, which need not conform, cannot leave out a
  mandatory object whose members are all optional (`RejectedAreAnchored`). Such a candidate
  would be offered and sent with `{}` for the object, which the harness
  notices only after the call (`browser.ts`, `submissionOf`).
  `ReplaysRepeat` rests on what any two resolutions of a case share (`EnteredAgree`,
  `ReplayAgrees`): the members that are stated, whatever fixture, earlier result or draw the
  others come from. The invariant (`ReplayInv`) relates the trace of the run, step by step,
  to the recorded one (`Repeats`) and to the submissions and the reload (`ProgressTold`), so
  that the two runs are complete at the same step: the loop stops there, no sooner and no
  later. Besides `PayloadsAreTrees` it needs `CodecsKeepMembers`: a codec encodes a member
  the same whatever the others are, and leaves an encoded one as it is. Every codec
  that is a structure of fields does; the code checks it of literals only
  (`inputs.ts`, `replayCandidate`). Two limits of what a replay repeats came out of this
  proof, and the property has them: a candidate is sampled to go with the values that its
  case has by then, so a case that was entered, and entered again after another result, is
  recorded with both samples and replayed with the one that was sent (`inputs.ts`,
  `sampleWhole`; `runner.ts`, `matchesRecorded`); and a scenario that requires nothing is
  complete before anything is executed, so its replay passes whatever the recording holds
  (`runner.ts`, `isComplete`). The run has a scenario for each.
- `DeploymentProofs`: `TopologyShared`, `RowsLast`, `LimitsHold`, `RoutesAsDeclared`. Between recording a
  topology and comparing it a process relies on there being one, of some binary. What a
  deployment or a removal takes off the disk is promised no longer (`RemovalForgets`).
  For the limit, windows and log are related by counting: as long as the gateway's table
  is not full no window is dropped and every sender has one, so what passed since the
  window started and what passed in the minute before it are each within the limit. For
  the routes, the design of a process that is up has compiled (`RoutesInv`), an option
  comes out of publication, lookup and resolution as the endpoint it declares or as none
  (`EndpointsAre`), and the paths the compiler compared are all the paths of the routes
  (`RoutePaths`). That no two routes share a path needs the hypothesis
  `ApartFromGateway`: the compiler compares publications with each other and does not
  know the gateway's routes, so a design that publishes RPC at `/otel/v1/traces`
  compiles.
- `ReportExportsProofs`: `TypeCorrect`; `StoresNeverDisagree`; `AuditIsEvidence`;
  `FilesMatch`; `Refinement`, for any
  number of exports, operators, relays, workers and failures. The three stores are
  never updated together, so the invariant (`IInv`, theorem `Inductive`) says of
  every place an export can have come to (body, queue, writer, file) how far its row must
  be (`Underway`), what the engine never takes back (`Settled`), that a writer
  carries the job of the execution or the one retained in a succeeded row
  (`Carried`), and what a transaction or a poll that read earlier may still rely on
  (`Relied`: a cancel holds the write lock, so its row has not moved). The steps are
  first summed up per export (`RowStep`, `EngineStep`, `BodyStep`, `QueueStep`,
  `FileStep`) and per transaction (`TxStep`), and the invariant follows from those.

Assumptions: sessions, tokens and group ids are fresh; transactions are atomic and
serialised (`Commands` relies on the semaphore only); the clock does not go back
(`Identity`, `Gateway`); rows and subjects are decoded by their schemas, and a policy is
finite (`Policies`); `ReportExports` assumes of the workflow library what the section on
its state says.

**Only model-checked.** `Settles` and `LoadingEnds`, which are liveness properties.

## Not modelled

`PROJECT.json` gives each component's status and reason. In short:

- *Compilers of text*: the table compiler and DDL, CLI and MCP derivation, inspection,
  the rendering of the UI, evidence files. Their content is strings and schema trees;
  a model would repeat them.
- *Read models*: joins over the resources' tables, paged as a list is; `KeysetList` is
  the part they share.
- *RPC*: transport. A lost answer and a repeated call are in `Commands`.
- *Feature flags, metrics and traces*: a provider or an exporter of another library is
  called; nothing is kept.
- *Appointment reminders*: delayed messages of a cluster entity, whose timing and
  delivery are the library's. *Team tasks*: a permission of one database is checked
  before rows of another are written (`review.ts:26`); `Groups` and `Repository`
  hold on each side, and between them the code promises nothing. The *repair workshop* and the
  other examples declare resources without behaviour of their own.
- *Parts left out of modelled components*: `listMembers` reads in three statements and
  may answer for a group that is gone (`groups.ts:179`); relations between tables; a
  provider's volumes that no stack names, and redeployments that change the durability of a
  database, which the model does not make; the harness's worker process; operations
  that stream, which a catalog may name and which fail when first offered
  (`inputs.ts:122`); `browser: false` in a telemetry option (`browser.ts:250`). The
  compiler's check for colliding paths does not know the gateway's; a UI path with a
  trailing slash compiles and is refused at the start (`ui/index.ts:60`,
  `Servable`).

Liveness and `ENABLED` are beyond the prover. So are the library's induction theorems,
which take an operator; where a proof needs induction (the execution of a script, a sum,
the rounds of a count, a sorted page, a walk of pages, the depth of a policy) it is done
on a set of natural numbers, whose least element is a fact about sets, and recursion is
written as a function or a fold.

## Plan

Done: everything in the table above, in the order identity, groups, repository,
migrations, report exports, policies, paging and its client, the acceptance harness,
commands with their five applications, field notes, deployment. Next:

1. Read models over `KeysetList`.
2. The team-tasks composition of `Groups` with `Repository`; appointment reminders over
   an abstract entity.
