----------------------------- MODULE Migrations -----------------------------
(***************************************************************************)
(* SqliteMigrations.prepare: how a starting process brings a SQLite file   *)
(* to the schema of its release.  It reads the ledger, verifies that the   *)
(* catalog is where the ledger says, applies the pending migrations, each  *)
(* in a transaction of its own, and verifies the result.  Between two of   *)
(* these statements the process may die, or another process, perhaps of    *)
(* another release, may do the same on the same file.                      *)
(*                                                                         *)
(* An artifact is a whole migration: its id, its steps and the schema it   *)
(* promises.  Editing a migration makes another artifact of the same id.   *)
(***************************************************************************)
EXTENDS Integers, Sequences

CONSTANTS
  Artifacts,
  Ids,
  IdOf,       \* the id of each artifact
  Schemas,    \* what the catalog may look like
  Empty,      \* the catalog of a new file
  To,         \* the schema each artifact promises
  Steps,      \* what its steps make of each catalog, if they can be executed
  Failed,     \* they cannot
  Releases,   \* migration histories that applications are built with
  Processes

ASSUME MigrationsAssumption ==
  /\ IdOf \in [Artifacts -> Ids]
  /\ Empty \in Schemas
  /\ Failed \notin Schemas
  /\ To \in [Artifacts -> Schemas]
  /\ Steps \in [Artifacts -> [Schemas -> Schemas \cup {Failed}]]
  /\ Releases \subseteq Seq(Artifacts)

VARIABLES
  catalog,  \* the tables and indexes of the file
  ledger,   \* the recorded artifacts, by position
  process,  \* where each process is in prepare
  runs      \* history: how often the steps of an artifact were committed

vars == <<catalog, ledger, process, runs>>

Down == [pc |-> "down"]
Progress ==
  {Down}
  \cup [pc : {"reading", "finishing", "serving"}, release : Releases]
  \cup [pc : {"verifying", "migrating"}, release : Releases, done : Nat]

TypeOK ==
  /\ catalog \in Schemas
  /\ ledger \in Seq(Artifacts)
  /\ process \in [Processes -> Progress]
  /\ runs \in [Artifacts -> Nat]

Init ==
  /\ catalog = Empty
  /\ ledger = <<>>
  /\ process = [p \in Processes |-> Down]
  /\ runs = [m \in Artifacts |-> 0]

-----------------------------------------------------------------------------

\* The schema a history has reached after n migrations.
historySnapshot(history, n) == IF n = 0 THEN Empty ELSE To[history[n]]

\* The ledger is no longer than the history of the release, and each record
\* has the id and the text of the migration at its position.
FaultCompareLengths(release) == Len(ledger) <= Len(release)
Supplied(release) ==
  /\ Len(ledger) <= Len(release)
  /\ \A i \in DOMAIN ledger : ledger[i] = release[i]

\* How many migrations need not be applied.
Recorded == Len(ledger)

\* verifyDatabase: the catalog is the expected one.
FaultUnverified(actual, snapshot) == actual # Failed
verifyDatabase(actual, snapshot) == actual = snapshot

\* The INSERT into the ledger: the position is its primary key, ids are unique.
Recordable(m, position) ==
  /\ position \notin DOMAIN ledger
  /\ \A i \in DOMAIN ledger : IdOf[ledger[i]] # IdOf[m]

Become(p, progress) == process' = [process EXCEPT ![p] = progress]

-----------------------------------------------------------------------------

\* A process starts; its history has unique ids and ends at its tables.
Boot(p, release) ==
  /\ process[p] = Down
  /\ Become(p, [pc |-> "reading", release |-> release])
  /\ UNCHANGED <<catalog, ledger, runs>>

\* The ledger is read once; only its length is remembered.
ReadLedger(p) ==
  /\ process[p].pc = "reading"
  /\ Supplied(process[p].release)
  /\ Become(p, [pc |-> "verifying", release |-> process[p].release,
                done |-> Recorded])
  /\ UNCHANGED <<catalog, ledger, runs>>

VerifyCurrent(p) ==
  /\ process[p].pc = "verifying"
  /\ verifyDatabase(catalog,
       historySnapshot(process[p].release, process[p].done))
  /\ Become(p, [process[p] EXCEPT !.pc = "migrating"])
  /\ UNCHANGED <<catalog, ledger, runs>>

\* One transaction: the steps run on whatever the catalog is by now, the result
\* is verified, and the artifact is recorded after the one done before.
applyMigration(p) ==
  LET m == process[p].release[process[p].done + 1]
      result == Steps[m][catalog]
  IN  /\ process[p].pc = "migrating"
      /\ process[p].done < Len(process[p].release)
      /\ result # Failed
      /\ verifyDatabase(result, To[m])
      /\ Recordable(m, process[p].done + 1)
      /\ catalog' = result
      /\ ledger' = Append(ledger, m)
      /\ runs' = [runs EXCEPT ![m] = @ + 1]
      /\ Become(p, [process[p] EXCEPT !.done = @ + 1])

\* Nothing is pending, and the catalog is the schema of the application.
VerifyTarget(p) ==
  /\ process[p].pc = "migrating"
  /\ process[p].done = Len(process[p].release)
  /\ verifyDatabase(catalog,
       historySnapshot(process[p].release, process[p].done))
  /\ Become(p, [pc |-> "finishing", release |-> process[p].release])
  /\ UNCHANGED <<catalog, ledger, runs>>

\* The layers above the store are built.
Serve(p) ==
  /\ process[p].pc = "finishing"
  /\ Become(p, [process[p] EXCEPT !.pc = "serving"])
  /\ UNCHANGED <<catalog, ledger, runs>>

\* Any check or statement fails and startup ends with a MigrationError, or the
\* process is killed.  The transaction in progress is rolled back.
Stop(p) ==
  /\ process[p] # Down
  /\ Become(p, Down)
  /\ UNCHANGED <<catalog, ledger, runs>>

Start(p) ==
  \/ \E release \in Releases : Boot(p, release)
  \/ ReadLedger(p)
  \/ VerifyCurrent(p)
  \/ applyMigration(p)
  \/ VerifyTarget(p)
  \/ Serve(p)
  \/ Stop(p)

Next == \E p \in Processes : Start(p)

Spec == Init /\ [][Next]_vars

-----------------------------------------------------------------------------

\* The catalog is never between two migrations, nor where an interrupted one
\* left it: it is what the last recorded artifact promises.
SchemaFollowsLedger == catalog = historySnapshot(ledger, Len(ledger))

\* The steps of an artifact are committed once if it is recorded and never
\* otherwise, though two processes may both have found it pending; steps that
\* transform rows would otherwise transform them twice.
AppliedOnce ==
  \A m \in Artifacts :
    runs[m] = IF \E i \in DOMAIN ledger : ledger[i] = m THEN 1 ELSE 0

LedgerTellsTruth == SchemaFollowsLedger /\ AppliedOnce

\* A process that serves was built with a history that the file has followed
\* from its first record on: two servers of diverging releases never share it.
OneHistory ==
  \A p \in Processes : process[p].pc \in {"finishing", "serving"} =>
    LET release == process[p].release
    IN  /\ Len(release) <= Len(ledger)
        /\ \A i \in DOMAIN release : ledger[i] = release[i]
=============================================================================
