----------------------------- MODULE Repository -----------------------------
(***************************************************************************)
(* The repository that a resource is compiled to: create, get, update,     *)
(* patch, remove, transition and ensure over one SQLite table, under the   *)
(* resource's policy and, when it declares a version field, its optimistic *)
(* concurrency control.  A writing operation is one transaction, hence one *)
(* action; a read is one statement; ensure is a read, a transaction and,   *)
(* after a unique violation, another read.  Between them other clients     *)
(* run, so what a client knows of a row is a copy that may be stale.       *)
(*                                                                         *)
(* An operation that fails changes nothing and is not an action, except    *)
(* where a failure is a step of ensure.                                    *)
(***************************************************************************)
EXTENDS Integers

CONSTANTS
  Clients,
  Subjects,     \* the claims a client is authenticated with
  SubjectOf,
  Keys,
  Fields,       \* the fields of a row but its key and version
  Values,
  Contents,     \* the field values that satisfy the canonical schema
  StatusField,  \* the field of the status machine
  Moves,        \* its declared edges, as <<from, to>>
  Scope,        \* <<subject, content>> pairs the scope policy accepts
  Rules,        \* for each action, the <<subject, row, next>> it allows
  Seeds,        \* rows that are passed to ensure
  Versioned,    \* whether the resource declares a version field
  MaxVersion,   \* the largest integer the version schema accepts
  MaxLives,     \* bound on the rows a key may have one after the other
  Absent        \* no row, no copy

Actions == {"read", "create", "update", "patch", "remove", "transition"}
Versions == 1..MaxVersion
Rows == [content : Contents, version : Versions]

ASSUME RepositoryAssumption ==
  /\ SubjectOf \in [Clients -> Subjects]
  /\ StatusField \in Fields
  /\ Contents \subseteq [Fields -> Values]
  /\ Scope \subseteq Subjects \X Contents
  /\ Rules \in [Actions -> SUBSET (Subjects \X Contents \X Contents)]
  /\ Versioned \in BOOLEAN
  /\ MaxVersion \in Nat \ {0}
  /\ MaxLives \in Nat
  /\ Seeds \subseteq [key : Keys, row : Rows]
  /\ Absent \notin Rows
  /\ Absent \notin [key : Keys, row : Rows, life : Nat]

VARIABLES
  table,   \* the row of each key
  copy,    \* the row each client was last answered
  client,  \* the ensure each client has in progress
  life,    \* history: how many rows the key has had
  writer   \* history: the subject that changed the key last

vars == <<table, copy, client, life, writer>>

Idle == [pc |-> "idle"]
Copies == {Absent} \cup [key : Keys, row : Rows, life : Nat]
Ensures ==
  {Idle} \cup [pc : {"inserting", "recovering"}, seed : Seeds]

TypeOK ==
  /\ table \in [Keys -> Rows \cup {Absent}]
  /\ copy \in [Clients -> Copies]
  /\ client \in [Clients -> Ensures]
  /\ life \in [Keys -> Nat]
  /\ writer \in [Keys -> Subjects \cup {Absent}]

Init ==
  /\ table = [k \in Keys |-> Absent]
  /\ copy = [c \in Clients |-> Absent]
  /\ client = [c \in Clients |-> Idle]
  /\ life = [k \in Keys |-> 0]
  /\ writer = [k \in Keys |-> Absent]

-----------------------------------------------------------------------------
(* Authorization.                                                          *)

\* Authorization.check: the scope accepts the current row and the candidate,
\* the rule of the action allows the pair, and the candidate can be read.  A
\* creation has no current row and a removal no candidate: row = next.
FaultScopeOfCurrent(action, s, row, next) ==
  <<s, row>> \in Scope /\ <<s, row, next>> \in Rules[action]

Authorized(action, s, row, next) ==
  /\ <<s, row>> \in Scope
  /\ <<s, next>> \in Scope
  /\ <<s, row, next>> \in Rules[action]
  /\ <<s, next, next>> \in Rules["read"]

\* The clause of every SELECT, UPDATE and DELETE: scope and read rule.
Visible(s, k) ==
  /\ table[k] # Absent
  /\ <<s, table[k].content>> \in Scope
  /\ <<s, table[k].content, table[k].content>> \in Rules["read"]

-----------------------------------------------------------------------------
(* Steps of the store.                                                     *)

Answer(c, k, row) ==
  copy' = [copy EXCEPT ![c] = [key |-> k, row |-> row, life |-> life'[k]]]

\* INSERT ... RETURNING: the primary key must be free.
Insert(c, k, row) ==
  /\ table[k] = Absent
  /\ life[k] < MaxLives
  /\ Authorized("create", SubjectOf[c], row.content, row.content)
  /\ table' = [table EXCEPT ![k] = row]
  /\ life' = [life EXCEPT ![k] = @ + 1]
  /\ writer' = [writer EXCEPT ![k] = SubjectOf[c]]
  /\ Answer(c, k, row)

\* versionReplacement and its guard: the stored version must be the expected
\* one, and the candidate carries its successor, which the schema must accept.
NextVersion(k, expected) ==
  IF Versioned THEN expected + 1 ELSE table[k].version

FaultUnguarded(k, expected) == TRUE
VersionGuard(k, expected) == Versioned => table[k].version = expected

\* encodeRow: the candidate satisfies the canonical schema.
Canonical(row) == row \in Rows

\* UPDATE ... WHERE policy AND key AND guards, in the transaction that
\* selected the row.
Replace(c, action, k, content, expected) ==
  LET row == [content |-> content, version |-> NextVersion(k, expected)]
  IN  /\ Visible(SubjectOf[c], k)
      /\ Canonical(row)
      /\ Authorized(action, SubjectOf[c], table[k].content, content)
      /\ VersionGuard(k, expected)
      /\ table' = [table EXCEPT ![k] = row]
      /\ UNCHANGED life
      /\ writer' = [writer EXCEPT ![k] = SubjectOf[c]]
      /\ Answer(c, k, row)

Changes(fields) == UNION {[some -> Values] : some \in SUBSET fields}

Merge(content, changes) ==
  [f \in Fields |-> IF f \in DOMAIN changes THEN changes[f] ELSE content[f]]

-----------------------------------------------------------------------------
(* Operations.                                                             *)

\* find, get and an item of list.
Read(c, k) ==
  /\ Visible(SubjectOf[c], k)
  /\ UNCHANGED <<table, client, life, writer>>
  /\ Answer(c, k, table[k])

\* A version field is generated: the first one is 1.
Create(c, k, content) ==
  /\ Insert(c, k, [content |-> content, version |-> 1])
  /\ UNCHANGED client

\* The submitted row's version is the expected one.
Update(c, k, content, expected) ==
  /\ Replace(c, "update", k, content, expected)
  /\ UNCHANGED client

\* The changes are merged with the row read in the same transaction.
Patch(c, k, changes, expected) ==
  /\ table[k] # Absent
  /\ Replace(c, "patch", k, Merge(table[k].content, changes), expected)
  /\ UNCHANGED client

\* A declared edge must leave the current status; the other changes come with it.
Transition(c, k, move, changes, expected) ==
  /\ table[k] # Absent
  /\ table[k].content[StatusField] = move[1]
  /\ Replace(c, "transition", k,
       [Merge(table[k].content, changes) EXCEPT ![StatusField] = move[2]], expected)
  /\ UNCHANGED client

\* No version is expected of a removal.
Remove(c, k) ==
  /\ Visible(SubjectOf[c], k)
  /\ Authorized("remove", SubjectOf[c], table[k].content, table[k].content)
  /\ table' = [table EXCEPT ![k] = Absent]
  /\ writer' = [writer EXCEPT ![k] = SubjectOf[c]]
  /\ UNCHANGED <<copy, client, life>>

Become(c, ensure) == client' = [client EXCEPT ![c] = ensure]

\* ensure looks the key up; a row that is found is its answer (Read).
BeginEnsure(c, seed) ==
  /\ client[c] = Idle
  /\ ~Visible(SubjectOf[c], seed.key)
  /\ Become(c, [pc |-> "inserting", seed |-> seed])
  /\ UNCHANGED <<table, copy, life, writer>>

\* The insertion is a transaction of its own.  Meanwhile somebody else may
\* have inserted the key, or it is hidden from this subject.
FaultEnsureReplaces(c) ==
  LET seed == client[c].seed
  IN  /\ client[c].pc = "inserting"
      /\ table' = [table EXCEPT ![seed.key] = seed.row]
      /\ life' = [life EXCEPT ![seed.key] =
                    IF table[seed.key] = Absent THEN @ + 1 ELSE @]
      /\ writer' = [writer EXCEPT ![seed.key] = SubjectOf[c]]
      /\ Answer(c, seed.key, seed.row)
      /\ Become(c, Idle)

EnsureInserts(c) ==
  /\ client[c].pc = "inserting"
  /\ Insert(c, client[c].seed.key, client[c].seed.row)
  /\ Become(c, Idle)

EnsureDuplicate(c) ==
  LET seed == client[c].seed
  IN  /\ client[c].pc = "inserting"
      /\ table[seed.key] # Absent
      /\ Authorized("create", SubjectOf[c], seed.row.content, seed.row.content)
      /\ Become(c, [pc |-> "recovering", seed |-> seed])
      /\ UNCHANGED <<table, copy, life, writer>>

\* get after the unique violation: the row, or ResourceNotFound if it is hidden
\* or was removed again.
EnsureRecovers(c) ==
  LET k == client[c].seed.key
  IN  /\ client[c].pc = "recovering"
      /\ Become(c, Idle)
      /\ UNCHANGED <<table, life, writer>>
      /\ \/ Visible(SubjectOf[c], k) /\ Answer(c, k, table[k])
         \/ ~Visible(SubjectOf[c], k) /\ UNCHANGED copy

\* A statement fails, the insertion is forbidden, or the caller is interrupted.
Abandon(c) ==
  /\ client[c] # Idle
  /\ Become(c, Idle)
  /\ UNCHANGED <<table, copy, life, writer>>

Write(c, k) ==
  \/ \E content \in Contents :
       \/ Create(c, k, content)
       \/ \E expected \in Versions : Update(c, k, content, expected)
  \/ \E changes \in Changes(Fields), expected \in Versions :
       Patch(c, k, changes, expected)
  \/ \E move \in Moves, changes \in Changes(Fields \ {StatusField}),
        expected \in Versions : Transition(c, k, move, changes, expected)
  \/ Remove(c, k)

Ensure(c) ==
  \/ \E seed \in Seeds : BeginEnsure(c, seed)
  \/ EnsureInserts(c)
  \/ EnsureDuplicate(c)
  \/ EnsureRecovers(c)
  \/ Abandon(c)

Next ==
  \E c \in Clients : Ensure(c) \/ \E k \in Keys : Read(c, k) \/ Write(c, k)

Spec == Init /\ [][Next]_vars

-----------------------------------------------------------------------------
(* What the repository promises.                                           *)

\* Every step is an insertion of an absent key, a replacement that raises the
\* version of one row by exactly one, or a removal; whatever ensure does between
\* its statements cannot be seen, and it replaces no row.
Table == INSTANCE VersionedTable
ImplementsTable == Table!Spec

\* No lost update: as long as the row a client was answered has not been
\* removed, a write that expects the version of that answer finds exactly the
\* content of that answer.
VersionIdentifiesRow ==
  \A c \in Clients : copy[c] # Absent =>
    LET k == copy[c].key
    IN  Versioned /\ table[k] # Absent /\ copy[c].life = life[k]
          /\ copy[c].row.version = table[k].version
        => copy[c].row = table[k]

\* A subject changes only rows within its scope, and leaves them in it: nobody
\* edits, removes or takes over a row of another scope, or gives one away.
WritesStayInScope ==
  [][\A k \in Keys : table'[k] # table[k] =>
       LET own(row) == row # Absent => <<writer'[k], row.content>> \in Scope
       IN  own(table[k]) /\ own(table'[k])]_vars
=============================================================================
