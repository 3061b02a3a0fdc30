-------------------------- MODULE RepositoryProofs --------------------------
(***************************************************************************)
(* Theorems about Repository, for every policy, every status machine and   *)
(* any number of clients, keys and versions; and about AdminClient, which  *)
(* pages through a list of the repository in a browser, for any rows, page *)
(* sizes and number of requests in flight.                                 *)
(*                                                                         *)
(* VersionIdentifiesRow is not inductive: after a replacement the stored   *)
(* version must be one that no copy of the same life carries yet.  Hence   *)
(* CopiesAreOlder: a copy is of an earlier life, or its version is at most *)
(* the stored one.                                                         *)
(*                                                                         *)
(* What a browser shows of a list follows from the pages alone: each holds *)
(* the untouched rows between two marks of the declared order (PageIs), so *)
(* the pages read along the marks of a request hold what lies before its   *)
(* cursor (Walked), and every request and answer in flight keeps that.     *)
(***************************************************************************)
EXTENDS Repository, AdminClient, FiniteSetTheorems, SequenceTheorems, TLAPS,
        WellFoundedInduction

USE RepositoryAssumption

\* A copy was taken in a life the key has had; a copy of the present life is
\* not ahead of the stored row.
CopiesAreOlder ==
  \A c \in Clients : copy[c] # Absent =>
    LET k == copy[c].key
    IN  /\ copy[c].life <= life[k]
        /\ table[k] # Absent /\ copy[c].life = life[k] =>
             copy[c].row.version <= table[k].version

IInv == TypeOK /\ CopiesAreOlder /\ VersionIdentifiesRow

-----------------------------------------------------------------------------
(* The five things a step can do to the table and the copies.              *)

Inserted(c, k, row) ==
  /\ table[k] = Absent
  /\ <<SubjectOf[c], row.content>> \in Scope
  /\ table' = [table EXCEPT ![k] = row]
  /\ life' = [life EXCEPT ![k] = @ + 1]
  /\ writer' = [writer EXCEPT ![k] = SubjectOf[c]]
  /\ copy' = [copy EXCEPT ![c] =
                [key |-> k, row |-> row, life |-> life[k] + 1]]

Replaced(c, k, row) ==
  /\ table[k] # Absent
  /\ <<SubjectOf[c], table[k].content>> \in Scope
  /\ <<SubjectOf[c], row.content>> \in Scope
  /\ row.version = IF Versioned THEN table[k].version + 1 ELSE table[k].version
  /\ table' = [table EXCEPT ![k] = row]
  /\ life' = life
  /\ writer' = [writer EXCEPT ![k] = SubjectOf[c]]
  /\ copy' = [copy EXCEPT ![c] = [key |-> k, row |-> row, life |-> life[k]]]

Removed(c, k) ==
  /\ table[k] # Absent
  /\ <<SubjectOf[c], table[k].content>> \in Scope
  /\ table' = [table EXCEPT ![k] = Absent]
  /\ life' = life
  /\ writer' = [writer EXCEPT ![k] = SubjectOf[c]]
  /\ copy' = copy

Answered(c, k) ==
  /\ table[k] # Absent
  /\ UNCHANGED <<table, life, writer>>
  /\ copy' = [copy EXCEPT ![c] =
                [key |-> k, row |-> table[k], life |-> life[k]]]

Unseen == UNCHANGED <<table, copy, life, writer>>

Shape(c) ==
  \/ \E k \in Keys, row \in Rows : Inserted(c, k, row) \/ Replaced(c, k, row)
  \/ \E k \in Keys : Removed(c, k) \/ Answered(c, k)
  \/ Unseen

\* An insertion of the store, whoever asks for it.
LEMMA InsertShape ==
  ASSUME TypeOK, NEW c \in Clients, NEW k \in Keys, NEW row \in Rows,
         Insert(c, k, row)
  PROVE  Inserted(c, k, row)
BY DEF Insert, Answer, Authorized, TypeOK, Inserted

\* A guarded replacement writes a canonical row with the next version.
LEMMA ReplaceShape ==
  ASSUME TypeOK, NEW c \in Clients, NEW k \in Keys, NEW action, NEW body,
         NEW expected \in Versions, Replace(c, action, k, body, expected)
  PROVE  \E row \in Rows : Replaced(c, k, row)
<1> DEFINE row == [content |-> body, version |-> NextVersion(k, expected)]
<1>1. /\ row \in Rows
      /\ table[k] # Absent
      /\ <<SubjectOf[c], table[k].content>> \in Scope
      /\ <<SubjectOf[c], body>> \in Scope
      /\ VersionGuard(k, expected)
      /\ table' = [table EXCEPT ![k] = row]
      /\ life' = life
      /\ writer' = [writer EXCEPT ![k] = SubjectOf[c]]
      /\ copy' = [copy EXCEPT ![c] =
                    [key |-> k, row |-> row, life |-> life'[k]]]
  BY DEF Replace, Canonical, Visible, Authorized, Answer
<1>2. row.version =
        IF Versioned THEN table[k].version + 1 ELSE table[k].version
  BY <1>1 DEF NextVersion, VersionGuard
<1>3. row.content = body
  OBVIOUS
<1>4. Replaced(c, k, row)
  <2> HIDE DEF row
  <2> QED BY <1>1, <1>2, <1>3 DEF Replaced
<1> QED BY <1>1, <1>4

\* Every step of a client has one of the five shapes.
LEMMA StepShape ==
  ASSUME TypeOK, NEW c \in Clients,
         Ensure(c) \/ \E k \in Keys : Read(c, k) \/ Write(c, k)
  PROVE  Shape(c)
<1>1. CASE \E k \in Keys : Read(c, k)
  BY <1>1 DEF Read, Visible, Answer, Shape, Answered
<1>2. ASSUME NEW k \in Keys, Write(c, k)
      PROVE  Shape(c)
  <2>1. ASSUME NEW body \in Contents, Create(c, k, body)
        PROVE  Shape(c)
    <3>1. [content |-> body, version |-> 1] \in Rows
      BY DEF Rows, Versions
    <3> QED BY <2>1, <3>1, InsertShape DEF Create, Shape
  <2>2. CASE Remove(c, k)
    BY <2>2 DEF Remove, Visible, Shape, Removed
  <2>3. ASSUME NEW action, NEW body, NEW expected \in Versions,
               Replace(c, action, k, body, expected)
        PROVE  Shape(c)
    BY <2>3, ReplaceShape DEF Shape
  <2>4. CASE \E body \in Contents, expected \in Versions :
               Update(c, k, body, expected)
    BY <2>4, <2>3 DEF Update
  <2>5. CASE \E changes \in Changes(Fields), expected \in Versions :
               Patch(c, k, changes, expected)
    BY <2>5, <2>3 DEF Patch
  <2>6. CASE \E move \in Moves, changes \in Changes(Fields \ {StatusField}),
                expected \in Versions : Transition(c, k, move, changes, expected)
    BY <2>6, <2>3 DEF Transition
  <2> QED BY <1>2, <2>1, <2>2, <2>4, <2>5, <2>6 DEF Write
<1>3. CASE Ensure(c)
  <2>1. client[c] # Idle => client[c].seed \in [key : Keys, row : Rows]
    BY DEF TypeOK, Ensures, Idle
  <2>2. CASE EnsureInserts(c)
    <3>1. client[c] # Idle
      BY <2>2 DEF EnsureInserts, Idle
    <3> QED BY <2>1, <2>2, <3>1, InsertShape DEF EnsureInserts, Shape
  <2>3. CASE EnsureRecovers(c)
    <3>1. client[c] # Idle
      BY <2>3 DEF EnsureRecovers, Idle
    <3> QED BY <2>1, <2>3, <3>1
        DEF EnsureRecovers, Visible, Answer, Shape, Answered, Unseen
  <2>4. CASE \/ \E seed \in Seeds : BeginEnsure(c, seed)
             \/ EnsureDuplicate(c)
             \/ Abandon(c)
    BY <2>4 DEF BeginEnsure, EnsureDuplicate, Abandon, Shape, Unseen
  <2> QED BY <1>3, <2>2, <2>3, <2>4 DEF Ensure
<1> QED BY <1>1, <1>2, <1>3

-----------------------------------------------------------------------------
(* Typing.                                                                 *)

\* A step of ensure leaves a well-typed request behind.
LEMMA EnsureTyped ==
  ASSUME TypeOK, NEW c \in Clients,
         Ensure(c) \/ \E k \in Keys : Read(c, k) \/ Write(c, k)
  PROVE  client' \in [Clients -> Ensures]
<1>1. client[c] # Idle => client[c].seed \in Seeds
  BY DEF TypeOK, Ensures, Idle
<1>2. \A seed \in Seeds, pc \in {"inserting", "recovering"} :
        [pc |-> pc, seed |-> seed] \in Ensures
  BY DEF Ensures
<1>3. Idle \in Ensures
  BY DEF Ensures
<1>4. CASE EnsureDuplicate(c)
  <2>1. client[c] # Idle
    BY <1>4 DEF EnsureDuplicate, Idle
  <2> QED BY <1>1, <1>2, <1>4, <2>1 DEF EnsureDuplicate, Become, TypeOK
<1>5. CASE EnsureInserts(c) \/ EnsureRecovers(c) \/ Abandon(c)
  BY <1>3, <1>5 DEF EnsureInserts, EnsureRecovers, Abandon, Become, TypeOK
<1>6. CASE \E seed \in Seeds : BeginEnsure(c, seed)
  BY <1>2, <1>6 DEF BeginEnsure, Become, TypeOK
<1>7. CASE \E k \in Keys : Read(c, k) \/ Write(c, k)
  BY <1>7 DEF Read, Write, Create, Update, Patch, Transition, Remove, TypeOK
<1> QED BY <1>4, <1>5, <1>6, <1>7 DEF Ensure

\* The five shapes preserve the types of the table, the copies and the history.
LEMMA ShapeTyped ==
  ASSUME TypeOK, NEW c \in Clients, Shape(c)
  PROVE  /\ table' \in [Keys -> Rows \cup {Absent}]
         /\ copy' \in [Clients -> Copies]
         /\ life' \in [Keys -> Nat]
         /\ writer' \in [Keys -> Subjects \cup {Absent}]
<1>1. SubjectOf[c] \in Subjects
  OBVIOUS
<1>2. \A k \in Keys, row \in Rows, n \in Nat :
        [key |-> k, row |-> row, life |-> n] \in Copies
  BY DEF Copies
<1>3. CASE \E k \in Keys, row \in Rows : Inserted(c, k, row)
  BY <1>1, <1>2, <1>3 DEF Inserted, TypeOK
<1>4. CASE \E k \in Keys, row \in Rows : Replaced(c, k, row)
  BY <1>1, <1>2, <1>4 DEF Replaced, TypeOK
<1>5. CASE \E k \in Keys : Removed(c, k)
  BY <1>1, <1>5 DEF Removed, TypeOK
<1>6. CASE \E k \in Keys : Answered(c, k)
  BY <1>2, <1>6 DEF Answered, TypeOK
<1>7. CASE Unseen
  BY <1>7 DEF Unseen, TypeOK
<1> QED BY <1>3, <1>4, <1>5, <1>6, <1>7 DEF Shape

-----------------------------------------------------------------------------
(* Copies and versions.                                                    *)

\* No step breaks the order between copies and stored rows, and the copies of
\* the present version stay the stored row.
LEMMA CopiesStep ==
  ASSUME IInv, TypeOK', NEW c \in Clients, Shape(c)
  PROVE  CopiesAreOlder' /\ VersionIdentifiesRow'
<1> SUFFICES ASSUME NEW d \in Clients, copy'[d] # Absent
             PROVE  LET k == copy'[d].key
                    IN  /\ copy'[d].life <= life'[k]
                        /\ table'[k] # Absent /\ copy'[d].life = life'[k] =>
                             /\ copy'[d].row.version <= table'[k].version
                             /\ Versioned
                                 /\ copy'[d].row.version = table'[k].version
                                => copy'[d].row = table'[k]
  BY DEF CopiesAreOlder, VersionIdentifiesRow
<1> USE DEF IInv
<1>1. \A x \in Clients : copy[x] # Absent =>
        /\ copy[x].key \in Keys /\ copy[x].row \in Rows /\ copy[x].life \in Nat
  BY DEF TypeOK, Copies
<1>2. \A k \in Keys : table[k] # Absent => table[k] \in Rows
  BY DEF TypeOK
<1>3. \A row \in Rows : row.version \in Nat /\ row # Absent
  BY DEF Rows, Versions
<1>4. \A k \in Keys : life[k] \in Nat
  BY DEF TypeOK
<1>5. ASSUME NEW k \in Keys, NEW row \in Rows, Inserted(c, k, row)
      PROVE  LET key == copy'[d].key
             IN  /\ copy'[d].life <= life'[key]
                 /\ table'[key] # Absent /\ copy'[d].life = life'[key] =>
                      /\ copy'[d].row.version <= table'[key].version
                      /\ Versioned
                          /\ copy'[d].row.version = table'[key].version
                         => copy'[d].row = table'[key]
  <2>1. CASE d = c
    BY <1>3, <1>4, <1>5, <2>1 DEF Inserted, TypeOK
  <2>2. CASE d # c /\ copy[d].key = k
    BY <1>1, <1>3, <1>4, <1>5, <2>2 DEF Inserted, TypeOK, CopiesAreOlder
  <2>3. CASE d # c /\ copy[d].key # k
    BY <1>1, <1>5, <2>3
    DEF Inserted, TypeOK, CopiesAreOlder, VersionIdentifiesRow
  <2> QED BY <2>1, <2>2, <2>3
<1>6. ASSUME NEW k \in Keys, NEW row \in Rows, Replaced(c, k, row)
      PROVE  LET key == copy'[d].key
             IN  /\ copy'[d].life <= life'[key]
                 /\ table'[key] # Absent /\ copy'[d].life = life'[key] =>
                      /\ copy'[d].row.version <= table'[key].version
                      /\ Versioned
                          /\ copy'[d].row.version = table'[key].version
                         => copy'[d].row = table'[key]
  <2>1. CASE d = c
    BY <1>3, <1>4, <1>6, <2>1 DEF Replaced, TypeOK
  <2>2. CASE d # c /\ copy[d].key = k
    BY <1>1, <1>2, <1>3, <1>4, <1>6, <2>2 DEF Replaced, TypeOK, CopiesAreOlder
  <2>3. CASE d # c /\ copy[d].key # k
    BY <1>1, <1>6, <2>3
    DEF Replaced, TypeOK, CopiesAreOlder, VersionIdentifiesRow
  <2> QED BY <2>1, <2>2, <2>3
<1>7. CASE \E k \in Keys : Removed(c, k)
  BY <1>1, <1>7 DEF Removed, TypeOK, CopiesAreOlder, VersionIdentifiesRow
<1>8. ASSUME NEW k \in Keys, Answered(c, k)
      PROVE  LET key == copy'[d].key
             IN  /\ copy'[d].life <= life'[key]
                 /\ table'[key] # Absent /\ copy'[d].life = life'[key] =>
                      /\ copy'[d].row.version <= table'[key].version
                      /\ Versioned
                          /\ copy'[d].row.version = table'[key].version
                         => copy'[d].row = table'[key]
  <2>1. CASE d = c
    BY <1>2, <1>3, <1>4, <1>8, <2>1 DEF Answered, TypeOK
  <2>2. CASE d # c
    BY <1>8, <2>2 DEF Answered, TypeOK, CopiesAreOlder, VersionIdentifiesRow
  <2> QED BY <2>1, <2>2
<1>9. CASE Unseen
  BY <1>9 DEF Unseen, CopiesAreOlder, VersionIdentifiesRow
<1> QED BY <1>5, <1>6, <1>7, <1>8, <1>9 DEF Shape

-----------------------------------------------------------------------------
(* The theorems.                                                           *)

\* The inductive invariant holds of every behaviour of the repository.
LEMMA Invariance == Spec => []IInv
<1>1. Init => IInv
  BY DEF Init, IInv, TypeOK, Copies, Ensures, CopiesAreOlder,
         VersionIdentifiesRow
<1>2. IInv /\ [Next]_vars => IInv'
  <2> SUFFICES ASSUME IInv, [Next]_vars PROVE IInv'
    OBVIOUS
  <2>1. CASE UNCHANGED vars
    BY <2>1 DEF vars, IInv, TypeOK, CopiesAreOlder, VersionIdentifiesRow
  <2>2. CASE Next
    <3>1. PICK c \in Clients :
            Ensure(c) \/ \E k \in Keys : Read(c, k) \/ Write(c, k)
      BY <2>2 DEF Next
    <3>2. Shape(c)
      BY <3>1, StepShape DEF IInv
    <3>3. TypeOK'
      BY <3>1, <3>2, ShapeTyped, EnsureTyped DEF IInv, TypeOK
    <3> QED BY <3>2, <3>3, CopiesStep DEF IInv
  <2> QED BY <2>1, <2>2
<1> QED BY <1>1, <1>2, PTL DEF Spec

\* Tables, copies and requests stay of their types.
THEOREM TypeCorrect == Spec => []TypeOK
BY Invariance, PTL DEF IInv

\* Optimistic concurrency control loses no update of a row that is not removed.
THEOREM VersionsIdentifyRows == Spec => []VersionIdentifiesRow
BY Invariance, PTL DEF IInv

\* Nobody writes outside the scope of its subject.
THEOREM WritesInScope == Spec => WritesStayInScope
<1>1. TypeOK /\ [Next]_vars =>
        [\A k \in Keys : table'[k] # table[k] =>
           LET own(row) == row # Absent => <<writer'[k], row.content>> \in Scope
           IN  own(table[k]) /\ own(table'[k])]_vars
  <2> SUFFICES ASSUME TypeOK, Next, NEW k \in Keys, table'[k] # table[k]
               PROVE  LET own(row) == row # Absent =>
                            <<writer'[k], row.content>> \in Scope
                      IN  own(table[k]) /\ own(table'[k])
    OBVIOUS
  <2>1. PICK c \in Clients :
          Ensure(c) \/ \E j \in Keys : Read(c, j) \/ Write(c, j)
    BY DEF Next
  <2>2. Shape(c)
    BY <2>1, StepShape
  <2> QED BY <2>2
      DEF Shape, Inserted, Replaced, Removed, Answered, Unseen, TypeOK
<1> QED BY <1>1, TypeCorrect, PTL DEF Spec, WritesStayInScope

\* The repository implements the table of lives: whatever the operation, each
\* step is an insertion, a replacement by the next version, a removal or nothing.
THEOREM ImplementsVersionedTable == Spec => ImplementsTable
<1>1. Init => Table!Init
  BY DEF Init, Table!Init
<1>2. TypeOK /\ [Next]_vars => [Table!Next]_<<table, life>>
  <2> SUFFICES ASSUME TypeOK, [Next]_vars
               PROVE  Table!Next \/ UNCHANGED <<table, life>>
    OBVIOUS
  <2>1. CASE UNCHANGED vars
    BY <2>1 DEF vars
  <2>2. CASE Next
    <3>1. PICK c \in Clients :
            Ensure(c) \/ \E k \in Keys : Read(c, k) \/ Write(c, k)
      BY <2>2 DEF Next
    <3>2. Shape(c)
      BY <3>1, StepShape
    <3>3. Rows = Table!Rows
      BY DEF Rows, Table!Rows
    <3> QED BY <3>2, <3>3
        DEF Shape, Inserted, Replaced, Removed, Answered, Unseen,
            Table!Next, Table!Insert, Table!Replace, Table!Remove
  <2> QED BY <2>1, <2>2
<1> QED BY <1>1, <1>2, TypeCorrect, PTL DEF Spec, ImplementsTable, Table!Spec

-----------------------------------------------------------------------------
(***************************************************************************)
(* The order of a list and its keyset.                                     *)
(***************************************************************************)

HIDE RepositoryAssumption

\* No row is out of reach of a cursor: a null never comes after a value.
NullsFirst == Direction = "asc" \/ ~Nullable

RowKeys == [value : Cells, id : Ids]

\* A cell is null or a number, and never what stands for no row.
LEMMA CellsAre == \A v \in Cells : (v = Null \/ v \in Int) /\ (~Nullable => v \in Int) /\ v # NoRow
<1>1. CASE Nullable
  BY <1>1, KeysetAssumption DEF Cells
<1>2. CASE ~Nullable
  BY <1>2, KeysetAssumption DEF Cells
<1> QED BY <1>1, <1>2

\* The declared order, with the identifier as its last field, is total.
LEMMA RowOrder ==
  /\ \A k \in RowKeys : ~Precedes(k, k)
  /\ \A k, l \in RowKeys : k = l \/ Precedes(k, l) \/ Precedes(l, k)
  /\ \A k, l, m \in RowKeys : Precedes(k, l) /\ Precedes(l, m) => Precedes(k, m)
<1>1. /\ \A k \in RowKeys : k.value \in Cells /\ k.id \in Int
      /\ \A v \in Cells : v # Null => v \in Int
  BY CellsAre, KeysetAssumption DEF RowKeys
<1>2. \A k, l \in RowKeys : k.value = l.value /\ k.id = l.id => k = l
  BY DEF RowKeys
<1>3. \A k \in RowKeys : ~Precedes(k, k)
  BY <1>1, KeysetAssumption DEF Precedes, Below
<1>4. \A k, l \in RowKeys : k = l \/ Precedes(k, l) \/ Precedes(l, k)
  BY <1>1, <1>2, KeysetAssumption DEF Precedes, Below
<1>5. \A k, l, m \in RowKeys : Precedes(k, l) /\ Precedes(l, m) => Precedes(k, m)
  BY <1>1, KeysetAssumption DEF Precedes, Below
<1> QED BY <1>3, <1>4, <1>5

\* The keyset of a cursor selects the rows after it.
LEMMA KeysetIs ==
  ASSUME NullsFirst, NEW k \in RowKeys, NEW l \in RowKeys
  PROVE  Keyset(k, l) <=> Precedes(l, k)
<1>1. /\ k.value = Null \/ k.value \in Int
      /\ l.value = Null \/ l.value \in Int
      /\ ~Nullable => k.value \in Int /\ l.value \in Int
      /\ k.id \in Int /\ l.id \in Int
  BY CellsAre, KeysetAssumption DEF RowKeys
<1> QED BY <1>1, KeysetAssumption DEF NullsFirst, Keyset, Comparison, Precedes, Below

\* A set of natural numbers that is not empty has a least element.
LEMMA Least ==
  ASSUME NEW T, T \subseteq Nat, T # {}
  PROVE  \E x \in T : \A y \in T : ~(y < x)
<1>1. IsWellFoundedOn(OpToRel(<, Nat), Nat)
  BY NatLessThanWellFounded
<1>2. PICK x \in T : \A y \in T : <<y, x>> \notin OpToRel(<, Nat)
  BY <1>1, WFMin
<1>3. \A y \in T : ~(y < x)
  BY <1>2 DEF OpToRel
<1> QED BY <1>3

\* Induction, for a property that is given by the set of its numbers.
LEMMA SetInduction ==
  ASSUME NEW S, 0 \in S, \A n \in Nat : n \in S => n + 1 \in S
  PROVE  Nat \subseteq S
<1>1. SUFFICES ASSUME Nat \ S # {} PROVE FALSE
  OBVIOUS
<1>2. PICK x \in Nat \ S : \A y \in Nat \ S : ~(y < x)
  BY <1>1, Least
<1>3. x - 1 \in Nat /\ x - 1 < x
  BY <1>2
<1>4. x - 1 \in S
  BY <1>2, <1>3
<1>5. (x - 1) + 1 \in S
  BY <1>3, <1>4
<1> QED BY <1>2, <1>5

\* Rows that a statement may sort.
Stored(t, ids) == IsFiniteSet(ids) /\ \A id \in ids : id \in Ids /\ t[id] \in Cells

LEMMA KeyIs ==
  ASSUME NEW t, NEW ids, Stored(t, ids), NEW id \in ids
  PROVE  Key(t, id) \in RowKeys /\ Key(t, id).id = id
BY DEF Stored, Key, RowKeys

\* One of them is the last.
LEMMA LastRow ==
  ASSUME NEW t, NEW ids, Stored(t, ids), ids # {}
  PROVE  \E m \in ids : \A x \in ids : x = m \/ Precedes(Key(t, x), Key(t, m))
<1> DEFINE HasLast(S) == \E m \in S : \A x \in S : x = m \/ Precedes(Key(t, x), Key(t, m))
           K == {n \in Nat : \A S \in SUBSET ids : Cardinality(S) = n + 1 => HasLast(S)}
<1>1. \A S \in SUBSET ids : IsFiniteSet(S) /\ Cardinality(S) \in Nat /\ Stored(t, S)
  BY FS_Subset, FS_CardinalityType DEF Stored
<1>2. 0 \in K
  <2> SUFFICES ASSUME NEW S \in SUBSET ids, Cardinality(S) = 1 PROVE HasLast(S)
    OBVIOUS
  <2>1. PICK x : S = {x}
    BY <1>1, FS_Singleton
  <2> QED BY <2>1
<1>3. ASSUME NEW n \in Nat, n \in K PROVE n + 1 \in K
  <2> SUFFICES ASSUME NEW S \in SUBSET ids, Cardinality(S) = n + 2 PROVE HasLast(S)
    BY DEF K
  <2>1. PICK y : y \in S
    BY <1>1, FS_EmptySet
  <2>2. S \ {y} \in SUBSET ids /\ Cardinality(S \ {y}) = n + 1
    BY <1>1, <2>1, FS_RemoveElement
  <2>3. PICK m \in S \ {y} : \A x \in S \ {y} : x = m \/ Precedes(Key(t, x), Key(t, m))
    BY <1>3, <2>2
  <2>4. Key(t, m) \in RowKeys /\ Key(t, y) \in RowKeys /\ \A x \in S : Key(t, x) \in RowKeys
    BY <2>1, <2>3, KeyIs
  <2>5. Key(t, m) # Key(t, y)
    BY <2>1, <2>3, KeyIs
  <2>6. CASE Precedes(Key(t, y), Key(t, m))
    BY <2>3, <2>6
  <2>7. CASE Precedes(Key(t, m), Key(t, y))
    <3>1. \A x \in S : x = y \/ Precedes(Key(t, x), Key(t, y))
      BY <2>3, <2>4, <2>7, RowOrder
    <3> QED BY <2>1, <3>1
  <2> QED BY <2>4, <2>5, <2>6, <2>7, RowOrder
<1>4. Nat \subseteq K
  <2> HIDE DEF K
  <2> QED BY <1>2, <1>3, SetInduction
<1>5. Cardinality(ids) \in Nat /\ Cardinality(ids) # 0 /\ ids \in SUBSET ids
  BY <1>1, FS_EmptySet DEF Stored
<1>6. Cardinality(ids) - 1 \in K
  BY <1>4, <1>5
<1> QED BY <1>5, <1>6

Ascending(t, s) == \A i, j \in DOMAIN s : i < j => Precedes(Key(t, s[i]), Key(t, s[j]))

\* They can be sorted.
LEMMA SortExists ==
  ASSUME NEW t, NEW ids, Stored(t, ids)
  PROVE  \E s \in [1..Cardinality(ids) -> ids] : Ascending(t, s)
<1> DEFINE Sortable(S, n) == \E s \in [1..n -> S] : Ascending(t, s)
           K == {n \in Nat : \A S \in SUBSET ids : Cardinality(S) = n => Sortable(S, n)}
<1>1. \A S \in SUBSET ids : IsFiniteSet(S) /\ Cardinality(S) \in Nat /\ Stored(t, S)
  BY FS_Subset, FS_CardinalityType DEF Stored
<1>2. 0 \in K
  <2> SUFFICES ASSUME NEW S \in SUBSET ids PROVE Sortable(S, 0)
    OBVIOUS
  <2>1. [i \in 1..0 |-> i] \in [1..0 -> S] /\ Ascending(t, [i \in 1..0 |-> i])
    BY DEF Ascending
  <2> QED BY <2>1
<1>3. ASSUME NEW n \in Nat, n \in K PROVE n + 1 \in K
  <2> SUFFICES ASSUME NEW S \in SUBSET ids, Cardinality(S) = n + 1 PROVE Sortable(S, n + 1)
    BY DEF K
  <2>1. PICK m \in S : \A x \in S : x = m \/ Precedes(Key(t, x), Key(t, m))
    BY <1>1, LastRow, FS_EmptySet
  <2>2. S \ {m} \in SUBSET ids /\ Cardinality(S \ {m}) = n
    BY <1>1, <2>1, FS_RemoveElement
  <2>3. PICK r \in [1..n -> S \ {m}] : Ascending(t, r)
    BY <1>3, <2>2
  <2> DEFINE s == [i \in 1..(n + 1) |-> IF i = n + 1 THEN m ELSE r[i]]
  <2>4. s \in [1..(n + 1) -> S]
    BY <2>3
  <2>5. Ascending(t, s)
    <3> SUFFICES ASSUME NEW i \in 1..(n + 1), NEW j \in 1..(n + 1), i < j
                 PROVE  Precedes(Key(t, s[i]), Key(t, s[j]))
      BY DEF Ascending
    <3>1. i \in 1..n /\ s[i] = r[i] /\ r[i] \in S \ {m}
      BY <2>3
    <3>2. CASE j = n + 1
      BY <2>1, <3>1, <3>2
    <3>3. CASE j \in 1..n
      BY <2>3, <3>1, <3>3 DEF Ascending
    <3> QED BY <3>2, <3>3
  <2> QED BY <2>4, <2>5
<1>4. Nat \subseteq K
  <2> HIDE DEF K
  <2> QED BY <1>2, <1>3, SetInduction
<1>5. Cardinality(ids) \in Nat /\ ids \in SUBSET ids
  BY <1>1 DEF Stored
<1> QED BY <1>4, <1>5

\* What ORDER BY returns: every row once, in the order.
LEMMA SortedIs ==
  ASSUME NEW t, NEW ids, Stored(t, ids)
  PROVE  LET s == Sorted(t, ids)
         IN  /\ s \in Seq(ids) /\ Ascending(t, s)
             /\ \A id \in ids : \E i \in 1..Len(s) : s[i] = id
<1> DEFINE s == Sorted(t, ids)
           n == Cardinality(ids)
<1>1. n \in Nat
  BY FS_CardinalityType DEF Stored
<1>2. s \in [1..n -> ids] /\ Ascending(t, s)
  BY SortExists DEF Sorted, Ascending
<1> HIDE DEF s, n
<1>3. s \in Seq(ids) /\ Len(s) = n
  BY <1>1, <1>2
<1>4. s \in Injection(1..n, ids)
  <2> SUFFICES ASSUME NEW i \in 1..n, NEW j \in 1..n, s[i] = s[j] PROVE i = j
    BY <1>2 DEF Injection, IsInjective
  <2>1. ~Precedes(Key(t, s[i]), Key(t, s[i]))
    BY <1>2, KeyIs, RowOrder
  <2> QED BY <1>1, <1>2, <2>1 DEF Ascending
<1>5. IsFiniteSet(ids) /\ Cardinality(1..n) = n
  BY <1>1, FS_Interval DEF Stored
<1>6. s \in Surjection(1..n, ids)
  BY <1>4, <1>5, FS_Injection DEF n
<1> QED BY <1>2, <1>3, <1>6 DEF s, Surjection

-----------------------------------------------------------------------------
(***************************************************************************)
(* A page.                                                                 *)
(***************************************************************************)

Filters == {{}} \cup {{v} : v \in Cells}
Cursors == [filter : Filters, after : RowKeys]
Marks == {{}} \cup {{c} : c \in Cursors}
Pages == [items : Seq(Ids), next : Marks]

\* A row is after a mark, or no mark stands before it.
Passed(t, id, mark) == \A c \in mark : Precedes(c.after, Key(t, id))
Within(t, id, mark) == \A c \in mark : ~Precedes(c.after, Key(t, id))
Holds(items, id) == \E m \in DOMAIN items : items[m] = id

\* What a page holds of the rows in S, from a mark to the next.
Covers(t, S, filter, from, items, to) ==
  /\ \A d \in to : d.filter = filter /\ \A c \in from : Precedes(c.after, d.after)
  /\ \A id \in S : Holds(items, id) <=>
       filter \subseteq {t[id]} /\ Passed(t, id, from) /\ Within(t, id, to)
  /\ \A m, n \in DOMAIN items : m < n /\ {items[m], items[n]} \subseteq S =>
       Precedes(Key(t, items[m]), Key(t, items[n]))

StoredIn(t) == {id \in Ids : t[id] # NoRow}

LEMMA TakeIs ==
  ASSUME NEW S, NEW s \in Seq(S), NEW n \in Nat
  PROVE  /\ Take(s, n) \in Seq(S)
         /\ Len(Take(s, n)) = IF n < Len(s) THEN n ELSE Len(s)
         /\ \A i \in 1..Len(Take(s, n)) : i \in 1..Len(s) /\ Take(s, n)[i] = s[i]
<1> DEFINE k == IF n < Len(s) THEN n ELSE Len(s)
<1>1. k \in Nat /\ k <= Len(s) /\ \A i \in 1..k : i \in 1..Len(s) /\ s[i] \in S
  OBVIOUS
<1>2. Take(s, n) = SubSeq(s, 1, k)
  BY DEF Take
<1> HIDE DEF k
<1>3. /\ SubSeq(s, 1, k) \in Seq(S)
      /\ Len(SubSeq(s, 1, k)) = k
      /\ \A i \in 1..k : SubSeq(s, 1, k)[i] = s[i]
  BY <1>1, SubSeqProperties
<1> QED BY <1>1, <1>2, <1>3 DEF k

LEMMA PageIs ==
  ASSUME NEW t \in Tables, IsFiniteSet(StoredIn(t)),
         NEW filter \in Filters, NEW cursor \in Marks, NEW limit \in Nat \ {0}
  PROVE  LET page == Page(t, filter, cursor, limit)
         IN  /\ page \in Pages
             /\ NullsFirst => Covers(t, StoredIn(t), filter, cursor, page.items, page.next)
<1> DEFINE after == {c.after : c \in cursor}
           ids == {id \in Selected(t, filter) : \A key \in after : Keyset(Key(t, id), key)}
           s == Sorted(t, ids)
           all == Take(s, limit + 1)
           items == Take(all, limit)
           mark == [filter |-> filter, after |-> Key(t, all[limit])]
           next == IF Len(all) <= limit THEN {} ELSE {mark}
<1>1. Page(t, filter, cursor, limit) = [items |-> items, next |-> next]
  BY DEF Page, Query
<1>2. Stored(t, StoredIn(t))
  BY DEF Stored, StoredIn, Tables
<1>3. ids \subseteq StoredIn(t) /\ Stored(t, ids)
  BY <1>2, FS_Subset DEF Stored, Selected, StoredIn
<1>4. /\ s \in Seq(ids) /\ Ascending(t, s)
      /\ \A id \in ids : \E i \in 1..Len(s) : s[i] = id
  <2> HIDE DEF ids
  <2> QED BY <1>3, SortedIs
<1>5. \A c \in cursor : c.after \in RowKeys
  BY DEF Marks, Cursors
<1>6. NullsFirst => \A id \in StoredIn(t) : id \in ids <=> filter \subseteq {t[id]} /\ Passed(t, id, cursor)
  BY <1>2, <1>5, KeyIs, KeysetIs DEF Selected, StoredIn, Passed
<1> HIDE DEF ids, s
<1>7. /\ all \in Seq(ids)
      /\ Len(all) = IF limit + 1 < Len(s) THEN limit + 1 ELSE Len(s)
      /\ \A i \in 1..Len(all) : i \in 1..Len(s) /\ all[i] = s[i]
  BY <1>4, TakeIs
<1> HIDE DEF all
<1>8. /\ items \in Seq(ids)
      /\ Len(items) = IF limit < Len(all) THEN limit ELSE Len(all)
      /\ \A i \in 1..Len(items) : i \in 1..Len(all) /\ items[i] = all[i]
  BY <1>7, TakeIs
<1> HIDE DEF items
<1>9. /\ \A i \in 1..Len(items) : i \in 1..Len(s) /\ items[i] = s[i]
      /\ DOMAIN items = 1..Len(items) /\ DOMAIN s = 1..Len(s)
      /\ Len(s) \in Nat /\ Len(all) \in Nat /\ Len(items) \in Nat
  <2>1. \A r \in Seq(ids) : DOMAIN r = 1..Len(r) /\ Len(r) \in Nat
    BY LenProperties
  <2> QED BY <1>4, <1>7, <1>8, <2>1
<1>10. next = IF Len(all) <= limit THEN {} ELSE {mark}
  OBVIOUS
<1> HIDE DEF next
<1>11. CASE Len(s) <= limit
  <2>1. next = {} /\ Len(items) = Len(s)
    <3>1. limit \in Nat /\ ~(limit + 1 < Len(s))
      BY <1>9, <1>11
    <3>2. Len(all) = Len(s) /\ Len(all) <= limit /\ ~(limit < Len(all))
      BY <1>7, <1>9, <1>11, <3>1
    <3> QED BY <1>8, <1>10, <3>2
  <2>2. \A id \in StoredIn(t) : Holds(items, id) <=> id \in ids
    BY <1>4, <1>9, <2>1 DEF Holds
  <2>3. \A m, n \in DOMAIN items : m < n => Precedes(Key(t, items[m]), Key(t, items[n]))
    BY <1>4, <1>9 DEF Ascending
  <2>4. NullsFirst => Covers(t, StoredIn(t), filter, cursor, items, {})
    BY <1>6, <2>2, <2>3 DEF Covers, Within
  <2>5. items \in Seq(Ids)
    BY <1>3, <1>8 DEF StoredIn
  <2> QED BY <1>1, <2>1, <2>4, <2>5 DEF Pages, Marks
<1>12. CASE Len(s) > limit
  <2>1. /\ next = {mark} /\ Len(items) = limit /\ limit \in 1..Len(s) /\ all[limit] = s[limit]
        /\ s[limit] \in ids
    <3>1. limit \in 1..Len(s) /\ Len(items) = limit /\ limit \in 1..Len(all) /\ ~(Len(all) <= limit)
      <4>1. limit \in Nat \ {0} /\ limit < Len(s)
        BY <1>9, <1>12
      <4>2. limit \in Nat /\ (limit + 1 < Len(s) \/ limit + 1 = Len(s))
        <5>1. \A a, b \in Nat : a < b => a + 1 < b \/ a + 1 = b
          OBVIOUS
        <5> QED BY <1>9, <4>1, <5>1
      <4>3. Len(all) = limit + 1
        BY <1>7, <4>2
      <4> QED BY <1>8, <4>1, <4>2, <4>3
    <3> QED BY <1>4, <1>7, <1>10, <3>1
  <2>2. \A i \in 1..Len(s) : s[i] \in ids /\ Key(t, s[i]) \in RowKeys
    BY <1>3, <1>4, KeyIs
  <2>3. \A i \in 1..Len(s) : i <= limit <=> ~Precedes(Key(t, s[limit]), Key(t, s[i]))
    <3> SUFFICES ASSUME NEW i \in 1..Len(s)
                 PROVE  i <= limit <=> ~Precedes(Key(t, s[limit]), Key(t, s[i]))
      OBVIOUS
    <3>1. CASE i < limit
      BY <1>4, <2>1, <2>2, <3>1, RowOrder DEF Ascending
    <3>2. CASE i = limit
      BY <2>2, <3>2, RowOrder
    <3>3. CASE i > limit
      BY <1>4, <2>1, <2>2, <3>3 DEF Ascending
    <3> QED BY <3>1, <3>2, <3>3
  <2>4. mark.after = Key(t, s[limit]) /\ mark.filter = filter /\ mark \in Cursors
    BY <2>1, <2>2 DEF Cursors
  <2> HIDE DEF mark
  <2>5. \A id \in StoredIn(t) : Holds(items, id) <=> id \in ids /\ Within(t, id, {mark})
    <3>1. ASSUME NEW id \in StoredIn(t), Holds(items, id) PROVE id \in ids /\ Within(t, id, {mark})
      BY <1>9, <2>1, <2>2, <2>3, <2>4, <3>1 DEF Holds, Within
    <3>2. ASSUME NEW id \in ids, Within(t, id, {mark}) PROVE Holds(items, id)
      <4>1. PICK i \in 1..Len(s) : s[i] = id
        BY <1>4
      <4>2. i <= limit
        BY <2>3, <2>4, <3>2, <4>1 DEF Within
      <4> QED BY <1>9, <2>1, <4>1, <4>2 DEF Holds
    <3> QED BY <3>1, <3>2
  <2>6. \A m, n \in DOMAIN items : m < n => Precedes(Key(t, items[m]), Key(t, items[n]))
    BY <1>4, <1>9 DEF Ascending
  <2>7. NullsFirst => \A c \in cursor : Precedes(c.after, mark.after)
    BY <1>3, <1>6, <2>1, <2>4 DEF Passed
  <2>8. NullsFirst => Covers(t, StoredIn(t), filter, cursor, items, {mark})
    BY <1>6, <2>4, <2>5, <2>6, <2>7 DEF Covers
  <2>9. items \in Seq(Ids)
    BY <1>3, <1>8 DEF StoredIn
  <2> QED BY <1>1, <2>1, <2>4, <2>8, <2>9 DEF Pages, Marks
<1> QED BY <1>4, <1>11, <1>12

-----------------------------------------------------------------------------
(***************************************************************************)
(* A walk of pages along the cursors of a request.                         *)
(***************************************************************************)

Asks == [filter : Filters, limit : Limits, cursor : Marks, before : Seq(Marks)]

\* The mark that the i-th page starts from, and the one it ends at.
Mark(ask, i) == IF i <= Len(ask.before) THEN ask.before[i] ELSE ask.cursor
Bound(ask, i, next) == IF i <= Len(ask.before) THEN Mark(ask, i + 1) ELSE next

\* Only the first page starts from nowhere, and one filter is kept to.
Followed(ask) ==
  \A i \in 1..(Len(ask.before) + 1) :
    /\ Mark(ask, i) = {} <=> i = 1
    /\ CursorMatches(Mark(ask, i), ask.filter)

\* The first n pages of the walk w were read along the request's marks.
Walked(t, S, w, ask, n, next) ==
  /\ n <= Len(w) /\ Followed(ask)
  /\ \A i \in 1..n : Covers(t, S, ask.filter, Mark(ask, i), w[i], Bound(ask, i, next))

\* The whole walk was, to a page that ends at next.
Arrived(t, S, w, ask, next) ==
  Len(w) = Len(ask.before) + 1 /\ Walked(t, S, w, ask, Len(w), next)

\* What precedes the page that is asked for.
Ready(t, S, w, ask) ==
  CursorMatches(ask.cursor, ask.filter) => Walked(t, S, w, ask, Len(ask.before), {})

Walks == Seq(Seq(Ids))

\* Writes of other rows change nothing.
LEMMA CoversStill ==
  ASSUME NEW t, NEW u, NEW S, NEW R, R \subseteq S, \A id \in R : u[id] = t[id],
         NEW filter, NEW from, NEW items, NEW to, Covers(t, S, filter, from, items, to)
  PROVE  Covers(u, R, filter, from, items, to)
<1>1. \A id \in R : Key(u, id) = Key(t, id)
  BY DEF Key
<1> QED BY <1>1 DEF Covers, Passed, Within

LEMMA WalkedStill ==
  ASSUME NEW t, NEW u, NEW S, NEW R, R \subseteq S, \A id \in R : u[id] = t[id],
         NEW w, NEW ask, NEW n, NEW next
  PROVE  /\ Walked(t, S, w, ask, n, next) => Walked(u, R, w, ask, n, next)
         /\ Arrived(t, S, w, ask, next) => Arrived(u, R, w, ask, next)
         /\ Ready(t, S, w, ask) => Ready(u, R, w, ask)
<1>1. \A k, to : Walked(t, S, w, ask, k, to) => Walked(u, R, w, ask, k, to)
  BY CoversStill DEF Walked
<1> QED BY <1>1 DEF Arrived, Ready

\* The first page of a list can always be asked for.
LEMMA StartReady ==
  ASSUME NEW t, NEW S, NEW w \in Walks, NEW filter, NEW limit, NEW ask, ask = Ask(filter, limit, {}, <<>>)
  PROVE  Ready(t, S, w, ask)
<1>1. ask.before = <<>> /\ Len(ask.before) = 0 /\ ask.cursor = {} /\ Len(w) \in Nat
  BY DEF Ask, Walks
<1>2. \A i \in 1..1 : i = 1 /\ Mark(ask, i) = {}
  BY <1>1 DEF Mark
<1> QED BY <1>1, <1>2 DEF Ready, Walked, Followed, CursorMatches

\* The next page continues the walk.
LEMMA NextReady ==
  ASSUME NEW t, NEW S, NEW w \in Walks, NEW ask \in Asks, NEW next \in Marks, next # {},
         Arrived(t, S, w, ask, next), NEW filter, NEW limit,
         NEW more, more = Ask(filter, limit, next, Append(ask.before, ask.cursor))
  PROVE  Ready(t, S, w, more)
<1> DEFINE n == Len(ask.before)
<1>1. SUFFICES ASSUME CursorMatches(next, filter) PROVE Walked(t, S, w, more, Len(more.before), {})
  BY DEF Ready, Ask
<1>2. /\ n \in Nat /\ ask.before \in Seq(Marks) /\ ask.cursor \in Marks
      /\ Len(w) = n + 1 /\ Followed(ask)
      /\ \A i \in 1..(n + 1) : Covers(t, S, ask.filter, Mark(ask, i), w[i], Bound(ask, i, next))
  BY DEF Asks, Arrived, Walked
<1>3. /\ more.before = Append(ask.before, ask.cursor) /\ more.cursor = next
      /\ more.filter = filter /\ Len(more.before) = n + 1
      /\ \A i \in 1..n : more.before[i] = ask.before[i]
      /\ more.before[n + 1] = ask.cursor
  BY <1>2, AppendProperties DEF Ask
<1>4. \A i \in 1..(n + 1) : Mark(more, i) = Mark(ask, i)
  BY <1>2, <1>3 DEF Mark
<1>5. Mark(more, n + 2) = next
  BY <1>2, <1>3 DEF Mark
<1>6. filter = ask.filter
  <2>1. n + 1 \in 1..(n + 1) /\ Bound(ask, n + 1, next) = next
    BY <1>2 DEF Bound
  <2>2. \A d \in next : d.filter = ask.filter
    BY <1>2, <2>1 DEF Covers
  <2> QED BY <1>1, <2>2 DEF CursorMatches
<1>7. Followed(more)
  <2>1. ASSUME NEW i \in 1..(n + 2)
        PROVE  /\ Mark(more, i) = {} <=> i = 1
               /\ CursorMatches(Mark(more, i), filter)
    <3>1. CASE i = n + 2
      BY <1>1, <1>2, <1>5, <3>1
    <3>2. CASE i \in 1..(n + 1)
      BY <1>2, <1>4, <1>6, <3>2 DEF Followed
    <3> QED BY <1>2, <3>1, <3>2
  <2>2. 1..(Len(more.before) + 1) = 1..(n + 2)
    BY <1>2, <1>3
  <2> QED BY <1>3, <2>1, <2>2 DEF Followed
<1>8. \A i \in 1..(n + 1) : Bound(more, i, {}) = Bound(ask, i, next)
  <2> SUFFICES ASSUME NEW i \in 1..(n + 1) PROVE Bound(more, i, {}) = Bound(ask, i, next)
    OBVIOUS
  <2>1. CASE i = n + 1
    BY <1>2, <1>3, <1>5, <2>1 DEF Bound
  <2>2. CASE i \in 1..n
    <3>1. i + 1 \in 1..(n + 1) /\ i <= n /\ i <= n + 1
      BY <1>2, <2>2
    <3> QED BY <1>3, <1>4, <3>1 DEF Bound
  <2> QED BY <1>2, <2>1, <2>2
<1>9. Len(more.before) <= Len(w)
  BY <1>2, <1>3
<1> QED BY <1>2, <1>3, <1>4, <1>6, <1>7, <1>8, <1>9 DEF Walked

\* The page before is on the walk.
LEMMA BackReady ==
  ASSUME NEW t, NEW S, NEW w \in Walks, NEW ask \in Asks, ask.before # <<>>, NEW next,
         Arrived(t, S, w, ask, next), NEW filter, NEW limit,
         NEW less, less = Ask(filter, limit, ask.before[Len(ask.before)],
                              SubSeq(ask.before, 1, Len(ask.before) - 1))
  PROVE  Ready(t, S, w, less)
<1> DEFINE n == Len(ask.before)
<1>1. /\ n \in Nat /\ n # 0 /\ ask.before \in Seq(Marks)
      /\ Len(w) = n + 1 /\ Followed(ask)
      /\ \A i \in 1..(n + 1) : Covers(t, S, ask.filter, Mark(ask, i), w[i], Bound(ask, i, next))
  BY EmptySeq DEF Asks, Arrived, Walked
<1>2. /\ less.cursor = ask.before[n] /\ less.filter = filter
      /\ less.before = SubSeq(ask.before, 1, n - 1)
  BY DEF Ask
<1>3. /\ Len(less.before) = n - 1
      /\ \A i \in 1..(n - 1) : less.before[i] = ask.before[i]
  <2>1. \A i \in 1..(n - 1) : ask.before[i] \in Marks
    BY <1>1
  <2>2. /\ Len(SubSeq(ask.before, 1, n - 1)) = IF 1 <= n - 1 THEN n - 1 - 1 + 1 ELSE 0
        /\ \A i \in 1..(n - 1 - 1 + 1) : SubSeq(ask.before, 1, n - 1)[i] = ask.before[1 + i - 1]
    BY <1>1, <2>1, SubSeqProperties
  <2>3. \A i \in 1..(n - 1) : 1 + i - 1 = i
    BY <1>1
  <2>4. n - 1 - 1 + 1 = n - 1 /\ (IF 1 <= n - 1 THEN n - 1 - 1 + 1 ELSE 0) = n - 1
    BY <1>1
  <2> QED BY <1>2, <2>2, <2>3, <2>4
<1>4. \A i \in 1..n : Mark(less, i) = Mark(ask, i)
  <2> SUFFICES ASSUME NEW i \in 1..n PROVE Mark(less, i) = Mark(ask, i)
    OBVIOUS
  <2>1. Mark(ask, i) = ask.before[i]
    BY <1>1 DEF Mark
  <2>2. CASE i = n
    BY <1>1, <1>2, <1>3, <2>1, <2>2 DEF Mark
  <2>3. CASE i \in 1..(n - 1)
    BY <1>1, <1>3, <2>1, <2>3 DEF Mark
  <2> QED BY <1>1, <2>2, <2>3
<1>5. SUFFICES ASSUME CursorMatches(less.cursor, filter) PROVE Walked(t, S, w, less, n - 1, {})
  BY <1>2, <1>3 DEF Ready
<1>6. \A i \in 1..n : Mark(ask, i) = {} <=> i = 1
  BY <1>1 DEF Followed
<1>7. less.cursor = Mark(ask, n)
  BY <1>1, <1>2 DEF Mark
<1>8. CASE n = 1
  <2>1. less.before = <<>> /\ less.cursor = {}
    BY <1>2, <1>3, <1>6, <1>7, <1>8, SubSeqEmpty
  <2>2. less = Ask(filter, limit, {}, <<>>)
    BY <2>1 DEF Ask
  <2>3. Ready(t, S, w, less)
    BY <2>2, StartReady
  <2> QED BY <1>2, <1>3, <1>5, <1>8, <2>3 DEF Ready
<1>9. CASE n # 1
  <2>1. filter = ask.filter
    <3>1. n \in 1..n /\ n \in 1..(n + 1)
      BY <1>1
    <3>2. less.cursor # {} /\ CursorMatches(less.cursor, ask.filter)
      BY <1>1, <1>6, <1>7, <1>9, <3>1 DEF Followed
    <3> QED BY <1>5, <3>2 DEF CursorMatches
  <2>2. Followed(less)
    <3>1. 1..(Len(less.before) + 1) = 1..n /\ 1..n \subseteq 1..(n + 1)
      BY <1>1, <1>3
    <3> QED BY <1>1, <1>2, <1>4, <2>1, <3>1 DEF Followed
  <2>3. \A i \in 1..(n - 1) : /\ i \in 1..n /\ i \in 1..(n + 1)
                             /\ Bound(less, i, {}) = Bound(ask, i, next)
    <3> SUFFICES ASSUME NEW i \in 1..(n - 1)
                 PROVE  /\ i \in 1..n /\ i \in 1..(n + 1)
                        /\ Bound(less, i, {}) = Bound(ask, i, next)
      OBVIOUS
    <3>1. i + 1 \in 1..n /\ i <= n /\ i <= n - 1 /\ i \in 1..n /\ i \in 1..(n + 1)
      BY <1>1
    <3> QED BY <1>3, <1>4, <3>1 DEF Bound
  <2> QED BY <1>1, <1>2, <1>4, <2>1, <2>2, <2>3 DEF Walked
<1> QED BY <1>8, <1>9

\* A page that is read continues the walk.
LEMMA PageWalked ==
  ASSUME NEW t, NEW S, S \subseteq StoredIn(t), NEW w \in Walks, NEW ask \in Asks,
         Ready(t, S, w, ask), CursorMatches(ask.cursor, ask.filter), NEW page \in Pages,
         Covers(t, StoredIn(t), ask.filter, ask.cursor, page.items, page.next),
         NEW v, v = Append(SubSeq(w, 1, Len(ask.before)), page.items),
         NEW R, R = IF ask.before = <<>> THEN StoredIn(t) ELSE S
  PROVE  v \in Walks /\ Arrived(t, R, v, ask, page.next)
<1> DEFINE n == Len(ask.before)
           u == SubSeq(w, 1, n)
<1>1. /\ n \in Nat /\ ask.before \in Seq(Marks) /\ n <= Len(w) /\ Followed(ask)
      /\ n = 0 <=> ask.before = <<>>
      /\ \A i \in 1..n : Covers(t, S, ask.filter, Mark(ask, i), w[i], Bound(ask, i, {}))
  BY EmptySeq DEF Asks, Ready, Walked
<1>2. u \in Walks /\ Len(u) = n /\ \A i \in 1..n : u[i] = w[i]
  <2>1. \A i \in 1..n : w[i] \in Seq(Ids)
    BY <1>1 DEF Walks
  <2>2. /\ u \in Seq(Seq(Ids)) /\ Len(u) = IF 1 <= n THEN n - 1 + 1 ELSE 0
        /\ \A i \in 1..(n - 1 + 1) : u[i] = w[1 + i - 1]
    BY <1>1, <2>1, SubSeqProperties
  <2>3. n - 1 + 1 = n /\ (IF 1 <= n THEN n - 1 + 1 ELSE 0) = n /\ \A i \in 1..n : 1 + i - 1 = i
    BY <1>1
  <2> QED BY <2>2, <2>3 DEF Walks
<1> HIDE DEF u
<1>3. /\ v \in Walks /\ Len(v) = n + 1 /\ v[n + 1] = page.items
      /\ \A i \in 1..n : v[i] = w[i]
  <2>1. page.items \in Seq(Ids) /\ v = Append(u, page.items)
    BY DEF Pages, u
  <2>2. /\ v \in Seq(Seq(Ids)) /\ Len(v) = Len(u) + 1 /\ v[Len(u) + 1] = page.items
        /\ \A i \in 1..Len(u) : v[i] = u[i]
    BY <1>2, <2>1, AppendProperties DEF Walks
  <2> QED BY <1>2, <2>2 DEF Walks
<1>4. ASSUME NEW i \in 1..(n + 1)
      PROVE  Covers(t, R, ask.filter, Mark(ask, i), v[i], Bound(ask, i, page.next))
  <2>1. CASE i = n + 1
    <3>1. Mark(ask, i) = ask.cursor /\ Bound(ask, i, page.next) = page.next
      BY <1>1, <2>1 DEF Mark, Bound
    <3>2. Covers(t, R, ask.filter, ask.cursor, page.items, page.next)
      BY CoversStill
    <3> QED BY <1>3, <2>1, <3>1, <3>2
  <2>2. CASE i \in 1..n
    <3>1. R = S /\ i <= n
      BY <1>1, <2>2
    <3>2. Bound(ask, i, page.next) = Bound(ask, i, {})
      BY <3>1 DEF Bound
    <3> QED BY <1>1, <1>3, <2>2, <3>1, <3>2
  <2> QED BY <1>1, <2>1, <2>2
<1>5. Walked(t, R, v, ask, n + 1, page.next)
  BY <1>1, <1>3, <1>4 DEF Walked
<1> QED BY <1>3, <1>5 DEF Arrived

\* The rows in S that a filter selects; the pages of a walk hold them in order,
\* and hold them all.
Chosen(t, S, filter) == {id \in S : filter \subseteq {t[id]}}
InOrder(t, R, w) ==
  \A i, j \in DOMAIN w : \A m \in DOMAIN w[i], n \in DOMAIN w[j] :
    /\ i < j \/ (i = j /\ m < n)
    /\ {w[i][m], w[j][n]} \subseteq R
    => Precedes(Key(t, w[i][m]), Key(t, w[j][n]))
Complete(R, w) == \A id \in R : \E i \in DOMAIN w : \E m \in DOMAIN w[i] : w[i][m] = id

\* On a walk the untouched rows are in order, and none is left out.
LEMMA WalkLists ==
  ASSUME NEW t \in Tables, NEW S, S \subseteq StoredIn(t), NEW w \in Walks,
         NEW ask \in Asks, NEW next \in Marks, Arrived(t, S, w, ask, next)
  PROVE  /\ InOrder(t, Chosen(t, S, ask.filter), w)
         /\ next = {} => Complete(Chosen(t, S, ask.filter), w)
<1> DEFINE N == Len(ask.before) + 1
           matching == {id \in S : ask.filter \subseteq {t[id]}}
<1>1. /\ Len(ask.before) \in Nat /\ N \in Nat /\ Len(w) = N /\ DOMAIN w = 1..N /\ Followed(ask)
      /\ \A i \in 1..N : Covers(t, S, ask.filter, Mark(ask, i), w[i], Bound(ask, i, next))
  BY DEF Asks, Arrived, Walked, Walks
<1>2. \A i \in 1..N : Mark(ask, i) \in Marks
  BY <1>1 DEF Mark, Asks
<1>3. \A i \in 1..N : i + 1 \in 1..N => Bound(ask, i, next) = Mark(ask, i + 1)
  BY <1>1 DEF Bound
<1>4. \A id \in S : Key(t, id) \in RowKeys
  BY DEF StoredIn, Key, RowKeys, Tables
<1>5. \A i \in 1..N : Mark(ask, i) = {} <=> i = 1
  BY <1>1 DEF Followed
<1>6. \A mark \in Marks : \A c \in mark : c.after \in RowKeys /\ mark = {c}
  BY DEF Marks, Cursors
<1> HIDE DEF N
<1>7. ASSUME NEW i \in 1..N, NEW id \in S, Holds(w[i], id)
      PROVE  \A j \in 1..N : i < j => Within(t, id, Mark(ask, j))
  <2> DEFINE K == {k \in Nat : i + 1 + k \in 1..N => Within(t, id, Mark(ask, i + 1 + k))}
  <2>1. 0 \in K
    BY <1>1, <1>3, <1>7 DEF Covers
  <2>2. ASSUME NEW k \in Nat, k \in K PROVE k + 1 \in K
    <3> DEFINE j == i + 1 + k
    <3> SUFFICES ASSUME j + 1 \in 1..N PROVE Within(t, id, Mark(ask, j + 1))
      BY <1>1
    <3>1. j \in 1..N /\ j # 1
      BY <1>1
    <3>2. Within(t, id, Mark(ask, j))
      BY <2>2, <3>1
    <3>3. PICK c \in Mark(ask, j) : c.after \in RowKeys
      BY <1>2, <1>5, <1>6, <3>1
    <3>4. \A d \in Mark(ask, j + 1) : d.after \in RowKeys /\ Precedes(c.after, d.after)
      BY <1>1, <1>2, <1>3, <1>6, <3>1 DEF Covers
    <3> QED BY <1>4, <3>2, <3>3, <3>4, RowOrder DEF Within
  <2>3. Nat \subseteq K
    <3> HIDE DEF K
    <3> QED BY <2>1, <2>2, SetInduction
  <2>4. ASSUME NEW j \in 1..N, i < j PROVE Within(t, id, Mark(ask, j))
    <3>1. j - (i + 1) \in Nat /\ i + 1 + (j - (i + 1)) = j
      BY <1>1, <2>4
    <3> QED BY <2>3, <3>1
  <2> QED BY <2>4
<1>8. ASSUME NEW i \in 1..N, NEW j \in 1..N, NEW m \in DOMAIN w[i], NEW n \in DOMAIN w[j],
             i < j \/ (i = j /\ m < n), w[i][m] \in matching, w[j][n] \in matching
      PROVE  Precedes(Key(t, w[i][m]), Key(t, w[j][n]))
  <2>1. Holds(w[i], w[i][m]) /\ Holds(w[j], w[j][n])
    BY DEF Holds
  <2>2. CASE i < j
    <3>1. Within(t, w[i][m], Mark(ask, j)) /\ Passed(t, w[j][n], Mark(ask, j))
      BY <1>1, <1>7, <1>8, <2>1, <2>2 DEF Covers
    <3>2. PICK c \in Mark(ask, j) : c.after \in RowKeys
      BY <1>1, <1>2, <1>5, <1>6, <2>2
    <3>3. ~Precedes(c.after, Key(t, w[i][m])) /\ Precedes(c.after, Key(t, w[j][n]))
      BY <3>1 DEF Within, Passed
    <3> QED BY <1>4, <1>8, <3>2, <3>3, RowOrder
  <2>3. CASE i = j /\ m < n
    BY <1>1, <1>8, <2>3 DEF Covers
  <2> QED BY <1>8, <2>2, <2>3
<1>9. ASSUME next = {}, NEW id \in matching
      PROVE  \E i \in 1..N : Holds(w[i], id)
  <2> SUFFICES ASSUME \A i \in 1..N : ~Holds(w[i], id) PROVE FALSE
    OBVIOUS
  <2> DEFINE K == {k \in Nat : k + 1 \in 1..N => Passed(t, id, Mark(ask, k + 1))}
  <2>1. \A i \in 1..N : Passed(t, id, Mark(ask, i)) => ~Within(t, id, Bound(ask, i, next))
    BY <1>1 DEF Covers
  <2>2. 0 \in K
    BY <1>5 DEF Passed
  <2>3. ASSUME NEW k \in Nat, k \in K PROVE k + 1 \in K
    <3> SUFFICES ASSUME k + 2 \in 1..N PROVE Passed(t, id, Mark(ask, k + 2))
      BY <1>1
    <3>1. k + 1 \in 1..N /\ (k + 1) + 1 = k + 2
      BY <1>1
    <3>2. ~Within(t, id, Mark(ask, k + 2))
      BY <1>3, <2>1, <2>3, <3>1
    <3>3. PICK c \in Mark(ask, k + 2) : Precedes(c.after, Key(t, id))
      BY <3>2 DEF Within
    <3> QED BY <1>2, <1>6, <3>3 DEF Passed
  <2>4. Nat \subseteq K
    <3> HIDE DEF K
    <3> QED BY <2>2, <2>3, SetInduction
  <2>5. N - 1 \in Nat /\ (N - 1) + 1 = N /\ N \in 1..N
    BY <1>1 DEF N
  <2>6. Passed(t, id, Mark(ask, N)) /\ Bound(ask, N, next) = {}
    BY <1>1, <1>9, <2>4, <2>5 DEF Bound, N
  <2> QED BY <2>1, <2>5, <2>6 DEF Within
<1> QED BY <1>1, <1>8, <1>9 DEF Holds, InOrder, Complete, Chosen

-----------------------------------------------------------------------------
(***************************************************************************)
(* The views and the requests of a browser.                                *)
(***************************************************************************)

Lists == [kind : {"list"}, asked : Asks, shown : SUBSET [ask : Asks, page : Pages],
          apply : BOOLEAN, refresh : BOOLEAN]
Views == {Starting, Failed} \cup {Form(busy) : busy \in BOOLEAN} \cup Lists

Loads == [kind : {"load"}, reported : BOOLEAN, ask : Asks, answer : SUBSET Pages]
Requests == {Free, Metadata} \cup [kind : {"stale"}, reported : BOOLEAN]
            \cup [kind : {"submit"}, own : BOOLEAN, refreshes : BOOLEAN] \cup Loads

ClientTypeOK ==
  /\ rows \in Tables /\ IsFiniteSet(StoredIn(rows)) /\ still \subseteq StoredIn(rows)
  /\ content \in Views /\ entered \in Filters
  /\ requests \in [Slots -> Requests]

\* A form that restores its button when it is answered.
Own(r) == r.kind = "submit" /\ r.own

\* One load at most is in flight, for the page that the view asked for last; a
\* list is not taken for the form of a submission.
OneLoad ==
  /\ content.kind = "list" =>
       /\ content.apply => content.shown # {}
       /\ \A p \in content.shown : p.ask = content.asked
  /\ \A s \in Slots : requests[s].kind = "load" =>
       /\ content.kind = "list" /\ content.shown = {} /\ requests[s].ask = content.asked
       /\ \A t \in Slots : requests[t].kind = "load" => t = s
  /\ content.kind = "list" => \A s \in Slots : ~Own(requests[s])

\* What was walked leads to the page on the screen, or to the one asked for.
WalkLeads ==
  /\ walk \in Walks
  /\ content.kind = "list" =>
       \A p \in content.shown : Arrived(rows, still, walk, p.ask, p.page.next)
  /\ \A s \in Slots : requests[s].kind = "load" =>
       /\ requests[s].answer = {} => Ready(rows, still, walk, requests[s].ask)
       /\ \A page \in requests[s].answer : Arrived(rows, still, walk, requests[s].ask, page.next)

ClientInv == ClientTypeOK /\ OneLoad /\ (NullsFirst => WalkLeads)

LEMMA ViewKinds ==
  \A view \in Views : view.kind = "list" => view \in Lists
BY DEF Views, Starting, Failed, Form

LEMMA RequestKinds ==
  /\ \A r \in Requests : r.kind = "load" => r \in Loads
  /\ \A r \in Requests : Orphan(r) \in Requests /\ Orphan(r).kind # "load" /\ ~Own(Orphan(r))
  /\ Free \in Requests /\ Free.kind # "load"
  /\ Metadata \in Requests /\ Metadata.kind # "load"
  /\ \A own, refreshes \in BOOLEAN :
       Call(own, refreshes) \in Requests /\ Call(own, refreshes).kind # "load"
  /\ \A ask \in Asks, reported \in BOOLEAN :
       Load(ask, reported) \in Loads /\ Load(ask, reported) \in Requests
  /\ ~Own(Free) /\ ~Own(Metadata) /\ \A ask, reported : ~Own(Load(ask, reported))
<1>1. \A r \in Requests : r.kind = "load" => r \in Loads
  BY DEF Requests, Free, Metadata
<1>2. ASSUME NEW r \in Requests PROVE Orphan(r) \in Requests /\ Orphan(r).kind # "load" /\ ~Own(Orphan(r))
  <2>1. CASE r.kind = "load"
    <3>1. r.reported \in BOOLEAN /\ Orphan(r) = [kind |-> "stale", reported |-> r.reported]
      BY <1>1, <2>1 DEF Orphan, Stale, Loads
    <3> QED BY <3>1 DEF Requests, Own
  <2>2. CASE r.kind = "submit"
    <3>1. r.refreshes \in BOOLEAN
      BY <2>2 DEF Requests, Free, Metadata, Loads
    <3>2. Orphan(r) = [kind |-> "submit", own |-> FALSE, refreshes |-> r.refreshes]
      BY <2>2 DEF Orphan, Call
    <3> QED BY <3>1, <3>2 DEF Requests, Own
  <2>3. CASE r.kind # "load" /\ r.kind # "submit"
    BY <2>3 DEF Orphan, Own
  <2> QED BY <2>1, <2>2, <2>3
<1>3. /\ Free \in Requests /\ Free.kind # "load"
      /\ Metadata \in Requests /\ Metadata.kind # "load"
  BY DEF Requests, Free, Metadata
<1>4. \A own, refreshes \in BOOLEAN :
        Call(own, refreshes) \in Requests /\ Call(own, refreshes).kind # "load"
  BY DEF Requests, Call
<1>5. \A ask \in Asks, reported \in BOOLEAN :
        Load(ask, reported) \in Loads /\ Load(ask, reported) \in Requests
  BY DEF Requests, Loads, Load
<1>6. ~Own(Free) /\ ~Own(Metadata) /\ \A ask, reported : ~Own(Load(ask, reported))
  BY DEF Own, Free, Metadata, Load
<1> QED BY <1>1, <1>2, <1>3, <1>4, <1>5, <1>6

LEMMA AsksAre ==
  ASSUME NEW filter \in Filters, NEW limit \in Limits, NEW cursor \in Marks,
         NEW before \in Seq(Marks)
  PROVE  Ask(filter, limit, cursor, before) \in Asks
BY DEF Ask, Asks

LEMMA StartAsks ==
  ASSUME NEW filter \in Filters, NEW limit \in Limits
  PROVE  AtStart(filter, limit) \in Asks
<1>1. {} \in Marks /\ <<>> \in Seq(Marks)
  BY DEF Marks
<1> QED BY <1>1, AsksAre DEF AtStart

LEMMA DetachedIs ==
  ASSUME NEW rs \in [Slots -> Requests]
  PROVE  /\ Detached(rs) \in [Slots -> Requests]
         /\ \A s \in Slots : Detached(rs)[s].kind # "load" /\ ~Own(Detached(rs)[s])
BY RequestKinds DEF Detached

\* The view gives way to one that is not a list.
LEMMA LeftView ==
  ASSUME ClientInv, rows' = rows, walk' = <<>>, still' = {}, entered' = {},
         content' \in Views, content'.kind # "list",
         requests' \in [Slots -> Requests], \A s \in Slots : requests'[s].kind # "load"
  PROVE  ClientInv'
<1>1. <<>> \in Walks /\ {} \in Filters
  BY DEF Walks, Filters
<1>2. ClientTypeOK'
  BY <1>1 DEF ClientInv, ClientTypeOK
<1> QED BY <1>1, <1>2 DEF ClientInv, OneLoad, WalkLeads

\* What is on the screen and what loads for it stay.
LEMMA SameView ==
  ASSUME ClientInv, rows' = rows, walk' = walk, still' = still, entered' \in Filters,
         content' \in Views, content' = content \/ (content.kind # "list" /\ content'.kind # "list"),
         requests' \in [Slots -> Requests],
         \A s \in Slots : requests'[s].kind = "load" => requests'[s] = requests[s],
         \A s \in Slots : Own(requests'[s]) => requests'[s] = requests[s] \/ content'.kind # "list"
  PROVE  ClientInv'
<1>1. ClientTypeOK'
  BY DEF ClientInv, ClientTypeOK
<1>2. OneLoad'
  BY DEF ClientInv, OneLoad
<1>3. NullsFirst => WalkLeads'
  BY DEF ClientInv, WalkLeads
<1> QED BY <1>1, <1>2, <1>3 DEF ClientInv

\* A list appears, and its first page is asked for.
LEMMA RenderedView ==
  ASSUME ClientInv, rows' = rows, NEW s \in Slots, NEW refresh \in BOOLEAN,
         RenderList(s, refresh)
  PROVE  ClientInv'
<1> DEFINE ask == AtStart({}, MaxLimit)
<1>1. ask \in Asks
  <2>1. MaxLimit \in Limits
    BY SlotsAssumption DEF Limits
  <2> QED BY <2>1, StartAsks DEF Filters
<1>2. /\ content' = [kind |-> "list", asked |-> ask, shown |-> {}, apply |-> FALSE, refresh |-> refresh]
      /\ entered' = {} /\ walk' = <<>> /\ still' = {}
      /\ requests' = [Detached(requests) EXCEPT ![s] = Load(ask, ~refresh)]
  BY DEF RenderList, Show, Listing, Reported
<1>3. Load(ask, ~refresh) \in Requests /\ Load(ask, ~refresh).ask = ask /\ Load(ask, ~refresh).answer = {}
  BY <1>1, RequestKinds DEF Load
<1>4. /\ requests' \in [Slots -> Requests] /\ requests'[s] = Load(ask, ~refresh)
      /\ \A t \in Slots : (requests'[t].kind = "load" => t = s) /\ ~Own(requests'[t])
  BY <1>2, <1>3, DetachedIs, RequestKinds DEF ClientInv, ClientTypeOK
<1>5. <<>> \in Walks /\ {} \in Filters
  BY DEF Walks, Filters
<1>6. Ready(rows, {}, <<>>, ask)
  BY <1>5, StartReady DEF AtStart
<1> HIDE DEF ask
<1>7. content' \in Views
  BY <1>1, <1>2 DEF Views, Lists
<1>8. ClientTypeOK'
  BY <1>2, <1>4, <1>5, <1>7 DEF ClientInv, ClientTypeOK
<1>9. OneLoad'
  BY <1>2, <1>3, <1>4 DEF OneLoad
<1>10. NullsFirst => WalkLeads'
  BY <1>2, <1>3, <1>4, <1>5, <1>6 DEF WalkLeads
<1> QED BY <1>8, <1>9, <1>10 DEF ClientInv

\* The view asks for another page of its list.
LEMMA AskedView ==
  ASSUME ClientInv, rows' = rows, NEW s \in Slots, NEW ask \in Asks, LoadPage(s, ask),
         content.kind = "list", content.shown # {},
         NullsFirst => Ready(rows, still, walk, ask)
  PROVE  ClientInv'
<1>1. content \in Lists /\ requests \in [Slots -> Requests]
  BY ViewKinds DEF ClientInv, ClientTypeOK
<1>2. /\ content' = [kind |-> "list", asked |-> ask, shown |-> {}, apply |-> FALSE, refresh |-> FALSE]
      /\ entered' = entered /\ walk' = walk /\ still' = still
      /\ requests' = [requests EXCEPT ![s] = Load(ask, TRUE)]
  BY <1>1 DEF LoadPage, Reported, Lists, history
<1>3. Load(ask, TRUE) \in Requests /\ Load(ask, TRUE).ask = ask /\ Load(ask, TRUE).answer = {}
  BY RequestKinds DEF Load
<1>4. /\ requests' \in [Slots -> Requests] /\ requests'[s] = Load(ask, TRUE)
      /\ \A t \in Slots : (requests'[t].kind = "load" => t = s) /\ ~Own(requests'[t])
  BY <1>1, <1>2, <1>3, RequestKinds DEF ClientInv, OneLoad
<1>5. content' \in Views
  BY <1>2 DEF Views, Lists
<1>6. ClientTypeOK'
  BY <1>2, <1>4, <1>5 DEF ClientInv, ClientTypeOK
<1>7. OneLoad'
  BY <1>2, <1>3, <1>4 DEF OneLoad
<1>8. NullsFirst => WalkLeads'
  BY <1>2, <1>3, <1>4 DEF ClientInv, WalkLeads
<1> QED BY <1>6, <1>7, <1>8 DEF ClientInv

\* A row is written.
LEMMA WrittenRow ==
  ASSUME ClientInv, NEW id \in Ids, NEW value \in Cells \cup {NoRow}, WriteRow(id, value)
  PROVE  ClientInv'
<1>1. /\ rows \in Tables /\ rows' = [rows EXCEPT ![id] = value] /\ still' = still \ {id}
      /\ content' = content /\ entered' = entered /\ requests' = requests /\ walk' = walk
  BY DEF WriteRow, screen, ClientInv, ClientTypeOK
<1>2. rows' \in Tables /\ \A other \in Ids \ {id} : rows'[other] = rows[other]
  BY <1>1 DEF Tables
<1>3. StoredIn(rows') \subseteq StoredIn(rows) \cup {id}
  BY <1>2 DEF StoredIn
<1>4. IsFiniteSet(StoredIn(rows'))
  BY <1>3, FS_AddElement, FS_Subset DEF ClientInv, ClientTypeOK
<1>5. still' \subseteq StoredIn(rows') /\ still' \subseteq still
      /\ \A other \in still' : rows'[other] = rows[other]
  BY <1>1, <1>2 DEF StoredIn, ClientInv, ClientTypeOK
<1>6. ClientTypeOK'
  BY <1>1, <1>2, <1>4, <1>5 DEF ClientInv, ClientTypeOK
<1>7. OneLoad'
  BY <1>1 DEF ClientInv, OneLoad
<1>8. \A ask, next :
        /\ Arrived(rows, still, walk, ask, next) => Arrived(rows', still', walk, ask, next)
        /\ Ready(rows, still, walk, ask) => Ready(rows', still', walk, ask)
  BY <1>5, WalkedStill
<1>9. NullsFirst => WalkLeads'
  <2>1. content' = content /\ requests' = requests /\ walk' = walk
    BY <1>1
  <2> QED BY <1>8, <2>1 DEF ClientInv, WalkLeads
<1> QED BY <1>6, <1>7, <1>9 DEF ClientInv

\* The server reads a page for a request of the view.
LEMMA ServedPage ==
  ASSUME ClientInv, NEW s \in Slots, Serve(s)
  PROVE  ClientInv'
<1> DEFINE r == requests[s]
           ask == requests[s].ask
<1>1. /\ r \in Loads /\ r.kind = "load" /\ r.answer = {} /\ ask \in Asks
      /\ CursorMatches(ask.cursor, ask.filter)
      /\ requests \in [Slots -> Requests]
  BY RequestKinds DEF Serve, ClientInv, ClientTypeOK, Loads
<1>2. PICK page : /\ page = Page(rows, ask.filter, ask.cursor, ask.limit)
                  /\ requests' = [requests EXCEPT ![s].answer = {page}]
                  /\ walk' = Append(SubSeq(walk, 1, Len(ask.before)), page.items)
  BY DEF Serve
<1>3. /\ still' = IF ask.before = <<>> THEN StoredIn(rows) ELSE still
      /\ rows' = rows /\ content' = content /\ entered' = entered
  BY DEF Serve, StoredIn
<1>4. /\ page \in Pages
      /\ NullsFirst => Covers(rows, StoredIn(rows), ask.filter, ask.cursor, page.items, page.next)
  BY <1>1, <1>2, PageIs DEF ClientInv, ClientTypeOK, Asks, Limits
<1>5. requests'[s] = [kind |-> "load", reported |-> r.reported, ask |-> ask, answer |-> {page}]
  BY <1>1, <1>2 DEF Loads
<1>6. requests'[s] \in Loads /\ \A t \in Slots \ {s} : requests'[t] = requests[t]
  BY <1>1, <1>2, <1>4, <1>5 DEF Loads
<1>7. requests' \in [Slots -> Requests]
  <2>1. DOMAIN requests' = Slots /\ \A t \in Slots : requests'[t] \in Requests
    BY <1>1, <1>2, <1>6 DEF Requests
  <2> QED BY <1>2, <2>1
<1>8. ClientTypeOK'
  <2>1. still' \subseteq StoredIn(rows)
    BY <1>3 DEF ClientInv, ClientTypeOK
  <2> QED BY <1>3, <1>7, <2>1 DEF ClientInv, ClientTypeOK
<1>9. OneLoad'
  <2>1. /\ content.kind = "list" /\ content.shown = {} /\ ask = content.asked
        /\ \A t \in Slots : requests[t].kind = "load" => t = s
    BY <1>1 DEF ClientInv, OneLoad
  <2>2. \A t \in Slots : ~Own(requests'[t])
    BY <1>5, <1>6, <2>1 DEF ClientInv, OneLoad, Own
  <2> QED BY <1>3, <1>5, <1>6, <2>1, <2>2 DEF ClientInv, OneLoad
<1>10. ASSUME NullsFirst PROVE WalkLeads'
  <2>1. Ready(rows, still, walk, ask) /\ walk \in Walks
    BY <1>1, <1>10 DEF ClientInv, WalkLeads
  <2>2. still \subseteq StoredIn(rows)
    BY DEF ClientInv, ClientTypeOK
  <2>3. walk' \in Walks /\ Arrived(rows, still', walk', ask, page.next)
    BY <1>1, <1>2, <1>3, <1>4, <1>10, <2>1, <2>2, PageWalked
  <2>4. /\ content'.shown = {}
        /\ \A t \in Slots : requests'[t].kind = "load" => t = s
    BY <1>1, <1>3, <1>6 DEF ClientInv, OneLoad
  <2>5. requests'[s].ask = ask /\ requests'[s].answer = {page}
    BY <1>5
  <2>6. Arrived(rows', still', walk', ask, page.next)
    BY <1>3, <2>3
  <2> HIDE DEF ask
  <2> QED BY <2>3, <2>4, <2>5, <2>6 DEF WalkLeads
<1> QED BY <1>8, <1>9, <1>10 DEF ClientInv

\* The page comes back.
LEMMA ReceivedPage ==
  ASSUME ClientInv, NEW s \in Slots, ReceivePage(s)
  PROVE  ClientInv'
<1>1. PICK page \in requests[s].answer :
        content' = [content EXCEPT !.shown = {[ask |-> requests[s].ask, page |-> page]}, !.apply = TRUE]
  BY DEF ReceivePage
<1>2. /\ requests[s] \in Loads /\ requests[s].kind = "load" /\ requests \in [Slots -> Requests]
      /\ requests' = [requests EXCEPT ![s] = Free] /\ rows' = rows /\ entered' = entered
      /\ walk' = walk /\ still' = still
  BY RequestKinds DEF ReceivePage, Ends, Forget, history, ClientInv, ClientTypeOK
<1>3. /\ content.kind = "list" /\ content \in Lists /\ requests[s].ask = content.asked
      /\ \A t \in Slots : requests[t].kind = "load" => t = s
  BY <1>2, ViewKinds DEF ClientInv, ClientTypeOK, OneLoad
<1> DEFINE p == [ask |-> content.asked, page |-> page]
<1>4. /\ content' = [kind |-> "list", asked |-> content.asked, shown |-> {p},
                    apply |-> TRUE, refresh |-> content.refresh]
      /\ content' \in Lists
  <2>1. /\ content.asked \in Asks /\ content.refresh \in BOOLEAN /\ page \in Pages
        /\ content = [kind |-> "list", asked |-> content.asked, shown |-> content.shown,
                      apply |-> content.apply, refresh |-> content.refresh]
    BY <1>1, <1>2, <1>3 DEF Lists, Loads
  <2>2. content' = [kind |-> "list", asked |-> content.asked, shown |-> {p},
                    apply |-> TRUE, refresh |-> content.refresh]
    BY <1>1, <1>3, <2>1
  <2>3. p \in [ask : Asks, page : Pages]
    BY <2>1
  <2> QED BY <2>1, <2>2, <2>3 DEF Lists
<1>5. /\ requests' \in [Slots -> Requests]
      /\ \A t \in Slots : requests'[t].kind # "load" /\ ~Own(requests'[t])
  BY <1>2, <1>3, RequestKinds DEF ClientInv, OneLoad
<1>6. ClientTypeOK'
  BY <1>2, <1>4, <1>5 DEF ClientInv, ClientTypeOK, Views
<1>7. OneLoad'
  <2>1. p.ask = content.asked /\ \A q \in content'.shown : q = p
    BY <1>4
  <2> QED BY <1>4, <1>5, <2>1 DEF OneLoad
<1>8. ASSUME NullsFirst PROVE WalkLeads'
  <2>1. walk \in Walks /\ Arrived(rows, still, walk, content.asked, page.next)
    BY <1>2, <1>3, <1>8 DEF ClientInv, WalkLeads
  <2> QED BY <1>2, <1>4, <1>5, <2>1 DEF WalkLeads
<1> QED BY <1>6, <1>7, <1>8 DEF ClientInv

\* What the user does.
LEMMA UserSteps ==
  ASSUME ClientInv, NEW s \in Slots, User(s)
  PROVE  ClientInv'
<1>1. /\ rows' = rows /\ requests \in [Slots -> Requests] /\ entered \in Filters
      /\ content \in Views
  BY DEF User, Reload, NextPage, BackPage, OpenList, Apply, Submit, Click, ClientInv, ClientTypeOK
<1>2. CASE Reload(s)
  <2>1. requests' \in [Slots -> Requests] /\ \A t \in Slots : requests'[t].kind # "load"
    BY <1>1, <1>2, DetachedIs, RequestKinds DEF Reload
  <2>2. content' \in Views /\ content'.kind # "list" /\ walk' = <<>> /\ still' = {} /\ entered' = {}
    BY <1>2 DEF Reload, Show, Starting, Views
  <2> QED BY <1>1, <2>1, <2>2, LeftView
<1>3. CASE OpenList(s)
  BY <1>1, <1>3, RenderedView DEF OpenList
<1>4. CASE \E limit \in Limits : Apply(s, limit)
  <2>1. PICK limit \in Limits : Apply(s, limit)
    BY <1>4
  <2>2. content.kind = "list" /\ content.shown # {} /\ LoadPage(s, AtStart(entered, limit))
    BY <2>1 DEF Apply, MayApply, ClientInv, OneLoad
  <2>3. NullsFirst => Ready(rows, still, walk, AtStart(entered, limit))
    BY StartReady DEF AtStart, ClientInv, WalkLeads
  <2> QED BY <1>1, <2>2, <2>3, StartAsks, AskedView
<1>5. ASSUME NEW p \in content.shown, content.kind = "list"
      PROVE  /\ p.ask \in Asks /\ p.page \in Pages /\ p.page.next \in Marks
             /\ NullsFirst => walk \in Walks /\ Arrived(rows, still, walk, p.ask, p.page.next)
  BY <1>1, <1>5, ViewKinds DEF Lists, Pages, ClientInv, WalkLeads
<1>6. CASE \E limit \in Limits : NextPage(s, limit)
  <2>1. PICK limit \in Limits, p \in content.shown :
          /\ p.page.next # {} /\ content.kind = "list"
          /\ LoadPage(s, Ask(entered, limit, p.page.next, Append(p.ask.before, p.ask.cursor)))
    BY <1>6 DEF NextPage
  <2> DEFINE more == Ask(entered, limit, p.page.next, Append(p.ask.before, p.ask.cursor))
  <2>2. /\ p.page.next \in Marks
        /\ Append(p.ask.before, p.ask.cursor) \in Seq(Marks)
    BY <1>5, <2>1, AppendProperties DEF Asks
  <2>3. more \in Asks
    BY <1>1, <2>2, AsksAre
  <2>4. NullsFirst => Ready(rows, still, walk, more)
    BY <1>5, <2>1, NextReady
  <2> QED BY <1>1, <2>1, <2>3, <2>4, AskedView
<1>7. CASE \E limit \in Limits : BackPage(s, limit)
  <2>1. PICK limit \in Limits, p \in content.shown :
          /\ p.ask.before # <<>> /\ content.kind = "list"
          /\ LoadPage(s, Ask(entered, limit, p.ask.before[Len(p.ask.before)],
                             SubSeq(p.ask.before, 1, Len(p.ask.before) - 1)))
    BY <1>7 DEF BackPage
  <2> DEFINE n == Len(p.ask.before)
             less == Ask(entered, limit, p.ask.before[n], SubSeq(p.ask.before, 1, n - 1))
  <2>2. p.ask.before \in Seq(Marks) /\ n \in Nat /\ n # 0
    BY <1>5, <2>1, EmptySeq DEF Asks
  <2>3. p.ask.before[n] \in Marks /\ \A i \in 1..(n - 1) : p.ask.before[i] \in Marks
    BY <2>2
  <2>4. SubSeq(p.ask.before, 1, n - 1) \in Seq(Marks)
    BY <2>2, <2>3, SubSeqProperties
  <2>5. less \in Asks
    BY <1>1, <2>2, <2>3, <2>4, AsksAre
  <2>6. NullsFirst => Ready(rows, still, walk, less)
    BY <1>5, <2>1, BackReady
  <2> QED BY <1>1, <2>1, <2>5, <2>6, AskedView
<1>8. CASE \E refreshes \in BOOLEAN : Submit(s, refreshes)
  <2>1. PICK refreshes \in BOOLEAN : Submit(s, refreshes)
    BY <1>8
  <2>2. /\ content = Form(FALSE) /\ content' = Form(TRUE) /\ entered' = entered
        /\ walk' = walk /\ still' = still
        /\ requests' = [requests EXCEPT ![s] = Call(TRUE, refreshes)]
    BY <2>1 DEF Submit, history
  <2>3. /\ requests' \in [Slots -> Requests]
        /\ \A t \in Slots : requests'[t].kind = "load" => requests'[t] = requests[t]
    BY <1>1, <2>2, RequestKinds
  <2>4. content' \in Views /\ content.kind # "list" /\ content'.kind # "list"
    BY <2>2 DEF Form, Views
  <2> QED BY <1>1, <2>2, <2>3, <2>4, SameView
<1> QED BY <1>2, <1>3, <1>4, <1>6, <1>7, <1>8 DEF User

\* What the server and the network do.
LEMMA AnswerSteps ==
  ASSUME ClientInv, NEW s \in Slots, Answering(s)
  PROVE  ClientInv'
<1>1. /\ requests \in [Slots -> Requests] /\ entered \in Filters /\ content \in Views
      /\ rows' = rows
  BY DEF Answering, Serve, ReceivePage, Settle, Fail, ReceiveMetadata, ReceiveResult, Ends,
         ClientInv, ClientTypeOK
<1>2. Forget(s) \in [Slots -> Requests] /\ \A t \in Slots : t # s => Forget(s)[t] = requests[t]
  BY <1>1, RequestKinds DEF Forget
<1>3. ASSUME requests' = Forget(s)
      PROVE  /\ requests' \in [Slots -> Requests]
             /\ \A t \in Slots : requests'[t].kind = "load" => requests'[t] = requests[t]
             /\ \A t \in Slots : Own(requests'[t]) => requests'[t] = requests[t] \/ content'.kind # "list"
  BY <1>1, <1>2, <1>3, RequestKinds DEF Forget
<1>4. CASE Settle(s)
  <2>1. /\ requests' = Forget(s) /\ entered' = entered /\ walk' = walk /\ still' = still
        /\ content' = content \/ (requests[s].kind = "submit" /\ requests[s].own /\ content' = Form(FALSE))
    BY <1>4 DEF Settle, history
  <2>2. CASE content' = content
    BY <1>1, <1>3, <2>1, <2>2, SameView
  <2>3. CASE content.kind # "list" /\ content' = Form(FALSE)
    <3>1. content' \in Views /\ content'.kind # "list"
      BY <2>3 DEF Form, Views
    <3> QED BY <1>1, <1>3, <2>1, <2>3, <3>1, SameView
  <2>4. Own(requests[s]) => content.kind # "list"
    BY DEF ClientInv, OneLoad
  <2> QED BY <2>1, <2>2, <2>3, <2>4 DEF Own
<1>5. CASE Fail(s)
  <2>1. CASE requests[s] = Metadata \/ requests[s].reported
    <3>1. /\ content' = Failed /\ entered' = {} /\ walk' = <<>> /\ still' = {}
          /\ requests' = Detached(Forget(s))
      BY <1>5, <2>1 DEF Fail, Show
    <3>2. content' \in Views /\ content'.kind # "list"
      BY <3>1 DEF Failed, Views
    <3> QED BY <1>1, <1>2, <3>1, <3>2, DetachedIs, LeftView
  <2>2. CASE ~(requests[s] = Metadata \/ requests[s].reported)
    <3>1. /\ content' = content /\ entered' = entered /\ walk' = walk /\ still' = still
          /\ requests' = Forget(s)
      BY <1>5, <2>2 DEF Fail, history
    <3> QED BY <1>1, <1>3, <3>1, SameView
  <2> QED BY <2>1, <2>2
<1>6. CASE ReceiveMetadata(s) \/ ReceiveResult(s)
  BY <1>1, <1>6, RenderedView DEF ReceiveMetadata, ReceiveResult
<1> QED BY <1>4, <1>5, <1>6, ServedPage, ReceivedPage DEF Answering

\* The start, which asks for the metadata.
LEMMA ClientStarts == ClientInit => ClientInv
<1> SUFFICES ASSUME ClientInit PROVE ClientInv
  OBVIOUS
<1>1. rows \in Tables /\ StoredIn(rows) = Ids \ Vacant
  BY DEF ClientInit, StoredIn
<1>2. content = Starting /\ entered = {} /\ walk = <<>> /\ still = {}
  BY DEF ClientInit
<1>3. requests \in [Slots -> Requests] /\ \A s \in Slots : requests[s] \in {Free, Metadata}
  BY RequestKinds DEF ClientInit
<1>4. \A s \in Slots : requests[s].kind # "load" /\ ~Own(requests[s])
  BY <1>3, RequestKinds
<1>5. content \in Views /\ content.kind # "list" /\ <<>> \in Walks /\ {} \in Filters
  BY <1>2 DEF Views, Starting, Walks, Filters
<1>6. ClientTypeOK
  BY <1>1, <1>2, <1>3, <1>5, TableAssumption DEF ClientTypeOK
<1> QED BY <1>2, <1>4, <1>5, <1>6 DEF ClientInv, OneLoad, WalkLeads

LEMMA ClientSteps == ClientInv /\ [ClientNext]_clientVars => ClientInv'
<1> SUFFICES ASSUME ClientInv, [ClientNext]_clientVars PROVE ClientInv'
  OBVIOUS
<1>1. requests \in [Slots -> Requests] /\ content \in Views /\ entered \in Filters
  BY DEF ClientInv, ClientTypeOK
<1>2. CASE \E s \in Slots : User(s) \/ Answering(s)
  BY <1>2, UserSteps, AnswerSteps
<1>3. CASE OpenForm
  <2>1. /\ rows' = rows /\ content' = Form(FALSE) /\ entered' = {} /\ walk' = <<>> /\ still' = {}
        /\ requests' = Detached(requests)
    BY <1>3 DEF OpenForm, Click, Show
  <2>2. content' \in Views /\ content'.kind # "list"
    BY <2>1 DEF Form, Views
  <2> QED BY <1>1, <2>1, <2>2, DetachedIs, LeftView
<1>4. CASE \E filter \in {{}} \cup {{v} : v \in Entries} : EnterFilter(filter)
  <2>1. /\ rows' = rows /\ content' = content /\ requests' = requests
        /\ walk' = walk /\ still' = still /\ entered' \in {{}} \cup {{v} : v \in Entries}
    BY <1>4 DEF EnterFilter, Click, history
  <2>2. entered' \in Filters
    BY <2>1, SlotsAssumption DEF Filters
  <2> QED BY <1>1, <2>1, <2>2, SameView
<1>5. CASE \E id \in Ids, value \in Cells \cup {NoRow} : WriteRow(id, value)
  BY <1>5, WrittenRow
<1>6. CASE UNCHANGED clientVars
  <2>1. /\ rows' = rows /\ content' = content /\ entered' = entered /\ requests' = requests
        /\ walk' = walk /\ still' = still
    BY <1>6 DEF clientVars, screen, history
  <2> QED BY <1>1, <2>1, SameView
<1> QED BY <1>2, <1>3, <1>4, <1>5, <1>6 DEF ClientNext

THEOREM ClientInvariance == ClientSpec => []ClientInv
BY ClientStarts, ClientSteps, PTL DEF ClientSpec

\* The screen shows a loading notice, a form, an error, or a list that is
\* labelled with what was asked for (the views of client.ts): every request in
\* flight and every page on the screen is one that the client can make.
THEOREM ClientTypeCorrect == ClientSpec => []ClientTypeOK
BY ClientInvariance, PTL DEF ClientInv

\* The page on the screen is always the one asked for last in its view, whatever
\* the order in which answers arrive, and while it is shown no load of the view
\* is in flight: loadPage and renderList of client.ts, which let a late answer
\* fill only the view that asked for it.
THEOREM LatestRequestShown == ClientSpec => []ShowsLatestRequest
<1>1. ClientInv => ShowsLatestRequest
  BY DEF ClientInv, OneLoad, ShowsLatestRequest
<1> QED BY <1>1, ClientInvariance, PTL

\* Following Next through a list, and going Back, reads every matching row that
\* nobody writes meanwhile once and in the declared order (sqlite/list.ts and
\* client.ts), for any rows, any page size and any writes around them, provided
\* that no null is ordered after a value; with a nullable column in descending
\* order the property is false.
THEOREM StableRowsListed ==
  ASSUME NullsFirst
  PROVE  ClientSpec => []ListsEveryStableRow
<1>1. ASSUME ClientInv PROVE ListsEveryStableRow
  <2>1. ASSUME content.kind = "list", NEW p \in content.shown
        PROVE  /\ InOrder(rows, Matching(content), walk)
               /\ p.page.next = {} => Complete(Matching(content), walk)
    <3>1. /\ p.ask = content.asked /\ p.ask \in Asks /\ p.page.next \in Marks
          /\ rows \in Tables /\ still \subseteq StoredIn(rows)
      BY <1>1, <2>1, ViewKinds DEF ClientInv, ClientTypeOK, OneLoad, Lists, Pages
    <3>2. walk \in Walks /\ Arrived(rows, still, walk, p.ask, p.page.next)
      BY <1>1, <2>1 DEF ClientInv, WalkLeads
    <3>3. Matching(content) = Chosen(rows, still, p.ask.filter)
      BY <3>1 DEF Matching, Chosen
    <3> QED BY <3>1, <3>2, <3>3, WalkLists
  <2> QED BY <2>1 DEF ListsEveryStableRow, InOrder, Complete
<1> QED BY <1>1, ClientInvariance, PTL

=============================================================================
