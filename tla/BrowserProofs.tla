---------------------------- MODULE BrowserProofs ----------------------------
(***************************************************************************)
(* What runs in a browser: field notes' replicas, and the acceptance       *)
(* harness that drives an application's page.  The two share nothing.      *)
(*                                                                         *)
(* First ShowsTheWinner for any replicas and edits. The inductive          *)
(* invariant says of every journaled edit where it is: in the work of an   *)
(* activity that will apply it, among the lost ones, or reflected by the   *)
(* row, which no edit reflected in it wins against. That the row is the    *)
(* only such edit rests on Home and OneOwnEdit: a revision of an author is *)
(* one edit in all journals, for the author's own journal has every edit   *)
(* of it.                                                                  *)
(***************************************************************************)
EXTENDS NoteSync, Acceptance, SequenceTheorems, FiniteSetTheorems, WellFoundedInduction, TLAPS

NoteJournaled ==
  \A r \in Replicas : note[r] # None => note[r] \in journal[r]

WorkJournaled ==
  \A r \in Replicas, a \in Activities : work[r][a].todo \subseteq journal[r]

Home ==
  \A r \in Replicas : \A e \in journal[r] : e \in journal[e.replicaId]

\* The author's journal alone decides which edits there are.
OneOwnEdit ==
  \A r \in Replicas : \A e, f \in journal[r] :
    e.replicaId = r /\ f.replicaId = r /\ e.revision = f.revision => e = f

InRow(e, row) == row # None /\ ~ Wins(e, row)

Reflected ==
  \A r \in Replicas : \A e \in journal[r] :
    e \in Pending(r) \/ e \in lost[r] \/ InRow(e, note[r])

IInv ==
  /\ TypeOK
  /\ NoteJournaled
  /\ WorkJournaled
  /\ Home
  /\ OneOwnEdit
  /\ Reflected

-----------------------------------------------------------------------------
\* What is in the row stays in it when another edit is applied.
LEMMA Merging ==
  ASSUME NEW row \in Edits \cup {None}, NEW e \in Edits
  PROVE  /\ Merged(row, e) \in {row, e} \ {None}
         /\ InRow(e, Merged(row, e))
         /\ \A f \in Edits : InRow(f, row) => InRow(f, Merged(row, e))
<1>1. ASSUME NEW f \in Edits  PROVE f.revision \in Int /\ f.replicaId \in Int
  <2>1. f.revision \in Nat /\ f.replicaId \in Replicas
    BY NoteSyncAssumption
  <2>2. Replicas \subseteq Int
    BY NoteSyncAssumption
  <2>3. f.revision \in Int
    BY <2>1
  <2>4. f.replicaId \in Int
    BY <2>1, <2>2, Zenon
  <2> QED BY <2>3, <2>4
<1>2. e # None
  BY NoteSyncAssumption
<1>3. CASE row = None \/ Wins(e, row)
  <2>1. Merged(row, e) = e
    BY <1>3 DEF Merged
  <2>2. InRow(e, e)
    BY <1>1, <1>2 DEF InRow, Wins
  <2>3. ASSUME NEW f \in Edits, InRow(f, row)  PROVE ~ Wins(f, e)
    <3>1. row \in Edits /\ Wins(e, row) /\ ~ Wins(f, row)
      BY <1>3, <2>3 DEF InRow
    <3> QED BY <1>1, <3>1 DEF Wins
  <2> QED BY <1>2, <2>1, <2>2, <2>3 DEF InRow
<1>4. CASE ~(row = None \/ Wins(e, row))
  BY <1>4 DEF Merged, InRow
<1> QED BY <1>3, <1>4

LEMMA TypeCorrectStep ==
  ASSUME TypeOK, [Next]_vars
  PROVE  TypeOK'
<1> USE DEF TypeOK
<1>1. Idle \in Works /\ \A S \in SUBSET Edits : Applying(S) \in Works /\ Go(S) \in Works
  BY DEF Idle, Applying, Go, Works
<1>2. ASSUME NEW r \in Replicas, NEW a \in Activities
      PROVE  /\ work[r][a] \in Works
             /\ work[r][a].todo \subseteq Edits
             /\ ToApply(r, a) \subseteq Edits
  <2>1. work[r][a] \in Works
    BY DEF Works
  <2> QED BY <2>1 DEF Works, ToApply
<1>3. \A r \in Replicas : Pending(r) \subseteq Edits
  BY <1>2 DEF Pending
<1>4. ASSUME NEW r \in Replicas, NEW a \in Activities, NEW w \in Works
      PROVE  [work EXCEPT ![r][a] = w] \in [Replicas -> [Activities -> Works]]
  OBVIOUS
<1>5. ASSUME NEW r \in Replicas, Edit(r)  PROVE TypeOK'
  <2>1. PICK e \in Edits :
          /\ work' = [work EXCEPT ![r]["edit"] = Applying({e})]
          /\ journal' = [journal EXCEPT ![r] = @ \cup {e}]
          /\ UNCHANGED <<note, lost>>
    BY <1>5 DEF Edit, Starts
  <2>2. work' \in [Replicas -> [Activities -> Works]]
    BY <1>1, <1>4, <2>1 DEF Activities
  <2> QED BY <2>1, <2>2
<1>6. ASSUME NEW r \in Replicas, NEW from \in Replicas \ {r}, Sync(r, from)
      PROVE  TypeOK'
  <2>0. PICK entries \in SUBSET journal[from] :
          /\ Starts(r, "sync", Applying(entries \ journal[r]))
          /\ journal' = [journal EXCEPT ![r] = @ \cup (entries \ journal[r])]
          /\ UNCHANGED <<note, lost>>
    BY <1>6 DEF Sync
  <2> DEFINE S == entries \ journal[r]
  <2>1. /\ S \in SUBSET Edits
        /\ work' = [work EXCEPT ![r]["sync"] = Applying(S)]
        /\ journal' = [journal EXCEPT ![r] = @ \cup S]
        /\ UNCHANGED <<note, lost>>
    BY <2>0 DEF Starts
  <2> HIDE DEF S
  <2>2. work' \in [Replicas -> [Activities -> Works]]
    BY <1>1, <1>4, <2>1 DEF Activities
  <2> QED BY <2>1, <2>2
<1>7. ASSUME NEW r \in Replicas, RebuildRead(r)  PROVE TypeOK'
  <2> DEFINE w == [stage |-> "read", todo |-> journal[r], sought |-> None]
  <2>1. w \in Works
    BY DEF Works
  <2>2. work' \in [Replicas -> [Activities -> Works]]
    BY <1>4, <1>7, <2>1 DEF RebuildRead, Starts, Activities
  <2> QED BY <1>7, <2>2 DEF RebuildRead
<1>8. ASSUME NEW r \in Replicas, RebuildClear(r)  PROVE TypeOK'
  <2>1. Go(work[r]["rebuild"].todo) \in Works
    BY <1>1, <1>2 DEF Activities
  <2>2. work' = [work EXCEPT ![r]["rebuild"] = Go(work[r]["rebuild"].todo)]
    BY <1>8 DEF RebuildClear, Activities
  <2>3. work' \in [Replicas -> [Activities -> Works]]
    BY <1>4, <2>1, <2>2 DEF Activities
  <2> QED BY <1>8, <2>3 DEF RebuildClear
<1>9. ASSUME NEW r \in Replicas, NEW a \in Activities, Apply(r, a)  PROVE TypeOK'
  <2>1. PICK e \in ToApply(r, a) :
          /\ note' = [note EXCEPT ![r] = Merged(note[r], e)]
          /\ work' = [work EXCEPT ![r][a].todo = @ \ {e}, ![r][a].sought = e]
          /\ lost' = [lost EXCEPT ![r] = @ \ {e}]
          /\ UNCHANGED journal
    BY <1>9 DEF Apply
  <2> DEFINE w == [work[r][a] EXCEPT !.todo = @ \ {e}, !.sought = e]
  <2>2. e \in Edits
    BY <1>2
  <2>3. w \in Works
    BY <1>2, <2>2 DEF Works
  <2>4. work' = [work EXCEPT ![r][a] = w]
    BY <2>1
  <2>5. work' \in [Replicas -> [Activities -> Works]]
    BY <1>4, <2>3, <2>4
  <2>6. Merged(note[r], e) \in Edits \cup {None}
    BY <2>2 DEF Merged
  <2> QED BY <2>1, <2>5, <2>6
<1>10. ASSUME NEW r \in Replicas, NEW a \in Activities, Find(r, a)  PROVE TypeOK'
  <2>1. \E w \in Works : work' = [work EXCEPT ![r][a] = w]
    <3>1. CASE note[r] # None
      BY <1>1, <1>2, <1>10, <3>1 DEF Find
    <3>2. CASE note[r] = None
      BY <1>1, <1>10, <3>2 DEF Find
    <3> QED BY <3>1, <3>2
  <2>2. work' \in [Replicas -> [Activities -> Works]]
    BY <1>4, <2>1
  <2>3. lost' \in [Replicas -> SUBSET Edits]
    BY <1>2, <1>10 DEF Find
  <2> QED BY <1>10, <2>2, <2>3 DEF Find
<1>11. ASSUME NEW r \in Replicas, Crash(r)  PROVE TypeOK'
  BY <1>1, <1>3, <1>11 DEF Crash
<1>12. CASE UNCHANGED vars
  BY <1>12 DEF vars
<1> QED
  BY <1>5, <1>6, <1>7, <1>8, <1>9, <1>10, <1>11, <1>12 DEF Next

-----------------------------------------------------------------------------
\* An activity that starts had nothing to apply.
LEMMA Starting ==
  ASSUME TypeOK, NEW r \in Replicas, NEW a \in Activities, NEW w, Starts(r, a, w)
  PROVE  /\ \A b \in Activities : ToApply(r, b) \subseteq ToApply(r, b)'
         /\ w.stage = "apply" => ToApply(r, a)' = w.todo
         /\ \A b \in Activities \ {a} : work'[r][b] = work[r][b]
         /\ work'[r][a] = w
<1>1. /\ work'[r][a] = w
      /\ \A b \in Activities \ {a} : work'[r][b] = work[r][b]
  BY DEF Starts, TypeOK
<1>2. ToApply(r, a) = {}
  BY DEF ToApply, Starts, Idle
<1>3. \A b \in Activities \ {a} : ToApply(r, b)' = ToApply(r, b)
  BY <1>1 DEF ToApply
<1> QED BY <1>1, <1>2, <1>3 DEF ToApply

\* A step is the step of one replica.
Elsewhere(r) ==
  \A s \in Replicas \ {r} :
    /\ journal'[s] = journal[s]
    /\ note'[s] = note[s]
    /\ work'[s] = work[s]
    /\ lost'[s] = lost[s]

LEMMA OneReplica ==
  ASSUME TypeOK, Next
  PROVE  \E r \in Replicas :
           /\ Elsewhere(r)
           /\ \/ Edit(r)
              \/ \E from \in Replicas \ {r} : Sync(r, from)
              \/ RebuildRead(r)
              \/ RebuildClear(r)
              \/ \E a \in Activities : Apply(r, a) \/ Find(r, a)
              \/ Crash(r)
<1>1. ASSUME NEW r \in Replicas, Edit(r)  PROVE Elsewhere(r)
  BY <1>1 DEF Edit, Starts, Elsewhere, TypeOK
<1>2. ASSUME NEW r \in Replicas, NEW from \in Replicas, Sync(r, from)  PROVE Elsewhere(r)
  BY <1>2 DEF Sync, Starts, Elsewhere, TypeOK
<1>3. ASSUME NEW r \in Replicas, RebuildRead(r)  PROVE Elsewhere(r)
  BY <1>3 DEF RebuildRead, Starts, Elsewhere, TypeOK
<1>4. ASSUME NEW r \in Replicas, RebuildClear(r)  PROVE Elsewhere(r)
  BY <1>4 DEF RebuildClear, Elsewhere, TypeOK
<1>5. ASSUME NEW r \in Replicas, NEW a \in Activities, Apply(r, a)  PROVE Elsewhere(r)
  BY <1>5 DEF Apply, Elsewhere, TypeOK
<1>6. ASSUME NEW r \in Replicas, NEW a \in Activities, Find(r, a)  PROVE Elsewhere(r)
  BY <1>6 DEF Find, Elsewhere, TypeOK
<1>7. ASSUME NEW r \in Replicas, Crash(r)  PROVE Elsewhere(r)
  BY <1>7 DEF Crash, Elsewhere, TypeOK
<1> QED BY <1>1, <1>2, <1>3, <1>4, <1>5, <1>6, <1>7 DEF Next

\* Journals grow, by the edit of their replica and by edits of other journals.
LEMMA JournalStep ==
  ASSUME TypeOK, NEW r \in Replicas,
         \/ Edit(r)
         \/ \E from \in Replicas \ {r} : Sync(r, from)
         \/ RebuildRead(r)
         \/ RebuildClear(r)
         \/ \E a \in Activities : Apply(r, a) \/ Find(r, a)
         \/ Crash(r)
  PROVE  /\ journal[r] \subseteq journal'[r]
         /\ \A e \in journal'[r] \ journal[r] :
              \/ /\ e.replicaId = r
                 /\ journal'[r] = journal[r] \cup {e}
                 /\ \A f \in journal[r] : f.replicaId = r => f.revision # e.revision
              \/ \E s \in Replicas \ {r} : e \in journal[s]
<1> DEFINE Grown ==
      /\ journal[r] \subseteq journal'[r]
      /\ \A e \in journal'[r] \ journal[r] :
           \/ /\ e.replicaId = r
              /\ journal'[r] = journal[r] \cup {e}
              /\ \A f \in journal[r] : f.replicaId = r => f.revision # e.revision
           \/ \E s \in Replicas \ {r} : e \in journal[s]
<1>1. CASE Edit(r)
  <2>1. PICK e \in Edits :
          /\ e.replicaId = r
          /\ \A f \in journal[r] : f.replicaId = r => f.revision # e.revision
          /\ journal' = [journal EXCEPT ![r] = @ \cup {e}]
    BY <1>1 DEF Edit
  <2>2. journal'[r] = journal[r] \cup {e}
    BY <2>1 DEF TypeOK
  <2> QED BY <2>1, <2>2
<1>2. ASSUME NEW from \in Replicas \ {r}, Sync(r, from)  PROVE Grown
  <2>1. PICK entries \in SUBSET journal[from] :
          journal' = [journal EXCEPT ![r] = @ \cup (entries \ journal[r])]
    BY <1>2 DEF Sync
  <2>2. journal'[r] = journal[r] \cup entries
    BY <2>1 DEF TypeOK
  <2> QED BY <2>1, <2>2
<1>3. CASE UNCHANGED journal
  BY <1>3
<1> QED
  BY <1>1, <1>2, <1>3 DEF RebuildRead, RebuildClear, Apply, Find, Crash

LEMMA OwnershipStep ==
  ASSUME TypeOK, Home, OneOwnEdit, Next
  PROVE  Home' /\ OneOwnEdit'
<1>1. PICK r \in Replicas :
        /\ \A s \in Replicas \ {r} : journal'[s] = journal[s]
        /\ journal[r] \subseteq journal'[r]
        /\ \A e \in journal'[r] \ journal[r] :
             \/ /\ e.replicaId = r
                /\ journal'[r] = journal[r] \cup {e}
                /\ \A f \in journal[r] : f.replicaId = r => f.revision # e.revision
             \/ \E s \in Replicas \ {r} : e \in journal[s]
  BY OneReplica, JournalStep DEF Elsewhere
<1>2. \A s \in Replicas : journal[s] \subseteq journal'[s]
  BY <1>1
<1>3. \A s \in Replicas : \A e \in journal[s] : e.replicaId \in Replicas
  BY NoteSyncAssumption DEF TypeOK
<1>4. Home'
  <2>1. ASSUME NEW s \in Replicas, NEW e \in journal[s]
        PROVE  e \in journal'[e.replicaId]
    BY <1>2, <1>3, <2>1 DEF Home
  <2>2. ASSUME NEW e \in journal'[r] \ journal[r]
        PROVE  e \in journal'[e.replicaId]
    BY <1>1, <2>1, <2>2
  <2> QED BY <1>1, <2>1, <2>2 DEF Home
<1>5. OneOwnEdit'
  <2>1. ASSUME NEW e \in journal'[r] \ journal[r], e.replicaId = r
        PROVE  /\ journal'[r] = journal[r] \cup {e}
               /\ \A f \in journal[r] : f.replicaId = r => f.revision # e.revision
    <3>1. ~ \E s \in Replicas \ {r} : e \in journal[s]
      BY <2>1 DEF Home
    <3> QED BY <1>1, <3>1
  <2>2. ASSUME NEW e \in journal'[r], NEW f \in journal'[r],
               e.replicaId = r, f.replicaId = r, e.revision = f.revision
        PROVE  e = f
    <3>1. CASE e \in journal[r] /\ f \in journal[r]
      BY <2>2, <3>1 DEF OneOwnEdit
    <3>2. CASE e \notin journal[r]
      BY <2>1, <2>2, <3>2
    <3>3. CASE f \notin journal[r]
      BY <2>1, <2>2, <3>3
    <3> QED BY <3>1, <3>2, <3>3
  <2> QED BY <1>1, <2>2 DEF OneOwnEdit
<1> QED BY <1>4, <1>5

LEMMA JournaledStep ==
  ASSUME TypeOK, NoteJournaled, WorkJournaled, Next
  PROVE  NoteJournaled' /\ WorkJournaled'
<1>1. PICK r \in Replicas :
        /\ Elsewhere(r)
        /\ \/ Edit(r)
           \/ \E from \in Replicas \ {r} : Sync(r, from)
           \/ RebuildRead(r)
           \/ RebuildClear(r)
           \/ \E a \in Activities : Apply(r, a) \/ Find(r, a)
           \/ Crash(r)
  BY OneReplica
<1>2. journal[r] \subseteq journal'[r]
  BY <1>1, JournalStep
<1> DEFINE LeftWithin ==
      /\ note'[r] # None => note'[r] \in journal'[r]
      /\ \A a \in Activities : work'[r][a].todo \subseteq journal'[r]
<1> SUFFICES LeftWithin
  BY <1>1 DEF Elsewhere, NoteJournaled, WorkJournaled
<1>3. ASSUME NEW a \in Activities, NEW w, Starts(r, a, w), UNCHANGED note,
             w.todo \subseteq journal'[r]
      PROVE  LeftWithin
  BY <1>2, <1>3, Starting DEF NoteJournaled, WorkJournaled
<1>4. \A S : Applying(S).todo = S /\ Go(S).todo = S
  BY DEF Applying, Go, Idle
<1>5. CASE Edit(r)
  <2>1. PICK e \in Edits :
          /\ Starts(r, "edit", Applying({e}))
          /\ journal' = [journal EXCEPT ![r] = @ \cup {e}]
          /\ UNCHANGED note
    BY <1>5 DEF Edit
  <2>2. {e} \subseteq journal'[r]
    BY <2>1 DEF TypeOK
  <2> QED BY <1>3, <1>4, <2>1, <2>2 DEF Activities
<1>6. ASSUME NEW from \in Replicas \ {r}, Sync(r, from)  PROVE LeftWithin
  <2>1. PICK entries \in SUBSET journal[from] :
          /\ Starts(r, "sync", Applying(entries \ journal[r]))
          /\ journal' = [journal EXCEPT ![r] = @ \cup (entries \ journal[r])]
          /\ UNCHANGED note
    BY <1>6 DEF Sync
  <2>2. entries \ journal[r] \subseteq journal'[r]
    BY <2>1 DEF TypeOK
  <2> QED BY <1>3, <1>4, <2>1, <2>2 DEF Activities
<1>7. CASE RebuildRead(r)
  BY <1>2, <1>3, <1>7 DEF RebuildRead, Activities
<1>8. CASE RebuildClear(r)
  <2>1. work'[r]["rebuild"].todo = work[r]["rebuild"].todo
    BY <1>4, <1>8 DEF RebuildClear, TypeOK, Activities
  <2>2. \A a \in Activities \ {"rebuild"} : work'[r][a] = work[r][a]
    BY <1>8 DEF RebuildClear, TypeOK
  <2>3. note'[r] = None
    BY <1>8 DEF RebuildClear, TypeOK
  <2> QED BY <1>2, <2>1, <2>2, <2>3 DEF WorkJournaled, Activities
<1>9. ASSUME NEW a \in Activities, Apply(r, a)  PROVE LeftWithin
  <2>1. PICK e \in ToApply(r, a) :
          /\ note' = [note EXCEPT ![r] = Merged(note[r], e)]
          /\ work' = [work EXCEPT ![r][a].todo = @ \ {e}, ![r][a].sought = e]
    BY <1>9 DEF Apply
  <2>2. e \in journal[r]
    BY <2>1 DEF ToApply, WorkJournaled
  <2>3. note'[r] \in {note[r], e}
    BY <2>1 DEF TypeOK, Merged
  <2>4. work'[r] =
         [work[r] EXCEPT ![a] = [work[r][a] EXCEPT !.todo = @ \ {e}, !.sought = e]]
    BY <2>1 DEF TypeOK
  <2>5. \A b \in Activities : work'[r][b].todo \subseteq work[r][b].todo
    BY <2>4 DEF TypeOK, Works
  <2> QED BY <1>2, <2>2, <2>3, <2>5 DEF NoteJournaled, WorkJournaled
<1>10. ASSUME NEW a \in Activities, Find(r, a)  PROVE LeftWithin
  <2>1. \A b \in Activities : work'[r][b].todo \subseteq work[r][b].todo
    <3>1. CASE note[r] # None
      BY <1>4, <1>10, <3>1 DEF Find, TypeOK
    <3>2. CASE note[r] = None
      BY <1>10, <3>2 DEF Find, TypeOK, Idle
    <3> QED BY <3>1, <3>2
  <2> QED BY <1>2, <1>10, <2>1 DEF Find, NoteJournaled, WorkJournaled
<1>11. CASE Crash(r)
  <2>1. \A b \in Activities : work'[r][b].todo = {}
    BY <1>11 DEF Crash, TypeOK, Idle
  <2> QED BY <1>2, <1>11, <2>1 DEF Crash, NoteJournaled
<1> QED BY <1>1, <1>5, <1>6, <1>7, <1>8, <1>9, <1>10, <1>11

LEMMA ReflectedStep ==
  ASSUME TypeOK, WorkJournaled, Reflected, Next
  PROVE  Reflected'
<1>1. PICK r \in Replicas :
        /\ Elsewhere(r)
        /\ \/ Edit(r)
           \/ \E from \in Replicas \ {r} : Sync(r, from)
           \/ RebuildRead(r)
           \/ RebuildClear(r)
           \/ \E a \in Activities : Apply(r, a) \/ Find(r, a)
           \/ Crash(r)
  BY OneReplica
<1> DEFINE Placed(e) == e \in Pending(r) \/ e \in lost[r] \/ InRow(e, note[r])
<1>2. ASSUME NEW e \in journal'[r]  PROVE Placed(e)'
  <2>1. e \in journal[r] => Placed(e)
    BY DEF Reflected
  <2>2. ASSUME NEW a \in Activities, NEW S, Starts(r, a, Applying(S)),
               journal'[r] = journal[r] \cup S, UNCHANGED <<note, lost>>
        PROVE  Placed(e)'
    <3>1. /\ \A b \in Activities : ToApply(r, b) \subseteq ToApply(r, b)'
          /\ ToApply(r, a)' = S
      BY <2>2, Starting DEF Applying
    <3>2. Pending(r) \cup S \subseteq Pending(r)'
      BY <3>1 DEF Pending
    <3> QED BY <1>2, <2>1, <2>2, <3>2 DEF InRow
  <2>3. CASE Edit(r)
    <3>1. PICK f \in Edits :
            /\ Starts(r, "edit", Applying({f}))
            /\ journal' = [journal EXCEPT ![r] = @ \cup {f}]
            /\ UNCHANGED <<note, lost>>
      BY <2>3 DEF Edit
    <3>2. journal'[r] = journal[r] \cup {f}
      BY <3>1 DEF TypeOK
    <3> QED BY <2>2, <3>1, <3>2 DEF Activities
  <2>4. ASSUME NEW from \in Replicas \ {r}, Sync(r, from)  PROVE Placed(e)'
    <3>1. PICK entries \in SUBSET journal[from] :
            /\ Starts(r, "sync", Applying(entries \ journal[r]))
            /\ journal' = [journal EXCEPT ![r] = @ \cup (entries \ journal[r])]
            /\ UNCHANGED <<note, lost>>
      BY <2>4 DEF Sync
    <3>2. journal'[r] = journal[r] \cup (entries \ journal[r])
      BY <3>1 DEF TypeOK
    <3> QED BY <2>2, <3>1, <3>2 DEF Activities
  <2>5. CASE RebuildRead(r)
    <3>1. \A b \in Activities : ToApply(r, b) \subseteq ToApply(r, b)'
      BY <2>5, Starting DEF RebuildRead, Activities
    <3>2. Pending(r) \subseteq Pending(r)'
      BY <3>1 DEF Pending
    <3> QED BY <1>2, <2>1, <2>5, <3>2 DEF RebuildRead, InRow
  <2>6. CASE RebuildClear(r)
    <3> DEFINE todo == work[r]["rebuild"].todo
    <3>1. /\ lost'[r] = journal[r] \ (Pending(r) \cup todo)
          /\ e \in journal[r]
          /\ work'[r]["rebuild"] = Go(todo)
          /\ \A a \in Activities \ {"rebuild"} : work'[r][a] = work[r][a]
          /\ ToApply(r, "rebuild") = {}
      BY <1>2, <2>6 DEF RebuildClear, TypeOK, Activities, ToApply
    <3>2. todo \subseteq ToApply(r, "rebuild")'
      BY <3>1 DEF ToApply, Go, Applying
    <3>3. \A a \in Activities \ {"rebuild"} : ToApply(r, a)' = ToApply(r, a)
      BY <3>1 DEF ToApply
    <3>4. Pending(r) \cup todo \subseteq Pending(r)'
      BY <3>1, <3>2, <3>3 DEF Pending, Activities
    <3> QED BY <3>1, <3>4
  <2>7. ASSUME NEW a \in Activities, Apply(r, a)  PROVE Placed(e)'
    <3>1. PICK f \in ToApply(r, a) :
            /\ note' = [note EXCEPT ![r] = Merged(note[r], f)]
            /\ work' = [work EXCEPT ![r][a].todo = @ \ {f}, ![r][a].sought = f]
            /\ lost' = [lost EXCEPT ![r] = @ \ {f}]
            /\ UNCHANGED journal
      BY <2>7 DEF Apply
    <3>2. journal[r] \subseteq Edits /\ f \in Edits
      BY <3>1 DEF TypeOK, ToApply, WorkJournaled
    <3>3. /\ note[r] \in Edits \cup {None}
          /\ note'[r] = Merged(note[r], f)
          /\ lost'[r] = lost[r] \ {f}
          /\ e \in Edits
      BY <1>2, <3>1, <3>2 DEF TypeOK
    <3>4. InRow(f, note'[r])
      BY <3>2, <3>3, Merging
    <3>5. InRow(e, note[r]) => InRow(e, note'[r])
      BY <3>2, <3>3, Merging
    <3>6. work'[r] =
           [work[r] EXCEPT ![a] = [work[r][a] EXCEPT !.todo = @ \ {f}, !.sought = f]]
      BY <3>1 DEF TypeOK
    <3>7. \A b \in Activities : ToApply(r, b) \ {f} \subseteq ToApply(r, b)'
      BY <3>6 DEF ToApply, TypeOK, Works
    <3>8. Pending(r) \ {f} \subseteq Pending(r)'
      BY <3>7 DEF Pending
    <3> QED BY <2>1, <1>2, <3>1, <3>3, <3>4, <3>5, <3>8 DEF InRow
  <2>8. ASSUME NEW a \in Activities, Find(r, a)  PROVE Placed(e)'
    <3>1. e \in journal[r] /\ note'[r] = note[r]
      BY <1>2, <2>8 DEF Find
    <3>2. CASE note[r] # None
      <4>1. \A b \in Activities : ToApply(r, b) \subseteq ToApply(r, b)'
        BY <2>8, <3>2 DEF Find, TypeOK, ToApply, Go, Applying
      <4>2. Pending(r) \subseteq Pending(r)'
        BY <4>1 DEF Pending
      <4> QED BY <2>1, <2>8, <3>1, <3>2, <4>2 DEF Find, InRow
    <3>3. CASE note[r] = None
      <4>1. \A b \in Activities \ {a} : ToApply(r, b)' = ToApply(r, b)
        BY <2>8, <3>3 DEF Find, TypeOK, ToApply
      <4>2. lost'[r] = lost[r] \cup ToApply(r, a)
        BY <2>8, <3>3 DEF Find, TypeOK
      <4>3. Pending(r) \subseteq Pending(r)' \cup lost'[r]
        BY <4>1, <4>2 DEF Pending
      <4> QED BY <2>1, <3>1, <4>2, <4>3 DEF InRow
    <3> QED BY <3>2, <3>3
  <2>9. CASE Crash(r)
    BY <1>2, <2>1, <2>9 DEF Crash, TypeOK, InRow
  <2> QED BY <1>1, <2>3, <2>4, <2>5, <2>6, <2>7, <2>8, <2>9
<1>3. ASSUME NEW s \in Replicas \ {r}, NEW e \in journal'[s]
      PROVE  (e \in Pending(s) \/ e \in lost[s] \/ InRow(e, note[s]))'
  <2>1. Pending(s)' = Pending(s)
    BY <1>1 DEF Elsewhere, Pending, ToApply
  <2> QED BY <1>1, <1>3, <2>1 DEF Elsewhere, Reflected, InRow
<1> QED BY <1>2, <1>3 DEF Reflected

-----------------------------------------------------------------------------
LEMMA Inductive == Spec => []IInv
<1>1. Init => IInv
  <2>1. Init => TypeOK
    BY DEF Init, TypeOK, Works, Idle
  <2> QED
    BY <2>1
    DEF Init, IInv, NoteJournaled, WorkJournaled, Home, OneOwnEdit, Reflected, Idle
<1>2. IInv /\ [Next]_vars => IInv'
  <2> SUFFICES ASSUME IInv, [Next]_vars  PROVE IInv'
    OBVIOUS
  <2>1. CASE Next
    BY <2>1, TypeCorrectStep, JournaledStep, OwnershipStep, ReflectedStep DEF IInv
  <2>2. CASE UNCHANGED vars
    BY <2>2
    DEF vars, IInv, TypeOK, NoteJournaled, WorkJournaled, Home, OneOwnEdit,
        Reflected, Pending, ToApply, InRow, Wins
  <2> QED BY <2>1, <2>2
<1> QED BY <1>1, <1>2, PTL DEF Spec

\* The journals, projections and activities keep their types (sync.ts).
THEOREM TypeCorrect == Spec => []TypeOK
<1>1. IInv => TypeOK
  BY DEF IInv
<1> QED BY <1>1, Inductive, PTL

\* The projection converges to the maximum of the journal, for any number of
\* replicas and edits (sync.ts, apply and rebuildSyncedNoteProjection).
THEOREM WinnerShown == Spec => []ShowsTheWinner
<1>1. IInv => ShowsTheWinner
  <2> SUFFICES ASSUME IInv, NEW r \in Replicas, Pending(r) = {}, lost[r] = {}
               PROVE  IF journal[r] = {} THEN note[r] = None
                      ELSE Latest(journal[r]) = {note[r]}
    BY DEF ShowsTheWinner
  <2>1. CASE journal[r] = {}
    BY <2>1 DEF IInv, NoteJournaled
  <2>2. CASE journal[r] # {}
    <3> DEFINE n == note[r]
    <3>1. n \in journal[r] /\ \A e \in journal[r] : ~ Wins(e, n)
      BY <2>2 DEF IInv, Reflected, InRow, NoteJournaled
    <3>2. ASSUME NEW e \in journal[r]  PROVE e.revision \in Int /\ e.replicaId \in Int
      <4>1. e \in Edits
        BY DEF IInv, TypeOK
      <4>2. e.revision \in Nat /\ e.replicaId \in Replicas
        BY <4>1, NoteSyncAssumption
      <4>3. e.replicaId \in Int
        BY <4>2, NoteSyncAssumption, Zenon
      <4> QED BY <4>2, <4>3
    <3>3. n \in Latest(journal[r])
      BY <3>1, <3>2 DEF Wins, Latest
    <3>4. ASSUME NEW e \in Latest(journal[r])  PROVE e = n
      <4>1. e \in journal[r] /\ e.revision = n.revision /\ e.replicaId = n.replicaId
        BY <3>1, <3>2, <3>3 DEF Latest
      <4>2. /\ e.replicaId \in Replicas
            /\ e \in journal[e.replicaId]
            /\ n \in journal[e.replicaId]
        <5>1. e \in Edits
          BY <4>1 DEF IInv, TypeOK
        <5> QED BY <3>1, <4>1, <5>1, NoteSyncAssumption DEF IInv, Home
      <4> QED BY <4>1, <4>2 DEF IInv, OneOwnEdit
    <3> QED BY <2>2, <3>3, <3>4
  <2> QED BY <2>1, <2>2
<1> QED BY <1>1, Inductive, PTL

-----------------------------------------------------------------------------
(***************************************************************************)
(* The acceptance harness: PassesAreBacked and AcceptedInputsApply, for    *)
(* any scenarios, sources, codecs and limits.  First, what is offered.     *)
(***************************************************************************)

\* A recording, and what was submitted so far, are of the scenario's cases.
OfScenario(list) == \A i \in DOMAIN list : list[i].case \in scenario.cases

\* An action that submits is of a case that was not submitted yet; a reload is
\* offered when only it is missing.
LEMMA OfferedIs ==
  ASSUME NEW pool \in {Pool}, NEW action \in Offered(Available(pool)),
         OfScenario(recording.candidates)
  PROVE  /\ action.kind = "submit" => action.case \in scenario.cases \ Submitted
         /\ action = Reload => RequiredConsumed /\ scenario.reload
<1>1. \A c \in DOMAIN Available(pool) : c \in scenario.cases \ Submitted
  <2>1. DOMAIN Available(pool) = DOMAIN pool.inputs \ Submitted
    BY DEF Available, Restrict
  <2>2. DOMAIN pool.inputs \subseteq Considered
    <3> DEFINE resolved == [c \in Considered |-> Resolution(c)]
               part == {d \in Considered : resolved[d].is = "part"}
    <3>1. pool.inputs = [c \in part |-> resolved[c].pairs]
      BY DEF Pool
    <3> QED BY <3>1
  <2>3. Considered \subseteq scenario.cases
    BY DEF Considered, Recorded, OfScenario
  <2> QED BY <2>1, <2>2, <2>3
<1>2. CASE action \in {Submitting(c, Available(pool)[c]) : c \in DOMAIN Available(pool)}
  BY <1>1, <1>2 DEF Submitting, Reload
<1>3. CASE action = Reload /\ RequiredConsumed /\ scenario.reload
  BY <1>3 DEF Reload
<1>4. CASE action.kind \in {"open", "observe", "fill", "cannot-proceed"}
  BY <1>4 DEF Reload
<1>5. \/ action.kind \in {"open", "observe", "fill", "cannot-proceed"}
      \/ action \in {Submitting(c, Available(pool)[c]) : c \in DOMAIN Available(pool)}
      \/ action = Reload /\ RequiredConsumed /\ scenario.reload
  BY DEF Offered, Open, Observe, CannotProceed, Filling
<1> QED BY <1>2, <1>3, <1>4, <1>5

-----------------------------------------------------------------------------
(***************************************************************************)
(* The invariant of a run.  A call is counted against the submissions that *)
(* a scenario has made, so it says at every point of the loop which call   *)
(* may still be unrecorded and what the page was loaded after.             *)
(***************************************************************************)

Cases == DOMAIN Operation
Before == {"validate", "rejected", "prepare", "spawn", "await", "prerequisites"}
Playing == Before \cup {"offer", "execute", "answer", "probe", "observe"}
After == {"evaluate", "release", "report", "done"}

IsList(s) == s = [i \in 1..Len(s) |-> s[i]] /\ Len(s) \in Nat

HarnessTypeOK ==
  /\ scenario.cases \subseteq Cases
  /\ pc \in Playing \cup {"closing", "enforce"} \cup After
  /\ calls \in [Cases -> Nat] /\ fresh \in BOOLEAN
  /\ DOMAIN progress = {"submissions", "reloaded", "trace", "repeated"}
  /\ IsList(progress.submissions) /\ progress.reloaded \in BOOLEAN
  /\ DOMAIN outcome = {"interruption", "closed", "reloaded", "seen", "fresh", "verdict"}
  /\ outcome.closed \in BOOLEAN /\ outcome.verdict \in BOOLEAN
  /\ DOMAIN report = {"status", "build", "recording"}

\* Only a scenario that the catalog accepts is run, and only cases of it are
\* submitted.
Admitted ==
  /\ pc \in {"validate", "rejected"} \/ ScenarioAccepted(scenario)
  /\ OfScenario(progress.submissions)
  /\ OfScenario(recording.candidates) /\ OfScenario(report.recording.candidates)

\* A case is called for a submission; a call that was not answered ends the
\* interaction.
CallsCounted ==
  /\ pc \in Playing => \A c \in Cases : calls[c] = IF c \in Submitted THEN 1 ELSE 0
  /\ pc \in {"closing", "enforce"} =>
       \A c \in Cases : calls[c] <= 1 /\ (c \in Submitted => calls[c] = 1)
  /\ pc \in {"report", "done"} => fresh /\ \A c \in Cases : calls[c] = 0
  /\ pc \in {"execute", "answer"} /\ chosen.kind = "submit" =>
       chosen.case \in scenario.cases \ Submitted
  /\ pc \in {"answer", "probe"} => chosen.kind = "submit"

\* A reload is the last that happens in a scenario.
ReloadsLast ==
  /\ progress.reloaded => pc \in {"closing", "enforce"} \cup After
  /\ pc \in {"closing", "enforce"} /\ progress.reloaded => fresh
  /\ pc \in {"execute", "observe"} /\ chosen = Reload => RequiredConsumed /\ scenario.reload
  /\ pc = "observe" /\ chosen = Reload => fresh

\* What the interaction was over after.  It is noted before the verdict, and a
\* verdict on requirements rests on closing evidence.
OutcomeTells ==
  /\ outcome.closed \/ outcome.verdict => pc \in After
  /\ outcome.verdict => outcome.closed \/ scenario.requirements = {}
  /\ pc \in {"enforce", "evaluate"} \/ outcome.verdict =>
       /\ \A c \in Cases : outcome.seen[c] <= 1 /\ (c \in Submitted => outcome.seen[c] = 1)
       /\ outcome.reloaded = progress.reloaded
       /\ progress.reloaded => outcome.fresh

PassEarned ==
  report.status = "pass" => pc = "done" /\ IsComplete(progress) /\ outcome.verdict

HarnessInv ==
  /\ HarnessTypeOK /\ Admitted /\ CallsCounted /\ ReloadsLast /\ OutcomeTells /\ PassEarned

LEMMA HarnessPasses == HarnessInv => EvidenceBacksPass
<1> SUFFICES ASSUME HarnessInv, report.status = "pass" PROVE EvidenceBacksPass
  BY DEF EvidenceBacksPass
<1>1. /\ pc = "done" /\ IsComplete(progress) /\ outcome.verdict
      /\ scenario.requirements # {} => outcome.closed
  BY DEF HarnessInv, PassEarned, OutcomeTells
<1>2. /\ \A c \in Cases : outcome.seen[c] <= 1 /\ (c \in Submitted => outcome.seen[c] = 1)
      /\ outcome.reloaded = progress.reloaded
      /\ progress.reloaded => outcome.fresh
  BY <1>1 DEF HarnessInv, OutcomeTells
<1>3. scenario.required \subseteq scenario.cases /\ scenario.cases \subseteq Cases
  BY <1>1 DEF HarnessInv, HarnessTypeOK, Admitted, ScenarioAccepted
<1>4. /\ scenario.required \subseteq Submitted
      /\ scenario.reload => progress.reloaded
  BY <1>1 DEF IsComplete, Submitted
<1> QED BY <1>1, <1>2, <1>3, <1>4 DEF EvidenceBacksPass

-----------------------------------------------------------------------------
(* What the steps have in common.                                          *)

LEMMA AppendedIs ==
  ASSUME NEW S, NEW list \in Seq(S), NEW s \in S
  PROVE  /\ IsList(Append(list, s)) /\ Len(Append(list, s)) = Len(list) + 1
         /\ DOMAIN list = 1..Len(list) /\ DOMAIN Append(list, s) = 1..(Len(list) + 1)
         /\ \A i \in 1..Len(list) : Append(list, s)[i] = list[i]
         /\ Append(list, s)[Len(list) + 1] = s
<1>1. \A q \in Seq(S) : IsList(q) /\ DOMAIN q = 1..Len(q)
  BY DEF IsList
<1>2. /\ Append(list, s) \in Seq(S) /\ Len(Append(list, s)) = Len(list) + 1
      /\ \A i \in 1..Len(list) : Append(list, s)[i] = list[i]
      /\ Append(list, s)[Len(list) + 1] = s
  BY AppendProperties
<1> QED BY <1>1, <1>2

\* One call more of a case.
LEMMA CountIs ==
  ASSUME NEW f \in [Cases -> Nat], NEW c \in Cases, NEW g, g = [f EXCEPT ![c] = @ + 1]
  PROVE  /\ g \in [Cases -> Nat] /\ g[c] = f[c] + 1
         /\ \A d \in Cases \ {c} : g[d] = f[d]
BY DEF Cases

LEMMA CountsAre ==
  ASSUME NEW f \in [Cases -> Nat], NEW S,
         NEW g, g = [c \in DOMAIN f |-> IF c \in S THEN f[c] + 1 ELSE f[c]]
  PROVE  g \in [Cases -> Nat]
OBVIOUS

\* Of the outcome at most the reason of an interruption is new.
SameVerdict ==
  /\ DOMAIN outcome' = DOMAIN outcome
  /\ outcome'.closed = outcome.closed /\ outcome'.verdict = outcome.verdict
  /\ outcome'.seen = outcome.seen /\ outcome'.reloaded = outcome.reloaded
  /\ outcome'.fresh = outcome.fresh

LEMMA InterruptIs ==
  ASSUME HarnessTypeOK, NEW reason, outcome' = [outcome EXCEPT !.interruption = reason] \/ outcome' = outcome
  PROVE  SameVerdict
BY DEF HarnessTypeOK, SameVerdict

\* The submissions are those there were.
SameSubmissions ==
  /\ DOMAIN progress' = DOMAIN progress
  /\ progress'.submissions = progress.submissions

LEMMA SubmissionsStay == SameSubmissions => Submitted' = Submitted
BY DEF SameSubmissions, Submitted

\* The run goes on, or is interrupted, without any effect on the application.
LEMMA RunMoves ==
  ASSUME HarnessInv, SameVerdict,
         UNCHANGED <<scenario, progress, chosen, report, recording, calls, fresh>>,
         \/ pc' = pc
         \/ pc \in Playing /\ pc' \in {"closing", "release"}
         \/ pc \in Before /\ pc' \in (Before \ {"validate"}) \cup {"offer"}
         \/ pc = "probe" /\ pc' = "observe",
         pc' \in {"validate", "rejected"} \/ ScenarioAccepted(scenario)
  PROVE  HarnessInv'
<1>1. Submitted' = Submitted /\ RequiredConsumed' = RequiredConsumed
  BY DEF Submitted, RequiredConsumed
<1>2. HarnessTypeOK'
  BY DEF HarnessInv, HarnessTypeOK, SameVerdict, Playing, Before, After
<1>3. Admitted'
  BY DEF HarnessInv, Admitted, OfScenario
<1>4. CallsCounted'
  BY <1>1 DEF HarnessInv, CallsCounted, HarnessTypeOK, Playing, Before, After
<1>5. ReloadsLast'
  BY <1>1 DEF HarnessInv, ReloadsLast, CallsCounted, Playing, Before, After, Reload
<1>6. OutcomeTells'
  BY <1>1 DEF HarnessInv, OutcomeTells, SameVerdict, Playing, Before, After
<1>7. PassEarned'
  BY DEF HarnessInv, PassEarned, SameVerdict, IsComplete, Playing, Before
<1> QED BY <1>2, <1>3, <1>4, <1>5, <1>6, <1>7 DEF HarnessInv

\* An action is chosen, to be executed or to end the run.
LEMMA ActionChosen ==
  ASSUME HarnessInv, SameVerdict, SameSubmissions, progress'.reloaded = progress.reloaded,
         UNCHANGED <<scenario, report, recording, calls, fresh>>, pc = "offer",
         pc' \in {"closing", "execute"},
         pc' = "execute" => \E pool \in {Pool} : chosen' \in Offered(Available(pool))
  PROVE  HarnessInv'
<1>1. Submitted' = Submitted /\ RequiredConsumed' = RequiredConsumed
  BY SubmissionsStay DEF RequiredConsumed
<1>2. HarnessTypeOK'
  BY DEF HarnessInv, HarnessTypeOK, SameVerdict, SameSubmissions, Playing
<1>3. Admitted'
  BY DEF HarnessInv, Admitted, OfScenario, SameSubmissions
<1>4. pc' = "execute" => /\ chosen'.kind = "submit" => chosen'.case \in scenario.cases \ Submitted
                         /\ chosen' = Reload => RequiredConsumed /\ scenario.reload
  BY OfferedIs DEF HarnessInv, Admitted
<1>5. CallsCounted'
  BY <1>1, <1>4 DEF HarnessInv, CallsCounted, HarnessTypeOK, Playing, After
<1>6. ReloadsLast'
  BY <1>1, <1>4 DEF HarnessInv, ReloadsLast, After
<1>7. OutcomeTells'
  BY <1>1 DEF HarnessInv, OutcomeTells, SameVerdict, After
<1>8. PassEarned'
  BY DEF HarnessInv, PassEarned
<1> QED BY <1>2, <1>3, <1>5, <1>6, <1>7, <1>8 DEF HarnessInv

\* The call of the submission whose answer the harness waits for.
Called == \E accepted \in BOOLEAN : Call(chosen.case, accepted)

\* An interaction is ended, in the midst of an answer perhaps.
LEMMA RunEnds ==
  ASSUME HarnessInv, SameVerdict, SameSubmissions, pc \in Playing \ Before, pc' = "closing",
         UNCHANGED <<scenario, chosen, report, recording>>,
         progress'.reloaded = (progress.reloaded \/ (pc = "observe" /\ chosen = Reload)),
         UNCHANGED <<calls, fresh>> \/ (pc = "answer" /\ Called)
  PROVE  HarnessInv'
<1>1. Submitted' = Submitted /\ RequiredConsumed' = RequiredConsumed
  BY SubmissionsStay DEF RequiredConsumed
<1>2. /\ calls \in [Cases -> Nat] /\ scenario.cases \subseteq Cases
      /\ \A c \in Cases : calls[c] = IF c \in Submitted THEN 1 ELSE 0
      /\ pc = "answer" => chosen.kind = "submit" /\ chosen.case \in Cases \ Submitted
      /\ ~progress.reloaded /\ (pc = "observe" /\ chosen = Reload => fresh)
      /\ ~outcome.closed /\ ~outcome.verdict /\ report.status # "pass"
  BY DEF HarnessInv, HarnessTypeOK, CallsCounted, ReloadsLast, OutcomeTells, PassEarned,
         Playing, Before, After
<1>3. /\ calls' \in [Cases -> Nat] /\ fresh' \in BOOLEAN
      /\ \A c \in Cases : calls'[c] <= 1 /\ (c \in Submitted => calls'[c] = 1)
  <2>1. CASE UNCHANGED <<calls, fresh>>
    BY <1>2, <2>1 DEF HarnessInv, HarnessTypeOK
  <2>2. CASE pc = "answer" /\ Called
    <3>1. calls' = [calls EXCEPT ![chosen.case] = @ + 1] /\ fresh' = FALSE
      BY <2>2 DEF Called, Call
    <3>2. /\ calls' \in [Cases -> Nat] /\ calls'[chosen.case] = calls[chosen.case] + 1
          /\ \A c \in Cases \ {chosen.case} : calls'[c] = calls[c]
      BY <1>2, <2>2, <3>1, CountIs
    <3>3. calls[chosen.case] = 0 /\ \A c \in Cases : calls[c] <= 1 /\ (c \in Submitted => calls[c] = 1)
      BY <1>2, <2>2
    <3>4. ASSUME NEW c \in Cases PROVE calls'[c] <= 1 /\ (c \in Submitted => calls'[c] = 1)
      <4>1. CASE c = chosen.case
        BY <1>2, <2>2, <3>2, <3>3, <4>1
      <4>2. CASE c # chosen.case
        BY <3>2, <3>3, <4>2
      <4> QED BY <4>1, <4>2
    <3> QED BY <3>1, <3>2, <3>4
  <2> QED BY <2>1, <2>2
<1>4. HarnessTypeOK'
  BY <1>3 DEF HarnessInv, HarnessTypeOK, SameVerdict, SameSubmissions
<1>5. Admitted'
  BY DEF HarnessInv, Admitted, OfScenario, SameSubmissions, Playing, Before
<1>6. CallsCounted'
  BY <1>1, <1>3 DEF CallsCounted, Playing, Before
<1>7. ReloadsLast'
  BY <1>1, <1>2 DEF ReloadsLast
<1>8. OutcomeTells' /\ PassEarned'
  BY <1>2 DEF OutcomeTells, PassEarned, SameVerdict
<1> QED BY <1>4, <1>5, <1>6, <1>7, <1>8 DEF HarnessInv

LEMMA ExecuteKeeps == HarnessInv /\ Execute => HarnessInv'
<1> SUFFICES ASSUME HarnessInv, Execute PROVE HarnessInv'
  OBVIOUS
<1>1. /\ pc = "execute" /\ SameVerdict /\ SameSubmissions
      /\ progress'.reloaded = progress.reloaded
      /\ UNCHANGED <<scenario, chosen, report, recording, calls>>
      /\ fresh' = (fresh \/ chosen = Reload)
      /\ pc' = IF chosen.kind = "submit" THEN "answer" ELSE "observe"
  BY DEF Execute, Run, SameVerdict, SameSubmissions, HarnessInv, HarnessTypeOK
<1>2. Submitted' = Submitted /\ RequiredConsumed' = RequiredConsumed
  BY <1>1, SubmissionsStay DEF RequiredConsumed
<1>3. HarnessTypeOK'
  BY <1>1 DEF HarnessInv, HarnessTypeOK, SameVerdict, SameSubmissions, Playing
<1>4. Admitted'
  BY <1>1 DEF HarnessInv, Admitted, OfScenario, SameSubmissions
<1>5. CallsCounted'
  BY <1>1, <1>2 DEF HarnessInv, CallsCounted, Playing
<1>6. ReloadsLast'
  BY <1>1, <1>2 DEF HarnessInv, ReloadsLast, After, Reload
<1>7. OutcomeTells' /\ PassEarned'
  BY <1>1 DEF HarnessInv, OutcomeTells, PassEarned, SameVerdict, After
<1> QED BY <1>3, <1>4, <1>5, <1>6, <1>7 DEF HarnessInv

LEMMA AnswerKeeps ==
  ASSUME HarnessInv, NEW accepted \in BOOLEAN, Answer(accepted)
  PROVE  HarnessInv'
<1> DEFINE c == chosen.case
           list == progress.submissions
           s == [case |-> c, input |-> chosen.input, accepted |-> accepted,
                 result |-> Returned(ThisFixture, c)]
<1>1. /\ pc = "answer" /\ SameVerdict /\ pc' \in {"probe", "observe"}
      /\ UNCHANGED <<scenario, chosen, report, recording>>
      /\ calls' = [calls EXCEPT ![c] = @ + 1] /\ fresh' = FALSE
      /\ DOMAIN progress' = DOMAIN progress /\ progress'.reloaded = FALSE
      /\ progress'.submissions = Append(list, s)
  BY DEF Answer, Call, Run, SameVerdict, HarnessInv, HarnessTypeOK
<1>2. /\ chosen.kind = "submit" /\ c \in scenario.cases \ Submitted /\ scenario.cases \subseteq Cases
      /\ calls \in [Cases -> Nat] /\ \A d \in Cases : calls[d] = IF d \in Submitted THEN 1 ELSE 0
      /\ IsList(list) /\ ~outcome.closed /\ ~outcome.verdict /\ report.status # "pass"
  BY <1>1 DEF HarnessInv, HarnessTypeOK, CallsCounted, OutcomeTells, PassEarned, Playing, After
<1>3. /\ IsList(Append(list, s)) /\ Len(Append(list, s)) = Len(list) + 1
      /\ DOMAIN list = 1..Len(list) /\ DOMAIN Append(list, s) = 1..(Len(list) + 1)
      /\ \A i \in 1..Len(list) : Append(list, s)[i] = list[i]
      /\ Append(list, s)[Len(list) + 1] = s
  <2> DEFINE S == {list[i] : i \in 1..Len(list)} \cup {s}
  <2>1. list \in Seq(S) /\ s \in S
    BY <1>2 DEF IsList
  <2> HIDE DEF S, list, s
  <2> QED BY <2>1, AppendedIs
<1>4. Submitted' = Submitted \cup {c}
  BY <1>1, <1>2, <1>3 DEF Submitted
<1>5. HarnessTypeOK'
  <2>1. calls' \in [Cases -> Nat] /\ fresh' \in BOOLEAN /\ pc' \in Playing
    BY <1>1, <1>2, CountIs DEF Playing
  <2>2. IsList(progress'.submissions) /\ progress'.reloaded \in BOOLEAN
    BY <1>1, <1>3
  <2> QED BY <1>1, <2>1, <2>2 DEF HarnessInv, HarnessTypeOK, SameVerdict
<1>6. Admitted'
  BY <1>1, <1>2, <1>3 DEF HarnessInv, Admitted, OfScenario
<1>7. CallsCounted'
  BY <1>1, <1>2, <1>4 DEF CallsCounted, Playing
<1>8. ReloadsLast'
  BY <1>1, <1>2 DEF ReloadsLast, Reload
<1>9. OutcomeTells' /\ PassEarned'
  BY <1>1, <1>2 DEF OutcomeTells, PassEarned, SameVerdict
<1> QED BY <1>5, <1>6, <1>7, <1>8, <1>9 DEF HarnessInv

\* The page is observed; after a reload it is the end.
LEMMA ViewKeeps == HarnessInv /\ View => HarnessInv'
<1> SUFFICES ASSUME HarnessInv, View PROVE HarnessInv'
  OBVIOUS
<1>1. /\ pc = "observe" /\ SameVerdict /\ SameSubmissions
      /\ progress'.reloaded = (progress.reloaded \/ chosen = Reload)
      /\ UNCHANGED <<scenario, chosen, report, recording, calls, fresh>>
      /\ pc' = IF IsComplete(progress') THEN "closing" ELSE "offer"
  BY DEF View, Navigated, Run, SameVerdict, SameSubmissions, HarnessInv, HarnessTypeOK
<1>2. Submitted' = Submitted /\ RequiredConsumed' = RequiredConsumed
  BY <1>1, SubmissionsStay DEF RequiredConsumed
<1>3. CASE pc' = "closing"
  BY <1>1, <1>3, RunEnds DEF Playing, Before
<1>4. CASE pc' = "offer"
  <2>1. ~progress'.reloaded
    BY <1>1, <1>2, <1>4 DEF HarnessInv, ReloadsLast, IsComplete, RequiredConsumed, Submitted, After
  <2>2. HarnessTypeOK'
    BY <1>1, <1>4 DEF HarnessInv, HarnessTypeOK, SameVerdict, SameSubmissions, Playing
  <2>3. Admitted'
    BY <1>1, <1>4 DEF HarnessInv, Admitted, OfScenario, SameSubmissions
  <2>4. CallsCounted'
    BY <1>1, <1>2, <1>4 DEF HarnessInv, CallsCounted, Playing
  <2>5. ReloadsLast'
    BY <1>4, <2>1 DEF ReloadsLast
  <2>6. OutcomeTells' /\ PassEarned'
    BY <1>1, <1>4 DEF HarnessInv, OutcomeTells, PassEarned, SameVerdict, After
  <2> QED BY <2>2, <2>3, <2>4, <2>5, <2>6 DEF HarnessInv
<1> QED BY <1>1, <1>3, <1>4

-----------------------------------------------------------------------------
(* The verdict and the report.                                             *)

LEMMA CloseKeeps ==
  ASSUME HarnessInv, NEW ok \in BOOLEAN, Close(ok)
  PROVE  HarnessInv'
<1>1. /\ pc = "closing" /\ pc' = IF ok THEN "enforce" ELSE "evaluate"
      /\ UNCHANGED <<scenario, progress, chosen, report, recording, calls, fresh>>
      /\ DOMAIN outcome' = DOMAIN outcome
      /\ outcome'.closed = outcome.closed /\ outcome'.verdict = outcome.verdict
      /\ outcome'.reloaded = progress.reloaded /\ outcome'.seen = calls /\ outcome'.fresh = fresh
  BY DEF Close, Run, HarnessInv, HarnessTypeOK
<1>2. ~outcome.closed /\ ~outcome.verdict /\ report.status # "pass"
  BY <1>1 DEF HarnessInv, OutcomeTells, PassEarned, After
<1>3. Submitted' = Submitted
  BY <1>1 DEF Submitted
<1>4. HarnessTypeOK'
  BY <1>1 DEF HarnessInv, HarnessTypeOK, After
<1>5. Admitted'
  BY <1>1 DEF HarnessInv, Admitted, OfScenario
<1>6. CallsCounted'
  BY <1>1, <1>3 DEF HarnessInv, CallsCounted, Playing, Before
<1>7. ReloadsLast'
  BY <1>1 DEF HarnessInv, ReloadsLast, After
<1>8. OutcomeTells'
  BY <1>1, <1>2, <1>3 DEF HarnessInv, OutcomeTells, CallsCounted, ReloadsLast
<1>9. PassEarned'
  BY <1>1, <1>2 DEF PassEarned
<1> QED BY <1>4, <1>5, <1>6, <1>7, <1>8, <1>9 DEF HarnessInv

LEMMA EnforceKeeps ==
  ASSUME HarnessInv, NEW ok \in BOOLEAN, Enforce(ok)
  PROVE  HarnessInv'
<1>1. /\ pc = "enforce" /\ pc' = "evaluate"
      /\ UNCHANGED <<scenario, progress, chosen, report, recording>>
      /\ DOMAIN outcome' = DOMAIN outcome /\ outcome'.closed = ok
      /\ outcome'.verdict = outcome.verdict /\ outcome'.seen = outcome.seen
      /\ outcome'.reloaded = outcome.reloaded /\ outcome'.fresh = outcome.fresh
  BY DEF Enforce, Run, HarnessInv, HarnessTypeOK
<1>2. ~outcome.closed /\ ~outcome.verdict /\ report.status # "pass"
  BY <1>1 DEF HarnessInv, OutcomeTells, PassEarned, After
<1>3. Submitted' = Submitted
  BY <1>1 DEF Submitted
<1>4. calls' \in [Cases -> Nat] /\ fresh' \in BOOLEAN
  <2>1. calls \in [Cases -> Nat] /\ fresh \in BOOLEAN
    BY DEF HarnessInv, HarnessTypeOK
  <2>2. CASE UNCHANGED <<calls, fresh>>
    BY <2>1, <2>2
  <2>3. CASE /\ calls' = [c \in DOMAIN calls |-> IF c \in Audited THEN calls[c] + 1 ELSE calls[c]]
             /\ fresh' = FALSE
    BY <2>1, <2>3, CountsAre
  <2> QED BY <2>2, <2>3 DEF Enforce
<1>5. HarnessTypeOK'
  BY <1>1, <1>4 DEF HarnessInv, HarnessTypeOK, After
<1>6. Admitted'
  BY <1>1 DEF HarnessInv, Admitted, OfScenario
<1>7. CallsCounted'
  BY <1>1 DEF CallsCounted, Playing, Before
<1>8. ReloadsLast'
  BY <1>1 DEF ReloadsLast, After
<1>9. OutcomeTells'
  BY <1>1, <1>2, <1>3 DEF HarnessInv, OutcomeTells, After
<1>10. PassEarned'
  BY <1>1, <1>2 DEF PassEarned
<1> QED BY <1>5, <1>6, <1>7, <1>8, <1>9, <1>10 DEF HarnessInv

LEMMA EvaluateKeeps ==
  ASSUME HarnessInv, NEW passing \in SUBSET scenario.requirements, Evaluate(passing)
  PROVE  HarnessInv'
<1>1. /\ pc = "evaluate" /\ pc' = "release" /\ (passing # {} => outcome.closed)
      /\ UNCHANGED <<scenario, progress, chosen, report, recording, calls, fresh>>
      /\ DOMAIN outcome' = DOMAIN outcome /\ outcome'.verdict = (passing = scenario.requirements)
      /\ outcome'.closed = outcome.closed /\ outcome'.seen = outcome.seen
      /\ outcome'.reloaded = outcome.reloaded /\ outcome'.fresh = outcome.fresh
  BY DEF Evaluate, EveryPassing, Run, Played, HarnessInv, HarnessTypeOK
<1>2. Submitted' = Submitted
  BY <1>1 DEF Submitted
<1>3. HarnessTypeOK'
  BY <1>1 DEF HarnessInv, HarnessTypeOK, After
<1>4. Admitted'
  BY <1>1 DEF HarnessInv, Admitted, OfScenario
<1>5. CallsCounted'
  BY <1>1 DEF CallsCounted, Playing, Before
<1>6. ReloadsLast'
  BY <1>1 DEF ReloadsLast, After
<1>7. OutcomeTells'
  BY <1>1, <1>2 DEF HarnessInv, OutcomeTells, After
<1>8. PassEarned'
  BY <1>1 DEF HarnessInv, PassEarned
<1> QED BY <1>3, <1>4, <1>5, <1>6, <1>7, <1>8 DEF HarnessInv

LEMMA ReleaseKeeps == HarnessInv /\ Release => HarnessInv'
<1> SUFFICES ASSUME HarnessInv, Release PROVE HarnessInv'
  OBVIOUS
<1>1. /\ pc = "release" /\ pc' = "report"
      /\ UNCHANGED <<scenario, progress, outcome, report, recording>>
      /\ calls' = [c \in Cases |-> 0] /\ fresh' = TRUE
  BY DEF Release, Run, Cases
<1>2. Submitted' = Submitted
  BY <1>1 DEF Submitted
<1>3. HarnessTypeOK'
  BY <1>1 DEF HarnessInv, HarnessTypeOK, After
<1>4. Admitted'
  BY <1>1 DEF HarnessInv, Admitted, OfScenario
<1>5. CallsCounted'
  BY <1>1 DEF CallsCounted, Playing, Before
<1>6. ReloadsLast'
  BY <1>1 DEF ReloadsLast, After
<1>7. OutcomeTells'
  BY <1>1, <1>2 DEF HarnessInv, OutcomeTells, After
<1>8. PassEarned'
  BY <1>1 DEF HarnessInv, PassEarned
<1> QED BY <1>3, <1>4, <1>5, <1>6, <1>7, <1>8 DEF HarnessInv

LEMMA ReportKeeps ==
  ASSUME HarnessInv, NEW sealed \in BOOLEAN, Report(sealed)
  PROVE  HarnessInv'
<1> DEFINE kept == [i \in DOMAIN progress.submissions |->
                     [case |-> progress.submissions[i].case, input |-> progress.submissions[i].input]]
<1>1. /\ pc = "report" /\ pc' = "done"
      /\ UNCHANGED <<scenario, progress, chosen, outcome, recording, calls, fresh>>
      /\ DOMAIN report' = DOMAIN report
      /\ report'.status = "pass" => IsComplete(progress) /\ outcome.verdict
      /\ report'.recording = [trace |-> progress.trace, candidates |-> kept]
  BY DEF Report, Played, HarnessInv, HarnessTypeOK
<1>2. Submitted' = Submitted
  BY <1>1 DEF Submitted
<1>3. HarnessTypeOK'
  BY <1>1 DEF HarnessInv, HarnessTypeOK, After
<1>4. OfScenario(report'.recording.candidates)
  BY <1>1 DEF HarnessInv, Admitted, OfScenario
<1>5. Admitted'
  BY <1>1, <1>4 DEF HarnessInv, Admitted, OfScenario
<1>6. CallsCounted'
  BY <1>1 DEF HarnessInv, CallsCounted, Playing, Before
<1>7. ReloadsLast'
  BY <1>1 DEF ReloadsLast, After
<1>8. OutcomeTells'
  BY <1>1, <1>2 DEF HarnessInv, OutcomeTells, After
<1>9. PassEarned'
  BY <1>1 DEF PassEarned, IsComplete
<1> QED BY <1>3, <1>5, <1>6, <1>7, <1>8, <1>9 DEF HarnessInv

LEMMA ReplayKeeps == HarnessInv /\ Replay => HarnessInv'
<1> SUFFICES ASSUME HarnessInv, Replay PROVE HarnessInv'
  OBVIOUS
<1>1. /\ pc = "done" /\ pc' = "prepare" /\ recording' = report.recording
      /\ UNCHANGED <<scenario, chosen, calls, fresh>>
      /\ progress' = NoProgress /\ outcome' = Undecided
      /\ report' = [NoReport EXCEPT !.build = build]
  BY DEF Replay
<1>2. Submitted' = {} /\ IsList(<<>>)
  BY <1>1 DEF Submitted, NoProgress, IsList
<1>3. HarnessTypeOK'
  BY <1>1, <1>2 DEF HarnessInv, HarnessTypeOK, NoProgress, Undecided, NoReport, Playing, Before
<1>4. Admitted'
  BY <1>1 DEF HarnessInv, Admitted, OfScenario, NoProgress, NoReport, NoRecording
<1>5. CallsCounted'
  BY <1>1, <1>2 DEF HarnessInv, CallsCounted
<1>6. ReloadsLast' /\ OutcomeTells' /\ PassEarned'
  BY <1>1 DEF ReloadsLast, OutcomeTells, PassEarned, NoProgress, Undecided, NoReport
<1> QED BY <1>3, <1>4, <1>5, <1>6 DEF HarnessInv

-----------------------------------------------------------------------------
LEMMA HarnessStarts == HarnessInit => HarnessInv
<1> SUFFICES ASSUME HarnessInit PROVE HarnessInv
  OBVIOUS
<1>1. Submitted = {} /\ IsList(<<>>)
  BY DEF HarnessInit, Submitted, NoProgress, IsList
<1>2. HarnessTypeOK
  BY <1>1, ScenariosAssumption DEF HarnessInit, HarnessTypeOK, NoProgress, Undecided, NoReport, Playing, Before, Cases
<1>3. Admitted
  BY DEF HarnessInit, Admitted, OfScenario, NoProgress, NoReport, NoRecording
<1>4. CallsCounted
  BY <1>1 DEF HarnessInit, CallsCounted, Cases
<1>5. ReloadsLast /\ OutcomeTells /\ PassEarned
  BY DEF HarnessInit, ReloadsLast, OutcomeTells, PassEarned, NoProgress, Undecided, NoReport
<1> QED BY <1>2, <1>3, <1>4, <1>5 DEF HarnessInv

LEMMA HarnessSteps == HarnessInv /\ [HarnessNext]_harnessVars => HarnessInv'
<1> SUFFICES ASSUME HarnessInv, [HarnessNext]_harnessVars PROVE HarnessInv'
  OBVIOUS
<1>1. HarnessTypeOK /\ (pc \in {"validate", "rejected"} \/ ScenarioAccepted(scenario))
  BY DEF HarnessInv, Admitted
<1>2. CASE ValidateCatalog
  <2>1. /\ SameVerdict /\ UNCHANGED <<scenario, progress, chosen, report, recording, calls, fresh>>
        /\ pc = "validate" /\ pc' = IF ScenarioAccepted(scenario) THEN "prepare" ELSE "rejected"
    BY <1>1, <1>2, InterruptIs DEF ValidateCatalog, Run, Played
  <2> QED BY <2>1, RunMoves DEF Before
<1>3. CASE \/ PrepareDirectory \/ SpawnServer \/ Neighbour \/ Listen \/ Exit \/ Ready \/ NotReady
           \/ \E ok \in BOOLEAN : Prerequisites(ok)
  <2>1. SameVerdict
    BY <1>1, <1>3, InterruptIs
    DEF PrepareDirectory, SpawnServer, Neighbour, Listen, Exit, Ready, NotReady, Prerequisites, Blocked
  <2>2. /\ UNCHANGED <<scenario, progress, chosen, report, recording, calls, fresh>>
        /\ \/ pc' = pc
           \/ pc \in Playing /\ pc' = "release" /\ ScenarioAccepted(scenario)
           \/ pc \in Before /\ pc' \in (Before \ {"validate", "rejected"}) \cup {"offer"} /\ ScenarioAccepted(scenario)
    BY <1>1, <1>3
    DEF PrepareDirectory, SpawnServer, Neighbour, Listen, Exit, Ready, NotReady, Prerequisites, Blocked,
        Run, Played, Playing, Before
  <2> QED BY <1>1, <2>1, <2>2, RunMoves
<1>4. CASE Exhausted \/ ResolveFails \/ ModelFails \/ ExecuteFails \/ ProbeFails
  <2>1. SameVerdict
    BY <1>1, <1>4, InterruptIs DEF Exhausted, ResolveFails, ModelFails, ExecuteFails, ProbeFails, Interrupt
  <2>2. /\ UNCHANGED <<scenario, progress, chosen, report, recording, calls, fresh>>
        /\ pc \in {"offer", "execute", "probe"} /\ pc' = "closing"
    BY <1>4 DEF Exhausted, ResolveFails, ModelFails, ExecuteFails, ProbeFails, Interrupt, Run, Played
  <2> QED BY <1>1, <2>1, <2>2, RunMoves DEF Playing
<1>5. CASE (\E confident \in BOOLEAN : Choose(confident)) \/ RecordedChoice
  <2>1. SameVerdict
    BY <1>1, <1>5, InterruptIs DEF Choose, RecordedChoice, Interrupt
  <2>2. SameSubmissions /\ progress'.reloaded = progress.reloaded
    BY <1>1, <1>5 DEF Choose, RecordedChoice, SameSubmissions, HarnessTypeOK
  <2>3. /\ UNCHANGED <<scenario, report, recording, calls, fresh>>
        /\ pc = "offer" /\ pc' \in {"closing", "execute"}
    BY <1>5 DEF Choose, RecordedChoice, Interrupt, Run
  <2>4. pc' = "execute" => \E pool \in {Pool} : chosen' \in Offered(Available(pool))
    BY <1>5 DEF Choose, RecordedChoice, Interrupt
  <2> QED BY <2>1, <2>2, <2>3, <2>4, ActionChosen
<1>6. CASE AnswerLost
  <2>1. SameVerdict
    BY <1>1, <1>6, InterruptIs DEF AnswerLost, Interrupt
  <2>2. /\ SameSubmissions /\ progress'.reloaded = progress.reloaded /\ progress.reloaded \in BOOLEAN
        /\ UNCHANGED <<scenario, chosen, report, recording>>
        /\ pc = "answer" /\ pc' = "closing"
        /\ UNCHANGED <<calls, fresh>> \/ Called
    BY <1>1, <1>6 DEF AnswerLost, Called, SameSubmissions, Interrupt, Run, HarnessTypeOK
  <2> QED BY <2>1, <2>2, RunEnds DEF Playing, Before
<1>7. CASE Deadline
  <2>1. SameVerdict
    BY <1>1, <1>7, InterruptIs DEF Deadline, Interrupt
  <2>2. /\ SameSubmissions
        /\ progress'.reloaded = (progress.reloaded \/ (pc = "observe" /\ chosen = Reload))
    BY <1>1, <1>7 DEF Deadline, Navigated, SameSubmissions, HarnessTypeOK
  <2>3. /\ UNCHANGED <<scenario, chosen, report, recording>>
        /\ pc \in Playing \ Before /\ pc' = "closing"
        /\ UNCHANGED <<calls, fresh>> \/ (pc = "answer" /\ Called)
    BY <1>7 DEF Deadline, Called, Interrupt, Run, Playing, Before
  <2> QED BY <2>1, <2>2, <2>3, RunEnds
<1>8. CASE Probe
  <2>1. SameVerdict
    BY <1>1, <1>8, InterruptIs DEF Probe
  <2>2. /\ UNCHANGED <<scenario, progress, chosen, report, recording, calls, fresh>>
        /\ pc = "probe" /\ pc' = "observe"
    BY <1>8 DEF Probe, Run, Played
  <2> QED BY <1>1, <2>1, <2>2, RunMoves
<1>9. CASE Rebuild \/ UNCHANGED harnessVars
  <2>1. SameVerdict
    BY <1>1, <1>9, InterruptIs DEF Rebuild, harnessVars
  <2>2. UNCHANGED <<scenario, progress, chosen, report, recording, calls, fresh, pc>>
    BY <1>9 DEF Rebuild, harnessVars, Played
  <2> QED BY <1>1, <2>1, <2>2, RunMoves
<1> QED
  BY <1>2, <1>3, <1>4, <1>5, <1>6, <1>7, <1>8, <1>9, ExecuteKeeps, AnswerKeeps, ViewKeeps, CloseKeeps,
     EnforceKeeps, EvaluateKeeps, ReleaseKeeps, ReportKeeps, ReplayKeeps
  DEF HarnessNext

THEOREM HarnessInvariance == HarnessSpec => []HarnessInv
BY HarnessStarts, HarnessSteps, PTL DEF HarnessSpec

\* A report says "pass" only of a run whose required inputs each reached the
\* server exactly once before the interaction was over, with the page loaded after
\* them if the scenario reloads, and whose requirements, if it has any, were judged
\* on evidence captured after that, for any scenarios, sources, codecs and limits,
\* whatever is lost, late, refused or interrupted (runner.ts, evidence.ts).
THEOREM PassesAreBacked == HarnessSpec => []EvidenceBacksPass
BY HarnessInvariance, HarnessPasses, PTL

-----------------------------------------------------------------------------
(***************************************************************************)
(* The sources of an accepted scenario apply.                              *)
(***************************************************************************)

\* The catalog does not ask whether an operation streams.
UnaryOperations == \A c \in Cases : Operation[c] \notin Streaming

Supported(r) == r.is = "failed" => r.boundary # "unsupported"

LEMMA PartsSupported ==
  /\ \A pairs : Supported(Part(pairs))
  /\ \A boundary : boundary # "unsupported" => Supported(Failed(boundary))
  /\ Supported(Waiting)
BY DEF Supported, Part, Failed, Waiting

\* A source that is not sampled.
LEMMA SourceSupported ==
  ASSUME NEW c \in Cases, InputAccepted(c), NEW p \in DOMAIN Sources[c], ~IsSampled(Sources[c][p]),
         NEW fixture, NEW submissions
  PROVE  Supported(ResolveSource(Operation[c], fixture, submissions, p, Sources[c][p]))
<1> DEFINE source == Sources[c][p]
<1>1. \A value, offset : /\ Supported(WithOffset(value, offset, p, "fixture"))
                         /\ Supported(WithOffset(value, offset, p, "captured"))
  BY PartsSupported DEF WithOffset
<1>2. CASE source.source = "fixture"
  <2>1. ResolveSource(Operation[c], fixture, submissions, p, source) = FixtureField(fixture, p, source)
    BY <1>2 DEF ResolveSource
  <2> QED BY <1>1, <2>1, PartsSupported DEF FixtureField
<1>3. CASE source.source = "captured"
  <2>1. ResolveSource(Operation[c], fixture, submissions, p, source) = CapturedField(submissions, p, source)
    BY <1>3 DEF ResolveSource
  <2> QED BY <1>1, <2>1, PartsSupported DEF CapturedField
<1>4. CASE source.source = "literal"
  BY <1>4, PartsSupported DEF ResolveSource
<1>5. CASE source.source = "native"
  <2>1. /\ ResolveSource(Operation[c], fixture, submissions, p, source) =
             NativeField(Operation[c], p, source.strategy)
        /\ StrategyApplies(Operation[c], p, source.strategy) /\ source.strategy # "sample"
    BY <1>5 DEF ResolveSource, InputAccepted, SourceApplies, IsSampled, IsNative
  <2> QED BY <2>1, PartsSupported DEF NativeField, StrategyApplies
<1> QED BY <1>2, <1>3, <1>4, <1>5, SourcesAssumption DEF Cases

LEMMA FieldsSupported ==
  ASSUME NEW resolutions, \A p \in DOMAIN resolutions : Supported(resolutions[p])
  PROVE  Supported(ResolveFields(resolutions))
<1> DEFINE failed == {r \in Range(resolutions) : r.is = "failed"}
<1>1. \A r \in Range(resolutions) : Supported(r)
  BY DEF Range
<1>2. CASE failed # {}
  BY <1>1, <1>2 DEF ResolveFields
<1>3. CASE failed = {}
  BY <1>3, PartsSupported DEF ResolveFields
<1> QED BY <1>2, <1>3

LEMMA CaseSupported ==
  ASSUME UnaryOperations, NEW c \in Cases, InputAccepted(c), NEW fixture, NEW submissions
  PROVE  /\ Supported(ResolveCase(c, fixture, submissions))
         /\ \A recorded : Supported(ReplayCandidate(c, recorded, fixture, submissions))
<1>1. \A payload : Supported(Validate(c, payload))
  BY PartsSupported DEF Validate
<1>2. Operation[c] \notin Streaming
  BY DEF UnaryOperations
<1>3. Supported(ResolveCase(c, fixture, submissions))
  <2> DEFINE sampled == SampledFields(c)
             resolutions == [p \in DOMAIN Sources[c] \ sampled |->
               ResolveSource(Operation[c], fixture, submissions, p, Sources[c][p])]
             fixed == ResolveFields(resolutions)
             whole == IF fixed.is = "part" THEN SampleWhole(c, sampled, fixed.pairs) ELSE fixed
  <2>1. Supported(fixed)
    <3>1. \A p \in DOMAIN resolutions : Supported(resolutions[p])
      BY SourceSupported DEF SampledFields
    <3> QED BY <3>1, FieldsSupported
  <2>2. sampled # {} => Operation[c] \notin Opaque
    BY DEF SampledFields, IsSampled, IsNative, InputAccepted, SourceApplies, StrategyApplies, SamplingOf
  <2>3. \A pairs : Supported(SampleWhole(c, sampled, pairs))
    <3> HIDE DEF sampled
    <3> QED BY <2>2, PartsSupported DEF SampleWhole
  <2>4. ResolveCase(c, fixture, submissions) = IF whole.is = "part" THEN Validate(c, whole.pairs) ELSE whole
    BY <1>2 DEF ResolveCase
  <2> HIDE DEF fixed, sampled
  <2> QED BY <1>1, <2>1, <2>3, <2>4
<1>4. ASSUME NEW recorded PROVE Supported(ReplayCandidate(c, recorded, fixture, submissions))
  <2> DEFINE resolutions == [p \in DOMAIN Sources[c] |-> ReplayField(c, recorded, fixture, submissions, p)]
             fields == ResolveFields(resolutions)
             valid == IF fields.is = "part" THEN Validate(c, fields.pairs) ELSE fields
  <2>1. \A p \in DOMAIN resolutions : Supported(resolutions[p])
    BY SourceSupported, PartsSupported DEF ReplayField, IsSampled
  <2>2. Supported(fields)
    BY <2>1, FieldsSupported
  <2> HIDE DEF fields
  <2>3. Supported(valid)
    BY <1>1, <2>2
  <2>4. ReplayCandidate(c, recorded, fixture, submissions) \in {Failed("replay"), valid}
    BY DEF ReplayCandidate, fields
  <2> QED BY <2>3, <2>4, PartsSupported
<1> QED BY <1>3, <1>4

LEMMA ProblemsSupported ==
  ASSUME HarnessInv, UnaryOperations, pc = "offer"
  PROVE  "unsupported" \notin Pool.problems
<1>1. \A c \in Considered : c \in Cases /\ InputAccepted(c)
  BY DEF HarnessInv, HarnessTypeOK, Admitted, ScenarioAccepted, OfScenario, Considered, Recorded
<1>2. \A c \in Considered : Supported(Resolution(c))
  BY <1>1, CaseSupported DEF Resolution
<1>3. \A boundary \in Pool.problems :
        \E c \in Considered : Resolution(c).is = "failed" /\ boundary = Resolution(c).boundary
  BY DEF Pool
<1> QED BY <1>2, <1>3 DEF Supported

LEMMA StaysSupported ==
  ASSUME UnaryOperations, HarnessInv, ValidatedInputsApply, [HarnessNext]_harnessVars
  PROVE  ValidatedInputsApply'
<1>1. DOMAIN outcome = {"interruption", "closed", "reloaded", "seen", "fresh", "verdict"}
  BY DEF HarnessInv, HarnessTypeOK
<1>2. CASE ResolveFails
  BY <1>1, <1>2, ProblemsSupported DEF ResolveFails, Interrupt, ValidatedInputsApply
<1>3. ASSUME \E reason \in {"blocked", "deadline", "decision", "progress", "replay", "runtime", "probe"} :
               outcome' = [outcome EXCEPT !.interruption = reason]
      PROVE  ValidatedInputsApply'
  BY <1>1, <1>3 DEF ValidatedInputsApply
<1>4. ASSUME outcome'.interruption = outcome.interruption
      PROVE  ValidatedInputsApply'
  BY <1>4 DEF ValidatedInputsApply
<1>5. CASE Replay
  BY <1>5 DEF Replay, Undecided, ValidatedInputsApply
<1>6. CASE \/ ValidateCatalog \/ PrepareDirectory \/ SpawnServer \/ Neighbour \/ Listen \/ Exit \/ Ready
           \/ Execute \/ Probe \/ View \/ Release \/ Rebuild \/ UNCHANGED harnessVars
           \/ \E accepted \in BOOLEAN : Answer(accepted)
           \/ \E sealed \in BOOLEAN : Report(sealed)
  BY <1>4, <1>6
  DEF ValidateCatalog, PrepareDirectory, SpawnServer, Neighbour, Listen, Exit, Ready, Execute, Probe, View,
      Release, Rebuild, harnessVars, Answer, Report
<1>7. CASE \/ NotReady \/ \E ok \in BOOLEAN : Prerequisites(ok)
           \/ Exhausted \/ ModelFails \/ ExecuteFails \/ AnswerLost \/ ProbeFails \/ Deadline
  BY <1>3, <1>4, <1>7
  DEF NotReady, Prerequisites, Exhausted, ModelFails, ExecuteFails, AnswerLost, ProbeFails, Deadline,
      Interrupt, Blocked
<1>8. CASE RecordedChoice \/ \E confident \in BOOLEAN : Choose(confident)
  BY <1>3, <1>4, <1>8 DEF RecordedChoice, Choose, Interrupt
<1>9. CASE \E ok \in BOOLEAN : Close(ok) \/ Enforce(ok)
  BY <1>1, <1>4, <1>9 DEF Close, Enforce
<1>10. CASE \E passing \in SUBSET scenario.requirements : Evaluate(passing)
  BY <1>1, <1>4, <1>10 DEF Evaluate
<1> QED BY <1>2, <1>5, <1>6, <1>7, <1>8, <1>9, <1>10 DEF HarnessNext

\* No scenario that the catalog accepts (catalog.ts) is interrupted because a
\* source cannot be applied to its field (inputs.ts), for any contracts, sources
\* and recordings, provided that its operations are unary, which the catalog does
\* not ask.
THEOREM AcceptedInputsApply ==
  ASSUME UnaryOperations
  PROVE  HarnessSpec => []ValidatedInputsApply
<1>1. HarnessInit => ValidatedInputsApply
  BY DEF HarnessInit, Undecided, ValidatedInputsApply
<1>2. HarnessInv /\ ValidatedInputsApply /\ [HarnessNext]_harnessVars => ValidatedInputsApply'
  BY StaysSupported
<1> QED BY <1>1, <1>2, HarnessInvariance, PTL DEF HarnessSpec

-----------------------------------------------------------------------------
(***************************************************************************)
(* The form of a payload.                                                  *)
(***************************************************************************)

LEMMA ChainsAre ==
  ASSUME NEW p \in Fields
  PROVE  /\ p \in Chain(p) /\ Chain(p) \subseteq Fields
         /\ \A q \in Chain(p) : Parent[q] \in Chain(p) \cup {Root}
         /\ \A S \in SUBSET Fields :
              p \in S /\ (\A r \in S : Parent[r] \in S \cup {Root}) => Chain(p) \subseteq S
<1> DEFINE Closed == {S \in SUBSET Fields : \A r \in S : Parent[r] \in S \cup {Root}}
<1>1. Chain(p) = {q \in Fields : \A S \in Closed : p \in S => q \in S}
  BY DEF Chain, Chains
<1>2. ASSUME NEW q \in Chain(p)  PROVE Parent[q] \in Chain(p) \cup {Root}
  <2>1. CASE Parent[q] = Root
    BY <2>1
  <2>2. CASE Parent[q] # Root
    <3>1. Parent[q] \in Fields
      BY <1>1, <2>2, FormAssumption
    <3>2. \A S \in Closed : p \in S => Parent[q] \in S
      BY <1>1, <2>2
    <3> QED BY <1>1, <3>1, <3>2
  <2> QED BY <2>1, <2>2
<1>3. ASSUME NEW S \in SUBSET Fields, p \in S, \A r \in S : Parent[r] \in S \cup {Root}
      PROVE  Chain(p) \subseteq S
  BY <1>1, <1>3
<1> QED BY <1>1, <1>2, <1>3

LEMMA ChainUp ==
  ASSUME NEW p \in Fields, NEW q \in Chain(p)
  PROVE  q \in Fields /\ Chain(q) \subseteq Chain(p)
BY ChainsAre

LEMMA ChainOf ==
  ASSUME NEW p \in Fields
  PROVE  /\ Parent[p] = Root => Chain(p) = {p}
         /\ Parent[p] # Root => /\ Parent[p] \in Fields /\ Chain(p) = {p} \cup Chain(Parent[p])
                                /\ Chain(Parent[p]) # Chain(p)
<1>1. CASE Parent[p] = Root
  <2> DEFINE S == {p}
  <2>1. S \in SUBSET Fields /\ p \in S /\ \A r \in S : Parent[r] \in S \cup {Root}
    BY <1>1
  <2> HIDE DEF S
  <2>2. Chain(p) \subseteq S /\ p \in Chain(p)
    BY <2>1, ChainsAre
  <2> QED BY <1>1, <2>2 DEF S
<1>2. CASE Parent[p] # Root
  <2>1. Parent[p] \in Fields /\ Parent[p] \in Chain(p)
    BY <1>2, ChainsAre, FormAssumption
  <2>2. Chain(Parent[p]) \subseteq Chain(p)
    BY <2>1, ChainUp
  <2> DEFINE up == {p} \cup Chain(Parent[p])
  <2>3. up \in SUBSET Fields /\ p \in up
    BY <2>1, ChainsAre
  <2>4. \A r \in up : Parent[r] \in up \cup {Root}
    BY <2>1, ChainsAre
  <2>5. p \notin Chain(Parent[p])
    BY <1>2, FormAssumption
  <2> HIDE DEF up
  <2>6. Chain(p) \subseteq up /\ p \in Chain(p)
    BY <2>3, <2>4, ChainsAre
  <2> QED BY <1>2, <2>1, <2>2, <2>5, <2>6 DEF up
<1> QED BY <1>1, <1>2

LEMMA TogglesUp ==
  ASSUME NEW p \in Fields, NEW q \in Chain(p)
  PROVE  /\ Toggles(q) \subseteq Toggles(p)
         /\ p \in Rendered => q \in Rendered
BY ChainUp DEF Toggles, Rendered

\* Of some fields, one has no other of them above it, one no other below it.
LEMMA Topmost ==
  ASSUME NEW S \in SUBSET Fields, S # {}
  PROVE  /\ \E p \in S : \A q \in S : Chain(q) \subseteq Chain(p) => Chain(q) = Chain(p)
         /\ \E p \in S : \A q \in S : Chain(p) \subseteq Chain(q) => Chain(q) = Chain(p)
<1>1. IsWellFoundedOn(StrictSubsetOrdering(Fields), SUBSET Fields)
  BY FormAssumption, FS_StrictSubsetOrderingWellFounded, FS_FiniteSubsetsOfFinite
<1>2. \E p \in S : \A q \in S : Chain(q) \subseteq Chain(p) => Chain(q) = Chain(p)
  <2> DEFINE T == {Chain(p) : p \in S}
  <2>1. T \subseteq SUBSET Fields /\ T # {}
    BY ChainsAre
  <2> HIDE DEF T
  <2>2. PICK x \in T : \A y \in T : ~ (<<y, x>> \in StrictSubsetOrdering(Fields))
    BY <1>1, <2>1, WFMin
  <2>3. \A y \in T : y \subseteq x => y = x
    BY <2>1, <2>2 DEF StrictSubsetOrdering
  <2> QED BY <2>3 DEF T
<1>3. \E p \in S : \A q \in S : Chain(p) \subseteq Chain(q) => Chain(q) = Chain(p)
  <2> DEFINE T == {Fields \ Chain(p) : p \in S}
  <2>1. T \subseteq SUBSET Fields /\ T # {}
    OBVIOUS
  <2> HIDE DEF T
  <2>2. PICK x \in T : \A y \in T : ~ (<<y, x>> \in StrictSubsetOrdering(Fields))
    BY <1>1, <2>1, WFMin
  <2>3. \A y \in T : y \subseteq x => y = x
    BY <2>1, <2>2 DEF StrictSubsetOrdering
  <2>4. PICK p \in S : x = Fields \ Chain(p)
    BY DEF T
  <2>5. ASSUME NEW q \in S, Chain(p) \subseteq Chain(q)  PROVE Chain(q) = Chain(p)
    <3>1. Fields \ Chain(q) \in T /\ Fields \ Chain(q) \subseteq x
      BY <2>4, <2>5 DEF T
    <3>2. Fields \ Chain(q) = Fields \ Chain(p)
      BY <2>3, <2>4, <3>1
    <3>3. Chain(p) \subseteq Fields /\ Chain(q) \subseteq Fields
      BY ChainsAre
    <3> QED BY <3>2, <3>3
  <2> QED BY <2>5
<1> QED BY <1>2, <1>3

-----------------------------------------------------------------------------
(***************************************************************************)
(* What a form sends.                                                      *)
(***************************************************************************)

\* A payload as JSON can hold it: a path has one value, of an object.
Tree(payload) ==
  \A pair \in payload :
    /\ pair = <<pair[1], pair[2]>> /\ pair[1] \in Fields
    /\ \A other \in payload : other[1] = pair[1] => other[2] = pair[2]
    /\ Parent[pair[1]] # Root => <<Parent[pair[1]], Object>> \in payload

Given(payload) == {p \in Fields : At(payload, p) # {}}

\* The objects that a form cannot leave out.
Mandatory == {p \in Rendered \ Optional : Kind[p] = "object"}

\* An object that a form cannot leave out is in the payload ...
Complete(payload) ==
  \A p \in Mandatory : Parent[p] = Root \/ Parent[p] \in Given(payload) => p \in Given(payload)

\* ... or has a member that the form cannot leave out either.
Anchored ==
  \A p \in Mandatory : \E q \in Rendered \ Optional : Parent[q] = p

\* Whatever is ticked, is for a control that is included.
Backed(form) ==
  \A t \in form.ticked : \E c \in Controls : t \in Toggles(c) /\ Toggles(c) \subseteq form.ticked

LEMMA GivenIs ==
  ASSUME NEW payload, Tree(payload)
  PROVE  /\ \A p \in Fields : p \in Given(payload) <=> \E v : <<p, v>> \in payload
         /\ \A p, v : <<p, v>> \in payload => p \in Given(payload) /\ At(payload, p) = {v}
         /\ \A p \in Given(payload) : \A q \in Chain(p) :
              q \in Given(payload) /\ (q # p => <<q, Object>> \in payload)
<1>1. \A p, v : v \in At(payload, p) <=> <<p, v>> \in payload
  BY DEF At, Tree
<1>2. \A p \in Fields : p \in Given(payload) <=> \E v : <<p, v>> \in payload
  BY <1>1 DEF Given
<1>3. ASSUME NEW p, NEW v, <<p, v>> \in payload  PROVE p \in Given(payload) /\ At(payload, p) = {v}
  <2>1. p \in Fields /\ \A w : <<p, w>> \in payload => w = v
    BY <1>3 DEF Tree
  <2> QED BY <1>1, <1>2, <1>3, <2>1
<1>4. ASSUME NEW p \in Given(payload), NEW q \in Chain(p)
      PROVE  q \in Given(payload) /\ (q # p => <<q, Object>> \in payload)
  <2> DEFINE S == {r \in Fields : r = p \/ <<r, Object>> \in payload}
  <2>1. p \in Fields /\ p \in S
    BY DEF Given
  <2>2. \A r \in S : r \in Given(payload)
    BY <1>3
  <2>3. ASSUME NEW r \in S  PROVE Parent[r] \in S \cup {Root}
    <3>1. PICK v : <<r, v>> \in payload
      BY <1>2, <2>2
    <3>2. Parent[r] # Root => <<Parent[r], Object>> \in payload
      BY <3>1 DEF Tree
    <3>3. Parent[r] # Root => Parent[r] \in Fields
      BY FormAssumption
    <3> QED BY <3>2, <3>3
  <2>4. S \in SUBSET Fields
    OBVIOUS
  <2> HIDE DEF S
  <2>5. q \in S
    BY <2>1, <2>3, <2>4, ChainsAre
  <2> QED BY <2>2, <2>5 DEF S
<1> QED BY <1>2, <1>3, <1>4

\* Below everything in a payload that is covered is a control.
LEMMA CoveredIs ==
  ASSUME NEW payload, Tree(payload), Covered(payload), NEW p \in Given(payload)
  PROVE  \E c \in Controls \cap Given(payload) : p \in Chain(c)
<1> DEFINE S == {q \in Given(payload) : p \in Chain(q)}
<1>1. S \in SUBSET Fields /\ p \in S
  BY ChainsAre DEF Given
<1> HIDE DEF S
<1>2. PICK c \in S : \A q \in S : Chain(c) \subseteq Chain(q) => Chain(q) = Chain(c)
  BY <1>1, Topmost
<1>3. c \in Given(payload) /\ c \in Fields /\ p \in Chain(c)
  BY <1>1 DEF S
<1>4. PICK v : <<c, v>> \in payload
  BY <1>3, GivenIs
<1>5. CASE v = Object
  <2>1. PICK other \in payload : Parent[other[1]] = c
    BY <1>4, <1>5 DEF Covered
  <2> DEFINE q == other[1]
  <2>2. q \in Given(payload) /\ q \in Fields /\ Parent[q] # Root
    <3>1. other = <<other[1], other[2]>> /\ q \in Fields
      BY <2>1 DEF Tree
    <3> QED BY <1>3, <2>1, <3>1, GivenIs, FormAssumption
  <2>3. Chain(c) \subseteq Chain(q) /\ Chain(q) # Chain(c)
    BY <2>1, <2>2, ChainOf
  <2>4. q \in S
    BY <1>3, <2>2, <2>3 DEF S
  <2> QED BY <1>2, <2>3, <2>4
<1>6. CASE v # Object
  BY <1>3, <1>4, <1>6 DEF Covered
<1> QED BY <1>5, <1>6

\* Every object that the form includes is in a candidate that it agrees with.
LEMMA IncludedGiven ==
  ASSUME NEW form, NEW payload, Tree(payload), Submittable(form, payload), Backed(form),
         Complete(payload) \/ Anchored
  PROVE  Included(form) \subseteq Given(payload)
<1>1. ASSUME NEW c \in Controls \cap Included(form)  PROVE c \in Given(payload)
  <2>1. Matches(form, payload, c)
    BY <1>1 DEF Submittable, Outstanding
  <2> QED BY <1>1, <2>1 DEF Matches, Included, Given, Controls, Rendered
<1>2. ASSUME NEW t \in form.ticked  PROVE t \in Given(payload)
  <2>1. PICK c \in Controls : t \in Toggles(c) /\ Toggles(c) \subseteq form.ticked
    BY DEF Backed
  <2>2. c \in Given(payload)
    BY <1>1, <2>1 DEF Included, Controls
  <2> QED BY <2>1, <2>2, GivenIs DEF Toggles
<1> DEFINE S == {p \in Included(form) : p \notin Given(payload)}
<1>3. S \in SUBSET Fields
  BY DEF Included, Rendered
<1>4. ASSUME NEW p \in S  PROVE p \in Mandatory
  <2>1. p \in Chain(p) /\ p \in Rendered /\ Toggles(p) \subseteq form.ticked /\ p \in Fields
    BY <1>3, ChainsAre DEF Included
  <2>2. p \notin Optional
    BY <1>2, <2>1 DEF Toggles
  <2>3. p \notin Controls
    BY <1>1
  <2> QED BY <2>1, <2>2, <2>3 DEF Mandatory, Controls
<1>5. SUFFICES ASSUME S # {} PROVE FALSE
  OBVIOUS
<1>6. CASE Complete(payload)
  <2>1. PICK p \in S : \A q \in S : Chain(q) \subseteq Chain(p) => Chain(q) = Chain(p)
    BY <1>3, <1>5, Topmost
  <2>2. p \in Mandatory /\ p \in Fields
    BY <1>3, <1>4
  <2>3. Parent[p] # Root /\ Parent[p] \notin Given(payload)
    BY <1>6, <2>2 DEF Complete
  <2>4. Parent[p] \in Fields /\ Parent[p] \in Chain(p) /\ Chain(Parent[p]) \subseteq Chain(p)
        /\ Chain(Parent[p]) # Chain(p)
    BY <2>2, <2>3, ChainOf, ChainsAre
  <2>5. Parent[p] \in Included(form)
    BY <2>2, <2>4, TogglesUp DEF Included
  <2> QED BY <2>1, <2>3, <2>4, <2>5
<1>7. CASE Anchored
  <2>1. PICK p \in S : \A q \in S : Chain(p) \subseteq Chain(q) => Chain(q) = Chain(p)
    BY <1>3, <1>5, Topmost
  <2>2. p \in Mandatory /\ p \in Fields
    BY <1>3, <1>4
  <2>3. PICK q \in Rendered \ Optional : Parent[q] = p
    BY <1>7, <2>2 DEF Anchored
  <2>4. q \in Fields /\ Parent[q] # Root
    BY <2>2, <2>3, FormAssumption DEF Rendered
  <2>5. Chain(q) = {q} \cup Chain(p) /\ Chain(q) # Chain(p)
    BY <2>3, <2>4, ChainOf
  <2>6. q \in Included(form)
    BY <2>3, <2>5 DEF Included, Toggles
  <2>7. q \in Given(payload)
    BY <2>1, <2>5, <2>6
  <2>8. p \in Given(payload)
    BY <2>2, <2>5, <2>7, ChainsAre, GivenIs
  <2> QED BY <2>8
<1> QED BY <1>6, <1>7

\* What the harness finds in agreement with a candidate sends the candidate.
LEMMA SendsWhatMatches ==
  ASSUME NEW form, NEW payload, Tree(payload), Submittable(form, payload), Backed(form),
         Complete(payload) \/ Anchored
  PROVE  Sent(form) = {payload}
<1> DEFINE leaves == Included(form) \cap Controls
           objects == {<<p, Object>> : p \in Included(form) \ Controls}
           values == {<<p, CHOOSE v \in Read(form, p) : TRUE>> : p \in leaves}
<1>1. ASSUME NEW p \in leaves
      PROVE  \E v : Read(form, p) = {v} /\ <<p, v>> \in payload /\ (CHOOSE w \in Read(form, p) : TRUE) = v
  <2>1. At(payload, p) # {} /\ At(payload, p) = Read(form, p)
    BY DEF Submittable, Outstanding, Matches, Included
  <2>2. p \in Fields
    BY DEF Included, Rendered
  <2>3. PICK v : <<p, v>> \in payload
    BY <2>1, <2>2, GivenIs DEF Given
  <2>4. Read(form, p) = {v}
    BY <2>1, <2>3, GivenIs
  <2>5. (CHOOSE w \in {v} : TRUE) = v
    OBVIOUS
  <2> QED BY <2>3, <2>4, <2>5
<1>2. ASSUME NEW p \in Included(form) \ Controls  PROVE <<p, Object>> \in payload
  <2>1. p \in Given(payload) /\ p \in Fields
    BY IncludedGiven DEF Given
  <2>2. PICK v : <<p, v>> \in payload
    BY <2>1, GivenIs
  <2> QED BY <2>2 DEF Covered, Submittable
<1>3. ASSUME NEW pair \in payload  PROVE pair \in objects \cup values
  <2>1. pair = <<pair[1], pair[2]>> /\ pair[1] \in Fields /\ pair[1] \in Given(payload)
    <3>1. pair = <<pair[1], pair[2]>> /\ pair[1] \in Fields
      BY DEF Tree
    <3>2. <<pair[1], pair[2]>> \in payload
      BY <3>1
    <3> QED BY <3>1, <3>2, GivenIs
  <2>2. PICK c \in Controls \cap Given(payload) : pair[1] \in Chain(c)
    BY <2>1, CoveredIs DEF Submittable
  <2>3. c \in Included(form) /\ c \in Fields
    BY DEF Submittable, Outstanding, Matches, Included, Given, Controls
  <2>4. pair[1] \in Included(form)
    BY <2>2, <2>3, TogglesUp DEF Included
  <2>5. CASE pair[1] \in Controls
    <3>1. PICK v : /\ Read(form, pair[1]) = {v} /\ <<pair[1], v>> \in payload
                   /\ (CHOOSE w \in Read(form, pair[1]) : TRUE) = v
      BY <1>1, <2>4, <2>5
    <3>2. pair[2] = v
      BY <2>1, <3>1 DEF Tree
    <3>3. <<pair[1], CHOOSE w \in Read(form, pair[1]) : TRUE>> \in values
      BY <2>4, <2>5
    <3> QED BY <2>1, <3>1, <3>2, <3>3
  <2>6. CASE pair[1] \notin Controls
    <3>1. <<pair[1], Object>> \in payload
      BY <1>2, <2>4, <2>6
    <3>2. pair[2] = Object
      BY <3>1 DEF Tree
    <3> QED BY <2>1, <2>4, <2>6, <3>2
  <2> QED BY <2>5, <2>6
<1>4. objects \cup values = payload
  <2>1. objects \subseteq payload
    BY <1>2
  <2>2. values \subseteq payload
    BY <1>1
  <2>3. payload \subseteq objects \cup values
    BY <1>3
  <2> QED BY <2>1, <2>2, <2>3
<1>5. Sent(form) = {objects \cup values}
  <2>1. \A p \in leaves : Read(form, p) # {}
    BY <1>1
  <2> QED BY <2>1 DEF Sent
<1> QED BY <1>4, <1>5

\* A form that was filled is for a control as well, whatever was ticked before.
LEMMA FilledIsBacked ==
  ASSUME NEW form, NEW payload, Tree(payload), Covered(payload), Backed(form)
  PROVE  Backed(Fill(form, payload))
<1> DEFINE todo == Outstanding(form, payload)
           toggles == UNION {Toggles(p) : p \in todo}
           filled == Fill(form, payload)
<1>1. filled.ticked = (form.ticked \ toggles) \cup {p \in toggles : At(payload, p) # {}}
  BY DEF Fill
<1>2. ASSUME NEW c \in Controls \cap Given(payload), NEW u \in Toggles(c)  PROVE u \in filled.ticked
  <2>1. u \in Given(payload)
    BY GivenIs DEF Toggles
  <2>2. CASE u \in toggles
    BY <1>1, <2>1, <2>2 DEF Given
  <2>3. CASE u \notin toggles
    <3>1. c \notin todo
      BY <2>3
    <3>2. Toggles(c) \subseteq form.ticked
      BY <3>1 DEF Outstanding, Matches, Given
    <3> QED BY <1>1, <2>3, <3>2
  <2> QED BY <2>2, <2>3
<1>3. SUFFICES ASSUME NEW t \in filled.ticked
               PROVE  \E c \in Controls \cap Given(payload) : t \in Toggles(c)
  BY <1>2 DEF Backed
<1>4. CASE t \in toggles
  <2>1. PICK p \in todo : t \in Toggles(p)
    BY <1>4
  <2>2. t \in Given(payload)
    BY <1>1, <1>4, <2>1, ChainsAre DEF Given, Toggles, Outstanding, Controls, Rendered
  <2>3. PICK c \in Controls \cap Given(payload) : t \in Chain(c)
    BY <2>2, CoveredIs
  <2> QED BY <2>1, <2>3 DEF Toggles
<1>5. CASE t \notin toggles
  <2>1. PICK c \in Controls : t \in Toggles(c) /\ Toggles(c) \subseteq form.ticked
    BY <1>1, <1>5 DEF Backed
  <2>2. c \notin todo
    BY <1>5, <2>1
  <2>3. c \in Given(payload)
    BY <2>1, <2>2 DEF Outstanding, Matches, Given, Controls, Rendered
  <2> QED BY <2>1, <2>3
<1> QED BY <1>4, <1>5

-----------------------------------------------------------------------------
(***************************************************************************)
(* What a case resolves to.                                                *)
(***************************************************************************)

Tops == {p \in Fields : Parent[p] = Root}

\* A part of a payload under some of its members.
Below(members, part) ==
  Tree(part) /\ \A pair \in part : Chain(pair[1]) \cap members # {}

\* Literals, samples and what the codecs return are values that JSON can hold,
\* and what a codec returns conforms to the schema that the form is made of.
PayloadsAreTrees ==
  \A c \in Cases :
    /\ Members(Operation[c]) \subseteq Tops
    /\ \A p \in LiteralFields(c) : Below({p}, Sources[c][p].part)
    /\ \A i \in DOMAIN Drawn(c) : i \in Nat /\ Tree(Drawn(c)[i])
    /\ \A payload : Tree(payload) =>
         \A e \in Codec(Operation[c], payload) : Tree(e) /\ Complete(e)

\* A payload that no codec has seen need not conform.
RejectedAreAnchored == \A c \in Cases : Validity[c] = "native-invalid" => Anchored

LEMMA OneTop ==
  ASSUME NEW p \in Fields, NEW a \in Chain(p) \cap Tops, NEW b \in Chain(p) \cap Tops
  PROVE  a = b
<1> DEFINE S == {q \in Fields : {a, b} \subseteq Chain(q)}
<1>1. S \in SUBSET Fields /\ S # {}
  OBVIOUS
<1> HIDE DEF S
<1>2. PICK q \in S : \A r \in S : Chain(r) \subseteq Chain(q) => Chain(r) = Chain(q)
  BY <1>1, Topmost
<1>3. q \in Fields /\ {a, b} \subseteq Chain(q)
  BY DEF S
<1>4. CASE Parent[q] = Root
  BY <1>3, <1>4, ChainOf
<1>5. CASE Parent[q] # Root
  <2>1. /\ Parent[q] \in Fields /\ Chain(q) = {q} \cup Chain(Parent[q])
        /\ Chain(Parent[q]) # Chain(q)
    BY <1>3, <1>5, ChainOf
  <2>2. Parent[q] \notin S
    BY <1>2, <2>1
  <2>3. a = q \/ b = q
    BY <1>3, <2>1, <2>2 DEF S
  <2> QED BY <1>5, <2>3 DEF Tops
<1> QED BY <1>4, <1>5

LEMMA BelowMore ==
  ASSUME NEW members, NEW more, members \subseteq more, NEW part, Below(members, part)
  PROVE  Below(more, part)
BY DEF Below

LEMMA UnderIs ==
  ASSUME NEW p, NEW part, Below({p}, part), NEW pair \in part
  PROVE  p \in Chain(pair[1]) /\ pair[1] \in Fields
<1>1. Chain(pair[1]) \cap {p} # {} /\ pair[1] \in Fields
  BY DEF Below, Tree
<1> QED BY <1>1

\* Parts under different members are a part under all of them.
LEMMA JoinedBelow ==
  ASSUME NEW members \in SUBSET Tops, NEW parts,
         \A p \in members : Below({p}, parts[p])
  PROVE  Below(members, UNION {parts[p] : p \in members})
<1> DEFINE joined == UNION {parts[p] : p \in members}
<1>1. ASSUME NEW pair \in joined, NEW other \in joined, other[1] = pair[1]  PROVE other[2] = pair[2]
  <2>1. PICK p \in members, q \in members : pair \in parts[p] /\ other \in parts[q]
    OBVIOUS
  <2>2. Below({p}, parts[p]) /\ Below({q}, parts[q])
    OBVIOUS
  <2>3. p \in Chain(pair[1]) /\ q \in Chain(other[1]) /\ pair[1] \in Fields
    BY <2>1, <2>2, UnderIs
  <2>4. p = q
    BY <1>1, <2>3, OneTop
  <2>5. pair \in parts[p] /\ other \in parts[p]
    BY <2>1, <2>4
  <2> QED BY <1>1, <2>2, <2>5 DEF Below, Tree
<1>2. ASSUME NEW pair \in joined
      PROVE  /\ pair = <<pair[1], pair[2]>> /\ pair[1] \in Fields
             /\ Parent[pair[1]] # Root => <<Parent[pair[1]], Object>> \in joined
             /\ Chain(pair[1]) \cap members # {}
  <2>1. PICK p \in members : pair \in parts[p]
    OBVIOUS
  <2>2. Below({p}, parts[p])
    OBVIOUS
  <2> QED BY <2>1, <2>2 DEF Below, Tree
<1> HIDE DEF joined
<1> QED BY <1>1, <1>2 DEF Below, Tree, joined

LEMMA BothBelow ==
  ASSUME NEW M \in SUBSET Tops, NEW N \in SUBSET Tops, M \cap N = {},
         NEW x, NEW y, Below(M, x), Below(N, y)
  PROVE  Tree(x \cup y)
<1>1. ASSUME NEW pair \in x, NEW other \in y  PROVE other[1] # pair[1]
  <2>1. PICK p \in M : p \in Chain(pair[1])
    BY DEF Below
  <2>2. PICK q \in N : q \in Chain(other[1])
    BY DEF Below
  <2>3. pair[1] \in Fields
    BY DEF Below, Tree
  <2> QED BY <2>1, <2>2, <2>3, OneTop
<1> QED BY <1>1 DEF Below, Tree

LEMMA PartIsBelow ==
  ASSUME NEW members \in SUBSET Tops, NEW payload, Tree(payload)
  PROVE  Below(members, PartAt(payload, members))
<1> DEFINE part == PartAt(payload, members)
<1>1. \A pair : pair \in part <=> pair \in payload /\ Chain(pair[1]) \cap members # {}
  BY DEF PartAt
<1>2. ASSUME NEW pair \in part, Parent[pair[1]] # Root
      PROVE  <<Parent[pair[1]], Object>> \in part
  <2>1. pair[1] \in Fields /\ <<Parent[pair[1]], Object>> \in payload
    BY <1>1, <1>2 DEF Tree
  <2>2. Chain(pair[1]) = {pair[1]} \cup Chain(Parent[pair[1]])
    BY <1>2, <2>1, ChainOf
  <2>3. pair[1] \notin members
    BY <1>2 DEF Tops
  <2>4. Chain(Parent[pair[1]]) \cap members # {}
    BY <1>1, <2>2, <2>3
  <2> QED BY <1>1, <2>1, <2>4
<1> HIDE DEF part
<1> QED BY <1>1, <1>2 DEF Below, Tree, part

LEMMA ValueIsBelow ==
  ASSUME NEW p \in Tops, NEW v
  PROVE  Below({p}, {<<p, v>>})
<1>1. p \in Fields /\ Parent[p] = Root /\ p \in Chain(p)
  BY ChainsAre DEF Tops
<1> QED BY <1>1 DEF Below, Tree

\* What a source gives is under its member.
Fits(p, r) == r.is = "part" => Below({p}, r.pairs)

LEMMA SourceFits ==
  ASSUME PayloadsAreTrees, NEW c \in Cases, InputAccepted(c), NEW p \in DOMAIN Sources[c],
         NEW fixture, NEW submissions
  PROVE  p \in Tops /\ Fits(p, ResolveSource(Operation[c], fixture, submissions, p, Sources[c][p]))
<1> DEFINE source == Sources[c][p]
<1>1. p \in Tops
  BY DEF PayloadsAreTrees, InputAccepted
<1>2. /\ \A v : Fits(p, Part({<<p, v>>}))
      /\ \A boundary : Fits(p, Failed(boundary))
      /\ Fits(p, Waiting)
  BY <1>1, ValueIsBelow DEF Fits, Part, Failed, Waiting
<1>3. \A value, offset, boundary : Fits(p, WithOffset(value, offset, p, boundary))
  BY <1>2 DEF WithOffset
<1>4. CASE source.source = "fixture"
  <2>1. ResolveSource(Operation[c], fixture, submissions, p, source) = FixtureField(fixture, p, source)
    BY <1>4 DEF ResolveSource
  <2> QED BY <1>1, <1>2, <1>3, <2>1 DEF FixtureField
<1>5. CASE source.source = "captured"
  <2>1. ResolveSource(Operation[c], fixture, submissions, p, source) = CapturedField(submissions, p, source)
    BY <1>5 DEF ResolveSource
  <2> QED BY <1>1, <1>2, <1>3, <2>1 DEF CapturedField
<1>6. CASE source.source = "literal"
  <2>1. Below({p}, source.part)
    BY <1>6 DEF PayloadsAreTrees, LiteralFields
  <2>2. ResolveSource(Operation[c], fixture, submissions, p, source) = Part(source.part)
    BY <1>6 DEF ResolveSource
  <2> QED BY <1>1, <2>1, <2>2 DEF Fits, Part
<1>7. CASE source.source = "native"
  <2>1. ResolveSource(Operation[c], fixture, submissions, p, source) =
          NativeField(Operation[c], p, source.strategy)
    BY <1>7 DEF ResolveSource
  <2> QED BY <1>1, <1>2, <2>1 DEF NativeField
<1> QED BY <1>4, <1>5, <1>6, <1>7, SourcesAssumption DEF Cases

LEMMA FieldsFit ==
  ASSUME NEW resolutions, DOMAIN resolutions \subseteq Tops,
         \A p \in DOMAIN resolutions : Fits(p, resolutions[p]),
         ResolveFields(resolutions).is = "part"
  PROVE  Below(DOMAIN resolutions, ResolveFields(resolutions).pairs)
<1> DEFINE of(is) == {r \in Range(resolutions) : r.is = is}
           parts == [p \in DOMAIN resolutions |->
                       IF resolutions[p].is = "part" THEN resolutions[p].pairs ELSE {}]
<1>1. \A r \in of("failed") : r.is # "part"
  OBVIOUS
<1>2. ResolveFields(resolutions) = Part(UNION {r.pairs : r \in of("part")})
  BY <1>1 DEF ResolveFields, Waiting
<1>3. UNION {r.pairs : r \in of("part")} = UNION {parts[p] : p \in DOMAIN resolutions}
  BY DEF Range
<1>4. \A p \in DOMAIN resolutions : Below({p}, parts[p])
  BY DEF Fits, Below, Tree
<1>5. Below(DOMAIN resolutions, UNION {parts[p] : p \in DOMAIN resolutions})
  <2> HIDE DEF parts
  <2> QED BY <1>4, JoinedBelow
<1>6. ResolveFields(resolutions).pairs = UNION {parts[p] : p \in DOMAIN resolutions}
  <2> HIDE DEF parts
  <2> QED BY <1>2, <1>3 DEF Part
<1> HIDE DEF parts
<1> QED BY <1>5, <1>6

\* A candidate is a value that the form can leave complete.
Candidate(payload) == Tree(payload) /\ (Complete(payload) \/ Anchored)

LEMMA ValidatedIs ==
  ASSUME PayloadsAreTrees, RejectedAreAnchored, NEW c \in Cases, NEW payload, Tree(payload),
         Validate(c, payload).is = "part"
  PROVE  Candidate(Validate(c, payload).pairs)
<1> DEFINE encoded == Codec(Operation[c], payload)
<1>1. \A e \in encoded : Tree(e) /\ Complete(e)
  BY DEF PayloadsAreTrees
<1>2. (encoded = {}) <=> Validity[c] = "native-invalid"
  BY DEF Validate, Failed
<1>3. CASE encoded = {}
  <2>1. Anchored
    BY <1>2, <1>3 DEF RejectedAreAnchored
  <2>2. Validate(c, payload) = Part(payload)
    BY <1>2, <1>3 DEF Validate
  <2> QED BY <2>1, <2>2 DEF Part, Candidate
<1>4. CASE encoded # {}
  <2>1. Validate(c, payload) = Part(CHOOSE e \in encoded : TRUE)
    BY <1>2, <1>4 DEF Validate
  <2>2. (CHOOSE e \in encoded : TRUE) \in encoded
    BY <1>4
  <2> QED BY <1>1, <2>1, <2>2 DEF Part, Candidate
<1> QED BY <1>3, <1>4

LEMMA LeastNumber ==
  ASSUME NEW T, T \subseteq Nat, T # {}
  PROVE  \E x \in T : \A y \in T : ~(y < x)
<1>1. IsWellFoundedOn(OpToRel(<, Nat), Nat)
  BY NatLessThanWellFounded
<1>2. PICK x \in T : \A y \in T : <<y, x>> \notin OpToRel(<, Nat)
  BY <1>1, WFMin
<1>3. \A y \in T : ~(y < x)
  BY <1>2 DEF OpToRel
<1> QED BY <1>3

LEMMA SampledIs ==
  ASSUME PayloadsAreTrees, NEW c \in Cases, NEW fields \in SUBSET Tops,
         NEW fixed, SampleWhole(c, fields, fixed).is = "part"
  PROVE  \E sample : Below(fields, sample) /\ SampleWhole(c, fields, fixed).pairs = fixed \cup sample
<1> DEFINE Suits(draw) ==
             LET sampled == PartAt(Caller(Operation[c], draw), fields)
             IN /\ \A p \in fields : \E pair \in sampled : pair[1] = p
                /\ Validity[c] = "native-invalid" \/ Codec(Operation[c], fixed \cup sampled) # {}
           suited == {i \in DOMAIN Drawn(c) : Suits(Drawn(c)[i])}
           first == CHOOSE i \in suited : \A j \in suited : i <= j
           sample == PartAt(Caller(Operation[c], Drawn(c)[first]), fields)
<1>1. CASE fields = {}
  <2>1. Below(fields, {}) /\ SampleWhole(c, fields, fixed).pairs = fixed \cup {}
    BY <1>1 DEF SampleWhole, Part, Below, Tree
  <2> QED BY <2>1
<1>2. CASE fields # {}
  <2>1. suited # {} /\ SampleWhole(c, fields, fixed) = Part(fixed \cup sample)
    BY <1>2 DEF SampleWhole, Failed
  <2>2. suited \subseteq DOMAIN Drawn(c) /\ suited \subseteq Nat
    BY DEF PayloadsAreTrees
  <2>3. first \in suited
    <3> HIDE DEF suited
    <3>1. \E i \in suited : \A j \in suited : i <= j
      <4>1. PICK i \in suited : \A j \in suited : ~(j < i)
        BY <2>1, <2>2, LeastNumber
      <4> QED BY <2>2, <4>1
    <3> QED BY <3>1
  <2>4. Tree(Drawn(c)[first])
    BY <2>2, <2>3 DEF PayloadsAreTrees
  <2>5. Tree(Caller(Operation[c], Drawn(c)[first]))
    <3>1. {p \in Members(Operation[c]) : Native[Operation[c]][p].supplied} \in SUBSET Tops
      BY DEF PayloadsAreTrees
    <3> HIDE DEF first
    <3> QED BY <2>4, <3>1, PartIsBelow DEF Caller, Below
  <2>6. Below(fields, sample)
    <3> HIDE DEF first
    <3> QED BY <2>5, PartIsBelow
  <2> HIDE DEF sample
  <2> QED BY <2>1, <2>6 DEF Part
<1> QED BY <1>1, <1>2

LEMMA CaseIsCandidate ==
  ASSUME PayloadsAreTrees, RejectedAreAnchored, NEW c \in Cases, InputAccepted(c),
         NEW fixture, NEW submissions, ResolveCase(c, fixture, submissions).is = "part"
  PROVE  Candidate(ResolveCase(c, fixture, submissions).pairs)
<1> DEFINE sampled == SampledFields(c)
           resolutions == [p \in DOMAIN Sources[c] \ sampled |->
             ResolveSource(Operation[c], fixture, submissions, p, Sources[c][p])]
           fixed == ResolveFields(resolutions)
           whole == IF fixed.is = "part" THEN SampleWhole(c, sampled, fixed.pairs) ELSE fixed
<1>1. whole.is = "part" /\ ResolveCase(c, fixture, submissions) = Validate(c, whole.pairs)
  BY DEF ResolveCase, Failed
<1>2. fixed.is = "part" /\ whole = SampleWhole(c, sampled, fixed.pairs)
  BY <1>1
<1>3. sampled \subseteq DOMAIN Sources[c] /\ DOMAIN Sources[c] \subseteq Tops
  BY SourceFits DEF SampledFields
<1> HIDE DEF sampled
<1>4. Below(DOMAIN resolutions, fixed.pairs)
  <2>1. DOMAIN resolutions \subseteq Tops /\ \A p \in DOMAIN resolutions : Fits(p, resolutions[p])
    BY <1>3, SourceFits
  <2> HIDE DEF resolutions
  <2> QED BY <1>2, <2>1, FieldsFit
<1>5. DOMAIN resolutions \in SUBSET Tops /\ sampled \cap DOMAIN resolutions = {}
  BY <1>3
<1> HIDE DEF fixed
<1>6. Tree(whole.pairs)
  <2> HIDE DEF whole
  <2>1. sampled \in SUBSET Tops /\ SampleWhole(c, sampled, fixed.pairs).is = "part"
    BY <1>1, <1>2, <1>3
  <2>2. \E sample : Below(sampled, sample)
                  /\ SampleWhole(c, sampled, fixed.pairs).pairs = fixed.pairs \cup sample
    BY <2>1, SampledIs
  <2>3. PICK sample : Below(sampled, sample) /\ whole.pairs = fixed.pairs \cup sample
    BY <1>2, <2>2
  <2> QED BY <1>3, <1>4, <1>5, <2>3, BothBelow
<1> HIDE DEF whole
<1> QED BY <1>1, <1>6, ValidatedIs

LEMMA ReplayIsCandidate ==
  ASSUME PayloadsAreTrees, RejectedAreAnchored, NEW c \in Cases, InputAccepted(c),
         NEW recorded, Tree(recorded), NEW fixture, NEW submissions,
         ReplayCandidate(c, recorded, fixture, submissions).is = "part"
  PROVE  Candidate(ReplayCandidate(c, recorded, fixture, submissions).pairs)
<1> DEFINE resolutions == [p \in DOMAIN Sources[c] |-> ReplayField(c, recorded, fixture, submissions, p)]
           fields == ResolveFields(resolutions)
           valid == IF fields.is = "part" THEN Validate(c, fields.pairs) ELSE fields
<1>1. valid.is = "part" /\ ReplayCandidate(c, recorded, fixture, submissions) = valid
  BY DEF ReplayCandidate, Failed
<1>2. fields.is = "part" /\ valid = Validate(c, fields.pairs)
  BY <1>1
<1>3. DOMAIN resolutions \subseteq Tops
  BY SourceFits
<1>4. ASSUME NEW p \in DOMAIN resolutions  PROVE Fits(p, resolutions[p])
  <2>1. CASE IsNative(Sources[c][p])
    <3>1. Below({p}, PartAt(recorded, {p}))
      BY <1>3, PartIsBelow
    <3> QED BY <2>1, <3>1 DEF ReplayField, Fits, Part, Failed
  <2>2. CASE ~IsNative(Sources[c][p])
    BY <2>2, SourceFits DEF ReplayField
  <2> QED BY <2>1, <2>2
<1>5. Tree(fields.pairs)
  <2> HIDE DEF resolutions
  <2> QED BY <1>2, <1>3, <1>4, FieldsFit DEF Below
<1> HIDE DEF fields
<1> QED BY <1>1, <1>2, <1>5, ValidatedIs

-----------------------------------------------------------------------------
(***************************************************************************)
(* What is submitted.                                                      *)
(***************************************************************************)

TreesIn(list) == \A i \in DOMAIN list : Tree(list[i].input)

FormBacked ==
  screen # List => DOMAIN screen = {"kind", "op", "form"} /\ Backed(screen.form)

ChosenFits ==
  pc \in {"execute", "answer"} /\ chosen.kind \in {"fill", "submit"} =>
    Tree(chosen.input) /\ (chosen.kind = "fill" => Covered(chosen.input))

FormsInv ==
  /\ FormBacked /\ ChosenFits
  /\ TreesIn(progress.submissions) /\ TreesIn(recording.candidates) /\ TreesIn(report.recording.candidates)

LEMMA PoolIsCandidates ==
  ASSUME PayloadsAreTrees, RejectedAreAnchored, HarnessInv, FormsInv, pc = "offer",
         NEW c \in DOMAIN Available(Pool)
  PROVE  Candidate(Available(Pool)[c])
<1>1. \A d \in Considered : d \in Cases /\ InputAccepted(d)
  BY DEF HarnessInv, HarnessTypeOK, Admitted, ScenarioAccepted, OfScenario, Considered, Recorded
<1>2. c \in Considered /\ Resolution(c).is = "part" /\ Available(Pool)[c] = Resolution(c).pairs
  <2> DEFINE resolved == [d \in Considered |-> Resolution(d)]
             part == {d \in Considered : resolved[d].is = "part"}
  <2>1. Pool.inputs = [d \in part |-> resolved[d].pairs]
    BY DEF Pool
  <2>2. DOMAIN Available(Pool) \subseteq part /\ Available(Pool)[c] = Pool.inputs[c]
    BY <2>1 DEF Available, Restrict
  <2> QED BY <2>1, <2>2
<1>3. CASE mode = "record"
  BY <1>1, <1>2, <1>3, CaseIsCandidate DEF Resolution
<1>4. CASE mode # "record"
  <2>1. \E r \in Range(recording.candidates) : r.case = c
    BY <1>2, <1>4 DEF Considered, Recorded, Range
  <2>2. \A r \in Range(recording.candidates) : Tree(r.input)
    BY DEF FormsInv, TreesIn, Range
  <2>3. Tree(RecordedInput(c))
    BY <2>1, <2>2 DEF RecordedInput
  <2> QED BY <1>1, <1>2, <1>4, <2>3, ReplayIsCandidate DEF Resolution
<1> QED BY <1>3, <1>4

\* What is offered to be entered or sent is an available candidate.
LEMMA OfferedInput ==
  ASSUME NEW available, NEW action \in Offered(available)
  PROVE  /\ action.kind \in {"fill", "submit"} =>
              action.case \in DOMAIN available /\ action.input = available[action.case]
         /\ action.kind = "fill" => Covered(action.input)
         /\ action.kind = "submit" =>
              screen.kind = "form" /\ Submittable(screen.form, action.input)
<1> DEFINE shown == {c \in DOMAIN available : ActiveForm(c)}
<1>1. \/ action.kind \in {"open", "observe", "reload", "cannot-proceed"}
      \/ \E c \in {d \in shown : Fillable(screen.form, available[d])} : action = Filling(c, available[c])
      \/ \E c \in {d \in shown : Submittable(screen.form, available[d])} : action = Submitting(c, available[c])
  BY DEF Offered, Open, Observe, Reload, CannotProceed
<1>2. CASE action.kind \in {"open", "observe", "reload", "cannot-proceed"}
  BY <1>2
<1>3. CASE \E c \in {d \in shown : Fillable(screen.form, available[d])} : action = Filling(c, available[c])
  BY <1>3 DEF Filling, Fillable
<1>4. CASE \E c \in {d \in shown : Submittable(screen.form, available[d])} : action = Submitting(c, available[c])
  BY <1>4 DEF Submitting, ActiveForm
<1> QED BY <1>1, <1>2, <1>3, <1>4

LEMMA FormsShow ==
  ASSUME PayloadsAreTrees, RejectedAreAnchored, HarnessInv, FormsInv
  PROVE  SubmittedIsCandidate
<1> SUFFICES ASSUME pc = "offer", NEW available \in {Available(Pool)}, NEW c \in DOMAIN available,
                    Submitting(c, available[c]) \in Offered(available)
             PROVE  Sent(screen.form) = {available[c]}
  BY DEF SubmittedIsCandidate
<1>1. Candidate(available[c])
  BY PoolIsCandidates
<1>2. screen.kind = "form" /\ Submittable(screen.form, available[c])
  BY OfferedInput DEF Submitting
<1>3. Backed(screen.form)
  BY <1>2 DEF FormsInv, FormBacked, List
<1> QED BY <1>1, <1>2, <1>3, SendsWhatMatches DEF Candidate

\* A step that chooses, enters, submits and records nothing.
LEMMA FormsMove ==
  ASSUME FormsInv, SameSubmissions, UNCHANGED <<recording, report>>, screen' \in {screen, List},
         pc' \in {"execute", "answer"} => pc \in {"execute", "answer"} /\ chosen' = chosen
  PROVE  FormsInv'
BY DEF FormsInv, FormBacked, ChosenFits, SameSubmissions, TreesIn

LEMMA ChoiceFits ==
  ASSUME PayloadsAreTrees, RejectedAreAnchored, HarnessInv, FormsInv,
         RecordedChoice \/ \E confident \in BOOLEAN : Choose(confident)
  PROVE  FormsInv'
<1>1. /\ pc = "offer" /\ SameSubmissions /\ UNCHANGED <<screen, recording, report>>
      /\ pc' = "execute" => chosen' \in Offered(Available(Pool))
      /\ pc' \in {"execute", "closing"}
  BY DEF RecordedChoice, Choose, SameSubmissions, HarnessInv, HarnessTypeOK, Run, Interrupt
<1>2. ASSUME pc' = "execute", chosen'.kind \in {"fill", "submit"}
      PROVE  Tree(chosen'.input) /\ (chosen'.kind = "fill" => Covered(chosen'.input))
  <2> DEFINE action == chosen'
  <2>1. action \in Offered(Available(Pool)) /\ action.kind \in {"fill", "submit"}
    BY <1>1, <1>2
  <2> HIDE DEF action
  <2>2. /\ action.case \in DOMAIN Available(Pool) /\ action.input = Available(Pool)[action.case]
        /\ action.kind = "fill" => Covered(action.input)
    BY <2>1, OfferedInput
  <2>3. Candidate(action.input)
    BY <1>1, <2>2, PoolIsCandidates
  <2> QED BY <2>2, <2>3 DEF Candidate, action
<1> QED BY <1>1, <1>2 DEF FormsInv, FormBacked, ChosenFits, SameSubmissions, TreesIn

LEMMA ExecuteFits ==
  ASSUME HarnessInv, FormsInv, Execute
  PROVE  FormsInv'
<1>1. /\ pc = "execute" /\ SameSubmissions /\ UNCHANGED <<chosen, recording, report>>
      /\ pc' = IF chosen.kind = "submit" THEN "answer" ELSE "observe"
  BY DEF Execute, SameSubmissions, HarnessInv, HarnessTypeOK, Run
<1>2. Backed(EmptyForm)
  BY DEF Backed, EmptyForm
<1>3. FormBacked'
  <2>1. CASE chosen.kind = "open"
    <3>1. screen' = FormOf(chosen.op, EmptyForm)
      BY <2>1 DEF Execute
    <3> QED BY <1>2, <3>1 DEF FormBacked, FormOf
  <2>2. CASE chosen.kind = "fill"
    <3>1. screen' = [screen EXCEPT !.form = Fill(screen.form, chosen.input)]
      BY <2>2 DEF Execute
    <3>2. Tree(chosen.input) /\ Covered(chosen.input)
      BY <1>1, <2>2 DEF FormsInv, ChosenFits
    <3>3. CASE screen = List
      <4>1. screen' = List
        BY <3>1, <3>3 DEF List
      <4> QED BY <4>1 DEF FormBacked
    <3>4. CASE screen # List
      <4>1. DOMAIN screen = {"kind", "op", "form"} /\ Backed(screen.form)
        BY <3>4 DEF FormsInv, FormBacked
      <4>2. Backed(Fill(screen.form, chosen.input))
        BY <3>2, <4>1, FilledIsBacked
      <4>3. DOMAIN screen' = {"kind", "op", "form"} /\ screen'.form = Fill(screen.form, chosen.input)
        BY <3>1, <4>1
      <4> QED BY <4>2, <4>3 DEF FormBacked
    <3> QED BY <3>3, <3>4
  <2>3. CASE chosen.kind \notin {"open", "fill"}
    <3>1. screen' \in {screen, List}
      BY <2>3 DEF Execute
    <3> QED BY <3>1 DEF FormsInv, FormBacked
  <2> QED BY <2>1, <2>2, <2>3
<1>4. ChosenFits'
  BY <1>1 DEF FormsInv, ChosenFits
<1> QED BY <1>1, <1>3, <1>4 DEF FormsInv, SameSubmissions, TreesIn

LEMMA AnswerFits ==
  ASSUME HarnessInv, FormsInv, NEW accepted \in BOOLEAN, Answer(accepted)
  PROVE  FormsInv'
<1> DEFINE list == progress.submissions
           s == [case |-> chosen.case, input |-> chosen.input, accepted |-> accepted,
                 result |-> Returned(ThisFixture, chosen.case)]
<1>1. /\ pc = "answer" /\ pc' \in {"probe", "observe"} /\ UNCHANGED <<recording, report>>
      /\ screen' \in {screen, List} /\ progress'.submissions = Append(list, s)
  BY DEF Answer, Call, Run, HarnessInv, HarnessTypeOK
<1>2. chosen.kind = "submit" /\ IsList(list)
  BY <1>1 DEF HarnessInv, HarnessTypeOK, CallsCounted
<1>3. Tree(chosen.input)
  BY <1>1, <1>2 DEF FormsInv, ChosenFits
<1>4. /\ DOMAIN list = 1..Len(list) /\ DOMAIN Append(list, s) = 1..(Len(list) + 1)
      /\ \A i \in 1..Len(list) : Append(list, s)[i] = list[i]
      /\ Append(list, s)[Len(list) + 1] = s
  <2> DEFINE S == {list[i] : i \in 1..Len(list)} \cup {s}
  <2>1. list \in Seq(S) /\ s \in S
    BY <1>2 DEF IsList
  <2> HIDE DEF S, list, s
  <2> QED BY <2>1, AppendedIs
<1>5. TreesIn(progress'.submissions)
  <2>1. ASSUME NEW i \in 1..(Len(list) + 1)  PROVE Tree(Append(list, s)[i].input)
    <3>1. CASE i = Len(list) + 1
      BY <1>3, <1>4, <3>1
    <3>2. CASE i # Len(list) + 1
      <4>1. i \in 1..Len(list)
        BY <1>2, <3>2 DEF IsList
      <4> QED BY <1>4, <4>1 DEF FormsInv, TreesIn
    <3> QED BY <3>1, <3>2
  <2> QED BY <1>1, <1>4, <2>1 DEF TreesIn
<1> QED BY <1>1, <1>5 DEF FormsInv, FormBacked, ChosenFits, TreesIn

LEMMA FormsStep ==
  ASSUME PayloadsAreTrees, RejectedAreAnchored, HarnessInv, FormsInv, [HarnessNext]_harnessVars
  PROVE  FormsInv'
<1>1. CASE RecordedChoice \/ \E confident \in BOOLEAN : Choose(confident)
  BY <1>1, ChoiceFits
<1>2. CASE Execute
  BY <1>2, ExecuteFits
<1>3. CASE \E accepted \in BOOLEAN : Answer(accepted)
  BY <1>3, AnswerFits
<1>4. CASE \/ ValidateCatalog \/ PrepareDirectory \/ SpawnServer \/ Neighbour \/ Listen \/ Exit \/ Ready
           \/ NotReady \/ Exhausted \/ ResolveFails \/ ModelFails \/ ExecuteFails \/ Probe \/ ProbeFails
           \/ Rebuild \/ UNCHANGED harnessVars
           \/ \E ok \in BOOLEAN : Prerequisites(ok) \/ Enforce(ok)
           \/ \E passing \in SUBSET scenario.requirements : Evaluate(passing)
  <2>1. /\ UNCHANGED <<progress, recording, report, screen, chosen>>
        /\ pc' \in {"execute", "answer"} => pc' = pc
    BY <1>4
    DEF ValidateCatalog, PrepareDirectory, SpawnServer, Neighbour, Listen, Exit, Ready, NotReady, Exhausted,
        ResolveFails, ModelFails, ExecuteFails, Probe, ProbeFails, Rebuild, harnessVars, Prerequisites, Enforce,
        Evaluate, Blocked, Interrupt, Run, Played
  <2> QED BY <2>1, FormsMove DEF SameSubmissions
<1>5. CASE View \/ Deadline \/ AnswerLost
  <2>1. SameSubmissions
    BY <1>5 DEF View, Deadline, AnswerLost, Navigated, SameSubmissions, HarnessInv, HarnessTypeOK
  <2>2. UNCHANGED <<recording, report>> /\ screen' \in {screen, List} /\ pc' \in {"closing", "offer"}
    BY <1>5 DEF View, Deadline, AnswerLost, Call, Interrupt, Run
  <2> QED BY <2>1, <2>2, FormsMove
<1>6. CASE Release \/ \E ok \in BOOLEAN : Close(ok)
  <2>1. /\ UNCHANGED <<progress, recording, report>> /\ screen' \in {screen, List}
        /\ pc' \in {"report", "enforce", "evaluate"}
    BY <1>6 DEF Release, Close, Run
  <2> QED BY <2>1, FormsMove DEF SameSubmissions
<1>7. CASE \E sealed \in BOOLEAN : Report(sealed)
  <2>1. /\ UNCHANGED <<progress, recording, screen>> /\ pc' = "done"
        /\ report'.recording.candidates = [i \in DOMAIN progress.submissions |->
              [case |-> progress.submissions[i].case, input |-> progress.submissions[i].input]]
    BY <1>7 DEF Report, Played, HarnessInv, HarnessTypeOK
  <2> QED BY <2>1 DEF FormsInv, FormBacked, ChosenFits, TreesIn
<1>8. CASE Replay
  <2>1. /\ recording' = report.recording /\ pc' = "prepare" /\ UNCHANGED screen
        /\ progress'.submissions = <<>> /\ report'.recording.candidates = <<>>
    BY <1>8 DEF Replay, NoProgress, NoReport, NoRecording
  <2> QED BY <2>1 DEF FormsInv, FormBacked, ChosenFits, TreesIn
<1> QED BY <1>1, <1>2, <1>3, <1>4, <1>5, <1>6, <1>7, <1>8 DEF HarnessNext

\* What the generated form sends when a submission is offered is the candidate
\* (browser.ts, formActions; client.ts, generatedForm), for any form, sources,
\* scenarios and codecs, provided that payloads are trees, that what a codec
\* returns conforms to the schema of the form, and that no rejected candidate can
\* leave out an object which the form always sends.
THEOREM FormsSendCandidates ==
  ASSUME PayloadsAreTrees, RejectedAreAnchored
  PROVE  HarnessSpec => []SubmittedIsCandidate
<1>1. HarnessInit => FormsInv
  BY DEF HarnessInit, FormsInv, FormBacked, ChosenFits, TreesIn, NoProgress, NoReport, NoRecording
<1>2. HarnessInv /\ FormsInv /\ [HarnessNext]_harnessVars => FormsInv'
  BY FormsStep
<1>3. HarnessInv /\ FormsInv => SubmittedIsCandidate
  BY FormsShow
<1> QED BY <1>1, <1>2, <1>3, HarnessInvariance, PTL DEF HarnessSpec

-----------------------------------------------------------------------------
(***************************************************************************)
(* What two resolutions of a case have in common.                          *)
(***************************************************************************)

\* What a codec makes of a member does not depend on the others, and what it has
\* made of one it leaves as it is.
CodecsKeepMembers ==
  \A c \in Cases : \A p \in Members(Operation[c]) : \A x, y :
    Tree(x) /\ Tree(y) =>
      \A d \in Codec(Operation[c], x), e \in Codec(Operation[c], y) :
        PartAt(y, {p}) \in {PartAt(x, {p}), PartAt(d, {p})} => PartAt(e, {p}) = PartAt(d, {p})

\* Members whose value the declaration of a case gives.
Stated(c) == Declared(c) \ SampledFields(c)
StatedPart(c, p) == ResolveSource(Operation[c], 1, <<>>, p, Sources[c][p]).pairs

\* A candidate of a case.
Entered(c, e) ==
  \E x : /\ Tree(x) /\ \A p \in Stated(c) : PartAt(x, {p}) = StatedPart(c, p)
         /\ IF Validity[c] = "native-invalid" THEN e = x ELSE e \in Codec(Operation[c], x)

\* Payloads agree on members if they agree on each, and then on each of them.
MemberPart(payload, p) == PartAt(payload, {p})

LEMMA PartsAgree ==
  ASSUME NEW x, NEW y, NEW members
  PROVE  (\A p \in members : MemberPart(x, p) = MemberPart(y, p)) <=>
         PartAt(x, members) = PartAt(y, members)
<1>1. \A payload, M, pair :
        pair \in PartAt(payload, M) <=> pair \in payload /\ \E q \in M : q \in Chain(pair[1])
  BY DEF PartAt
<1>2. \A payload, p, pair : pair \in MemberPart(payload, p) <=> pair \in payload /\ p \in Chain(pair[1])
  BY <1>1 DEF MemberPart
<1>3. ASSUME \A p \in members : MemberPart(x, p) = MemberPart(y, p)
      PROVE  PartAt(x, members) = PartAt(y, members)
  <2>1. ASSUME NEW p \in members, NEW pair, p \in Chain(pair[1])  PROVE pair \in x <=> pair \in y
    BY <1>2, <1>3, <2>1
  <2>2. \A pair : pair \in PartAt(x, members) <=> pair \in PartAt(y, members)
    BY <1>1, <2>1
  <2>3. PartAt(x, members) \subseteq x /\ PartAt(y, members) \subseteq y
    BY <1>1
  <2> QED BY <2>2
<1>4. ASSUME PartAt(x, members) = PartAt(y, members), NEW p \in members
      PROVE  MemberPart(x, p) = MemberPart(y, p)
  <2>1. \A pair : p \in Chain(pair[1]) => (pair \in x <=> pair \in y)
    BY <1>1, <1>4
  <2>2. \A pair : pair \in MemberPart(x, p) <=> pair \in MemberPart(y, p)
    BY <1>2, <2>1
  <2>3. MemberPart(x, p) \subseteq x /\ MemberPart(y, p) \subseteq y
    BY <1>2
  <2> QED BY <2>2
<1> QED BY <1>3, <1>4

\* The part of a member among the parts of all.
LEMMA FieldKept ==
  ASSUME NEW resolutions, DOMAIN resolutions \subseteq Tops,
         \A p \in DOMAIN resolutions : Fits(p, resolutions[p]),
         ResolveFields(resolutions).is = "part",
         NEW p \in DOMAIN resolutions, resolutions[p].is # "waiting"
  PROVE  /\ resolutions[p].is # "failed"
         /\ resolutions[p].is = "part" => PartAt(ResolveFields(resolutions).pairs, {p}) = resolutions[p].pairs
<1> DEFINE of(is) == {r \in Range(resolutions) : r.is = is}
<1>1. of("failed") = {}
  <2>1. \A r \in of("failed") : r.is # "part"
    OBVIOUS
  <2> QED BY <2>1 DEF ResolveFields
<1>2. ResolveFields(resolutions).pairs = UNION {r.pairs : r \in of("part")}
  BY <1>1 DEF ResolveFields, Waiting, Part
<1>3. \A r : r \in Range(resolutions) <=> \E q \in DOMAIN resolutions : r = resolutions[q]
  BY DEF Range
<1>4. resolutions[p].is # "failed"
  BY <1>1, <1>3
<1>5. ASSUME resolutions[p].is = "part"
      PROVE  PartAt(ResolveFields(resolutions).pairs, {p}) = resolutions[p].pairs
  <2> DEFINE joined == ResolveFields(resolutions).pairs
  <2>1. \A pair : pair \in joined <=>
          \E q \in DOMAIN resolutions : resolutions[q].is = "part" /\ pair \in resolutions[q].pairs
    BY <1>2, <1>3
  <2>2. ASSUME NEW q \in DOMAIN resolutions, resolutions[q].is = "part", NEW pair \in resolutions[q].pairs
        PROVE  q \in Chain(pair[1]) /\ pair[1] \in Fields
    <3>1. Below({q}, resolutions[q].pairs)
      BY <2>2 DEF Fits
    <3> QED BY <2>2, <3>1, UnderIs
  <2> HIDE DEF joined
  <2>3. \A pair : pair \in PartAt(joined, {p}) <=> pair \in joined /\ p \in Chain(pair[1])
    BY DEF PartAt
  <2>4. ASSUME NEW pair \in PartAt(joined, {p})  PROVE pair \in resolutions[p].pairs
    <3>1. PICK q \in DOMAIN resolutions : resolutions[q].is = "part" /\ pair \in resolutions[q].pairs
      BY <2>1, <2>3, <2>4
    <3>2. q \in Chain(pair[1]) /\ pair[1] \in Fields /\ p \in Chain(pair[1])
      BY <2>2, <2>3, <2>4, <3>1
    <3>3. p = q
      BY <3>2, OneTop
    <3> QED BY <3>1, <3>3
  <2>5. \A pair \in resolutions[p].pairs : pair \in PartAt(joined, {p})
    BY <1>5, <2>1, <2>2, <2>3
  <2>6. PartAt(joined, {p}) = resolutions[p].pairs
    BY <2>4, <2>5
  <2> QED BY <2>6 DEF joined
<1> QED BY <1>4, <1>5

\* A stated member is the same in every fixture and after every submission.
LEMMA StatedIs ==
  ASSUME NEW c \in Cases, NEW p \in Declared(c), NEW fixture, NEW submissions
  PROVE  LET r == ResolveSource(Operation[c], fixture, submissions, p, Sources[c][p])
         IN r.is \in {"part", "failed"} /\ (r.is = "part" => r.pairs = StatedPart(c, p))
<1> DEFINE source == Sources[c][p]
<1>1. source.source \in {"native", "literal"}
  BY DEF Declared, IsNative, LiteralFields
<1>2. CASE source.source = "native"
  <2>1. \A f, s : ResolveSource(Operation[c], f, s, p, source) = NativeField(Operation[c], p, source.strategy)
    BY <1>2 DEF ResolveSource
  <2>2. NativeField(Operation[c], p, source.strategy).is \in {"part", "failed"}
    BY DEF NativeField, Part, Failed
  <2> QED BY <2>1, <2>2 DEF StatedPart
<1>3. CASE source.source = "literal"
  <2>1. \A f, s : ResolveSource(Operation[c], f, s, p, source) = Part(source.part)
    BY <1>3 DEF ResolveSource
  <2> QED BY <2>1 DEF StatedPart, Part
<1> QED BY <1>1, <1>2, <1>3

LEMMA ValidatedAs ==
  ASSUME NEW c \in Cases, NEW payload, Validate(c, payload).is = "part"
  PROVE  IF Validity[c] = "native-invalid" THEN Validate(c, payload).pairs = payload
         ELSE Validate(c, payload).pairs \in Codec(Operation[c], payload)
<1> DEFINE encoded == Codec(Operation[c], payload)
<1>1. (encoded = {}) <=> Validity[c] = "native-invalid"
  BY DEF Validate, Failed
<1>2. CASE encoded = {}
  BY <1>1, <1>2 DEF Validate, Part
<1>3. CASE encoded # {}
  <2>1. Validate(c, payload) = Part(CHOOSE e \in encoded : TRUE)
    BY <1>1, <1>3 DEF Validate
  <2>2. (CHOOSE e \in encoded : TRUE) \in encoded
    BY <1>3
  <2> QED BY <1>1, <1>3, <2>1, <2>2 DEF Part
<1> QED BY <1>2, <1>3

\* What is sampled is not under another member.
LEMMA SampleApart ==
  ASSUME NEW members \in SUBSET Tops, NEW sample, Below(members, sample), NEW p \in Tops \ members,
         NEW fixed
  PROVE  PartAt(fixed \cup sample, {p}) = PartAt(fixed, {p})
<1>1. ASSUME NEW pair \in sample  PROVE p \notin Chain(pair[1])
  <2>1. PICK q \in members : q \in Chain(pair[1])
    BY <1>1 DEF Below
  <2>2. pair[1] \in Fields
    BY <1>1 DEF Below, Tree
  <2> QED BY <2>1, <2>2, OneTop
<1>2. \A payload, pair : pair \in PartAt(payload, {p}) <=> pair \in payload /\ p \in Chain(pair[1])
  BY DEF PartAt
<1>3. \A pair : pair \in PartAt(fixed \cup sample, {p}) <=> pair \in PartAt(fixed, {p})
  BY <1>1, <1>2
<1> QED BY <1>3

LEMMA CaseEntered ==
  ASSUME PayloadsAreTrees, NEW c \in Cases, InputAccepted(c),
         NEW fixture, NEW submissions, ResolveCase(c, fixture, submissions).is = "part"
  PROVE  Entered(c, ResolveCase(c, fixture, submissions).pairs)
<1> DEFINE sampled == SampledFields(c)
           resolutions == [p \in DOMAIN Sources[c] \ sampled |->
             ResolveSource(Operation[c], fixture, submissions, p, Sources[c][p])]
           fixed == ResolveFields(resolutions)
           whole == IF fixed.is = "part" THEN SampleWhole(c, sampled, fixed.pairs) ELSE fixed
           e == ResolveCase(c, fixture, submissions)
<1>1. whole.is = "part" /\ e = Validate(c, whole.pairs)
  BY DEF ResolveCase, Failed
<1>2. fixed.is = "part" /\ whole = SampleWhole(c, sampled, fixed.pairs)
  BY <1>1
<1>3. sampled \subseteq DOMAIN Sources[c] /\ DOMAIN Sources[c] \subseteq Tops
  BY SourceFits DEF SampledFields
<1>4. Stated(c) \subseteq DOMAIN resolutions
  BY DEF Stated, Declared, LiteralFields
<1> HIDE DEF sampled
<1>5. DOMAIN resolutions \subseteq Tops /\ \A p \in DOMAIN resolutions : Fits(p, resolutions[p])
  BY <1>3, SourceFits
<1>6. Below(DOMAIN resolutions, fixed.pairs)
  <2> HIDE DEF resolutions
  <2> QED BY <1>2, <1>5, FieldsFit
<1>7. ASSUME NEW p \in Stated(c)  PROVE PartAt(fixed.pairs, {p}) = StatedPart(c, p)
  <2>1. resolutions[p] = ResolveSource(Operation[c], fixture, submissions, p, Sources[c][p])
    BY <1>4
  <2>2. p \in Declared(c) /\ p \in DOMAIN resolutions
    BY <1>4 DEF Stated
  <2> HIDE DEF resolutions
  <2>3. /\ resolutions[p].is \in {"part", "failed"}
        /\ resolutions[p].is = "part" => resolutions[p].pairs = StatedPart(c, p)
    BY <2>1, <2>2, StatedIs
  <2> QED BY <1>2, <1>5, <2>2, <2>3, FieldKept
<1>8. DOMAIN resolutions \in SUBSET Tops /\ sampled \in SUBSET Tops /\ sampled \cap DOMAIN resolutions = {}
  BY <1>3
<1>9. Stated(c) \subseteq Tops \ sampled
  BY <1>3, <1>4
<1> HIDE DEF fixed, whole, resolutions
<1>10. \E sample : Below(sampled, sample) /\ SampleWhole(c, sampled, fixed.pairs).pairs = fixed.pairs \cup sample
  <2>1. SampleWhole(c, sampled, fixed.pairs).is = "part"
    BY <1>1, <1>2
  <2> QED BY <1>8, <2>1, SampledIs
<1>11. PICK sample : Below(sampled, sample) /\ whole.pairs = fixed.pairs \cup sample
  BY <1>2, <1>10
<1>12. Tree(whole.pairs)
  BY <1>6, <1>8, <1>11, BothBelow
<1>13. \A p \in Stated(c) : PartAt(whole.pairs, {p}) = StatedPart(c, p)
  <2> TAKE p \in Stated(c)
  <2>1. PartAt(fixed.pairs \cup sample, {p}) = PartAt(fixed.pairs, {p})
    BY <1>8, <1>9, <1>11, SampleApart
  <2> QED BY <1>7, <1>11, <2>1
<1>14. IF Validity[c] = "native-invalid" THEN e.pairs = whole.pairs ELSE e.pairs \in Codec(Operation[c], whole.pairs)
  BY <1>1, ValidatedAs
<1> QED BY <1>12, <1>13, <1>14 DEF Entered

LEMMA EnteredAgree ==
  ASSUME PayloadsAreTrees, CodecsKeepMembers, NEW c \in Cases, InputAccepted(c),
         NEW d, Entered(c, d), NEW e, Entered(c, e)
  PROVE  PartAt(d, Stated(c)) = PartAt(e, Stated(c))
<1>1. PICK x : /\ Tree(x) /\ \A p \in Stated(c) : PartAt(x, {p}) = StatedPart(c, p)
               /\ IF Validity[c] = "native-invalid" THEN d = x ELSE d \in Codec(Operation[c], x)
  BY DEF Entered
<1>2. PICK y : /\ Tree(y) /\ \A p \in Stated(c) : PartAt(y, {p}) = StatedPart(c, p)
               /\ IF Validity[c] = "native-invalid" THEN e = y ELSE e \in Codec(Operation[c], y)
  BY DEF Entered
<1>3. ASSUME NEW p \in Stated(c)  PROVE PartAt(d, {p}) = PartAt(e, {p})
  <2>1. PartAt(x, {p}) = PartAt(y, {p}) /\ p \in Members(Operation[c])
    BY <1>1, <1>2 DEF Stated, Declared, LiteralFields, InputAccepted
  <2>2. CASE Validity[c] = "native-invalid"
    BY <1>1, <1>2, <2>1, <2>2
  <2>3. CASE Validity[c] # "native-invalid"
    BY <1>1, <1>2, <2>1, <2>3 DEF CodecsKeepMembers
  <2> QED BY <2>2, <2>3
<1> QED
  <2> DEFINE M == Stated(c)
  <2>1. \A p \in M : MemberPart(d, p) = MemberPart(e, p)
    BY <1>3 DEF MemberPart
  <2> HIDE DEF M
  <2>2. PartAt(d, M) = PartAt(e, M)
    BY <2>1, PartsAgree
  <2> QED BY <2>2 DEF M

LEMMA EnteredIsTree ==
  ASSUME PayloadsAreTrees, NEW c \in Cases, NEW e, Entered(c, e)
  PROVE  Tree(e)
BY DEF Entered, PayloadsAreTrees

\* A replayed candidate has every declared member of the recorded one.
LEMMA ReplayAgrees ==
  ASSUME PayloadsAreTrees, CodecsKeepMembers, NEW c \in Cases, InputAccepted(c),
         NEW recorded, Entered(c, recorded), NEW fixture, NEW submissions,
         ReplayCandidate(c, recorded, fixture, submissions).is = "part"
  PROVE  PartAt(ReplayCandidate(c, recorded, fixture, submissions).pairs, Declared(c)) =
         PartAt(recorded, Declared(c))
<1> DEFINE resolutions == [p \in DOMAIN Sources[c] |-> ReplayField(c, recorded, fixture, submissions, p)]
           fields == ResolveFields(resolutions)
           valid == IF fields.is = "part" THEN Validate(c, fields.pairs) ELSE fields
           e == ReplayCandidate(c, recorded, fixture, submissions)
<1>1. /\ valid.is = "part" /\ e = valid
      /\ PartAt(e.pairs, LiteralFields(c)) = PartAt(recorded, LiteralFields(c))
  BY DEF ReplayCandidate, Failed
<1>2. fields.is = "part" /\ valid = Validate(c, fields.pairs)
  BY <1>1
<1>3. DOMAIN resolutions \subseteq Tops
  BY SourceFits
<1>4. Tree(recorded)
  BY EnteredIsTree
<1>5. \A p \in DOMAIN resolutions : Fits(p, resolutions[p])
  <2> TAKE p \in DOMAIN resolutions
  <2>1. CASE IsNative(Sources[c][p])
    <3>1. Below({p}, PartAt(recorded, {p}))
      BY <1>3, <1>4, PartIsBelow
    <3> QED BY <2>1, <3>1 DEF ReplayField, Fits, Part, Failed
  <2>2. CASE ~IsNative(Sources[c][p])
    BY <2>2, SourceFits DEF ReplayField
  <2> QED BY <2>1, <2>2
<1>6. \A p \in Declared(c) \ LiteralFields(c) :
        /\ p \in DOMAIN resolutions /\ p \in Members(Operation[c])
        /\ resolutions[p] \in {Failed("replay"), Part(PartAt(recorded, {p}))}
  BY DEF Declared, ReplayField, InputAccepted
<1> HIDE DEF resolutions
<1>7. Tree(fields.pairs)
  BY <1>2, <1>3, <1>5, FieldsFit DEF Below
<1>8. IF Validity[c] = "native-invalid" THEN e.pairs = fields.pairs ELSE e.pairs \in Codec(Operation[c], fields.pairs)
  BY <1>1, <1>2, ValidatedAs
<1>9. PICK x : /\ Tree(x)
               /\ IF Validity[c] = "native-invalid" THEN recorded = x ELSE recorded \in Codec(Operation[c], x)
  BY DEF Entered
<1>10. ASSUME NEW p \in Declared(c)  PROVE PartAt(e.pairs, {p}) = PartAt(recorded, {p})
  <2>1. CASE p \in LiteralFields(c)
    <3>1. MemberPart(e.pairs, p) = MemberPart(recorded, p)
      BY <1>1, <2>1, PartsAgree
    <3> QED BY <3>1 DEF MemberPart
  <2>2. CASE p \notin LiteralFields(c)
    <3>1. resolutions[p].is # "failed" /\ resolutions[p] = Part(PartAt(recorded, {p}))
      BY <1>2, <1>3, <1>5, <1>6, <2>2, FieldKept DEF Part, Failed
    <3>2. PartAt(fields.pairs, {p}) = PartAt(recorded, {p})
      BY <1>2, <1>3, <1>5, <1>6, <2>2, <3>1, FieldKept DEF Part
    <3>3. p \in Members(Operation[c])
      BY <1>6, <2>2
    <3> HIDE DEF fields, e
    <3>4. CASE Validity[c] = "native-invalid"
      BY <1>8, <3>2, <3>4
    <3>5. CASE Validity[c] # "native-invalid"
      BY <1>7, <1>8, <1>9, <3>2, <3>3, <3>5 DEF CodecsKeepMembers
    <3> QED BY <3>4, <3>5
  <2> QED BY <2>1, <2>2
<1> HIDE DEF e
<1>11. PartAt(e.pairs, Declared(c)) = PartAt(recorded, Declared(c))
  <2> DEFINE M == Declared(c)
  <2>1. \A p \in M : MemberPart(e.pairs, p) = MemberPart(recorded, p)
    BY <1>10 DEF MemberPart
  <2> HIDE DEF M
  <2>2. PartAt(e.pairs, M) = PartAt(recorded, M)
    BY <2>1, PartsAgree
  <2> QED BY <2>2 DEF M
<1> QED BY <1>11 DEF e

-----------------------------------------------------------------------------
(***************************************************************************)
(* What a trace tells.                                                     *)
(***************************************************************************)

IsAction(a) ==
  \/ \E op : a = Open(op)
  \/ a \in {Observe, Reload, CannotProceed}
  \/ \E c, input : a \in {Filling(c, input), Submitting(c, input)}

IsTrace(T) ==
  /\ IsList(T)
  /\ \A i \in 1..Len(T) : T[i] = Entry(T[i].action, T[i].executed) /\ IsAction(T[i].action)

\* Cases submitted by the first k steps of a trace, whether these reload, and
\* whether a scenario is complete after them.
SubmittedBy(T, k) ==
  {T[i].action.case : i \in {j \in 1..k : T[j].executed /\ T[j].action.kind = "submit"}}
ReloadedBy(T, k) == \E i \in 1..k : T[i].executed /\ T[i].action.kind = "reload"
CompleteAt(s, T, k) == s.required \subseteq SubmittedBy(T, k) /\ (s.reload => ReloadedBy(T, k))
Demanding(s) == s.required # {} \/ s.reload

\* It goes on only while the scenario is not complete.
Ends(s, T) ==
  /\ \A i \in 1..Len(T) : i < Len(T) => T[i].executed
  /\ Demanding(s) => \A k \in 0..(Len(T) - 1) : ~CompleteAt(s, T, k)

Alike(e, f) ==
  /\ (e.executed <=> f.executed) /\ e.action.kind = f.action.kind
  /\ e.action.kind = "submit" => e.action.case = f.action.case

LEMMA AlikeComplete ==
  ASSUME NEW T, NEW U, NEW k, \A i \in 1..k : Alike(T[i], U[i])
  PROVE  /\ SubmittedBy(T, k) = SubmittedBy(U, k)
         /\ ReloadedBy(T, k) <=> ReloadedBy(U, k)
         /\ \A s : CompleteAt(s, T, k) <=> CompleteAt(s, U, k)
<1>1. ReloadedBy(T, k) <=> ReloadedBy(U, k)
  BY DEF Alike, ReloadedBy
<1>2. SubmittedBy(T, k) = SubmittedBy(U, k)
  BY DEF Alike, SubmittedBy
<1> QED BY <1>1, <1>2 DEF CompleteAt

LEMMA OneMoreStep ==
  ASSUME NEW T, NEW k \in Nat
  PROVE  /\ SubmittedBy(T, k + 1) =
              SubmittedBy(T, k) \cup
              (IF T[k + 1].executed /\ T[k + 1].action.kind = "submit" THEN {T[k + 1].action.case} ELSE {})
         /\ ReloadedBy(T, k + 1) <=>
              ReloadedBy(T, k) \/ (T[k + 1].executed /\ T[k + 1].action.kind = "reload")
<1>1. 1..(k + 1) = (1..k) \cup {k + 1}
  OBVIOUS
<1> QED BY <1>1 DEF SubmittedBy, ReloadedBy

LEMMA TraceAppended ==
  ASSUME NEW T, IsTrace(T), NEW e, e = Entry(e.action, e.executed), IsAction(e.action)
  PROVE  LET U == Append(T, e)
         IN /\ IsTrace(U) /\ Len(U) = Len(T) + 1 /\ U[Len(U)] = e
            /\ \A i \in 1..Len(T) : U[i] = T[i]
<1> DEFINE U == Append(T, e)
           S == {T[i] : i \in 1..Len(T)} \cup {e}
<1>1. T \in Seq(S) /\ e \in S
  BY DEF IsTrace, IsList
<1> HIDE DEF S
<1>2. /\ IsList(U) /\ Len(U) = Len(T) + 1 /\ \A i \in 1..Len(T) : U[i] = T[i]
      /\ U[Len(T) + 1] = e
  BY <1>1, AppendedIs
<1> HIDE DEF U
<1>3. Len(T) \in Nat
  BY DEF IsTrace, IsList
<1>4. ASSUME NEW i \in 1..Len(U)  PROVE U[i] = Entry(U[i].action, U[i].executed) /\ IsAction(U[i].action)
  <2>1. CASE i = Len(U)
    BY <1>2, <2>1
  <2>2. CASE i # Len(U)
    <3>1. i \in 1..Len(T)
      BY <1>2, <1>3, <2>2
    <3> QED BY <1>2, <3>1 DEF IsTrace
  <2> QED BY <2>1, <2>2
<1> QED BY <1>2, <1>4 DEF IsTrace, U

LEMMA TraceReplaced ==
  ASSUME NEW T, IsTrace(T), Len(T) > 0, NEW e, e = Entry(e.action, e.executed), IsAction(e.action)
  PROVE  LET U == [T EXCEPT ![Len(T)] = e]
         IN /\ IsTrace(U) /\ Len(U) = Len(T) /\ U[Len(T)] = e
            /\ \A i \in 1..Len(T) : i < Len(T) => U[i] = T[i]
<1> DEFINE n == Len(T)
           U == [T EXCEPT ![n] = e]
           S == {T[i] : i \in 1..n} \cup {e}
<1>1. T \in Seq(S) /\ e \in S /\ n \in 1..Len(T)
  BY DEF IsTrace, IsList
<1> HIDE DEF S
<1>2. U \in Seq(S) /\ Len(U) = Len(T) /\ \A j \in 1..Len(T) : U[j] = IF j = n THEN e ELSE T[j]
  BY <1>1, ExceptSeq
<1>3. IsList(U)
  <2> HIDE DEF U
  <2> QED BY <1>2 DEF IsList
<1> HIDE DEF U
<1>4. ASSUME NEW i \in 1..Len(U)  PROVE U[i] = Entry(U[i].action, U[i].executed) /\ IsAction(U[i].action)
  BY <1>2 DEF IsTrace
<1>5. IsTrace(U)
  BY <1>3, <1>4 DEF IsTrace
<1>6. U[n] = e /\ \A i \in 1..n : i < n => U[i] = T[i]
  BY <1>1, <1>2
<1> QED BY <1>2, <1>5, <1>6 DEF U

-----------------------------------------------------------------------------
(* Actions that match.                                                     *)

LEMMA OfferedAction ==
  ASSUME NEW available, NEW action \in Offered(available)
  PROVE  IsAction(action)
<1> DEFINE shown == {c \in DOMAIN available : ActiveForm(c)}
<1>1. \/ \E op : action = Open(op)
      \/ action \in {Observe, Reload, CannotProceed}
      \/ \E c \in {d \in shown : Fillable(screen.form, available[d])} : action = Filling(c, available[c])
      \/ \E c \in {d \in shown : Submittable(screen.form, available[d])} : action = Submitting(c, available[c])
  BY DEF Offered
<1> QED BY <1>1 DEF IsAction

LEMMA MatchedIs ==
  ASSUME NEW r, IsAction(r), NEW a, IsAction(a), NEW available, MatchesRecorded(r, a, available)
  PROVE  /\ a.kind = r.kind
         /\ a.kind \in {"fill", "submit"} => a.case = r.case
         /\ a.kind \notin {"fill", "submit"} => a = r
<1>1. DOMAIN r = DOMAIN a /\ \A f \in DOMAIN r \ {"input"} : r[f] = a[f]
  BY DEF MatchesRecorded
<1>2. ASSUME NEW b, IsAction(b)
      PROVE  \/ \E op : b = [kind |-> "open", op |-> op]
             \/ b = [kind |-> "observe"] \/ b = [kind |-> "reload"] \/ b = [kind |-> "cannot-proceed"]
             \/ \E c, input : b = [kind |-> "fill", case |-> c, input |-> input]
             \/ \E c, input : b = [kind |-> "submit", case |-> c, input |-> input]
  BY <1>2 DEF IsAction, Open, Observe, Reload, CannotProceed, Filling, Submitting
<1>3. a.kind = r.kind
  <2>1. "kind" \in DOMAIN r
    BY <1>2
  <2> QED BY <1>1, <2>1
<1>4. CASE a.kind \in {"fill", "submit"}
  <2>1. "case" \in DOMAIN a
    BY <1>2, <1>4
  <2> QED BY <1>1, <1>3, <1>4, <2>1
<1>5. CASE a.kind = "open"
  <2>1. ASSUME NEW b, IsAction(b), b.kind = "open"  PROVE b = [kind |-> "open", op |-> b.op]
    BY <2>1 DEF IsAction, Open, Observe, Reload, CannotProceed, Filling, Submitting
  <2>2. a = [kind |-> "open", op |-> a.op] /\ r = [kind |-> "open", op |-> r.op]
    BY <1>3, <1>5, <2>1
  <2>3. a.op = r.op
    BY <1>1, <2>2
  <2> QED BY <1>5, <2>2, <2>3
<1>6. CASE a.kind \notin {"fill", "submit", "open"}
  BY <1>2, <1>3, <1>6
<1> QED BY <1>3, <1>4, <1>5, <1>6

LEMMA KeptSame ==
  ASSUME NEW r, IsAction(r), NEW a, IsAction(a), a.kind = r.kind, a.kind \in {"fill", "submit"}, a.case = r.case,
         PartAt(a.input, Repeated(a)) = PartAt(r.input, Repeated(a))
  PROVE  Kept(a) = Kept(r)
<1>1. ASSUME NEW b, IsAction(b), b.kind \in {"fill", "submit"}
      PROVE  /\ b = [kind |-> b.kind, case |-> b.case, input |-> b.input]
             /\ Kept(b) = [kind |-> b.kind, case |-> b.case, input |-> PartAt(b.input, Repeated(b))]
  <2>1. b = [kind |-> b.kind, case |-> b.case, input |-> b.input]
    BY <1>1 DEF IsAction, Open, Observe, Reload, CannotProceed, Filling, Submitting
  <2>2. Kept(b) = [b EXCEPT !.input = PartAt(b.input, Repeated(b))]
    BY <1>1 DEF Kept
  <2> QED BY <2>1, <2>2
<1>2. Repeated(a) = Repeated(r)
  BY DEF Repeated
<1> QED BY <1>1, <1>2

-----------------------------------------------------------------------------
(* The candidates of an exploration, and those of its replay.              *)

IsCase(c) == c \in Cases /\ InputAccepted(c)

\* What a trace entered and what of it was submitted.
Replayable(T, C) ==
  /\ \A i \in 1..Len(T) :
       T[i].action.kind \in {"fill", "submit"} =>
         IsCase(T[i].action.case) /\ Entered(T[i].action.case, T[i].action.input)
  /\ \A j \in DOMAIN C : IsCase(C[j].case) /\ Entered(C[j].case, C[j].input)
  /\ \A i \in 1..Len(T) :
       T[i].executed /\ T[i].action.kind = "submit" =>
         \E j \in DOMAIN C : C[j].case = T[i].action.case /\ C[j].input = T[i].action.input
  /\ \A j, l \in DOMAIN C : C[j].case = C[l].case => C[j].input = C[l].input

LEMMA ConsideredAre ==
  ASSUME HarnessInv, pc = "offer", NEW c \in DOMAIN Available(Pool)
  PROVE  /\ IsCase(c) /\ c \in Considered
         /\ Resolution(c).is = "part" /\ Available(Pool)[c] = Resolution(c).pairs
<1>1. \A d \in Considered : d \in Cases /\ InputAccepted(d)
  BY DEF HarnessInv, HarnessTypeOK, Admitted, ScenarioAccepted, OfScenario, Considered, Recorded
<1>2. c \in Considered /\ Resolution(c).is = "part" /\ Available(Pool)[c] = Resolution(c).pairs
  <2> DEFINE resolved == [d \in Considered |-> Resolution(d)]
             part == {d \in Considered : resolved[d].is = "part"}
  <2>1. Pool.inputs = [d \in part |-> resolved[d].pairs]
    BY DEF Pool
  <2>2. DOMAIN Available(Pool) \subseteq part /\ Available(Pool)[c] = Pool.inputs[c]
    BY <2>1 DEF Available, Restrict
  <2> QED BY <2>1, <2>2
<1> QED BY <1>1, <1>2 DEF IsCase

LEMMA OfferedEntered ==
  ASSUME PayloadsAreTrees, HarnessInv, pc = "offer", mode = "record", NEW action \in Offered(Available(Pool)),
         action.kind \in {"fill", "submit"}
  PROVE  IsCase(action.case) /\ Entered(action.case, action.input)
<1>1. action.case \in DOMAIN Available(Pool) /\ action.input = Available(Pool)[action.case]
  BY OfferedInput
<1> DEFINE c == action.case
<1>2. /\ IsCase(c) /\ Resolution(c).is = "part" /\ action.input = Resolution(c).pairs
  BY <1>1, ConsideredAre
<1>3. Resolution(c) = ResolveCase(c, ThisFixture, progress.submissions)
  BY DEF Resolution
<1> QED BY <1>2, <1>3, CaseEntered DEF IsCase

\* A recorded action that is offered again.
LEMMA OfferedRepeats ==
  ASSUME PayloadsAreTrees, CodecsKeepMembers, HarnessInv, pc = "offer", mode = "replay",
         NEW T, IsTrace(T), Replayable(T, recording.candidates), NEW i \in 1..Len(T), T[i].executed,
         NEW action \in Offered(Available(Pool)), MatchesRecorded(T[i].action, action, Available(Pool))
  PROVE  Kept(action) = Kept(T[i].action)
<1> DEFINE r == T[i].action
           C == recording.candidates
           c == action.case
<1>1. IsAction(r) /\ IsAction(action)
  BY OfferedAction DEF IsTrace
<1>2. /\ action.kind = r.kind
      /\ action.kind \in {"fill", "submit"} => action.case = r.case
      /\ action.kind \notin {"fill", "submit"} => action = r
  BY <1>1, MatchedIs
<1>3. CASE action.kind \notin {"fill", "submit"}
  BY <1>2, <1>3
<1>4. CASE action.kind \in {"fill", "submit"}
  <2>1. c \in DOMAIN Available(Pool) /\ action.input = Available(Pool)[c]
    BY <1>4, OfferedInput
  <2>2. /\ IsCase(c) /\ c \in Considered
        /\ Resolution(c).is = "part" /\ action.input = Resolution(c).pairs
    BY <2>1, ConsideredAre
  <2>3. /\ c \in Recorded
        /\ Resolution(c) = ReplayCandidate(c, RecordedInput(c), ThisFixture, progress.submissions)
    BY <2>2 DEF Considered, Resolution
  <2>4. PICK j \in DOMAIN C : C[j].case = c /\ RecordedInput(c) = C[j].input
    <3> DEFINE found == {e \in Range(C) : e.case = c}
    <3>1. found # {}
      BY <2>3 DEF Recorded, Range
    <3>2. (CHOOSE e \in Range(C) : e.case = c) \in found
      BY <3>1
    <3> QED BY <3>2 DEF RecordedInput, Range
  <2>5. Entered(c, RecordedInput(c))
    BY <2>4 DEF Replayable
  <2>6. PartAt(action.input, Declared(c)) = PartAt(RecordedInput(c), Declared(c))
    BY <2>2, <2>3, <2>5, ReplayAgrees DEF IsCase
  <2>7. CASE action.kind = "submit"
    <3>1. PICK l \in DOMAIN C : C[l].case = c /\ C[l].input = r.input
      BY <1>2, <2>7 DEF Replayable
    <3>2. RecordedInput(c) = r.input
      BY <2>4, <3>1 DEF Replayable
    <3>3. Repeated(action) = Declared(c)
      BY <2>7 DEF Repeated
    <3> QED BY <1>1, <1>2, <1>4, <2>6, <3>2, <3>3, KeptSame
  <2>8. CASE action.kind = "fill"
    <3>1. Repeated(action) = Stated(c)
      BY <2>8 DEF Repeated, Stated
    <3>2. Entered(c, r.input)
      BY <1>2, <2>8 DEF Replayable
    <3>3. PartAt(r.input, Stated(c)) = PartAt(RecordedInput(c), Stated(c))
      BY <2>2, <2>5, <3>2, EnteredAgree DEF IsCase
    <3>4. PartAt(action.input, Stated(c)) = PartAt(RecordedInput(c), Stated(c))
      <4> DEFINE x == action.input
                 y == RecordedInput(c)
                 D == Declared(c)
                 S == Stated(c)
      <4>1. S \subseteq D /\ PartAt(x, D) = PartAt(y, D)
        BY <2>6 DEF Stated
      <4> HIDE DEF x, y, D, S
      <4>2. \A p \in D : MemberPart(x, p) = MemberPart(y, p)
        BY <4>1, PartsAgree
      <4>3. \A p \in S : MemberPart(x, p) = MemberPart(y, p)
        BY <4>1, <4>2
      <4>4. PartAt(x, S) = PartAt(y, S)
        BY <4>3, PartsAgree
      <4> QED BY <4>4 DEF x, y, S
    <3> QED BY <1>1, <1>2, <1>4, <3>1, <3>3, <3>4, KeptSame
  <2> QED BY <1>4, <2>7, <2>8
<1> QED BY <1>3, <1>4

-----------------------------------------------------------------------------
(***************************************************************************)
(* The invariant of a replay.                                              *)
(***************************************************************************)

\* The last step of a trace is the action that was chosen, and nothing of it is
\* left open but that.
TraceInv ==
  LET T == progress.trace
      n == Len(T)
  IN /\ IsTrace(T) /\ Ends(scenario, T)
     /\ pc \in {"offer", "probe", "observe"} => \A i \in 1..n : T[i].executed
     /\ pc \in {"execute", "answer", "probe", "observe"} => n > 0 /\ T[n].action = chosen
     /\ pc \in {"execute", "answer"} => ~T[n].executed
     /\ pc \in Before => n = 0
     /\ pc = "offer" /\ Demanding(scenario) => ~CompleteAt(scenario, T, n)

\* The submissions and the reload are those of the trace.
ProgressTold ==
  LET T == progress.trace
  IN /\ Submitted = SubmittedBy(T, Len(T))
     /\ progress.reloaded => ReloadedBy(T, Len(T))
     /\ ReloadedBy(T, Len(T)) => progress.reloaded \/ (pc = "observe" /\ chosen = Reload)

RecordInv ==
  /\ mode \in {"record", "replay"}
  /\ mode = "record" => Replayable(progress.trace, progress.submissions)
  /\ mode = "record" /\ pc = "done" =>
       /\ report.recording.trace = progress.trace
       /\ report.recording.candidates =
            [i \in DOMAIN progress.submissions |->
               [case |-> progress.submissions[i].case, input |-> progress.submissions[i].input]]

Repeats(e, r) ==
  /\ e.action.kind = r.action.kind /\ (e.action.kind = "submit" => e.action.case = r.action.case)
  /\ e.executed => r.executed
  /\ r.executed => Kept(e.action) = Kept(r.action)

RepeatInv ==
  mode = "replay" =>
    LET T == progress.trace
        R == recording.trace
    IN /\ IsTrace(R) /\ Ends(scenario, R) /\ Replayable(R, recording.candidates)
       /\ Len(T) <= Len(R) /\ \A i \in 1..Len(T) : Repeats(T[i], R[i])
       /\ pc \in {"execute", "answer"} => R[Len(T)].executed

ReplayInv == TraceInv /\ ProgressTold /\ RecordInv /\ RepeatInv

-----------------------------------------------------------------------------
(* Steps that trace nothing.                                               *)

SameTrace ==
  /\ UNCHANGED <<mode, scenario, recording>> /\ SameSubmissions
  /\ progress'.trace = progress.trace

LEMMA StaysReplayable ==
  ASSUME ReplayInv, SameTrace, UNCHANGED report \/ pc' # "done",
         mode = "record" /\ pc' = "done" => pc = "done"
  PROVE  RecordInv'
BY DEF ReplayInv, RecordInv, SameTrace, SameSubmissions

LEMMA TraceStays ==
  ASSUME ReplayInv, SameTrace, progress'.reloaded = progress.reloaded, RecordInv',
         pc = "observe" => pc' = "observe" /\ chosen' = chosen,
         pc' = "offer" => pc \in Before \cup {"offer"},
         pc' \in {"execute", "answer", "probe", "observe"} => chosen' = chosen,
         pc' \in {"execute", "answer"} => pc \in {"execute", "answer"},
         pc' \in {"probe", "observe"} => pc \in {"probe", "observe"},
         pc' \in Before => pc \in Before
  PROVE  ReplayInv'
<1> DEFINE T == progress.trace
           n == Len(T)
<1>1. progress'.trace = T /\ scenario' = scenario /\ Submitted' = Submitted
  BY SubmissionsStay DEF SameTrace
<1>2. IsTrace(T) /\ Ends(scenario, T)
  BY DEF ReplayInv, TraceInv
<1>3. pc \in Before => n = 0
  BY DEF ReplayInv, TraceInv
<1>4. ASSUME n = 0  PROVE Demanding(scenario) => ~CompleteAt(scenario, T, n)
  <2>1. SubmittedBy(T, 0) = {} /\ ~ReloadedBy(T, 0)
    BY DEF SubmittedBy, ReloadedBy
  <2> QED BY <1>4, <2>1 DEF Demanding, CompleteAt
<1>5. TraceInv'
  <2>1. pc' \in {"offer", "probe", "observe"} => \A i \in 1..n : T[i].executed
    BY <1>3 DEF ReplayInv, TraceInv
  <2>2. pc' \in {"execute", "answer", "probe", "observe"} => n > 0 /\ T[n].action = chosen'
    BY DEF ReplayInv, TraceInv
  <2>3. pc' \in {"execute", "answer"} => ~T[n].executed
    BY DEF ReplayInv, TraceInv
  <2>4. pc' \in Before => n = 0
    BY <1>3
  <2>5. pc' = "offer" /\ Demanding(scenario) => ~CompleteAt(scenario, T, n)
    <3>1. CASE pc \in Before
      BY <1>3, <1>4, <3>1
    <3>2. CASE pc \notin Before
      BY <3>2 DEF ReplayInv, TraceInv
    <3> QED BY <3>1, <3>2
  <2> QED BY <1>1, <1>2, <2>1, <2>2, <2>3, <2>4, <2>5 DEF TraceInv
<1>6. ProgressTold'
  BY <1>1 DEF ReplayInv, ProgressTold
<1>7. RepeatInv'
  BY <1>1 DEF ReplayInv, RepeatInv, SameTrace
<1> QED BY <1>5, <1>6, <1>7 DEF ReplayInv

\* The page is observed, or was when the deadline fell.
LEMMA ViewStays ==
  ASSUME HarnessInv, ReplayInv, SameTrace, pc = "observe", UNCHANGED chosen,
         progress'.reloaded = (progress.reloaded \/ chosen = Reload),
         pc' = "closing" \/ (pc' = "offer" /\ ~IsComplete(progress'))
  PROVE  ReplayInv'
<1> DEFINE T == progress.trace
           n == Len(T)
<1>1. /\ progress'.trace = T /\ scenario' = scenario /\ Submitted' = Submitted
      /\ progress'.submissions = progress.submissions
  BY SubmissionsStay DEF SameTrace, SameSubmissions
<1>2. /\ IsTrace(T) /\ Ends(scenario, T) /\ \A i \in 1..n : T[i].executed
      /\ n > 0 /\ T[n].action = chosen /\ n \in Nat
  BY DEF ReplayInv, TraceInv, IsTrace, IsList
<1>3. Submitted = SubmittedBy(T, n) /\ (ReloadedBy(T, n) <=> progress'.reloaded)
  <2>1. chosen = Reload => ReloadedBy(T, n)
    BY <1>2 DEF ReloadedBy, Reload
  <2> QED BY <2>1 DEF ReplayInv, ProgressTold
<1>4. TraceInv'
  <2>1. CASE pc' = "closing"
    BY <1>1, <1>2, <2>1 DEF TraceInv, Before
  <2>2. CASE pc' = "offer" /\ ~IsComplete(progress')
    <3>1. ~CompleteAt(scenario, T, n)
      BY <1>1, <1>3, <2>2 DEF IsComplete, CompleteAt, Submitted
    <3> QED BY <1>1, <1>2, <2>2, <3>1 DEF TraceInv, Before
  <2> QED BY <2>1, <2>2
<1>5. ProgressTold'
  BY <1>1, <1>3 DEF ProgressTold
<1>6. RecordInv'
  BY DEF ReplayInv, RecordInv, SameTrace, SameSubmissions
<1>7. RepeatInv'
  BY <1>1 DEF ReplayInv, RepeatInv, SameTrace
<1> QED BY <1>4, <1>5, <1>6, <1>7 DEF ReplayInv

-----------------------------------------------------------------------------
(* Steps that trace.                                                       *)

LEMMA FirstSteps ==
  ASSUME NEW T, NEW U, NEW k, \A i \in 1..k : T[i] = U[i]
  PROVE  /\ SubmittedBy(T, k) = SubmittedBy(U, k)
         /\ ReloadedBy(T, k) <=> ReloadedBy(U, k)
         /\ \A s : CompleteAt(s, T, k) <=> CompleteAt(s, U, k)
BY AlikeComplete DEF Alike

\* An action is chosen.
LEMMA ChoiceTraced ==
  ASSUME HarnessInv, ReplayInv, pc = "offer", SameSubmissions, progress'.reloaded = progress.reloaded,
         UNCHANGED <<mode, scenario, recording, report>>, pc' \in {"execute", "closing"},
         IsAction(chosen'), progress'.trace = Append(progress.trace, Entry(chosen', FALSE))
  PROVE  TraceInv' /\ ProgressTold'
<1> DEFINE T == progress.trace
           n == Len(T)
           U == progress'.trace
<1>1. /\ IsTrace(T) /\ Ends(scenario, T) /\ n \in Nat /\ \A i \in 1..n : T[i].executed
      /\ Demanding(scenario) => ~CompleteAt(scenario, T, n)
  BY DEF ReplayInv, TraceInv, IsTrace, IsList
<1>2. /\ IsTrace(U) /\ Len(U) = n + 1 /\ U[n + 1] = Entry(chosen', FALSE)
      /\ \A i \in 1..n : U[i] = T[i]
  <2> DEFINE e == Entry(chosen', FALSE)
  <2>1. e = Entry(e.action, e.executed) /\ IsAction(e.action) /\ U = Append(T, e)
    BY DEF Entry
  <2> HIDE DEF e, U, T
  <2>2. /\ IsTrace(U) /\ Len(U) = Len(T) + 1 /\ U[Len(U)] = e
        /\ \A i \in 1..Len(T) : U[i] = T[i]
    BY <1>1, <2>1, TraceAppended
  <2> QED BY <2>2 DEF e
<1>3. U[n + 1].action = chosen' /\ ~U[n + 1].executed
  BY <1>2 DEF Entry
<1> HIDE DEF U
<1>4. \A k \in 0..n : \A i \in 1..k : U[i] = T[i]
  BY <1>1, <1>2
<1>5. Ends(scenario, U)
  <2>1. \A i \in 1..Len(U) : i < Len(U) => U[i].executed
    BY <1>1, <1>2
  <2>2. ASSUME Demanding(scenario), NEW k \in 0..(Len(U) - 1)  PROVE ~CompleteAt(scenario, U, k)
    <3>1. k \in 0..n
      BY <1>1, <1>2
    <3>2. CompleteAt(scenario, U, k) <=> CompleteAt(scenario, T, k)
      BY <1>4, <3>1, FirstSteps
    <3>3. ~CompleteAt(scenario, T, k)
      BY <1>1, <2>2, <3>1 DEF Ends
    <3> QED BY <3>2, <3>3
  <2> QED BY <2>1, <2>2 DEF Ends
<1>6. scenario' = scenario /\ Submitted' = Submitted
  BY SubmissionsStay
<1>7. TraceInv'
  <2>1. Len(U) > 0 /\ U[Len(U)].action = chosen' /\ ~U[Len(U)].executed
    <3>1. Len(U) = n + 1 /\ n \in Nat
      BY <1>1, <1>2
    <3>2. Len(U) > 0 /\ U[Len(U)] = U[n + 1]
      BY <3>1
    <3> QED BY <1>3, <3>2, Zenon
  <2>2. IsTrace(U) /\ Ends(scenario', U)
    BY <1>2, <1>5, <1>6
  <2> QED BY <2>1, <2>2 DEF TraceInv, Before, U
<1>8. /\ SubmittedBy(U, n + 1) = SubmittedBy(T, n)
      /\ ReloadedBy(U, n + 1) <=> ReloadedBy(T, n)
  <2>1. SubmittedBy(U, n) = SubmittedBy(T, n) /\ (ReloadedBy(U, n) <=> ReloadedBy(T, n))
    BY <1>1, <1>2, FirstSteps
  <2> QED BY <1>1, <1>3, <2>1, OneMoreStep
<1>9. ProgressTold'
  <2>1. ~ReloadedBy(T, n)
    BY DEF ReplayInv, ProgressTold, HarnessInv, ReloadsLast, After
  <2>2. Submitted = SubmittedBy(T, n) /\ ~progress.reloaded
    BY <2>1 DEF ReplayInv, ProgressTold
  <2> QED BY <1>2, <1>6, <1>8, <2>1, <2>2 DEF ProgressTold, U
<1> QED BY <1>7, <1>9

\* The chosen action was executed.
LEMMA ActionTraced ==
  ASSUME HarnessInv, ReplayInv, pc \in {"execute", "answer"}, pc' \in {"probe", "observe"},
         UNCHANGED <<scenario, chosen>>, progress'.trace = Executed
  PROVE  LET T == progress.trace
             U == progress'.trace
             n == Len(T)
         IN /\ TraceInv' /\ n \in Nat \ {0} /\ Len(U) = n
            /\ U[n] = Entry(chosen, TRUE) /\ \A i \in 1..n : i < n => U[i] = T[i]
            /\ T[n].action = chosen /\ ~T[n].executed
            /\ SubmittedBy(U, n) = SubmittedBy(T, n) \cup (IF chosen.kind = "submit" THEN {chosen.case} ELSE {})
            /\ ReloadedBy(U, n) <=> ReloadedBy(T, n) \/ chosen.kind = "reload"
<1> DEFINE T == progress.trace
           n == Len(T)
           U == progress'.trace
<1>1. /\ IsTrace(T) /\ Ends(scenario, T) /\ n \in Nat \ {0} /\ T[n].action = chosen /\ ~T[n].executed
  BY DEF ReplayInv, TraceInv, IsTrace, IsList
<1>2. IsAction(chosen)
  BY <1>1 DEF IsTrace
<1>3. /\ IsTrace(U) /\ Len(U) = n /\ U[n] = Entry(chosen, TRUE)
      /\ \A i \in 1..n : i < n => U[i] = T[i]
  <2> DEFINE e == Entry(chosen, TRUE)
             V == [T EXCEPT ![Len(T)] = e]
  <2>1. e = Entry(e.action, e.executed) /\ IsAction(e.action) /\ U = V /\ Len(T) > 0
    BY <1>1, <1>2 DEF Entry, Executed
  <2> HIDE DEF e, U, T
  <2>2. /\ IsTrace(V) /\ Len(V) = Len(T) /\ V[Len(T)] = e
        /\ \A i \in 1..Len(T) : i < Len(T) => V[i] = T[i]
    BY <1>1, <2>1, TraceReplaced, Zenon
  <2> HIDE DEF V
  <2> QED BY <2>1, <2>2 DEF e
<1>4. U[n].action = chosen /\ U[n].executed
  BY <1>3 DEF Entry
<1> HIDE DEF U
<1>5. \A k \in 0..(n - 1) : \A i \in 1..k : U[i] = T[i]
  BY <1>1, <1>3
<1>6. Ends(scenario, U)
  <2>1. \A i \in 1..n : i < n => U[i].executed
    BY <1>1, <1>3 DEF Ends
  <2>2. ASSUME Demanding(scenario), NEW k \in 0..(n - 1)  PROVE ~CompleteAt(scenario, U, k)
    <3>1. CompleteAt(scenario, U, k) <=> CompleteAt(scenario, T, k)
      BY <1>5, FirstSteps
    <3> QED BY <1>1, <2>2, <3>1 DEF Ends
  <2> QED BY <1>3, <2>1, <2>2 DEF Ends
<1>7. \A i \in 1..n : U[i].executed
  <2>1. \A i \in 1..n : i < n \/ i = n
    BY <1>1
  <2> QED BY <1>3, <1>4, <1>6, <2>1 DEF Ends
<1>8. TraceInv'
  <2>1. Len(U) > 0 /\ U[Len(U)].action = chosen' /\ \A i \in 1..Len(U) : U[i].executed
    <3>1. Len(U) = n /\ n > 0
      BY <1>1, <1>3
    <3>2. Len(U) > 0 /\ U[Len(U)] = U[n] /\ 1..Len(U) = 1..n
      BY <3>1
    <3> QED BY <1>4, <1>7, <3>2, Zenon
  <2>2. IsTrace(U) /\ Ends(scenario', U)
    BY <1>3, <1>6
  <2> QED BY <2>1, <2>2 DEF TraceInv, Before, U
<1>9. /\ SubmittedBy(U, n) = SubmittedBy(T, n) \cup (IF chosen.kind = "submit" THEN {chosen.case} ELSE {})
      /\ ReloadedBy(U, n) <=> ReloadedBy(T, n) \/ chosen.kind = "reload"
  <2> DEFINE m == n - 1
  <2>1. m \in Nat /\ n = m + 1
    BY <1>1
  <2>2. \A i \in 1..m : U[i] = T[i]
    BY <1>1, <1>3
  <2> HIDE DEF m
  <2>3. SubmittedBy(U, m) = SubmittedBy(T, m) /\ (ReloadedBy(U, m) <=> ReloadedBy(T, m))
    BY <2>2, FirstSteps
  <2>4. /\ SubmittedBy(U, n) = SubmittedBy(U, m) \cup (IF chosen.kind = "submit" THEN {chosen.case} ELSE {})
        /\ ReloadedBy(U, n) <=> ReloadedBy(U, m) \/ chosen.kind = "reload"
    BY <1>4, <2>1, OneMoreStep
  <2>5. SubmittedBy(T, n) = SubmittedBy(T, m) /\ (ReloadedBy(T, n) <=> ReloadedBy(T, m))
    <3>1. ~T[m + 1].executed
      BY <1>1, <2>1
    <3> HIDE DEF T
    <3>2. SubmittedBy(T, m + 1) = SubmittedBy(T, m) /\ (ReloadedBy(T, m + 1) <=> ReloadedBy(T, m))
      BY <2>1, <3>1, OneMoreStep
    <3> QED BY <2>1, <3>2
  <2> QED BY <2>3, <2>4, <2>5
<1> QED BY <1>1, <1>3, <1>8, <1>9 DEF U

LEMMA ChooseRecords ==
  ASSUME PayloadsAreTrees, HarnessInv, ReplayInv, NEW confident \in BOOLEAN, Choose(confident)
  PROVE  ReplayInv'
<1> DEFINE T == progress.trace
           n == Len(T)
           U == progress'.trace
           C == progress.submissions
<1>1. /\ pc = "offer" /\ mode = "record" /\ chosen' \in Offered(Available(Pool))
      /\ pc' \in {"execute", "closing"} /\ SameSubmissions /\ progress'.reloaded = progress.reloaded
      /\ U = Append(T, Entry(chosen', FALSE)) /\ UNCHANGED <<mode, scenario, recording, report>>
  BY DEF Choose, Run, Traced, SameSubmissions, HarnessInv, HarnessTypeOK, Interrupt
<1>2. IsAction(chosen')
  BY <1>1, OfferedAction
<1>3. TraceInv' /\ ProgressTold'
  BY <1>1, <1>2, ChoiceTraced
<1>4. IsTrace(T) /\ n \in Nat /\ Replayable(T, C)
  BY <1>1 DEF ReplayInv, TraceInv, RecordInv, IsTrace, IsList
<1>5. /\ Len(U) = n + 1 /\ U[n + 1].action = chosen' /\ ~U[n + 1].executed
      /\ \A i \in 1..n : U[i] = T[i]
  <2> DEFINE e == Entry(chosen', FALSE)
  <2>1. e = Entry(e.action, e.executed) /\ IsAction(e.action) /\ U = Append(T, e)
        /\ e.action = chosen' /\ ~e.executed
    BY <1>1, <1>2 DEF Entry
  <2> HIDE DEF e, U, T
  <2>2. /\ IsTrace(U) /\ Len(U) = Len(T) + 1 /\ U[Len(U)] = e
        /\ \A i \in 1..Len(T) : U[i] = T[i]
    BY <1>4, <2>1, TraceAppended
  <2> QED BY <2>1, <2>2
<1> HIDE DEF U
<1>6. Replayable(U, C)
  <2>1. ASSUME NEW i \in 1..Len(U), i # n + 1  PROVE i \in 1..n /\ U[i] = T[i]
    BY <1>4, <1>5, <2>1
  <2>2. chosen'.kind \in {"fill", "submit"} => IsCase(chosen'.case) /\ Entered(chosen'.case, chosen'.input)
    BY <1>1, OfferedEntered
  <2>3. ASSUME NEW i \in 1..Len(U), U[i].action.kind \in {"fill", "submit"}
        PROVE  IsCase(U[i].action.case) /\ Entered(U[i].action.case, U[i].action.input)
    <3>1. CASE i = n + 1
      BY <1>5, <2>2, <2>3, <3>1
    <3>2. CASE i # n + 1
      BY <1>4, <2>1, <2>3, <3>2 DEF Replayable
    <3> QED BY <3>1, <3>2
  <2>4. ASSUME NEW i \in 1..Len(U), U[i].executed, U[i].action.kind = "submit"
        PROVE  \E j \in DOMAIN C : C[j].case = U[i].action.case /\ C[j].input = U[i].action.input
    <3>1. i # n + 1
      BY <1>5, <2>4
    <3> QED BY <1>4, <2>1, <2>4, <3>1 DEF Replayable
  <2> QED BY <1>4, <2>3, <2>4 DEF Replayable
<1>7. RecordInv' /\ RepeatInv'
  BY <1>1, <1>6 DEF RecordInv, RepeatInv, SameSubmissions, U
<1> QED BY <1>3, <1>7 DEF ReplayInv

\* A recorded action is taken again, if it is offered.
LEMMA RecordedRepeats ==
  ASSUME PayloadsAreTrees, CodecsKeepMembers, HarnessInv, ReplayInv, RecordedChoice
  PROVE  ReplayInv'
<1> DEFINE T == progress.trace
           n == Len(T)
           U == progress'.trace
           R == recording.trace
           entry == R[Step]
           matching == {a \in Offered(Available(Pool)) : MatchesRecorded(entry.action, a, Available(Pool))}
<1>1. /\ pc = "offer" /\ mode = "replay" /\ UNCHANGED <<mode, scenario, recording, report>>
      /\ \/ pc' = "closing" /\ UNCHANGED <<progress, chosen>>
         \/ /\ Step <= Len(R) /\ chosen' \in matching
            /\ SameSubmissions /\ progress'.reloaded = progress.reloaded
            /\ U = Append(T, Entry(chosen', FALSE)) /\ pc' \in {"execute", "closing"}
            /\ pc' = "execute" => entry.executed
  <2>1. \E pool \in {Pool} :
          IF Step > Len(R)
             \/ {a \in Offered(Available(pool)) : MatchesRecorded(entry.action, a, Available(pool))} = {}
          THEN Interrupt("replay") /\ UNCHANGED <<progress, chosen>>
          ELSE \E action \in {a \in Offered(Available(pool)) : MatchesRecorded(entry.action, a, Available(pool))} :
                 /\ chosen' = action
                 /\ progress' = [progress EXCEPT !.trace = Traced(action),
                                   !.repeated = IF entry.executed THEN Tallied(action) ELSE @]
                 /\ IF ~entry.executed THEN Interrupt("replay")
                    ELSE IF action = CannotProceed THEN Interrupt("decision")
                    ELSE IF Count(progress.repeated, action) >= 2 THEN Interrupt("progress")
                    ELSE pc' = "execute" /\ UNCHANGED outcome
    BY DEF RecordedChoice
  <2>2. CASE Interrupt("replay") /\ UNCHANGED <<progress, chosen>>
    BY <2>2 DEF RecordedChoice, Run, Interrupt
  <2>3. CASE /\ ~(Step > Len(R))
             /\ \E action \in matching :
                 /\ chosen' = action
                 /\ progress' = [progress EXCEPT !.trace = Traced(action),
                                   !.repeated = IF entry.executed THEN Tallied(action) ELSE @]
                 /\ IF ~entry.executed THEN Interrupt("replay")
                    ELSE IF action = CannotProceed THEN Interrupt("decision")
                    ELSE IF Count(progress.repeated, action) >= 2 THEN Interrupt("progress")
                    ELSE pc' = "execute" /\ UNCHANGED outcome
    <3>1. mode = "replay"
      BY DEF RecordedChoice
    <3>2. IsTrace(T) /\ IsTrace(R)
      BY <3>1 DEF ReplayInv, TraceInv, RepeatInv
    <3>3. Step <= Len(R)
      <4>1. Len(T) \in Nat /\ Len(R) \in Nat
        BY <3>2 DEF IsTrace, IsList
      <4> QED BY <2>3, <4>1 DEF Step
    <3> HIDE DEF matching, entry
    <3>4. PICK action \in matching :
            /\ chosen' = action
            /\ progress' = [progress EXCEPT !.trace = Traced(action),
                              !.repeated = IF entry.executed THEN Tallied(action) ELSE @]
            /\ IF ~entry.executed THEN Interrupt("replay")
               ELSE IF action = CannotProceed THEN Interrupt("decision")
               ELSE IF Count(progress.repeated, action) >= 2 THEN Interrupt("progress")
               ELSE pc' = "execute" /\ UNCHANGED outcome
      BY <2>3
    <3>5. pc' \in {"execute", "closing"} /\ (pc' = "execute" => entry.executed)
      BY <3>4 DEF Interrupt
    <3>6. SameSubmissions /\ progress'.reloaded = progress.reloaded /\ U = Append(T, Entry(chosen', FALSE))
      BY <3>4 DEF SameSubmissions, HarnessInv, HarnessTypeOK, Traced
    <3>7. pc = "offer" /\ UNCHANGED <<mode, scenario, recording, report>>
      BY DEF RecordedChoice, Run
    <3> QED BY <3>1, <3>3, <3>4, <3>5, <3>6, <3>7
  <2> QED BY <2>1, <2>2, <2>3
<1>2. CASE pc' = "closing" /\ UNCHANGED <<progress, chosen>>
  <2>1. SameTrace
    BY <1>1, <1>2 DEF SameTrace, SameSubmissions
  <2>2. RecordInv'
    BY <1>1, <1>2, <2>1, StaysReplayable
  <2> QED BY <1>1, <1>2, <2>1, <2>2, TraceStays DEF Before
<1>3. CASE /\ Step <= Len(R) /\ chosen' \in matching
           /\ SameSubmissions /\ progress'.reloaded = progress.reloaded
           /\ U = Append(T, Entry(chosen', FALSE)) /\ pc' \in {"execute", "closing"}
           /\ pc' = "execute" => entry.executed
  <2>1. chosen' \in Offered(Available(Pool)) /\ MatchesRecorded(entry.action, chosen', Available(Pool))
    BY <1>3
  <2>2. IsAction(chosen')
    BY <2>1, OfferedAction
  <2>3. TraceInv' /\ ProgressTold'
    BY <1>1, <1>3, <2>2, ChoiceTraced
  <2>4. /\ IsTrace(T) /\ n \in Nat /\ IsTrace(R) /\ Ends(scenario, R) /\ Replayable(R, recording.candidates)
        /\ n <= Len(R) /\ \A i \in 1..n : Repeats(T[i], R[i])
    BY <1>1 DEF ReplayInv, TraceInv, RepeatInv, IsTrace, IsList
  <2>5. Step = n + 1 /\ Step \in 1..Len(R)
    BY <1>3, <2>4 DEF Step
  <2>6. /\ Len(U) = n + 1 /\ U[n + 1].action = chosen' /\ ~U[n + 1].executed
        /\ \A i \in 1..n : U[i] = T[i]
    <3> DEFINE e == Entry(chosen', FALSE)
    <3>1. e = Entry(e.action, e.executed) /\ IsAction(e.action) /\ U = Append(T, e)
          /\ e.action = chosen' /\ ~e.executed
      BY <1>3, <2>2 DEF Entry
    <3> HIDE DEF e, U, T
    <3>2. /\ IsTrace(U) /\ Len(U) = Len(T) + 1 /\ U[Len(U)] = e
          /\ \A i \in 1..Len(T) : U[i] = T[i]
      BY <2>4, <3>1, TraceAppended
    <3> QED BY <3>1, <3>2
  <2> HIDE DEF U
  <2>7. Repeats(U[n + 1], R[n + 1])
    <3>1. IsAction(entry.action)
      BY <2>4, <2>5 DEF IsTrace
    <3>2. /\ chosen'.kind = entry.action.kind
          /\ chosen'.kind = "submit" => chosen'.case = entry.action.case
      BY <2>1, <2>2, <3>1, MatchedIs
    <3>3. entry.executed => Kept(chosen') = Kept(entry.action)
      BY <1>1, <2>1, <2>4, <2>5, OfferedRepeats
    <3> QED BY <2>5, <2>6, <3>2, <3>3 DEF Repeats
  <2>8. \A i \in 1..Len(U) : Repeats(U[i], R[i])
    <3> TAKE i \in 1..Len(U)
    <3>1. CASE i = n + 1
      BY <2>7, <3>1
    <3>2. CASE i # n + 1
      <4>1. i \in 1..n
        BY <2>4, <2>6, <3>2
      <4> QED BY <2>4, <2>6, <4>1
    <3> QED BY <3>1, <3>2
  <2>9. RepeatInv'
    <3>1. Len(U) <= Len(R) /\ (pc' \in {"execute", "answer"} => R[Len(U)].executed)
      BY <1>3, <2>5, <2>6
    <3> QED BY <1>1, <2>4, <2>8, <3>1 DEF RepeatInv, U
  <2> QED BY <1>1, <2>3, <2>9 DEF ReplayInv, RecordInv
<1> QED BY <1>1, <1>2, <1>3

\* Of an executed step, nothing changes but that it was.
LEMMA ExecutedRepeats ==
  ASSUME ReplayInv, pc \in {"execute", "answer"}, pc' \in {"probe", "observe"},
         UNCHANGED <<mode, scenario, recording>>,
         NEW n, n = Len(progress.trace), n \in Nat \ {0}, Len(progress'.trace) = n,
         progress'.trace[n].action = progress.trace[n].action,
         \A i \in 1..n : i < n => progress'.trace[i] = progress.trace[i]
  PROVE  RepeatInv'
<1> DEFINE T == progress.trace
           U == progress'.trace
           R == recording.trace
<1> SUFFICES ASSUME mode = "replay"  PROVE RepeatInv'
  BY DEF RepeatInv
<1>1. /\ IsTrace(R) /\ Ends(scenario, R) /\ Replayable(R, recording.candidates)
      /\ n <= Len(R) /\ \A i \in 1..n : Repeats(T[i], R[i])
      /\ R[n].executed
  BY DEF ReplayInv, RepeatInv
<1>2. \A i \in 1..n : Repeats(U[i], R[i])
  <2> TAKE i \in 1..n
  <2>1. Repeats(T[i], R[i])
    BY <1>1
  <2>2. CASE i = n
    BY <1>1, <2>1, <2>2 DEF Repeats
  <2>3. CASE i # n
    <3>1. U[i] = T[i]
      BY <2>3
    <3> QED BY <2>1, <3>1
  <2> QED BY <2>2, <2>3
<1> QED BY <1>1, <1>2 DEF RepeatInv

LEMMA ExecuteRepeats ==
  ASSUME HarnessInv, ReplayInv, Execute
  PROVE  ReplayInv'
<1> DEFINE T == progress.trace
           n == Len(T)
           U == progress'.trace
           C == progress.submissions
<1>1. /\ pc = "execute" /\ SameSubmissions /\ progress'.reloaded = progress.reloaded
      /\ UNCHANGED <<mode, scenario, recording, report, chosen>>
      /\ IF chosen.kind = "submit" THEN pc' = "answer" /\ UNCHANGED progress
         ELSE pc' = "observe" /\ U = Executed
  BY DEF Execute, Run, SameSubmissions, HarnessInv, HarnessTypeOK
<1>2. CASE chosen.kind = "submit"
  <2>1. SameTrace
    BY <1>1, <1>2 DEF SameTrace
  <2>2. RecordInv'
    BY <1>1, <1>2, <2>1, StaysReplayable
  <2> QED BY <1>1, <1>2, <2>1, <2>2, TraceStays DEF Before
<1>3. CASE chosen.kind # "submit"
  <2>1. /\ TraceInv' /\ n \in Nat \ {0} /\ Len(U) = n
        /\ U[n] = Entry(chosen, TRUE) /\ \A i \in 1..n : i < n => U[i] = T[i]
        /\ T[n].action = chosen /\ ~T[n].executed
        /\ SubmittedBy(U, n) = SubmittedBy(T, n)
        /\ ReloadedBy(U, n) <=> ReloadedBy(T, n) \/ chosen.kind = "reload"
    BY <1>1, <1>3, ActionTraced
  <2>2. U[n].action = chosen
    BY <2>1 DEF Entry
  <2>3. IsAction(chosen)
    BY <2>1 DEF ReplayInv, TraceInv, IsTrace
  <2>4. chosen.kind = "reload" <=> chosen = Reload
    BY <2>3 DEF IsAction, Open, Observe, Reload, CannotProceed, Filling, Submitting
  <2>5. ProgressTold'
    <3>1. ~progress.reloaded /\ ~ReloadedBy(T, n)
      BY <1>1 DEF ReplayInv, ProgressTold, HarnessInv, ReloadsLast, After
    <3>2. Submitted = SubmittedBy(T, n) /\ Submitted' = Submitted
      BY <1>1, SubmissionsStay DEF ReplayInv, ProgressTold
    <3> HIDE DEF U
    <3> QED BY <1>1, <1>3, <2>1, <2>4, <3>1, <3>2 DEF ProgressTold, U
  <2>6. RepeatInv'
    <3> HIDE DEF n
    <3> QED BY <1>1, <1>3, <2>1, <2>2, ExecutedRepeats DEF n
  <2> HIDE DEF U
  <2>7. ASSUME mode = "record"  PROVE Replayable(U, C)
    <3>1. Replayable(T, C)
      BY <2>7 DEF ReplayInv, RecordInv
    <3>2. ASSUME NEW i \in 1..n
          PROVE  U[i].action = T[i].action /\ (U[i].executed /\ U[i].action.kind = "submit" => T[i].executed)
      <4>1. CASE i = n
        BY <1>3, <2>1, <2>2, <4>1
      <4>2. CASE i # n
        <5>1. U[i] = T[i]
          BY <2>1, <4>2
        <5> QED BY <5>1
      <4> QED BY <4>1, <4>2
    <3> HIDE DEF T, n
    <3> QED BY <2>1, <3>1, <3>2 DEF Replayable, n
  <2>8. RecordInv'
    BY <1>1, <1>3, <2>7 DEF ReplayInv, RecordInv, SameSubmissions, U
  <2> QED BY <2>1, <2>5, <2>6, <2>8 DEF ReplayInv
<1> QED BY <1>2, <1>3

LEMMA AnswerRepeats ==
  ASSUME HarnessInv, ReplayInv, NEW accepted \in BOOLEAN, Answer(accepted)
  PROVE  ReplayInv'
<1> DEFINE T == progress.trace
           n == Len(T)
           U == progress'.trace
           C == progress.submissions
           D == progress'.submissions
           s == [case |-> chosen.case, input |-> chosen.input, accepted |-> accepted,
                 result |-> Returned(ThisFixture, chosen.case)]
<1>1. /\ pc = "answer" /\ pc' \in {"probe", "observe"} /\ U = Executed
      /\ D = Append(C, s) /\ progress'.reloaded = FALSE
      /\ UNCHANGED <<mode, scenario, recording, report, chosen>>
  BY DEF Answer, Call, Run, HarnessInv, HarnessTypeOK
<1>2. chosen.kind = "submit" /\ IsList(C) /\ chosen.case \notin Submitted
  BY <1>1 DEF HarnessInv, HarnessTypeOK, CallsCounted
<1>3. /\ DOMAIN C = 1..Len(C) /\ DOMAIN D = 1..(Len(C) + 1) /\ Len(C) \in Nat
      /\ \A i \in 1..Len(C) : D[i] = C[i]
      /\ D[Len(C) + 1] = s
  <2> DEFINE S == {C[i] : i \in 1..Len(C)} \cup {s}
  <2>1. C \in Seq(S) /\ s \in S /\ Len(C) \in Nat
    BY <1>2 DEF IsList
  <2>2. D = Append(C, s)
    BY <1>1
  <2> HIDE DEF S, C, D, s
  <2> QED BY <2>1, <2>2, AppendedIs
<1>4. D[Len(C) + 1].case = chosen.case /\ D[Len(C) + 1].input = chosen.input
  BY <1>3
<1> HIDE DEF D, s
<1>5. /\ TraceInv' /\ n \in Nat \ {0} /\ Len(U) = n
      /\ U[n] = Entry(chosen, TRUE) /\ \A i \in 1..n : i < n => U[i] = T[i]
      /\ T[n].action = chosen /\ ~T[n].executed
      /\ SubmittedBy(U, n) = SubmittedBy(T, n) \cup {chosen.case}
      /\ ReloadedBy(U, n) <=> ReloadedBy(T, n)
  BY <1>1, <1>2, ActionTraced
<1>6. U[n].action = chosen
  BY <1>5 DEF Entry
<1> HIDE DEF U
<1>7. Submitted' = Submitted \cup {chosen.case}
  BY <1>3, <1>4 DEF Submitted, D
<1>8. ProgressTold'
  <2>1. ~progress.reloaded /\ ~ReloadedBy(T, n) /\ Submitted = SubmittedBy(T, n)
    BY <1>1 DEF ReplayInv, ProgressTold, HarnessInv, ReloadsLast, After
  <2> QED BY <1>1, <1>5, <1>7, <2>1 DEF ProgressTold, U
<1>9. RepeatInv'
  <2> HIDE DEF n
  <2> QED BY <1>1, <1>5, <1>6, ExecutedRepeats DEF n, U
<1>10. ASSUME mode = "record"  PROVE Replayable(U, D)
  <2>1. Replayable(T, C)
    BY <1>10 DEF ReplayInv, RecordInv
  <2>2. ASSUME NEW i \in 1..n  PROVE U[i].action = T[i].action /\ (i # n => U[i] = T[i])
    <3>1. CASE i = n
      BY <1>5, <1>6, <3>1
    <3>2. CASE i # n
      <4>1. i < n
        BY <1>5, <3>2
      <4>2. U[i] = T[i]
        BY <1>5, <4>1
      <4> QED BY <3>2, <4>2
    <3> QED BY <3>1, <3>2
  <2>3. IsCase(chosen.case) /\ Entered(chosen.case, chosen.input)
    BY <1>2, <1>5, <2>1 DEF Replayable
  <2>4. \A j \in DOMAIN D : j # Len(C) + 1 => j \in DOMAIN C /\ D[j] = C[j]
    BY <1>3
  <2>5. \A i \in 1..n : U[i].action.kind \in {"fill", "submit"} =>
          IsCase(U[i].action.case) /\ Entered(U[i].action.case, U[i].action.input)
    BY <2>1, <2>2 DEF Replayable
  <2>6. \A j \in DOMAIN D : IsCase(D[j].case) /\ Entered(D[j].case, D[j].input)
    BY <1>4, <2>1, <2>3, <2>4 DEF Replayable
  <2>7. ASSUME NEW i \in 1..n, U[i].executed, U[i].action.kind = "submit"
        PROVE  \E j \in DOMAIN D : D[j].case = U[i].action.case /\ D[j].input = U[i].action.input
    <3>1. CASE i = n
      BY <1>3, <1>4, <1>6, <3>1
    <3>2. CASE i # n
      <4>1. PICK j \in DOMAIN C : C[j].case = T[i].action.case /\ C[j].input = T[i].action.input
        BY <2>1, <2>2, <2>7, <3>2 DEF Replayable
      <4>2. j \in DOMAIN D /\ D[j] = C[j]
        BY <1>3
      <4> QED BY <2>2, <4>1, <4>2
    <3> QED BY <3>1, <3>2
  <2>8. ASSUME NEW j \in DOMAIN D, NEW l \in DOMAIN D, D[j].case = D[l].case  PROVE D[j].input = D[l].input
    <3>1. \A i \in DOMAIN C : C[i].case # chosen.case
      BY <1>2 DEF Submitted
    <3>2. CASE j = Len(C) + 1 \/ l = Len(C) + 1
      BY <1>4, <2>4, <2>8, <3>1, <3>2
    <3>3. CASE j # Len(C) + 1 /\ l # Len(C) + 1
      BY <2>1, <2>4, <2>8, <3>3 DEF Replayable
    <3> QED BY <3>2, <3>3
  <2> QED BY <1>5, <2>5, <2>6, <2>7, <2>8 DEF Replayable
<1>11. RecordInv'
  BY <1>1, <1>10 DEF ReplayInv, RecordInv, U, D
<1> QED BY <1>5, <1>8, <1>9, <1>11 DEF ReplayInv

LEMMA ReplayStarts ==
  ASSUME ReplayInv, Replay
  PROVE  ReplayInv'
<1> DEFINE T == progress.trace
           C == progress.submissions
           kept == [i \in DOMAIN C |-> [case |-> C[i].case, input |-> C[i].input]]
<1>1. /\ pc = "done" /\ mode = "record" /\ mode' = "replay" /\ pc' = "prepare"
      /\ recording' = report.recording /\ progress' = NoProgress /\ scenario' = scenario
  BY DEF Replay
<1>2. IsTrace(T) /\ Ends(scenario, T) /\ Replayable(T, C)
  BY <1>1 DEF ReplayInv, TraceInv, RecordInv
<1>3. recording'.trace = T /\ recording'.candidates = kept
  BY <1>1 DEF ReplayInv, RecordInv
<1>4. Replayable(T, kept)
  BY <1>2 DEF Replayable
<1>5. /\ progress'.trace = <<>> /\ progress'.submissions = <<>> /\ ~progress'.reloaded
      /\ IsTrace(<<>>) /\ Len(<<>>) = 0 /\ Ends(scenario, <<>>)
      /\ SubmittedBy(<<>>, 0) = {} /\ ~ReloadedBy(<<>>, 0)
  BY <1>1 DEF NoProgress, IsTrace, IsList, Ends, SubmittedBy, ReloadedBy
<1>6. Submitted' = {}
  BY <1>5 DEF Submitted
<1>7. TraceInv' /\ ProgressTold'
  BY <1>1, <1>5, <1>6 DEF TraceInv, ProgressTold, Before
<1>8. RecordInv'
  BY <1>1 DEF RecordInv
<1>9. RepeatInv'
  <2>1. Len(T) \in Nat
    BY <1>2 DEF IsTrace, IsList
  <2> HIDE DEF kept
  <2> QED BY <1>1, <1>2, <1>3, <1>4, <1>5, <2>1 DEF RepeatInv
<1> QED BY <1>7, <1>8, <1>9 DEF ReplayInv

LEMMA ReportRepeats ==
  ASSUME HarnessInv, ReplayInv, NEW sealed \in BOOLEAN, Report(sealed)
  PROVE  ReplayInv'
<1>1. /\ pc = "report" /\ pc' = "done" /\ UNCHANGED <<screen, progress, chosen, scenario, mode, recording>>
      /\ report'.recording = [trace |-> progress.trace,
                              candidates |-> [i \in DOMAIN progress.submissions |->
                                [case |-> progress.submissions[i].case, input |-> progress.submissions[i].input]]]
  BY DEF Report, Played, HarnessInv, HarnessTypeOK
<1>2. SameTrace
  BY <1>1 DEF SameTrace, SameSubmissions
<1>3. RecordInv'
  BY <1>1 DEF ReplayInv, RecordInv
<1> QED BY <1>1, <1>2, <1>3, TraceStays DEF Before

LEMMA ReplayStep ==
  ASSUME PayloadsAreTrees, CodecsKeepMembers, HarnessInv, ReplayInv, [HarnessNext]_harnessVars
  PROVE  ReplayInv'
<1>1. CASE RecordedChoice
  BY <1>1, RecordedRepeats
<1>2. CASE \E confident \in BOOLEAN : Choose(confident)
  BY <1>2, ChooseRecords
<1>3. CASE Execute
  BY <1>3, ExecuteRepeats
<1>4. CASE \E accepted \in BOOLEAN : Answer(accepted)
  BY <1>4, AnswerRepeats
<1>5. CASE Replay
  BY <1>5, ReplayStarts
<1>6. CASE \E sealed \in BOOLEAN : Report(sealed)
  BY <1>6, ReportRepeats
<1>7. CASE View \/ (Deadline /\ pc = "observe")
  <2>1. /\ pc = "observe" /\ UNCHANGED <<mode, scenario, recording, report, chosen>>
        /\ progress' = Navigated(progress)
        /\ pc' = "closing" \/ (pc' = "offer" /\ ~IsComplete(progress'))
    BY <1>7 DEF View, Deadline, Run, Interrupt
  <2>2. SameTrace /\ progress'.reloaded = (progress.reloaded \/ chosen = Reload)
    BY <2>1 DEF Navigated, SameTrace, SameSubmissions, HarnessInv, HarnessTypeOK
  <2> QED BY <2>1, <2>2, ViewStays
<1>8. CASE \/ ValidateCatalog \/ PrepareDirectory \/ SpawnServer \/ Neighbour \/ Listen \/ Exit \/ Ready
           \/ NotReady \/ Exhausted \/ ResolveFails \/ ModelFails \/ ExecuteFails \/ AnswerLost \/ Probe
           \/ ProbeFails \/ Release \/ Rebuild \/ (Deadline /\ pc # "observe") \/ UNCHANGED harnessVars
           \/ \E ok \in BOOLEAN : Prerequisites(ok) \/ Close(ok) \/ Enforce(ok)
           \/ \E passing \in SUBSET scenario.requirements : Evaluate(passing)
  <2>1. UNCHANGED <<mode, scenario, recording, report, progress>>
    BY <1>8
    DEF ValidateCatalog, PrepareDirectory, SpawnServer, Neighbour, Listen, Exit, Ready, NotReady, Exhausted,
        ResolveFails, ModelFails, ExecuteFails, AnswerLost, Probe, ProbeFails, Release, Rebuild, Deadline,
        harnessVars, Prerequisites, Close, Enforce, Evaluate, Run, Played
  <2>2. \/ pc' = pc /\ chosen' = chosen
        \/ pc # "observe" /\ pc' \in {"closing", "release", "report", "enforce", "evaluate", "rejected"}
        \/ pc \in Before /\ chosen' = chosen /\ pc' \in {"prepare", "spawn", "await", "prerequisites", "offer"}
        \/ pc = "probe" /\ pc' = "observe" /\ chosen' = chosen
    BY <1>8
    DEF ValidateCatalog, PrepareDirectory, SpawnServer, Neighbour, Listen, Exit, Ready, NotReady, Exhausted,
        ResolveFails, ModelFails, ExecuteFails, AnswerLost, Probe, ProbeFails, Release, Rebuild, Deadline,
        harnessVars, Prerequisites, Close, Enforce, Evaluate, Played, Interrupt, Blocked, Before
  <2>3. SameTrace
    BY <2>1 DEF SameTrace, SameSubmissions
  <2>4. pc' = "done" => pc = "done"
    BY <2>2
  <2>5. RecordInv'
    BY <2>1, <2>3, <2>4, StaysReplayable
  <2>6. CASE pc' = pc /\ chosen' = chosen
    BY <2>1, <2>3, <2>5, <2>6, TraceStays
  <2>7. CASE pc # "observe" /\ pc' \in {"closing", "release", "report", "enforce", "evaluate", "rejected"}
    <3>1. pc' \in Before => pc \in Before
      BY <1>8, <2>7
      DEF ValidateCatalog, PrepareDirectory, SpawnServer, Neighbour, Listen, Exit, Ready, NotReady, Exhausted,
          ResolveFails, ModelFails, ExecuteFails, AnswerLost, Probe, ProbeFails, Release, Rebuild, Deadline,
          harnessVars, Prerequisites, Close, Enforce, Evaluate, Played, Interrupt, Blocked, Before
    <3> QED BY <2>1, <2>3, <2>5, <2>7, <3>1, TraceStays
  <2>8. CASE pc \in Before /\ chosen' = chosen /\ pc' \in {"prepare", "spawn", "await", "prerequisites", "offer"}
    BY <2>1, <2>3, <2>5, <2>8, TraceStays DEF Before
  <2>9. CASE pc = "probe" /\ pc' = "observe" /\ chosen' = chosen
    BY <2>1, <2>3, <2>5, <2>9, TraceStays DEF Before
  <2> QED BY <2>2, <2>6, <2>7, <2>8, <2>9
<1> QED BY <1>1, <1>2, <1>3, <1>4, <1>5, <1>6, <1>7, <1>8 DEF HarnessNext

LEMMA RepeatsShow ==
  ASSUME HarnessInv, ReplayInv
  PROVE  ReplayRepeats
<1> DEFINE T == progress.trace
           n == Len(T)
           R == recording.trace
<1> SUFFICES ASSUME mode = "replay"
    PROVE  /\ ExecutedActions(T) \subseteq ExecutedActions(R)
           /\ report.status = "pass" /\ Demanding(scenario) => ExecutedActions(T) = ExecutedActions(R)
  BY DEF ReplayRepeats, Demanding
<1>1. /\ IsTrace(T) /\ Ends(scenario, T) /\ n \in Nat /\ DOMAIN T = 1..n
      /\ IsTrace(R) /\ Ends(scenario, R) /\ Len(R) \in Nat /\ DOMAIN R = 1..Len(R)
      /\ n <= Len(R) /\ \A i \in 1..n : Repeats(T[i], R[i])
  BY DEF ReplayInv, TraceInv, RepeatInv, IsTrace, IsList
<1> HIDE DEF T, R, n
<1>2. ASSUME NEW i \in 1..n, T[i].executed
      PROVE  i \in 1..Len(R) /\ R[i].executed /\ Kept(T[i].action) = Kept(R[i].action)
  BY <1>1, <1>2 DEF Repeats
<1>3. ExecutedActions(T) \subseteq ExecutedActions(R)
  BY <1>1, <1>2 DEF ExecutedActions
<1>4. ASSUME report.status = "pass", Demanding(scenario)
      PROVE  n = Len(R) /\ \A i \in 1..n : T[i].executed
  <2>1. pc = "done" /\ IsComplete(progress)
    BY <1>4 DEF HarnessInv, PassEarned
  <2>2. CompleteAt(scenario, T, n)
    BY <2>1 DEF ReplayInv, ProgressTold, IsComplete, CompleteAt, Submitted, T, n
  <2>3. ASSUME n > 0  PROVE T[n].executed
    <3> SUFFICES ASSUME ~T[n].executed PROVE FALSE
      OBVIOUS
    <3> DEFINE m == n - 1
    <3>1. m \in Nat /\ n = m + 1 /\ m \in 0..(n - 1)
      BY <1>1, <2>3
    <3> HIDE DEF m
    <3>2. ~T[m + 1].executed
      BY <3>1
    <3>3. SubmittedBy(T, m + 1) = SubmittedBy(T, m) /\ (ReloadedBy(T, m + 1) <=> ReloadedBy(T, m))
      BY <3>1, <3>2, OneMoreStep
    <3>4. CompleteAt(scenario, T, m)
      BY <2>2, <3>1, <3>3 DEF CompleteAt
    <3>5. \A k \in 0..(Len(T) - 1) : ~CompleteAt(scenario, T, k)
      BY <1>1, <1>4 DEF Ends
    <3> QED BY <3>1, <3>4, <3>5 DEF n
  <2>4. \A i \in 1..n : T[i].executed
    <3>1. \A i \in 1..n : i < Len(T) => T[i].executed
      BY <1>1 DEF Ends, n
    <3>2. \A i \in 1..n : i < n \/ (i = n /\ n > 0)
      BY <1>1
    <3> QED BY <2>3, <3>1, <3>2 DEF n
  <2>5. \A i \in 1..n : Alike(T[i], R[i])
    BY <1>1, <2>4 DEF Alike, Repeats
  <2>6. CompleteAt(scenario, R, n)
    BY <2>2, <2>5, AlikeComplete
  <2>7. n = Len(R)
    <3> SUFFICES ASSUME n # Len(R) PROVE FALSE
      OBVIOUS
    <3>1. n \in Nat /\ Len(R) \in Nat /\ n <= Len(R)
      BY <1>1
    <3>2. n \in 0..(Len(R) - 1)
      BY <3>1
    <3> QED BY <1>1, <1>4, <2>6, <3>2 DEF Ends
  <2> QED BY <2>4, <2>7
<1>5. ASSUME report.status = "pass", Demanding(scenario)
      PROVE  ExecutedActions(R) \subseteq ExecutedActions(T)
  <2>1. \A i \in 1..Len(R) : i \in 1..n /\ T[i].executed /\ Kept(T[i].action) = Kept(R[i].action)
    BY <1>2, <1>4, <1>5
  <2> QED BY <1>1, <2>1 DEF ExecutedActions
<1> QED BY <1>3, <1>5 DEF T, R

\* A replay executes what its recording executed, step by step and with the
\* values that no fixture and no earlier result gives, and passes only when it
\* has executed all of it (runner.ts, recordedChoice and matchesRecorded; inputs.ts,
\* replayCandidate), for any scenarios, sources and codecs, provided that
\* payloads are trees and that a codec encodes each member of an object the same
\* whatever the others are and leaves an encoded one as it is.
THEOREM ReplaysRepeat ==
  ASSUME PayloadsAreTrees, CodecsKeepMembers
  PROVE  HarnessSpec => []ReplayRepeats
<1>1. HarnessInit => ReplayInv
  <2> SUFFICES ASSUME HarnessInit PROVE ReplayInv
    OBVIOUS
  <2>1. /\ progress.trace = <<>> /\ progress.submissions = <<>> /\ ~progress.reloaded
        /\ mode = "record" /\ pc = "validate"
    BY DEF HarnessInit, NoProgress
  <2>2. /\ IsTrace(<<>>) /\ Len(<<>>) = 0 /\ Ends(scenario, <<>>)
        /\ SubmittedBy(<<>>, 0) = {} /\ ~ReloadedBy(<<>>, 0) /\ Replayable(<<>>, <<>>)
    BY DEF IsTrace, IsList, Ends, SubmittedBy, ReloadedBy, Replayable
  <2>3. TraceInv /\ ProgressTold
    BY <2>1, <2>2 DEF TraceInv, ProgressTold, Before, Submitted
  <2>4. RecordInv /\ RepeatInv
    BY <2>1, <2>2 DEF RecordInv, RepeatInv
  <2> QED BY <2>3, <2>4 DEF ReplayInv
<1>2. HarnessInv /\ ReplayInv /\ [HarnessNext]_harnessVars => ReplayInv'
  BY ReplayStep
<1>3. HarnessInv /\ ReplayInv => ReplayRepeats
  BY RepeatsShow
<1> QED BY <1>1, <1>2, <1>3, HarnessInvariance, PTL DEF HarnessSpec

=============================================================================
