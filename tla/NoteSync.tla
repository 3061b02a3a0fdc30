------------------------------ MODULE NoteSync ------------------------------
(***************************************************************************)
(* Field notes, the synchronization slice.  A replica keeps a journal of   *)
(* edits and a projection, the row of the note that readers see.  An edit  *)
(* is journaled and then applied; entries of another replica are journaled *)
(* if they are new and then applied one after the other; a rebuild reads   *)
(* the journal, clears the projection and applies what it read.  Nothing   *)
(* makes these one step, edits are not under the lock synchronization      *)
(* takes, and a replica may crash between any two of them: only journal    *)
(* and projection survive.                                                 *)
(*                                                                         *)
(* One note is modelled, since notes do not interact.  conflictsObserved,  *)
(* which the journal library counts, is left out.                          *)
(***************************************************************************)
EXTENDS Integers

CONSTANTS
  Replicas,   \* replica ids, in their lexicographic order
  Edits,      \* what may be written: [title, revision, replicaId]
  None

ASSUME NoteSyncAssumption ==
  /\ Replicas \subseteq Int
  /\ \A e \in Edits : e.revision \in Nat /\ e.replicaId \in Replicas
  /\ None \notin Edits

VARIABLES
  journal,   \* the edits a replica has journaled
  note,      \* its projection of the note
  work,      \* what each activity of a replica has still to apply
  lost       \* history: journaled, applied by nobody or cleared, in nobody's work

vars == <<journal, note, work, lost>>

Activities == {"edit", "sync", "rebuild"}

\* "read": a rebuild that has not cleared the projection.  sought: the edit
\* whose row is looked up after it was applied.
Works == [stage : {"idle", "read", "apply"}, todo : SUBSET Edits,
          sought : Edits \cup {None}]
Idle == [stage |-> "idle", todo |-> {}, sought |-> None]
Applying(entries) == [stage |-> "apply", todo |-> entries, sought |-> None]

\* An activity that has nothing left ends.
Go(entries) == IF entries = {} THEN Idle ELSE Applying(entries)

\* What an activity will apply to the projection as it is now.
ToApply(r, a) == IF work[r][a].stage = "apply" THEN work[r][a].todo ELSE {}
Pending(r) == UNION {ToApply(r, a) : a \in Activities}

Init ==
  /\ journal = [r \in Replicas |-> {}]
  /\ note = [r \in Replicas |-> None]
  /\ work = [r \in Replicas |-> [a \in Activities |-> Idle]]
  /\ lost = [r \in Replicas |-> {}]

Starts(r, a, w) ==
  /\ work[r][a] = Idle
  /\ work' = [work EXCEPT ![r][a] = w]

\* The journal takes the edit before the handler runs.  An author gives a
\* revision to one edit only.
Edit(r) ==
  \E e \in Edits :
    /\ e.replicaId = r
    /\ \A f \in journal[r] : f.replicaId = r => f.revision # e.revision
    /\ Starts(r, "edit", Applying({e}))
    /\ journal' = [journal EXCEPT ![r] = @ \cup {e}]
    /\ UNCHANGED <<note, lost>>

\* A snapshot of another journal, perhaps an old one, under the lock of the
\* store: what is journaled already is not replayed.
Sync(r, from) ==
  \E entries \in SUBSET journal[from] :
    LET new == entries \ journal[r] IN
      /\ new # {}
      /\ Starts(r, "sync", Applying(new))
      /\ journal' = [journal EXCEPT ![r] = @ \cup new]
      /\ UNCHANGED <<note, lost>>

RebuildRead(r) ==
  /\ Starts(r, "rebuild", [stage |-> "read", todo |-> journal[r], sought |-> None])
  /\ UNCHANGED <<journal, note, lost>>

RebuildClear(r) ==
  /\ work[r]["rebuild"].stage = "read"
  /\ work' = [work EXCEPT ![r]["rebuild"] = Go(@.todo)]
  /\ note' = [note EXCEPT ![r] = None]
  /\ lost' = [lost EXCEPT ![r] =
       journal[r] \ (Pending(r) \cup work[r]["rebuild"].todo)]
  /\ UNCHANGED journal

\* Fault: equal revisions are left as they are.
FaultWins(e, row) == e.revision > row.revision

\* The maximum of (revision, replicaId): the row in place stays on equality.
Wins(e, row) ==
  \/ e.revision > row.revision
  \/ e.revision = row.revision /\ e.replicaId > row.replicaId
Merged(row, e) == IF row = None \/ Wins(e, row) THEN e ELSE row

Apply(r, a) ==
  /\ work[r][a].sought = None
  /\ \E e \in ToApply(r, a) :
       /\ note' = [note EXCEPT ![r] = Merged(note[r], e)]
       /\ work' = [work EXCEPT ![r][a].todo = @ \ {e}, ![r][a].sought = e]
       /\ lost' = [lost EXCEPT ![r] = @ \ {e}]
  /\ UNCHANGED journal

\* An edit is answered, and a replay goes on, with the row that is found.  A
\* defect ends the activity: a rebuild cleared the projection in between.
Find(r, a) ==
  /\ work[r][a].sought # None
  /\ IF note[r] # None
     THEN work' = [work EXCEPT ![r][a] = Go(@.todo)] /\ UNCHANGED lost
     ELSE /\ work' = [work EXCEPT ![r][a] = Idle]
          /\ lost' = [lost EXCEPT ![r] = @ \cup ToApply(r, a)]
  /\ UNCHANGED <<journal, note>>

Crash(r) ==
  /\ work' = [work EXCEPT ![r] = [a \in Activities |-> Idle]]
  /\ lost' = [lost EXCEPT ![r] = @ \cup Pending(r)]
  /\ UNCHANGED <<journal, note>>

Next ==
  \E r \in Replicas :
    \/ Edit(r)
    \/ \E from \in Replicas \ {r} : Sync(r, from)
    \/ RebuildRead(r)
    \/ RebuildClear(r)
    \/ \E a \in Activities : Apply(r, a) \/ Find(r, a)
    \/ Crash(r)

Spec == Init /\ [][Next]_vars
-----------------------------------------------------------------------------
TypeOK ==
  /\ journal \in [Replicas -> SUBSET Edits]
  /\ note \in [Replicas -> Edits \cup {None}]
  /\ work \in [Replicas -> [Activities -> Works]]
  /\ lost \in [Replicas -> SUBSET Edits]

Latest(entries) ==
  {e \in entries : \A f \in entries :
     /\ f.revision <= e.revision
     /\ f.revision = e.revision => f.replicaId <= e.replicaId}

\* A replica with nothing to apply, and no edit that a crash, a defect or a
\* rebuild dropped, shows the one edit of its journal that wins, in whatever
\* order edits, replays, repeated snapshots and rebuilds were interleaved: two
\* such replicas with equal journals show the same note (sync.ts, apply).
ShowsTheWinner ==
  \A r \in Replicas :
    Pending(r) = {} /\ lost[r] = {} =>
      IF journal[r] = {} THEN note[r] = None ELSE Latest(journal[r]) = {note[r]}

=============================================================================
