-------------------------- MODULE MigrationsProofs --------------------------
(***************************************************************************)
(* Theorems about Migrations, for every set of releases and any number of  *)
(* processes that start, die and start again in any order.                 *)
(*                                                                         *)
(* None of the properties is inductive.  What a process found out about    *)
(* the file when it read the ledger must still be true when it applies a   *)
(* migration, although others have written since: Founded says that the    *)
(* first done migrations of its release are still the first done records.  *)
(* The ledger only grows, so this survives the others; and a process whose *)
(* done is behind the ledger's end is stopped by the primary key.          *)
(***************************************************************************)
EXTENDS Migrations, TLAPS

USE MigrationsAssumption

\* The first n migrations of a release are the first n records.
Agree(records, release, n) ==
  /\ n <= Len(release)
  /\ n <= Len(records)
  /\ \A i \in 1..n : records[i] = release[i]

\* What a process that has come this far takes the records to be.
Borne(progress, records) ==
  /\ progress.pc \in {"verifying", "migrating"} =>
       Agree(records, progress.release, progress.done)
  /\ progress.pc \in {"finishing", "serving"} =>
       Agree(records, progress.release, Len(progress.release))

\* What each process knows of the file is true, whoever wrote since.
Founded == \A p \in Processes : Borne(process[p], ledger)

IInv == TypeOK /\ Founded /\ SchemaFollowsLedger /\ AppliedOnce

-----------------------------------------------------------------------------
(* A step either records one migration or leaves the file alone.           *)

\* The process p records m after everything recorded before.
Records(p, m) ==
  /\ catalog' = To[m]
  /\ ledger' = Append(ledger, m)
  /\ runs' = [runs EXCEPT ![m] = @ + 1]
  /\ \A i \in DOMAIN ledger : ledger[i] # m
  /\ process[p].pc = "migrating"
  /\ process[p].done = Len(ledger)
  /\ process[p].done < Len(process[p].release)
  /\ m = process[p].release[process[p].done + 1]
  /\ process' = [process EXCEPT ![p] = [process[p] EXCEPT !.done = @ + 1]]

\* The process p goes on to a progress that the file bears out.
Proceeds(p) ==
  /\ UNCHANGED <<catalog, ledger, runs>>
  /\ \E progress \in Progress :
       /\ process' = [process EXCEPT ![p] = progress]
       /\ Borne(progress, ledger)

\* The artifact to apply is an artifact of a release.
LEMMA PendingArtifact ==
  ASSUME TypeOK, NEW p \in Processes, process[p].pc = "migrating",
         process[p].done < Len(process[p].release)
  PROVE  /\ process[p] \in [pc : {"verifying", "migrating"}, release : Releases, done : Nat]
         /\ process[p].release \in Seq(Artifacts)
         /\ process[p].release[process[p].done + 1] \in Artifacts
<1>0. process[p] \in Progress
  BY DEF TypeOK
<1>1. process[p] \in [pc : {"verifying", "migrating"}, release : Releases, done : Nat]
  BY <1>0 DEF Progress, Down
<1>2. process[p].release \in Seq(Artifacts) /\ process[p].done \in Nat
  BY <1>1
<1>3. process[p].done + 1 \in 1..Len(process[p].release)
  BY <1>2
<1> QED BY <1>1, <1>2, <1>3

\* applyMigration appends: the primary key rejects a process that is behind.
LEMMA ApplyShape ==
  ASSUME IInv, NEW p \in Processes, applyMigration(p)
  PROVE  \E m \in Artifacts : Records(p, m)
<1> DEFINE m == process[p].release[process[p].done + 1]
<1>1. /\ process[p].pc = "migrating"
      /\ process[p].done < Len(process[p].release)
  BY DEF applyMigration
<1>2. /\ process[p].done \in Nat
      /\ m \in Artifacts
  BY <1>1, PendingArtifact DEF IInv
<1>3. process[p].done <= Len(ledger)
  BY <1>1 DEF IInv, Founded, Borne, Agree
<1>4. process[p].done + 1 \notin DOMAIN ledger
  BY DEF applyMigration, Recordable
<1>5. ledger \in Seq(Artifacts)
  BY DEF IInv, TypeOK
<1>6. process[p].done = Len(ledger)
  BY <1>2, <1>3, <1>4, <1>5
<1>7. \A i \in DOMAIN ledger : ledger[i] # m
  BY DEF applyMigration, Recordable
<1>8. /\ catalog' = To[m]
      /\ ledger' = Append(ledger, m)
      /\ runs' = [runs EXCEPT ![m] = @ + 1]
      /\ process' = [process EXCEPT ![p] = [process[p] EXCEPT !.done = @ + 1]]
  BY DEF applyMigration, verifyDatabase, Become
<1> HIDE DEF m
<1>9. m = process[p].release[process[p].done + 1]
  BY DEF m
<1> QED BY <1>1, <1>2, <1>6, <1>7, <1>8, <1>9 DEF Records

\* Every other action only moves the process on, with what it has read.
LEMMA ProceedShape ==
  ASSUME IInv, NEW p \in Processes, Start(p), ~ applyMigration(p)
  PROVE  Proceeds(p)
<1>0. process[p] \in Progress /\ ledger \in Seq(Artifacts)
  BY DEF IInv, TypeOK
<1>1. ASSUME NEW release \in Releases, Boot(p, release)
      PROVE  Proceeds(p)
  <2> DEFINE progress == [pc |-> "reading", release |-> release]
  <2>1. progress \in Progress /\ progress.pc = "reading"
    BY DEF Progress
  <2>2. process' = [process EXCEPT ![p] = progress]
    BY <1>1 DEF Boot, Become
  <2> HIDE DEF progress
  <2> QED BY <1>1, <2>1, <2>2 DEF Boot, Proceeds, Borne
<1>2. CASE ReadLedger(p)
  <2> DEFINE release == process[p].release
  <2> DEFINE progress == [pc |-> "verifying", release |-> release,
                          done |-> Len(ledger)]
  <2>1. release \in Releases /\ release \in Seq(Artifacts)
    BY <1>0, <1>2 DEF ReadLedger, Progress, Down
  <2>2. Agree(ledger, release, Len(ledger))
    BY <1>0, <1>2, <2>1 DEF ReadLedger, Supplied, Agree
  <2>3. process' = [process EXCEPT ![p] = progress]
    BY <1>2 DEF ReadLedger, Become, Recorded
  <2>4. /\ progress \in Progress
        /\ progress.pc = "verifying"
        /\ progress.release = release
        /\ progress.done = Len(ledger)
    BY <1>0, <2>1 DEF Progress
  <2> HIDE DEF progress, release
  <2> QED BY <1>2, <2>2, <2>3, <2>4 DEF ReadLedger, Proceeds, Borne
<1>3. CASE VerifyCurrent(p)
  <2> DEFINE progress == [process[p] EXCEPT !.pc = "migrating"]
  <2>1. process[p] \in [pc : {"verifying", "migrating"}, release : Releases, done : Nat]
    BY <1>0, <1>3 DEF VerifyCurrent, Progress, Down
  <2>2. /\ progress \in Progress
        /\ progress.pc = "migrating"
        /\ progress.release = process[p].release
        /\ progress.done = process[p].done
    BY <2>1 DEF Progress
  <2>3. Agree(ledger, process[p].release, process[p].done)
    BY <1>3 DEF VerifyCurrent, IInv, Founded, Borne
  <2>4. process' = [process EXCEPT ![p] = progress]
    BY <1>3 DEF VerifyCurrent, Become
  <2> HIDE DEF progress
  <2> QED BY <1>3, <2>2, <2>3, <2>4 DEF VerifyCurrent, Proceeds, Borne
<1>4. CASE VerifyTarget(p)
  <2> DEFINE progress == [pc |-> "finishing", release |-> process[p].release]
  <2>1. process[p].release \in Releases
    BY <1>0, <1>4 DEF VerifyTarget, Progress, Down
  <2>2. /\ progress \in Progress
        /\ progress.pc = "finishing"
        /\ progress.release = process[p].release
    BY <2>1 DEF Progress
  <2>3. Agree(ledger, process[p].release, Len(process[p].release))
    BY <1>4 DEF VerifyTarget, IInv, Founded, Borne
  <2>4. process' = [process EXCEPT ![p] = progress]
    BY <1>4 DEF VerifyTarget, Become
  <2> HIDE DEF progress
  <2> QED BY <1>4, <2>2, <2>3, <2>4 DEF VerifyTarget, Proceeds, Borne
<1>5. CASE Serve(p)
  <2> DEFINE progress == [process[p] EXCEPT !.pc = "serving"]
  <2>1. process[p] \in [pc : {"reading", "finishing", "serving"}, release : Releases]
    BY <1>0, <1>5 DEF Serve, Progress, Down
  <2>2. /\ progress \in Progress
        /\ progress.pc = "serving"
        /\ progress.release = process[p].release
    BY <2>1 DEF Progress
  <2>3. Agree(ledger, process[p].release, Len(process[p].release))
    BY <1>5 DEF Serve, IInv, Founded, Borne
  <2>4. process' = [process EXCEPT ![p] = progress]
    BY <1>5 DEF Serve, Become
  <2> HIDE DEF progress
  <2> QED BY <1>5, <2>2, <2>3, <2>4 DEF Serve, Proceeds, Borne
<1>6. CASE Stop(p)
  <2>1. Down \in Progress /\ Down.pc = "down"
    BY DEF Progress, Down
  <2>2. process' = [process EXCEPT ![p] = Down]
    BY <1>6 DEF Stop, Become
  <2> QED BY <1>6, <2>1, <2>2 DEF Stop, Proceeds, Borne
<1> QED BY <1>1, <1>2, <1>3, <1>4, <1>5, <1>6 DEF Start

-----------------------------------------------------------------------------
(* What recording a migration does.                                        *)

\* The state stays of its type.
LEMMA RecordTyped ==
  ASSUME TypeOK, NEW p \in Processes, NEW m \in Artifacts, Records(p, m)
  PROVE  TypeOK'
<1>1. process[p] \in [pc : {"verifying", "migrating"}, release : Releases, done : Nat]
  BY PendingArtifact DEF Records
<1> DEFINE further == [process[p] EXCEPT !.done = @ + 1]
<1>2. further \in [pc : {"verifying", "migrating"}, release : Releases, done : Nat]
  BY <1>1
<1> HIDE DEF further
<1>3. process' \in [Processes -> Progress]
  <2>1. further \in Progress
    BY <1>2 DEF Progress
  <2>2. process' = [process EXCEPT ![p] = further]
    BY DEF Records, further
  <2> QED BY <2>1, <2>2 DEF TypeOK
<1>4. catalog' \in Schemas /\ ledger' \in Seq(Artifacts)
  BY DEF Records, TypeOK
<1>5. runs' \in [Artifacts -> Nat]
  BY DEF Records, TypeOK
<1> QED BY <1>3, <1>4, <1>5 DEF TypeOK

\* What a process takes the records to be survives another record.
LEMMA BorneOn ==
  ASSUME NEW records \in Seq(Artifacts), NEW m \in Artifacts,
         NEW progress \in Progress, Borne(progress, records)
  PROVE  Borne(progress, Append(records, m))
<1> DEFINE more == Append(records, m)
<1>1. /\ Len(more) = Len(records) + 1
      /\ \A i \in 1..Len(records) : more[i] = records[i]
  OBVIOUS
<1> HIDE DEF more
<1>2. ASSUME NEW release \in Seq(Artifacts), NEW n \in Nat,
             Agree(records, release, n)
      PROVE  Agree(more, release, n)
  <2>1. n <= Len(records) /\ Len(records) \in Nat
    BY <1>2 DEF Agree
  <2>2. n <= Len(more)
    BY <1>1, <2>1
  <2>3. \A i \in 1..n : i \in 1..Len(records)
    BY <2>1
  <2> QED BY <1>1, <1>2, <2>2, <2>3 DEF Agree
<1>3. CASE progress \in [pc : {"verifying", "migrating"}, release : Releases, done : Nat]
  <2>1. progress.release \in Seq(Artifacts) /\ progress.done \in Nat
    BY <1>3
  <2>2. progress.pc \in {"verifying", "migrating"}
    BY <1>3
  <2> QED BY <1>2, <2>1, <2>2 DEF Borne, more
<1>4. CASE progress \in [pc : {"reading", "finishing", "serving"}, release : Releases]
  <2>1. progress.release \in Seq(Artifacts) /\ Len(progress.release) \in Nat
    BY <1>4
  <2>2. progress.pc \in {"reading", "finishing", "serving"}
    BY <1>4
  <2> QED BY <1>2, <2>1, <2>2 DEF Borne, more
<1>5. CASE progress = Down
  BY <1>5 DEF Down, Borne
<1> QED BY <1>3, <1>4, <1>5 DEF Progress

\* The recording process knows its own record, the others what they knew.
LEMMA RecordFounded ==
  ASSUME IInv, NEW p \in Processes, NEW m \in Artifacts, Records(p, m)
  PROVE  Founded'
<1>0. ledger \in Seq(Artifacts) /\ ledger' = Append(ledger, m)
  BY DEF IInv, TypeOK, Records
<1> SUFFICES ASSUME NEW q \in Processes PROVE Borne(process'[q], ledger')
  BY DEF Founded
<1>1. CASE q = p
  <2>1. /\ process[p] \in [pc : {"verifying", "migrating"}, release : Releases, done : Nat]
        /\ process[p].release \in Seq(Artifacts)
    BY PendingArtifact DEF Records, IInv
  <2>2. process'[p] = [process[p] EXCEPT !.done = @ + 1]
    BY DEF Records, IInv, TypeOK
  <2> DEFINE release == process[p].release
  <2>3. /\ process'[p].pc = "migrating"
        /\ process'[p].release = release
        /\ process'[p].done = Len(ledger) + 1
    BY <2>1, <2>2 DEF Records
  <2>4. /\ Agree(ledger, release, Len(ledger))
        /\ Len(ledger) < Len(release)
        /\ m = release[Len(ledger) + 1]
    BY DEF Records, IInv, Founded, Borne
  <2>5. release \in Seq(Artifacts)
    BY <2>1
  <2> HIDE DEF release
  <2>6. Agree(ledger', release, Len(ledger) + 1)
    <3>1. Len(ledger) + 1 <= Len(release) /\ Len(ledger) + 1 <= Len(ledger')
      BY <1>0, <2>4, <2>5
    <3>2. ASSUME NEW i \in 1..(Len(ledger) + 1)
          PROVE  ledger'[i] = release[i]
      <4>1. CASE i = Len(ledger) + 1
        BY <1>0, <2>4, <4>1
      <4>2. CASE i # Len(ledger) + 1
        <5>1. i \in 1..Len(ledger)
          BY <1>0, <4>2
        <5> QED BY <1>0, <2>4, <5>1 DEF Agree
      <4> QED BY <4>1, <4>2
    <3> QED BY <3>1, <3>2 DEF Agree
  <2> QED BY <1>1, <2>3, <2>6 DEF Borne
<1>2. CASE q # p
  <2>1. process'[q] = process[q] /\ process[q] \in Progress
    BY <1>2 DEF Records, IInv, TypeOK
  <2>2. Borne(process[q], ledger)
    BY DEF IInv, Founded
  <2> QED BY <1>0, <2>1, <2>2, BorneOn
<1> QED BY <1>1, <1>2

\* The catalog is what the new last record promises.
LEMMA RecordSchema ==
  ASSUME TypeOK, NEW p \in Processes, NEW m \in Artifacts, Records(p, m)
  PROVE  SchemaFollowsLedger'
<1>1. ledger \in Seq(Artifacts) /\ ledger' = Append(ledger, m)
  BY DEF Records, TypeOK
<1>2. Len(ledger') # 0 /\ ledger'[Len(ledger')] = m
  BY <1>1
<1> QED BY <1>2 DEF Records, SchemaFollowsLedger, historySnapshot

\* The recorded artifact had not run, and no other runs.
LEMMA RecordOnce ==
  ASSUME IInv, NEW p \in Processes, NEW m \in Artifacts, Records(p, m)
  PROVE  AppliedOnce'
<1>1. ledger \in Seq(Artifacts) /\ ledger' = Append(ledger, m)
  BY DEF Records, IInv, TypeOK
<1>2. runs \in [Artifacts -> Nat] /\ runs' = [runs EXCEPT ![m] = @ + 1]
  BY DEF Records, IInv, TypeOK
<1>3. /\ Len(ledger') = Len(ledger) + 1
      /\ ledger'[Len(ledger) + 1] = m
      /\ \A i \in DOMAIN ledger : i \in DOMAIN ledger' /\ ledger'[i] = ledger[i]
      /\ \A i \in DOMAIN ledger' : i = Len(ledger) + 1 \/ i \in DOMAIN ledger
      /\ Len(ledger) + 1 \in DOMAIN ledger'
  BY <1>1
<1>4. runs[m] = 0
  BY DEF Records, IInv, AppliedOnce
<1>5. \A n \in Artifacts : n # m => runs'[n] = runs[n]
  BY <1>2
<1>6. runs'[m] = 1
  BY <1>2, <1>4
<1>7. \A n \in Artifacts :
        (\E i \in DOMAIN ledger' : ledger'[i] = n)
        <=> n = m \/ \E i \in DOMAIN ledger : ledger[i] = n
  BY <1>3
<1> QED BY <1>5, <1>6, <1>7 DEF IInv, AppliedOnce

-----------------------------------------------------------------------------

\* The inductive invariant holds initially: nothing is recorded.
LEMMA InitialInvariant == Init => IInv
<1> SUFFICES ASSUME Init PROVE IInv
  OBVIOUS
<1>1. \A p \in Processes : process[p] = Down /\ process[p].pc = "down"
  BY DEF Init, Down
<1>2. TypeOK
  BY DEF Init, TypeOK, Progress
<1>3. Founded
  BY <1>1 DEF Founded, Borne
<1>4. SchemaFollowsLedger /\ AppliedOnce
  BY DEF Init, SchemaFollowsLedger, historySnapshot, AppliedOnce
<1> QED BY <1>2, <1>3, <1>4 DEF IInv

\* Every step preserves the inductive invariant.
LEMMA InductiveStep == IInv /\ [Next]_vars => IInv'
<1> SUFFICES ASSUME IInv, [Next]_vars PROVE IInv'
  OBVIOUS
<1>1. CASE UNCHANGED vars
  BY <1>1 DEF vars, IInv, TypeOK, Founded, Borne, Agree, SchemaFollowsLedger,
              historySnapshot, AppliedOnce
<1>2. ASSUME NEW p \in Processes, applyMigration(p)
      PROVE  IInv'
  <2>1. PICK m \in Artifacts : Records(p, m)
    BY <1>2, ApplyShape
  <2> QED BY <2>1, RecordTyped, RecordFounded, RecordSchema, RecordOnce DEF IInv
<1>3. ASSUME NEW p \in Processes, Proceeds(p)
      PROVE  IInv'
  <2>1. PICK progress \in Progress :
          /\ process' = [process EXCEPT ![p] = progress]
          /\ Borne(progress, ledger)
    BY <1>3 DEF Proceeds
  <2>2. catalog' = catalog /\ ledger' = ledger /\ runs' = runs
    BY <1>3 DEF Proceeds
  <2>3. TypeOK'
    BY <2>1, <2>2 DEF IInv, TypeOK
  <2>4. \A q \in Processes :
          process'[q] = IF q = p THEN progress ELSE process[q]
    BY <2>1 DEF IInv, TypeOK
  <2>5. Founded'
    BY <2>1, <2>2, <2>4 DEF IInv, Founded
  <2>6. SchemaFollowsLedger' /\ AppliedOnce'
    BY <2>2 DEF IInv, SchemaFollowsLedger, historySnapshot, AppliedOnce
  <2> QED BY <2>3, <2>5, <2>6 DEF IInv
<1> QED BY <1>1, <1>2, <1>3, ProceedShape DEF Next

\* IInv holds throughout.
LEMMA Invariance == Spec => []IInv
BY InitialInvariant, InductiveStep, PTL DEF Spec

\* Type correctness: the catalog is always a schema, never what a failed step
\* left, and no process counts below zero.
THEOREM TypeCorrect == Spec => []TypeOK
<1>1. IInv => TypeOK
  BY DEF IInv
<1> QED BY <1>1, Invariance, PTL

\* The file is always at the schema that its last record promises, however
\* many processes migrate it and wherever they die.
THEOREM SchemaAtLedger == Spec => []SchemaFollowsLedger
<1>1. IInv => SchemaFollowsLedger
  BY DEF IInv
<1> QED BY <1>1, Invariance, PTL

\* No migration is applied twice, whatever each process found pending.
THEOREM NothingAppliedTwice == Spec => []AppliedOnce
<1>1. IInv => AppliedOnce
  BY DEF IInv
<1> QED BY <1>1, Invariance, PTL

\* The ledger tells the truth about the file, of its catalog and of its rows.
THEOREM LedgerIsTruthful == Spec => []LedgerTellsTruth
BY SchemaAtLedger, NothingAppliedTwice, PTL DEF LedgerTellsTruth

\* All processes that serve agree on the history of the file.
THEOREM ServersShareHistory == Spec => []OneHistory
<1>1. ASSUME IInv PROVE OneHistory
  <2> SUFFICES ASSUME NEW p \in Processes,
                      process[p].pc \in {"finishing", "serving"}
      PROVE  /\ Len(process[p].release) <= Len(ledger)
             /\ \A i \in DOMAIN process[p].release :
                  ledger[i] = process[p].release[i]
    BY DEF OneHistory
  <2>1. process[p].release \in Seq(Artifacts)
    BY <1>1 DEF IInv, TypeOK, Progress, Down
  <2>2. Agree(ledger, process[p].release, Len(process[p].release))
    BY <1>1 DEF IInv, Founded, Borne
  <2>3. DOMAIN process[p].release = 1..Len(process[p].release)
    BY <2>1
  <2> QED BY <2>2, <2>3 DEF Agree
<1> QED BY <1>1, Invariance, PTL
=============================================================================
