--------------------------- MODULE CommandsProofs ---------------------------
(***************************************************************************)
(* First, Commands implements AtomicCommands, whatever the applications    *)
(* behind the boundary are.  A handler is any script, and what a script    *)
(* does is defined by recursion over its statements: the recursive         *)
(* equation is proved by induction on sets of natural numbers.             *)
(*                                                                         *)
(* Then, what the five applications promise, for any tenants, stock,       *)
(* agents, voters, requests and callers.  Sums are shown not to depend on  *)
(* the order of summation.  For each application a section says what its   *)
(* database always is and proves that every handler keeps it; a last       *)
(* section brings that through the boundary, whose transactions execute a  *)
(* handler statement by statement.                                         *)
(***************************************************************************)
EXTENDS Applications, FiniteSetsExt, FiniteSetTheorems, SequenceTheorems,
        TLAPS, WellFoundedInduction

-----------------------------------------------------------------------------
(***************************************************************************)
(* Induction.                                                              *)
(***************************************************************************)

\* A set of natural numbers that is not empty has a least element.
LEMMA Least ==
  ASSUME NEW T, T \subseteq Nat, T # {}
  PROVE  \E x \in T : \A y \in T : ~(y < x)
<1>1. IsWellFoundedOn(OpToRel(<, Nat), Nat)
  BY NatLessThanWellFounded
<1>2. PICK x \in T : \A y \in T : <<y, x>> \notin OpToRel(<, Nat)
  BY <1>1, WFMin
<1>3. \A y \in T : ~(y < x)
  BY <1>2 DEF OpToRel
<1> QED BY <1>3

\* Induction, for a property that is given by the set of its numbers.
LEMMA SetInduction ==
  ASSUME NEW S, 0 \in S, \A n \in Nat : n \in S => n + 1 \in S
  PROVE  Nat \subseteq S
<1>1. SUFFICES ASSUME Nat \ S # {} PROVE FALSE
  OBVIOUS
<1>2. PICK x \in Nat \ S : \A y \in Nat \ S : ~(y < x)
  BY <1>1, Least
<1>3. x - 1 \in Nat /\ x - 1 < x
  BY <1>2
<1>4. x - 1 \in S
  BY <1>2, <1>3
<1>5. (x - 1) + 1 \in S
  BY <1>3, <1>4
<1> QED BY <1>2, <1>5

-----------------------------------------------------------------------------
(***************************************************************************)
(* The statements of a script, one after the other.                        *)
(***************************************************************************)

\* What the i-th statement makes of the outcome of those before it.
Step(q, before, i) ==
  IF before.failure # Succeeds THEN before
  ELSE Execute(Script(q)[i], q, before.seen, before.db)

IsRun(q, d, n, f) ==
  f = [i \in 0..n |-> IF i = 0 THEN Done(d, Nothing) ELSE Step(q, f[i - 1], i)]

\* The first n statements have a run.
LEMMA RunExists ==
  ASSUME NEW q, NEW d, NEW n \in Nat
  PROVE  \E f : IsRun(q, d, n, f)
<1> DEFINE S == {m \in Nat : \E f : IsRun(q, d, m, f)}
<1>1. 0 \in S
  <2>1. IsRun(q, d, 0, [i \in 0..0 |-> Done(d, Nothing)])
    BY DEF IsRun
  <2> QED BY <2>1
<1>2. ASSUME NEW m \in Nat, m \in S PROVE m + 1 \in S
  <2>1. PICK f : IsRun(q, d, m, f)
    BY <1>2
  <2> DEFINE g == [i \in 0..(m + 1) |->
                    IF i = m + 1 THEN Step(q, f[m], m + 1) ELSE f[i]]
  <2>2. ASSUME NEW i \in 0..(m + 1)
        PROVE  g[i] = IF i = 0 THEN Done(d, Nothing) ELSE Step(q, g[i - 1], i)
    <3>1. CASE i = m + 1
      <4>1. i # 0 /\ i - 1 = m /\ m \in 0..(m + 1) /\ m # m + 1
        BY <3>1
      <4>2. g[m] = f[m]
        BY <4>1
      <4> QED BY <3>1, <4>1, <4>2
    <3>2. CASE i # m + 1
      <4>1. i \in 0..m /\ g[i] = f[i]
        BY <3>2
      <4>2. f[i] = IF i = 0 THEN Done(d, Nothing) ELSE Step(q, f[i - 1], i)
        BY <2>1, <4>1 DEF IsRun
      <4>3. i # 0 => i - 1 \in 0..(m + 1) /\ i - 1 # m + 1
        BY <4>1
      <4>4. i # 0 => g[i - 1] = f[i - 1]
        BY <4>3
      <4> QED BY <4>1, <4>2, <4>4
    <3> QED BY <3>1, <3>2
  <2>3. IsRun(q, d, m + 1, g)
    BY <2>2 DEF IsRun
  <2> QED BY <2>3
<1>3. Nat \subseteq S
  <2> HIDE DEF S
  <2> QED BY <1>1, <1>2, SetInduction
<1> QED BY <1>3

\* Two runs agree as far as both go.
LEMMA RunsAgree ==
  ASSUME NEW q, NEW d, NEW m \in Nat, NEW n \in Nat, m <= n,
         NEW f, IsRun(q, d, m, f), NEW g, IsRun(q, d, n, g)
  PROVE  \A i \in 0..m : f[i] = g[i]
<1> DEFINE S == {i \in Nat : i <= m => f[i] = g[i]}
<1>0. ASSUME NEW i \in 0..m
      PROVE  /\ f[i] = IF i = 0 THEN Done(d, Nothing) ELSE Step(q, f[i - 1], i)
             /\ g[i] = IF i = 0 THEN Done(d, Nothing) ELSE Step(q, g[i - 1], i)
  <2>1. i \in 0..n
    OBVIOUS
  <2> QED BY <2>1 DEF IsRun
<1>1. 0 \in S
  BY <1>0
<1>2. ASSUME NEW i \in Nat, i \in S PROVE i + 1 \in S
  <2>1. SUFFICES ASSUME i + 1 <= m PROVE f[i + 1] = g[i + 1]
    OBVIOUS
  <2>2. f[i] = g[i] /\ i + 1 \in 0..m /\ i + 1 # 0 /\ (i + 1) - 1 = i
    BY <1>2, <2>1
  <2> QED BY <1>0, <2>2
<1>3. Nat \subseteq S
  <2> HIDE DEF S
  <2> QED BY <1>1, <1>2, SetInduction
<1> QED BY <1>3

\* The recursive definition of AtomicCommands is the run it describes.
LEMMA AfterIsRun ==
  ASSUME NEW q, NEW d, NEW n \in Nat
  PROVE  \E f : IsRun(q, d, n, f) /\ Atomic!After(q, n, d) = f[n]
<1>1. \E f : IsRun(q, d, n, f)
  BY RunExists
<1>2. IsRun(q, d, n, CHOOSE f : IsRun(q, d, n, f))
  BY <1>1
<1>3. Atomic!After(q, n, d) = (CHOOSE f : IsRun(q, d, n, f))[n]
  BY DEF Atomic!After, IsRun, Step, Atomic!Done, Atomic!Nothing, Atomic!Succeeds,
         Done, Nothing, Succeeds
<1> QED BY <1>2, <1>3

LEMMA AfterNone ==
  ASSUME NEW q, NEW d
  PROVE  Atomic!After(q, 0, d) = Done(d, Nothing)
<1>1. PICK f : IsRun(q, d, 0, f) /\ Atomic!After(q, 0, d) = f[0]
  BY AfterIsRun
<1> QED BY <1>1 DEF IsRun

LEMMA AfterOneMore ==
  ASSUME NEW q, NEW d, NEW n \in Nat
  PROVE  Atomic!After(q, n + 1, d) = Step(q, Atomic!After(q, n, d), n + 1)
<1>1. PICK f : IsRun(q, d, n, f) /\ Atomic!After(q, n, d) = f[n]
  BY AfterIsRun
<1>2. PICK g : IsRun(q, d, n + 1, g) /\ Atomic!After(q, n + 1, d) = g[n + 1]
  BY AfterIsRun
<1>3. f[n] = g[n]
  BY <1>1, <1>2, RunsAgree
<1>4. g[n + 1] = Step(q, g[n], n + 1)
  <2>1. n + 1 \in 0..(n + 1) /\ n + 1 # 0 /\ (n + 1) - 1 = n
    OBVIOUS
  <2> QED BY <1>2, <2>1 DEF IsRun
<1> QED BY <1>1, <1>2, <1>3, <1>4

\* A statement that fails is the last one.
LEMMA FailureStays ==
  ASSUME NEW q, NEW d, NEW m \in Nat, Atomic!After(q, m, d).failure # Succeeds,
         NEW n \in Nat, m <= n
  PROVE  Atomic!After(q, n, d) = Atomic!After(q, m, d)
<1> DEFINE S == {k \in Nat : Atomic!After(q, m + k, d) = Atomic!After(q, m, d)}
<1>1. 0 \in S
  OBVIOUS
<1>2. ASSUME NEW k \in Nat, k \in S PROVE k + 1 \in S
  <2>1. Atomic!After(q, (m + k) + 1, d) = Step(q, Atomic!After(q, m + k, d), (m + k) + 1)
    BY AfterOneMore
  <2>2. (m + k) + 1 = m + (k + 1)
    OBVIOUS
  <2>3. Atomic!After(q, m + k, d) = Atomic!After(q, m, d)
    BY <1>2
  <2>4. Atomic!After(q, m + (k + 1), d) = Atomic!After(q, m, d)
    BY <2>1, <2>2, <2>3 DEF Step
  <2> QED BY <2>4
<1>3. Nat \subseteq S
  <2> HIDE DEF S
  <2> QED BY <1>1, <1>2, SetInduction
<1>4. n - m \in S /\ m + (n - m) = n
  BY <1>3
<1> QED BY <1>4

-----------------------------------------------------------------------------
(***************************************************************************)
(* The inductive invariant.                                                *)
(***************************************************************************)

\* A call in progress is at a statement of the script of a request, or past it.
AtStatement(call) ==
  /\ IsHandled(call.request)
  /\ call.at \in 1..(Len(Script(call.request)) + 1)

\* The statements of a transaction so far are those of its script, on what was
\* committed when it began and still is.
Prefix(call) ==
  LET before == Atomic!After(call.request, call.at - 1, db)
  IN  before.failure = Succeeds /\ before.db = work /\ before.seen = call.seen

\* A transaction holds the connection; a command of one statement is at it.
CallOK(c) ==
  calls[c] # Idle =>
    /\ AtStatement(calls[c])
    /\ Transactional(calls[c].request) => holder = c /\ Prefix(calls[c])
    /\ ~Transactional(calls[c].request) /\ Len(Script(calls[c].request)) = 1 =>
         calls[c].at = 1 /\ calls[c].seen = Nothing

IInv ==
  /\ calls = [c \in Clients |-> calls[c]]
  /\ holder \in Clients \cup {None}
  /\ holder = None => work = db
  /\ holder # None => calls[holder] # Idle /\ Transactional(calls[holder].request)
  /\ \A c \in Clients : CallOK(c)

-----------------------------------------------------------------------------
(***************************************************************************)
(* The invariant is kept.                                                  *)
(***************************************************************************)

\* The definitions a step is made of.
USE DEF Request, InTransaction

LEMMA InitIInv == Init => IInv
  BY CommandsAssumption DEF Init, IInv, CallOK

LEMMA StartKeeps ==
  ASSUME IInv, Handled, NEW c \in Clients, NEW q \in Requests(db), Start(c, q)
  PROVE  IInv'
<1> DEFINE call == Running(q, 1, Nothing)
<1>1. /\ calls' = [calls EXCEPT ![c] = call] /\ calls[c] = Idle
      /\ UNCHANGED <<db, work>>
      /\ IsHandled(q)
      /\ IF Transactional(q) THEN holder = None /\ holder' = c ELSE holder' = holder
  BY DEF Start, Handled, Free
<1>2. calls' = [x \in Clients |-> calls'[x]] /\ calls'[c] = call
      /\ \A x \in Clients : x # c => calls'[x] = calls[x]
  BY <1>1 DEF IInv
<1>3. call # Idle /\ call.request = q /\ call.at = 1 /\ call.seen = Nothing
  BY DEF Running, Idle
<1>4. Len(Script(q)) \in Nat
  BY <1>1 DEF IsHandled
<1>5. AtStatement(call)
  BY <1>1, <1>3, <1>4 DEF AtStatement
<1>6. CallOK(c)'
  <2>1. AtStatement(calls'[c])
    BY <1>2, <1>5
  <2>2. CASE Transactional(q)
    <3>1. work = db /\ holder' = c
      BY <2>2, <1>1 DEF IInv
    <3>2. Atomic!After(q, 0, db) = Done(db, Nothing)
      BY AfterNone
    <3>3. Prefix(call)'
      BY <1>1, <1>3, <3>1, <3>2 DEF Prefix, Done, Succeeds
    <3> QED BY <1>2, <1>3, <2>1, <2>2, <3>1, <3>3 DEF CallOK, Prefix, AtStatement
  <2>3. CASE ~Transactional(q)
    BY <1>2, <1>3, <2>1, <2>3 DEF CallOK, AtStatement
  <2> QED BY <2>2, <2>3
<1>7. ASSUME NEW x \in Clients, x # c PROVE CallOK(x)'
  <2>1. calls'[x] = calls[x] /\ CallOK(x) /\ holder # x => ~Transactional(calls[x].request) \/ calls[x] = Idle
    BY <1>2, <1>7 DEF IInv, CallOK
  <2>2. calls[x] # Idle /\ Transactional(calls[x].request) => holder = x /\ holder # None
    BY CommandsAssumption DEF IInv, CallOK
  <2>3. calls[x] # Idle /\ Transactional(calls[x].request) => holder' = x
    BY <1>1, <2>2
  <2> QED BY <1>1, <1>2, <1>7, <2>1, <2>3 DEF CallOK, AtStatement, Prefix, IInv
<1>8. holder' # None => calls'[holder'] # Idle /\ Transactional(calls'[holder'].request)
  BY <1>1, <1>2, <1>3, CommandsAssumption DEF IInv
<1> QED BY <1>1, <1>2, <1>6, <1>7, <1>8, CommandsAssumption DEF IInv

\* A call that is not c's goes on as it was: if it is a transaction, c is none.
LEMMA OthersKeep ==
  ASSUME IInv, NEW c \in Clients, NEW x \in Clients, x # c, calls'[x] = calls[x],
         holder \in {None, c} \/ UNCHANGED <<db, work, holder>>
  PROVE  CallOK(x)'
<1>1. CallOK(x)
  BY DEF IInv
<1>2. CASE holder \in {None, c}
  <2>1. calls[x] # Idle => ~Transactional(calls[x].request)
    BY <1>1, <1>2, CommandsAssumption DEF CallOK
  <2> QED BY <1>1, <2>1 DEF CallOK, AtStatement
<1>3. CASE UNCHANGED <<db, work, holder>>
  BY <1>1, <1>3 DEF CallOK, AtStatement, Prefix
<1> QED BY <1>2, <1>3

\* A call ends: its transaction with it, and nobody else's.
LEMMA EndKeeps ==
  ASSUME IInv, NEW c \in Clients, calls' = [calls EXCEPT ![c] = Idle],
         \/ holder \in {None, c} /\ holder' = None /\ work' = db'
         \/ holder # c /\ UNCHANGED <<db, work, holder>>
  PROVE  IInv'
<1>1. calls' = [x \in Clients |-> calls'[x]] /\ calls'[c] = Idle
      /\ \A x \in Clients : x # c => calls'[x] = calls[x]
  BY DEF IInv
<1>2. \A x \in Clients : CallOK(x)'
  <2>1. CallOK(c)'
    BY <1>1 DEF CallOK
  <2>2. ASSUME NEW x \in Clients, x # c PROVE CallOK(x)'
    BY <1>1, <2>2, OthersKeep
  <2> QED BY <2>1, <2>2
<1>3. CASE holder \in {None, c} /\ holder' = None /\ work' = db'
  BY <1>1, <1>2, <1>3 DEF IInv
<1>4. CASE holder # c /\ UNCHANGED <<db, work, holder>>
  BY <1>1, <1>2, <1>4 DEF IInv
<1> QED BY <1>3, <1>4

LEMMA ReleaseKeeps ==
  ASSUME IInv, NEW c \in Clients, calls' = [calls EXCEPT ![c] = Idle], Release(c)
  PROVE  IInv'
<1>1. CASE holder = c
  <2>1. holder' = None /\ work' = db'
    BY <1>1 DEF Release, RollBack
  <2> QED BY <1>1, <2>1, EndKeeps
<1>2. CASE holder # c
  BY <1>2, EndKeeps DEF Release
<1> QED BY <1>1, <1>2

\* The only statement of a script is its last.
LEMMA OnlyIsLast ==
  ASSUME NEW n \in Nat, NEW i \in 1..n, i # n
  PROVE  n # 1
<1>1. i \in Nat /\ 1 <= i /\ i <= n
  OBVIOUS
<1> QED BY <1>1

LEMMA ProceedKeeps ==
  ASSUME IInv, NEW c \in Clients, Proceed(c)
  PROVE  IInv'
<1> DEFINE q == calls[c].request
           at == calls[c].at
           outcome == Execute(Script(q)[at], q, calls[c].seen, work)
<1>1. /\ calls[c] # Idle /\ CallOK(c) /\ AtStatement(calls[c])
      /\ IF Transactional(q) THEN holder = c ELSE holder = None
      /\ at \in 1..Len(Script(q)) /\ Len(Script(q)) \in Nat
      /\ outcome.failure = Succeeds /\ work' = outcome.db /\ holder' = holder
      /\ IF Transactional(q) THEN db' = db ELSE db' = outcome.db
  <2>1. calls[c] # Idle /\ CallOK(c) /\ AtStatement(calls[c])
    BY DEF Proceed, Ready, IInv, CallOK
  <2>2. Len(Script(q)) \in Nat /\ ~(at > Len(Script(q))) /\ at \in 1..(Len(Script(q)) + 1)
    BY <2>1 DEF AtStatement, IsHandled, Proceed, AtEnd
  <2>3. at \in 1..Len(Script(q))
    BY <2>2
  <2>4. Statement(c) = Script(q)[at]
    BY DEF Statement
  <2> QED BY <2>1, <2>2, <2>3, <2>4 DEF Proceed, Ready, Free
<1>2. CASE ~Transactional(q) /\ at = Len(Script(q))
  <2>1. calls' = [calls EXCEPT ![c] = Idle]
    BY <1>2 DEF Proceed, Return
  <2> QED BY <1>1, <1>2, <2>1, EndKeeps
<1>3. CASE ~(~Transactional(q) /\ at = Len(Script(q)))
  <2>1. calls' = [calls EXCEPT ![c] = Running(q, at + 1, outcome.seen)]
    BY <1>3 DEF Proceed, Statement
  <2>2. calls' = [x \in Clients |-> calls'[x]]
        /\ \A x \in Clients : x # c => calls'[x] = calls[x]
    BY <2>1 DEF IInv
  <2>3. calls'[c] = [pc |-> "running", request |-> q, at |-> at + 1, seen |-> outcome.seen]
    BY <2>1 DEF IInv, Running
  <2>4. /\ calls'[c].request = q /\ calls'[c].at = at + 1 /\ calls'[c].seen = outcome.seen
        /\ calls'[c] # Idle
    BY <2>3 DEF Idle
  <2>5. AtStatement(calls'[c])
    BY <1>1, <2>3, <2>4 DEF AtStatement
  <2>6. CallOK(c)'
    <3>1. CASE Transactional(q)
      <4>1. holder = c /\ Prefix(calls[c]) /\ db' = db /\ holder' = c
        BY <1>1, <3>1 DEF CallOK
      <4>2. at - 1 \in Nat /\ (at - 1) + 1 = at /\ (at + 1) - 1 = at
        BY <1>1
      <4>3. Atomic!After(q, at, db) = Step(q, Atomic!After(q, at - 1, db), at)
        BY <4>2, AfterOneMore
      <4>4. Atomic!After(q, at, db) = outcome
        BY <4>1, <4>3 DEF Prefix, Step
      <4>5. Prefix(calls[c])'
        BY <1>1, <2>4, <4>1, <4>2, <4>4 DEF Prefix
      <4> QED BY <2>4, <2>5, <3>1, <4>1, <4>5 DEF CallOK, AtStatement
    <3>2. CASE ~Transactional(q)
      <4>1. Len(Script(q)) \in Nat /\ at \in 1..Len(Script(q)) /\ at # Len(Script(q))
        BY <1>1, <1>3, <3>2
      <4>2. Len(Script(q)) # 1
        BY <4>1, OnlyIsLast
      <4> QED BY <2>4, <2>5, <3>2, <4>2 DEF CallOK, AtStatement
    <3> QED BY <3>1, <3>2
  <2>7. ASSUME NEW x \in Clients, x # c PROVE CallOK(x)'
    <3>1. holder \in {None, c}
      BY <1>1
    <3> QED BY <2>2, <2>7, <3>1, OthersKeep
  <2>8. holder' = None => work' = db'
    BY <1>1, CommandsAssumption
  <2>9. holder' # None => calls'[holder'] # Idle /\ Transactional(calls'[holder'].request)
    BY <1>1, <2>4
  <2> QED BY <1>1, <2>2, <2>6, <2>7, <2>8, <2>9 DEF IInv
<1> QED BY <1>2, <1>3

LEMMA CommitKeeps ==
  ASSUME IInv, NEW c \in Clients, Commit(c)
  PROVE  IInv'
<1>1. holder = c /\ holder' = None /\ work' = db' /\ calls' = [calls EXCEPT ![c] = Idle]
  BY DEF Commit, Return
<1> QED BY <1>1, EndKeeps

LEMMA CrashKeeps ==
  ASSUME IInv, Crash
  PROVE  IInv'
<1>1. calls' = [c \in Clients |-> Idle] /\ holder' = None /\ work' = db'
  BY DEF Crash
<1>2. \A c \in Clients : calls'[c] = Idle
  BY <1>1
<1> QED BY <1>1, <1>2 DEF IInv, CallOK

LEMMA NextKeeps ==
  ASSUME IInv, Handled, [Next]_vars
  PROVE  IInv'
<1>1. ASSUME NEW c \in Clients, NEW q \in Requests(db), Start(c, q) PROVE IInv'
  BY <1>1, StartKeeps
<1>2. ASSUME NEW c \in Clients, Proceed(c) PROVE IInv'
  BY <1>2, ProceedKeeps
<1>3. ASSUME NEW c \in Clients, Refuse(c) PROVE IInv'
  BY <1>3, ReleaseKeeps DEF Refuse, Return
<1>4. ASSUME NEW c \in Clients, Commit(c) PROVE IInv'
  BY <1>4, CommitKeeps
<1>5. ASSUME NEW c \in Clients, Break(c) PROVE IInv'
  BY <1>5, ReleaseKeeps DEF Break, Return
<1>6. ASSUME NEW c \in Clients, Interrupt(c) PROVE IInv'
  BY <1>6, ReleaseKeeps DEF Interrupt
<1>7. CASE Crash
  BY <1>7, CrashKeeps
<1>8. CASE UNCHANGED vars
  BY <1>8 DEF vars, IInv, CallOK, AtStatement, Prefix
<1> QED BY <1>1, <1>2, <1>3, <1>4, <1>5, <1>6, <1>7, <1>8 DEF Next

-----------------------------------------------------------------------------
(***************************************************************************)
(* Every step is one of AtomicCommands, or none.                           *)
(***************************************************************************)

\* The requests that wait for an answer, as AtomicCommands sees them.
Waiting == [c \in Clients |-> IF calls[c] = Idle THEN None ELSE Request(c)]

USE DEF Succeeds, Atomic!Succeeds, Unavailable, Atomic!Unavailable,
        Nothing, Atomic!Nothing, Answer, Atomic!Answer

LEMMA InitRefines ==
  ASSUME Init
  PROVE  Atomic!Init
<1>1. Waiting = [c \in Clients |-> None]
  BY DEF Init, Waiting
<1> QED BY <1>1 DEF Init, Atomic!Init, NoAnswer, Waiting

\* A call that is over is not waited for any more.
LEMMA Forgotten ==
  ASSUME IInv, NEW c \in Clients, calls[c] # Idle, calls' = [calls EXCEPT ![c] = Idle]
  PROVE  /\ Waiting[c] = calls[c].request
         /\ Waiting[c] # None
         /\ Waiting' = [Waiting EXCEPT ![c] = None]
         /\ Atomic!Forget(c)
<1>1. Waiting[c] = calls[c].request /\ Waiting[c] # None
  BY DEF Waiting, IInv, CallOK, AtStatement, IsHandled
<1>2. \A x \in Clients : calls'[x] = IF x = c THEN Idle ELSE calls[x]
  BY DEF IInv
<1>3. Waiting' = [Waiting EXCEPT ![c] = None]
  <2>1. Waiting' = [x \in Clients |-> IF x = c THEN None ELSE Waiting[x]]
    BY <1>2 DEF Waiting
  <2>2. Waiting = [x \in Clients |-> Waiting[x]]
    BY DEF Waiting
  <2> QED BY <2>1, <2>2
<1> QED BY <1>1, <1>3 DEF Atomic!Forget, Waiting

\* The whole handler, when its statements have been executed up to the i-th and
\* that one was the last or failed.
LEMMA WholeIs ==
  ASSUME NEW q, IsHandled(q), NEW i \in Nat, NEW d,
         \/ i = Len(Script(q))
         \/ i <= Len(Script(q)) /\ Atomic!After(q, i, d).failure # Succeeds
  PROVE  Atomic!Whole(q, d) = Atomic!After(q, i, d)
<1>1. Len(Script(q)) \in Nat
  BY DEF IsHandled
<1> QED BY <1>1, FailureStays DEF Atomic!Whole

\* The statement a whole command is at does what it does in the whole.
LEMMA StatementIs ==
  ASSUME IInv, NEW c \in Clients, Ready(c), ~AtEnd(c), Atomic!IsWhole(calls[c].request)
  PROVE  LET q == calls[c].request
             at == calls[c].at
         IN  /\ at \in 1..Len(Script(q))
             /\ Atomic!After(q, at, db) = Execute(Script(q)[at], q, calls[c].seen, work)
<1> DEFINE q == calls[c].request
           at == calls[c].at
<1>1. calls[c] # Idle /\ CallOK(c) /\ AtStatement(calls[c])
  BY DEF Ready, IInv, CallOK
<1>2. Len(Script(q)) \in Nat /\ ~(at > Len(Script(q))) /\ at \in 1..(Len(Script(q)) + 1)
  BY <1>1 DEF AtStatement, IsHandled, AtEnd
<1>3. at \in 1..Len(Script(q)) /\ at - 1 \in Nat /\ (at - 1) + 1 = at
  BY <1>2
<1>4. Atomic!After(q, at, db) = Step(q, Atomic!After(q, at - 1, db), at)
  BY <1>3, AfterOneMore
<1>5. CASE Transactional(q)
  BY <1>1, <1>3, <1>4, <1>5 DEF CallOK, Prefix, Step
<1>6. CASE ~Transactional(q)
  <2>1. Len(Script(q)) = 1 /\ work = db
    BY <1>6 DEF Atomic!IsWhole, Ready, Free, IInv
  <2>2. at = 1 /\ calls[c].seen = Nothing
    BY <1>1, <1>6, <2>1 DEF CallOK
  <2>3. Atomic!After(q, 0, db) = Done(db, Nothing)
    BY AfterNone
  <2>4. Atomic!After(q, at - 1, db) = Done(db, Nothing)
    BY <2>2, <2>3
  <2>5. Step(q, Done(db, Nothing), at) = Execute(Script(q)[at], q, Nothing, db)
    BY DEF Step, Done
  <2> QED BY <1>3, <1>4, <2>1, <2>2, <2>4, <2>5
<1> QED BY <1>3, <1>5, <1>6

LEMMA StartRefines ==
  ASSUME IInv, HandlersSound, NEW c \in Clients, NEW q \in Requests(db), Start(c, q)
  PROVE  Atomic!Ask(c)
<1>1. /\ calls[c] = Idle /\ UNCHANGED <<db, answer>>
      /\ \A x \in Clients : calls'[x] = IF x = c THEN Running(q, 1, Nothing) ELSE calls[x]
  BY DEF Start, IInv
<1>2. Waiting[c] = None
  BY <1>1 DEF Waiting
<1>3. Running(q, 1, Nothing) # Idle /\ Running(q, 1, Nothing).request = q
  BY DEF Running, Idle
<1>4. Waiting' = [Waiting EXCEPT ![c] = q]
  BY <1>1, <1>3 DEF Waiting
<1> QED BY <1>1, <1>2, <1>4 DEF Atomic!Ask, Waiting

LEMMA CommitRefines ==
  ASSUME IInv, NEW c \in Clients, Commit(c)
  PROVE  Atomic!Perform(c)
<1> DEFINE q == calls[c].request
           at == calls[c].at
<1>1. /\ holder = c /\ calls[c] # Idle /\ Transactional(q)
      /\ CallOK(c) /\ AtStatement(calls[c]) /\ Prefix(calls[c])
  BY CommandsAssumption DEF Commit, IInv, CallOK
<1>2. Len(Script(q)) \in Nat /\ at \in 1..(Len(Script(q)) + 1) /\ at > Len(Script(q))
  BY <1>1 DEF AtStatement, IsHandled, Commit, AtEnd
<1>3. at - 1 = Len(Script(q))
  BY <1>2
<1>4. Atomic!Whole(q, db) = Atomic!After(q, at - 1, db)
  BY <1>1, <1>2, <1>3, WholeIs DEF AtStatement
<1>5. /\ Atomic!Whole(q, db).failure = Succeeds
      /\ Atomic!Whole(q, db).db = work
      /\ Atomic!Whole(q, db).seen = calls[c].seen
  BY <1>1, <1>4 DEF Prefix
<1>6. /\ calls' = [calls EXCEPT ![c] = Idle]
      /\ db' = work
      /\ answer' = Answer(q, Succeeds, calls[c].seen)
  BY DEF Commit, Return, Translated
<1>7. Waiting[c] = q /\ Waiting[c] # None /\ Atomic!Forget(c)
  BY <1>1, <1>6, Forgotten
<1>8. Atomic!IsWhole(q)
  BY <1>1 DEF Atomic!IsWhole
<1> QED BY <1>5, <1>6, <1>7, <1>8 DEF Atomic!Perform, Waiting

LEMMA ProceedRefines ==
  ASSUME IInv, HandlersSound, NEW c \in Clients, Proceed(c)
  PROVE  \/ Atomic!Perform(c)
         \/ Atomic!Part(c)
         \/ UNCHANGED <<db, Waiting, answer>>
<1> DEFINE q == calls[c].request
           at == calls[c].at
           outcome == Execute(Script(q)[at], q, calls[c].seen, work)
<1>1. /\ Ready(c) /\ ~AtEnd(c) /\ calls[c] # Idle /\ AtStatement(calls[c])
      /\ outcome.failure = Succeeds
      /\ IF Transactional(q) THEN UNCHANGED db ELSE db' = outcome.db
  BY DEF Proceed, Ready, Statement, IInv, CallOK
<1>2. Len(Script(q)) \in Nat /\ DOMAIN Script(q) = 1..Len(Script(q)) /\ at \in 1..Len(Script(q))
  <2>1. Script(q) \in Seq({Script(q)[i] : i \in DOMAIN Script(q)}) /\ ~(at > Len(Script(q))) /\ at \in 1..(Len(Script(q)) + 1)
    BY <1>1 DEF AtStatement, IsHandled, AtEnd
  <2> QED BY <2>1
<1>3. CASE ~Transactional(q) /\ at = Len(Script(q))
  <2>1. /\ calls' = [calls EXCEPT ![c] = Idle]
        /\ answer' = Answer(q, Succeeds, outcome.seen)
    BY <1>3 DEF Proceed, Return, Translated, Statement
  <2>2. Waiting[c] = q /\ Waiting[c] # None /\ Atomic!Forget(c)
    BY <1>1, <2>1, Forgotten
  <2>3. CASE Atomic!IsWhole(q)
    <3>1. Atomic!After(q, at, db) = outcome
      BY <1>1, <2>3, StatementIs
    <3>2. Atomic!Whole(q, db) = outcome
      BY <1>1, <1>2, <1>3, <3>1, WholeIs DEF AtStatement
    <3> QED BY <1>1, <1>3, <2>1, <2>2, <2>3, <3>2 DEF Atomic!Perform, Waiting
  <2>4. CASE ~Atomic!IsWhole(q)
    <3>1. PICK i \in DOMAIN Script(q) :
            /\ Atomic!After(q, i, db).failure = Succeeds
            /\ Atomic!After(q, i, db).db = outcome.db
            /\ at = Len(Script(q)) => i = Len(Script(q))
      BY <1>1, <2>4 DEF HandlersSound, PartStands, Statement
    <3>2. /\ Atomic!After(q, i, db).failure = Succeeds
          /\ db' = Atomic!After(q, i, db).db
          /\ i = Len(Script(q))
          /\ answer'.request = q
          /\ answer'.failure = Succeeds
      BY <1>1, <1>3, <2>1, <3>1
    <3> QED BY <2>2, <2>4, <3>2 DEF Atomic!Part, Waiting
  <2> QED BY <2>3, <2>4
<1>4. CASE ~(~Transactional(q) /\ at = Len(Script(q)))
  <2>1. /\ calls' = [calls EXCEPT ![c] = Running(q, at + 1, outcome.seen)]
        /\ UNCHANGED answer
    BY <1>4 DEF Proceed, Statement
  <2>2. /\ Running(q, at + 1, outcome.seen) # Idle
        /\ Running(q, at + 1, outcome.seen).request = q
    BY DEF Running, Idle
  <2>3. UNCHANGED Waiting
    BY <1>1, <2>1, <2>2 DEF Waiting, IInv
  <2>4. CASE Transactional(q)
    BY <1>1, <2>1, <2>3, <2>4
  <2>5. CASE ~Transactional(q)
    <3>1. Len(Script(q)) # 1
      BY <1>2, <1>4, <2>5, OnlyIsLast
    <3>2. ~Atomic!IsWhole(q)
      BY <2>5, <3>1 DEF Atomic!IsWhole
    <3>3. PICK i \in DOMAIN Script(q) :
            /\ Atomic!After(q, i, db).failure = Succeeds
            /\ Atomic!After(q, i, db).db = outcome.db
      BY <1>1, <3>2 DEF HandlersSound, PartStands, Statement
    <3>4. Waiting[c] = q /\ q # None
      BY <1>1 DEF Waiting, AtStatement, IsHandled
    <3> QED BY <1>1, <2>1, <2>3, <2>5, <3>2, <3>3, <3>4 DEF Atomic!Part, Waiting
  <2> QED BY <2>4, <2>5
<1> QED BY <1>3, <1>4

LEMMA ReleaseLeaves ==
  ASSUME NEW c \in Clients, Release(c)
  PROVE  UNCHANGED db
BY DEF Release, RollBack

LEMMA RefuseRefines ==
  ASSUME IInv, NEW c \in Clients, Refuse(c)
  PROVE  Atomic!Perform(c) \/ Atomic!GiveUp(c)
<1> DEFINE q == calls[c].request
           at == calls[c].at
           outcome == Execute(Script(q)[at], q, calls[c].seen, work)
           failure == IF outcome.failure \in Declared(q) THEN outcome.failure ELSE Unavailable
<1>1. /\ Ready(c) /\ ~AtEnd(c) /\ calls[c] # Idle /\ AtStatement(calls[c])
      /\ outcome.failure # Succeeds
      /\ calls' = [calls EXCEPT ![c] = Idle]
      /\ answer' = Answer(q, failure, outcome.seen)
  BY DEF Refuse, Ready, Statement, Return, Translated, IInv, CallOK
<1>2. UNCHANGED db
  BY ReleaseLeaves DEF Refuse
<1>3. Waiting[c] = q /\ Waiting[c] # None /\ Atomic!Forget(c)
  BY <1>1, Forgotten
<1>4. CASE Atomic!IsWhole(q)
  <2>1. at \in 1..Len(Script(q)) /\ Atomic!After(q, at, db) = outcome
    BY <1>1, <1>4, StatementIs
  <2>2. Len(Script(q)) \in Nat
    BY <1>1 DEF AtStatement, IsHandled
  <2>3. at \in Nat /\ at <= Len(Script(q))
    BY <2>1, <2>2
  <2>4. Atomic!Whole(q, db) = outcome
    BY <1>1, <2>1, <2>3, WholeIs DEF AtStatement
  <2> QED BY <1>1, <1>2, <1>3, <1>4, <2>4 DEF Atomic!Perform, Waiting
<1>5. CASE ~Atomic!IsWhole(q)
  <2>1. failure # Succeeds
    BY <1>1
  <2>2. answer'.request = q /\ answer'.failure # Succeeds
    BY <1>1, <2>1
  <2> QED BY <1>2, <1>3, <1>5, <2>2 DEF Atomic!GiveUp, Waiting
<1> QED BY <1>4, <1>5

LEMMA BreakRefines ==
  ASSUME IInv, NEW c \in Clients, Break(c)
  PROVE  Atomic!GiveUp(c)
<1>1. /\ calls[c] # Idle /\ AtStatement(calls[c])
      /\ calls' = [calls EXCEPT ![c] = Idle]
      /\ answer' = Answer(calls[c].request, Translated(calls[c].request, "SqlError"), Nothing)
  BY DEF Break, Ready, Return, IInv, CallOK
<1>2. Translated(calls[c].request, "SqlError") = Unavailable
  BY <1>1 DEF Translated, AtStatement, IsHandled
<1>3. UNCHANGED db
  BY ReleaseLeaves DEF Break
<1>4. Waiting[c] = calls[c].request /\ Waiting[c] # None /\ Atomic!Forget(c)
  BY <1>1, Forgotten
<1>5. answer'.request = calls[c].request /\ answer'.failure = Unavailable
  BY <1>1, <1>2
<1> QED BY <1>3, <1>4, <1>5 DEF Atomic!GiveUp, Waiting

LEMMA InterruptRefines ==
  ASSUME IInv, NEW c \in Clients, Interrupt(c)
  PROVE  Atomic!Abandon
<1>1. UNCHANGED <<db, answer>>
  BY ReleaseLeaves DEF Interrupt
<1>2. \A x \in Clients : calls'[x] = IF x = c THEN Idle ELSE calls[x]
  BY DEF Interrupt, IInv
<1>3. Waiting' = [x \in Clients |-> IF x \in {c} THEN None ELSE Waiting[x]]
  BY <1>2 DEF Waiting
<1> QED BY <1>1, <1>3 DEF Atomic!Abandon, Waiting

LEMMA CrashRefines ==
  ASSUME Crash
  PROVE  Atomic!Abandon
<1>1. UNCHANGED <<db, answer>>
  BY DEF Crash
<1>2. Waiting' = [x \in Clients |-> IF x \in Clients THEN None ELSE Waiting[x]]
  BY DEF Crash, Waiting
<1> QED BY <1>1, <1>2 DEF Atomic!Abandon, Waiting

LEMMA NextRefines ==
  ASSUME IInv, HandlersSound, [Next]_vars
  PROVE  [Atomic!Next]_Atomic!vars
<1>1. ASSUME NEW c \in Clients, NEW q \in Requests(db), Start(c, q) PROVE Atomic!Next
  BY <1>1, StartRefines DEF Atomic!Next
<1>2. ASSUME NEW c \in Clients, Proceed(c) PROVE [Atomic!Next]_Atomic!vars
  BY <1>2, ProceedRefines DEF Atomic!Next, Atomic!vars, Waiting
<1>3. ASSUME NEW c \in Clients, Refuse(c) PROVE Atomic!Next
  BY <1>3, RefuseRefines DEF Atomic!Next
<1>4. ASSUME NEW c \in Clients, Commit(c) PROVE Atomic!Next
  BY <1>4, CommitRefines DEF Atomic!Next
<1>5. ASSUME NEW c \in Clients, Break(c) PROVE Atomic!Next
  BY <1>5, BreakRefines DEF Atomic!Next
<1>6. ASSUME NEW c \in Clients, Interrupt(c) PROVE Atomic!Next
  BY <1>6, InterruptRefines DEF Atomic!Next
<1>7. CASE Crash
  BY <1>7, CrashRefines DEF Atomic!Next
<1>8. CASE UNCHANGED vars
  BY <1>8 DEF vars, Atomic!vars
<1> QED BY <1>1, <1>2, <1>3, <1>4, <1>5, <1>6, <1>7, <1>8 DEF Next

\* The invariant holds as long as the applications are handled as Commands says.
THEOREM Inductive == Spec /\ []Handled => []IInv
<1>1. IInv /\ Handled /\ [Next]_vars => IInv'
  BY NextKeeps
<1> QED BY <1>1, InitIInv, PTL DEF Spec

\* A command is one step or none, whatever the applications, the number of
\* callers, the length of the scripts and the failures (command.ts).
THEOREM CommandsAreAtomic == Spec /\ []HandlersSound => ImplementsAtomic
<1>1. Init => Atomic!Init
  BY InitRefines
<1>2. IInv /\ HandlersSound /\ [Next]_vars => [Atomic!Next]_Atomic!vars
  BY NextRefines
<1>3. HandlersSound => Handled
  BY DEF HandlersSound
<1> QED BY <1>1, <1>2, <1>3, Inductive, PTL DEF Spec, ImplementsAtomic, Atomic!Spec

HIDE DEF Request, InTransaction, Succeeds, Atomic!Succeeds, Unavailable,
         Atomic!Unavailable, Nothing, Atomic!Nothing, Answer, Atomic!Answer

-----------------------------------------------------------------------------
(***************************************************************************)
(* Sums.  SumFunctionOnSet takes the elements of a set in an order it      *)
(* chooses; what it computes is the same in any order.                     *)
(***************************************************************************)

Chosen(s) == CHOOSE x \in s : TRUE

\* it sums f over the members of the collection D of sets.
IsSum(f, D, it) ==
  it = [s \in D |-> IF s = {} THEN 0 ELSE f[Chosen(s)] + it[s \ {Chosen(s)}]]

LEMMA ChosenIsIn ==
  ASSUME NEW s, s # {}
  PROVE  Chosen(s) \in s
BY DEF Chosen

LEMMA SmallerBy ==
  ASSUME NEW s, IsFiniteSet(s), NEW x \in s
  PROVE  /\ IsFiniteSet(s \ {x}) /\ Cardinality(s) \in Nat /\ Cardinality(s \ {x}) \in Nat
         /\ Cardinality(s) = Cardinality(s \ {x}) + 1
<1>1. IsFiniteSet(s \ {x})
  BY FS_RemoveElement
<1>2. Cardinality(s) \in Nat /\ Cardinality(s \ {x}) \in Nat
  BY <1>1, FS_CardinalityType
<1>3. Cardinality(s \ {x}) = Cardinality(s) - 1
  BY FS_RemoveElement
<1> QED BY <1>1, <1>2, <1>3

LEMMA NotNone ==
  ASSUME NEW s, NEW n \in Nat, Cardinality(s) = n + 1
  PROVE  s # {}
<1>1. n + 1 # 0
  OBVIOUS
<1> QED BY <1>1, FS_EmptySet

LEMMA SumExists ==
  ASSUME NEW f, NEW S, IsFiniteSet(S)
  PROVE  \E it : IsSum(f, SUBSET S, it)
<1> DEFINE Small(n) == {s \in SUBSET S : Cardinality(s) <= n}
           K == {n \in Nat : \E it : IsSum(f, Small(n), it)}
<1>0. \A s \in SUBSET S : IsFiniteSet(s) /\ Cardinality(s) \in Nat
  BY FS_Subset, FS_CardinalityType
<1>1. 0 \in K
  <2>1. \A s \in Small(0) : s = {}
    BY <1>0, FS_EmptySet
  <2>2. IsSum(f, Small(0), [s \in Small(0) |-> 0])
    BY <2>1 DEF IsSum
  <2> QED BY <2>2
<1>2. ASSUME NEW n \in Nat, n \in K PROVE n + 1 \in K
  <2>1. PICK it : IsSum(f, Small(n), it)
    BY <1>2
  <2> DEFINE more == [s \in Small(n + 1) |->
                        IF s \in Small(n) THEN it[s]
                        ELSE f[Chosen(s)] + it[s \ {Chosen(s)}]]
  <2>2. \A s \in Small(n) : s \in Small(n + 1)
    BY <1>0
  <2>3. \A s \in Small(n + 1) : s # {} => s \ {Chosen(s)} \in Small(n)
    BY <1>0, SmallerBy, ChosenIsIn
  <2>4. {} \in Small(n)
    BY FS_EmptySet
  <2> HIDE DEF Small
  <2>5. ASSUME NEW s \in Small(n + 1)
        PROVE  more[s] = IF s = {} THEN 0 ELSE f[Chosen(s)] + more[s \ {Chosen(s)}]
    <3>1. s # {} => more[s \ {Chosen(s)}] = it[s \ {Chosen(s)}]
      BY <2>2, <2>3
    <3>2. CASE s \in Small(n)
      <4>1. it[s] = IF s = {} THEN 0 ELSE f[Chosen(s)] + it[s \ {Chosen(s)}]
        BY <2>1, <3>2 DEF IsSum
      <4> QED BY <3>1, <3>2, <4>1
    <3>3. CASE s \notin Small(n)
      BY <2>4, <3>1, <3>3
    <3> QED BY <3>2, <3>3
  <2>6. IsSum(f, Small(n + 1), more)
    BY <2>5 DEF IsSum
  <2> QED BY <2>6
<1>3. Nat \subseteq K
  <2> HIDE DEF K
  <2> QED BY <1>1, <1>2, SetInduction
<1>4. Small(Cardinality(S)) = SUBSET S
  BY FS_Subset, FS_CardinalityType
<1>5. Cardinality(S) \in K
  BY <1>0, <1>3
<1> QED BY <1>4, <1>5

\* Two sums agree on what both are about, if their functions do.
LEMMA SumsAgree ==
  ASSUME NEW f, NEW g, NEW S, IsFiniteSet(S), NEW T, NEW s \in SUBSET S, s \in SUBSET T,
         \A x \in s : f[x] = g[x],
         NEW i, NEW j, IsSum(f, SUBSET S, i), IsSum(g, SUBSET T, j)
  PROVE  i[s] = j[s]
<1> DEFINE K == {n \in Nat : \A r \in SUBSET s : Cardinality(r) = n => i[r] = j[r]}
<1>0. \A r \in SUBSET s : IsFiniteSet(r) /\ Cardinality(r) \in Nat /\ r \in SUBSET S /\ r \in SUBSET T
  BY FS_Subset, FS_CardinalityType
<1>a. ASSUME NEW r \in SUBSET s
      PROVE  /\ i[r] = IF r = {} THEN 0 ELSE f[Chosen(r)] + i[r \ {Chosen(r)}]
             /\ j[r] = IF r = {} THEN 0 ELSE g[Chosen(r)] + j[r \ {Chosen(r)}]
  BY <1>0 DEF IsSum
<1>1. 0 \in K
  BY <1>0, <1>a, FS_EmptySet
<1>2. ASSUME NEW n \in Nat, n \in K PROVE n + 1 \in K
  <2> SUFFICES ASSUME NEW r \in SUBSET s, Cardinality(r) = n + 1 PROVE i[r] = j[r]
    OBVIOUS
  <2>1. r # {}
    BY NotNone
  <2>2. Chosen(r) \in r /\ r \ {Chosen(r)} \in SUBSET s
    BY <2>1, ChosenIsIn
  <2>3. Cardinality(r \ {Chosen(r)}) = n
    <3>1. IsFiniteSet(r) /\ Cardinality(r \ {Chosen(r)}) \in Nat
      BY <1>0, <2>2
    <3>2. Cardinality(r) = Cardinality(r \ {Chosen(r)}) + 1
      BY <2>2, <3>1, SmallerBy, Zenon
    <3> QED BY <3>1, <3>2
  <2>4. i[r \ {Chosen(r)}] = j[r \ {Chosen(r)}]
    BY <1>2, <2>2, <2>3
  <2> QED BY <1>a, <2>1, <2>2, <2>4
<1>3. Nat \subseteq K
  <2> HIDE DEF K
  <2> QED BY <1>1, <1>2, SetInduction
<1>4. Cardinality(s) \in K
  BY <1>0, <1>3
<1> QED BY <1>4

LEMMA SumIs ==
  ASSUME NEW f, NEW S, IsFiniteSet(S)
  PROVE  \E it : IsSum(f, SUBSET S, it) /\ SumFunctionOnSet(f, S) = it[S]
<1>1. \E it : IsSum(f, SUBSET S, it)
  BY SumExists
<1>2. IsSum(f, SUBSET S, CHOOSE it : IsSum(f, SUBSET S, it))
  BY <1>1
<1>3. SumFunctionOnSet(f, S) = (CHOOSE it : IsSum(f, SUBSET S, it))[S]
  BY DEF SumFunctionOnSet, FoldFunctionOnSet, MapThenFoldSet, IsSum, Chosen
<1> QED BY <1>2, <1>3

LEMMA SumOfNothing ==
  ASSUME NEW f PROVE SumFunctionOnSet(f, {}) = 0
<1>1. PICK it : IsSum(f, SUBSET {}, it) /\ SumFunctionOnSet(f, {}) = it[{}]
  BY SumIs, FS_EmptySet
<1> QED BY <1>1 DEF IsSum

LEMMA SumOfSame ==
  ASSUME NEW f, NEW g, NEW S, IsFiniteSet(S), \A x \in S : f[x] = g[x]
  PROVE  SumFunctionOnSet(f, S) = SumFunctionOnSet(g, S)
<1>1. PICK i : IsSum(f, SUBSET S, i) /\ SumFunctionOnSet(f, S) = i[S]
  BY SumIs
<1>2. PICK j : IsSum(g, SUBSET S, j) /\ SumFunctionOnSet(g, S) = j[S]
  BY SumIs
<1>3. S \in SUBSET S
  OBVIOUS
<1>4. i[S] = j[S]
  BY <1>1, <1>2, <1>3, SumsAgree
<1> QED BY <1>1, <1>2, <1>4

LEMMA SumOfChosen ==
  ASSUME NEW f, NEW S, IsFiniteSet(S), S # {}
  PROVE  SumFunctionOnSet(f, S) = f[Chosen(S)] + SumFunctionOnSet(f, S \ {Chosen(S)})
<1> DEFINE R == S \ {Chosen(S)}
<1>1. IsFiniteSet(R) /\ R \subseteq S
  BY ChosenIsIn, SmallerBy
<1>2. PICK i : IsSum(f, SUBSET S, i) /\ SumFunctionOnSet(f, S) = i[S]
  BY SumIs
<1>3. PICK j : IsSum(f, SUBSET R, j) /\ SumFunctionOnSet(f, R) = j[R]
  BY <1>1, SumIs
<1>4. i[R] = j[R]
  <2>1. R \in SUBSET R /\ R \in SUBSET S /\ \A x \in R : f[x] = f[x]
    OBVIOUS
  <2> HIDE DEF R
  <2> QED BY <1>1, <1>2, <1>3, <2>1, SumsAgree
<1>5. i[S] = f[Chosen(S)] + i[R]
  BY <1>2 DEF IsSum
<1> QED BY <1>2, <1>3, <1>4, <1>5

LEMMA SumIsNat ==
  ASSUME NEW f, NEW S, IsFiniteSet(S), \A x \in S : f[x] \in Nat
  PROVE  SumFunctionOnSet(f, S) \in Nat
<1> DEFINE K == {n \in Nat : \A s \in SUBSET S : Cardinality(s) = n => SumFunctionOnSet(f, s) \in Nat}
<1>0. \A s \in SUBSET S : IsFiniteSet(s) /\ Cardinality(s) \in Nat
  BY FS_Subset, FS_CardinalityType
<1>1. 0 \in K
  BY <1>0, FS_EmptySet, SumOfNothing
<1>2. ASSUME NEW n \in Nat, n \in K PROVE n + 1 \in K
  <2> SUFFICES ASSUME NEW s \in SUBSET S, Cardinality(s) = n + 1
               PROVE  SumFunctionOnSet(f, s) \in Nat
    OBVIOUS
  <2>1. s # {} /\ Chosen(s) \in s
    BY NotNone, ChosenIsIn
  <2>2. SumFunctionOnSet(f, s \ {Chosen(s)}) \in Nat
    BY <1>0, <1>2, <2>1, SmallerBy
  <2> QED BY <1>0, <2>1, <2>2, SumOfChosen
<1>3. Nat \subseteq K
  <2> HIDE DEF K
  <2> QED BY <1>1, <1>2, SetInduction
<1>4. Cardinality(S) \in K
  BY <1>0, <1>3
<1> QED BY <1>4

\* The order is of no matter.
LEMMA SumWithout ==
  ASSUME NEW f, NEW S, IsFiniteSet(S), \A x \in S : f[x] \in Nat, NEW y \in S
  PROVE  SumFunctionOnSet(f, S) = f[y] + SumFunctionOnSet(f, S \ {y})
<1> DEFINE Out(s, x) == SumFunctionOnSet(f, s) = f[x] + SumFunctionOnSet(f, s \ {x})
           K == {n \in Nat : \A s \in SUBSET S : Cardinality(s) = n => \A x \in s : Out(s, x)}
<1>0. \A s \in SUBSET S : IsFiniteSet(s) /\ Cardinality(s) \in Nat
  BY FS_Subset, FS_CardinalityType
<1>1. 0 \in K
  BY <1>0, FS_EmptySet
<1>2. ASSUME NEW n \in Nat, n \in K PROVE n + 1 \in K
  <2> SUFFICES ASSUME NEW s \in SUBSET S, Cardinality(s) = n + 1, NEW x \in s
               PROVE  Out(s, x)
    OBVIOUS
  <2> DEFINE c == Chosen(s)
  <2>1. c \in s
    BY ChosenIsIn
  <2>2. SumFunctionOnSet(f, s) = f[c] + SumFunctionOnSet(f, s \ {c})
    BY <1>0, SumOfChosen
  <2>3. CASE x # c
    <3>1. s \ {c} \in SUBSET S /\ Cardinality(s \ {c}) = n /\ x \in s \ {c}
      BY <1>0, <2>1, <2>3, SmallerBy
    <3>2. s \ {x} \in SUBSET S /\ Cardinality(s \ {x}) = n /\ c \in s \ {x}
      BY <1>0, <2>1, <2>3, SmallerBy
    <3>3. Out(s \ {c}, x) /\ Out(s \ {x}, c)
      BY <1>2, <3>1, <3>2
    <3>4. (s \ {c}) \ {x} = (s \ {x}) \ {c}
      OBVIOUS
    <3>5. SumFunctionOnSet(f, (s \ {x}) \ {c}) \in Nat /\ f[x] \in Nat /\ f[c] \in Nat
      <4>1. (s \ {x}) \ {c} \in SUBSET S /\ c \in S
        BY <2>1
      <4> QED BY <1>0, <4>1, SumIsNat
    <3> HIDE DEF c
    <3>6. SumFunctionOnSet(f, s) = f[c] + (f[x] + SumFunctionOnSet(f, (s \ {x}) \ {c}))
      BY <2>2, <3>3, <3>4
    <3>7. SumFunctionOnSet(f, s \ {x}) = f[c] + SumFunctionOnSet(f, (s \ {x}) \ {c})
      BY <3>3
    <3> QED BY <3>5, <3>6, <3>7
  <2> QED BY <2>2, <2>3
<1>3. Nat \subseteq K
  <2> HIDE DEF K
  <2> QED BY <1>1, <1>2, SetInduction
<1>4. Cardinality(S) \in K
  BY <1>0, <1>3
<1> QED BY <1>4

LEMMA SumOfMore ==
  ASSUME NEW f, NEW S, IsFiniteSet(S), NEW y, y \notin S,
         \A x \in S : f[x] \in Nat, f[y] \in Nat
  PROVE  SumFunctionOnSet(f, S \cup {y}) = SumFunctionOnSet(f, S) + f[y]
<1>1. (S \cup {y}) \ {y} = S /\ IsFiniteSet(S \cup {y})
  BY FS_AddElement
<1>2. SumFunctionOnSet(f, S \cup {y}) = f[y] + SumFunctionOnSet(f, S)
  BY <1>1, SumWithout
<1>3. SumFunctionOnSet(f, S) \in Nat
  BY SumIsNat
<1> QED BY <1>2, <1>3

-----------------------------------------------------------------------------
(***************************************************************************)
(* The applications.  `Serves` says of the constants of Commands what the  *)
(* served bundle makes of them: the handlers, payloads and errors of the   *)
(* five applications.  A request is told from the absence of one.          *)
(***************************************************************************)
ApplicationNames == {"billing", "inventory", "support", "elections", "expenses"}

Serves ==
  /\ Databases = ServedDatabases
  /\ \A d : Requests(d) = ServedRequests(d)
  /\ \A q : /\ Script(q) = ServedScript(q)
            /\ Transactional(q) = ServedTransactional(q)
            /\ Declared(q) = ServedDeclared(q)
  /\ \A s, q, seen, d : Execute(s, q, seen, d) = ServedExecute(s, q, seen, d)
  /\ \A q : q.app \in ApplicationNames => q # None

\* A script that got through n + 1 statements got through n before.
LEMMA Succeeded ==
  ASSUME NEW q, NEW d, NEW n \in Nat, Atomic!After(q, n + 1, d).failure = Succeeds
  PROVE  /\ Atomic!After(q, n, d).failure = Succeeds
         /\ Atomic!After(q, n + 1, d) =
              Execute(Script(q)[n + 1], q, Atomic!After(q, n, d).seen, Atomic!After(q, n, d).db)
BY AfterOneMore DEF Step

LEMMA Before ==
  ASSUME NEW q, NEW d, NEW n \in Nat \ {0}, Atomic!After(q, n, d).failure = Succeeds
  PROVE  /\ Atomic!After(q, n - 1, d).failure = Succeeds
         /\ Atomic!After(q, n, d) =
              Execute(Script(q)[n], q, Atomic!After(q, n - 1, d).seen, Atomic!After(q, n - 1, d).db)
<1>1. n - 1 \in Nat /\ (n - 1) + 1 = n
  OBVIOUS
<1> QED BY <1>1, Succeeded

\* The first statement is executed on the database the call finds.
LEMMA FirstOf ==
  ASSUME NEW q, NEW d
  PROVE  Atomic!After(q, 1, d) = Execute(Script(q)[1], q, Nothing, d)
<1>1. Atomic!After(q, 0, d) = Done(d, Nothing)
  BY AfterNone
<1>2. Atomic!After(q, 0 + 1, d) = Step(q, Atomic!After(q, 0, d), 0 + 1)
  BY AfterOneMore
<1> QED BY <1>1, <1>2 DEF Step, Done, Succeeds

-----------------------------------------------------------------------------
(***************************************************************************)
(* Reservations.                                                           *)
(***************************************************************************)
Reservation == [sku : DOMAIN Stock, quantity : Nat, status : {"held", "confirmed", "released"}]

TakenOf(d, sku) ==
  {i \in DOMAIN d.reservations :
     d.reservations[i].sku = sku /\ d.reservations[i].status \in {"held", "confirmed"}}

QuantityOf(d, sku) == [i \in TakenOf(d, sku) |-> d.reservations[i].quantity]

InventoryOK(d) ==
  /\ d = [app |-> "inventory", stock |-> d.stock, reservations |-> d.reservations]
  /\ d.stock \in [DOMAIN Stock -> Nat]
  /\ d.reservations \in Seq(Reservation)
  /\ \A sku \in DOMAIN Stock :
       d.stock[sku] + SumFunctionOnSet(QuantityOf(d, sku), TakenOf(d, sku)) = Stock[sku]

LEMMA InventoryServed ==
  ASSUME Serves, NEW q, q.app = "inventory"
  PROVE  /\ Script(q) = Inventory!Handler(q)
         /\ Transactional(q)
         /\ Declared(q) = Inventory!Errors(q)
         /\ \A s, seen, d : Execute(s, q, seen, d) = Inventory!RunStatement(s, q, seen, d)
BY DEF Serves, ServedScript, ServedTransactional, ServedDeclared, ServedExecute

LEMMA InventoryRequest ==
  ASSUME NEW x, NEW q \in Inventory!Payloads(x)
  PROVE  /\ q.app = "inventory"
         /\ \/ q.op = "reserve" /\ q.sku \in Skus /\ q.quantity \in Nat
            \/ q.op = "confirm"
            \/ q.op = "release"
BY ApplicationsAssumption DEF Inventory!Payloads

LEMMA InventoryAccounted ==
  ASSUME NEW d, InventoryOK(d)
  PROVE  Inventory!StockAccounted(d)
<1>1. \A f, S : Inventory!SumFunctionOnSet(f, S) = SumFunctionOnSet(f, S)
  BY Zenon DEF Inventory!SumFunctionOnSet, Inventory!FoldFunctionOnSet, Inventory!MapThenFoldSet,
               SumFunctionOnSet, FoldFunctionOnSet, MapThenFoldSet
<1>2. \A sku \in DOMAIN Stock :
        d.stock[sku] >= 0 /\ d.stock[sku] + SumFunctionOnSet(QuantityOf(d, sku), TakenOf(d, sku)) = Stock[sku]
  BY DEF InventoryOK
<1> QED BY <1>1, <1>2, Zenon DEF Inventory!StockAccounted, TakenOf, QuantityOf

LEMMA TakenFinite ==
  ASSUME NEW d, d.reservations \in Seq(Reservation), NEW sku
  PROVE  /\ IsFiniteSet(TakenOf(d, sku))
         /\ \A i \in TakenOf(d, sku) : QuantityOf(d, sku)[i] \in Nat
<1>1. DOMAIN d.reservations = 1..Len(d.reservations) /\ Len(d.reservations) \in Nat
  OBVIOUS
<1>2. IsFiniteSet(DOMAIN d.reservations)
  BY <1>1, FS_Interval
<1>3. TakenOf(d, sku) \subseteq DOMAIN d.reservations
  BY DEF TakenOf
<1>4. \A i \in TakenOf(d, sku) : d.reservations[i] \in Reservation
  BY <1>3
<1> QED BY <1>2, <1>3, <1>4, FS_Subset DEF QuantityOf, Reservation

\* A reservation takes what it is for.
LEMMA ReserveKeeps ==
  ASSUME NEW d, InventoryOK(d), NEW sku \in DOMAIN d.stock, NEW quantity \in Nat,
         d.stock[sku] >= quantity, NEW e,
         e.app = "inventory", e = [app |-> e.app, stock |-> e.stock, reservations |-> e.reservations],
         e.stock = [d.stock EXCEPT ![sku] = @ - quantity],
         e.reservations =
           Append(d.reservations, [sku |-> sku, quantity |-> quantity, status |-> "held"])
  PROVE  InventoryOK(e)
<1> DEFINE new == [sku |-> sku, quantity |-> quantity, status |-> "held"]
           n == Len(d.reservations) + 1
<1>1. /\ e = [app |-> "inventory", stock |-> e.stock, reservations |-> e.reservations]
      /\ e.stock = [d.stock EXCEPT ![sku] = @ - quantity]
      /\ e.reservations = Append(d.reservations, new)
  OBVIOUS
<1>2. new \in Reservation
  BY DEF InventoryOK, Reservation
<1>3. e.reservations \in Seq(Reservation) /\ e.stock \in [DOMAIN Stock -> Nat]
  BY <1>1, <1>2 DEF InventoryOK
<1>4. /\ DOMAIN e.reservations = DOMAIN d.reservations \cup {n} /\ n \notin DOMAIN d.reservations
      /\ e.reservations[n] = new
      /\ \A i \in DOMAIN d.reservations : e.reservations[i] = d.reservations[i]
  BY <1>1 DEF InventoryOK
<1>5. ASSUME NEW k \in DOMAIN Stock
      PROVE  e.stock[k] + SumFunctionOnSet(QuantityOf(e, k), TakenOf(e, k)) = Stock[k]
  <2> DEFINE old == SumFunctionOnSet(QuantityOf(d, k), TakenOf(d, k))
  <2>0. /\ IsFiniteSet(TakenOf(d, k)) /\ old \in Nat /\ d.stock[k] \in Nat
        /\ d.stock[k] + old = Stock[k]
    BY TakenFinite, SumIsNat DEF InventoryOK
  <2>1. \A i \in TakenOf(d, k) : QuantityOf(e, k)[i] = QuantityOf(d, k)[i]
    BY <1>4 DEF TakenOf, QuantityOf
  <2>2. SumFunctionOnSet(QuantityOf(e, k), TakenOf(d, k)) = old
    BY <2>0, <2>1, SumOfSame
  <2>3. CASE k # sku
    <3>1. TakenOf(e, k) = TakenOf(d, k)
      BY <1>4, <2>3 DEF TakenOf
    <3>2. e.stock[k] = d.stock[k]
      BY <1>1, <2>3 DEF InventoryOK
    <3> QED BY <2>0, <2>2, <3>1, <3>2
  <2>4. CASE k = sku
    <3>1. TakenOf(e, k) = TakenOf(d, k) \cup {n} /\ n \notin TakenOf(d, k)
      BY <1>4, <2>4 DEF TakenOf
    <3>2. /\ QuantityOf(e, k)[n] = quantity
          /\ \A i \in TakenOf(d, k) : QuantityOf(e, k)[i] \in Nat
      <4>1. \A i \in TakenOf(e, k) : QuantityOf(e, k)[i] = e.reservations[i].quantity
        BY DEF QuantityOf
      <4>2. \A i \in TakenOf(e, k) : QuantityOf(e, k)[i] \in Nat
        BY <1>3, TakenFinite
      <4> HIDE DEF n
      <4> QED BY <1>4, <3>1, <4>1, <4>2
    <3>3. SumFunctionOnSet(QuantityOf(e, k), TakenOf(e, k)) = old + quantity
      <4>1. ASSUME NEW f, NEW m, f = QuantityOf(e, k), m = n
            PROVE  SumFunctionOnSet(f, TakenOf(d, k) \cup {m}) = SumFunctionOnSet(f, TakenOf(d, k)) + f[m]
        <5>1. /\ m \notin TakenOf(d, k) /\ f[m] \in Nat /\ \A i \in TakenOf(d, k) : f[i] \in Nat
              /\ IsFiniteSet(TakenOf(d, k))
          BY <2>0, <3>1, <3>2, <4>1
        <5> QED BY <5>1, SumOfMore
      <4> HIDE DEF n
      <4> QED BY <2>2, <3>1, <3>2, <4>1
    <3>4. e.stock[k] = d.stock[k] - quantity
      BY <1>1, <2>4 DEF InventoryOK
    <3> QED BY <2>0, <3>3, <3>4
  <2> QED BY <2>3, <2>4
<1> QED BY <1>1, <1>3, <1>5 DEF InventoryOK

\* A held reservation is confirmed, or released, which returns what it took.
LEMMA TransitionKeeps ==
  ASSUME NEW d, InventoryOK(d), NEW id \in DOMAIN d.reservations,
         d.reservations[id].status = "held", NEW to \in {"confirmed", "released"}, NEW e,
         e.app = "inventory", e = [app |-> e.app, stock |-> e.stock, reservations |-> e.reservations],
         e.reservations = [d.reservations EXCEPT ![id].status = to],
         e.stock = IF to = "confirmed" THEN d.stock
                   ELSE [d.stock EXCEPT ![d.reservations[id].sku] = @ + d.reservations[id].quantity]
  PROVE  InventoryOK(e)
<1> DEFINE row == d.reservations[id]
<1>0. row \in Reservation
  BY DEF InventoryOK
<1>1. /\ DOMAIN e.reservations = DOMAIN d.reservations
      /\ e.reservations[id] = [row EXCEPT !.status = to]
      /\ \A i \in DOMAIN d.reservations : i # id => e.reservations[i] = d.reservations[i]
  BY DEF InventoryOK
<1>2. [row EXCEPT !.status = to] \in Reservation
  BY <1>0 DEF Reservation
<1>3. e.reservations \in Seq(Reservation) /\ e.stock \in [DOMAIN Stock -> Nat]
  <2>1. e.reservations \in Seq(Reservation)
    BY <1>2 DEF InventoryOK
  <2>2. e.stock \in [DOMAIN Stock -> Nat]
    BY <1>0 DEF InventoryOK, Reservation
  <2> QED BY <2>1, <2>2
<1>4. /\ e.reservations[id].sku = row.sku /\ e.reservations[id].quantity = row.quantity
      /\ e.reservations[id].status = to
  BY <1>0, <1>1 DEF Reservation
<1>5. ASSUME NEW k \in DOMAIN Stock
      PROVE  e.stock[k] + SumFunctionOnSet(QuantityOf(e, k), TakenOf(e, k)) = Stock[k]
  <2> DEFINE old == SumFunctionOnSet(QuantityOf(d, k), TakenOf(d, k))
  <2>0. /\ IsFiniteSet(TakenOf(d, k)) /\ old \in Nat /\ d.stock[k] \in Nat
        /\ d.stock[k] + old = Stock[k]
    BY TakenFinite, SumIsNat DEF InventoryOK
  <2>1. TakenOf(e, k) \subseteq TakenOf(d, k)
    BY <1>1, <1>4 DEF TakenOf
  <2>2. \A i \in TakenOf(e, k) : QuantityOf(e, k)[i] = QuantityOf(d, k)[i]
    BY <1>1, <1>4, <2>1 DEF TakenOf, QuantityOf
  <2>3. SumFunctionOnSet(QuantityOf(e, k), TakenOf(e, k)) = SumFunctionOnSet(QuantityOf(d, k), TakenOf(e, k))
    BY <1>3, <2>2, SumOfSame, TakenFinite
  <2>4. CASE to = "confirmed" \/ k # row.sku
    <3>1. TakenOf(e, k) = TakenOf(d, k)
      BY <1>1, <1>4, <2>4 DEF TakenOf
    <3>2. e.stock[k] = d.stock[k]
      BY <2>4 DEF InventoryOK
    <3> QED BY <2>0, <2>3, <3>1, <3>2
  <2>5. CASE to = "released" /\ k = row.sku
    <3>1. id \in TakenOf(d, k) /\ TakenOf(e, k) = TakenOf(d, k) \ {id}
      BY <1>1, <1>4, <2>5 DEF TakenOf
    <3>2. QuantityOf(d, k)[id] = row.quantity /\ row.quantity \in Nat
      BY <1>0, <3>1 DEF QuantityOf, Reservation
    <3>3. \A i \in TakenOf(d, k) : QuantityOf(d, k)[i] \in Nat
      BY TakenFinite DEF InventoryOK
    <3>4. old = row.quantity + SumFunctionOnSet(QuantityOf(d, k), TakenOf(e, k))
      BY <2>0, <3>1, <3>2, <3>3, SumWithout
    <3>5. SumFunctionOnSet(QuantityOf(d, k), TakenOf(e, k)) \in Nat
      <4>1. IsFiniteSet(TakenOf(e, k))
        BY <1>3, TakenFinite
      <4> QED BY <2>1, <3>3, <4>1, SumIsNat
    <3>6. e.stock[k] = d.stock[k] + row.quantity
      BY <2>5 DEF InventoryOK
    <3> QED BY <2>0, <2>3, <3>2, <3>4, <3>5, <3>6
  <2> QED BY <2>4, <2>5
<1> QED BY <1>3, <1>5 DEF InventoryOK

\* What the statements of the handlers leave of the whole stock.
USE DEF Inventory!Done, Inventory!Fails, Inventory!FailsWith, Inventory!Succeeds

LEMMA ReserveWhole ==
  ASSUME Serves, NEW d, InventoryOK(d), NEW q, q.app = "inventory", q.op = "reserve",
         q.quantity \in Nat, Atomic!After(q, 3, d).failure = Succeeds
  PROVE  InventoryOK(Atomic!After(q, 3, d).db)
<1>1. /\ Script(q) = <<"findStock", "decrement", "insertReservation">>
      /\ \A s, seen, x : Execute(s, q, seen, x) = Inventory!RunStatement(s, q, seen, x)
  BY InventoryServed DEF Inventory!Handler
<1> DEFINE a(n) == Atomic!After(q, n, d)
<1>2. /\ a(3) = Inventory!RunStatement("insertReservation", q, a(2).seen, a(2).db)
      /\ a(2).failure = Succeeds
  <2>1. 2 + 1 = 3 /\ Script(q)[3] = "insertReservation"
    BY <1>1
  <2> QED BY <1>1, <2>1, Succeeded
<1>3. /\ a(2) = Inventory!RunStatement("decrement", q, a(1).seen, a(1).db)
      /\ a(1).failure = Succeeds
  <2>1. 1 + 1 = 2 /\ Script(q)[2] = "decrement"
    BY <1>1
  <2> QED BY <1>1, <1>2, <2>1, Succeeded
<1>4. a(1) = Inventory!RunStatement("findStock", q, Nothing, d)
  BY <1>1, FirstOf
<1> HIDE DEF a
<1>5. a(1).db = d /\ q.sku \in DOMAIN d.stock
  BY <1>3, <1>4 DEF Inventory!RunStatement, Inventory!FindStock, Succeeds
<1>6. /\ d.stock[q.sku] >= q.quantity
      /\ a(2).db = [d EXCEPT !.stock[q.sku] = @ - q.quantity]
  BY <1>2, <1>3, <1>5
     DEF Inventory!RunStatement, Inventory!Decrement, Inventory!Enough, Succeeds
<1>7. a(3).db = [a(2).db EXCEPT !.reservations =
                   Append(@, [sku |-> q.sku, quantity |-> q.quantity, status |-> "held"])]
  BY <1>2 DEF Inventory!RunStatement, Inventory!InsertReservation
<1> DEFINE rest == [d.stock EXCEPT ![q.sku] = @ - q.quantity]
           new == [sku |-> q.sku, quantity |-> q.quantity, status |-> "held"]
           e == [app |-> "inventory", stock |-> rest, reservations |-> Append(d.reservations, new)]
<1>8. a(3).db = e
  <2>1. d = [app |-> "inventory", stock |-> d.stock, reservations |-> d.reservations]
    BY DEF InventoryOK
  <2>2. a(2).db = [app |-> "inventory", stock |-> rest, reservations |-> d.reservations]
    BY <1>6, <2>1
  <2>3. ASSUME NEW s, NEW r, NEW x
        PROVE  [[app |-> "inventory", stock |-> s, reservations |-> r] EXCEPT
                  !.reservations = Append(@, x)]
               = [app |-> "inventory", stock |-> s, reservations |-> Append(r, x)]
    OBVIOUS
  <2> HIDE DEF rest, new
  <2>4. a(3).db = [[app |-> "inventory", stock |-> rest, reservations |-> d.reservations] EXCEPT
                     !.reservations = Append(@, new)]
    BY <1>7, <2>2, Zenon DEF new
  <2> QED BY <2>3, <2>4, Zenon
<1>9. InventoryOK(e)
  BY <1>5, <1>6, ReserveKeeps
<1> QED BY <1>8, <1>9 DEF a

LEMMA ConfirmWhole ==
  ASSUME Serves, NEW d, InventoryOK(d), NEW q, q.app = "inventory", q.op = "confirm",
         Atomic!After(q, 1, d).failure = Succeeds
  PROVE  InventoryOK(Atomic!After(q, 1, d).db)
<1>1. /\ Script(q) = <<"transition">>
      /\ \A s, seen, x : Execute(s, q, seen, x) = Inventory!RunStatement(s, q, seen, x)
  BY InventoryServed DEF Inventory!Handler
<1> DEFINE a == Atomic!After(q, 1, d)
<1>2. a = Inventory!RunStatement("transition", q, Nothing, d)
  BY <1>1, FirstOf
<1> HIDE DEF a
<1>3. /\ q.id \in DOMAIN d.reservations /\ d.reservations[q.id].status = "held"
      /\ a.db = [d EXCEPT !.reservations[q.id].status = "confirmed"]
  BY <1>2 DEF Inventory!RunStatement, Inventory!Transition, Inventory!MayLeave, Succeeds, a
<1> DEFINE e == [app |-> "inventory", stock |-> d.stock,
                 reservations |-> [d.reservations EXCEPT ![q.id].status = "confirmed"]]
<1>4. a.db = e
  <2>1. d = [app |-> "inventory", stock |-> d.stock, reservations |-> d.reservations]
    BY DEF InventoryOK
  <2> QED BY <1>3, <2>1
<1>5. InventoryOK(e)
  BY <1>3, TransitionKeeps
<1> QED BY <1>4, <1>5 DEF a

LEMMA ReleaseWhole ==
  ASSUME Serves, NEW d, InventoryOK(d), NEW q, q.app = "inventory", q.op = "release",
         Atomic!After(q, 2, d).failure = Succeeds
  PROVE  InventoryOK(Atomic!After(q, 2, d).db)
<1>1. /\ Script(q) = <<"transition", "restoreStock">>
      /\ \A s, seen, x : Execute(s, q, seen, x) = Inventory!RunStatement(s, q, seen, x)
  BY InventoryServed DEF Inventory!Handler
<1> DEFINE a(n) == Atomic!After(q, n, d)
<1>2. /\ a(2) = Inventory!RunStatement("restoreStock", q, a(1).seen, a(1).db)
      /\ a(1).failure = Succeeds
  <2>1. 1 + 1 = 2 /\ Script(q)[2] = "restoreStock"
    BY <1>1
  <2> QED BY <1>1, <2>1, Succeeded
<1>3. a(1) = Inventory!RunStatement("transition", q, Nothing, d)
  BY <1>1, FirstOf
<1>a. a(2).failure = Succeeds
  OBVIOUS
<1> HIDE DEF a
<1> DEFINE row == d.reservations[q.id]
<1>4. /\ q.id \in DOMAIN d.reservations /\ row.status = "held"
      /\ a(1).db = [d EXCEPT !.reservations[q.id].status = "released"]
      /\ a(1).seen = [row EXCEPT !.status = "released"]
  BY <1>2, <1>3 DEF Inventory!RunStatement, Inventory!Transition, Inventory!MayLeave, Succeeds
<1>5. a(2).db = [a(1).db EXCEPT !.stock[a(1).seen.sku] = @ + a(1).seen.quantity]
  BY <1>2, <1>a DEF Inventory!RunStatement, Inventory!RestoreStock, Inventory!Unavailable, Succeeds
<1> DEFINE e == [app |-> "inventory",
                 stock |-> [d.stock EXCEPT ![row.sku] = @ + row.quantity],
                 reservations |-> [d.reservations EXCEPT ![q.id].status = "released"]]
<1>6. a(2).db = e
  <2>1. d = [app |-> "inventory", stock |-> d.stock, reservations |-> d.reservations]
    BY DEF InventoryOK
  <2>2. row \in Reservation
    BY <1>4 DEF InventoryOK
  <2>3. a(1).seen.sku = row.sku /\ a(1).seen.quantity = row.quantity
    BY <1>4, <2>2 DEF Reservation
  <2>4. a(1).db = [app |-> "inventory", stock |-> d.stock,
                   reservations |-> [d.reservations EXCEPT ![q.id].status = "released"]]
    BY <1>4, <2>1
  <2> HIDE DEF row
  <2> QED BY <1>5, <2>3, <2>4
<1>7. InventoryOK(e)
  BY <1>4, TransitionKeeps
<1> QED BY <1>6, <1>7 DEF a

\* A command of the reservations example leaves stock accounted for.
LEMMA InventoryWhole ==
  ASSUME Serves, NEW d, InventoryOK(d), NEW x, NEW q \in Inventory!Payloads(x),
         Atomic!Whole(q, d).failure = Succeeds
  PROVE  InventoryOK(Atomic!Whole(q, d).db)
<1>1. q.app = "inventory" /\ Script(q) = Inventory!Handler(q)
  BY InventoryRequest, InventoryServed
<1>2. CASE q.op = "reserve" /\ q.quantity \in Nat
  <2>1. Len(Script(q)) = 3
    BY <1>1, <1>2 DEF Inventory!Handler
  <2> QED BY <1>1, <1>2, <2>1, ReserveWhole DEF Atomic!Whole
<1>3. CASE q.op = "confirm"
  <2>1. Len(Script(q)) = 1
    BY <1>1, <1>3 DEF Inventory!Handler
  <2> QED BY <1>1, <1>3, <2>1, ConfirmWhole DEF Atomic!Whole
<1>4. CASE q.op = "release"
  <2>1. Len(Script(q)) = 2
    BY <1>1, <1>4 DEF Inventory!Handler
  <2> QED BY <1>1, <1>4, <2>1, ReleaseWhole DEF Atomic!Whole
<1> QED BY <1>2, <1>3, <1>4, InventoryRequest

\* Whoever is told that stock is insufficient is told how much there was.
LEMMA InventoryRefusal ==
  ASSUME Serves, NEW d, InventoryOK(d), NEW x, NEW q \in Inventory!Payloads(x),
         NEW n \in 1..Len(Script(q)), Atomic!After(q, n, d).failure = "InsufficientStock"
  PROVE  Atomic!After(q, n, d).seen.available < q.quantity
<1>1. /\ q.app = "inventory" /\ Script(q) = Inventory!Handler(q)
      /\ \A s, seen, y : Execute(s, q, seen, y) = Inventory!RunStatement(s, q, seen, y)
  BY InventoryRequest, InventoryServed
<1>2. ASSUME NEW s, NEW seen, NEW y,
             Inventory!RunStatement(s, q, seen, y).failure = "InsufficientStock",
             s \in {"findStock", "decrement", "insertReservation", "transition", "restoreStock"}
      PROVE  /\ s = "decrement" /\ ~(y.stock[q.sku] >= q.quantity)
             /\ Inventory!RunStatement(s, q, seen, y).seen = seen
  BY <1>2 DEF Inventory!RunStatement, Inventory!FindStock, Inventory!Decrement, Inventory!Enough,
         Inventory!InsertReservation, Inventory!Transition, Inventory!RestoreStock, Inventory!Unavailable
<1> DEFINE a(m) == Atomic!After(q, m, d)
<1>3. a(1) = Inventory!RunStatement(Script(q)[1], q, Nothing, d)
  BY <1>1, FirstOf
<1>4. q.op \in {"reserve", "confirm", "release"} /\ (q.op = "reserve" => q.quantity \in Nat)
  BY InventoryRequest
<1>5. CASE q.op # "reserve"
  <2>1. \A m \in 1..Len(Script(q)) : Script(q)[m] \in {"transition", "restoreStock"}
    BY <1>1, <1>4, <1>5 DEF Inventory!Handler
  <2>2. n = 1 \/ n = 1 + 1
    BY <1>1, <1>4, <1>5 DEF Inventory!Handler
  <2>3. a(1).failure # "InsufficientStock"
    BY <1>2, <1>3, <2>1, <2>2
  <2>4. a(1 + 1) = Step(q, a(1), 1 + 1)
    BY AfterOneMore
  <2> QED BY <1>1, <1>2, <2>1, <2>2, <2>3, <2>4 DEF Step
<1>6. CASE q.op = "reserve"
  <2>1. Script(q) = <<"findStock", "decrement", "insertReservation">>
    BY <1>1, <1>6 DEF Inventory!Handler
  <2>2. a(1) = Inventory!RunStatement("findStock", q, Nothing, d)
    BY <1>3, <2>1
  <2>3. a(1).failure # "InsufficientStock"
    BY <1>2, <2>2
  <2>4. a(1 + 1) = Step(q, a(1), 1 + 1) /\ a(2 + 1) = Step(q, a(2), 2 + 1)
    BY AfterOneMore
  <2>5. n = 1 \/ n = 2 \/ n = 3
    BY <2>1
  <2>6. n = 3 => a(2).failure = "InsufficientStock"
    BY <1>1, <1>2, <2>1, <2>4 DEF Step
  <2>7. a(1).failure = Succeeds /\ n # 1
    <3>1. a(2).failure = "InsufficientStock"
      BY <2>3, <2>5, <2>6
    <3> QED BY <2>3, <2>4, <3>1 DEF Step
  <2>8. /\ a(2) = Inventory!RunStatement("decrement", q, a(1).seen, a(1).db)
        /\ a(2).failure = "InsufficientStock"
    BY <1>1, <2>1, <2>4, <2>5, <2>6, <2>7 DEF Step
  <2>9. n = 3 => a(3) = a(2)
    BY <2>4, <2>8 DEF Step, Succeeds
  <2>10. a(1).db = d /\ a(1).seen.available = d.stock[q.sku] /\ q.sku \in DOMAIN d.stock
    BY <2>2, <2>7 DEF Inventory!RunStatement, Inventory!FindStock, Succeeds
  <2>11. d.stock[q.sku] \in Nat /\ q.quantity \in Nat
    BY <1>4, <1>6, <2>10 DEF InventoryOK
  <2> HIDE DEF a
  <2>12. ~(d.stock[q.sku] >= q.quantity) /\ a(2).seen = a(1).seen
    BY <1>2, <2>8, <2>10
  <2> QED BY <2>5, <2>7, <2>9, <2>10, <2>11, <2>12 DEF a
<1> QED BY <1>5, <1>6

HIDE DEF Inventory!Done, Inventory!Fails, Inventory!FailsWith, Inventory!Succeeds

-----------------------------------------------------------------------------
(***************************************************************************)
(* Orders and invoices.                                                    *)
(***************************************************************************)
LinesOf(d, o) == {l \in d.lines : l.order = o}
InvoicesOf(d, o) == {i \in DOMAIN d.invoices : d.invoices[i].order = o}
AmountOf(d, o) == [line \in LinesOf(d, o) |-> line.amount]

Order == [tenant : Tenants, number : Numbers, status : {"draft", "invoiced"},
          total : Nat, version : Nat]
Line(orders) == [order : orders, line : LineNumbers, amount : Nat \ {0}]
Invoice(orders) == [tenant : Tenants, order : orders, number : Numbers,
                    status : {"issued", "paid"}, total : Nat, version : Nat]

\* What is true of each order, its lines and its invoices.
OrderAgrees(d, o) ==
  LET order == d.orders[o]
      invoiced == order.status = "invoiced"
  IN  /\ order.total = SumFunctionOnSet(AmountOf(d, o), LinesOf(d, o))
      /\ order.total <= MaxSafe
      /\ order.version = 1 + Cardinality(LinesOf(d, o)) + (IF invoiced THEN 1 ELSE 0)
      /\ IF invoiced
         THEN /\ order.total > 0
              /\ \E i \in DOMAIN d.invoices :
                   InvoicesOf(d, o) = {i} /\ d.invoices[i].total = order.total
         ELSE InvoicesOf(d, o) = {}

IsBilling(d) ==
  d = [app |-> "billing", orders |-> d.orders, lines |-> d.lines, invoices |-> d.invoices]

BillingTypes(d) ==
  /\ IsBilling(d)
  /\ d.orders \in Seq(Order)
  /\ IsFiniteSet(d.lines) /\ d.lines \subseteq Line(DOMAIN d.orders)
  /\ d.invoices \in Seq(Invoice(DOMAIN d.orders))

BillingOK(d) == BillingTypes(d) /\ \A o \in DOMAIN d.orders : OrderAgrees(d, o)

\* Invoiced orders keep their lines.
InvoicedStay(d, e) ==
  \A o \in DOMAIN d.orders : d.orders[o].status = "invoiced" =>
    o \in DOMAIN e.orders /\ e.orders[o].status = "invoiced" /\ LinesOf(e, o) = LinesOf(d, o)

\* What is assigned to a table, to one of its rows, and to a row.
WithOrders(d, orders) == [d EXCEPT !.orders = orders]
WithLines(d, lines) == [d EXCEPT !.lines = lines]
WithInvoices(d, invoices) == [d EXCEPT !.invoices = invoices]
WithRow(rows, i, row) == [rows EXCEPT ![i] = row]
Raised(order, total) == [order EXCEPT !.total = total, !.version = @ + 1]
Invoiced(order) == [order EXCEPT !.status = "invoiced", !.version = @ + 1]
Paid(invoice) == [invoice EXCEPT !.status = "paid", !.version = @ + 1]

LEMMA BillingCardinality == \A S : Billing!Cardinality(S) = Cardinality(S)
BY Zenon DEF Billing!Cardinality, Cardinality

LEMMA BillingSum == \A f, S : Billing!SumFunctionOnSet(f, S) = SumFunctionOnSet(f, S)
BY Zenon DEF Billing!SumFunctionOnSet, Billing!FoldFunctionOnSet, Billing!MapThenFoldSet,
             SumFunctionOnSet, FoldFunctionOnSet, MapThenFoldSet

LEMMA BillingAgrees ==
  ASSUME NEW d, BillingOK(d)
  PROVE  Billing!TotalsAgree(d)
<1> SUFFICES ASSUME NEW o \in DOMAIN d.orders
             PROVE  LET order == d.orders[o]
                        amount == [line \in LinesOf(d, o) |-> line.amount]
                        invoiced == order.status = "invoiced"
                    IN  /\ order.total = SumFunctionOnSet(amount, LinesOf(d, o))
                        /\ order.total <= MaxSafe
                        /\ order.version =
                             1 + Cardinality(LinesOf(d, o)) + (IF invoiced THEN 1 ELSE 0)
                        /\ Cardinality(InvoicesOf(d, o)) = (IF invoiced THEN 1 ELSE 0)
                        /\ \A i \in InvoicesOf(d, o) :
                             order.total > 0 /\ d.invoices[i].total = order.total
  BY BillingCardinality, BillingSum, Zenon
     DEF Billing!TotalsAgree, Billing!Orders, Billing!LinesOf, Billing!InvoicesOf, LinesOf, InvoicesOf
<1>1. OrderAgrees(d, o)
  BY DEF BillingOK
<1>2. CASE d.orders[o].status = "invoiced"
  <2>1. PICK i \in DOMAIN d.invoices :
          InvoicesOf(d, o) = {i} /\ d.invoices[i].total = d.orders[o].total
    BY <1>1, <1>2 DEF OrderAgrees
  <2>2. Cardinality(InvoicesOf(d, o)) = 1
    BY <2>1, FS_Singleton
  <2> QED BY <1>1, <1>2, <2>1, <2>2 DEF OrderAgrees, AmountOf
<1>3. CASE d.orders[o].status # "invoiced"
  BY <1>1, <1>3, FS_EmptySet DEF OrderAgrees, AmountOf
<1> QED BY <1>2, <1>3

\* An order's lines are finitely many and each is charged.
LEMMA LinesFinite ==
  ASSUME NEW d, BillingTypes(d), NEW o
  PROVE  /\ IsFiniteSet(LinesOf(d, o)) /\ Cardinality(LinesOf(d, o)) \in Nat
         /\ \A l \in LinesOf(d, o) : AmountOf(d, o)[l] \in Nat /\ AmountOf(d, o)[l] > 0
<1>1. LinesOf(d, o) \subseteq d.lines
  BY DEF LinesOf
<1>2. \A l \in LinesOf(d, o) : AmountOf(d, o)[l] \in Nat \ {0}
  BY <1>1 DEF BillingTypes, Line, AmountOf
<1> QED BY <1>1, <1>2, FS_Subset, FS_CardinalityType DEF BillingTypes

\* What an order says of itself, if nothing of it changes.
LEMMA SameAgrees ==
  ASSUME NEW d, NEW e, NEW o, OrderAgrees(d, o), e.orders[o] = d.orders[o],
         LinesOf(e, o) = LinesOf(d, o), InvoicesOf(e, o) = InvoicesOf(d, o),
         \A i \in InvoicesOf(d, o) : i \in DOMAIN e.invoices /\ e.invoices[i].total = d.invoices[i].total
  PROVE  OrderAgrees(e, o)
BY DEF OrderAgrees, AmountOf

\* A new order is a draft without lines.
LEMMA CreateKeeps ==
  ASSUME NEW d, BillingOK(d), NEW new \in Order,
         new.status = "draft", new.total = 0, new.version = 1, NEW e,
         IsBilling(e), e.orders = Append(d.orders, new), e.lines = d.lines, e.invoices = d.invoices
  PROVE  BillingOK(e) /\ InvoicedStay(d, e)
<1> DEFINE n == Len(d.orders) + 1
<1>1. e.orders = Append(d.orders, new) /\ e.lines = d.lines /\ e.invoices = d.invoices
  OBVIOUS
<1>2. /\ DOMAIN e.orders = DOMAIN d.orders \cup {n} /\ n \notin DOMAIN d.orders
      /\ e.orders[n] = new
      /\ \A i \in DOMAIN d.orders : e.orders[i] = d.orders[i]
      /\ e.orders \in Seq(Order)
  BY <1>1 DEF BillingOK, BillingTypes
<1>3. BillingTypes(e)
  <2>1. e.lines \subseteq Line(DOMAIN e.orders)
    BY <1>1, <1>2 DEF BillingOK, BillingTypes, Line
  <2>2. e.invoices \in Seq(Invoice(DOMAIN e.orders))
    <3>1. Invoice(DOMAIN d.orders) \subseteq Invoice(DOMAIN e.orders)
      BY <1>2 DEF Invoice
    <3> QED BY <1>1, <3>1 DEF BillingOK, BillingTypes
  <2> QED BY <1>1, <1>2, <2>1, <2>2 DEF BillingOK, BillingTypes
<1>4. \A o : LinesOf(e, o) = LinesOf(d, o) /\ InvoicesOf(e, o) = InvoicesOf(d, o)
  BY <1>1 DEF LinesOf, InvoicesOf
<1>5. OrderAgrees(e, n)
  <2>1. LinesOf(e, n) = {}
    BY <1>1, <1>2 DEF BillingOK, BillingTypes, Line, LinesOf
  <2>2. InvoicesOf(e, n) = {}
    <3>1. \A i \in DOMAIN d.invoices : d.invoices[i] \in Invoice(DOMAIN d.orders)
      BY DEF BillingOK, BillingTypes
    <3> QED BY <1>1, <1>2, <3>1 DEF Invoice, InvoicesOf
  <2>3. 0 <= MaxSafe
    BY ApplicationsAssumption
  <2>4. SumFunctionOnSet(AmountOf(e, n), LinesOf(e, n)) = 0 /\ Cardinality(LinesOf(e, n)) = 0
    BY <2>1, FS_EmptySet, SumOfNothing
  <2>5. e.orders[n].status = "draft" /\ e.orders[n].total = 0 /\ e.orders[n].version = 1
    BY <1>2
  <2> HIDE DEF n
  <2> QED BY <2>2, <2>3, <2>4, <2>5 DEF OrderAgrees
<1>6. ASSUME NEW o \in DOMAIN d.orders PROVE OrderAgrees(e, o)
  <2>1. OrderAgrees(d, o) /\ e.orders[o] = d.orders[o]
    BY <1>2 DEF BillingOK
  <2>2. \A i \in InvoicesOf(d, o) : i \in DOMAIN e.invoices /\ e.invoices[i].total = d.invoices[i].total
    BY <1>1 DEF InvoicesOf
  <2> QED BY <1>4, <2>1, <2>2, SameAgrees
<1> HIDE DEF n
<1> QED BY <1>2, <1>3, <1>4, <1>5, <1>6 DEF BillingOK, InvoicedStay

\* A line more, and the order's total and version with it.
LEMMA AddLineKeeps ==
  ASSUME NEW d, BillingOK(d), NEW o \in DOMAIN d.orders, d.orders[o].status = "draft",
         NEW line \in Line(DOMAIN d.orders), line.order = o, line \notin d.lines,
         d.orders[o].total + line.amount <= MaxSafe,
         NEW new, new = Raised(d.orders[o], d.orders[o].total + line.amount), NEW e,
         IsBilling(e), e.lines = d.lines \cup {line}, e.invoices = d.invoices,
         e.orders = WithRow(d.orders, o, new)
  PROVE  BillingOK(e) /\ InvoicedStay(d, e)
<1>1. e.lines = d.lines \cup {line} /\ e.invoices = d.invoices
  OBVIOUS
<1>2. d.orders[o] \in Order /\ line.amount \in Nat /\ line.amount > 0
  BY DEF BillingOK, BillingTypes, Line
<1>3. /\ DOMAIN e.orders = DOMAIN d.orders
      /\ e.orders[o] = new /\ new \in Order
      /\ \A i \in DOMAIN d.orders : i # o => e.orders[i] = d.orders[i]
      /\ e.orders \in Seq(Order)
  <2>1. new \in Order
    <3> DEFINE r == d.orders[o]
    <3>1. /\ r.tenant \in Tenants /\ r.number \in Numbers /\ r.status \in {"draft", "invoiced"}
          /\ r.total + line.amount \in Nat /\ r.version + 1 \in Nat
          /\ r = [tenant |-> r.tenant, number |-> r.number, status |-> r.status,
                  total |-> r.total, version |-> r.version]
      BY <1>2 DEF Order
    <3>2. new = [tenant |-> r.tenant, number |-> r.number, status |-> r.status,
                 total |-> r.total + line.amount, version |-> r.version + 1]
      BY <3>1 DEF Raised
    <3> QED BY <3>1, <3>2 DEF Order
  <2> QED BY <2>1 DEF BillingOK, BillingTypes, WithRow
<1>4. BillingTypes(e)
  <2>1. IsFiniteSet(e.lines) /\ e.lines \subseteq Line(DOMAIN e.orders)
    BY <1>1, <1>3, FS_AddElement DEF BillingOK, BillingTypes
  <2> QED BY <1>1, <1>3, <2>1 DEF BillingOK, BillingTypes
<1>5. \A i : InvoicesOf(e, i) = InvoicesOf(d, i)
  BY <1>1 DEF InvoicesOf
<1>6. \A i : i # o => LinesOf(e, i) = LinesOf(d, i)
  BY <1>1 DEF LinesOf
<1>7. LinesOf(e, o) = LinesOf(d, o) \cup {line} /\ line \notin LinesOf(d, o)
  BY <1>1 DEF LinesOf
<1>8. OrderAgrees(e, o)
  <2>1. OrderAgrees(d, o)
    BY DEF BillingOK
  <2>2. /\ IsFiniteSet(LinesOf(d, o)) /\ Cardinality(LinesOf(d, o)) \in Nat
        /\ \A l \in LinesOf(d, o) : AmountOf(e, o)[l] = AmountOf(d, o)[l] /\ AmountOf(d, o)[l] \in Nat
        /\ AmountOf(e, o)[line] = line.amount
    BY <1>7, LinesFinite DEF AmountOf, BillingOK
  <2>3. SumFunctionOnSet(AmountOf(e, o), LinesOf(d, o)) = SumFunctionOnSet(AmountOf(d, o), LinesOf(d, o))
    BY <2>2, SumOfSame
  <2>4. SumFunctionOnSet(AmountOf(e, o), LinesOf(e, o))
          = SumFunctionOnSet(AmountOf(e, o), LinesOf(d, o)) + line.amount
    <3>1. ASSUME NEW f, f = AmountOf(e, o)
          PROVE  SumFunctionOnSet(f, LinesOf(d, o) \cup {line})
                   = SumFunctionOnSet(f, LinesOf(d, o)) + f[line]
      <4>1. /\ line \notin LinesOf(d, o) /\ f[line] \in Nat /\ \A l \in LinesOf(d, o) : f[l] \in Nat
            /\ IsFiniteSet(LinesOf(d, o))
        BY <1>2, <1>7, <2>2, <3>1
      <4> QED BY <4>1, SumOfMore
    <3> QED BY <1>7, <2>2, <3>1
  <2>5. Cardinality(LinesOf(e, o)) = Cardinality(LinesOf(d, o)) + 1
    BY <1>7, <2>2, FS_AddElement
  <2>6. /\ e.orders[o].total = d.orders[o].total + line.amount
        /\ e.orders[o].version = d.orders[o].version + 1
        /\ e.orders[o].status = "draft"
        /\ d.orders[o].total \in Nat /\ d.orders[o].version \in Nat
    BY <1>2, <1>3 DEF Order, Raised
  <2>7. /\ d.orders[o].total = SumFunctionOnSet(AmountOf(d, o), LinesOf(d, o))
        /\ d.orders[o].version = 1 + Cardinality(LinesOf(d, o)) + 0
        /\ InvoicesOf(d, o) = {}
    BY <2>1 DEF OrderAgrees
  <2>8. e.orders[o].total = SumFunctionOnSet(AmountOf(e, o), LinesOf(e, o))
    BY <2>3, <2>4, <2>6, <2>7
  <2>9. e.orders[o].version = 1 + Cardinality(LinesOf(e, o)) + 0
    BY <2>2, <2>5, <2>6, <2>7
  <2> QED BY <1>5, <2>6, <2>7, <2>8, <2>9 DEF OrderAgrees
<1>9. ASSUME NEW i \in DOMAIN d.orders, i # o PROVE OrderAgrees(e, i)
  <2>1. OrderAgrees(d, i) /\ e.orders[i] = d.orders[i]
    BY <1>3, <1>9 DEF BillingOK
  <2>2. \A j \in InvoicesOf(d, i) : j \in DOMAIN e.invoices /\ e.invoices[j].total = d.invoices[j].total
    BY <1>1 DEF InvoicesOf
  <2> QED BY <1>5, <1>6, <1>9, <2>1, <2>2, SameAgrees
<1>10. InvoicedStay(d, e)
  BY <1>3, <1>6 DEF InvoicedStay
<1> QED BY <1>3, <1>4, <1>8, <1>9, <1>10 DEF BillingOK

\* An order with lines is invoiced, over its total.
LEMMA IssueKeeps ==
  ASSUME NEW d, BillingOK(d), NEW o \in DOMAIN d.orders, d.orders[o].status = "draft",
         LinesOf(d, o) # {}, NEW new \in Invoice(DOMAIN d.orders), new.order = o,
         new.total = d.orders[o].total,
         NEW row, row = Invoiced(d.orders[o]), NEW e,
         IsBilling(e), e.lines = d.lines, e.invoices = Append(d.invoices, new),
         e.orders = WithRow(d.orders, o, row)
  PROVE  BillingOK(e) /\ InvoicedStay(d, e) /\ e.orders[o].status = "invoiced"
<1> DEFINE n == Len(d.invoices) + 1
<1>1. e.lines = d.lines /\ e.invoices = Append(d.invoices, new)
  OBVIOUS
<1>2. d.orders[o] \in Order
  BY DEF BillingOK, BillingTypes
<1>3. /\ DOMAIN e.orders = DOMAIN d.orders
      /\ e.orders[o] = row /\ row \in Order
      /\ \A i \in DOMAIN d.orders : i # o => e.orders[i] = d.orders[i]
      /\ e.orders \in Seq(Order)
  <2>1. row \in Order
    <3> DEFINE r == d.orders[o]
    <3>1. /\ r.tenant \in Tenants /\ r.number \in Numbers /\ r.total \in Nat /\ r.version + 1 \in Nat
          /\ r = [tenant |-> r.tenant, number |-> r.number, status |-> r.status,
                  total |-> r.total, version |-> r.version]
      BY <1>2 DEF Order
    <3>2. row = [tenant |-> r.tenant, number |-> r.number, status |-> "invoiced",
                 total |-> r.total, version |-> r.version + 1]
      BY <3>1 DEF Invoiced
    <3> QED BY <3>1, <3>2 DEF Order
  <2> QED BY <2>1 DEF BillingOK, BillingTypes, WithRow
<1>4. /\ DOMAIN e.invoices = DOMAIN d.invoices \cup {n} /\ n \notin DOMAIN d.invoices
      /\ e.invoices[n] = new
      /\ \A i \in DOMAIN d.invoices : e.invoices[i] = d.invoices[i]
      /\ e.invoices \in Seq(Invoice(DOMAIN d.orders))
  BY <1>1 DEF BillingOK, BillingTypes
<1>5. BillingTypes(e)
  BY <1>1, <1>3, <1>4 DEF BillingOK, BillingTypes
<1>6. \A i : LinesOf(e, i) = LinesOf(d, i) /\ AmountOf(e, i) = AmountOf(d, i)
  BY <1>1 DEF LinesOf, AmountOf
<1> HIDE DEF n
<1>7. \A i : i # o => InvoicesOf(e, i) = InvoicesOf(d, i)
  BY <1>4 DEF InvoicesOf
<1>8. InvoicesOf(d, o) = {} => InvoicesOf(e, o) = {n}
  BY <1>4 DEF InvoicesOf
<1>9. e.orders[o].status = "invoiced" /\ OrderAgrees(e, o)
  <2>1. OrderAgrees(d, o)
    BY DEF BillingOK
  <2>2. /\ d.orders[o].total = SumFunctionOnSet(AmountOf(d, o), LinesOf(d, o))
        /\ d.orders[o].total <= MaxSafe
        /\ d.orders[o].version = 1 + Cardinality(LinesOf(d, o)) + 0
        /\ InvoicesOf(d, o) = {}
    BY <2>1 DEF OrderAgrees
  <2>3. /\ e.orders[o].total = d.orders[o].total
        /\ e.orders[o].version = d.orders[o].version + 1
        /\ e.orders[o].status = "invoiced"
        /\ d.orders[o].total \in Nat /\ d.orders[o].version \in Nat
    BY <1>2, <1>3 DEF Order, Invoiced
  <2>4. PICK l \in LinesOf(d, o) : TRUE
    OBVIOUS
  <2>5. /\ IsFiniteSet(LinesOf(d, o)) /\ Cardinality(LinesOf(d, o)) \in Nat
        /\ \A x \in LinesOf(d, o) : AmountOf(d, o)[x] \in Nat /\ AmountOf(d, o)[x] > 0
    BY LinesFinite DEF BillingOK
  <2>6. d.orders[o].total > 0
    <3>1. SumFunctionOnSet(AmountOf(d, o), LinesOf(d, o) \ {l}) \in Nat
      <4>1. IsFiniteSet(LinesOf(d, o) \ {l})
        BY <2>5, FS_RemoveElement
      <4> QED BY <2>5, <4>1, SumIsNat
    <3>2. SumFunctionOnSet(AmountOf(d, o), LinesOf(d, o))
            = AmountOf(d, o)[l] + SumFunctionOnSet(AmountOf(d, o), LinesOf(d, o) \ {l})
      <4>1. ASSUME NEW f, f = AmountOf(d, o)
            PROVE  SumFunctionOnSet(f, LinesOf(d, o)) = f[l] + SumFunctionOnSet(f, LinesOf(d, o) \ {l})
        <5>1. IsFiniteSet(LinesOf(d, o)) /\ \A x \in LinesOf(d, o) : f[x] \in Nat
          BY <2>5, <4>1
        <5> QED BY <2>4, <5>1, SumWithout
      <4> QED BY <4>1
    <3> DEFINE a == AmountOf(d, o)[l]
               rest == SumFunctionOnSet(AmountOf(d, o), LinesOf(d, o) \ {l})
    <3>3. d.orders[o].total = a + rest /\ a \in Nat /\ a > 0 /\ rest \in Nat
      BY <2>2, <2>5, <3>1, <3>2
    <3> HIDE DEF a, rest
    <3> QED BY <3>3
  <2>7. e.orders[o].version = 1 + Cardinality(LinesOf(d, o)) + 1
    BY <2>2, <2>3, <2>5
  <2>8. n \in DOMAIN e.invoices /\ InvoicesOf(e, o) = {n} /\ e.invoices[n].total = e.orders[o].total
    BY <1>4, <1>8, <2>2, <2>3
  <2>9. e.orders[o].total = SumFunctionOnSet(AmountOf(e, o), LinesOf(e, o)) /\ LinesOf(e, o) = LinesOf(d, o)
    BY <1>6, <2>2, <2>3
  <2>10. e.orders[o].total > 0 /\ e.orders[o].total <= MaxSafe
    BY <2>2, <2>3, <2>6
  <2> QED BY <2>3, <2>7, <2>8, <2>9, <2>10 DEF OrderAgrees
<1>10. ASSUME NEW i \in DOMAIN d.orders, i # o PROVE OrderAgrees(e, i)
  <2>1. OrderAgrees(d, i) /\ e.orders[i] = d.orders[i]
    BY <1>3, <1>10 DEF BillingOK
  <2>2. \A j \in InvoicesOf(d, i) : j \in DOMAIN e.invoices /\ e.invoices[j].total = d.invoices[j].total
    BY <1>4 DEF InvoicesOf
  <2> QED BY <1>6, <1>7, <1>10, <2>1, <2>2, SameAgrees
<1>11. InvoicedStay(d, e)
  BY <1>3, <1>6 DEF InvoicedStay
<1> QED BY <1>3, <1>5, <1>9, <1>10, <1>11 DEF BillingOK

\* A paid invoice is over what it was issued for.
LEMMA PayKeeps ==
  ASSUME NEW d, BillingOK(d), NEW i \in DOMAIN d.invoices,
         NEW paid, paid = Paid(d.invoices[i]), NEW e,
         IsBilling(e), e.lines = d.lines, e.orders = d.orders,
         e.invoices = WithRow(d.invoices, i, paid)
  PROVE  BillingOK(e) /\ InvoicedStay(d, e)
<1>1. e.lines = d.lines /\ e.orders = d.orders
  OBVIOUS
<1>2. /\ DOMAIN e.invoices = DOMAIN d.invoices
      /\ e.invoices[i] = paid
      /\ \A j \in DOMAIN d.invoices : j # i => e.invoices[j] = d.invoices[j]
      /\ e.invoices \in Seq(Invoice(DOMAIN d.orders))
  <2>2. d.invoices \in Seq(Invoice(DOMAIN d.orders)) /\ d.invoices[i] \in Invoice(DOMAIN d.orders)
    BY DEF BillingOK, BillingTypes
  <2>3. paid \in Invoice(DOMAIN d.orders)
    <3> DEFINE r == d.invoices[i]
    <3>1. /\ r.tenant \in Tenants /\ r.number \in Numbers /\ r.order \in DOMAIN d.orders
          /\ r.total \in Nat /\ r.version + 1 \in Nat
          /\ r = [tenant |-> r.tenant, order |-> r.order, number |-> r.number, status |-> r.status,
                  total |-> r.total, version |-> r.version]
      BY <2>2 DEF Invoice
    <3>2. paid = [tenant |-> r.tenant, order |-> r.order, number |-> r.number, status |-> "paid",
                  total |-> r.total, version |-> r.version + 1]
      BY <3>1 DEF Paid
    <3> QED BY <3>1, <3>2 DEF Invoice
  <2> QED BY <2>2, <2>3 DEF WithRow
<1>3. \A j \in DOMAIN d.invoices :
        e.invoices[j].order = d.invoices[j].order /\ e.invoices[j].total = d.invoices[j].total
  <2> DEFINE r == d.invoices[i]
  <2>1. r = [tenant |-> r.tenant, order |-> r.order, number |-> r.number, status |-> r.status,
             total |-> r.total, version |-> r.version]
    <3>1. r \in Invoice(DOMAIN d.orders)
      BY DEF BillingOK, BillingTypes
    <3> QED BY <3>1 DEF Invoice
  <2>2. paid.order = r.order /\ paid.total = r.total
    BY <2>1 DEF Paid
  <2> QED BY <1>2, <2>2
<1>4. \A o : InvoicesOf(e, o) = InvoicesOf(d, o) /\ LinesOf(e, o) = LinesOf(d, o)
  BY <1>1, <1>2, <1>3 DEF InvoicesOf, LinesOf
<1>5. BillingTypes(e)
  BY <1>1, <1>2 DEF BillingOK, BillingTypes
<1>6. ASSUME NEW o \in DOMAIN d.orders PROVE OrderAgrees(e, o)
  <2>1. OrderAgrees(d, o) /\ e.orders[o] = d.orders[o]
    BY <1>1 DEF BillingOK
  <2>2. \A j \in InvoicesOf(d, o) : j \in DOMAIN e.invoices /\ e.invoices[j].total = d.invoices[j].total
    BY <1>2, <1>3 DEF InvoicesOf
  <2> QED BY <1>4, <2>1, <2>2, SameAgrees
<1>7. InvoicedStay(d, e)
  BY <1>1, <1>4 DEF InvoicedStay
<1> QED BY <1>1, <1>5, <1>6, <1>7 DEF BillingOK

LEMMA BillingServed ==
  ASSUME Serves, NEW q, q.app = "billing"
  PROVE  /\ Script(q) = Billing!Handler(q)
         /\ Transactional(q)
         /\ Declared(q) = Billing!Errors(q)
         /\ \A s, seen, d : Execute(s, q, seen, d) = Billing!RunStatement(s, q, seen, d)
BY DEF Serves, ServedScript, ServedTransactional, ServedDeclared, ServedExecute

LEMMA BillingBefore ==
  ASSUME Serves, NEW q, q.app = "billing", NEW d, NEW n \in Nat \ {0},
         Atomic!After(q, n, d).failure = Succeeds
  PROVE  /\ Atomic!After(q, n - 1, d).failure = Succeeds
         /\ Atomic!After(q, n, d) =
              Billing!RunStatement(Script(q)[n], q,
                Atomic!After(q, n - 1, d).seen, Atomic!After(q, n - 1, d).db)
BY BillingServed, Before

\* What an assignment to one table leaves of the database.
LEMMA OrdersSet ==
  ASSUME NEW d, IsBilling(d), NEW x, NEW e, e = WithOrders(d, x)
  PROVE  IsBilling(e) /\ e.orders = x /\ e.lines = d.lines /\ e.invoices = d.invoices
<1>1. e = [app |-> "billing", orders |-> x, lines |-> d.lines, invoices |-> d.invoices]
  BY DEF IsBilling, WithOrders
<1> QED BY <1>1 DEF IsBilling

LEMMA LinesSet ==
  ASSUME NEW d, IsBilling(d), NEW x, NEW e, e = WithLines(d, x)
  PROVE  IsBilling(e) /\ e.orders = d.orders /\ e.lines = x /\ e.invoices = d.invoices
<1>1. e = [app |-> "billing", orders |-> d.orders, lines |-> x, invoices |-> d.invoices]
  BY DEF IsBilling, WithLines
<1> QED BY <1>1 DEF IsBilling

LEMMA InvoicesSet ==
  ASSUME NEW d, IsBilling(d), NEW x, NEW e, e = WithInvoices(d, x)
  PROVE  IsBilling(e) /\ e.orders = d.orders /\ e.lines = d.lines /\ e.invoices = x
<1>1. e = [app |-> "billing", orders |-> d.orders, lines |-> d.lines, invoices |-> x]
  BY DEF IsBilling, WithInvoices
<1> QED BY <1>1 DEF IsBilling

LEMMA BillingRequest ==
  ASSUME NEW x, NEW q \in Billing!Payloads(x)
  PROVE  /\ q.app = "billing"
         /\ \/ q.op = "createOrder" /\ q.tenant \in Tenants /\ q.number \in Numbers
            \/ q.op = "addLine" /\ q.line \in LineNumbers /\ q.amount \in Nat \ {0}
            \/ q.op = "issueInvoice" /\ q.tenant \in Tenants /\ q.number \in Numbers
            \/ q.op = "payInvoice"
            \/ q.op = "getOrder"
BY ApplicationsAssumption DEF Billing!Payloads

USE DEF Billing!Done, Billing!Fails, Billing!FailsWith, Billing!Succeeds

LEMMA CreateWhole ==
  ASSUME Serves, NEW d, BillingOK(d), NEW q, q.app = "billing", q.op = "createOrder",
         q.tenant \in Tenants, q.number \in Numbers, Atomic!After(q, 1, d).failure = Succeeds
  PROVE  LET e == Atomic!After(q, 1, d).db
         IN  BillingOK(e) /\ InvoicedStay(d, e)
<1>1. /\ Script(q) = <<"insertOrder">>
      /\ \A s, seen, x : Execute(s, q, seen, x) = Billing!RunStatement(s, q, seen, x)
  BY BillingServed DEF Billing!Handler
<1> DEFINE a == Atomic!After(q, 1, d)
           new == [tenant |-> q.tenant, number |-> q.number, status |-> "draft",
                   total |-> 0, version |-> 1]
<1>2. a = Billing!InsertOrder(q, d)
  BY <1>1, FirstOf DEF Billing!RunStatement
<1>3. a.db = [d EXCEPT !.orders = Append(@, new)]
  BY <1>2 DEF Billing!InsertOrder, Succeeds
<1> HIDE DEF a
<1>4. new \in Order /\ new.status = "draft" /\ new.total = 0 /\ new.version = 1
  BY DEF Order
<1> HIDE DEF new
<1>5. IsBilling(a.db) /\ a.db.orders = Append(d.orders, new) /\ a.db.lines = d.lines
      /\ a.db.invoices = d.invoices
  <2> DEFINE more == Append(d.orders, new)
  <2>1. a.db = WithOrders(d, more)
    BY <1>3 DEF WithOrders
  <2>2. IsBilling(d)
    BY DEF BillingOK, BillingTypes
  <2> HIDE DEF more
  <2>3. IsBilling(a.db) /\ a.db.orders = more /\ a.db.lines = d.lines /\ a.db.invoices = d.invoices
    BY <2>1, <2>2, OrdersSet
  <2> QED BY <2>3 DEF more
<1>6. BillingOK(a.db) /\ InvoicedStay(d, a.db)
  BY <1>4, <1>5, CreateKeeps
<1> QED BY <1>6 DEF a

\* The order a command is about, as it reads it.
LEMMA OrderRead ==
  ASSUME Serves, NEW d, NEW q, q.app = "billing", Script(q)[1] = "getOrder",
         Script(q)[2] = "orderSummary", Atomic!After(q, 2, d).failure = Succeeds
  PROVE  /\ q.order \in DOMAIN d.orders
         /\ Atomic!After(q, 2, d).db = d
         /\ Atomic!After(q, 2, d).seen.order = d.orders[q.order]
         /\ Atomic!After(q, 2, d).seen.lines = LinesOf(d, q.order)
<1>1. \A s, seen, x : Execute(s, q, seen, x) = Billing!RunStatement(s, q, seen, x)
  BY BillingServed
<1> DEFINE a(n) == Atomic!After(q, n, d)
<1>2. a(2) = Billing!RunStatement("orderSummary", q, a(1).seen, a(1).db) /\ a(1).failure = Succeeds
  BY <1>1, Before
<1>3. a(1) = Billing!RunStatement("getOrder", q, Nothing, d)
  BY <1>1, FirstOf
<1> HIDE DEF a
<1>4. a(1) = Billing!GetOrder(q, Nothing, d)
  BY <1>3 DEF Billing!RunStatement
<1>5. a(1).db = d /\ q.order \in DOMAIN d.orders
  BY <1>2, <1>4 DEF Billing!GetOrder, Billing!Owned, Succeeds
<1>6. a(2) = Billing!OrderSummary(q, d)
  BY <1>2, <1>5 DEF Billing!RunStatement
<1>7. a(2).db = d /\ a(2).seen.order = d.orders[q.order] /\ a(2).seen.lines = LinesOf(d, q.order)
  BY <1>6 DEF Billing!OrderSummary, Billing!LinesOf, LinesOf
<1> QED BY <1>5, <1>7 DEF a

LEMMA AddLineWhole ==
  ASSUME Serves, NEW d, BillingOK(d), NEW q, q.app = "billing", q.op = "addLine",
         q.line \in LineNumbers, q.amount \in Nat \ {0}, Atomic!After(q, 6, d).failure = Succeeds
  PROVE  LET e == Atomic!After(q, 6, d).db
         IN  BillingOK(e) /\ InvoicedStay(d, e)
<1>1. /\ Script(q) = <<"getOrder", "orderSummary", "raiseTotal", "insertLine",
                       "getOrder", "orderSummary">>
      /\ \A s, seen, x : Execute(s, q, seen, x) = Billing!RunStatement(s, q, seen, x)
  BY BillingServed DEF Billing!Handler
<1> DEFINE a(n) == Atomic!After(q, n, d)
           o == q.order
<1>2. /\ a(6) = Billing!OrderSummary(q, a(5).db)
      /\ a(5).failure = Succeeds
  <2>1. Script(q)[6] = "orderSummary" /\ 6 - 1 = 5
    BY <1>1
  <2>2. a(6) = Billing!RunStatement("orderSummary", q, a(5).seen, a(5).db) /\ a(5).failure = Succeeds
    BY <2>1, BillingBefore
  <2> QED BY <2>2 DEF Billing!RunStatement
<1>3. /\ a(5) = Billing!GetOrder(q, a(4).seen, a(4).db)
      /\ a(4).failure = Succeeds
  <2>1. Script(q)[5] = "getOrder" /\ 5 - 1 = 4
    BY <1>1
  <2>2. a(5) = Billing!RunStatement("getOrder", q, a(4).seen, a(4).db) /\ a(4).failure = Succeeds
    BY <1>2, <2>1, BillingBefore
  <2> QED BY <2>2 DEF Billing!RunStatement
<1>4. /\ a(4) = Billing!InsertLine(q, a(3).seen, a(3).db)
      /\ a(3).failure = Succeeds
  <2>1. Script(q)[4] = "insertLine" /\ 4 - 1 = 3
    BY <1>1
  <2>2. a(4) = Billing!RunStatement("insertLine", q, a(3).seen, a(3).db) /\ a(3).failure = Succeeds
    BY <1>3, <2>1, BillingBefore
  <2> QED BY <2>2 DEF Billing!RunStatement
<1>5. /\ a(3) = Billing!RaiseTotal(q, a(2).seen, a(2).db)
      /\ a(2).failure = Succeeds
  <2>1. Script(q)[3] = "raiseTotal" /\ 3 - 1 = 2
    BY <1>1
  <2>2. a(3) = Billing!RunStatement("raiseTotal", q, a(2).seen, a(2).db) /\ a(2).failure = Succeeds
    BY <1>4, <2>1, BillingBefore
  <2> QED BY <2>2 DEF Billing!RunStatement
<1>6. o \in DOMAIN d.orders /\ a(2).db = d /\ a(2).seen.order = d.orders[o]
  BY <1>1, <1>5, OrderRead
<1> HIDE DEF a
<1>7. /\ d.orders[o].status = "draft"
      /\ ~(d.orders[o].total + q.amount > MaxSafe)
      /\ a(3).db = [d EXCEPT !.orders[o].total = a(2).seen.order.total + q.amount,
                             !.orders[o].version = @ + 1]
  <2>1. a(3) = Billing!RaiseTotal(q, a(2).seen, d)
    BY <1>5, <1>6
  <2>2. /\ a(2).seen.order.status = "draft"
        /\ ~(a(2).seen.order.total + q.amount > MaxSafe)
        /\ a(3).db = [d EXCEPT !.orders[o].total = a(2).seen.order.total + q.amount,
                               !.orders[o].version = @ + 1]
    BY <1>4, <2>1 DEF Billing!RaiseTotal, Billing!MayGrow, Succeeds
  <2> QED BY <1>6, <2>2
<1>8. /\ ~ \E l \in LinesOf(a(3).db, o) : l.line = q.line
      /\ a(4).db = [a(3).db EXCEPT !.lines = @ \cup {[order |-> o, line |-> q.line, amount |-> q.amount]}]
  BY <1>3, <1>4 DEF Billing!InsertLine, Billing!LinesOf, LinesOf, Succeeds
<1>9. a(6).db = a(4).db
  BY <1>2, <1>3 DEF Billing!OrderSummary, Billing!GetOrder
<1> DEFINE line == [order |-> o, line |-> q.line, amount |-> q.amount]
           new == Raised(d.orders[o], a(2).seen.order.total + q.amount)
           e == a(6).db
<1>10. /\ IsBilling(a(3).db) /\ a(3).db.lines = d.lines /\ a(3).db.invoices = d.invoices
       /\ a(3).db.orders = WithRow(d.orders, o, new)
  <2> DEFINE t == a(2).seen.order.total + q.amount
  <2>1. a(3).db = [d EXCEPT !.orders[o].total = t, !.orders[o].version = @ + 1]
    BY <1>7
  <2> HIDE DEF t
  <2>2. [d EXCEPT !.orders[o].total = t, !.orders[o].version = @ + 1]
          = WithOrders(d, WithRow(d.orders, o, Raised(d.orders[o], t)))
    BY <1>6 DEF BillingOK, BillingTypes, IsBilling, WithOrders, WithRow, Raised
  <2>3. a(3).db = WithOrders(d, WithRow(d.orders, o, new))
    BY <2>1, <2>2 DEF t
  <2> HIDE DEF new
  <2> QED BY <2>3, OrdersSet DEF BillingOK, BillingTypes
<1>11. /\ line \in Line(DOMAIN d.orders) /\ line.order = o /\ line \notin d.lines
       /\ line.amount = q.amount
  <2>1. line.order = o /\ line.line = q.line
    OBVIOUS
  <2>2. line \notin d.lines
    BY <1>8, <1>10, <2>1 DEF LinesOf
  <2> QED BY <1>6, <2>1, <2>2 DEF Line
<1> HIDE DEF line
<1>12. IsBilling(e) /\ e.lines = d.lines \cup {line} /\ e.invoices = d.invoices
       /\ e.orders = WithRow(d.orders, o, new)
  <2> HIDE DEF new
  <2>1. a(4).db = WithLines(a(3).db, a(3).db.lines \cup {line})
    BY <1>8 DEF line, WithLines
  <2> QED BY <1>9, <1>10, <2>1, LinesSet
<1>13. d.orders[o].total + line.amount <= MaxSafe
  <2>1. d.orders[o] \in Order
    BY <1>6 DEF BillingOK, BillingTypes
  <2> QED BY <1>7, <1>11, <2>1, ApplicationsAssumption DEF Order
<1>14. new = Raised(d.orders[o], d.orders[o].total + line.amount)
  BY <1>6, <1>11
<1>15. BillingOK(e) /\ InvoicedStay(d, e)
  <2> HIDE DEF e, new, o
  <2> QED BY <1>6, <1>7, <1>11, <1>12, <1>13, <1>14, AddLineKeeps
<1> QED BY <1>15 DEF a

LEMMA IssueWhole ==
  ASSUME Serves, NEW d, BillingOK(d), NEW q, q.app = "billing", q.op = "issueInvoice",
         q.tenant \in Tenants, q.number \in Numbers, Atomic!After(q, 4, d).failure = Succeeds
  PROVE  LET e == Atomic!After(q, 4, d).db
         IN  /\ BillingOK(e) /\ InvoicedStay(d, e)
             /\ q.order \in DOMAIN e.orders /\ e.orders[q.order].status = "invoiced"
             /\ q.expected = 1 + Cardinality(LinesOf(e, q.order))
<1>1. /\ Script(q) = <<"getOrder", "orderSummary", "invoiceOrder", "insertInvoice">>
      /\ \A s, seen, x : Execute(s, q, seen, x) = Billing!RunStatement(s, q, seen, x)
  BY BillingServed DEF Billing!Handler
<1> DEFINE a(n) == Atomic!After(q, n, d)
           o == q.order
<1>2. /\ a(4) = Billing!InsertInvoice(q, a(3).seen, a(3).db)
      /\ a(3).failure = Succeeds /\ a(4).failure = Succeeds
  <2>1. Script(q)[4] = "insertInvoice" /\ 4 - 1 = 3
    BY <1>1
  <2>2. a(4) = Billing!RunStatement("insertInvoice", q, a(3).seen, a(3).db) /\ a(3).failure = Succeeds
    BY <2>1, BillingBefore
  <2> QED BY <2>2 DEF Billing!RunStatement
<1>3. /\ a(3) = Billing!InvoiceOrder(q, a(2).seen, a(2).db)
      /\ a(2).failure = Succeeds
  <2>1. Script(q)[3] = "invoiceOrder" /\ 3 - 1 = 2
    BY <1>1
  <2>2. a(3) = Billing!RunStatement("invoiceOrder", q, a(2).seen, a(2).db) /\ a(2).failure = Succeeds
    BY <1>2, <2>1, BillingBefore
  <2> QED BY <2>2 DEF Billing!RunStatement
<1>4. /\ o \in DOMAIN d.orders /\ a(2).db = d /\ a(2).seen.order = d.orders[o]
      /\ a(2).seen.lines = LinesOf(d, o)
  BY <1>1, <1>3, OrderRead
<1> HIDE DEF a
<1>5. /\ LinesOf(d, o) # {} /\ d.orders[o].status = "draft" /\ d.orders[o].version = q.expected
      /\ a(3).db = [d EXCEPT !.orders[o].status = "invoiced", !.orders[o].version = @ + 1]
      /\ a(3).seen.order = d.orders[o]
  <2>1. a(3) = Billing!InvoiceOrder(q, a(2).seen, d)
    BY <1>3, <1>4
  <2>2. /\ a(2).seen.lines # {} /\ d.orders[o].status = "draft" /\ d.orders[o].version = q.expected
        /\ a(3).db = [d EXCEPT !.orders[o].status = "invoiced", !.orders[o].version = @ + 1]
        /\ a(3).seen = a(2).seen
    BY <1>2, <2>1 DEF Billing!InvoiceOrder, Billing!Current, Succeeds
  <2> QED BY <1>4, <2>2
<1> DEFINE new == [tenant |-> q.tenant, order |-> o, number |-> q.number,
                   status |-> "issued", total |-> d.orders[o].total, version |-> 1]
           row == Invoiced(d.orders[o])
           e == a(4).db
<1>6. a(4).db = WithInvoices(a(3).db, Append(a(3).db.invoices, new))
  <2>1. a(4).db = [a(3).db EXCEPT !.invoices = Append(@,
                     [tenant |-> q.tenant, order |-> o, number |-> q.number,
                      status |-> "issued", total |-> a(3).seen.order.total, version |-> 1])]
    BY <1>2 DEF Billing!InsertInvoice, Succeeds
  <2> QED BY <1>5, <2>1 DEF WithInvoices
<1>7. /\ IsBilling(a(3).db) /\ a(3).db.lines = d.lines /\ a(3).db.invoices = d.invoices
      /\ a(3).db.orders = WithRow(d.orders, o, row)
  <2>1. [d EXCEPT !.orders[o].status = "invoiced", !.orders[o].version = @ + 1]
          = WithOrders(d, WithRow(d.orders, o, row))
    BY <1>4 DEF BillingOK, BillingTypes, IsBilling, WithOrders, WithRow, Invoiced
  <2>2. a(3).db = WithOrders(d, WithRow(d.orders, o, row))
    BY <1>5, <2>1
  <2> HIDE DEF row
  <2> QED BY <2>2, OrdersSet DEF BillingOK, BillingTypes
<1>8. /\ d.orders[o] \in Order
      /\ new \in Invoice(DOMAIN d.orders) /\ new.order = o /\ new.total = d.orders[o].total
  <2>1. d.orders[o] \in Order
    BY <1>4 DEF BillingOK, BillingTypes
  <2> QED BY <1>4, <2>1 DEF Order, Invoice
<1> HIDE DEF new
<1>9. IsBilling(e) /\ e.lines = d.lines /\ e.invoices = Append(d.invoices, new)
      /\ e.orders = WithRow(d.orders, o, row)
  <2> HIDE DEF row
  <2>1. IsBilling(e) /\ e.orders = a(3).db.orders /\ e.lines = a(3).db.lines
        /\ e.invoices = Append(a(3).db.invoices, new)
    <3> DEFINE more == Append(a(3).db.invoices, new)
    <3>1. e = WithInvoices(a(3).db, more)
      BY <1>6
    <3> HIDE DEF more, e
    <3>2. IsBilling(e) /\ e.orders = a(3).db.orders /\ e.lines = a(3).db.lines /\ e.invoices = more
      BY <1>7, <3>1, InvoicesSet
    <3> QED BY <3>2 DEF more
  <2> QED BY <1>7, <2>1
<1>10. BillingOK(e) /\ InvoicedStay(d, e) /\ e.orders[o].status = "invoiced"
  <2>1. row = Invoiced(d.orders[o])
    OBVIOUS
  <2> HIDE DEF e, row, o
  <2> QED BY <1>4, <1>5, <1>8, <1>9, <2>1, IssueKeeps
<1>11. o \in DOMAIN e.orders /\ LinesOf(e, o) = LinesOf(d, o)
  BY <1>4, <1>9 DEF LinesOf, WithRow
<1>12. q.expected = 1 + Cardinality(LinesOf(d, o))
  <2>1. OrderAgrees(d, o) /\ Cardinality(LinesOf(d, o)) \in Nat
    BY <1>4, LinesFinite DEF BillingOK
  <2>2. d.orders[o].version = 1 + Cardinality(LinesOf(d, o)) + 0
    BY <1>5, <2>1 DEF OrderAgrees
  <2> QED BY <1>5, <2>1, <2>2
<1> QED BY <1>10, <1>11, <1>12 DEF a

LEMMA PayWhole ==
  ASSUME Serves, NEW d, BillingOK(d), NEW q, q.app = "billing", q.op = "payInvoice",
         Atomic!After(q, 2, d).failure = Succeeds
  PROVE  LET e == Atomic!After(q, 2, d).db
         IN  BillingOK(e) /\ InvoicedStay(d, e)
<1>1. /\ Script(q) = <<"getInvoice", "payInvoice">>
      /\ \A s, seen, x : Execute(s, q, seen, x) = Billing!RunStatement(s, q, seen, x)
  BY BillingServed DEF Billing!Handler
<1> DEFINE a(n) == Atomic!After(q, n, d)
           i == q.invoice
<1>2. /\ a(2) = Billing!PayInvoice(q, a(1).seen, a(1).db)
      /\ a(1).failure = Succeeds /\ a(2).failure = Succeeds
  BY <1>1, Before DEF Billing!RunStatement
<1>3. a(1) = Billing!GetInvoice(q, Nothing, d)
  BY <1>1, FirstOf DEF Billing!RunStatement
<1> HIDE DEF a
<1>4. a(1).db = d /\ i \in DOMAIN d.invoices
  BY <1>2, <1>3 DEF Billing!GetInvoice, Billing!Owned, Succeeds
<1> DEFINE paid == Paid(d.invoices[i])
           e == a(2).db
<1>5. e = WithInvoices(d, WithRow(d.invoices, i, paid))
  <2>1. a(2) = Billing!PayInvoice(q, a(1).seen, d)
    BY <1>2, <1>4
  <2> QED BY <1>2, <2>1 DEF Billing!PayInvoice, Succeeds, WithInvoices, WithRow, Paid
<1>6. IsBilling(e) /\ e.lines = d.lines /\ e.orders = d.orders
      /\ e.invoices = WithRow(d.invoices, i, paid)
  <2> HIDE DEF paid, e
  <2> QED BY <1>5, InvoicesSet DEF BillingOK, BillingTypes
<1>7. BillingOK(e) /\ InvoicedStay(d, e)
  <2>1. paid = Paid(d.invoices[i])
    OBVIOUS
  <2> HIDE DEF e, paid, i
  <2> QED BY <1>4, <1>6, <2>1, PayKeeps
<1> QED BY <1>7 DEF a

\* Whoever issued an invoice had seen the lines it is over, and they stay.
InvoiceSeen(q, d) ==
  q.op = "issueInvoice" =>
    /\ q.order \in DOMAIN d.orders /\ d.orders[q.order].status = "invoiced"
    /\ q.expected = 1 + Cardinality(LinesOf(d, q.order))

\* A command of orders and invoices leaves them agreed.
LEMMA BillingWhole ==
  ASSUME Serves, NEW d, BillingOK(d), NEW x, NEW q \in Billing!Payloads(x),
         Atomic!Whole(q, d).failure = Succeeds
  PROVE  LET e == Atomic!Whole(q, d).db
         IN  BillingOK(e) /\ InvoicedStay(d, e) /\ InvoiceSeen(q, e)
<1>1. q.app = "billing" /\ Script(q) = Billing!Handler(q)
  BY BillingRequest, BillingServed
<1>2. CASE q.op = "createOrder" /\ q.tenant \in Tenants /\ q.number \in Numbers
  <2>1. Len(Script(q)) = 1
    BY <1>1, <1>2 DEF Billing!Handler
  <2> QED BY <1>1, <1>2, <2>1, CreateWhole DEF Atomic!Whole, InvoiceSeen
<1>3. CASE q.op = "addLine" /\ q.line \in LineNumbers /\ q.amount \in Nat \ {0}
  <2>1. Len(Script(q)) = 6
    BY <1>1, <1>3 DEF Billing!Handler
  <2> QED BY <1>1, <1>3, <2>1, AddLineWhole DEF Atomic!Whole, InvoiceSeen
<1>4. CASE q.op = "issueInvoice" /\ q.tenant \in Tenants /\ q.number \in Numbers
  <2>1. Len(Script(q)) = 4
    BY <1>1, <1>4 DEF Billing!Handler
  <2> QED BY <1>1, <1>4, <2>1, IssueWhole DEF Atomic!Whole, InvoiceSeen
<1>5. CASE q.op = "payInvoice"
  <2>1. Len(Script(q)) = 2
    BY <1>1, <1>5 DEF Billing!Handler
  <2> QED BY <1>1, <1>5, <2>1, PayWhole DEF Atomic!Whole, InvoiceSeen
<1>6. CASE q.op = "getOrder"
  <2>1. Script(q) = <<"getOrder", "orderSummary">>
    BY <1>1, <1>6 DEF Billing!Handler
  <2>2. Atomic!Whole(q, d) = Atomic!After(q, 2, d)
    BY <2>1 DEF Atomic!Whole
  <2>3. Atomic!Whole(q, d).db = d
    BY <1>1, <2>1, <2>2, OrderRead
  <2> QED BY <1>6, <2>3 DEF InvoicedStay, InvoiceSeen
<1> QED BY <1>2, <1>3, <1>4, <1>5, <1>6, BillingRequest

HIDE DEF Billing!Done, Billing!Fails, Billing!FailsWith, Billing!Succeeds

-----------------------------------------------------------------------------
(***************************************************************************)
(* Support cases.                                                          *)
(***************************************************************************)
Statuses == {"open", "triaged", "assigned", "resolved"}
Working == Agents \cup {NoAgent}
Case == [status : Statuses, agent : Working, version : Nat \ {0}]
Event == [kind : {"opened", "triaged", "assigned", "resolved", "reopened"}, agent : Working]

\* The action an event is of.
ActionOf(n, event) ==
  IF n = 1 THEN "open"
  ELSE CHOOSE x \in DOMAIN Support!EventKinds : Support!EventKinds[x] = event.kind

ActionsAt(d, c, n) == {a.action : a \in {x \in d.audits : x.id = <<c, n>>}}

\* The history of a case.
Told(d, c) ==
  LET case == d.cases[c]
      events == d.events[c]
  IN  /\ Len(events) = case.version
      /\ Support!StatusAfter(events[case.version].kind) = case.status
      /\ events[case.version].agent = case.agent
      /\ case.status \in {"assigned", "resolved"} <=> case.agent # NoAgent
      /\ case.agent \in DOMAIN d.agents \cup {NoAgent}
      /\ \A n \in DOMAIN events : ActionsAt(d, c, n) = {ActionOf(n, events[n])}

IsSupport(d) ==
  d = [app |-> "support", agents |-> d.agents, cases |-> d.cases, events |-> d.events,
       audits |-> d.audits]

SupportTypes(d) ==
  /\ IsSupport(d)
  /\ DOMAIN d.agents \subseteq Agents
  /\ d.cases \in Seq(Case)
  /\ d.events \in Seq(Seq(Event))
  /\ Len(d.events) = Len(d.cases)
  /\ \A a \in d.audits : \E c \in DOMAIN d.cases : \E n \in 1..d.cases[c].version : a.id = <<c, n>>

SupportOK(d) == SupportTypes(d) /\ \A c \in DOMAIN d.cases : Told(d, c)

\* What is assigned.
WithCases(d, cases) == [d EXCEPT !.cases = cases]
WithEvents(d, events) == [d EXCEPT !.events = events]
WithAudits(d, audits) == [d EXCEPT !.audits = audits]
WithAgents(d, agents) == [d EXCEPT !.agents = agents]
Row(rows, i, row) == [rows EXCEPT ![i] = row]

LEMMA SupportTold ==
  ASSUME NEW d, SupportOK(d)
  PROVE  Support!TrailTellsTheCase(d)
<1>1. DOMAIN d.events = DOMAIN d.cases
  BY DEF SupportOK, SupportTypes
<1>2. ASSUME NEW a \in d.audits PROVE a.id[2] <= d.cases[a.id[1]].version
  <2>0. PICK c \in DOMAIN d.cases : \E n \in 1..d.cases[c].version : a.id = <<c, n>>
    BY DEF SupportOK, SupportTypes
  <2>1. PICK n \in 1..d.cases[c].version : a.id = <<c, n>>
    BY <2>0
  <2>2. a.id[1] = c /\ a.id[2] = n
    BY <2>1
  <2>3. d.cases[c].version \in Nat
    <3>1. d.cases[c] \in Case
      BY DEF SupportOK, SupportTypes
    <3> QED BY <3>1 DEF Case
  <2> QED BY <2>2, <2>3
<1>3. ASSUME NEW c \in DOMAIN d.cases
      PROVE  LET case == d.cases[c]
                 events == d.events[c]
                 actions == [n \in DOMAIN events |->
                               {a.action : a \in {x \in d.audits : x.id = <<c, n>>}}]
             IN  /\ Len(events) = case.version
                 /\ Support!StatusAfter(events[case.version].kind) = case.status
                 /\ events[case.version].agent = case.agent
                 /\ case.status \in {"assigned", "resolved"} <=> case.agent # NoAgent
                 /\ case.agent \in DOMAIN d.agents \cup {NoAgent}
                 /\ \A n \in DOMAIN events :
                      actions[n] = {IF n = 1 THEN "open"
                                    ELSE CHOOSE x \in DOMAIN Support!EventKinds :
                                           Support!EventKinds[x] = events[n].kind}
  <2>1. Told(d, c)
    BY DEF SupportOK
  <2> QED BY <2>1, Zenon DEF Told, ActionsAt, ActionOf
<1> QED BY <1>1, <1>2, <1>3, Zenon DEF Support!TrailTellsTheCase

\* Of two actions, each has an event of its own.
LEMMA ActionOfEvent ==
  ASSUME NEW action \in DOMAIN Support!EventKinds, NEW n, n # 1, NEW event,
         event.kind = Support!EventKinds[action]
  PROVE  ActionOf(n, event) = action
<1>1. \A x \in DOMAIN Support!EventKinds :
        Support!EventKinds[x] = Support!EventKinds[action] => x = action
  BY DEF Support!EventKinds
<1>2. (CHOOSE x \in DOMAIN Support!EventKinds : Support!EventKinds[x] = event.kind) = action
  BY <1>1
<1> QED BY <1>2 DEF ActionOf

\* A case nothing is done about.
LEMMA SameTold ==
  ASSUME NEW d, NEW e, NEW c, Told(d, c), e.cases[c] = d.cases[c], e.events[c] = d.events[c],
         d.cases[c].agent \in DOMAIN e.agents \cup {NoAgent},
         \A n : ActionsAt(e, c, n) = ActionsAt(d, c, n)
  PROVE  Told(e, c)
BY DEF Told

\* A case goes to its next version, with one event and one audit.
Advances(d, e, c, before, event, audit) ==
  LET case == e.cases[c]
      n == case.version
  IN  /\ before \in Seq(Event) /\ Len(before) = n - 1 /\ n \in Nat \ {0} /\ event \in Event
      /\ \A m \in DOMAIN before : ActionsAt(d, c, m) = {ActionOf(m, before[m])}
      /\ \A a \in d.audits : a.id # <<c, n>>
      /\ e.events[c] = Append(before, event)
      /\ e.audits = d.audits \cup {audit}
      /\ audit.id = <<c, n>> /\ audit.action = ActionOf(n, event)
      /\ Support!StatusAfter(event.kind) = case.status /\ event.agent = case.agent
      /\ case.status \in {"assigned", "resolved"} <=> case.agent # NoAgent
      /\ case.agent \in DOMAIN e.agents \cup {NoAgent}

LEMMA NextTold ==
  ASSUME NEW d, NEW e, NEW c, NEW before, NEW event, NEW audit,
         Advances(d, e, c, before, event, audit)
  PROVE  Told(e, c)
<1> DEFINE case == e.cases[c]
           n == case.version
<1> USE DEF Advances
<1> DEFINE events == Append(before, event)
<1>1. /\ Len(events) = n /\ DOMAIN events = 1..n /\ events[n] = event
      /\ \A m \in 1..(n - 1) : events[m] = before[m] /\ m \in DOMAIN before
  OBVIOUS
<1>2. ASSUME NEW m \in 1..n PROVE ActionsAt(e, c, m) = {ActionOf(m, events[m])}
  <2>1. CASE m = n
    <3>1. {x \in e.audits : x.id = <<c, m>>} = {audit}
      BY <2>1
    <3> QED BY <1>1, <2>1, <3>1 DEF ActionsAt
  <2>2. CASE m # n
    <3>1. m \in 1..(n - 1)
      BY <2>2
    <3>2. <<c, m>> # <<c, n>>
      BY <2>2
    <3>3. {x \in e.audits : x.id = <<c, m>>} = {x \in d.audits : x.id = <<c, m>>}
      BY <3>2
    <3> QED BY <1>1, <3>1, <3>3 DEF ActionsAt
  <2> QED BY <2>1, <2>2
<1> HIDE DEF events
<1>3. e.events[c] = events
  BY DEF events
<1> QED BY <1>1, <1>2, <1>3 DEF Told

LEMMA SupportSet ==
  ASSUME NEW d, IsSupport(d), NEW x
  PROVE  /\ WithCases(d, x) = [app |-> "support", agents |-> d.agents, cases |-> x, events |-> d.events, audits |-> d.audits]
         /\ WithEvents(d, x) = [app |-> "support", agents |-> d.agents, cases |-> d.cases, events |-> x, audits |-> d.audits]
         /\ WithAudits(d, x) = [app |-> "support", agents |-> d.agents, cases |-> d.cases, events |-> d.events, audits |-> x]
         /\ WithAgents(d, x) = [app |-> "support", agents |-> x, cases |-> d.cases, events |-> d.events, audits |-> d.audits]
BY DEF IsSupport, WithCases, WithEvents, WithAudits, WithAgents

\* A case that is opened.
LEMMA OpenKeeps ==
  ASSUME NEW d, SupportOK(d), NEW n, n = Len(d.cases) + 1, NEW e, IsSupport(e), e.agents = d.agents,
         e.cases = Append(d.cases, [status |-> "open", agent |-> NoAgent, version |-> 1]),
         e.events = Append(d.events, Append(<<>>, [kind |-> "opened", agent |-> NoAgent])),
         e.audits = d.audits \cup {[id |-> <<n, 1>>, target |-> n, action |-> "open"]}
  PROVE  SupportOK(e) /\ DOMAIN d.cases \subseteq DOMAIN e.cases
<1> DEFINE new == [status |-> "open", agent |-> NoAgent, version |-> 1]
           event == [kind |-> "opened", agent |-> NoAgent]
           audit == [id |-> <<n, 1>>, target |-> n, action |-> "open"]
<1>1. new \in Case /\ event \in Event /\ Append(<<>>, event) \in Seq(Event)
  BY DEF Case, Event, Statuses, Working
<1>2. /\ DOMAIN d.cases = 1..Len(d.cases) /\ Len(d.cases) \in Nat
      /\ DOMAIN e.cases = DOMAIN d.cases \cup {n} /\ n \notin DOMAIN d.cases
      /\ e.cases[n] = new /\ e.cases \in Seq(Case)
      /\ \A i \in DOMAIN d.cases : e.cases[i] = d.cases[i]
  BY <1>1 DEF SupportOK, SupportTypes
<1>3. /\ e.events \in Seq(Seq(Event)) /\ Len(e.events) = Len(e.cases)
      /\ e.events[n] = Append(<<>>, event)
      /\ \A i \in DOMAIN d.cases : e.events[i] = d.events[i]
  BY <1>1 DEF SupportOK, SupportTypes
<1>4. \A a \in d.audits : \E c \in DOMAIN d.cases : \E m \in 1..d.cases[c].version : a.id = <<c, m>>
  BY DEF SupportOK, SupportTypes
<1> HIDE DEF event
<1>5. SupportTypes(e)
  <2>1. ASSUME NEW a \in e.audits
        PROVE  \E c \in DOMAIN e.cases : \E m \in 1..e.cases[c].version : a.id = <<c, m>>
    <3>1. CASE a = audit
      <4>1. a.id = <<n, 1>> /\ e.cases[n].version = 1 /\ 1 \in 1..1
        BY <1>2, <3>1
      <4> QED BY <1>2, <4>1
    <3>2. CASE a \in d.audits
      BY <1>2, <1>4, <3>2
    <3> QED BY <3>1, <3>2
  <2> QED BY <1>2, <1>3, <2>1 DEF SupportOK, SupportTypes
<1>6. \A a \in d.audits : \A m : a.id # <<n, m>>
  BY <1>2, <1>4
<1>7. Told(e, n)
  <2>1. ActionOf(1, event) = "open"
    BY DEF ActionOf
  <2>2. Support!StatusAfter(event.kind) = "open" /\ event.agent = NoAgent
    BY DEF Support!StatusAfter, event
  <2>3. audit.id = <<n, 1>> /\ audit.action = "open" /\ e.audits = d.audits \cup {audit}
    OBVIOUS
  <2>4. new.status = "open" /\ new.agent = NoAgent /\ new.version = 1
    OBVIOUS
  <2> HIDE DEF new, audit
  <2>5. <<>> \in Seq(Event) /\ Len(<<>>) = 1 - 1 /\ DOMAIN <<>> = {} /\ 1 \in Nat \ {0}
    OBVIOUS
  <2>6. Advances(d, e, n, <<>>, event, audit)
    BY <1>1, <1>2, <1>3, <1>6, <2>1, <2>2, <2>3, <2>4, <2>5 DEF Advances
  <2> QED BY <2>6, NextTold
<1>8. ASSUME NEW c \in DOMAIN d.cases PROVE Told(e, c)
  <2>1. Told(d, c) /\ c # n
    BY <1>2 DEF SupportOK
  <2>2. ASSUME NEW m PROVE ActionsAt(e, c, m) = ActionsAt(d, c, m)
    <3>1. audit.id # <<c, m>>
      BY <2>1
    <3>2. {x \in e.audits : x.id = <<c, m>>} = {x \in d.audits : x.id = <<c, m>>}
      BY <3>1
    <3> QED BY <3>2 DEF ActionsAt
  <2>3. d.cases[c].agent \in DOMAIN e.agents \cup {NoAgent}
    BY <2>1 DEF Told
  <2> QED BY <1>2, <1>3, <2>1, <2>2, <2>3, SameTold
<1> QED BY <1>2, <1>5, <1>7, <1>8 DEF SupportOK

\* A case that advances.
LEMMA AdvanceKeeps ==
  ASSUME NEW d, SupportOK(d), NEW c \in DOMAIN d.cases, NEW action \in DOMAIN Support!EventKinds,
         NEW next \in Case, next.version = d.cases[c].version + 1,
         Support!StatusAfter(Support!EventKinds[action]) = next.status,
         next.status \in {"assigned", "resolved"} <=> next.agent # NoAgent,
         next.agent \in DOMAIN d.agents \cup {NoAgent},
         NEW event, event = [kind |-> Support!EventKinds[action], agent |-> next.agent],
         NEW audit, audit = [id |-> <<c, next.version>>, target |-> c, action |-> action],
         NEW e, IsSupport(e), e.agents = d.agents, e.cases = Row(d.cases, c, next),
         e.events = Row(d.events, c, Append(d.events[c], event)), e.audits = d.audits \cup {audit}
  PROVE  SupportOK(e) /\ DOMAIN d.cases \subseteq DOMAIN e.cases
<1> DEFINE n == next.version
<1>1. /\ Support!EventKinds[action] \in {"triaged", "assigned", "resolved", "reopened"}
      /\ next.agent \in Working
  BY DEF Support!EventKinds, Case
<1>2. event \in Event
  BY <1>1 DEF Event
<1>3. d.cases[c] \in Case /\ d.events[c] \in Seq(Event) /\ Told(d, c)
  BY DEF SupportOK, SupportTypes
<1>4. n \in Nat \ {0} /\ n - 1 = d.cases[c].version /\ d.cases[c].version \in Nat \ {0} /\ n # 1
  BY <1>3 DEF Case
<1>5. Append(d.events[c], event) \in Seq(Event)
  BY <1>2, <1>3
<1>6. /\ DOMAIN e.cases = DOMAIN d.cases /\ e.cases[c] = next /\ e.cases \in Seq(Case)
      /\ Len(e.cases) = Len(d.cases)
      /\ \A i \in DOMAIN d.cases : i # c => e.cases[i] = d.cases[i]
  BY DEF SupportOK, SupportTypes, Row
<1>7. /\ e.events \in Seq(Seq(Event)) /\ Len(e.events) = Len(e.cases)
      /\ e.events[c] = Append(d.events[c], event)
      /\ \A i \in DOMAIN d.cases : i # c => e.events[i] = d.events[i]
  BY <1>5, <1>6 DEF SupportOK, SupportTypes, Row
<1>8. \A a \in d.audits : \E i \in DOMAIN d.cases : \E m \in 1..d.cases[i].version : a.id = <<i, m>>
  BY DEF SupportOK, SupportTypes
<1>9. audit.id = <<c, n>> /\ audit.action = action
  OBVIOUS
<1>10. SupportTypes(e)
  <2>1. ASSUME NEW a \in e.audits
        PROVE  \E i \in DOMAIN e.cases : \E m \in 1..e.cases[i].version : a.id = <<i, m>>
    <3>1. CASE a = audit
      BY <1>4, <1>6, <1>9, <3>1
    <3>2. CASE a \in d.audits
      <4>0. PICK i \in DOMAIN d.cases : \E m \in 1..d.cases[i].version : a.id = <<i, m>>
        BY <1>8, <3>2
      <4>1. PICK m \in 1..d.cases[i].version : a.id = <<i, m>>
        BY <4>0
      <4>2. m \in 1..e.cases[i].version
        BY <1>4, <1>6
      <4> QED BY <1>6, <4>1, <4>2
    <3> QED BY <3>1, <3>2
  <2> QED BY <1>6, <1>7, <2>1 DEF SupportOK, SupportTypes
<1>11. \A a \in d.audits : a.id # <<c, n>>
  <2> SUFFICES ASSUME NEW a \in d.audits, a.id = <<c, n>> PROVE FALSE
    OBVIOUS
  <2>0. PICK i \in DOMAIN d.cases : \E m \in 1..d.cases[i].version : a.id = <<i, m>>
    BY <1>8
  <2>1. PICK m \in 1..d.cases[i].version : a.id = <<i, m>>
    BY <2>0
  <2>2. i = c /\ m = n
    BY <2>1
  <2> QED BY <1>4, <2>1, <2>2
<1>12. Told(e, c)
  <2>1. ActionOf(n, event) = action
    BY <1>4, ActionOfEvent
  <2>2. event.kind = Support!EventKinds[action] /\ event.agent = next.agent
    OBVIOUS
  <2>3. /\ Len(d.events[c]) = n - 1
        /\ \A m \in DOMAIN d.events[c] : ActionsAt(d, c, m) = {ActionOf(m, d.events[c][m])}
    BY <1>3, <1>4 DEF Told
  <2>4. next.agent \in DOMAIN e.agents \cup {NoAgent}
    OBVIOUS
  <2> HIDE DEF n
  <2>5. next.version = n
    BY DEF n
  <2>6. n = e.cases[c].version
    BY <1>6, <2>5
  <2>7. Advances(d, e, c, d.events[c], event, audit)
    BY <1>2, <1>3, <1>4, <1>6, <1>7, <1>9, <1>11, <2>1, <2>2, <2>3, <2>4, <2>5, <2>6 DEF Advances
  <2> QED BY <2>7, NextTold
<1>13. ASSUME NEW i \in DOMAIN d.cases, i # c PROVE Told(e, i)
  <2>1. Told(d, i)
    BY DEF SupportOK
  <2>2. ASSUME NEW m PROVE ActionsAt(e, i, m) = ActionsAt(d, i, m)
    <3>1. audit.id # <<i, m>>
      BY <1>9, <1>13
    <3>2. {x \in e.audits : x.id = <<i, m>>} = {x \in d.audits : x.id = <<i, m>>}
      BY <3>1
    <3> QED BY <3>2 DEF ActionsAt
  <2>3. d.cases[i].agent \in DOMAIN e.agents \cup {NoAgent}
    BY <2>1 DEF Told
  <2> QED BY <1>6, <1>7, <1>13, <2>1, <2>2, <2>3, SameTold
<1> QED BY <1>6, <1>10, <1>12, <1>13 DEF SupportOK

\* Agents come and go, unless a case is theirs.
LEMMA AgentsKeep ==
  ASSUME NEW d, SupportOK(d), NEW e, IsSupport(e), e.cases = d.cases, e.events = d.events,
         e.audits = d.audits, DOMAIN e.agents \subseteq DOMAIN d.agents,
         \A c \in DOMAIN d.cases : d.cases[c].agent \in DOMAIN e.agents \cup {NoAgent}
  PROVE  SupportOK(e) /\ DOMAIN d.cases \subseteq DOMAIN e.cases
<1>1. SupportTypes(e)
  BY DEF SupportOK, SupportTypes
<1>2. \A c, n : ActionsAt(e, c, n) = ActionsAt(d, c, n)
  BY DEF ActionsAt
<1>3. ASSUME NEW c \in DOMAIN d.cases PROVE Told(e, c)
  <2>1. Told(d, c)
    BY DEF SupportOK
  <2> QED BY <1>2, <2>1, SameTold
<1> QED BY <1>1, <1>3 DEF SupportOK

LEMMA SupportServed ==
  ASSUME Serves, NEW q, q.app = "support"
  PROVE  /\ Script(q) = Support!Handler(q)
         /\ Transactional(q) <=> Support!InTransaction(q)
         /\ \A s, seen, d : Execute(s, q, seen, d) = Support!RunStatement(s, q, seen, d)
BY DEF Serves, ServedScript, ServedTransactional, ServedExecute

LEMMA SupportBefore ==
  ASSUME Serves, NEW q, q.app = "support", NEW d, NEW n \in Nat \ {0},
         Atomic!After(q, n, d).failure = Succeeds
  PROVE  /\ Atomic!After(q, n - 1, d).failure = Succeeds
         /\ Atomic!After(q, n, d) =
              Support!RunStatement(Script(q)[n], q, Atomic!After(q, n - 1, d).seen,
                                   Atomic!After(q, n - 1, d).db)
BY Before, SupportServed

LEMMA SupportRequest ==
  ASSUME NEW x, NEW q \in Support!Payloads(x)
  PROVE  /\ q.app = "support"
         /\ \/ q.op = "openCase"
            \/ /\ q.op = "advanceCase" /\ q.action = "assign" /\ q.agent \in Working
            \/ /\ q.op = "advanceCase" /\ q.action \in {"triage", "resolve", "reopen"}
            \/ q.op \in {"caseDetail", "auditTrail", "toggleDuty", "removeAgent"}
BY DEF Support!Payloads, Working

USE DEF Support!Done, Support!Fails, Support!FailsWith, Support!Succeeds

LEMMA LastRow ==
  ASSUME NEW S, NEW rows \in Seq(S), NEW x \in S, NEW v \in S
  PROVE  Row(Append(rows, x), Len(rows) + 1, v) = Append(rows, v)
<1> DEFINE n == Len(rows) + 1
           a == Append(rows, x)
           b == Append(rows, v)
           r == Row(a, n, v)
<1>1. /\ a \in Seq(S) /\ b \in Seq(S) /\ Len(a) = n /\ Len(b) = n /\ n \in Nat /\ b[n] = v
      /\ \A i \in 1..n : i # n => a[i] = b[i]
  OBVIOUS
<1> HIDE DEF a, b, n
<1>2. DOMAIN a = 1..n /\ DOMAIN b = 1..n /\ b = [i \in 1..n |-> b[i]]
  BY <1>1
<1>3. Row(a, n, v) = [i \in 1..n |-> IF i = n THEN v ELSE a[i]]
  BY <1>2 DEF Row
<1>4. \A i \in 1..n : b[i] = IF i = n THEN v ELSE a[i]
  BY <1>1
<1>5. Row(a, n, v) = b
  BY <1>2, <1>3, <1>4
<1> QED BY <1>5 DEF a, b, n

\* The last two statements of a command that changes a case: one event, one
\* audit.
EventOf(q, seen) ==
  [kind |-> IF q.op = "openCase" THEN "opened" ELSE Support!EventKinds[q.action],
   agent |-> seen.case.agent]
AuditOf(q, seen) ==
  [id |-> <<seen.id, seen.case.version>>, target |-> seen.id, action |-> Support!Action(q)]

HasRecorded(q, seen, d, e) ==
  /\ IsSupport(e) /\ e.agents = d.agents /\ e.cases = d.cases
  /\ e.events = Row(d.events, seen.id, Append(d.events[seen.id], EventOf(q, seen)))
  /\ e.audits = d.audits \cup {AuditOf(q, seen)}

LEMMA Recorded ==
  ASSUME NEW q, NEW d, IsSupport(d), NEW seen, seen.id \in DOMAIN d.events,
         \A a \in d.audits : a.id # <<seen.id, seen.case.version>>,
         NEW inserted, inserted = Support!InsertEvent(q, seen, d),
         NEW e, e = Support!AppendAudit(q, inserted.seen, inserted.db).db
  PROVE  HasRecorded(q, seen, d, e)
<1> DEFINE event == EventOf(q, seen)
           audit == AuditOf(q, seen)
           rows == Row(d.events, seen.id, Append(d.events[seen.id], event))
<1>1. inserted.db = WithEvents(d, rows) /\ inserted.seen = seen
  BY DEF Support!InsertEvent, WithEvents, Row, EventOf
<1> HIDE DEF rows
<1>2. /\ IsSupport(inserted.db) /\ inserted.db.audits = d.audits /\ inserted.db.events = rows
      /\ inserted.db.agents = d.agents /\ inserted.db.cases = d.cases
  <2> DEFINE next == WithEvents(d, rows)
  <2>1. next = [app |-> "support", agents |-> d.agents, cases |-> d.cases, events |-> rows, audits |-> d.audits]
    BY SupportSet
  <2>2. /\ IsSupport(next) /\ next.audits = d.audits /\ next.events = rows
        /\ next.agents = d.agents /\ next.cases = d.cases
    BY <2>1 DEF IsSupport
  <2> QED BY <1>1, <2>2
<1>3. e = WithAudits(inserted.db, inserted.db.audits \cup {audit})
  <2>1. ~\E a \in inserted.db.audits : a.id = Support!AuditKey(seen)
    BY <1>2 DEF Support!AuditKey
  <2> QED BY <1>1, <2>1 DEF Support!AppendAudit, Support!AuditKey, WithAudits, AuditOf
<1>4. IsSupport(e) /\ e.agents = inserted.db.agents /\ e.cases = inserted.db.cases
      /\ e.events = inserted.db.events /\ e.audits = inserted.db.audits \cup {audit}
  <2> DEFINE more == inserted.db.audits \cup {audit}
  <2>1. e = WithAudits(inserted.db, more)
    BY <1>3
  <2> HIDE DEF more
  <2>2. e = [app |-> "support", agents |-> inserted.db.agents, cases |-> inserted.db.cases,
             events |-> inserted.db.events, audits |-> more]
    BY <1>2, <2>1, SupportSet
  <2>3. IsSupport(e) /\ e.agents = inserted.db.agents /\ e.cases = inserted.db.cases
        /\ e.events = inserted.db.events /\ e.audits = more
    BY <2>2 DEF IsSupport
  <2> QED BY <2>3 DEF more
<1> QED BY <1>2, <1>4 DEF rows, HasRecorded

LEMMA OpenWhole ==
  ASSUME Serves, NEW d, SupportOK(d), NEW q, q.app = "support", q.op = "openCase",
         Atomic!After(q, 4, d).failure = Succeeds
  PROVE  LET e == Atomic!After(q, 4, d).db
         IN  SupportOK(e) /\ DOMAIN d.cases \subseteq DOMAIN e.cases
<1>1. Script(q) = <<"getCustomer", "insertCase", "insertEvent", "appendAudit">>
  BY SupportServed DEF Support!Handler
<1> DEFINE a(n) == Atomic!After(q, n, d)
           n == Len(d.cases) + 1
           new == [status |-> "open", agent |-> NoAgent, version |-> 1]
           e == a(4).db
<1>2. a(4) = Support!AppendAudit(q, a(3).seen, a(3).db) /\ a(3).failure = Succeeds
  <2>1. Script(q)[4] = "appendAudit" /\ 4 - 1 = 3
    BY <1>1
  <2>2. a(4) = Support!RunStatement("appendAudit", q, a(3).seen, a(3).db) /\ a(3).failure = Succeeds
    BY <2>1, SupportBefore
  <2> QED BY <2>2 DEF Support!RunStatement
<1>3. a(3) = Support!InsertEvent(q, a(2).seen, a(2).db) /\ a(2).failure = Succeeds
  <2>1. Script(q)[3] = "insertEvent" /\ 3 - 1 = 2
    BY <1>1
  <2>2. a(3) = Support!RunStatement("insertEvent", q, a(2).seen, a(2).db) /\ a(2).failure = Succeeds
    BY <1>2, <2>1, SupportBefore
  <2> QED BY <2>2 DEF Support!RunStatement
<1>4. a(2) = Support!InsertCase(q, a(1).db) /\ a(1).failure = Succeeds
  <2>1. Script(q)[2] = "insertCase" /\ 2 - 1 = 1
    BY <1>1
  <2>2. a(2) = Support!RunStatement("insertCase", q, a(1).seen, a(1).db) /\ a(1).failure = Succeeds
    BY <1>3, <2>1, SupportBefore
  <2> QED BY <2>2 DEF Support!RunStatement
<1>5. a(1).db = d
  <2>1. a(1) = Support!RunStatement("getCustomer", q, Nothing, d)
    BY <1>1, FirstOf, SupportServed
  <2>2. a(1) = Support!GetCustomer(q, d)
    BY <2>1 DEF Support!RunStatement
  <2> QED BY <2>2 DEF Support!GetCustomer
<1> HIDE DEF a
<1> DEFINE cases == Append(d.cases, new)
           events == Append(d.events, <<>>)
<1>6. /\ a(2).seen.id = n /\ a(2).seen.case = new
      /\ a(2).db = WithEvents(WithCases(d, cases), events)
  <2>1. IsSupport(d)
    BY DEF SupportOK, SupportTypes
  <2>2. a(2).db = [d EXCEPT !.cases = Append(@, new), !.events = Append(@, <<>>)]
    <3>1. a(2) = Support!InsertCase(q, d)
      BY <1>4, <1>5
    <3> DEFINE next == [d EXCEPT !.cases = Append(@, new), !.events = Append(@, <<>>)]
               seen == [id |-> n, case |-> new]
    <3>2. a(2) = [db |-> next, seen |-> seen, failure |-> "succeeds"]
      BY <3>1, Zenon DEF Support!InsertCase
    <3> HIDE DEF next, seen
    <3>3. a(2).db = next
      BY <3>2
    <3> QED BY <3>3 DEF next
  <2>3. [d EXCEPT !.cases = Append(@, new), !.events = Append(@, <<>>)]
          = [[d EXCEPT !.cases = cases] EXCEPT !.events = events]
    <3> HIDE DEF new
    <3> QED BY <2>1 DEF IsSupport
  <2> QED BY <1>4, <1>5, <2>2, <2>3 DEF Support!InsertCase, WithCases, WithEvents
<1> HIDE DEF new
<1>7. /\ IsSupport(a(2).db) /\ a(2).db.agents = d.agents /\ a(2).db.cases = cases
      /\ a(2).db.events = events /\ a(2).db.audits = d.audits
  <2> DEFINE x == WithCases(d, cases)
             y == WithEvents(x, events)
  <2> HIDE DEF cases, events
  <2>1. IsSupport(d)
    BY DEF SupportOK, SupportTypes
  <2>2. x = [app |-> "support", agents |-> d.agents, cases |-> cases, events |-> d.events, audits |-> d.audits]
    BY <2>1, SupportSet
  <2>3. IsSupport(x) /\ x.agents = d.agents /\ x.cases = cases /\ x.audits = d.audits
    BY <2>2 DEF IsSupport
  <2> HIDE DEF x
  <2>4. y = [app |-> "support", agents |-> x.agents, cases |-> x.cases, events |-> events, audits |-> x.audits]
    BY <2>3, SupportSet
  <2>5. IsSupport(y) /\ y.agents = d.agents /\ y.cases = cases /\ y.events = events /\ y.audits = d.audits
    BY <2>3, <2>4 DEF IsSupport
  <2> QED BY <1>6, <2>5 DEF x
<1>8. /\ Len(d.events) = Len(d.cases) /\ d.events \in Seq(Seq(Event)) /\ d.cases \in Seq(Case)
      /\ \A x \in d.audits : \E c \in DOMAIN d.cases : \E m \in 1..d.cases[c].version : x.id = <<c, m>>
  BY DEF SupportOK, SupportTypes
<1>9. n \in DOMAIN events /\ events[n] = <<>> /\ n \notin DOMAIN d.cases
  BY <1>8
<1>10. \A x \in d.audits : x.id # <<n, new.version>>
  BY <1>8, <1>9
<1> DEFINE event == [kind |-> "opened", agent |-> NoAgent]
           audit == [id |-> <<n, 1>>, target |-> n, action |-> "open"]
<1>11. /\ IsSupport(e) /\ e.agents = d.agents /\ e.cases = cases
       /\ e.events = Row(events, n, Append(<<>>, event)) /\ e.audits = d.audits \cup {audit}
  <2> DEFINE x == a(2).db
             seen == a(2).seen
             ev == EventOf(q, seen)
             au == AuditOf(q, seen)
  <2>1. ev = event /\ au = audit
    BY <1>6 DEF new, Support!Action, EventOf, AuditOf
  <2>2. a(3) = Support!InsertEvent(q, seen, x) /\ e = Support!AppendAudit(q, a(3).seen, a(3).db).db
    BY <1>2, <1>3
  <2> HIDE DEF x, seen, events, n, e
  <2>3. seen.id \in DOMAIN x.events /\ \A b \in x.audits : b.id # <<seen.id, seen.case.version>>
    BY <1>6, <1>7, <1>9, <1>10 DEF x, seen
  <2>4. IsSupport(x)
    BY <1>7 DEF x
  <2>8. /\ IsSupport(e) /\ e.agents = x.agents /\ e.cases = x.cases
        /\ e.events = Row(x.events, seen.id, Append(x.events[seen.id], ev))
        /\ e.audits = x.audits \cup {au}
    <3>1. HasRecorded(q, seen, x, e)
      BY <2>2, <2>3, <2>4, Recorded
    <3> QED BY <3>1 DEF HasRecorded
  <2>9. seen.id = n /\ x.events = events /\ x.agents = d.agents /\ x.cases = cases /\ x.audits = d.audits
    BY <1>6, <1>7 DEF x, seen
  <2>10. x.events[seen.id] = <<>>
    BY <1>9, <2>9
  <2> HIDE DEF event, audit, cases, ev, au
  <2>11. /\ e.agents = d.agents /\ e.cases = cases /\ e.audits = d.audits \cup {audit}
         /\ e.events = Row(events, n, Append(<<>>, event))
    BY <2>1, <2>8, <2>9, <2>10, Zenon
  <2> QED BY <2>8, <2>11
<1>12. Row(events, n, Append(<<>>, event)) = Append(d.events, Append(<<>>, event))
  <2> DEFINE v == Append(<<>>, event)
  <2> HIDE DEF v
  <2>1. Row(Append(d.events, <<>>), Len(d.events) + 1, v) = Append(d.events, v)
    <3>1. v \in Seq(Event) /\ <<>> \in Seq(Event)
      <4>1. event \in Event
        BY DEF Event, Working
      <4> QED BY <4>1 DEF v
    <3> QED BY <1>8, <3>1, LastRow
  <2> QED BY <1>8, <2>1 DEF v
<1>13. SupportOK(e) /\ DOMAIN d.cases \subseteq DOMAIN e.cases
  <2>1. n = Len(d.cases) + 1
    OBVIOUS
  <2> HIDE DEF e, n
  <2> QED BY <1>11, <1>12, <2>1, OpenKeeps DEF new
<1> QED BY <1>13 DEF a

\* What the edge of an action makes of a case.
NextCase(q, case) ==
  [status |-> Support!SupportCaseTransitions[q.action].to, version |-> case.version + 1,
   agent |-> CASE q.action = "assign" -> q.agent
               [] q.action = "reopen" -> NoAgent
               [] OTHER -> case.agent]

LEMMA NextCaseOK ==
  ASSUME NEW d, SupportOK(d), NEW c \in DOMAIN d.cases, NEW q,
         q.action \in DOMAIN Support!EventKinds,
         d.cases[c].status = Support!SupportCaseTransitions[q.action].from,
         q.action = "assign" => q.agent # NoAgent /\ q.agent \in DOMAIN d.agents,
         NEW next, next = NextCase(q, d.cases[c])
  PROVE  /\ next \in Case /\ next.version = d.cases[c].version + 1
         /\ Support!StatusAfter(Support!EventKinds[q.action]) = next.status
         /\ next.status \in {"assigned", "resolved"} <=> next.agent # NoAgent
         /\ next.agent \in DOMAIN d.agents \cup {NoAgent}
<1> DEFINE case == d.cases[c]
<1>1. case \in Case /\ Told(d, c) /\ DOMAIN d.agents \subseteq Agents
  BY DEF SupportOK, SupportTypes
<1>2. /\ case.version \in Nat \ {0} /\ case.agent \in Working
      /\ case.status \in {"assigned", "resolved"} <=> case.agent # NoAgent
      /\ case.agent \in DOMAIN d.agents \cup {NoAgent}
  BY <1>1 DEF Case, Told
<1> HIDE DEF case
<1>3. next = NextCase(q, case) /\ case.status = Support!SupportCaseTransitions[q.action].from
  BY DEF case
<1>4. q.action \in {"triage", "assign", "resolve", "reopen"}
  BY DEF Support!EventKinds
<1>5. /\ next.version = case.version + 1
      /\ next.agent \in DOMAIN d.agents \cup {NoAgent}
      /\ next.status \in Statuses
      /\ next = [status |-> next.status, agent |-> next.agent, version |-> next.version]
  BY <1>2, <1>3, <1>4 DEF NextCase, Support!SupportCaseTransitions, Statuses
<1>6. next \in Case
  <2>1. next.agent \in Working /\ next.version \in Nat \ {0}
    BY <1>1, <1>2, <1>5 DEF Working
  <2> QED BY <1>5, <2>1 DEF Case
<1>7. /\ Support!StatusAfter(Support!EventKinds[q.action]) = next.status
      /\ next.status \in {"assigned", "resolved"} <=> next.agent # NoAgent
  BY <1>2, <1>3, <1>4
     DEF NextCase, Support!SupportCaseTransitions, Support!StatusAfter, Support!EventKinds
<1> QED BY <1>5, <1>6, <1>7 DEF case

LEMMA AdvanceWhole ==
  ASSUME Serves, NEW d, SupportOK(d), NEW q, q.app = "support", q.op = "advanceCase",
         q.action \in DOMAIN Support!EventKinds, Atomic!After(q, 5, d).failure = Succeeds
  PROVE  LET e == Atomic!After(q, 5, d).db
         IN  SupportOK(e) /\ DOMAIN d.cases \subseteq DOMAIN e.cases
<1>1. Script(q) = <<"getCase", "assignment", "transition", "insertEvent", "appendAudit">>
  BY SupportServed DEF Support!Handler
<1> DEFINE a(n) == Atomic!After(q, n, d)
           c == q.id
           e == a(5).db
<1>2. a(5) = Support!AppendAudit(q, a(4).seen, a(4).db) /\ a(4).failure = Succeeds
  <2>1. Script(q)[5] = "appendAudit" /\ 5 - 1 = 4
    BY <1>1
  <2>2. a(5) = Support!RunStatement("appendAudit", q, a(4).seen, a(4).db) /\ a(4).failure = Succeeds
    BY <2>1, SupportBefore
  <2> QED BY <2>2 DEF Support!RunStatement
<1>3. a(4) = Support!InsertEvent(q, a(3).seen, a(3).db) /\ a(3).failure = Succeeds
  <2>1. Script(q)[4] = "insertEvent" /\ 4 - 1 = 3
    BY <1>1
  <2>2. a(4) = Support!RunStatement("insertEvent", q, a(3).seen, a(3).db) /\ a(3).failure = Succeeds
    BY <1>2, <2>1, SupportBefore
  <2> QED BY <2>2 DEF Support!RunStatement
<1>4. a(3) = Support!Transition(q, a(2).db) /\ a(2).failure = Succeeds
  <2>1. Script(q)[3] = "transition" /\ 3 - 1 = 2
    BY <1>1
  <2>2. a(3) = Support!RunStatement("transition", q, a(2).seen, a(2).db) /\ a(2).failure = Succeeds
    BY <1>3, <2>1, SupportBefore
  <2> QED BY <2>2 DEF Support!RunStatement
<1>5. a(2) = Support!Assignment(q, a(1).seen, a(1).db) /\ a(1).failure = Succeeds
  <2>1. Script(q)[2] = "assignment" /\ 2 - 1 = 1
    BY <1>1
  <2>2. a(2) = Support!RunStatement("assignment", q, a(1).seen, a(1).db) /\ a(1).failure = Succeeds
    BY <1>4, <2>1, SupportBefore
  <2> QED BY <2>2 DEF Support!RunStatement
<1>6. a(1).db = d /\ c \in DOMAIN d.cases
  <2>1. a(1) = Support!RunStatement("getCase", q, Nothing, d)
    BY <1>1, FirstOf, SupportServed
  <2>2. a(1) = Support!GetCase(q, Nothing, d)
    BY <2>1 DEF Support!RunStatement
  <2> QED BY <1>5, <2>2 DEF Support!GetCase, Succeeds
<1> HIDE DEF a
<1>7. a(2).db = d /\ (q.action = "assign" => q.agent # NoAgent /\ q.agent \in DOMAIN d.agents)
  BY <1>4, <1>5, <1>6 DEF Support!Assignment, Succeeds
<1> DEFINE next == NextCase(q, d.cases[c])
           cases == Row(d.cases, c, next)
<1>8. /\ d.cases[c].status = Support!SupportCaseTransitions[q.action].from
      /\ a(3).db = WithCases(d, cases) /\ a(3).seen.id = c /\ a(3).seen.case = next
  <2>1. a(3) = Support!Transition(q, d)
    BY <1>4, <1>7
  <2> QED BY <1>3, <2>1 DEF Support!Transition, NextCase, WithCases, Row, Succeeds
<1>9. /\ next \in Case /\ next.version = d.cases[c].version + 1
      /\ Support!StatusAfter(Support!EventKinds[q.action]) = next.status
      /\ next.status \in {"assigned", "resolved"} <=> next.agent # NoAgent
      /\ next.agent \in DOMAIN d.agents \cup {NoAgent}
  <2> HIDE DEF c
  <2>1. next = NextCase(q, d.cases[c])
    OBVIOUS
  <2> HIDE DEF next
  <2> QED BY <1>6, <1>7, <1>8, <2>1, NextCaseOK
<1> HIDE DEF next
<1>10. /\ IsSupport(a(3).db) /\ a(3).db.agents = d.agents /\ a(3).db.cases = cases
       /\ a(3).db.events = d.events /\ a(3).db.audits = d.audits
  <2> HIDE DEF cases
  <2>1. IsSupport(d)
    BY DEF SupportOK, SupportTypes
  <2>2. a(3).db = [app |-> "support", agents |-> d.agents, cases |-> cases, events |-> d.events, audits |-> d.audits]
    BY <1>8, <2>1, SupportSet
  <2> QED BY <2>2 DEF IsSupport
<1>11. c \in DOMAIN d.events
  BY <1>6 DEF SupportOK, SupportTypes
<1>12. \A b \in d.audits : b.id # <<c, next.version>>
  <2> SUFFICES ASSUME NEW b \in d.audits, b.id = <<c, next.version>> PROVE FALSE
    OBVIOUS
  <2>1. PICK i \in DOMAIN d.cases : \E m \in 1..d.cases[i].version : b.id = <<i, m>>
    BY DEF SupportOK, SupportTypes
  <2>2. PICK m \in 1..d.cases[i].version : b.id = <<i, m>>
    BY <2>1
  <2>3. i = c /\ m = next.version
    BY <2>2
  <2>4. d.cases[c].version \in Nat
    <3>1. d.cases[c] \in Case
      BY <1>6 DEF SupportOK, SupportTypes
    <3> QED BY <3>1 DEF Case
  <2> QED BY <1>9, <2>2, <2>3, <2>4
<1> DEFINE event == [kind |-> Support!EventKinds[q.action], agent |-> next.agent]
           audit == [id |-> <<c, next.version>>, target |-> c, action |-> q.action]
<1>13. /\ IsSupport(e) /\ e.agents = d.agents /\ e.cases = cases
       /\ e.events = Row(d.events, c, Append(d.events[c], event)) /\ e.audits = d.audits \cup {audit}
  <2> DEFINE x == a(3).db
             seen == a(3).seen
  <2>1. EventOf(q, seen) = event /\ AuditOf(q, seen) = audit
    BY <1>8 DEF Support!Action, EventOf, AuditOf
  <2>2. a(4) = Support!InsertEvent(q, seen, x) /\ e = Support!AppendAudit(q, a(4).seen, a(4).db).db
    BY <1>2, <1>3
  <2>3. seen.id = c /\ seen.case = next /\ x.events = d.events /\ x.agents = d.agents /\ x.cases = cases
        /\ x.audits = d.audits /\ IsSupport(x)
    BY <1>8, <1>10
  <2> HIDE DEF x, seen, e, event, audit, cases, c
  <2>4. seen.id \in DOMAIN x.events /\ \A b \in x.audits : b.id # <<seen.id, seen.case.version>>
    BY <1>11, <1>12, <2>3
  <2>5. HasRecorded(q, seen, x, e)
    BY <2>2, <2>3, <2>4, Recorded
  <2>6. /\ IsSupport(e) /\ e.agents = x.agents /\ e.cases = x.cases
        /\ e.events = Row(x.events, seen.id, Append(x.events[seen.id], EventOf(q, seen)))
        /\ e.audits = x.audits \cup {AuditOf(q, seen)}
    BY <2>5 DEF HasRecorded
  <2> QED BY <2>1, <2>3, <2>6, Zenon
<1>14. /\ event = [kind |-> Support!EventKinds[q.action], agent |-> next.agent]
       /\ audit = [id |-> <<c, next.version>>, target |-> c, action |-> q.action]
  OBVIOUS
<1>15. SupportOK(e) /\ DOMAIN d.cases \subseteq DOMAIN e.cases
  <2> HIDE DEF e, c, event, audit
  <2> QED BY <1>6, <1>9, <1>13, <1>14, AdvanceKeeps
<1> QED BY <1>15 DEF a

LEMMA AgentsWhole ==
  ASSUME Serves, NEW d, SupportOK(d), NEW q, q.app = "support", q.op \in {"toggleDuty", "removeAgent"},
         Atomic!After(q, 1, d).failure = Succeeds
  PROVE  LET e == Atomic!After(q, 1, d).db
         IN  SupportOK(e) /\ DOMAIN d.cases \subseteq DOMAIN e.cases
<1>1. Script(q) = <<q.op>>
  BY SupportServed DEF Support!Handler
<1> DEFINE a == Atomic!After(q, 1, d)
           e == a.db
<1>2. a = Support!RunStatement(q.op, q, Nothing, d)
  BY <1>1, FirstOf, SupportServed
<1>3. a.failure = Succeeds
  OBVIOUS
<1> HIDE DEF a
<1>4. IsSupport(d)
  BY DEF SupportOK, SupportTypes
<1>5. CASE q.op = "toggleDuty"
  <2>1. a = Support!ToggleDuty(q, d)
    BY <1>2, <1>5 DEF Support!RunStatement
  <2> DEFINE agents == [d.agents EXCEPT ![q.agent] = ~@]
  <2>2. e = WithAgents(d, agents)
    BY <1>3, <2>1 DEF Support!ToggleDuty, WithAgents, Succeeds
  <2>3. DOMAIN agents = DOMAIN d.agents
    OBVIOUS
  <2> HIDE DEF agents, e
  <2>4. e = [app |-> "support", agents |-> agents, cases |-> d.cases, events |-> d.events, audits |-> d.audits]
    BY <1>4, <2>2, SupportSet
  <2>5. IsSupport(e) /\ e.agents = agents /\ e.cases = d.cases /\ e.events = d.events /\ e.audits = d.audits
    BY <2>4 DEF IsSupport
  <2>6. \A c \in DOMAIN d.cases : d.cases[c].agent \in DOMAIN e.agents \cup {NoAgent}
    BY <2>3, <2>5 DEF SupportOK, Told
  <2>7. SupportOK(e) /\ DOMAIN d.cases \subseteq DOMAIN e.cases
    BY <2>3, <2>5, <2>6, AgentsKeep
  <2> QED BY <2>7 DEF a, e
<1>6. CASE q.op = "removeAgent"
  <2>1. a = Support!RemoveAgent(q, d)
    BY <1>2, <1>6 DEF Support!RunStatement
  <2> DEFINE agents == [x \in DOMAIN d.agents \ {q.agent} |-> d.agents[x]]
  <2>2. /\ e = WithAgents(d, agents)
        /\ ~\E i \in DOMAIN d.events : \E n \in DOMAIN d.events[i] : d.events[i][n].agent = q.agent
    <3> DEFINE referenced == \E i \in DOMAIN d.events : \E n \in DOMAIN d.events[i] :
                               d.events[i][n].agent = q.agent
    <3>1. a = IF q.agent \notin DOMAIN d.agents THEN Support!Fails(d, "ResourceNotFound")
              ELSE IF referenced THEN Support!Fails(d, Support!Unavailable)
              ELSE Support!Done(WithAgents(d, agents), Support!Nothing)
      BY <2>1, Zenon DEF Support!RemoveAgent, WithAgents
    <3> HIDE DEF referenced, agents
    <3>2. ~referenced /\ a.db = WithAgents(d, agents)
      BY <1>3, <3>1 DEF Succeeds, Support!Unavailable
    <3> QED BY <3>2 DEF referenced
  <2>3. DOMAIN agents = DOMAIN d.agents \ {q.agent}
    OBVIOUS
  <2> HIDE DEF agents, e
  <2>4. e = [app |-> "support", agents |-> agents, cases |-> d.cases, events |-> d.events, audits |-> d.audits]
    BY <1>4, <2>2, SupportSet
  <2>5. IsSupport(e) /\ e.agents = agents /\ e.cases = d.cases /\ e.events = d.events /\ e.audits = d.audits
    BY <2>4 DEF IsSupport
  <2>6. ASSUME NEW c \in DOMAIN d.cases PROVE d.cases[c].agent \in DOMAIN e.agents \cup {NoAgent}
    <3>1. /\ Told(d, c) /\ c \in DOMAIN d.events /\ d.cases[c] \in Case /\ d.events[c] \in Seq(Event)
      BY DEF SupportOK, SupportTypes
    <3>2. d.cases[c].version \in DOMAIN d.events[c]
      <4>1. d.cases[c].version \in Nat \ {0} /\ Len(d.events[c]) = d.cases[c].version
        BY <3>1 DEF Case, Told
      <4> QED BY <3>1, <4>1
    <3>3. d.events[c][d.cases[c].version].agent # q.agent
      BY <2>2, <3>1, <3>2
    <3> QED BY <2>3, <2>5, <3>1, <3>3 DEF Told
  <2>7. SupportOK(e) /\ DOMAIN d.cases \subseteq DOMAIN e.cases
    BY <2>3, <2>5, <2>6, AgentsKeep
  <2> QED BY <2>7 DEF a, e
<1> QED BY <1>5, <1>6

\* A command that changes support cases leaves a trail that tells them.
LEMMA SupportWhole ==
  ASSUME Serves, NEW d, SupportOK(d), NEW x, NEW q \in Support!Payloads(x), Transactional(q),
         Atomic!Whole(q, d).failure = Succeeds
  PROVE  LET e == Atomic!Whole(q, d).db
         IN  SupportOK(e) /\ DOMAIN d.cases \subseteq DOMAIN e.cases
<1>1. /\ q.app = "support" /\ Script(q) = Support!Handler(q)
      /\ q.op \notin {"caseDetail", "auditTrail"}
  BY SupportRequest, SupportServed DEF Support!InTransaction
<1>2. CASE q.op = "openCase"
  <2>1. Len(Script(q)) = 4
    BY <1>1, <1>2 DEF Support!Handler
  <2> QED BY <1>1, <1>2, <2>1, OpenWhole DEF Atomic!Whole
<1>3. CASE q.op = "advanceCase" /\ q.action \in {"triage", "assign", "resolve", "reopen"}
  <2>1. Len(Script(q)) = 5 /\ q.action \in DOMAIN Support!EventKinds
    BY <1>1, <1>3 DEF Support!Handler, Support!EventKinds
  <2> QED BY <1>1, <1>3, <2>1, AdvanceWhole DEF Atomic!Whole
<1>4. CASE q.op \in {"toggleDuty", "removeAgent"}
  <2>1. Len(Script(q)) = 1
    BY <1>1, <1>4 DEF Support!Handler
  <2> QED BY <1>1, <1>4, <2>1, AgentsWhole DEF Atomic!Whole
<1> QED BY <1>1, <1>2, <1>3, <1>4, SupportRequest

HIDE DEF Support!Done, Support!Fails, Support!FailsWith, Support!Succeeds

-----------------------------------------------------------------------------
(***************************************************************************)
(* Community elections.                                                    *)
(***************************************************************************)
Election == [tenant : {TenantOf[v] : v \in DOMAIN TenantOf},
             status : {"draft", "open", "closed"}, version : Nat]

IsElections(d) ==
  d = [app |-> "elections", elections |-> d.elections,
       candidates |-> d.candidates, ballots |-> d.ballots]

\* One election and one ballot.
SlateOK(d, x) ==
  d.elections[x].status # "draft" => Elections!Cardinality(Elections!CandidatesOf(d, x)) >= 2

BallotOK(d, b) ==
  /\ d.elections[b[1]].status # "draft"
  /\ Elections!Cardinality(Elections!CandidatesOf(d, b[1])) >= 2
  /\ d.ballots[b] # <<>>
  /\ Elections!Legal(d.ballots[b], Elections!CandidatesOf(d, b[1]))

IsBallots(d, ballots) ==
  /\ IsFiniteSet(DOMAIN ballots)
  /\ ballots \in [DOMAIN ballots -> Seq(Nat)]
  /\ \A b \in DOMAIN ballots : b = <<b[1], b[2]>> /\ b[1] \in DOMAIN d.elections

ElectionTypes(d) ==
  /\ IsElections(d)
  /\ d.elections \in Seq(Election)
  /\ d.candidates \in Seq(DOMAIN d.elections)
  /\ IsBallots(d, d.ballots)

ElectionsOK(d) ==
  /\ ElectionTypes(d)
  /\ \A x \in DOMAIN d.elections : SlateOK(d, x)
  /\ \A b \in DOMAIN d.ballots : BallotOK(d, b)

\* An election stays as it is, with its ballots and its slate.
Stays(d, e, x) ==
  /\ x \in DOMAIN e.elections
  /\ e.elections[x] = d.elections[x]
  /\ Elections!BallotsOf(e, x) = Elections!BallotsOf(d, x)
  /\ Elections!CandidatesOf(e, x) = Elections!CandidatesOf(d, x)

ClosedStay(d, e) ==
  \A x \in DOMAIN d.elections : d.elections[x].status = "closed" => Stays(d, e, x)

LEMMA ElectionsFinite == \A S : Elections!IsFiniteSet(S) <=> IsFiniteSet(S)
BY Zenon DEF Elections!IsFiniteSet, IsFiniteSet

LEMMA WellFormedIsOK == \A d : Elections!WellFormed(d) <=> ElectionsOK(d)
BY ElectionsFinite, Zenon
   DEF Elections!WellFormed, Elections!BallotsWhole, ElectionsOK, ElectionTypes, IsBallots,
       IsElections, SlateOK, BallotOK, Election

\* What a table is.
WithElections(d, x) == [d EXCEPT !.elections = x]
WithCandidates(d, x) == [d EXCEPT !.candidates = x]
WithBallots(d, x) == [d EXCEPT !.ballots = x]

LEMMA ElectionsSet ==
  ASSUME NEW d, IsElections(d), NEW x
  PROVE  /\ WithElections(d, x) = [app |-> "elections", elections |-> x, candidates |-> d.candidates, ballots |-> d.ballots]
         /\ WithCandidates(d, x) = [app |-> "elections", elections |-> d.elections, candidates |-> x, ballots |-> d.ballots]
         /\ WithBallots(d, x) = [app |-> "elections", elections |-> d.elections, candidates |-> d.candidates, ballots |-> x]
BY DEF IsElections, WithElections, WithCandidates, WithBallots

LEMMA SlateRows ==
  ASSUME NEW d, IsElections(d), NEW x
  PROVE  /\ LET e == WithElections(d, x)
            IN  IsElections(e) /\ e.elections = x /\ e.candidates = d.candidates /\ e.ballots = d.ballots
         /\ LET e == WithCandidates(d, x)
            IN  IsElections(e) /\ e.elections = d.elections /\ e.candidates = x /\ e.ballots = d.ballots
         /\ LET e == WithBallots(d, x)
            IN  IsElections(e) /\ e.elections = d.elections /\ e.candidates = d.candidates /\ e.ballots = x
<1>1. LET e == WithElections(d, x)
      IN  IsElections(e) /\ e.elections = x /\ e.candidates = d.candidates /\ e.ballots = d.ballots
  BY ElectionsSet DEF IsElections
<1>2. LET e == WithCandidates(d, x)
      IN  IsElections(e) /\ e.elections = d.elections /\ e.candidates = x /\ e.ballots = d.ballots
  BY ElectionsSet DEF IsElections
<1>3. LET e == WithBallots(d, x)
      IN  IsElections(e) /\ e.elections = d.elections /\ e.candidates = d.candidates /\ e.ballots = x
  BY ElectionsSet DEF IsElections
<1> QED BY <1>1, <1>2, <1>3

LEMMA SlateSame ==
  ASSUME NEW d, NEW e, e.candidates = d.candidates
  PROVE  \A x : Elections!CandidatesOf(e, x) = Elections!CandidatesOf(d, x)
BY DEF Elections!CandidatesOf

LEMMA BallotsSame ==
  ASSUME NEW d, NEW e, e.ballots = d.ballots
  PROVE  \A x : Elections!BallotsOf(e, x) = Elections!BallotsOf(d, x)
BY DEF Elections!BallotsOf

\* A new election is a draft.
LEMMA CreatedKeeps ==
  ASSUME NEW d, ElectionsOK(d), NEW new \in Election, new.status = "draft", NEW e, IsElections(e),
         e.elections = Append(d.elections, new), e.candidates = d.candidates, e.ballots = d.ballots
  PROVE  ElectionsOK(e) /\ ClosedStay(d, e)
<1> DEFINE n == Len(d.elections) + 1
<1>1. /\ DOMAIN e.elections = DOMAIN d.elections \cup {n} /\ n \notin DOMAIN d.elections
      /\ e.elections[n] = new
      /\ \A i \in DOMAIN d.elections : e.elections[i] = d.elections[i]
      /\ e.elections \in Seq(Election)
  BY DEF ElectionsOK, ElectionTypes
<1> HIDE DEF n
<1>2. \A x : Elections!CandidatesOf(e, x) = Elections!CandidatesOf(d, x)
  BY SlateSame
<1>3. \A x : Elections!BallotsOf(e, x) = Elections!BallotsOf(d, x)
  BY BallotsSame
<1>4. ElectionTypes(e)
  <2>1. e.candidates \in Seq(DOMAIN e.elections)
    BY <1>1 DEF ElectionsOK, ElectionTypes
  <2>2. IsBallots(e, e.ballots)
    BY <1>1 DEF ElectionsOK, ElectionTypes, IsBallots
  <2> QED BY <1>1, <2>1, <2>2 DEF ElectionTypes
<1>5. ASSUME NEW x \in DOMAIN e.elections PROVE SlateOK(e, x)
  BY <1>1, <1>2 DEF ElectionsOK, SlateOK
<1>6. ASSUME NEW b \in DOMAIN e.ballots PROVE BallotOK(e, b)
  <2>1. BallotOK(d, b) /\ b[1] \in DOMAIN d.elections
    BY DEF ElectionsOK, ElectionTypes, IsBallots
  <2> QED BY <1>1, <1>2, <2>1 DEF BallotOK
<1>7. ClosedStay(d, e)
  BY <1>1, <1>2, <1>3 DEF ClosedStay, Stays
<1> QED BY <1>4, <1>5, <1>6, <1>7 DEF ElectionsOK

\* A draft gets one candidate more.
LEMMA CandidateKeeps ==
  ASSUME NEW d, ElectionsOK(d), NEW x \in DOMAIN d.elections, d.elections[x].status = "draft",
         NEW row \in Election, row.status = "draft", NEW e, IsElections(e),
         e.elections = Row(d.elections, x, row),
         e.candidates = Append(d.candidates, x), e.ballots = d.ballots
  PROVE  ElectionsOK(e) /\ ClosedStay(d, e)
<1>1. /\ DOMAIN e.elections = DOMAIN d.elections
      /\ e.elections[x] = row /\ e.elections \in Seq(Election)
      /\ \A i \in DOMAIN d.elections : i # x => e.elections[i] = d.elections[i]
  BY DEF ElectionsOK, ElectionTypes, Row
<1>2. e.candidates \in Seq(DOMAIN e.elections)
  <2> DEFINE S == DOMAIN d.elections
  <2>1. d.candidates \in Seq(S) /\ x \in S
    BY DEF ElectionsOK, ElectionTypes
  <2> HIDE DEF S
  <2>2. Append(d.candidates, x) \in Seq(S)
    BY <2>1
  <2> QED BY <1>1, <2>2, Zenon DEF S
<1>3. ASSUME NEW i, i # x PROVE Elections!CandidatesOf(e, i) = Elections!CandidatesOf(d, i)
  <2> DEFINE n == Len(d.candidates) + 1
  <2>1. /\ DOMAIN e.candidates = DOMAIN d.candidates \cup {n} /\ n \notin DOMAIN d.candidates
        /\ e.candidates[n] = x
        /\ \A c \in DOMAIN d.candidates : e.candidates[c] = d.candidates[c]
    BY DEF ElectionsOK, ElectionTypes
  <2> HIDE DEF n
  <2> QED BY <1>3, <2>1 DEF Elections!CandidatesOf
<1>4. \A i : Elections!BallotsOf(e, i) = Elections!BallotsOf(d, i)
  BY BallotsSame
<1>5. IsBallots(e, e.ballots)
  BY <1>1 DEF ElectionsOK, ElectionTypes, IsBallots
<1>6. ASSUME NEW i \in DOMAIN e.elections PROVE SlateOK(e, i)
  BY <1>1, <1>3 DEF ElectionsOK, SlateOK
<1>7. ASSUME NEW b \in DOMAIN e.ballots PROVE BallotOK(e, b)
  <2>1. BallotOK(d, b) /\ b[1] \in DOMAIN d.elections
    BY DEF ElectionsOK, ElectionTypes, IsBallots
  <2>2. b[1] # x
    BY <2>1 DEF BallotOK
  <2> QED BY <1>1, <1>3, <2>1, <2>2 DEF BallotOK
<1>8. ClosedStay(d, e)
  BY <1>1, <1>3, <1>4 DEF ClosedStay, Stays
<1> QED BY <1>1, <1>2, <1>5, <1>6, <1>7, <1>8 DEF ElectionsOK, ElectionTypes

\* An election with a slate is opened, or an open one closed.
LEMMA AdvancedKeeps ==
  ASSUME NEW d, ElectionsOK(d), NEW x \in DOMAIN d.elections,
         d.elections[x].status # "closed",
         Elections!Cardinality(Elections!CandidatesOf(d, x)) >= 2,
         NEW row \in Election, row.status # "draft", NEW e, IsElections(e),
         e.elections = Row(d.elections, x, row),
         e.candidates = d.candidates, e.ballots = d.ballots
  PROVE  ElectionsOK(e) /\ ClosedStay(d, e)
<1>1. /\ DOMAIN e.elections = DOMAIN d.elections
      /\ e.elections[x] = row /\ e.elections \in Seq(Election)
      /\ \A i \in DOMAIN d.elections : i # x => e.elections[i] = d.elections[i]
  BY DEF ElectionsOK, ElectionTypes, Row
<1>2. e.candidates \in Seq(DOMAIN e.elections)
  BY <1>1 DEF ElectionsOK, ElectionTypes
<1>3. \A i : Elections!CandidatesOf(e, i) = Elections!CandidatesOf(d, i)
  BY SlateSame
<1>4. \A i : Elections!BallotsOf(e, i) = Elections!BallotsOf(d, i)
  BY BallotsSame
<1>5. IsBallots(e, e.ballots)
  BY <1>1 DEF ElectionsOK, ElectionTypes, IsBallots
<1>6. ASSUME NEW i \in DOMAIN e.elections PROVE SlateOK(e, i)
  BY <1>1, <1>3 DEF ElectionsOK, SlateOK
<1>7. ASSUME NEW b \in DOMAIN e.ballots PROVE BallotOK(e, b)
  <2>1. BallotOK(d, b) /\ b[1] \in DOMAIN d.elections
    BY DEF ElectionsOK, ElectionTypes, IsBallots
  <2>2. e.elections[b[1]].status # "draft"
    BY <1>1, <2>1 DEF BallotOK
  <2> QED BY <1>3, <2>1, <2>2 DEF BallotOK
<1>8. ClosedStay(d, e)
  BY <1>1, <1>3, <1>4 DEF ClosedStay, Stays
<1> QED BY <1>1, <1>2, <1>5, <1>6, <1>7, <1>8 DEF ElectionsOK, ElectionTypes

\* A whole ballot in an open election.
LEMMA VotedKeeps ==
  ASSUME NEW d, ElectionsOK(d), NEW x \in DOMAIN d.elections, d.elections[x].status = "open",
         NEW voter, NEW ranking \in Seq(Nat), ranking # <<>>,
         Elections!Legal(ranking, Elections!CandidatesOf(d, x)), NEW e, IsElections(e),
         e.elections = d.elections, e.candidates = d.candidates,
         e.ballots = Put(d.ballots, <<x, voter>>, ranking)
  PROVE  ElectionsOK(e) /\ ClosedStay(d, e)
<1> DEFINE new == <<x, voter>>
<1>1. /\ DOMAIN e.ballots = DOMAIN d.ballots \cup {new} /\ e.ballots[new] = ranking
      /\ \A b \in DOMAIN d.ballots : b # new => e.ballots[b] = d.ballots[b]
      /\ e.ballots = [b \in DOMAIN e.ballots |-> e.ballots[b]]
  BY DEF Put
<1>2. new[1] = x /\ new = <<new[1], new[2]>>
  OBVIOUS
<1>3. IsBallots(d, d.ballots)
  BY DEF ElectionsOK, ElectionTypes
<1> HIDE DEF new
<1>4. IsBallots(e, e.ballots)
  <2>1. IsFiniteSet(DOMAIN e.ballots)
    <3> DEFINE S == DOMAIN d.ballots
    <3>1. IsFiniteSet(S)
      BY <1>3 DEF IsBallots
    <3> HIDE DEF S
    <3>2. IsFiniteSet(S \cup {new})
      BY <3>1, FS_AddElement
    <3> QED BY <1>1, <3>2 DEF S
  <2>2. \A b \in DOMAIN e.ballots : e.ballots[b] \in Seq(Nat)
    BY <1>1, <1>3 DEF IsBallots
  <2>3. e.ballots \in [DOMAIN e.ballots -> Seq(Nat)]
    BY <1>1, <2>2
  <2> QED BY <1>1, <1>2, <1>3, <2>1, <2>3 DEF IsBallots
<1>5. \A i : Elections!CandidatesOf(e, i) = Elections!CandidatesOf(d, i)
  BY SlateSame
<1>6. ASSUME NEW i, i # x PROVE Elections!BallotsOf(e, i) = Elections!BallotsOf(d, i)
  <2>1. {b \in DOMAIN e.ballots : b[1] = i} = {b \in DOMAIN d.ballots : b[1] = i}
    BY <1>1, <1>2, <1>6
  <2>2. \A b \in DOMAIN d.ballots : b[1] = i => e.ballots[b] = d.ballots[b]
    BY <1>1, <1>2, <1>6
  <2> QED BY <2>1, <2>2 DEF Elections!BallotsOf
<1>7. ElectionTypes(e)
  BY <1>4 DEF ElectionsOK, ElectionTypes
<1>8. ASSUME NEW i \in DOMAIN e.elections PROVE SlateOK(e, i)
  BY <1>5 DEF ElectionsOK, SlateOK
<1>9. ASSUME NEW b \in DOMAIN e.ballots PROVE BallotOK(e, b)
  <2>1. CASE b = new
    <3>1. SlateOK(d, x)
      BY DEF ElectionsOK
    <3> QED BY <1>1, <1>2, <1>5, <2>1, <3>1 DEF SlateOK, BallotOK
  <2>2. CASE b # new
    <3>1. b \in DOMAIN d.ballots /\ BallotOK(d, b) /\ e.ballots[b] = d.ballots[b]
      BY <1>1, <2>2 DEF ElectionsOK
    <3> QED BY <1>5, <3>1 DEF BallotOK
  <2> QED BY <2>1, <2>2
<1>10. ClosedStay(d, e)
  BY <1>5, <1>6 DEF ClosedStay, Stays
<1> QED BY <1>7, <1>8, <1>9, <1>10 DEF ElectionsOK

LEMMA ElectionsServed ==
  ASSUME Serves, NEW q, q.app = "elections"
  PROVE  /\ Script(q) = Elections!Handler(q)
         /\ Transactional(q)
         /\ \A s, seen, d : Execute(s, q, seen, d) = Elections!RunStatement(s, q, seen, d)
BY DEF Serves, ServedScript, ServedTransactional, ServedExecute

LEMMA ElectionsBefore ==
  ASSUME Serves, NEW q, q.app = "elections", NEW d, NEW n \in Nat \ {0},
         Atomic!After(q, n, d).failure = Succeeds
  PROVE  /\ Atomic!After(q, n - 1, d).failure = Succeeds
         /\ Atomic!After(q, n, d) =
              Elections!RunStatement(Script(q)[n], q, Atomic!After(q, n - 1, d).seen,
                                     Atomic!After(q, n - 1, d).db)
BY Before, ElectionsServed

LEMMA ElectionsRequest ==
  ASSUME NEW x, NEW q \in Elections!Payloads(x)
  PROVE  /\ q.app = "elections"
         /\ \/ q.op = "create" /\ q.subject \in DOMAIN TenantOf
            \/ q.op \in {"addCandidate", "open", "close", "slate", "myBallot", "result"}
            \/ q.op = "vote" /\ q.ranking \in Seq(Nat) /\ q.ranking # <<>>
BY ApplicationsAssumption DEF Elections!Payloads

USE DEF Elections!Done, Elections!Fails, Elections!FailsWith, Elections!Succeeds

LEMMA ConcatIs ==
  ASSUME NEW S, NEW s1 \in Seq(S), NEW s2 \in Seq(S), NEW t \in Seq(S), Len(t) = Len(s1) + Len(s2),
         \A i \in 1..Len(s1) : t[i] = s1[i],
         \A i \in 1..Len(s2) : t[Len(s1) + i] = s2[i]
  PROVE  s1 \o s2 = t
<1> DEFINE u == s1 \o s2
<1>1. /\ u \in Seq(S) /\ Len(u) = Len(s1) + Len(s2)
      /\ \A i \in 1..(Len(s1) + Len(s2)) : u[i] = IF i <= Len(s1) THEN s1[i] ELSE s2[i - Len(s1)]
  BY ConcatProperties
<1>2. Len(s1) \in Nat /\ Len(s2) \in Nat
  OBVIOUS
<1> HIDE DEF u
<1>3. ASSUME NEW i \in 1..Len(u) PROVE u[i] = t[i]
  <2>1. CASE i <= Len(s1)
    BY <1>1, <1>2, <2>1
  <2>2. CASE i > Len(s1)
    <3>1. i - Len(s1) \in 1..Len(s2) /\ Len(s1) + (i - Len(s1)) = i
      BY <1>1, <1>2, <2>2
    <3>2. t[Len(s1) + (i - Len(s1))] = s2[i - Len(s1)]
      BY <3>1
    <3>3. u[i] = s2[i - Len(s1)]
      BY <1>1, <1>2, <2>2
    <3> QED BY <3>1, <3>2, <3>3
  <2> QED BY <1>1, <1>2, <2>1, <2>2
<1>4. u = t
  BY <1>1, <1>3, SeqEqual
<1> QED BY <1>4 DEF u

\* Two statements and one or two more.
LEMMA ConcatTwo ==
  ASSUME NEW a, NEW b, NEW c, NEW d
  PROVE  /\ <<a, b>> \o <<c>> = <<a, b, c>>
         /\ <<a, b>> \o <<c, d>> = <<a, b, c, d>>
         /\ <<a, b, c, d>> \o <<a, b>> = <<a, b, c, d, a, b>>
<1> DEFINE S == {a, b, c, d}
<1>1. <<a, b>> \o <<c>> = <<a, b, c>>
  <2> DEFINE s1 == <<a, b>>
             s2 == <<c>>
             t == <<a, b, c>>
  <2>1. s1 \in Seq(S) /\ Len(s1) = 2 /\ s1[1] = a /\ s1[2] = b
    OBVIOUS
  <2>2. s2 \in Seq(S) /\ Len(s2) = 1 /\ s2[1] = c
    OBVIOUS
  <2>3. t \in Seq(S) /\ Len(t) = 3 /\ t[1] = a /\ t[2] = b /\ t[3] = c
    OBVIOUS
  <2> HIDE DEF s1, s2, t, S
  <2>4. \A i \in 1..2 : t[i] = s1[i]
    <3>1. \A i \in 1..2 : i = 1 \/ i = 2
      OBVIOUS
    <3> QED BY <2>1, <2>3, <3>1
  <2>5. \A i \in 1..1 : t[2 + i] = s2[i]
    <3>1. \A i \in 1..1 : i = 1
      OBVIOUS
    <3> QED BY <2>2, <2>3, <3>1
  <2>6. /\ Len(t) = Len(s1) + Len(s2)
        /\ \A i \in 1..Len(s1) : t[i] = s1[i]
        /\ \A i \in 1..Len(s2) : t[Len(s1) + i] = s2[i]
    BY <2>1, <2>2, <2>3, <2>4, <2>5
  <2>7. s1 \o s2 = t
    BY <2>1, <2>2, <2>3, <2>6, ConcatIs, Zenon
  <2> QED BY <2>7 DEF s1, s2, t
<1>2. <<a, b>> \o <<c, d>> = <<a, b, c, d>>
  <2> DEFINE s1 == <<a, b>>
             s2 == <<c, d>>
             t == <<a, b, c, d>>
  <2>1. s1 \in Seq(S) /\ Len(s1) = 2 /\ s1[1] = a /\ s1[2] = b
    OBVIOUS
  <2>2. s2 \in Seq(S) /\ Len(s2) = 2 /\ s2[1] = c /\ s2[2] = d
    OBVIOUS
  <2>3. t \in Seq(S) /\ Len(t) = 4 /\ t[1] = a /\ t[2] = b /\ t[3] = c /\ t[4] = d
    OBVIOUS
  <2> HIDE DEF s1, s2, t, S
  <2>4. \A i \in 1..2 : t[i] = s1[i]
    <3>1. \A i \in 1..2 : i = 1 \/ i = 2
      OBVIOUS
    <3> QED BY <2>1, <2>3, <3>1
  <2>5. \A i \in 1..2 : t[2 + i] = s2[i]
    <3>1. \A i \in 1..2 : i = 1 \/ i = 2
      OBVIOUS
    <3> QED BY <2>2, <2>3, <3>1
  <2>6. /\ Len(t) = Len(s1) + Len(s2)
        /\ \A i \in 1..Len(s1) : t[i] = s1[i]
        /\ \A i \in 1..Len(s2) : t[Len(s1) + i] = s2[i]
    BY <2>1, <2>2, <2>3, <2>4, <2>5
  <2>7. s1 \o s2 = t
    BY <2>1, <2>2, <2>3, <2>6, ConcatIs, Zenon
  <2> QED BY <2>7 DEF s1, s2, t
<1>3. <<a, b, c, d>> \o <<a, b>> = <<a, b, c, d, a, b>>
  <2> DEFINE s1 == <<a, b, c, d>>
             s2 == <<a, b>>
             t == <<a, b, c, d, a, b>>
  <2>1. s1 \in Seq(S) /\ Len(s1) = 4 /\ s1[1] = a /\ s1[2] = b /\ s1[3] = c /\ s1[4] = d
    OBVIOUS
  <2>2. s2 \in Seq(S) /\ Len(s2) = 2 /\ s2[1] = a /\ s2[2] = b
    OBVIOUS
  <2>3. t \in Seq(S) /\ Len(t) = 6 /\ t[1] = a /\ t[2] = b /\ t[3] = c /\ t[4] = d /\ t[5] = a /\ t[6] = b
    OBVIOUS
  <2> HIDE DEF s1, s2, t, S
  <2>4. \A i \in 1..4 : t[i] = s1[i]
    <3>1. \A i \in 1..4 : i = 1 \/ i = 2 \/ i = 3 \/ i = 4
      OBVIOUS
    <3> QED BY <2>1, <2>3, <3>1
  <2>5. \A i \in 1..2 : t[4 + i] = s2[i]
    <3>1. \A i \in 1..2 : i = 1 \/ i = 2
      OBVIOUS
    <3> QED BY <2>2, <2>3, <3>1
  <2>6. /\ Len(t) = Len(s1) + Len(s2)
        /\ \A i \in 1..Len(s1) : t[i] = s1[i]
        /\ \A i \in 1..Len(s2) : t[Len(s1) + i] = s2[i]
    BY <2>1, <2>2, <2>3, <2>4, <2>5
  <2>7. s1 \o s2 = t
    BY <2>1, <2>2, <2>3, <2>6, ConcatIs, Zenon
  <2> QED BY <2>7 DEF s1, s2, t
<1> QED BY <1>1, <1>2, <1>3

LEMMA ScriptOfElections ==
  ASSUME Serves, NEW q, q.app = "elections"
  PROVE  /\ q.op = "addCandidate" => Script(q) = <<"getElection", "listCandidates", "raiseVersion",
                                        "insertCandidate", "getElection", "listCandidates">>
         /\ q.op = "open" => Script(q) = <<"getElection", "listCandidates", "open">>
         /\ q.op = "result" => Script(q) = <<"getElection", "listCandidates", "tally">>
         /\ q.op = "slate" => Script(q) = <<"getElection", "listCandidates">>
         /\ q.op = "close" => Script(q) = <<"getElection", "close">>
         /\ q.op = "myBallot" => Script(q) = <<"getElection", "readBallot", "listPreferences">>
         /\ q.op = "create" => Script(q) = <<"insertElection">>
<1>1. Script(q) = Elections!Handler(q)
  BY ElectionsServed
<1>2. q.op = "addCandidate" => Script(q) = <<"getElection", "listCandidates", "raiseVersion",
                                  "insertCandidate", "getElection", "listCandidates">>
  <2>1. (<<"getElection", "listCandidates">> \o <<"raiseVersion", "insertCandidate">>)
          \o <<"getElection", "listCandidates">>
        = <<"getElection", "listCandidates", "raiseVersion",
            "insertCandidate", "getElection", "listCandidates">>
    BY ConcatTwo, Zenon
  <2>2. q.op = "addCandidate" =>
          Script(q) = (<<"getElection", "listCandidates">> \o <<"raiseVersion", "insertCandidate">>)
                        \o <<"getElection", "listCandidates">>
    BY <1>1, Zenon DEF Elections!Handler
  <2> QED BY <2>1, <2>2
<1>3. q.op = "open" => Script(q) = <<"getElection", "listCandidates", "open">>
  <2>1. <<"getElection", "listCandidates">> \o <<"open">> = <<"getElection", "listCandidates", "open">>
    BY ConcatTwo, Zenon
  <2>2. q.op = "open" => Script(q) = <<"getElection", "listCandidates">> \o <<"open">>
    BY <1>1, Zenon DEF Elections!Handler
  <2> QED BY <2>1, <2>2
<1>4. q.op = "result" => Script(q) = <<"getElection", "listCandidates", "tally">>
  <2>1. <<"getElection", "listCandidates">> \o <<"tally">> = <<"getElection", "listCandidates", "tally">>
    BY ConcatTwo, Zenon
  <2>2. q.op = "result" => Script(q) = <<"getElection", "listCandidates">> \o <<"tally">>
    BY <1>1, Zenon DEF Elections!Handler
  <2> QED BY <2>1, <2>2
<1>5. /\ q.op = "slate" => Script(q) = <<"getElection", "listCandidates">>
      /\ q.op = "close" => Script(q) = <<"getElection", "close">>
      /\ q.op = "myBallot" => Script(q) = <<"getElection", "readBallot", "listPreferences">>
      /\ q.op = "create" => Script(q) = <<"insertElection">>
  BY <1>1 DEF Elections!Handler
<1> QED BY <1>2, <1>3, <1>4, <1>5

\* A script's statements are its own.
LEMMA OwnStatements ==
  ASSUME NEW S, NEW s \in Seq(S)
  PROVE  s \in Seq({s[i] : i \in DOMAIN s})
<1> DEFINE T == {s[i] : i \in DOMAIN s}
<1>1. Len(s) \in Nat /\ DOMAIN s = 1..Len(s) /\ s = [i \in 1..Len(s) |-> s[i]]
  OBVIOUS
<1>2. \A i \in 1..Len(s) : s[i] \in T
  BY <1>1
<1> HIDE DEF T
<1>3. s \in [1..Len(s) -> T]
  BY <1>1, <1>2
<1>4. s \in Seq(T)
  BY <1>1, <1>3
<1> QED BY <1>4 DEF T

\* Voting inserts one preference after the other.
LEMMA ScriptOfVote ==
  ASSUME Serves, NEW q, q.app = "elections", q.op = "vote", q.ranking \in Seq(Nat)
  PROVE  /\ \E S : Script(q) \in Seq(S)
         /\ Len(Script(q)) = 4 + Len(q.ranking) /\ Len(q.ranking) \in Nat
         /\ Script(q)[1] = "getElection" /\ Script(q)[2] = "listCandidates"
         /\ Script(q)[3] = "findBallot" /\ Script(q)[4] = "deletePreferences"
         /\ \A k \in 1..Len(q.ranking) : Script(q)[4 + k] = "insertPreference"
<1> DEFINE S == {"getElection", "listCandidates", "findBallot", "deletePreferences", "insertPreference"}
           head == <<"getElection", "listCandidates", "findBallot", "deletePreferences">>
           tail == [i \in DOMAIN q.ranking |-> "insertPreference"]
           m == Len(q.ranking)
           all == head \o tail
<1>1. Script(q) = (<<"getElection", "listCandidates">> \o <<"findBallot", "deletePreferences">>) \o tail
  BY ElectionsServed DEF Elections!Handler, Elections!InsertPreferences
<1>2. <<"getElection", "listCandidates">> \o <<"findBallot", "deletePreferences">> = head
  BY ConcatTwo, Zenon
<1>3. Script(q) = all
  BY <1>1, <1>2, Zenon
<1>4. m \in Nat /\ DOMAIN q.ranking = 1..m
  OBVIOUS
<1>5. head \in Seq(S) /\ Len(head) = 4
  OBVIOUS
<1>6. tail \in Seq(S) /\ Len(tail) = m /\ \A k \in 1..m : tail[k] = "insertPreference"
  <2>1. tail = [i \in 1..m |-> "insertPreference"] /\ "insertPreference" \in S
    BY <1>4
  <2> HIDE DEF tail, m, S
  <2> QED BY <1>4, <2>1
<1>7. head[1] = "getElection" /\ head[2] = "listCandidates" /\ head[3] = "findBallot"
      /\ head[4] = "deletePreferences"
  OBVIOUS
<1> HIDE DEF S, head, tail, m
<1>8. /\ all \in Seq(S) /\ Len(all) = Len(head) + Len(tail)
      /\ \A i \in 1..(Len(head) + Len(tail)) :
           all[i] = IF i <= Len(head) THEN head[i] ELSE tail[i - Len(head)]
  BY <1>5, <1>6, ConcatProperties, Zenon
<1> HIDE DEF all
<1>9. /\ \A i \in 1..4 : all[i] = head[i]
      /\ \A k \in 1..m : all[4 + k] = tail[k]
  BY <1>4, <1>5, <1>6, <1>8
<1>10. all[1] = head[1] /\ all[2] = head[2] /\ all[3] = head[3] /\ all[4] = head[4]
  BY <1>9
<1>11. Len(all) = 4 + m
  BY <1>5, <1>6, <1>8
<1>12. \A k \in 1..m : all[4 + k] = "insertPreference"
  BY <1>6, <1>9
<1> QED BY <1>3, <1>4, <1>7, <1>8, <1>10, <1>11, <1>12 DEF m

\* What is read of an election first.
LEMMA ElectionRead ==
  ASSUME Serves, NEW d, NEW q, q.app = "elections", Script(q)[1] = "getElection",
         Atomic!After(q, 1, d).failure = Succeeds
  PROVE  /\ q.election \in DOMAIN d.elections
         /\ Atomic!After(q, 1, d).db = d
         /\ Atomic!After(q, 1, d).seen.election = d.elections[q.election]
<1> DEFINE a == Atomic!After(q, 1, d)
<1>1. a = Elections!RunStatement("getElection", q, Nothing, d)
  BY FirstOf, ElectionsServed
<1>2. a.failure = Succeeds
  OBVIOUS
<1> HIDE DEF a
<1>3. a = Elections!GetElection(q, Nothing, d)
  BY <1>1 DEF Elections!RunStatement
<1>4. q.election \in DOMAIN d.elections /\ a.db = d /\ a.seen.election = d.elections[q.election]
  BY <1>2, <1>3 DEF Elections!GetElection, Succeeds
<1> QED BY <1>4 DEF a

LEMMA SlateRead ==
  ASSUME Serves, NEW d, NEW q, q.app = "elections", Script(q)[1] = "getElection",
         Script(q)[2] = "listCandidates", Atomic!After(q, 2, d).failure = Succeeds
  PROVE  /\ q.election \in DOMAIN d.elections
         /\ Atomic!After(q, 2, d).db = d
         /\ Atomic!After(q, 2, d).seen.election = d.elections[q.election]
         /\ Atomic!After(q, 2, d).seen.candidates = Elections!CandidatesOf(d, q.election)
<1> DEFINE a(n) == Atomic!After(q, n, d)
<1>1. a(2) = Elections!RunStatement("listCandidates", q, a(1).seen, a(1).db) /\ a(1).failure = Succeeds
  BY ElectionsServed, Before
<1>2. q.election \in DOMAIN d.elections /\ a(1).db = d /\ a(1).seen.election = d.elections[q.election]
  BY <1>1, ElectionRead
<1> HIDE DEF a
<1>3. a(2) = Elections!ListCandidates(q, a(1).seen, d)
  BY <1>1, <1>2 DEF Elections!RunStatement
<1>4. /\ a(2).db = d /\ a(2).seen.election = d.elections[q.election]
      /\ a(2).seen.candidates = Elections!CandidatesOf(d, q.election)
  BY <1>2, <1>3 DEF Elections!ListCandidates
<1> QED BY <1>2, <1>4 DEF a

LEMMA CreatedWhole ==
  ASSUME Serves, NEW d, ElectionsOK(d), NEW q, q.app = "elections", q.op = "create",
         q.subject \in DOMAIN TenantOf, Atomic!After(q, 1, d).failure = Succeeds
  PROVE  LET e == Atomic!After(q, 1, d).db
         IN  ElectionsOK(e) /\ ClosedStay(d, e)
<1> DEFINE a == Atomic!After(q, 1, d)
           new == [tenant |-> TenantOf[q.subject], status |-> "draft", version |-> 1]
<1>1. a = Elections!RunStatement("insertElection", q, Nothing, d)
  BY ScriptOfElections, FirstOf, ElectionsServed
<1> HIDE DEF a
<1>2. a = Elections!InsertElection(q, d)
  BY <1>1 DEF Elections!RunStatement
<1>3. a.db = WithElections(d, Append(d.elections, new))
  BY <1>2 DEF Elections!InsertElection, WithElections
<1>4. new \in Election /\ new.status = "draft"
  BY DEF Election
<1> HIDE DEF new
<1>5. IsElections(a.db) /\ a.db.elections = Append(d.elections, new) /\ a.db.candidates = d.candidates
      /\ a.db.ballots = d.ballots
  <2> DEFINE more == Append(d.elections, new)
  <2>1. a.db = WithElections(d, more)
    BY <1>3
  <2> HIDE DEF more
  <2>2. IsElections(d)
    BY DEF ElectionsOK, ElectionTypes
  <2>3. IsElections(a.db) /\ a.db.elections = more /\ a.db.candidates = d.candidates
        /\ a.db.ballots = d.ballots
    BY <2>1, <2>2, SlateRows
  <2> QED BY <2>3 DEF more
<1>6. ElectionsOK(a.db) /\ ClosedStay(d, a.db)
  BY <1>4, <1>5, CreatedKeeps
<1> QED BY <1>6 DEF a

Versioned(row) == [row EXCEPT !.version = @ + 1]
Moved(row, to) == [row EXCEPT !.status = to, !.version = @ + 1]

LEMMA RowsOfElections ==
  ASSUME NEW row \in Election, NEW to \in {"draft", "open", "closed"}
  PROVE  /\ Versioned(row) \in Election /\ Versioned(row).status = row.status
         /\ Moved(row, to) \in Election /\ Moved(row, to).status = to
<1>1. /\ row.tenant \in {TenantOf[v] : v \in DOMAIN TenantOf} /\ row.version + 1 \in Nat
      /\ row.status \in {"draft", "open", "closed"}
      /\ row = [tenant |-> row.tenant, status |-> row.status, version |-> row.version]
  BY DEF Election
<1>2. Versioned(row) = [tenant |-> row.tenant, status |-> row.status, version |-> row.version + 1]
  BY <1>1 DEF Versioned
<1>3. Moved(row, to) = [tenant |-> row.tenant, status |-> to, version |-> row.version + 1]
  <2> DEFINE moved == [row EXCEPT !.status = to]
  <2>1. Moved(row, to) = [moved EXCEPT !.version = @ + 1]
    BY DEF Moved
  <2>2. moved = [tenant |-> row.tenant, status |-> to, version |-> row.version]
    BY <1>1
  <2> HIDE DEF moved
  <2>3. [moved EXCEPT !.version = @ + 1]
          = [tenant |-> row.tenant, status |-> to, version |-> row.version + 1]
    BY <2>2
  <2> QED BY <2>1, <2>3
<1>4. Versioned(row) \in Election /\ Versioned(row).status = row.status
  BY <1>1, <1>2 DEF Election
<1>5. Moved(row, to) \in Election /\ Moved(row, to).status = to
  BY <1>1, <1>3 DEF Election
<1> QED BY <1>4, <1>5

LEMMA CandidateWhole ==
  ASSUME Serves, NEW d, ElectionsOK(d), NEW q, q.app = "elections", q.op = "addCandidate",
         Atomic!After(q, 6, d).failure = Succeeds
  PROVE  LET e == Atomic!After(q, 6, d).db
         IN  ElectionsOK(e) /\ ClosedStay(d, e)
<1>1. Script(q) = <<"getElection", "listCandidates", "raiseVersion",
                    "insertCandidate", "getElection", "listCandidates">>
  BY ScriptOfElections
<1> DEFINE a(n) == Atomic!After(q, n, d)
           x == q.election
<1>2. a(6) = Elections!ListCandidates(q, a(5).seen, a(5).db) /\ a(5).failure = Succeeds
  <2>1. Script(q)[6] = "listCandidates" /\ 6 - 1 = 5
    BY <1>1
  <2>2. a(6) = Elections!RunStatement("listCandidates", q, a(5).seen, a(5).db) /\ a(5).failure = Succeeds
    BY <2>1, ElectionsBefore
  <2> QED BY <2>2 DEF Elections!RunStatement
<1>3. a(5) = Elections!GetElection(q, a(4).seen, a(4).db) /\ a(4).failure = Succeeds
  <2>1. Script(q)[5] = "getElection" /\ 5 - 1 = 4
    BY <1>1
  <2>2. a(5) = Elections!RunStatement("getElection", q, a(4).seen, a(4).db) /\ a(4).failure = Succeeds
    BY <1>2, <2>1, ElectionsBefore
  <2> QED BY <2>2 DEF Elections!RunStatement
<1>4. a(4) = Elections!InsertCandidate(q, a(3).seen, a(3).db) /\ a(3).failure = Succeeds
  <2>1. Script(q)[4] = "insertCandidate" /\ 4 - 1 = 3
    BY <1>1
  <2>2. a(4) = Elections!RunStatement("insertCandidate", q, a(3).seen, a(3).db) /\ a(3).failure = Succeeds
    BY <1>3, <2>1, ElectionsBefore
  <2> QED BY <2>2 DEF Elections!RunStatement
<1>5. a(3) = Elections!RaiseVersion(q, a(2).seen, a(2).db) /\ a(2).failure = Succeeds
  <2>1. Script(q)[3] = "raiseVersion" /\ 3 - 1 = 2
    BY <1>1
  <2>2. a(3) = Elections!RunStatement("raiseVersion", q, a(2).seen, a(2).db) /\ a(2).failure = Succeeds
    BY <1>4, <2>1, ElectionsBefore
  <2> QED BY <2>2 DEF Elections!RunStatement
<1>6. x \in DOMAIN d.elections /\ a(2).db = d /\ a(2).seen.election = d.elections[x]
  BY <1>1, <1>5, SlateRead
<1> HIDE DEF a
<1> DEFINE row == Versioned(d.elections[x])
           rows == Row(d.elections, x, row)
<1>7. d.elections[x].status = "draft" /\ a(3).db = WithElections(d, rows)
  <2>1. a(3) = Elections!RaiseVersion(q, a(2).seen, d)
    BY <1>5, <1>6
  <2>2. /\ a(2).seen.election.status = "draft"
        /\ a(3).db = [d EXCEPT !.elections[x].version = @ + 1]
    BY <1>4, <2>1 DEF Elections!RaiseVersion, Succeeds
  <2>3. [d EXCEPT !.elections[x].version = @ + 1] = WithElections(d, rows)
    BY <1>6 DEF ElectionsOK, ElectionTypes, IsElections, WithElections, Row, Versioned
  <2> QED BY <1>6, <2>2, <2>3
<1>8. row \in Election /\ row.status = "draft"
  <2>1. d.elections[x] \in Election
    BY <1>6 DEF ElectionsOK, ElectionTypes
  <2> QED BY <1>7, <2>1, RowsOfElections
<1> HIDE DEF row
<1> DEFINE e == a(6).db
           more == Append(d.candidates, x)
<1>9. IsElections(e) /\ e.elections = rows /\ e.candidates = more /\ e.ballots = d.ballots
  <2>1. e = a(4).db
    BY <1>2, <1>3 DEF Elections!ListCandidates, Elections!GetElection
  <2>2. IsElections(d)
    BY DEF ElectionsOK, ElectionTypes
  <2> HIDE DEF rows, e
  <2>3. IsElections(a(3).db) /\ a(3).db.elections = rows /\ a(3).db.candidates = d.candidates
        /\ a(3).db.ballots = d.ballots
    BY <1>7, <2>2, SlateRows
  <2>4. e = WithCandidates(a(3).db, Append(a(3).db.candidates, x))
    BY <1>4, <2>1 DEF Elections!InsertCandidate, WithCandidates
  <2>5. e = WithCandidates(a(3).db, more)
    BY <2>3, <2>4, Zenon
  <2> HIDE DEF more
  <2> QED BY <2>3, <2>5, SlateRows
<1>10. ElectionsOK(e) /\ ClosedStay(d, e)
  <2> HIDE DEF e, x
  <2> QED BY <1>6, <1>7, <1>8, <1>9, CandidateKeeps
<1> QED BY <1>10 DEF a

\* Opening and closing.
LEMMA MovedWhole ==
  ASSUME NEW d, ElectionsOK(d), NEW q, NEW from \in {"draft", "open"}, NEW to \in {"open", "closed"},
         q.election \in DOMAIN d.elections,
         Elections!Cardinality(Elections!CandidatesOf(d, q.election)) >= 2,
         NEW a, a = Elections!Advance(q, from, to, d), a.failure = Succeeds
  PROVE  ElectionsOK(a.db) /\ ClosedStay(d, a.db)
<1> DEFINE x == q.election
           row == Moved(d.elections[x], to)
           rows == Row(d.elections, x, row)
           e == a.db
<1>1. d.elections[x].status = from /\ e = WithElections(d, rows)
  <2>1. /\ d.elections[x].status = from
        /\ e = [d EXCEPT !.elections[x].status = to, !.elections[x].version = @ + 1]
    BY DEF Elections!Advance, Succeeds
  <2>2. [d EXCEPT !.elections[x].status = to, !.elections[x].version = @ + 1] = WithElections(d, rows)
    BY DEF ElectionsOK, ElectionTypes, IsElections, WithElections, Row, Moved
  <2> QED BY <2>1, <2>2
<1>2. row \in Election /\ row.status = to
  <2>1. d.elections[x] \in Election
    BY DEF ElectionsOK, ElectionTypes
  <2> QED BY <2>1, RowsOfElections
<1> HIDE DEF row, e
<1>3. IsElections(e) /\ e.elections = rows /\ e.candidates = d.candidates /\ e.ballots = d.ballots
  <2> HIDE DEF rows
  <2> QED BY <1>1, SlateRows DEF ElectionsOK, ElectionTypes
<1>4. ElectionsOK(e) /\ ClosedStay(d, e)
  BY <1>1, <1>2, <1>3, AdvancedKeeps
<1> QED BY <1>4 DEF e

LEMMA OpenedWhole ==
  ASSUME Serves, NEW d, ElectionsOK(d), NEW q, q.app = "elections", q.op = "open",
         Atomic!After(q, 3, d).failure = Succeeds
  PROVE  LET e == Atomic!After(q, 3, d).db
         IN  ElectionsOK(e) /\ ClosedStay(d, e)
<1>1. Script(q) = <<"getElection", "listCandidates", "open">>
  BY ScriptOfElections
<1> DEFINE a(n) == Atomic!After(q, n, d)
<1>2. a(3) = Elections!Open(q, a(2).seen, a(2).db) /\ a(2).failure = Succeeds /\ a(3).failure = Succeeds
  <2>1. Script(q)[3] = "open" /\ 3 - 1 = 2
    BY <1>1
  <2>2. a(3) = Elections!RunStatement("open", q, a(2).seen, a(2).db) /\ a(2).failure = Succeeds
    BY <2>1, ElectionsBefore
  <2> QED BY <2>2 DEF Elections!RunStatement
<1>3. /\ q.election \in DOMAIN d.elections /\ a(2).db = d
      /\ a(2).seen.candidates = Elections!CandidatesOf(d, q.election)
  BY <1>1, <1>2, SlateRead
<1> HIDE DEF a
<1>4. a(3) = Elections!Advance(q, "draft", "open", d)
      /\ Elections!Cardinality(Elections!CandidatesOf(d, q.election)) \in 2..MaxSlate
  BY <1>2, <1>3 DEF Elections!Open, Succeeds
<1>5. ElectionsOK(a(3).db) /\ ClosedStay(d, a(3).db)
  BY <1>2, <1>3, <1>4, MovedWhole
<1> QED BY <1>5 DEF a

LEMMA ClosedWhole ==
  ASSUME Serves, NEW d, ElectionsOK(d), NEW q, q.app = "elections", q.op = "close",
         Atomic!After(q, 2, d).failure = Succeeds
  PROVE  LET e == Atomic!After(q, 2, d).db
         IN  ElectionsOK(e) /\ ClosedStay(d, e)
<1>1. Script(q) = <<"getElection", "close">>
  BY ScriptOfElections
<1> DEFINE a(n) == Atomic!After(q, n, d)
<1>2. a(2) = Elections!Close(q, a(1).db) /\ a(1).failure = Succeeds /\ a(2).failure = Succeeds
  <2>1. Script(q)[2] = "close" /\ 2 - 1 = 1
    BY <1>1
  <2>2. a(2) = Elections!RunStatement("close", q, a(1).seen, a(1).db) /\ a(1).failure = Succeeds
    BY <2>1, ElectionsBefore
  <2> QED BY <2>2 DEF Elections!RunStatement
<1>3. q.election \in DOMAIN d.elections /\ a(1).db = d
  BY <1>1, <1>2, ElectionRead
<1> HIDE DEF a
<1>4. a(2) = Elections!Advance(q, "open", "closed", d)
  BY <1>2, <1>3 DEF Elections!Close
<1>5. d.elections[q.election].status = "open"
  BY <1>2, <1>4 DEF Elections!Advance, Succeeds
<1>6. Elections!Cardinality(Elections!CandidatesOf(d, q.election)) >= 2
  BY <1>3, <1>5 DEF ElectionsOK, SlateOK
<1>7. ElectionsOK(a(2).db) /\ ClosedStay(d, a(2).db)
  BY <1>2, <1>3, <1>4, <1>6, MovedWhole
<1> QED BY <1>7 DEF a

\* What one statement does to one ballot.
LEMMA BallotIs ==
  ASSUME NEW d, IsElections(d), NEW ballots, NEW b, NEW u, NEW e,
         e = WithBallots(d, Put(ballots, b, u))
  PROVE  e.ballots[b] = u
<1> DEFINE P == Put(ballots, b, u)
<1>1. P[b] = u
  BY DEF Put
<1>2. e = WithBallots(d, P)
  OBVIOUS
<1> HIDE DEF P
<1>3. e = [app |-> "elections", elections |-> d.elections, candidates |-> d.candidates, ballots |-> P]
  BY <1>2, ElectionsSet
<1> QED BY <1>1, <1>3

\* What is set twice is set to the last.
LEMMA PutTwice ==
  ASSUME NEW f, NEW k, NEW u, NEW v
  PROVE  /\ DOMAIN Put(f, k, u) = DOMAIN f \cup {k} /\ Put(f, k, u)[k] = u
         /\ [Put(f, k, u) EXCEPT ![k] = v] = Put(f, k, v)
         /\ Put(Put(f, k, u), k, v) = Put(f, k, v)
BY DEF Put

LEMMA PutSame ==
  ASSUME NEW f, f = [x \in DOMAIN f |-> f[x]], NEW k \in DOMAIN f
  PROVE  Put(f, k, f[k]) = f
<1>1. DOMAIN f \cup {k} = DOMAIN f
  OBVIOUS
<1>2. \A x \in DOMAIN f : (IF x = k THEN f[k] ELSE f[x]) = f[x]
  OBVIOUS
<1> QED BY <1>1, <1>2 DEF Put

Balloted(d, b, v) == [d EXCEPT !.ballots[b] = v]

LEMMA BallotSet ==
  ASSUME NEW d, IsElections(d), NEW ballots, NEW b, NEW u, NEW v, NEW e,
         e = WithBallots(d, Put(ballots, b, u))
  PROVE  Balloted(e, b, v) = WithBallots(d, Put(ballots, b, v))
<1> DEFINE P == Put(ballots, b, u)
           R == Put(ballots, b, v)
<1>1. P[b] = u /\ [P EXCEPT ![b] = v] = R
  BY DEF Put
<1>2. e = WithBallots(d, P)
  OBVIOUS
<1> HIDE DEF P, R
<1>3. e = [app |-> "elections", elections |-> d.elections, candidates |-> d.candidates, ballots |-> P]
  BY <1>2, ElectionsSet
<1>4. [e EXCEPT !.ballots[b] = v] =
        [app |-> "elections", elections |-> d.elections, candidates |-> d.candidates,
         ballots |-> [P EXCEPT ![b] = v]]
  BY <1>3
<1>5. [e EXCEPT !.ballots[b] = v] = WithBallots(d, R)
  BY <1>1, <1>4, ElectionsSet
<1> QED BY <1>1, <1>3, <1>5 DEF R, Balloted

\* What succeeds has succeeded all along.
LEMMA SucceededBefore ==
  ASSUME NEW q, NEW d, NEW m \in Nat, NEW n \in Nat, m <= n, Atomic!After(q, n, d).failure = Succeeds
  PROVE  Atomic!After(q, m, d).failure = Succeeds
BY FailureStays

\* A ballot, up to its k-th preference.
Partly(q, d, k) ==
  \E p \in Seq(Nat) :
    /\ Len(p) = k /\ \A i \in 1..k : p[i] = q.ranking[i]
    /\ Atomic!After(q, 4 + k, d).db = WithBallots(d, Put(d.ballots, <<q.election, q.subject>>, p))

LEMMA BallotFound ==
  ASSUME Serves, NEW d, ElectionsOK(d), NEW q, q.app = "elections", q.op = "vote",
         q.ranking \in Seq(Nat), Atomic!After(q, 4, d).failure = Succeeds
  PROVE  /\ q.election \in DOMAIN d.elections /\ d.elections[q.election].status = "open"
         /\ Elections!Legal(q.ranking, Elections!CandidatesOf(d, q.election))
         /\ Partly(q, d, 0)
<1> DEFINE a(n) == Atomic!After(q, n, d)
           b == <<q.election, q.subject>>
<1>1. /\ Script(q)[1] = "getElection" /\ Script(q)[2] = "listCandidates"
      /\ Script(q)[3] = "findBallot" /\ Script(q)[4] = "deletePreferences"
  BY ScriptOfVote
<1>2. a(4) = Elections!DeletePreferences(q, a(3).seen, a(3).db) /\ a(3).failure = Succeeds
  <2>1. 4 - 1 = 3
    OBVIOUS
  <2>2. a(4) = Elections!RunStatement("deletePreferences", q, a(3).seen, a(3).db) /\ a(3).failure = Succeeds
    BY <1>1, <2>1, ElectionsBefore
  <2> QED BY <2>2 DEF Elections!RunStatement
<1>3. a(3) = Elections!FindBallot(q, a(2).seen, a(2).db) /\ a(2).failure = Succeeds
  <2>1. 3 - 1 = 2
    OBVIOUS
  <2>2. a(3) = Elections!RunStatement("findBallot", q, a(2).seen, a(2).db) /\ a(2).failure = Succeeds
    BY <1>1, <1>2, <2>1, ElectionsBefore
  <2> QED BY <2>2 DEF Elections!RunStatement
<1>4. /\ q.election \in DOMAIN d.elections /\ a(2).db = d /\ a(2).seen.election = d.elections[q.election]
      /\ a(2).seen.candidates = Elections!CandidatesOf(d, q.election)
  BY <1>1, <1>3, SlateRead
<1>5. a(4 + 0) = a(4)
  OBVIOUS
<1> HIDE DEF a
<1>6. a(3) = Elections!FindBallot(q, a(2).seen, d)
  BY <1>3, <1>4
<1>7. /\ d.elections[q.election].status = "open"
      /\ Elections!Legal(q.ranking, Elections!CandidatesOf(d, q.election))
      /\ IF b \in DOMAIN d.ballots THEN a(3).db = d
         ELSE a(3).db = [d EXCEPT !.ballots = Elections!Put(@, b, <<>>)]
  BY <1>2, <1>4, <1>6 DEF Elections!FindBallot, Elections!IsOpen, Elections!Ballot, Succeeds
<1>8. IsElections(d) /\ d.ballots = [x \in DOMAIN d.ballots |-> d.ballots[x]]
  BY DEF ElectionsOK, ElectionTypes, IsBallots
<1>9. \E u : a(3).db = WithBallots(d, Put(d.ballots, b, u))
  <2>1. CASE b \in DOMAIN d.ballots
    <3>1. Put(d.ballots, b, d.ballots[b]) = d.ballots
      BY <1>8, <2>1, PutSame
    <3>2. WithBallots(d, d.ballots) = d
      BY <1>8, ElectionsSet DEF IsElections
    <3> QED BY <1>7, <2>1, <3>1, <3>2
  <2>2. CASE b \notin DOMAIN d.ballots
    <3>1. Elections!Put(d.ballots, b, <<>>) = Put(d.ballots, b, <<>>)
      BY DEF Elections!Put, Put
    <3>2. a(3).db = WithBallots(d, Put(d.ballots, b, <<>>))
      BY <1>7, <2>2, <3>1 DEF WithBallots
    <3> QED BY <3>2
  <2> QED BY <2>1, <2>2
<1>10. a(4).db = WithBallots(d, Put(d.ballots, b, <<>>))
  <2>1. PICK u : a(3).db = WithBallots(d, Put(d.ballots, b, u))
    BY <1>9
  <2> DEFINE next == [a(3).db EXCEPT !.ballots[b] = <<>>]
  <2>4. a(4) = [db |-> next, seen |-> a(3).seen, failure |-> "succeeds"]
    BY <1>2, Zenon DEF Elections!DeletePreferences, Elections!Ballot, Elections!Done, Elections!Succeeds
  <2>2. a(4).db = next
    <3> HIDE DEF next
    <3> QED BY <2>4
  <2>3. next = Balloted(a(3).db, b, <<>>)
    BY DEF Balloted
  <2> HIDE DEF next, b
  <2>5. Balloted(a(3).db, b, <<>>) = WithBallots(d, Put(d.ballots, b, <<>>))
    BY <1>8, <2>1, BallotSet
  <2> QED BY <2>2, <2>3, <2>5
<1>11. Partly(q, d, 0)
  <2>1. <<>> \in Seq(Nat) /\ Len(<<>>) = 0 /\ \A i \in 1..0 : <<>>[i] = q.ranking[i]
    OBVIOUS
  <2>2. Atomic!After(q, 4 + 0, d).db = WithBallots(d, Put(d.ballots, b, <<>>))
    BY <1>5, <1>10 DEF a
  <2> QED BY <2>1, <2>2 DEF Partly
<1> QED BY <1>4, <1>7, <1>11

LEMMA BallotGrows ==
  ASSUME Serves, NEW d, ElectionsOK(d), NEW q, q.app = "elections", q.op = "vote",
         q.ranking \in Seq(Nat), NEW k \in Nat, k < Len(q.ranking), Partly(q, d, k),
         Atomic!After(q, 4 + (k + 1), d).failure = Succeeds
  PROVE  Partly(q, d, k + 1)
<1> DEFINE b == <<q.election, q.subject>>
           n == 4 + (k + 1)
           e == Atomic!After(q, 4 + k, d)
           f == Atomic!After(q, n, d)
<1>1. n \in Nat \ {0} /\ n - 1 = 4 + k /\ k + 1 \in 1..Len(q.ranking)
  OBVIOUS
<1>2. Script(q)[n] = "insertPreference"
  BY <1>1, ScriptOfVote
<1>3. f = Elections!RunStatement(Script(q)[n], q, Atomic!After(q, n - 1, d).seen, Atomic!After(q, n - 1, d).db)
  BY <1>1, ElectionsBefore
<1>4. f = Elections!RunStatement("insertPreference", q, e.seen, e.db)
  BY <1>1, <1>2, <1>3
<1>5. PICK p \in Seq(Nat) :
        /\ Len(p) = k /\ \A i \in 1..k : p[i] = q.ranking[i]
        /\ e.db = WithBallots(d, Put(d.ballots, b, p))
  BY DEF Partly
<1>6. f.failure = Succeeds
  OBVIOUS
<1> HIDE DEF e, f, n
<1>7. f = Elections!InsertPreference(q, e.seen, e.db)
  BY <1>4 DEF Elections!RunStatement
<1>8. IsElections(d)
  BY DEF ElectionsOK, ElectionTypes
<1>9. e.db.ballots[b] = p
  <2> HIDE DEF b
  <2> QED BY <1>5, <1>8, BallotIs
<1> DEFINE r == Append(p, q.ranking[k + 1])
<1>10. f.db = [e.db EXCEPT !.ballots[b] = r]
  BY <1>5, <1>6, <1>7, <1>9 DEF Elections!InsertPreference, Elections!Ballot, Succeeds
<1>11. r \in Seq(Nat) /\ Len(r) = k + 1 /\ \A i \in 1..(k + 1) : r[i] = q.ranking[i]
  <2>1. q.ranking[k + 1] \in Nat
    BY <1>1
  <2> QED BY <1>5, <2>1
<1> HIDE DEF r
<1>12. f.db = WithBallots(d, Put(d.ballots, b, r))
  <2>1. f.db = Balloted(e.db, b, r)
    BY <1>10 DEF Balloted
  <2> HIDE DEF b
  <2>2. Balloted(e.db, b, r) = WithBallots(d, Put(d.ballots, b, r))
    BY <1>5, <1>8, BallotSet
  <2> QED BY <2>1, <2>2
<1> QED BY <1>11, <1>12 DEF Partly, f, n

LEMMA VotedWhole ==
  ASSUME Serves, NEW d, ElectionsOK(d), NEW q, q.app = "elections", q.op = "vote",
         q.ranking \in Seq(Nat), q.ranking # <<>>,
         Atomic!Whole(q, d).failure = Succeeds
  PROVE  LET e == Atomic!Whole(q, d).db
         IN  ElectionsOK(e) /\ ClosedStay(d, e)
<1> DEFINE m == Len(q.ranking)
           b == <<q.election, q.subject>>
           e == Atomic!Whole(q, d).db
<1>1. m \in Nat /\ Atomic!Whole(q, d) = Atomic!After(q, 4 + m, d)
  BY ScriptOfVote DEF Atomic!Whole
<1> HIDE DEF m
<1>2. \A k \in Nat : k <= m => Atomic!After(q, 4 + k, d).failure = Succeeds
  <2> TAKE k \in Nat
  <2> HAVE k <= m
  <2>1. 4 + k \in Nat /\ 4 + m \in Nat /\ 4 + k <= 4 + m
    BY <1>1
  <2> QED BY <1>1, <2>1, SucceededBefore
<1>3. /\ q.election \in DOMAIN d.elections /\ d.elections[q.election].status = "open"
      /\ Elections!Legal(q.ranking, Elections!CandidatesOf(d, q.election))
      /\ Partly(q, d, 0)
  <2>4. 0 \in Nat /\ 0 <= m /\ 4 + 0 = 4
    BY <1>1
  <2>1. Atomic!After(q, 4 + 0, d).failure = Succeeds /\ 4 + 0 = 4
    <3> HIDE DEF e
    <3> QED BY <1>2, <2>4
  <2>2. Atomic!After(q, 4, d).failure = Succeeds
    BY <2>1
  <2> QED BY <2>2, BallotFound
<1> DEFINE S == {k \in Nat : k <= m => Partly(q, d, k)}
<1>4. 0 \in S
  BY <1>3
<1>5. ASSUME NEW k \in Nat, k \in S PROVE k + 1 \in S
  <2>1. SUFFICES ASSUME k + 1 <= m PROVE Partly(q, d, k + 1)
    OBVIOUS
  <2>2. k < m /\ k <= m
    BY <1>1, <2>1
  <2>3. Partly(q, d, k)
    BY <1>5, <2>2
  <2>4. Atomic!After(q, 4 + (k + 1), d).failure = Succeeds
    BY <1>2, <2>1
  <2>5. k < Len(q.ranking)
    BY <2>2 DEF m
  <2> QED BY <2>3, <2>4, <2>5, BallotGrows
<1>6. Nat \subseteq S
  <2> HIDE DEF S
  <2> QED BY <1>4, <1>5, SetInduction
<1>7. Partly(q, d, m)
  BY <1>1, <1>6
<1>8. PICK p \in Seq(Nat) :
        /\ Len(p) = m /\ \A i \in 1..m : p[i] = q.ranking[i]
        /\ Atomic!After(q, 4 + m, d).db = WithBallots(d, Put(d.ballots, b, p))
  BY <1>7 DEF Partly
<1>9. p = q.ranking
  BY <1>8, SeqEqual DEF m
<1>10. e = WithBallots(d, Put(d.ballots, b, q.ranking))
  BY <1>1, <1>8, <1>9
<1> HIDE DEF e
<1>11. /\ IsElections(e) /\ e.elections = d.elections /\ e.candidates = d.candidates
       /\ e.ballots = Put(d.ballots, b, q.ranking)
  BY <1>10, SlateRows DEF ElectionsOK, ElectionTypes
<1>12. ElectionsOK(e) /\ ClosedStay(d, e)
  BY <1>3, <1>11, VotedKeeps
<1> QED BY <1>12 DEF e

\* Reading changes nothing; a result is a tally of what is read.
LEMMA ReadWhole ==
  ASSUME Serves, NEW d, NEW q, q.app = "elections",
         q.op \in {"slate", "myBallot", "result"}, Atomic!Whole(q, d).failure = Succeeds
  PROVE  /\ Atomic!Whole(q, d).db = d
         /\ q.op = "result" =>
              /\ q.election \in DOMAIN d.elections /\ d.elections[q.election].status = "closed"
              /\ Atomic!Whole(q, d).seen =
                   Elections!Tally(Elections!CandidatesOf(d, q.election), Elections!BallotsOf(d, q.election))
<1> DEFINE a(n) == Atomic!After(q, n, d)
<1>1. CASE q.op = "slate"
  <2>1. Script(q) = <<"getElection", "listCandidates">>
    BY <1>1, ScriptOfElections
  <2>2. Atomic!Whole(q, d) = Atomic!After(q, 2, d) /\ Script(q)[1] = "getElection" /\ Script(q)[2] = "listCandidates"
    BY <2>1 DEF Atomic!Whole
  <2> QED BY <1>1, <2>2, SlateRead
<1>2. CASE q.op = "myBallot"
  <2>1. Script(q) = <<"getElection", "readBallot", "listPreferences">>
    BY <1>2, ScriptOfElections
  <2>2. Atomic!Whole(q, d) = a(3) /\ Script(q)[1] = "getElection" /\ Script(q)[2] = "readBallot"
        /\ Script(q)[3] = "listPreferences"
    BY <2>1 DEF Atomic!Whole
  <2>3. a(3) = Elections!ListPreferences(q, a(2).db) /\ a(2).failure = Succeeds
    <3>1. 3 - 1 = 2
      OBVIOUS
    <3>2. a(3) = Elections!RunStatement("listPreferences", q, a(2).seen, a(2).db) /\ a(2).failure = Succeeds
      BY <2>2, <3>1, ElectionsBefore
    <3> QED BY <3>2 DEF Elections!RunStatement
  <2>4. a(2) = Elections!ReadBallot(q, a(1).seen, a(1).db) /\ a(1).failure = Succeeds
    <3>1. 2 - 1 = 1
      OBVIOUS
    <3>2. a(2) = Elections!RunStatement("readBallot", q, a(1).seen, a(1).db) /\ a(1).failure = Succeeds
      BY <2>2, <2>3, <3>1, ElectionsBefore
    <3> QED BY <3>2 DEF Elections!RunStatement
  <2>5. a(1).db = d
    BY <2>2, <2>4, ElectionRead
  <2> HIDE DEF a
  <2>6. a(2).db = d
    BY <2>4, <2>5 DEF Elections!ReadBallot
  <2>7. a(3).db = d
    BY <2>3, <2>6 DEF Elections!ListPreferences
  <2> QED BY <1>2, <2>2, <2>7 DEF a
<1>3. CASE q.op = "result"
  <2>1. Script(q) = <<"getElection", "listCandidates", "tally">>
    BY <1>3, ScriptOfElections
  <2>2. Atomic!Whole(q, d) = a(3) /\ Script(q)[1] = "getElection" /\ Script(q)[2] = "listCandidates"
        /\ Script(q)[3] = "tally"
    BY <2>1 DEF Atomic!Whole
  <2>3. a(3) = Elections!Count(q, a(2).seen, a(2).db) /\ a(2).failure = Succeeds /\ a(3).failure = Succeeds
    <3>1. 3 - 1 = 2
      OBVIOUS
    <3>2. a(3) = Elections!RunStatement("tally", q, a(2).seen, a(2).db) /\ a(2).failure = Succeeds
      BY <2>2, <3>1, ElectionsBefore
    <3> QED BY <2>2, <3>2 DEF Elections!RunStatement
  <2>4. /\ q.election \in DOMAIN d.elections /\ a(2).db = d /\ a(2).seen.election = d.elections[q.election]
        /\ a(2).seen.candidates = Elections!CandidatesOf(d, q.election)
    BY <2>2, <2>3, SlateRead
  <2> HIDE DEF a
  <2>5. a(3) = Elections!Count(q, a(2).seen, d)
    BY <2>3, <2>4
  <2> DEFINE t == Elections!Tally(a(2).seen.candidates, Elections!BallotsOf(d, q.election))
  <2>6. a(3).db = d /\ a(2).seen.election.status = "closed" /\ a(3).seen = t
    <3> DEFINE empty == \E b \in DOMAIN Elections!BallotsOf(d, q.election) : d.ballots[b] = <<>>
    <3>1. a(3) = IF a(2).seen.election.status # "closed" THEN Elections!Fails(d, "ElectionNotClosed")
                 ELSE IF empty THEN Elections!Fails(d, "SchemaError") ELSE Elections!Done(d, t)
      BY <2>5, Zenon DEF Elections!Count
    <3> HIDE DEF empty, t
    <3> QED BY <2>3, <3>1 DEF Succeeds
  <2> QED BY <1>3, <2>2, <2>4, <2>6 DEF a
<1> QED BY <1>1, <1>2, <1>3

\* A command of elections leaves whole ballots over their slates, and closed
\* elections as they are.
LEMMA ElectionsWhole ==
  ASSUME Serves, NEW d, ElectionsOK(d), NEW x, NEW q \in Elections!Payloads(x),
         Atomic!Whole(q, d).failure = Succeeds
  PROVE  LET e == Atomic!Whole(q, d).db
         IN  ElectionsOK(e) /\ ClosedStay(d, e)
<1>1. q.app = "elections"
  BY ElectionsRequest
<1>2. CASE q.op = "create" /\ q.subject \in DOMAIN TenantOf
  <2>1. Len(Script(q)) = 1
    BY <1>1, <1>2, ScriptOfElections
  <2> QED BY <1>1, <1>2, <2>1, CreatedWhole DEF Atomic!Whole
<1>3. CASE q.op = "addCandidate"
  <2>1. Len(Script(q)) = 6
    BY <1>1, <1>3, ScriptOfElections
  <2> QED BY <1>1, <1>3, <2>1, CandidateWhole DEF Atomic!Whole
<1>4. CASE q.op = "open"
  <2>1. Len(Script(q)) = 3
    BY <1>1, <1>4, ScriptOfElections
  <2> QED BY <1>1, <1>4, <2>1, OpenedWhole DEF Atomic!Whole
<1>5. CASE q.op = "close"
  <2>1. Len(Script(q)) = 2
    BY <1>1, <1>5, ScriptOfElections
  <2> QED BY <1>1, <1>5, <2>1, ClosedWhole DEF Atomic!Whole
<1>6. CASE q.op \in {"slate", "myBallot", "result"}
  <2>1. Atomic!Whole(q, d).db = d
    BY <1>1, <1>6, ReadWhole
  <2> QED BY <2>1 DEF ClosedStay, Stays
<1>7. CASE q.op = "vote" /\ q.ranking \in Seq(Nat) /\ q.ranking # <<>>
  BY <1>1, <1>7, VotedWhole
<1> QED BY <1>2, <1>3, <1>4, <1>5, <1>6, <1>7, ElectionsRequest

HIDE DEF Elections!Done, Elections!Fails, Elections!FailsWith, Elections!Succeeds

-----------------------------------------------------------------------------
(***************************************************************************)
(* Tally.  Ballots of a closed election, and the rounds of their count.    *)
(***************************************************************************)
Cast(B, C) ==
  /\ IsFiniteSet(C) /\ Cardinality(C) >= 2
  /\ IsFiniteSet(DOMAIN B)
  /\ \A b \in DOMAIN B : B[b] \in Seq(Nat) /\ B[b] # <<>> /\ \A i \in DOMAIN B[b] : B[b][i] \in C

\* Ballots that go to a candidate, that are active, and that prefer one to
\* another.
GoTo(B, c, R) == {b \in DOMAIN B : c \in Elections!Choices(B[b], R)}
ActiveOf(B, R) == {b \in DOMAIN B : Elections!Choices(B[b], R) # {}}
RanksAbove(s, c, x) == \E i \in DOMAIN s : s[i] = c /\ \A j \in 1..(i - 1) : s[j] # x
Preferring(B, c, x) == {b \in DOMAIN B : RanksAbove(B[b], c, x)}
Starting(B, c) == {b \in DOMAIN B : B[b][1] = c}

LEMMA ElectionsCard == \A S : Elections!Cardinality(S) = Cardinality(S)
BY Zenon DEF Elections!Cardinality, Cardinality

LEMMA CountsAre ==
  ASSUME NEW B
  PROVE  /\ \A c, R : Elections!Votes(B, c, R) = Cardinality(GoTo(B, c, R))
         /\ \A c, x : Elections!Prefer(B, c, x) = Cardinality(Preferring(B, c, x))
         /\ \A c : Elections!First(B, c) = Cardinality(Starting(B, c))
<1>1. \A c, R : Elections!Votes(B, c, R) = Cardinality(GoTo(B, c, R))
  BY ElectionsCard, Zenon DEF Elections!Votes, GoTo
<1>2. \A c, x : Elections!Prefer(B, c, x) = Cardinality(Preferring(B, c, x))
  BY ElectionsCard, Zenon DEF Elections!Prefer, Preferring, RanksAbove
<1>3. \A c : Elections!First(B, c) = Cardinality(Starting(B, c))
  BY ElectionsCard, Zenon DEF Elections!First, Starting
<1> QED BY <1>1, <1>2, <1>3

\* A ballot that ranks one of the remaining candidates chooses one of them.
LEMMA Chooses ==
  ASSUME NEW s \in Seq(Nat), NEW R, NEW i \in DOMAIN s, s[i] \in R
  PROVE  Elections!Choices(s, R) # {}
<1> DEFINE T == {k \in DOMAIN s : s[k] \in R}
<1>1. T \subseteq Nat /\ i \in T
  OBVIOUS
<1>2. PICK k \in T : \A j \in T : ~(j < k)
  <2> HIDE DEF T
  <2> QED BY <1>1, Least
<1>3. k \in DOMAIN s /\ s[k] \in R /\ \A j \in 1..(k - 1) : s[j] \notin R
  BY <1>2
<1>4. s[k] \in Elections!Choices(s, R)
  BY <1>3 DEF Elections!Choices
<1> QED BY <1>4

\* It chooses one, which it prefers to the others.
LEMMA ChoiceIs ==
  ASSUME NEW s \in Seq(Nat), NEW R, NEW c \in Elections!Choices(s, R)
  PROVE  /\ c \in R /\ \E i \in DOMAIN s : s[i] = c
         /\ \A x \in Elections!Choices(s, R) : x = c
         /\ \A x \in R \ {c} : RanksAbove(s, c, x) /\ ~RanksAbove(s, x, c)
<1>1. PICK i \in DOMAIN s : s[i] = c /\ s[i] \in R /\ \A j \in 1..(i - 1) : s[j] \notin R
  BY DEF Elections!Choices
<1>2. ASSUME NEW x \in Elections!Choices(s, R) PROVE x = c
  <2>1. PICK k \in DOMAIN s : s[k] = x /\ s[k] \in R /\ \A j \in 1..(k - 1) : s[j] \notin R
    BY DEF Elections!Choices
  <2>2. ~(k < i) /\ ~(i < k)
    BY <1>1, <2>1
  <2> QED BY <1>1, <2>1, <2>2
<1>3. ASSUME NEW x \in R \ {c} PROVE RanksAbove(s, c, x) /\ ~RanksAbove(s, x, c)
  <2>1. RanksAbove(s, c, x)
    BY <1>1 DEF RanksAbove
  <2>2. ASSUME RanksAbove(s, x, c) PROVE FALSE
    <3>1. PICK k \in DOMAIN s : s[k] = x /\ \A j \in 1..(k - 1) : s[j] # c
      BY <2>2 DEF RanksAbove
    <3>2. ~(k < i) /\ ~(i < k)
      BY <1>1, <3>1
    <3> QED BY <1>1, <3>1, <3>2
  <2> QED BY <2>1, <2>2
<1> QED BY <1>1, <1>2, <1>3

LEMMA FirstChoice ==
  ASSUME NEW s \in Seq(Nat), s # <<>>, NEW C, s[1] \in C
  PROVE  \A c : c \in Elections!Choices(s, C) <=> s[1] = c
<1>1. 1 \in DOMAIN s /\ 1..(1 - 1) = {}
  OBVIOUS
<1>2. s[1] \in Elections!Choices(s, C)
  BY <1>1 DEF Elections!Choices
<1> QED BY <1>2, ChoiceIs

\* The sets of ballots of a round.
LEMMA Piles ==
  ASSUME NEW B, NEW C, Cast(B, C), NEW R
  PROVE  /\ \A c : /\ IsFiniteSet(GoTo(B, c, R)) /\ GoTo(B, c, R) \subseteq ActiveOf(B, R)
                   /\ Cardinality(GoTo(B, c, R)) \in Nat
                   /\ GoTo(B, c, R) # {} => c \in R
         /\ \A c, x : c # x => GoTo(B, c, R) \cap GoTo(B, x, R) = {}
         /\ IsFiniteSet(ActiveOf(B, R)) /\ Cardinality(ActiveOf(B, R)) \in Nat
         /\ \A c, x : IsFiniteSet(Preferring(B, c, x)) /\ Cardinality(Preferring(B, c, x)) \in Nat
         /\ \A c : IsFiniteSet(Starting(B, c)) /\ Cardinality(Starting(B, c)) \in Nat
<1>1. \A T \in SUBSET DOMAIN B : IsFiniteSet(T) /\ Cardinality(T) \in Nat
  <2> DEFINE D == DOMAIN B
  <2>1. IsFiniteSet(D)
    BY DEF Cast
  <2> HIDE DEF D
  <2>2. \A T \in SUBSET D : IsFiniteSet(T) /\ Cardinality(T) \in Nat
    BY <2>1, FS_Subset, FS_CardinalityType
  <2> QED BY <2>2 DEF D
<1>2. \A b \in DOMAIN B : B[b] \in Seq(Nat)
  BY DEF Cast
<1>3. \A c : GoTo(B, c, R) \in SUBSET DOMAIN B /\ Starting(B, c) \in SUBSET DOMAIN B
  BY DEF GoTo, Starting
<1>4. ActiveOf(B, R) \in SUBSET DOMAIN B /\ \A c, x : Preferring(B, c, x) \in SUBSET DOMAIN B
  BY DEF ActiveOf, Preferring
<1>5. \A c : GoTo(B, c, R) \subseteq ActiveOf(B, R) /\ (GoTo(B, c, R) # {} => c \in R)
  BY <1>2, ChoiceIs DEF GoTo, ActiveOf
<1>6. \A c, x : c # x => GoTo(B, c, R) \cap GoTo(B, x, R) = {}
  BY <1>2, ChoiceIs DEF GoTo
<1> QED BY <1>1, <1>3, <1>4, <1>5, <1>6

\* Disjoint parts of a set.
LEMMA PartsOf ==
  ASSUME NEW A, IsFiniteSet(A), NEW S, NEW T, S \subseteq A, T \subseteq A, S \cap T = {}
  PROVE  /\ Cardinality(S) \in Nat /\ Cardinality(T) \in Nat /\ Cardinality(A) \in Nat
         /\ Cardinality(S) + Cardinality(T) <= Cardinality(A)
         /\ A \subseteq S \cup T => Cardinality(S) + Cardinality(T) = Cardinality(A)
<1>1. IsFiniteSet(S) /\ IsFiniteSet(T) /\ S \cup T \in SUBSET A
  BY FS_Subset
<1>2. Cardinality(S) \in Nat /\ Cardinality(T) \in Nat /\ Cardinality(A) \in Nat
  BY <1>1, FS_CardinalityType
<1>3. Cardinality(S \cup T) = Cardinality(S) + Cardinality(T) - Cardinality({})
  BY <1>1, FS_Union
<1>4. Cardinality({}) = 0
  BY FS_EmptySet
<1>5. Cardinality(S \cup T) <= Cardinality(A)
  BY <1>1, FS_Subset
<1>6. A \subseteq S \cup T => A = S \cup T
  OBVIOUS
<1>7. Cardinality(S \cup T) = Cardinality(S) + Cardinality(T)
  BY <1>2, <1>3, <1>4
<1>8. Cardinality(S) + Cardinality(T) <= Cardinality(A)
  BY <1>5, <1>7
<1>9. A \subseteq S \cup T => Cardinality(S) + Cardinality(T) = Cardinality(A)
  BY <1>6, <1>7
<1> QED BY <1>2, <1>8, <1>9

\* A round: the votes of its candidates, who wins it, who is last.
VotesIn(B, R) == [c \in R |-> Elections!Votes(B, c, R)]
WinnersOf(B, R) == {c \in R : 2 * Cardinality(GoTo(B, c, R)) > Cardinality(ActiveOf(B, R))}
LastOf(B, R) == Elections!Fewest(VotesIn(B, R))

\* it counts the rounds from each of the sets of D.
IsCount(B, D, it) ==
  it = [remaining \in D |->
          LET votes == [c \in remaining |-> Elections!Votes(B, c, remaining)]
              active == Elections!Cardinality({b \in DOMAIN B :
                          Elections!Choices(B[b], remaining) # {}})
              winners == {c \in remaining : 2 * votes[c] > active}
          IN  IF active = 0 THEN Elections!Outcome("noVotes", {}, {})
              ELSE IF winners # {} THEN Elections!Outcome("winner", winners, {})
              ELSE IF Elections!Cardinality(Elections!Fewest(votes)) > 1
              THEN Elections!Outcome("tie", {}, Elections!Fewest(votes))
              ELSE it[remaining \ Elections!Fewest(votes)]]

GoesOn(B, R) ==
  /\ Cardinality(ActiveOf(B, R)) # 0
  /\ WinnersOf(B, R) = {}
  /\ ~(Cardinality(LastOf(B, R)) > 1)

Ends(B, R) ==
  IF Cardinality(ActiveOf(B, R)) = 0 THEN Elections!Outcome("noVotes", {}, {})
  ELSE IF WinnersOf(B, R) # {} THEN Elections!Outcome("winner", WinnersOf(B, R), {})
  ELSE Elections!Outcome("tie", {}, LastOf(B, R))

LEMMA RoundIs ==
  ASSUME NEW B, NEW D, NEW it
  PROVE  IsCount(B, D, it) <=>
           it = [R \in D |-> IF GoesOn(B, R) THEN it[R \ LastOf(B, R)] ELSE Ends(B, R)]
<1> DEFINE Body(R) ==
             LET votes == [c \in R |-> Elections!Votes(B, c, R)]
                 active == Elections!Cardinality({b \in DOMAIN B : Elections!Choices(B[b], R) # {}})
                 winners == {c \in R : 2 * votes[c] > active}
             IN  IF active = 0 THEN Elections!Outcome("noVotes", {}, {})
                 ELSE IF winners # {} THEN Elections!Outcome("winner", winners, {})
                 ELSE IF Elections!Cardinality(Elections!Fewest(votes)) > 1
                 THEN Elections!Outcome("tie", {}, Elections!Fewest(votes))
                 ELSE it[R \ Elections!Fewest(votes)]
           Plain(R) == IF GoesOn(B, R) THEN it[R \ LastOf(B, R)] ELSE Ends(B, R)
<1>1. ASSUME NEW R PROVE Body(R) = Plain(R)
  <2> DEFINE active == Elections!Cardinality({b \in DOMAIN B : Elections!Choices(B[b], R) # {}})
             winners == {c \in R : 2 * VotesIn(B, R)[c] > active}
  <2>1. active = Cardinality(ActiveOf(B, R))
    BY ElectionsCard DEF ActiveOf
  <2>2. \A c \in R : VotesIn(B, R)[c] = Cardinality(GoTo(B, c, R))
    BY CountsAre DEF VotesIn
  <2>3. winners = WinnersOf(B, R)
    BY <2>1, <2>2 DEF WinnersOf
  <2>4. Elections!Cardinality(LastOf(B, R)) = Cardinality(LastOf(B, R))
    BY ElectionsCard
  <2>5. Body(R) = IF active = 0 THEN Elections!Outcome("noVotes", {}, {})
                  ELSE IF winners # {} THEN Elections!Outcome("winner", winners, {})
                  ELSE IF Elections!Cardinality(LastOf(B, R)) > 1
                  THEN Elections!Outcome("tie", {}, LastOf(B, R))
                  ELSE it[R \ LastOf(B, R)]
    BY Zenon DEF LastOf, VotesIn
  <2> HIDE DEF Body, active, winners
  <2> QED BY <2>1, <2>3, <2>4, <2>5 DEF GoesOn, Ends
<1>2. IsCount(B, D, it) <=> it = [R \in D |-> Body(R)]
  BY Zenon DEF IsCount
<1> HIDE DEF Body
<1>3. [R \in D |-> Body(R)] = [R \in D |-> Plain(R)]
  BY <1>1
<1> QED BY <1>2, <1>3

\* Somebody is last.
LEMMA LastIs ==
  ASSUME NEW B, NEW C, Cast(B, C), NEW R \in SUBSET C
  PROVE  /\ LastOf(B, R) \subseteq R
         /\ R # {} => LastOf(B, R) # {}
         /\ \A f \in LastOf(B, R) : \A c \in R : Cardinality(GoTo(B, f, R)) <= Cardinality(GoTo(B, c, R))
         /\ \A c \in R \ LastOf(B, R) : \E x \in R : ~(Cardinality(GoTo(B, c, R)) <= Cardinality(GoTo(B, x, R)))
<1> DEFINE v(c) == Cardinality(GoTo(B, c, R))
<1>1. LastOf(B, R) = {c \in R : \A x \in R : v(c) <= v(x)}
  BY CountsAre DEF LastOf, Elections!Fewest, VotesIn
<1>2. \A c : v(c) \in Nat
  BY Piles
<1> HIDE DEF v
<1>3. ASSUME R # {} PROVE LastOf(B, R) # {}
  <2> DEFINE T == {v(c) : c \in R}
  <2>1. T \subseteq Nat /\ T # {}
    BY <1>2, <1>3
  <2>2. PICK n \in T : \A m \in T : ~(m < n)
    <3> HIDE DEF T
    <3> QED BY <2>1, Least
  <2>3. PICK c \in R : n = v(c)
    BY <2>2
  <2>4. \A x \in R : v(c) <= v(x)
    BY <1>2, <2>2, <2>3
  <2> QED BY <1>1, <2>4
<1> QED BY <1>1, <1>3 DEF v

\* A round that goes on has one candidate that is behind every other.
LEMMA Behind ==
  ASSUME NEW B, NEW C, Cast(B, C), NEW R \in SUBSET C, GoesOn(B, R)
  PROVE  \E f \in R : /\ LastOf(B, R) = {f}
                      /\ \A c \in R \ {f} : Cardinality(GoTo(B, f, R)) < Cardinality(GoTo(B, c, R))
<1>1. IsFiniteSet(LastOf(B, R))
  <2>1. LastOf(B, R) \in SUBSET C /\ IsFiniteSet(C)
    BY LastIs DEF Cast
  <2> QED BY <2>1, FS_Subset
<1>2. R # {}
  <2>1. ActiveOf(B, R) # {}
    BY FS_EmptySet DEF GoesOn
  <2>2. PICK b \in DOMAIN B : Elections!Choices(B[b], R) # {}
    BY <2>1 DEF ActiveOf
  <2>3. B[b] \in Seq(Nat)
    BY DEF Cast
  <2> QED BY <2>2, <2>3, ChoiceIs
<1>3. Cardinality(LastOf(B, R)) = 1
  <2>1. Cardinality(LastOf(B, R)) \in Nat /\ Cardinality(LastOf(B, R)) # 0
    BY <1>1, <1>2, LastIs, FS_CardinalityType, FS_EmptySet
  <2> QED BY <2>1 DEF GoesOn
<1>4. PICK f : LastOf(B, R) = {f}
  BY <1>1, <1>3, FS_Singleton
<1>5. f \in R
  BY <1>4, LastIs
<1>6. ASSUME NEW c \in R \ {f} PROVE Cardinality(GoTo(B, f, R)) < Cardinality(GoTo(B, c, R))
  <2>1. PICK x \in R : ~(Cardinality(GoTo(B, c, R)) <= Cardinality(GoTo(B, x, R)))
    BY <1>4, <1>6, LastIs
  <2>2. Cardinality(GoTo(B, f, R)) <= Cardinality(GoTo(B, x, R))
    BY <1>4, LastIs
  <2>3. /\ Cardinality(GoTo(B, f, R)) \in Nat /\ Cardinality(GoTo(B, x, R)) \in Nat
        /\ Cardinality(GoTo(B, c, R)) \in Nat
    BY Piles
  <2> QED BY <2>1, <2>2, <2>3
<1> QED BY <1>4, <1>5, <1>6

\* The rounds have a count.
LEMMA CountExists ==
  ASSUME NEW B, NEW C, Cast(B, C)
  PROVE  \E it : IsCount(B, SUBSET C, it)
<1> DEFINE Small(n) == {s \in SUBSET C : Cardinality(s) <= n}
           K == {n \in Nat : \E it : IsCount(B, Small(n), it)}
<1>0. \A s \in SUBSET C : IsFiniteSet(s) /\ Cardinality(s) \in Nat
  BY FS_Subset, FS_CardinalityType DEF Cast
<1>a. ASSUME NEW s \in SUBSET C, GoesOn(B, s)
      PROVE  s # {} /\ \A n \in Nat : s \in Small(n + 1) => s \ LastOf(B, s) \in Small(n)
  <2>1. PICK f \in s : LastOf(B, s) = {f}
    BY <1>a, Behind
  <2>2. Cardinality(s \ {f}) \in Nat /\ Cardinality(s) = Cardinality(s \ {f}) + 1
    BY <1>0, SmallerBy
  <2>3. s \ {f} \in SUBSET C
    OBVIOUS
  <2> QED BY <1>0, <2>1, <2>2, <2>3
<1>1. 0 \in K
  <2>1. \A s \in Small(0) : s = {}
    BY <1>0, FS_EmptySet
  <2>2. \A s \in Small(0) : ~GoesOn(B, s)
    BY <1>a, <2>1
  <2>3. IsCount(B, Small(0), [s \in Small(0) |-> Ends(B, s)])
    <3> HIDE DEF Small
    <3> QED BY <2>2, RoundIs
  <2> QED BY <2>3
<1>2. ASSUME NEW n \in Nat, n \in K PROVE n + 1 \in K
  <2>1. PICK it : IsCount(B, Small(n), it)
    BY <1>2
  <2> DEFINE more == [s \in Small(n + 1) |->
                        IF s \in Small(n) THEN it[s]
                        ELSE IF GoesOn(B, s) THEN it[s \ LastOf(B, s)] ELSE Ends(B, s)]
  <2>2. \A s \in Small(n) : s \in Small(n + 1)
    BY <1>0
  <2>3. \A s \in Small(n + 1) : GoesOn(B, s) => s \ LastOf(B, s) \in Small(n)
    BY <1>a
  <2> HIDE DEF Small
  <2>4. \A s \in Small(n) : it[s] = IF GoesOn(B, s) THEN it[s \ LastOf(B, s)] ELSE Ends(B, s)
    BY <2>1, RoundIs
  <2>5. ASSUME NEW s \in Small(n + 1)
        PROVE  more[s] = IF GoesOn(B, s) THEN more[s \ LastOf(B, s)] ELSE Ends(B, s)
    <3>1. GoesOn(B, s) => more[s \ LastOf(B, s)] = it[s \ LastOf(B, s)]
      BY <2>2, <2>3
    <3> QED BY <2>4, <3>1
  <2>6. IsCount(B, Small(n + 1), more)
    <3>1. more = [s \in Small(n + 1) |-> IF GoesOn(B, s) THEN more[s \ LastOf(B, s)] ELSE Ends(B, s)]
      BY <2>5
    <3> HIDE DEF more
    <3> QED BY <3>1, RoundIs
  <2> QED BY <2>6
<1>3. Nat \subseteq K
  <2> HIDE DEF K
  <2> QED BY <1>1, <1>2, SetInduction
<1>4. Small(Cardinality(C)) = SUBSET C
  BY <1>0, FS_Subset, FS_CardinalityType DEF Cast
<1>5. Cardinality(C) \in K
  BY <1>0, <1>3
<1> QED BY <1>4, <1>5

LEMMA TallyIs ==
  ASSUME NEW B, NEW C, Cast(B, C)
  PROVE  \E it : IsCount(B, SUBSET C, it) /\ Elections!TallyRounds(C, B) = it[C]
<1>1. \E it : IsCount(B, SUBSET C, it)
  BY CountExists
<1>2. IsCount(B, SUBSET C, CHOOSE it : IsCount(B, SUBSET C, it))
  BY <1>1
<1>3. Elections!TallyRounds(C, B) = (CHOOSE it : IsCount(B, SUBSET C, it))[C]
  BY Zenon DEF Elections!TallyRounds, IsCount
<1> QED BY <1>2, <1>3

\* Two of a set of two.
LEMMA TwoAtLeast ==
  ASSUME NEW R, IsFiniteSet(R), Cardinality(R) >= 2, NEW w
  PROVE  \E x \in R : x # w
<1>1. SUFFICES ASSUME R \subseteq {w} PROVE FALSE
  OBVIOUS
<1>2. IsFiniteSet({w}) /\ Cardinality({w}) = 1
  BY FS_Singleton
<1>3. Cardinality(R) <= 1
  BY <1>1, <1>2, FS_Subset
<1>4. Cardinality(R) \in Nat
  BY FS_CardinalityType
<1> QED BY <1>3, <1>4

\* First choices of more than half of all ballots.
MajorityOf(B, C) == {c \in C : 2 * Cardinality(Starting(B, c)) > Cardinality(DOMAIN B)}

\* What holds in every round: two candidates at least, some active ballot, and
\* after the first round no majority and nobody without a first choice.
Kept(B, C, R) ==
  /\ R \in SUBSET C
  /\ Cardinality(R) >= 2
  /\ ActiveOf(B, R) # {}
  /\ R # C => MajorityOf(B, C) = {} /\ \A c \in R : Starting(B, c) # {}

LEMMA FirstRound ==
  ASSUME NEW B, NEW C, Cast(B, C)
  PROVE  /\ ActiveOf(B, C) = DOMAIN B
         /\ \A c : GoTo(B, c, C) = Starting(B, c)
         /\ MajorityOf(B, C) = WinnersOf(B, C)
         /\ DOMAIN B # {} => Kept(B, C, C)
<1>1. \A b \in DOMAIN B : /\ B[b] \in Seq(Nat) /\ B[b] # <<>> /\ 1 \in DOMAIN B[b] /\ B[b][1] \in C
  <2> TAKE b \in DOMAIN B
  <2>1. B[b] \in Seq(Nat) /\ B[b] # <<>> /\ \A i \in DOMAIN B[b] : B[b][i] \in C
    BY DEF Cast
  <2>2. 1 \in DOMAIN B[b]
    BY <2>1
  <2> QED BY <2>1, <2>2
<1>2. ActiveOf(B, C) = DOMAIN B
  BY <1>1, Chooses DEF ActiveOf
<1>3. \A c : GoTo(B, c, C) = Starting(B, c)
  BY <1>1, FirstChoice DEF GoTo, Starting
<1>4. MajorityOf(B, C) = WinnersOf(B, C)
  BY <1>2, <1>3 DEF MajorityOf, WinnersOf
<1>5. DOMAIN B # {} => Kept(B, C, C)
  BY <1>2 DEF Kept, Cast
<1> QED BY <1>2, <1>3, <1>4, <1>5

LEMMA KeptOn ==
  ASSUME NEW B, NEW C, Cast(B, C), NEW R, Kept(B, C, R), GoesOn(B, R)
  PROVE  /\ Kept(B, C, R \ LastOf(B, R))
         /\ Cardinality(R) = Cardinality(R \ LastOf(B, R)) + 1
<1>1. R \in SUBSET C /\ IsFiniteSet(R) /\ Cardinality(R) \in Nat /\ Cardinality(R) >= 2
  BY FS_Subset, FS_CardinalityType DEF Kept, Cast
<1>2. PICK f \in R : /\ LastOf(B, R) = {f}
                     /\ \A c \in R \ {f} : Cardinality(GoTo(B, f, R)) < Cardinality(GoTo(B, c, R))
  BY <1>1, Behind
<1> DEFINE Rest == R \ {f}
<1>3. /\ IsFiniteSet(Rest) /\ Cardinality(Rest) \in Nat /\ Cardinality(R) = Cardinality(Rest) + 1
  BY <1>1, SmallerBy
<1>4. \A c : /\ Cardinality(GoTo(B, c, R)) \in Nat /\ IsFiniteSet(GoTo(B, c, R))
             /\ GoTo(B, c, R) \subseteq ActiveOf(B, R)
             /\ GoTo(B, c, R) # {} => c \in R
  BY Piles
<1>5. \A c \in Rest : GoTo(B, c, R) # {}
  <2> SUFFICES ASSUME NEW c \in Rest, GoTo(B, c, R) = {} PROVE FALSE
    OBVIOUS
  <2>1. Cardinality(GoTo(B, c, R)) = 0
    BY FS_EmptySet
  <2>2. Cardinality(GoTo(B, f, R)) < Cardinality(GoTo(B, c, R))
    BY <1>2
  <2> QED BY <1>4, <2>1, <2>2
<1>6. PICK d \in R : d # f
  BY <1>1, TwoAtLeast
<1>7. ActiveOf(B, Rest) # {}
  <2>1. PICK b \in DOMAIN B : d \in Elections!Choices(B[b], R)
    BY <1>5, <1>6 DEF GoTo
  <2>2. B[b] \in Seq(Nat)
    BY DEF Cast
  <2>3. PICK i \in DOMAIN B[b] : B[b][i] = d
    BY <2>1, <2>2, ChoiceIs
  <2>4. B[b][i] \in Rest
    BY <1>6, <2>3
  <2>5. Elections!Choices(B[b], Rest) # {}
    <3> HIDE DEF Rest
    <3> QED BY <2>2, <2>4, Chooses
  <2> QED BY <2>5 DEF ActiveOf
<1>8. Cardinality(Rest) # 1
  <2> SUFFICES ASSUME Cardinality(Rest) = 1 PROVE FALSE
    OBVIOUS
  <2>1. Rest = {d}
    <3>1. PICK x : Rest = {x}
      BY <1>3, FS_Singleton
    <3> QED BY <1>6, <3>1
  <2>2. ActiveOf(B, R) \subseteq GoTo(B, d, R) \cup GoTo(B, f, R)
    <3> SUFFICES ASSUME NEW b \in ActiveOf(B, R) PROVE b \in GoTo(B, d, R) \cup GoTo(B, f, R)
      OBVIOUS
    <3>1. PICK c : c \in Elections!Choices(B[b], R)
      BY DEF ActiveOf
    <3>2. b \in DOMAIN B /\ B[b] \in Seq(Nat)
      BY DEF ActiveOf, Cast
    <3>3. c \in R
      BY <3>1, <3>2, ChoiceIs
    <3>4. c = d \/ c = f
      BY <2>1, <3>3
    <3> QED BY <3>1, <3>2, <3>4 DEF GoTo
  <2>3. GoTo(B, d, R) \cap GoTo(B, f, R) = {} /\ IsFiniteSet(ActiveOf(B, R))
    BY <1>6, Piles
  <2>4. Cardinality(GoTo(B, d, R)) + Cardinality(GoTo(B, f, R)) = Cardinality(ActiveOf(B, R))
    BY <1>4, <2>2, <2>3, PartsOf
  <2>5. Cardinality(GoTo(B, f, R)) < Cardinality(GoTo(B, d, R))
    BY <1>2, <1>6
  <2>6. 2 * Cardinality(GoTo(B, d, R)) > Cardinality(ActiveOf(B, R))
    <3>1. Cardinality(GoTo(B, d, R)) \in Nat /\ Cardinality(GoTo(B, f, R)) \in Nat
      BY <1>4
    <3> QED BY <2>4, <2>5, <3>1
  <2> QED BY <2>6 DEF GoesOn, WinnersOf
<1>9. Cardinality(Rest) >= 2
  BY <1>1, <1>3, <1>8
<1>10. MajorityOf(B, C) = {} /\ \A c \in Rest : Starting(B, c) # {}
  <2>1. CASE R = C
    BY <1>5, <2>1, FirstRound DEF GoesOn
  <2>2. CASE R # C
    BY <2>2 DEF Kept
  <2> QED BY <2>1, <2>2
<1>11. Kept(B, C, Rest)
  BY <1>1, <1>7, <1>9, <1>10 DEF Kept
<1> QED BY <1>2, <1>3, <1>11

\* Who may win, in terms of the sets of ballots.
MayWin(B, C, winner) ==
  /\ MajorityOf(B, C) \subseteq winner
  /\ \E w \in C : /\ winner = {w} /\ Cardinality(Starting(B, w)) > 0
                  /\ \E x \in C \ {w} : Cardinality(Preferring(B, w, x)) > Cardinality(Preferring(B, x, w))

LEMMA DefensibleIs ==
  ASSUME NEW B, NEW C, NEW winner, NEW tied
  PROVE  /\ DOMAIN B = {} => Elections!Defensible(Elections!Outcome("noVotes", {}, {}), C, B)
         /\ MajorityOf(B, C) = {} /\ Cardinality(tied) > 1 =>
              Elections!Defensible(Elections!Outcome("tie", {}, tied), C, B)
         /\ MayWin(B, C, winner) => Elections!Defensible(Elections!Outcome("winner", winner, {}), C, B)
<1>1. {c \in C : 2 * Elections!First(B, c) > Elections!Cardinality(DOMAIN B)} = MajorityOf(B, C)
  BY CountsAre, ElectionsCard DEF MajorityOf
<1>2. DOMAIN B = {} => Elections!Defensible(Elections!Outcome("noVotes", {}, {}), C, B)
  BY DEF Elections!Defensible, Elections!Outcome
<1>3. MajorityOf(B, C) = {} /\ Cardinality(tied) > 1 =>
        Elections!Defensible(Elections!Outcome("tie", {}, tied), C, B)
  BY <1>1, ElectionsCard DEF Elections!Defensible, Elections!Outcome
<1>4. MayWin(B, C, winner) => Elections!Defensible(Elections!Outcome("winner", winner, {}), C, B)
  BY <1>1, CountsAre DEF Elections!Defensible, Elections!Outcome, MayWin
<1> QED BY <1>2, <1>3, <1>4

\* Who has more than half of a round's active ballots beats another of its
\* candidates head to head.
LEMMA WinnerBeats ==
  ASSUME NEW B, NEW C, Cast(B, C), NEW R, NEW w \in WinnersOf(B, R), NEW x \in R, x # w
  PROVE  Cardinality(Preferring(B, w, x)) > Cardinality(Preferring(B, x, w))
<1> DEFINE W == GoTo(B, w, R)
           A == ActiveOf(B, R)
           P == Preferring(B, w, x)
           Q == Preferring(B, x, w)
<1>1. IsFiniteSet(A) /\ IsFiniteSet(P) /\ W \subseteq A /\ 2 * Cardinality(W) > Cardinality(A)
  BY Piles DEF WinnersOf
<1>2. \A b \in DOMAIN B : B[b] \in Seq(Nat)
  BY DEF Cast
<1>3. W \subseteq P
  BY <1>2, ChoiceIs DEF GoTo, Preferring
<1>4. W \cap Q = {}
  BY <1>2, ChoiceIs DEF GoTo, Preferring
<1>5. Q \subseteq A
  <2> SUFFICES ASSUME NEW b \in Q PROVE b \in A
    OBVIOUS
  <2>1. b \in DOMAIN B /\ B[b] \in Seq(Nat) /\ RanksAbove(B[b], x, w)
    BY <1>2 DEF Preferring
  <2>2. PICK i \in DOMAIN B[b] : B[b][i] = x
    BY <2>1 DEF RanksAbove
  <2> QED BY <2>1, <2>2, Chooses DEF ActiveOf
<1> HIDE DEF W, A, P, Q
<1>6. Cardinality(W) \in Nat /\ Cardinality(Q) \in Nat /\ Cardinality(A) \in Nat
      /\ Cardinality(W) + Cardinality(Q) <= Cardinality(A)
  BY <1>1, <1>4, <1>5, PartsOf
<1>7. Cardinality(W) <= Cardinality(P) /\ Cardinality(P) \in Nat
  BY <1>1, <1>3, FS_Subset, FS_CardinalityType
<1>8. Cardinality(P) > Cardinality(Q)
  BY <1>1, <1>6, <1>7
<1> QED BY <1>8 DEF P, Q

\* A round that ends, ends with a result that may be defended.
LEMMA EndsWell ==
  ASSUME NEW B, NEW C, Cast(B, C), NEW R, Kept(B, C, R), ~GoesOn(B, R)
  PROVE  Elections!Defensible(Ends(B, R), C, B)
<1>1. Cardinality(ActiveOf(B, R)) \in Nat /\ Cardinality(ActiveOf(B, R)) # 0
  BY Piles, FS_EmptySet DEF Kept
<1>2. CASE WinnersOf(B, R) # {}
  <2>1. PICK w \in R : w \in WinnersOf(B, R)
    BY <1>2 DEF WinnersOf
  <2>2. w \in C /\ R \in SUBSET C /\ IsFiniteSet(R)
    BY FS_Subset DEF Kept, Cast
  <2>3. ASSUME NEW x \in WinnersOf(B, R) PROVE x = w
    <3> SUFFICES ASSUME x # w PROVE FALSE
      OBVIOUS
    <3> DEFINE A == ActiveOf(B, R)
               X == GoTo(B, x, R)
               W == GoTo(B, w, R)
    <3>1. /\ IsFiniteSet(A) /\ X \subseteq A /\ W \subseteq A /\ X \cap W = {}
          /\ 2 * Cardinality(X) > Cardinality(A) /\ 2 * Cardinality(W) > Cardinality(A)
      BY <2>1, Piles DEF WinnersOf
    <3> HIDE DEF A, X, W
    <3>2. /\ Cardinality(X) \in Nat /\ Cardinality(W) \in Nat /\ Cardinality(A) \in Nat
          /\ Cardinality(X) + Cardinality(W) <= Cardinality(A)
      BY <3>1, PartsOf
    <3> QED BY <3>1, <3>2
  <2>4. WinnersOf(B, R) = {w}
    BY <2>1, <2>3
  <2>5. Starting(B, w) # {}
    <3>1. CASE R = C
      <4>1. GoTo(B, w, R) = Starting(B, w)
        BY <3>1, FirstRound
      <4>2. 2 * Cardinality(GoTo(B, w, R)) > Cardinality(ActiveOf(B, R))
        BY <2>1 DEF WinnersOf
      <4>3. Cardinality(GoTo(B, w, R)) # 0
        BY <1>1, <4>2
      <4> QED BY <4>1, <4>3, FS_EmptySet
    <3>2. CASE R # C
      BY <3>2 DEF Kept
    <3> QED BY <3>1, <3>2
  <2>6. Cardinality(Starting(B, w)) > 0
    <3>1. IsFiniteSet(Starting(B, w)) /\ Cardinality(Starting(B, w)) \in Nat
      BY Piles
    <3> QED BY <2>5, <3>1, FS_EmptySet
  <2>7. MajorityOf(B, C) \subseteq {w}
    BY <2>4, FirstRound DEF Kept
  <2>8. PICK x \in R : x # w
    <3>1. Cardinality(R) >= 2
      BY DEF Kept
    <3> QED BY <2>2, <3>1, TwoAtLeast
  <2>9. x \in C \ {w} /\ Cardinality(Preferring(B, w, x)) > Cardinality(Preferring(B, x, w))
    BY <2>1, <2>2, <2>8, WinnerBeats
  <2>10. MayWin(B, C, {w})
    BY <2>2, <2>6, <2>7, <2>9 DEF MayWin
  <2>11. Ends(B, R) = Elections!Outcome("winner", {w}, {})
    BY <1>1, <2>4 DEF Ends
  <2> QED BY <2>10, <2>11, DefensibleIs
<1>3. CASE WinnersOf(B, R) = {}
  <2>1. Cardinality(LastOf(B, R)) > 1
    BY <1>1, <1>3 DEF GoesOn
  <2>2. MajorityOf(B, C) = {}
    BY <1>3, FirstRound DEF Kept
  <2>3. Ends(B, R) = Elections!Outcome("tie", {}, LastOf(B, R))
    BY <1>1, <1>3 DEF Ends
  <2> QED BY <2>1, <2>2, <2>3, DefensibleIs
<1> QED BY <1>2, <1>3

\* Every tally of whole ballots over a slate of two may be defended.
LEMMA TallyDefended ==
  ASSUME NEW B, NEW C, Cast(B, C)
  PROVE  Elections!Defensible(Elections!Tally(C, B), C, B)
<1>1. CASE DOMAIN B = {}
  BY <1>1, DefensibleIs DEF Elections!Tally
<1>2. CASE DOMAIN B # {}
  <2>1. PICK it : IsCount(B, SUBSET C, it) /\ Elections!TallyRounds(C, B) = it[C]
    BY TallyIs
  <2>2. \A R \in SUBSET C : it[R] = IF GoesOn(B, R) THEN it[R \ LastOf(B, R)] ELSE Ends(B, R)
    BY <2>1, RoundIs
  <2> DEFINE Well(R) == Elections!Defensible(it[R], C, B)
             K == {n \in Nat : \A R \in SUBSET C : Kept(B, C, R) /\ Cardinality(R) = n => Well(R)}
  <2>3. \A R \in SUBSET C : Cardinality(R) \in Nat
    BY FS_Subset, FS_CardinalityType DEF Cast
  <2>4. 0 \in K
    BY DEF Kept
  <2>5. ASSUME NEW n \in Nat, n \in K PROVE n + 1 \in K
    <3> SUFFICES ASSUME NEW R \in SUBSET C, Kept(B, C, R), Cardinality(R) = n + 1 PROVE Well(R)
      OBVIOUS
    <3>1. CASE GoesOn(B, R)
      <4> DEFINE Rest == R \ LastOf(B, R)
      <4>1. Kept(B, C, Rest) /\ Rest \in SUBSET C /\ Cardinality(R) = Cardinality(Rest) + 1
        BY <3>1, KeptOn
      <4>2. Cardinality(Rest) = n
        <5> HIDE DEF Rest
        <5>1. Cardinality(Rest) \in Nat
          BY <2>3, <4>1
        <5> QED BY <4>1, <5>1
      <4>3. Well(Rest)
        <5> HIDE DEF Rest, Well
        <5> QED BY <2>5, <4>1, <4>2
      <4>4. it[R] = it[Rest]
        BY <2>2, <3>1
      <4> QED BY <4>3, <4>4
    <3>2. CASE ~GoesOn(B, R)
      <4>1. it[R] = Ends(B, R)
        BY <2>2, <3>2
      <4>2. Elections!Defensible(Ends(B, R), C, B)
        BY <3>2, EndsWell
      <4> QED BY <4>1, <4>2
    <3> QED BY <3>1, <3>2
  <2>6. Nat \subseteq K
    <3> HIDE DEF K
    <3> QED BY <2>4, <2>5, SetInduction
  <2>7. Kept(B, C, C) /\ C \in SUBSET C
    BY <1>2, FirstRound
  <2>8. Well(C)
    <3> HIDE DEF Well
    <3> QED BY <2>3, <2>6, <2>7
  <2>9. Elections!Tally(C, B) = it[C]
    BY <1>2, <2>1 DEF Elections!Tally
  <2> QED BY <2>8, <2>9
<1> QED BY <1>1, <1>2

\* The ballots of an election are whole ones over its slate.
LEMMA BallotsCast ==
  ASSUME NEW d, ElectionsOK(d), NEW x \in DOMAIN d.elections, d.elections[x].status = "closed"
  PROVE  Cast(Elections!BallotsOf(d, x), Elections!CandidatesOf(d, x))
<1> DEFINE B == Elections!BallotsOf(d, x)
           C == Elections!CandidatesOf(d, x)
<1>1. SlateOK(d, x) /\ IsBallots(d, d.ballots) /\ d.candidates \in Seq(DOMAIN d.elections)
  BY DEF ElectionsOK, ElectionTypes
<1>2. Cardinality(C) >= 2
  BY <1>1, ElectionsCard DEF SlateOK
<1>3. IsFiniteSet(C)
  <2>1. C \in SUBSET (1..Len(d.candidates)) /\ Len(d.candidates) \in Nat
    BY <1>1 DEF Elections!CandidatesOf
  <2>2. IsFiniteSet(1..Len(d.candidates))
    BY <2>1, FS_Interval
  <2> QED BY <2>1, <2>2, FS_Subset
<1>4. /\ DOMAIN B \in SUBSET DOMAIN d.ballots
      /\ \A b \in DOMAIN B : B[b] = d.ballots[b] /\ b[1] = x
  BY DEF Elections!BallotsOf
<1>5. IsFiniteSet(DOMAIN B)
  <2> HIDE DEF B
  <2>1. IsFiniteSet(DOMAIN d.ballots)
    BY <1>1 DEF IsBallots
  <2> QED BY <1>4, <2>1, FS_Subset
<1> HIDE DEF B
<1>6. ASSUME NEW b \in DOMAIN B
      PROVE  B[b] \in Seq(Nat) /\ B[b] # <<>> /\ \A i \in DOMAIN B[b] : B[b][i] \in C
  <2>1. b \in DOMAIN d.ballots /\ b[1] = x /\ B[b] = d.ballots[b]
    BY <1>4
  <2>2. BallotOK(d, b)
    BY <2>1 DEF ElectionsOK
  <2>3. d.ballots[b] \in Seq(Nat)
    BY <1>1, <2>1 DEF IsBallots
  <2>4. d.ballots[b] # <<>> /\ \A i \in DOMAIN d.ballots[b] : d.ballots[b][i] \in C
    BY <2>1, <2>2 DEF BallotOK, Elections!Legal
  <2> QED BY <2>1, <2>3, <2>4
<1> QED BY <1>2, <1>3, <1>5, <1>6 DEF Cast, B

-----------------------------------------------------------------------------
(***************************************************************************)
(* The five applications are handled as Commands asks.                     *)
(***************************************************************************)
ExpensesOK(d) == d = [app |-> "expenses", rows |-> d.rows, recorded |-> d.recorded]

\* What a database is, whichever application it is of.
DbOK(d) ==
  /\ d.app \in ApplicationNames
  /\ d.app = "billing" => BillingOK(d)
  /\ d.app = "inventory" => InventoryOK(d)
  /\ d.app = "support" => SupportOK(d)
  /\ d.app = "elections" => ElectionsOK(d)
  /\ d.app = "expenses" => ExpensesOK(d)

LEMMA ExpensesServed ==
  ASSUME Serves, NEW q, q.app = "expenses"
  PROVE  /\ Script(q) = Ledger!Handler(q)
         /\ ~Transactional(q)
         /\ \A s, seen, d : Execute(s, q, seen, d) = Ledger!RunStatement(s, q, seen, d)
BY DEF Serves, ServedScript, ServedTransactional, ServedExecute

LEMMA ExpensesRequest ==
  ASSUME NEW x, NEW q \in Ledger!Payloads(x)
  PROVE  q.app = "expenses" /\ q.op \in {"record", "get", "remove", "update", "totals"}
BY DEF Ledger!Payloads

\* Whose request it is.
LEMMA RequestOf ==
  ASSUME NEW x, x.app \in ApplicationNames, NEW q \in ServedRequests(x)
  PROVE  /\ q.app = x.app
         /\ x.app = "billing" => q \in Billing!Payloads(x)
         /\ x.app = "inventory" => q \in Inventory!Payloads(x)
         /\ x.app = "support" => q \in Support!Payloads(x)
         /\ x.app = "elections" => q \in Elections!Payloads(x)
         /\ x.app = "expenses" => q \in Ledger!Payloads(x)
<1>1. /\ x.app = "billing" => q \in Billing!Payloads(x)
      /\ x.app = "inventory" => q \in Inventory!Payloads(x)
      /\ x.app = "support" => q \in Support!Payloads(x)
      /\ x.app = "elections" => q \in Elections!Payloads(x)
      /\ x.app = "expenses" => q \in Ledger!Payloads(x)
  BY DEF ServedRequests
<1> QED BY <1>1, BillingRequest, InventoryRequest, SupportRequest, ElectionsRequest, ExpensesRequest
       DEF ApplicationNames

IsSequence(s) == \E S : s \in Seq(S)

LEMMA Literals ==
  /\ \A a : IsSequence(<<a>>)
  /\ \A a, b : IsSequence(<<a, b>>)
  /\ \A a, b, c : IsSequence(<<a, b, c>>)
  /\ \A a, b, c, d : IsSequence(<<a, b, c, d>>)
  /\ \A a, b, c, d, e : IsSequence(<<a, b, c, d, e>>)
  /\ \A a, b, c, d, e, f : IsSequence(<<a, b, c, d, e, f>>)
<1> SUFFICES ASSUME NEW a, NEW b, NEW c, NEW d, NEW e, NEW f
             PROVE  /\ IsSequence(<<a>>) /\ IsSequence(<<a, b>>) /\ IsSequence(<<a, b, c>>)
                    /\ IsSequence(<<a, b, c, d>>) /\ IsSequence(<<a, b, c, d, e>>)
                    /\ IsSequence(<<a, b, c, d, e, f>>)
  BY Zenon
<1> DEFINE S == {a, b, c, d, e, f}
<1>1. a \in S /\ b \in S /\ c \in S /\ d \in S /\ e \in S /\ f \in S
  OBVIOUS
<1> HIDE DEF S
<1>2. /\ <<a>> \in Seq(S) /\ <<a, b>> \in Seq(S) /\ <<a, b, c>> \in Seq(S)
      /\ <<a, b, c, d>> \in Seq(S) /\ <<a, b, c, d, e>> \in Seq(S)
      /\ <<a, b, c, d, e, f>> \in Seq(S)
  BY <1>1
<1> QED BY <1>2, Zenon DEF IsSequence

\* A handler is a sequence of statements.
LEMMA Scripted ==
  ASSUME Serves, NEW x, x.app \in ApplicationNames, NEW q \in ServedRequests(x)
  PROVE  IsSequence(Script(q))
<1>1. q.app = x.app
  BY RequestOf
<1>2. CASE x.app = "billing"
  <2>1. Script(q) = Billing!Handler(q) /\ q \in Billing!Payloads(x)
    BY <1>1, <1>2, RequestOf, BillingServed
  <2>2. q.op \in {"createOrder", "addLine", "issueInvoice", "payInvoice", "getOrder"}
    BY <2>1, BillingRequest
  <2>3. \/ Script(q) = <<"insertOrder">>
        \/ Script(q) = <<"getOrder", "orderSummary", "raiseTotal", "insertLine", "getOrder", "orderSummary">>
        \/ Script(q) = <<"getOrder", "orderSummary", "invoiceOrder", "insertInvoice">>
        \/ Script(q) = <<"getInvoice", "payInvoice">>
        \/ Script(q) = <<"getOrder", "orderSummary">>
    BY <2>1, <2>2 DEF Billing!Handler
  <2> QED BY <2>3, Literals, Zenon
<1>3. CASE x.app = "inventory"
  <2>1. Script(q) = Inventory!Handler(q) /\ q \in Inventory!Payloads(x)
    BY <1>1, <1>3, RequestOf, InventoryServed
  <2>2. q.op \in {"reserve", "confirm", "release"}
    BY <2>1, InventoryRequest
  <2>3. \/ Script(q) = <<"findStock", "decrement", "insertReservation">>
        \/ Script(q) = <<"transition">>
        \/ Script(q) = <<"transition", "restoreStock">>
    BY <2>1, <2>2 DEF Inventory!Handler
  <2> QED BY <2>3, Literals, Zenon
<1>4. CASE x.app = "support"
  <2>1. Script(q) = Support!Handler(q) /\ q \in Support!Payloads(x)
    BY <1>1, <1>4, RequestOf, SupportServed
  <2>2. q.op \in {"openCase", "advanceCase", "caseDetail", "auditTrail", "toggleDuty", "removeAgent"}
    BY <2>1, SupportRequest
  <2>3. \/ Script(q) = <<"getCustomer", "insertCase", "insertEvent", "appendAudit">>
        \/ Script(q) = <<"getCase", "assignment", "transition", "insertEvent", "appendAudit">>
        \/ Script(q) = <<"getCase", "detail">>
        \/ Script(q) = <<"listAudits">>
        \/ Script(q) = <<q.op>>
    BY <2>1, <2>2 DEF Support!Handler
  <2> QED BY <2>3, Literals, Zenon
<1>5. CASE x.app = "elections"
  <2>1. q.app = "elections" /\ q \in Elections!Payloads(x)
    BY <1>1, <1>5, RequestOf
  <2>2. CASE q.op = "vote" /\ q.ranking \in Seq(Nat)
    BY <2>1, <2>2, ScriptOfVote DEF IsSequence
  <2>3. CASE q.op \in {"create", "addCandidate", "open", "close", "slate", "myBallot", "result"}
    <3>1. \/ Script(q) = <<"getElection", "listCandidates", "raiseVersion", "insertCandidate",
                            "getElection", "listCandidates">>
          \/ Script(q) = <<"getElection", "listCandidates", "open">>
          \/ Script(q) = <<"getElection", "listCandidates", "tally">>
          \/ Script(q) = <<"getElection", "listCandidates">>
          \/ Script(q) = <<"getElection", "close">>
          \/ Script(q) = <<"getElection", "readBallot", "listPreferences">>
          \/ Script(q) = <<"insertElection">>
      BY <2>1, <2>3, ScriptOfElections
    <3> QED BY <3>1, Literals, Zenon
  <2> QED BY <2>1, <2>2, <2>3, ElectionsRequest
<1>6. CASE x.app = "expenses"
  <2>1. Script(q) = Ledger!Handler(q) /\ q \in Ledger!Payloads(x)
    BY <1>1, <1>6, RequestOf, ExpensesServed
  <2>2. Script(q) = <<"get", "remove">> \/ Script(q) = <<q.op>>
    BY <2>1 DEF Ledger!Handler
  <2> QED BY <2>2, Literals, Zenon
<1> QED BY <1>2, <1>3, <1>4, <1>5, <1>6 DEF ApplicationNames

\* No command declares the error of the database, or success.
LEMMA DeclaredOnly ==
  ASSUME Serves, NEW x, x.app \in ApplicationNames, NEW q \in ServedRequests(x)
  PROVE  "SqlError" \notin Declared(q)
<1>1. q.app = x.app /\ Declared(q) = ServedDeclared(q)
  BY RequestOf DEF Serves
<1>2. CASE x.app = "billing"
  <2>1. q.op \in {"createOrder", "addLine", "issueInvoice", "payInvoice", "getOrder"}
    BY <1>2, RequestOf, BillingRequest
  <2> QED BY <1>1, <1>2, <2>1 DEF ServedDeclared, Billing!Errors
<1>3. CASE x.app = "inventory"
  BY <1>1, <1>3 DEF ServedDeclared, Inventory!Errors
<1>4. CASE x.app = "support"
  <2>1. q.op \in {"openCase", "advanceCase", "caseDetail", "auditTrail", "toggleDuty", "removeAgent"}
    BY <1>4, RequestOf, SupportRequest
  <2> QED BY <1>1, <1>4, <2>1 DEF ServedDeclared, Support!Errors
<1>5. CASE x.app = "elections"
  <2>1. q.op \in {"create", "addCandidate", "open", "close", "slate", "vote", "myBallot", "result"}
    BY <1>5, RequestOf, ElectionsRequest
  <2> QED BY <1>1, <1>5, <2>1 DEF ServedDeclared, Elections!Errors
<1>6. CASE x.app = "expenses"
  <2>1. q.op \in {"record", "get", "remove", "update", "totals"}
    BY <1>6, RequestOf, ExpensesRequest
  <2> QED BY <1>1, <1>6, <2>1 DEF ServedDeclared, Ledger!Errors
<1> QED BY <1>2, <1>3, <1>4, <1>5, <1>6 DEF ApplicationNames

LEMMA ServedHandled ==
  ASSUME Serves, NEW x, x.app \in ApplicationNames, NEW q \in ServedRequests(x)
  PROVE  IsHandled(q)
<1>1. q # None
  BY RequestOf DEF Serves
<1>2. Script(q) \in Seq({Script(q)[i] : i \in DOMAIN Script(q)})
  <2>1. PICK S : Script(q) \in Seq(S)
    BY Scripted DEF IsSequence
  <2> QED BY <2>1, OwnStatements
<1> QED BY <1>1, <1>2, DeclaredOnly DEF IsHandled

LEMMA AllHandled ==
  ASSUME Serves, DbOK(db)
  PROVE  Handled
<1>1. Requests(db) = ServedRequests(db) /\ db.app \in ApplicationNames
  BY DEF Serves, DbOK
<1> QED BY <1>1, ServedHandled DEF Handled

-----------------------------------------------------------------------------
(***************************************************************************)
(* What the applications do under the boundary.                            *)
(***************************************************************************)

\* A step of the database: of one application, which keeps what is final.
Onward(d, e) ==
  /\ DbOK(d) /\ DbOK(e) /\ e.app = d.app
  /\ d.app = "billing" => InvoicedStay(d, e)
  /\ d.app = "support" => DOMAIN d.cases \subseteq DOMAIN e.cases
  /\ d.app = "elections" => ClosedStay(d, e)

\* A call is of a request of the application; who reads a case has found it.
AskedOK(call, d) ==
  call # Idle =>
    /\ \E x : x.app = d.app /\ call.request \in ServedRequests(x)
    /\ d.app = "support" /\ call.request.op = "caseDetail" /\ call.at # 1 =>
         call.request.id \in DOMAIN d.cases

\* What an answer says of the database as it is since.
AnswerOK(a, d) ==
  LET q == a.request
  IN  /\ d.app = "inventory" => Inventory!RefusalIsTrue(a)
      /\ d.app = "billing" /\ q # None /\ a.failure = Succeeds => InvoiceSeen(q, d)
      /\ d.app = "elections" /\ q # None /\ a.failure = Succeeds /\ q.op = "result" =>
           /\ q.election \in DOMAIN d.elections /\ d.elections[q.election].status = "closed"
           /\ a.seen = Elections!Tally(Elections!CandidatesOf(d, q.election),
                                       Elections!BallotsOf(d, q.election))

LEMMA OnwardSame ==
  ASSUME NEW d, DbOK(d)
  PROVE  Onward(d, d)
BY DEF Onward, InvoicedStay, ClosedStay, Stays

LEMMA StillAsked ==
  ASSUME NEW d, NEW e, Onward(d, e), NEW call, AskedOK(call, d)
  PROVE  AskedOK(call, e)
BY DEF Onward, AskedOK

LEMMA StillAnswered ==
  ASSUME NEW d, NEW e, Onward(d, e), NEW a, AnswerOK(a, d)
  PROVE  AnswerOK(a, e)
<1> DEFINE q == a.request
<1>1. CASE d.app = "billing"
  BY <1>1 DEF Onward, AnswerOK, InvoicedStay, InvoiceSeen
<1>2. CASE d.app = "elections"
  BY <1>2 DEF Onward, AnswerOK, ClosedStay, Stays
<1>3. CASE d.app \notin {"billing", "elections"}
  BY <1>3 DEF Onward, AnswerOK
<1> QED BY <1>1, <1>2, <1>3

\* A transaction that commits.
LEMMA WholeServed ==
  ASSUME Serves, NEW d, DbOK(d), NEW x, x.app = d.app, NEW q \in ServedRequests(x), Transactional(q),
         Atomic!Whole(q, d).failure = Succeeds
  PROVE  /\ Onward(d, Atomic!Whole(q, d).db)
         /\ AnswerOK(Answer(q, Succeeds, Atomic!Whole(q, d).seen), Atomic!Whole(q, d).db)
<1> DEFINE e == Atomic!Whole(q, d).db
           seen == Atomic!Whole(q, d).seen
           a == Answer(q, Succeeds, seen)
<1>1. d.app \in ApplicationNames /\ q.app = d.app
  BY RequestOf DEF DbOK
<1>2. a.request = q /\ a.failure = Succeeds /\ a.seen = seen
  BY DEF Answer
<1>3. CASE d.app = "billing"
  <2>1. BillingOK(e) /\ InvoicedStay(d, e) /\ InvoiceSeen(q, e)
    BY <1>1, <1>3, RequestOf, BillingWhole DEF DbOK
  <2>2. e.app = "billing"
    <3> HIDE DEF e
    <3> QED BY <2>1 DEF BillingOK, BillingTypes, IsBilling
  <2> HIDE DEF e, a
  <2>3. Onward(d, e)
    BY <1>3, <2>1, <2>2 DEF Onward, DbOK, ApplicationNames
  <2>4. AnswerOK(a, e)
    BY <1>2, <2>1, <2>2 DEF AnswerOK
  <2> QED BY <2>3, <2>4 DEF e, a, seen
<1>4. CASE d.app = "inventory"
  <2>1. InventoryOK(e)
    BY <1>1, <1>4, RequestOf, InventoryWhole DEF DbOK
  <2>2. e.app = "inventory"
    <3> HIDE DEF e
    <3> QED BY <2>1 DEF InventoryOK
  <2>3. Inventory!RefusalIsTrue(a)
    BY <1>2 DEF Inventory!RefusalIsTrue, Succeeds
  <2> HIDE DEF e, a
  <2>4. Onward(d, e)
    BY <1>4, <2>1, <2>2 DEF Onward, DbOK, ApplicationNames
  <2>5. AnswerOK(a, e)
    BY <1>2, <2>2, <2>3 DEF AnswerOK
  <2> QED BY <2>4, <2>5 DEF e, a, seen
<1>5. CASE d.app = "support"
  <2>1. SupportOK(e) /\ DOMAIN d.cases \subseteq DOMAIN e.cases
    BY <1>1, <1>5, RequestOf, SupportWhole DEF DbOK
  <2>2. e.app = "support"
    <3> HIDE DEF e
    <3> QED BY <2>1 DEF SupportOK, SupportTypes, IsSupport
  <2> HIDE DEF e, a
  <2>3. Onward(d, e)
    BY <1>5, <2>1, <2>2 DEF Onward, DbOK, ApplicationNames
  <2>4. AnswerOK(a, e)
    BY <2>2 DEF AnswerOK
  <2> QED BY <2>3, <2>4 DEF e, a, seen
<1>6. CASE d.app = "elections"
  <2>1. ElectionsOK(e) /\ ClosedStay(d, e)
    BY <1>1, <1>6, RequestOf, ElectionsWhole DEF DbOK
  <2>2. e.app = "elections"
    <3> HIDE DEF e
    <3> QED BY <2>1 DEF ElectionsOK, ElectionTypes, IsElections
  <2>3. q.op = "result" =>
          /\ e = d /\ q.election \in DOMAIN d.elections /\ d.elections[q.election].status = "closed"
          /\ seen = Elections!Tally(Elections!CandidatesOf(d, q.election), Elections!BallotsOf(d, q.election))
    BY <1>1, <1>6, ReadWhole
  <2> HIDE DEF e, a, seen
  <2>4. Onward(d, e)
    BY <1>6, <2>1, <2>2 DEF Onward, DbOK, ApplicationNames
  <2>5. AnswerOK(a, e)
    BY <1>2, <2>2, <2>3 DEF AnswerOK
  <2> QED BY <2>4, <2>5 DEF e, a, seen
<1>7. d.app # "expenses"
  BY <1>1, ExpensesServed
<1> QED BY <1>1, <1>3, <1>4, <1>5, <1>6, <1>7 DEF ApplicationNames

\* A statement of the expense ledger.
LEMMA ExpensesStatement ==
  ASSUME NEW d, ExpensesOK(d), NEW q, NEW seen, NEW s \in {"record", "get", "remove", "update", "totals"}
  PROVE  ExpensesOK(Ledger!RunStatement(s, q, seen, d).db)
<1> USE DEF ExpensesOK, Ledger!Done, Ledger!Fails, Ledger!FailsWith
<1>1. Ledger!RunStatement("record", q, seen, d).db
        = [app |-> "expenses", rows |-> Ledger!Put(d.rows, d.recorded + 1, q.row), recorded |-> d.recorded + 1]
  <2> DEFINE rows == Ledger!Put(d.rows, d.recorded + 1, q.row)
             next == [d EXCEPT !.rows = Ledger!Put(@, d.recorded + 1, q.row), !.recorded = @ + 1]
  <2>1. Ledger!RunStatement("record", q, seen, d).db = next
    <3>1. Ledger!RunStatement("record", q, seen, d) = Ledger!Record(q, d)
      BY DEF Ledger!RunStatement
    <3>2. Ledger!Record(q, d) = [db |-> next, seen |-> q.row, failure |-> Ledger!Succeeds]
      BY Zenon DEF Ledger!Record
    <3> HIDE DEF next
    <3> QED BY <3>1, <3>2
  <2> DEFINE more == [d EXCEPT !.rows = rows]
  <2>2. next = [more EXCEPT !.recorded = more.recorded + 1]
    OBVIOUS
  <2> HIDE DEF rows, next
  <2>4. more = [app |-> "expenses", rows |-> rows, recorded |-> d.recorded]
    OBVIOUS
  <2> HIDE DEF more
  <2>3. next = [app |-> "expenses", rows |-> rows, recorded |-> d.recorded + 1]
    BY <2>2, <2>4
  <2> QED BY <2>1, <2>3 DEF rows
<1>2. Ledger!RunStatement("get", q, seen, d).db = d
  BY DEF Ledger!RunStatement, Ledger!Get
<1>3. \/ Ledger!RunStatement("remove", q, seen, d).db = d
      \/ Ledger!RunStatement("remove", q, seen, d).db
           = [app |-> "expenses", rows |-> [i \in DOMAIN d.rows \ {q.id} |-> d.rows[i]], recorded |-> d.recorded]
  BY DEF Ledger!RunStatement, Ledger!Remove
<1>4. \/ Ledger!RunStatement("update", q, seen, d).db = d
      \/ Ledger!RunStatement("update", q, seen, d).db
           = [app |-> "expenses", rows |-> [d.rows EXCEPT ![q.id] = q.row], recorded |-> d.recorded]
  BY DEF Ledger!RunStatement, Ledger!Update
<1>5. Ledger!RunStatement("totals", q, seen, d).db = d
  BY DEF Ledger!RunStatement, Ledger!Totals
<1> QED BY <1>1, <1>2, <1>3, <1>4, <1>5

\* A statement that is committed on its own.
LEMMA PartServed ==
  ASSUME Serves, NEW d, DbOK(d), NEW x, x.app = d.app, NEW q \in ServedRequests(x), ~Transactional(q),
         NEW n \in 1..Len(Script(q)), NEW seen,
         Execute(Script(q)[n], q, seen, d).failure = Succeeds
  PROVE  LET e == Execute(Script(q)[n], q, seen, d).db
         IN  /\ Onward(d, e)
             /\ d.app \in {"support", "expenses"}
             /\ d.app = "support" => e = d
             /\ d.app = "support" /\ q.op = "caseDetail" /\ n = 1 => q.id \in DOMAIN d.cases
<1> DEFINE e == Execute(Script(q)[n], q, seen, d).db
<1>1. d.app \in ApplicationNames /\ q.app = d.app
  BY RequestOf DEF DbOK
<1>2. d.app \in {"support", "expenses"}
  BY <1>1 DEF ApplicationNames, Serves, ServedTransactional
<1>3. CASE d.app = "support"
  <2>1. q.op \in {"caseDetail", "auditTrail"} /\ Script(q) = Support!Handler(q)
        /\ Execute(Script(q)[n], q, seen, d) = Support!RunStatement(Script(q)[n], q, seen, d)
    BY <1>1, <1>3, SupportServed DEF Support!InTransaction
  <2>2. \/ q.op = "caseDetail" /\ Script(q) = <<"getCase", "detail">>
        \/ q.op = "auditTrail" /\ Script(q) = <<"listAudits">>
    BY <2>1 DEF Support!Handler
  <2>3. \/ q.op = "caseDetail" /\ Script(q)[n] = "getCase" /\ n = 1
        \/ q.op = "caseDetail" /\ Script(q)[n] = "detail" /\ n = 2
        \/ q.op = "auditTrail" /\ Script(q)[n] = "listAudits"
    BY <2>2
  <2>4. CASE Script(q)[n] = "getCase" /\ q.op = "caseDetail"
    <3>1. Execute(Script(q)[n], q, seen, d) = Support!GetCase(q, seen, d)
      BY <2>1, <2>4 DEF Support!RunStatement
    <3>2. e = d /\ q.id \in DOMAIN d.cases
      BY <3>1 DEF Support!GetCase, Support!Done, Support!Fails, Support!FailsWith, Succeeds
    <3> HIDE DEF e
    <3>3. Onward(d, e)
      BY <3>2, OnwardSame
    <3> QED BY <1>2, <3>2, <3>3 DEF e
  <2>5. CASE Script(q)[n] = "detail" /\ q.op = "caseDetail" /\ n = 2
    <3>1. Execute(Script(q)[n], q, seen, d) = Support!Detail(q, d)
      BY <2>1, <2>5 DEF Support!RunStatement
    <3>2. e = d
      BY <3>1 DEF Support!Detail, Support!Done
    <3> HIDE DEF e
    <3>3. Onward(d, e)
      BY <3>2, OnwardSame
    <3> QED BY <1>2, <2>5, <3>2, <3>3 DEF e
  <2>6. CASE Script(q)[n] = "listAudits" /\ q.op = "auditTrail"
    <3>1. Execute(Script(q)[n], q, seen, d) = Support!ListAudits(q, d)
      BY <2>1, <2>6 DEF Support!RunStatement
    <3>2. e = d
      BY <3>1 DEF Support!ListAudits, Support!Done
    <3> HIDE DEF e
    <3>3. Onward(d, e)
      BY <3>2, OnwardSame
    <3> QED BY <1>2, <2>6, <3>2, <3>3 DEF e
  <2> QED BY <2>3, <2>4, <2>5, <2>6
<1>4. CASE d.app = "expenses"
  <2>1. q.op \in {"record", "get", "remove", "update", "totals"} /\ Script(q) = Ledger!Handler(q)
        /\ Execute(Script(q)[n], q, seen, d) = Ledger!RunStatement(Script(q)[n], q, seen, d)
    BY <1>1, <1>4, ExpensesServed, ExpensesRequest, RequestOf
  <2>2. Script(q)[n] \in {"record", "get", "remove", "update", "totals"}
    BY <2>1 DEF Ledger!Handler
  <2>3. ExpensesOK(d)
    BY <1>4 DEF DbOK
  <2>4. ExpensesOK(e)
    BY <2>1, <2>2, <2>3, ExpensesStatement
  <2>5. e.app = "expenses"
    <3> HIDE DEF e
    <3> QED BY <2>4 DEF ExpensesOK
  <2> HIDE DEF e
  <2>6. Onward(d, e)
    BY <1>4, <2>4, <2>5 DEF Onward, DbOK, ApplicationNames
  <2> QED BY <1>4, <2>6 DEF e
<1> QED BY <1>2, <1>3, <1>4

\* A statement of a transaction that refuses.
LEMMA RefusalServed ==
  ASSUME Serves, NEW d, DbOK(d), NEW x, x.app = d.app, NEW q \in ServedRequests(x),
         NEW n \in 1..Len(Script(q)), Atomic!After(q, n, d).failure # Succeeds, NEW failure,
         failure # Succeeds, failure = "InsufficientStock" => Atomic!After(q, n, d).failure = failure
  PROVE  AnswerOK(Answer(q, failure, Atomic!After(q, n, d).seen), d)
<1> DEFINE seen == Atomic!After(q, n, d).seen
           a == Answer(q, failure, seen)
<1>1. a.request = q /\ a.failure = failure /\ a.seen = seen
  BY DEF Answer
<1>2. d.app = "inventory" => Inventory!RefusalIsTrue(a)
  <2> SUFFICES ASSUME d.app = "inventory", failure = "InsufficientStock"
               PROVE  seen.available < q.quantity
    BY <1>1 DEF Inventory!RefusalIsTrue
  <2>1. q \in Inventory!Payloads(x) /\ InventoryOK(d)
    BY RequestOf DEF DbOK, ApplicationNames
  <2> QED BY <2>1, InventoryRefusal
<1> HIDE DEF a
<1>3. AnswerOK(a, d)
  BY <1>1, <1>2 DEF AnswerOK
<1> QED BY <1>3 DEF a

\* The invariant of the applications.
AInv ==
  /\ DbOK(db)
  /\ AnswerOK(answer, db)
  /\ \A c \in Clients : AskedOK(calls[c], db)

LEMMA StepKeeps ==
  ASSUME AInv, Onward(db, db'), AnswerOK(answer, db)',
         \A c \in Clients : calls'[c] = calls[c] \/ AskedOK(calls'[c], db')
  PROVE  AInv' /\ Onward(db, db')
<1>1. \A c \in Clients : AskedOK(calls'[c], db')
  BY StillAsked DEF AInv
<1>2. DbOK(db')
  BY DEF Onward
<1> QED BY <1>1, <1>2 DEF AInv

LEMMA AskedIdle == \A d : AskedOK(Idle, d)
BY DEF AskedOK

\* The database stays, and so does the answer.
LEMMA QuietKeeps ==
  ASSUME AInv, UNCHANGED <<db, answer>>,
         \A c \in Clients : calls'[c] = calls[c] \/ AskedOK(calls'[c], db)
  PROVE  AInv' /\ Onward(db, db')
<1>1. Onward(db, db')
  BY OnwardSame DEF AInv
<1>2. AnswerOK(answer, db)'
  BY DEF AInv
<1> QED BY <1>1, <1>2, StepKeeps

LEMMA InitAInv ==
  ASSUME Serves, Init
  PROVE  AInv
<1>1. \A c \in Clients : AskedOK(calls[c], db)
  BY AskedIdle DEF Init
<1>2. AnswerOK(answer, db)
  BY DEF Init, NoAnswer, Answer, AnswerOK, Inventory!RefusalIsTrue, Succeeds
<1>3. DbOK(db)
  <2>1. db \in ServedDatabases
    BY DEF Init, Serves
  <2>2. CASE db = Billing!Database
    <3>1. /\ db.app = "billing" /\ db.orders = <<>> /\ db.lines = {} /\ db.invoices = <<>>
          /\ IsBilling(db)
      BY <2>2 DEF Billing!Database, IsBilling
    <3>2. BillingTypes(db)
      BY <3>1, FS_EmptySet DEF BillingTypes
    <3> QED BY <3>1, <3>2 DEF DbOK, ApplicationNames, BillingOK
  <2>3. CASE db = Inventory!Database
    <3>1. /\ db.app = "inventory" /\ db.stock = Stock /\ db.reservations = <<>>
          /\ db = [app |-> "inventory", stock |-> db.stock, reservations |-> db.reservations]
      BY <2>3 DEF Inventory!Database
    <3>2. \A sku : TakenOf(db, sku) = {}
      BY <3>1 DEF TakenOf
    <3>3. \A sku : SumFunctionOnSet(QuantityOf(db, sku), TakenOf(db, sku)) = 0
      BY <3>2, SumOfNothing
    <3>4. InventoryOK(db)
      BY <3>1, <3>3, ApplicationsAssumption DEF InventoryOK
    <3> QED BY <3>1, <3>4 DEF DbOK, ApplicationNames
  <2>4. CASE db = Support!Database
    <3>1. /\ db.app = "support" /\ db.agents = [a \in Agents |-> TRUE] /\ db.cases = <<>>
          /\ db.events = <<>> /\ db.audits = {} /\ IsSupport(db)
      BY <2>4 DEF Support!Database, IsSupport
    <3>2. SupportTypes(db)
      BY <3>1 DEF SupportTypes
    <3> QED BY <3>1, <3>2 DEF DbOK, ApplicationNames, SupportOK
  <2>5. CASE db = Ledger!Database
    BY <2>5 DEF Ledger!Database, DbOK, ApplicationNames, ExpensesOK
  <2>6. CASE db \in Stored
    <3>1. ElectionsOK(db)
      BY <2>6, StoredAssumption, WellFormedIsOK
    <3>2. db.app = "elections"
      BY <3>1 DEF ElectionsOK, ElectionTypes, IsElections
    <3> QED BY <3>1, <3>2 DEF DbOK, ApplicationNames
  <2> QED BY <2>1, <2>2, <2>3, <2>4, <2>5, <2>6 DEF ServedDatabases
<1> QED BY <1>1, <1>2, <1>3 DEF AInv

LEMMA StartAsks ==
  ASSUME Serves, IInv, AInv, NEW c \in Clients, NEW q \in Requests(db), Start(c, q)
  PROVE  AInv' /\ Onward(db, db')
<1>1. /\ UNCHANGED <<db, answer>>
      /\ \A x \in Clients : calls'[x] = IF x = c THEN Running(q, 1, Nothing) ELSE calls[x]
  BY DEF Start, IInv
<1>2. q \in ServedRequests(db)
  BY DEF Serves
<1>3. Running(q, 1, Nothing).request = q /\ Running(q, 1, Nothing).at = 1
  BY DEF Running
<1>4. AskedOK(Running(q, 1, Nothing), db)
  BY <1>2, <1>3 DEF AskedOK
<1> QED BY <1>1, <1>4, QuietKeeps

\* Who asked, of what.
LEMMA AskedBy ==
  ASSUME Serves, IInv, AInv, NEW c \in Clients, calls[c] # Idle
  PROVE  LET q == calls[c].request
         IN  /\ \E x : x.app = db.app /\ q \in ServedRequests(x)
             /\ DbOK(db) /\ db.app \in ApplicationNames /\ AtStatement(calls[c]) /\ Len(Script(q)) \in Nat
             /\ IsHandled(q)
<1>1. AskedOK(calls[c], db) /\ CallOK(c)
  BY DEF AInv, IInv
<1>2. AtStatement(calls[c])
  BY <1>1 DEF CallOK
<1> QED BY <1>1, <1>2 DEF AskedOK, AInv, DbOK, AtStatement, IsHandled

LEMMA CommitServes ==
  ASSUME Serves, IInv, AInv, NEW c \in Clients, Commit(c)
  PROVE  AInv' /\ Onward(db, db')
<1> DEFINE q == calls[c].request
           at == calls[c].at
           whole == Atomic!Whole(q, db)
<1>1. /\ holder = c /\ calls[c] # Idle /\ Transactional(q)
      /\ CallOK(c) /\ AtStatement(calls[c]) /\ Prefix(calls[c])
  BY CommandsAssumption DEF Commit, IInv, CallOK
<1>2. Len(Script(q)) \in Nat /\ at \in 1..(Len(Script(q)) + 1) /\ at > Len(Script(q))
  BY <1>1 DEF AtStatement, IsHandled, Commit, AtEnd, Request
<1>3. at - 1 = Len(Script(q))
  BY <1>2
<1>4. whole = Atomic!After(q, at - 1, db)
  BY <1>1, <1>2, <1>3, WholeIs DEF AtStatement
<1>5. whole.failure = Succeeds /\ whole.db = work /\ whole.seen = calls[c].seen
  BY <1>1, <1>4 DEF Prefix
<1>6. /\ \A x \in Clients : calls'[x] = IF x = c THEN Idle ELSE calls[x]
      /\ db' = work
      /\ answer' = Answer(q, Succeeds, calls[c].seen)
  BY DEF Commit, Return, Translated, Request, IInv
<1>7. PICK x : x.app = db.app /\ q \in ServedRequests(x)
  BY <1>1, AskedBy
<1>8. DbOK(db)
  BY DEF AInv
<1>9. Onward(db, whole.db) /\ AnswerOK(Answer(q, Succeeds, whole.seen), whole.db)
  <2> HIDE DEF q
  <2>1. Transactional(q) /\ Atomic!Whole(q, db).failure = Succeeds /\ x.app = db.app /\ q \in ServedRequests(x)
    BY <1>1, <1>5, <1>7
  <2> QED BY <1>8, <2>1, WholeServed
<1> HIDE DEF whole, q
<1>10. Onward(db, db') /\ AnswerOK(answer, db)'
  BY <1>5, <1>6, <1>9
<1> QED BY <1>6, <1>10, AskedIdle, StepKeeps

LEMMA ProceedServes ==
  ASSUME Serves, IInv, AInv, NEW c \in Clients, Proceed(c)
  PROVE  AInv' /\ Onward(db, db')
<1> DEFINE q == calls[c].request
           at == calls[c].at
           outcome == Execute(Script(q)[at], q, calls[c].seen, work)
           next == Running(q, at + 1, outcome.seen)
<1>1. /\ Ready(c) /\ ~AtEnd(c) /\ calls[c] # Idle /\ AtStatement(calls[c])
      /\ outcome.failure = Succeeds
      /\ IF Transactional(q) THEN UNCHANGED db ELSE db' = outcome.db
      /\ IF ~Transactional(q) /\ at = Len(Script(q))
         THEN /\ calls' = [calls EXCEPT ![c] = Idle]
              /\ answer' = Answer(q, Succeeds, outcome.seen)
         ELSE calls' = [calls EXCEPT ![c] = next] /\ UNCHANGED answer
  BY DEF Proceed, Ready, Statement, IInv, CallOK, Request, InTransaction, Return, Translated
<1>2. at \in 1..Len(Script(q))
  BY <1>1, AskedBy DEF AtStatement, AtEnd, Request
<1>3. PICK x : x.app = db.app /\ q \in ServedRequests(x)
  BY <1>1, AskedBy
<1>4. DbOK(db) /\ calls = [y \in Clients |-> calls[y]] /\ AnswerOK(answer, db)
  BY DEF AInv, IInv
<1>5. next.request = q /\ next.at = at + 1
  BY DEF Running
<1>6. CASE Transactional(q)
  <2>1. AskedOK(next, db)
    <3>1. ~(db.app = "support" /\ q.op = "caseDetail")
      BY <1>3, <1>4, <1>6, RequestOf, SupportServed DEF DbOK, Support!InTransaction
    <3> HIDE DEF next, q
    <3> QED BY <1>3, <1>5, <3>1 DEF AskedOK
  <2> HIDE DEF next, outcome, q
  <2>2. \A y \in Clients : calls'[y] = calls[y] \/ calls'[y] = next
    BY <1>1, <1>4, <1>6
  <2> QED BY <1>1, <1>6, <2>1, <2>2, QuietKeeps
<1>7. CASE ~Transactional(q)
  <2>1. work = db
    BY <1>1, <1>7 DEF Ready, Free, IInv, Request, InTransaction
  <2> DEFINE now == Execute(Script(q)[at], q, calls[c].seen, db)
  <2>2. outcome = now
    BY <2>1
  <2> DEFINE seen == calls[c].seen
  <2> HIDE DEF outcome, q, at, seen
  <2>3. now.failure = Succeeds
    BY <1>1, <2>2
  <2>4. /\ Onward(db, now.db)
        /\ db.app \in {"support", "expenses"}
        /\ db.app = "support" => now.db = db
        /\ db.app = "support" /\ q.op = "caseDetail" /\ at = 1 => q.id \in DOMAIN db.cases
    BY <1>2, <1>3, <1>4, <1>7, <2>3, PartServed
  <2> HIDE DEF now
  <2>5. db' = now.db
    BY <1>1, <1>7, <2>2
  <2>6. AnswerOK(answer, db)'
    <3>1. answer' = answer \/ (answer'.failure = Succeeds /\ answer'.request = q)
      BY <1>1, <1>7 DEF Answer
    <3>2. CASE answer' = answer
      BY <1>4, <2>4, <2>5, <3>2, StillAnswered
    <3>3. CASE answer'.failure = Succeeds
      <4>1. db'.app \in {"support", "expenses"}
        BY <2>4, <2>5 DEF Onward
      <4> QED BY <4>1 DEF AnswerOK
    <3> QED BY <3>1, <3>2, <3>3
  <2>7. AskedOK(next, db')
    <3>1. db'.app = db.app
      BY <2>4, <2>5 DEF Onward
    <3>2. CASE db.app = "support" /\ q.op = "caseDetail"
      <4>1. q.id \in DOMAIN db.cases
        <5>1. CASE at = 1
          BY <2>4, <3>2, <5>1
        <5>2. CASE at # 1
          <6>1. AskedOK(calls[c], db)
            BY DEF AInv
          <6> QED BY <1>1, <3>2, <5>2, <6>1 DEF AskedOK, q, at
        <5> QED BY <5>1, <5>2
      <4>2. db' = db
        BY <2>4, <2>5, <3>2
      <4> HIDE DEF next
      <4> QED BY <1>3, <1>5, <4>1, <4>2 DEF AskedOK
    <3>3. CASE ~(db.app = "support" /\ q.op = "caseDetail")
      <4> HIDE DEF next
      <4> QED BY <1>3, <1>5, <3>1, <3>3 DEF AskedOK
    <3> QED BY <3>2, <3>3
  <2>8. \A y \in Clients : calls'[y] = calls[y] \/ calls'[y] = next \/ calls'[y] = Idle
    <3> HIDE DEF next
    <3> QED BY <1>1, <1>4, <1>7
  <2>9. \A y \in Clients : calls'[y] = calls[y] \/ AskedOK(calls'[y], db')
    <3> HIDE DEF next
    <3> QED BY <2>7, <2>8, AskedIdle
  <2>10. Onward(db, db')
    BY <2>4, <2>5
  <2> QED BY <2>6, <2>9, <2>10, StepKeeps
<1> QED BY <1>6, <1>7

LEMMA EndServes ==
  ASSUME Serves, IInv, AInv, NEW c \in Clients, calls' = [calls EXCEPT ![c] = Idle],
         UNCHANGED db, AnswerOK(answer', db)
  PROVE  AInv' /\ Onward(db, db')
<1>1. \A x \in Clients : calls'[x] = calls[x] \/ calls'[x] = Idle
  BY DEF IInv
<1>2. Onward(db, db')
  BY OnwardSame DEF AInv
<1>3. AnswerOK(answer, db)'
  OBVIOUS
<1> QED BY <1>1, <1>2, <1>3, AskedIdle, StepKeeps

LEMMA RefuseServes ==
  ASSUME Serves, IInv, AInv, NEW c \in Clients, Refuse(c)
  PROVE  AInv' /\ Onward(db, db')
<1> DEFINE q == calls[c].request
           at == calls[c].at
           outcome == Execute(Script(q)[at], q, calls[c].seen, work)
           failure == IF outcome.failure \in Declared(q) THEN outcome.failure ELSE Unavailable
<1>1. /\ Ready(c) /\ ~AtEnd(c) /\ calls[c] # Idle
      /\ outcome.failure # Succeeds
      /\ calls' = [calls EXCEPT ![c] = Idle]
      /\ answer' = Answer(q, failure, outcome.seen)
  BY DEF Refuse, Ready, Statement, Return, Translated, Request
<1>2. UNCHANGED db
  BY ReleaseLeaves DEF Refuse
<1>3. PICK x : x.app = db.app /\ q \in ServedRequests(x)
  BY <1>1, AskedBy
<1>4. DbOK(db)
  BY DEF AInv
<1>5. failure # Succeeds /\ (failure = "InsufficientStock" => outcome.failure = failure)
  BY <1>1 DEF Succeeds, Unavailable
<1>6. CASE db.app \in {"billing", "inventory", "elections"}
  <2>1. Transactional(q)
    BY <1>3, <1>4, <1>6, RequestOf, BillingServed, InventoryServed, ElectionsServed DEF DbOK
  <2>2. at \in 1..Len(Script(q)) /\ Atomic!After(q, at, db) = outcome
    BY <1>1, <2>1, StatementIs DEF Atomic!IsWhole
  <2> HIDE DEF outcome, failure, q, at
  <2>3. AnswerOK(Answer(q, failure, outcome.seen), db)
    BY <1>1, <1>3, <1>4, <1>5, <2>2, RefusalServed
  <2> QED BY <1>1, <1>2, <2>3, EndServes
<1>7. CASE db.app \notin {"billing", "inventory", "elections"}
  BY <1>1, <1>2, <1>7, EndServes DEF AnswerOK
<1> QED BY <1>6, <1>7

LEMMA BreakServes ==
  ASSUME Serves, IInv, AInv, NEW c \in Clients, Break(c)
  PROVE  AInv' /\ Onward(db, db')
<1>1. /\ calls[c] # Idle
      /\ calls' = [calls EXCEPT ![c] = Idle]
      /\ answer' = Answer(calls[c].request, Translated(calls[c].request, "SqlError"), Nothing)
  BY DEF Break, Ready, Return, Request
<1>2. Translated(calls[c].request, "SqlError") = Unavailable
  BY <1>1, AskedBy DEF Translated, IsHandled, Succeeds
<1>3. UNCHANGED db
  BY ReleaseLeaves DEF Break
<1>4. answer'.failure = "unavailable"
  BY <1>1, <1>2 DEF Answer, Unavailable
<1>5. AnswerOK(answer', db)
  BY <1>4 DEF AnswerOK, Succeeds, Inventory!RefusalIsTrue
<1> QED BY <1>1, <1>3, <1>5, EndServes

LEMMA InterruptServes ==
  ASSUME Serves, IInv, AInv, NEW c \in Clients, Interrupt(c)
  PROVE  AInv' /\ Onward(db, db')
<1>1. calls' = [calls EXCEPT ![c] = Idle] /\ UNCHANGED answer
  BY DEF Interrupt
<1>2. UNCHANGED db
  BY ReleaseLeaves DEF Interrupt
<1>3. AnswerOK(answer', db)
  BY <1>1 DEF AInv
<1> QED BY <1>1, <1>2, <1>3, EndServes

LEMMA CrashServes ==
  ASSUME Serves, AInv, Crash
  PROVE  AInv' /\ Onward(db, db')
<1>1. UNCHANGED <<db, answer>> /\ \A c \in Clients : calls'[c] = Idle
  BY DEF Crash
<1> QED BY <1>1, AskedIdle, QuietKeeps

LEMMA NextServes ==
  ASSUME Serves, IInv, AInv, [Next]_vars
  PROVE  AInv' /\ Onward(db, db')
<1>1. ASSUME NEW c \in Clients, NEW q \in Requests(db), Start(c, q) PROVE AInv' /\ Onward(db, db')
  BY <1>1, StartAsks
<1>2. ASSUME NEW c \in Clients, Proceed(c) PROVE AInv' /\ Onward(db, db')
  BY <1>2, ProceedServes
<1>3. ASSUME NEW c \in Clients, Refuse(c) PROVE AInv' /\ Onward(db, db')
  BY <1>3, RefuseServes
<1>4. ASSUME NEW c \in Clients, Commit(c) PROVE AInv' /\ Onward(db, db')
  BY <1>4, CommitServes
<1>5. ASSUME NEW c \in Clients, Break(c) PROVE AInv' /\ Onward(db, db')
  BY <1>5, BreakServes
<1>6. ASSUME NEW c \in Clients, Interrupt(c) PROVE AInv' /\ Onward(db, db')
  BY <1>6, InterruptServes
<1>7. CASE Crash
  BY <1>7, CrashServes
<1>8. CASE UNCHANGED vars
  BY <1>8, QuietKeeps DEF vars
<1> QED BY <1>1, <1>2, <1>3, <1>4, <1>5, <1>6, <1>7, <1>8 DEF Next

\* A command that is no transaction is cut only where its script, executed now,
\* would stand as well.
LEMMA PartsStand ==
  ASSUME Serves, IInv, AInv
  PROVE  HandlersSound
<1>1. Handled
  BY AllHandled DEF AInv
<1>2. ASSUME NEW c \in Clients PROVE PartStands(c)
  <2> DEFINE q == calls[c].request
             at == calls[c].at
             seen == calls[c].seen
             outcome == Execute(Script(q)[at], q, seen, work)
             Stands(i) == /\ Atomic!After(q, i, db).failure = Succeeds
                          /\ Atomic!After(q, i, db).db = outcome.db
                          /\ at = Len(Script(q)) => i = Len(Script(q))
  <2>1. SUFFICES ASSUME Ready(c), ~AtEnd(c), ~Atomic!IsWhole(q), outcome.failure = Succeeds
                 PROVE  \E i \in DOMAIN Script(q) : Stands(i)
    BY DEF PartStands, Statement, Request
  <2>2. calls[c] # Idle /\ ~Transactional(q) /\ work = db /\ Len(Script(q)) # 1
    BY <2>1 DEF Ready, Free, IInv, Request, InTransaction, Atomic!IsWhole
  <2>3. PICK x : x.app = db.app /\ q \in ServedRequests(x)
    BY <2>2, AskedBy
  <2>4. DbOK(db) /\ db.app \in ApplicationNames /\ q.app = db.app
    BY <2>3, RequestOf DEF AInv, DbOK
  <2>5. at \in 1..Len(Script(q))
    BY <2>1, <2>2, AskedBy DEF AtStatement, AtEnd, Request
  <2>6. Atomic!After(q, 1, db) = Execute(Script(q)[1], q, Nothing, db)
    BY FirstOf
  <2>7. Atomic!After(q, 1 + 1, db) = Step(q, Atomic!After(q, 1, db), 1 + 1)
    BY AfterOneMore
  <2>8. db.app \in {"support", "expenses"}
    BY <2>2, <2>4, BillingServed, InventoryServed, ElectionsServed DEF ApplicationNames
  <2>9. CASE db.app = "support"
    <3>1. /\ Script(q) = <<"getCase", "detail">> /\ q.op = "caseDetail"
          /\ \A s, known, d : Execute(s, q, known, d) = Support!RunStatement(s, q, known, d)
      <4>1. /\ q.op \in {"caseDetail", "auditTrail"} /\ Script(q) = Support!Handler(q)
            /\ \A s, known, d : Execute(s, q, known, d) = Support!RunStatement(s, q, known, d)
        BY <2>2, <2>4, <2>9, SupportServed DEF Support!InTransaction
      <4>2. q.op = "auditTrail" => Script(q) = <<"listAudits">>
        BY <4>1 DEF Support!Handler
      <4>3. q.op = "caseDetail" => Script(q) = <<"getCase", "detail">>
        BY <4>1 DEF Support!Handler
      <4> QED BY <2>2, <4>1, <4>2, <4>3
    <3>2. q.id \in DOMAIN db.cases
      <4>1. CASE at = 1
        <5>1. outcome = Support!GetCase(q, seen, db)
          BY <2>2, <3>1, <4>1 DEF Support!RunStatement
        <5> QED BY <2>1, <5>1 DEF Support!GetCase, Support!Fails, Support!FailsWith, Succeeds
      <4>2. CASE at # 1
        BY <2>2, <2>9, <3>1, <4>2 DEF AInv, AskedOK
      <4> QED BY <4>1, <4>2
    <3>3. Atomic!After(q, 1, db) = Support!GetCase(q, Nothing, db)
      BY <2>6, <3>1 DEF Support!RunStatement
    <3>4. Atomic!After(q, 1, db) = Support!Done(db, Nothing)
      BY <3>2, <3>3 DEF Support!GetCase
    <3>5. Atomic!After(q, 1, db).failure = Succeeds /\ Atomic!After(q, 1, db).db = db
      BY <3>4 DEF Support!Done, Support!Succeeds, Succeeds
    <3>6. Atomic!After(q, 2, db) = Support!RunStatement("detail", q, Atomic!After(q, 1, db).seen, db)
      BY <2>7, <3>1, <3>5 DEF Step
    <3>7. Atomic!After(q, 2, db).failure = Succeeds /\ Atomic!After(q, 2, db).db = db
      BY <3>6 DEF Support!RunStatement, Support!Detail, Support!Done, Support!Succeeds, Succeeds
    <3>8. outcome.db = db
      <4>1. at = 1 \/ at = 2
        BY <2>5, <3>1
      <4>2. at = 1 => outcome = Support!GetCase(q, seen, db)
        BY <2>2, <3>1 DEF Support!RunStatement
      <4>3. at = 2 => outcome = Support!Detail(q, db)
        BY <2>2, <3>1 DEF Support!RunStatement
      <4> QED BY <4>1, <4>2, <4>3 DEF Support!GetCase, Support!Detail, Support!Done, Support!Fails, Support!FailsWith
    <3>9. 1 \in DOMAIN Script(q) /\ 2 \in DOMAIN Script(q) /\ Len(Script(q)) = 2
      BY <3>1
    <3> HIDE DEF q, outcome
    <3> QED BY <3>5, <3>7, <3>8, <3>9
  <2>10. CASE db.app = "expenses"
    <3>1. /\ Script(q) = <<"get", "remove">> /\ q.op = "remove"
          /\ \A s, known, d : Execute(s, q, known, d) = Ledger!RunStatement(s, q, known, d)
      <4>1. /\ Script(q) = Ledger!Handler(q)
            /\ \A s, known, d : Execute(s, q, known, d) = Ledger!RunStatement(s, q, known, d)
        BY <2>4, <2>10, ExpensesServed
      <4>2. q.op # "remove" => Script(q) = <<q.op>>
        BY <4>1 DEF Ledger!Handler
      <4>3. q.op = "remove" => Script(q) = <<"get", "remove">>
        BY <4>1 DEF Ledger!Handler
      <4> QED BY <2>2, <4>1, <4>2, <4>3
    <3> USE DEF Ledger!Done, Ledger!Fails, Ledger!FailsWith, Ledger!Succeeds, Succeeds
    <3>2. at = 1 => outcome = Ledger!Get(q, db)
      BY <2>2, <3>1 DEF Ledger!RunStatement
    <3>3. at = 2 => outcome = Ledger!Remove(q, seen, db)
      BY <2>2, <3>1 DEF Ledger!RunStatement
    <3>4. at = 1 \/ at = 2
      BY <2>5, <3>1
    <3>5. q.id \in DOMAIN db.rows
      BY <2>1, <3>2, <3>3, <3>4 DEF Ledger!Get, Ledger!Remove
    <3>6. Atomic!After(q, 1, db) = Ledger!Get(q, db)
      BY <2>6, <3>1 DEF Ledger!RunStatement
    <3>7. Atomic!After(q, 1, db).failure = Succeeds /\ Atomic!After(q, 1, db).db = db
      BY <3>5, <3>6 DEF Ledger!Get
    <3>8. Atomic!After(q, 2, db) = Ledger!RunStatement("remove", q, Atomic!After(q, 1, db).seen, db)
      BY <2>7, <3>1, <3>7 DEF Step
    <3> DEFINE rest == [db EXCEPT !.rows = [i \in DOMAIN @ \ {q.id} |-> @[i]]]
               known == Atomic!After(q, 1, db).seen
    <3>9. \A s : Ledger!Remove(q, s, db) = [db |-> rest, seen |-> s, failure |-> "succeeds"]
      BY <3>5, Zenon DEF Ledger!Remove
    <3>10. Atomic!After(q, 2, db) = Ledger!Remove(q, Atomic!After(q, 1, db).seen, db)
      BY <3>8 DEF Ledger!RunStatement
    <3>20. Ledger!Remove(q, known, db) = [db |-> rest, seen |-> known, failure |-> "succeeds"]
      BY <3>9
    <3>17. Ledger!Remove(q, seen, db) = [db |-> rest, seen |-> seen, failure |-> "succeeds"]
      BY <3>9
    <3>18. Atomic!After(q, 2, db) = [db |-> rest, seen |-> known, failure |-> "succeeds"]
      BY <3>10, <3>20, Zenon
    <3>19. at = 2 => outcome = [db |-> rest, seen |-> seen, failure |-> "succeeds"]
      BY <3>3, <3>17, Zenon
    <3> HIDE DEF rest, known, outcome
    <3>11. Atomic!After(q, 2, db).failure = Succeeds /\ Atomic!After(q, 2, db).db = rest
      BY <3>18
    <3>12. at = 1 => outcome.db = db
      BY <3>2 DEF Ledger!Get
    <3>13. at = 2 => outcome.db = rest
      BY <3>19
    <3>14. 1 \in DOMAIN Script(q) /\ 2 \in DOMAIN Script(q) /\ Len(Script(q)) = 2
      BY <3>1
    <3> HIDE DEF q, outcome, at
    <3>15. CASE at = 1
      <4>1. Stands(1)
        BY <3>7, <3>12, <3>14, <3>15
      <4> QED BY <3>14, <4>1
    <3>16. CASE at = 2
      <4>1. Stands(2)
        BY <3>11, <3>13, <3>14, <3>16
      <4> QED BY <3>14, <4>1
    <3> QED BY <3>4, <3>15, <3>16
  <2> QED BY <2>8, <2>9, <2>10
<1> QED BY <1>1, <1>2 DEF HandlersSound

LEMMA Served ==
  ASSUME Serves
  PROVE  Spec => [](IInv /\ AInv)
<1>1. Init => IInv /\ AInv
  BY InitIInv, InitAInv
<1>2. IInv /\ AInv /\ [Next]_vars => (IInv /\ AInv)'
  <2>1. AInv => Handled
    BY AllHandled DEF AInv
  <2> QED BY <2>1, NextKeeps, NextServes
<1> QED BY <1>1, <1>2, PTL DEF Spec

\* Stock is neither oversold nor leaked, and whoever is refused is refused for
\* what there was (reservations example).
THEOREM StockIsAccounted ==
  ASSUME Serves
  PROVE  Spec => []StockAccounted
<1>1. AInv => StockAccounted
  BY InventoryAccounted DEF AInv, DbOK, AnswerOK, StockAccounted
<1> QED BY <1>1, Served, PTL

\* Orders, lines and invoices agree on what is charged, and an invoice is over
\* the lines its caller had seen (orders and invoices example).
THEOREM TotalsAlwaysAgree ==
  ASSUME Serves
  PROVE  Spec => []TotalsAgree
<1>1. AInv => TotalsAgree
  <2> SUFFICES ASSUME AInv, db.app = "billing"
               PROVE  /\ Billing!TotalsAgree(db)
                      /\ answer.request # None => Billing!ChargedAsSeen(answer, db)
    BY DEF TotalsAgree
  <2>1. BillingOK(db)
    BY DEF AInv, DbOK
  <2>2. \A o : Billing!LinesOf(db, o) = LinesOf(db, o)
    BY DEF Billing!LinesOf, LinesOf
  <2>3. answer.request # None /\ answer.failure = Succeeds => InvoiceSeen(answer.request, db)
    BY DEF AInv, AnswerOK
  <2>4. answer.request # None => Billing!ChargedAsSeen(answer, db)
    BY <2>2, <2>3, BillingCardinality DEF Billing!ChargedAsSeen, InvoiceSeen, Succeeds, Billing!Succeeds
  <2> QED BY <2>1, <2>4, BillingAgrees
<1> QED BY <1>1, Served, PTL

\* Events and audits tell the whole history of every case (support example).
THEOREM TrailTellsEveryCase ==
  ASSUME Serves
  PROVE  Spec => []TrailTellsTheCase
<1>1. AInv => TrailTellsTheCase
  BY SupportTold DEF AInv, DbOK, TrailTellsTheCase
<1> QED BY <1>1, Served, PTL

\* Ballots are whole, a result may be defended however the votes fell, and a
\* closed election stays as it was counted (community elections example).
THEOREM ResultsStayFinal ==
  ASSUME Serves
  PROVE  Spec => ResultsAreFinal
<1>1. AInv => (db.app = "elections" => Elections!BallotsWhole(db) /\ Counted)
  <2> SUFFICES ASSUME AInv, db.app = "elections" PROVE Elections!BallotsWhole(db) /\ Counted
    OBVIOUS
  <2>1. ElectionsOK(db)
    BY DEF AInv, DbOK
  <2>2. Elections!BallotsWhole(db)
    BY <2>1, WellFormedIsOK DEF Elections!WellFormed
  <2>3. Counted
    <3> DEFINE q == answer.request
               B == Elections!BallotsOf(db, q.election)
               C == Elections!CandidatesOf(db, q.election)
    <3> SUFFICES ASSUME q # None, answer.failure = Succeeds, q.op = "result"
                 PROVE  Elections!Defensible(answer.seen, C, B)
      BY DEF Counted
    <3>1. /\ q.election \in DOMAIN db.elections /\ db.elections[q.election].status = "closed"
          /\ answer.seen = Elections!Tally(C, B)
      BY DEF AInv, AnswerOK
    <3>2. Cast(B, C)
      BY <2>1, <3>1, BallotsCast
    <3> HIDE DEF B, C
    <3> QED BY <3>1, <3>2, TallyDefended
  <2> QED BY <2>2, <2>3
<1>2. IInv /\ AInv /\ [Next]_vars => [ClosedStaysClosed]_vars
  <2>1. ASSUME Onward(db, db') PROVE ClosedStaysClosed
    BY <2>1 DEF Onward, ClosedStay, Stays, ClosedStaysClosed
  <2> QED BY <2>1, NextServes
<1> QED BY <1>1, <1>2, Served, PTL DEF ResultsAreFinal, Spec

\* Each command of the five applications is one step or none, whatever else goes
\* on; what CommandsAreAtomic relies on is true of them.
THEOREM ApplicationsAreAtomic ==
  ASSUME Serves
  PROVE  Spec => ImplementsAtomic
<1>1. IInv /\ AInv => HandlersSound
  BY PartsStand
<1> QED BY <1>1, Served, CommandsAreAtomic, PTL
=============================================================================
