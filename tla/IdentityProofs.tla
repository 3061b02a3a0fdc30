--------------------------- MODULE IdentityProofs ---------------------------
(***************************************************************************)
(* Theorems about Identity for every set of usernames, tokens and          *)
(* requests, whatever the lifetimes and the number of permits.             *)
(***************************************************************************)
EXTENDS Identity, FiniteSetTheorems, TLAPS

\* What rows and requests refer to exists: a session belongs to an account, a
\* request that authenticated or verified a password belongs to one too, and
\* a token was issued under a session.
SessionReferences ==
  \A s \in Sessions : session[s].status # "unissued" =>
    account[session[s].user].status # "absent"

RequestReferences ==
  \A c \in Clients :
    /\ client[c].pc = "verifying" /\ client[c].hash # None =>
         account[client[c].user].status # "absent"
    /\ client[c].pc = "granted" => account[client[c].user].status # "absent"
    /\ client[c].pc = "authenticated" =>
         /\ session[client[c].session].status # "unissued"
         /\ session[client[c].session].user = client[c].user

References == SessionReferences /\ RequestReferences

LEMMA InitInvariant == Init => TypeOK /\ References
  BY IdentityAssumption
  DEF Init, TypeOK, AccountRows, SessionRows, ResetRows, InviteRows, Requests,
      Idle, NoAccount, NoSession, NoReset, NoInvite, References,
      SessionReferences, RequestReferences

\* A row inserted by issueSession keeps the table well typed.
LEMMA IssueTyped ==
  ASSUME TypeOK, NEW s \in Sessions, NEW u \in Users, NEW verified \in Nat,
         Issue(s, u, verified)
  PROVE  session' \in [Sessions -> SessionRows]
  BY IdentityAssumption DEF Issue, TypeOK, SessionRows, AccountRows, NoAccount, NoSession

LEMMA RevokeTyped ==
  ASSUME TypeOK, NEW u \in Users
  PROVE  RevokeSessions(u) \in [Sessions -> SessionRows]
  BY DEF TypeOK, RevokeSessions, SessionRows, NoSession

LEMMA DeleteTyped ==
  ASSUME TypeOK, NEW u \in Users
  PROVE  DeleteResets(u) \in [Resets -> ResetRows]
  BY DEF TypeOK, DeleteResets, ResetRows, NoReset

LEMMA NewAccountTyped ==
  ASSUME NEW password \in Passwords, NEW tenant \in Tenants,
         NEW isAdmin \in BOOLEAN, NEW via \in Invites \cup {None}
  PROVE  NewAccount(password, tenant, isAdmin, via) \in AccountRows
  BY DEF NewAccount, AccountRows

LEMMA RequestsTyped ==
  /\ Idle \in Requests
  /\ \A u \in Users, g \in Nat :
       [pc |-> "granted", user |-> u, generation |-> g] \in Requests
  /\ \A u \in Users, s \in Sessions :
       [pc |-> "authenticated", user |-> u, session |-> s] \in Requests
  /\ \A t \in Resets, p \in Passwords :
       [pc |-> "hashing", token |-> t, password |-> p] \in Requests
  /\ \A u \in Users, p \in Passwords, h \in Passwords \cup {None}, g \in Nat :
       [pc |-> "verifying", user |-> u, guess |-> p, hash |-> h,
        generation |-> g] \in Requests
  BY DEF Requests, Idle

\* What a typed request of each kind carries.
LEMMA RequestFields ==
  ASSUME NEW r \in Requests
  PROVE  /\ r.pc = "verifying" => /\ r.user \in Users
                                  /\ r.generation \in Nat
                                  /\ r.guess \in Passwords
         /\ r.pc = "granted" => r.user \in Users /\ r.generation \in Nat
         /\ r.pc = "authenticated" => r.user \in Users /\ r.session \in Sessions
         /\ r.pc = "hashing" => r.token \in Resets /\ r.password \in Passwords
         /\ r.pc \in {"idle", "verifying", "granted", "authenticated", "hashing"}
  BY DEF Requests, Idle

-----------------------------------------------------------------------------

\* Type correctness needs the references: closing an account or logging out
\* writes to the row the request refers to.
LEMMA TypeStep ==
  ASSUME TypeOK, References, Next
  PROVE  TypeOK'
<1> USE IdentityAssumption DEF db, Become, TakePermit, ReturnPermit
<1>1. CASE Serve
  BY <1>1 DEF Serve, TypeOK
<1>2. CASE Crash
  BY <1>2, RequestsTyped DEF Crash, TypeOK
<1>3. CASE Tick
  BY <1>3 DEF Tick, TypeOK
<1>4. ASSUME NEW u \in Seeds, Seed(u)
      PROVE  TypeOK'
  <2>1. SeedTenant[u] \in Tenants /\ SeedPassword \in Passwords
    OBVIOUS
  <2>2. (u \in SeedAdmins) \in BOOLEAN
    OBVIOUS
  <2>3. NewAccount(SeedPassword, SeedTenant[u], u \in SeedAdmins, None) \in AccountRows
    BY <2>1, <2>2, NewAccountTyped, Zenon
  <2>. QED
    BY <1>4, <2>3 DEF Seed, TypeOK
<1>5. ASSUME NEW u \in Users, NEW password \in Passwords, NEW s \in Sessions,
             Signup(u, password, s)
      PROVE  TypeOK'
  <2>1. NewAccount(password, u, TRUE, None) \in AccountRows
    BY NewAccountTyped
  <2>2. session' \in [Sessions -> SessionRows]
    BY <1>5, IssueTyped DEF Signup
  <2>. QED
    BY <1>5, <2>1, <2>2 DEF Signup, TypeOK
<1>6. ASSUME NEW u \in Users, NEW password \in Passwords, NEW s \in Sessions,
             NEW i \in Invites, InvitedSignup(u, password, i, s)
      PROVE  TypeOK'
  <2>1. invite[i].tenant \in Tenants /\ invite' \in [Invites -> InviteRows]
    BY <1>6 DEF InvitedSignup, ConsumeInvite, Consumable, TypeOK, InviteRows, NoInvite
  <2>2. NewAccount(password, invite[i].tenant, FALSE, i) \in AccountRows
    BY <2>1, NewAccountTyped
  <2>3. session' \in [Sessions -> SessionRows]
    BY <1>6, IssueTyped DEF InvitedSignup
  <2>. QED
    BY <1>6, <2>1, <2>2, <2>3 DEF InvitedSignup, TypeOK
<1>7. ASSUME NEW c \in Clients, Request(c)
      PROVE  TypeOK'
  <2> DEFINE r == client[c]
  <2>0. r \in Requests
    BY DEF TypeOK
  <2>1. ASSUME NEW u \in Users, NEW guess \in Passwords, BeginLogin(c, u, guess)
        PROVE  TypeOK'
    <3>1. account[u].generation \in Nat
      BY DEF TypeOK, AccountRows, NoAccount
    <3>2. (IF Enabled(u) THEN account[u].password ELSE None) \in Passwords \cup {None}
      BY DEF TypeOK, AccountRows, NoAccount, Enabled
    <3>. QED
      BY <2>1, <3>1, <3>2, RequestsTyped DEF BeginLogin, TypeOK
  <2>2. CASE Verify(c)
    BY <2>0, <2>2, RequestsTyped, RequestFields DEF Verify, TypeOK
  <2>3. ASSUME NEW s \in Sessions, FinishLogin(c, s)
        PROVE  TypeOK'
    <3>1. r.user \in Users /\ r.generation \in Nat
      BY <2>0, <2>3, RequestFields DEF FinishLogin
    <3>2. session' \in [Sessions -> SessionRows]
      BY <2>3, <3>1, IssueTyped DEF FinishLogin
    <3>. QED
      BY <2>3, <3>2, RequestsTyped DEF FinishLogin, TypeOK
  <2>4. ASSUME NEW s \in Sessions, Authenticate(c, s)
        PROVE  TypeOK'
    <3>1. session[s].user \in Users
      BY <2>4 DEF Authenticate, LiveSession, TypeOK, SessionRows, NoSession
    <3>. QED
      BY <2>4, <3>1, RequestsTyped DEF Authenticate, TypeOK
  <2>5. CASE Abandon(c)
    BY <2>5, RequestsTyped DEF Abandon, TypeOK
  <2>6. CASE Logout(c)
    <3>1. r.session \in Sessions /\ session[r.session].status # "unissued"
      BY <2>0, <2>6, RequestFields DEF Logout, References, RequestReferences
    <3>2. session' \in [Sessions -> SessionRows]
      BY <2>6, <3>1 DEF Logout, TypeOK, SessionRows, NoSession
    <3>. QED
      BY <2>6, <3>2, RequestsTyped DEF Logout, TypeOK
  <2>7. CASE Close(c)
    <3>1. r.user \in Users /\ account[r.user].status # "absent"
      BY <2>0, <2>7, RequestFields
      DEF Close, References, RequestReferences, SessionReferences
    <3>2. account' \in [Users -> AccountRows]
      BY <2>7, <3>1 DEF Close, TypeOK, AccountRows, NoAccount
    <3>. QED
      BY <2>7, <3>1, <3>2, RevokeTyped, DeleteTyped, RequestsTyped DEF Close, TypeOK
  <2>8. ASSUME NEW i \in Invites, IssueInvite(c, i)
        PROVE  TypeOK'
    <3>1. r.user \in Users /\ r.session \in Sessions
      BY <2>0, <2>8, RequestFields DEF IssueInvite, AdminRequest
    <3>2. account[r.user].tenant \in Tenants
      BY <2>8, <3>1 DEF IssueInvite, AdminRequest, TypeOK, AccountRows, NoAccount
    <3>. QED
      BY <2>8, <3>1, <3>2, RequestsTyped DEF IssueInvite, TypeOK, InviteRows
  <2>9. ASSUME NEW u \in Users, NEW t \in Resets, IssueReset(c, u, t)
        PROVE  TypeOK'
    <3>1. r.user \in Users /\ r.session \in Sessions
      BY <2>0, <2>9, RequestFields DEF IssueReset, AdminRequest
    <3>2. reset' \in [Resets -> ResetRows]
      BY <2>9, <3>1, DeleteTyped DEF IssueReset, TypeOK, ResetRows
    <3>. QED
      BY <2>9, <3>2, RequestsTyped DEF IssueReset, TypeOK
  <2>10. ASSUME NEW t \in Resets, NEW password \in Passwords, BeginReset(c, t, password)
         PROVE  TypeOK'
    BY <2>10, RequestsTyped DEF BeginReset, TypeOK
  <2>11. CASE RedeemReset(c)
    <3> DEFINE t == r.token
               u == reset[t].user
    <3>1. t \in Resets /\ r.password \in Passwords
      BY <2>0, <2>11, RequestFields DEF RedeemReset
    <3>2. u \in Users /\ Enabled(u) /\ reset[t].status = "live"
      BY <2>11, <3>1 DEF RedeemReset, Consume, Redeemable, TypeOK, ResetRows, NoReset
    <3>3. account' \in [Users -> AccountRows]
      BY <2>11, <3>1, <3>2 DEF RedeemReset, TypeOK, AccountRows, NoAccount, Enabled
    <3>4. [reset[t] EXCEPT !.status = "spent"] \in ResetRows
      BY <3>1, <3>2 DEF TypeOK, ResetRows, NoReset
    <3>5. reset' \in [Resets -> ResetRows]
      BY <2>11, <3>1, <3>2, <3>4, DeleteTyped DEF RedeemReset
    <3>. QED
      BY <2>11, <3>2, <3>3, <3>5, RevokeTyped, RequestsTyped DEF RedeemReset, TypeOK
  <2>. QED
    BY <1>7, <2>1, <2>2, <2>3, <2>4, <2>5, <2>6, <2>7, <2>8, <2>9, <2>10, <2>11
    DEF Request
<1>. QED
  BY <1>1, <1>2, <1>3, <1>4, <1>5, <1>6, <1>7 DEF Next, Startup, Register

-----------------------------------------------------------------------------

\* No account row disappears, and no issued session row does.
LEMMA RowsPersist ==
  ASSUME TypeOK, References, Next
  PROVE  /\ \A u \in Users : account[u].status # "absent" => account'[u].status # "absent"
         /\ \A s \in Sessions : session[s].status # "unissued" =>
              session'[s].status # "unissued" /\ session'[s].user = session[s].user
<1> DEFINE Persist ==
      /\ \A u \in Users : account[u].status # "absent" => account'[u].status # "absent"
      /\ \A s \in Sessions : session[s].status # "unissued" =>
           session'[s].status # "unissued" /\ session'[s].user = session[s].user
<1> USE DEF db
<1>1. CASE Serve \/ Crash \/ Tick \/ \E c \in Clients :
             \/ Verify(c) \/ Abandon(c)
             \/ \E u \in Users, guess \in Passwords : BeginLogin(c, u, guess)
             \/ \E s \in Sessions : Authenticate(c, s)
             \/ \E i \in Invites : IssueInvite(c, i)
             \/ \E u \in Users, t \in Resets : IssueReset(c, u, t)
             \/ \E t \in Resets, password \in Passwords : BeginReset(c, t, password)
  <2>1. UNCHANGED <<account, session>>
    BY <1>1 DEF Serve, Crash, Tick, Verify, Abandon, BeginLogin, Authenticate,
                IssueInvite, IssueReset, BeginReset
  <2>. QED
    BY <2>1
<1>2. ASSUME NEW u \in Seeds, Seed(u)
      PROVE  Persist
  BY <1>2, IdentityAssumption DEF Seed, NewAccount, TypeOK
<1>3. ASSUME NEW u \in Users, NEW password \in Passwords, NEW s \in Sessions,
             \/ Signup(u, password, s)
             \/ \E i \in Invites : InvitedSignup(u, password, i, s)
      PROVE  Persist
  BY <1>3 DEF Signup, InvitedSignup, Issue, NewAccount, TypeOK
<1>4. ASSUME NEW c \in Clients, NEW s \in Sessions, FinishLogin(c, s)
      PROVE  Persist
  BY <1>4 DEF FinishLogin, Issue, TypeOK
<1>5. ASSUME NEW c \in Clients, Logout(c)
      PROVE  Persist
  BY <1>5 DEF Logout, TypeOK, References, RequestReferences, SessionRows
<1>6. ASSUME NEW c \in Clients, Close(c)
      PROVE  Persist
  BY <1>6 DEF Close, RevokeSessions, TypeOK, SessionRows, AccountRows
<1>7. ASSUME NEW c \in Clients, RedeemReset(c)
      PROVE  Persist
  BY <1>7 DEF RedeemReset, RevokeSessions, TypeOK, SessionRows, AccountRows
<1>. QED
  BY <1>1, <1>2, <1>3, <1>4, <1>5, <1>6, <1>7 DEF Next, Startup, Register, Request

LEMMA ReferencesStep ==
  ASSUME TypeOK, References, Next
  PROVE  References'
<1>0. TypeOK'
  BY TypeStep
<1>1. SessionReferences'
  <2> SUFFICES ASSUME NEW s \in Sessions, session'[s].status # "unissued"
               PROVE  account'[session'[s].user].status # "absent"
    BY DEF SessionReferences
  <2>1. CASE session[s].status # "unissued"
    <3>1. session[s].user \in Users
      BY <2>1 DEF TypeOK, SessionRows, NoSession
    <3>. QED
      BY <2>1, <3>1, RowsPersist DEF References, SessionReferences
  <2>2. CASE session[s].status = "unissued"
    <3>1. PICK u \in Users : /\ session'[s].user = u
                             /\ account'[u].status # "absent"
      <4> USE <2>2 DEF Issue, db
      <4>1. ASSUME NEW v \in Users, NEW password \in Passwords, NEW z \in Sessions,
                   \/ Signup(v, password, z)
                   \/ \E i \in Invites : InvitedSignup(v, password, i, z)
            PROVE  \E u \in Users : session'[s].user = u /\ account'[u].status # "absent"
        BY <4>1 DEF Signup, InvitedSignup, NewAccount, TypeOK
      <4>2. ASSUME NEW c \in Clients, NEW z \in Sessions, FinishLogin(c, z)
            PROVE  \E u \in Users : session'[s].user = u /\ account'[u].status # "absent"
        <5>1. client[c].user \in Users /\ account[client[c].user].status # "absent"
          BY <4>2, RequestFields DEF FinishLogin, TypeOK, References, RequestReferences
        <5>. QED
          BY <4>2, <5>1 DEF FinishLogin, TypeOK
      <4>3. ASSUME NEW c \in Clients, Logout(c)
            PROVE  FALSE
        BY <4>3 DEF Logout, TypeOK, References, RequestReferences
      <4>4. ASSUME NEW c \in Clients, Close(c) \/ RedeemReset(c)
            PROVE  FALSE
        BY <4>4 DEF Close, RedeemReset, RevokeSessions, TypeOK
      <4>. QED
        BY <4>1, <4>2, <4>3, <4>4 DEF Next, Startup, Register, Request, Serve,
           Crash, Tick, Seed, BeginLogin, Verify, Authenticate, Abandon,
           IssueInvite, IssueReset, BeginReset
    <3>. QED
      BY <3>1
  <2>. QED
    BY <2>1, <2>2
<1>2. RequestReferences'
  <2> SUFFICES ASSUME NEW c \in Clients
               PROVE  /\ client'[c].pc = "verifying" /\ client'[c].hash # None =>
                           account'[client'[c].user].status # "absent"
                      /\ client'[c].pc = "granted" =>
                           account'[client'[c].user].status # "absent"
                      /\ client'[c].pc = "authenticated" =>
                           /\ session'[client'[c].session].status # "unissued"
                           /\ session'[client'[c].session].user = client'[c].user
    BY DEF RequestReferences
  <2>1. CASE client'[c] = client[c]
    BY <2>1, RowsPersist, RequestFields DEF TypeOK, References, RequestReferences
  <2>2. CASE client'[c] = Idle
    BY <2>2 DEF Idle
  <2>3. ASSUME NEW u \in Users, NEW guess \in Passwords, BeginLogin(c, u, guess)
        PROVE  client'[c].pc = "verifying" /\
               (client'[c].hash # None => account'[client'[c].user].status # "absent")
    BY <2>3 DEF BeginLogin, Become, Enabled, TypeOK, db
  <2>4. CASE Verify(c) /\ client'[c] # Idle
    <3>1. client[c].pc = "verifying" /\ client[c].guess = client[c].hash
      BY <2>4 DEF Verify, Become, TypeOK
    <3>2. client[c].guess \in Passwords /\ client[c].hash # None
      BY <3>1, RequestFields, IdentityAssumption DEF TypeOK
    <3>3. account[client[c].user].status # "absent"
      BY <3>1, <3>2 DEF References, RequestReferences
    <3>. QED
      BY <2>4, <3>3 DEF Verify, Become, TypeOK, db
  <2>5. ASSUME NEW s \in Sessions, Authenticate(c, s)
        PROVE  /\ client'[c].pc = "authenticated"
               /\ session'[client'[c].session].status # "unissued"
               /\ session'[client'[c].session].user = client'[c].user
    BY <2>5 DEF Authenticate, LiveSession, Become, TypeOK, db
  <2>6. ASSUME NEW t \in Resets, NEW password \in Passwords, BeginReset(c, t, password)
        PROVE  client'[c].pc = "hashing"
    BY <2>6 DEF BeginReset, Become, TypeOK
  <2>7. \/ client'[c] \in {client[c], Idle}
        \/ Verify(c) /\ client'[c] # Idle
        \/ \E u \in Users, guess \in Passwords : BeginLogin(c, u, guess)
        \/ \E s \in Sessions : Authenticate(c, s)
        \/ \E t \in Resets, password \in Passwords : BeginReset(c, t, password)
    <3>1. CASE Startup \/ Register
      BY <3>1 DEF Startup, Register, Serve, Crash, Tick, Seed, Signup, InvitedSignup, TypeOK
    <3>2. ASSUME NEW d \in Clients, Request(d), d # c
          PROVE  client'[c] = client[c]
      BY <3>2 DEF Request, Become, BeginLogin, Verify, FinishLogin, Authenticate,
         Abandon, Logout, Close, IssueInvite, IssueReset, BeginReset, RedeemReset, TypeOK
    <3>3. CASE Request(c)
      BY <3>3 DEF Request, Become, FinishLogin, Abandon, Logout, Close,
         IssueInvite, IssueReset, RedeemReset, TypeOK
    <3>. QED
      BY <3>1, <3>2, <3>3 DEF Next
  <2>. QED
    BY <2>1, <2>2, <2>3, <2>4, <2>5, <2>6, <2>7
<1>. QED
  BY <1>1, <1>2 DEF References

-----------------------------------------------------------------------------
(* Accounts.                                                               *)

\* An account's row is never removed, a closed account never opens again, and
\* tenant and role stay those it was created with.
AccountPermanent(u) ==
  account[u].status # "absent" =>
    /\ account'[u].status \in {account[u].status, "disabled"}
    /\ account'[u].tenant = account[u].tenant
    /\ account'[u].admin = account[u].admin

\* One step changes an existing account only by closing it or by replacing its
\* password; a replacement counts a generation and revokes its sessions.
LEMMA AccountStep ==
  ASSUME TypeOK, References, Next, NEW u \in Users
  PROVE  /\ AccountPermanent(u)
         /\ account[u].status # "absent" => account'[u].invite = account[u].invite
<1> DEFINE Kept == /\ AccountPermanent(u)
                   /\ account[u].status # "absent" => account'[u].invite = account[u].invite
<1> USE DEF AccountPermanent
<1>0. account[u] \in AccountRows
  BY DEF TypeOK
<1>1. CASE UNCHANGED account
  BY <1>1
<1>2. ASSUME NEW v \in Seeds, Seed(v)
      PROVE  Kept
  BY <1>2, IdentityAssumption DEF Seed, FreeName, TypeOK
<1>3. ASSUME NEW v \in Users, NEW password \in Passwords, NEW s \in Sessions,
             \/ Signup(v, password, s)
             \/ \E i \in Invites : InvitedSignup(v, password, i, s)
      PROVE  Kept
  BY <1>3 DEF Signup, InvitedSignup, FreeName, TypeOK
<1>4. ASSUME NEW c \in Clients, Close(c)
      PROVE  Kept
  BY <1>0, <1>4 DEF Close, TypeOK, AccountRows
<1>5. ASSUME NEW c \in Clients, RedeemReset(c)
      PROVE  Kept
  BY <1>0, <1>5 DEF RedeemReset, TypeOK, AccountRows
<1>6. \/ UNCHANGED account
      \/ \E v \in Seeds : Seed(v)
      \/ Register
      \/ \E c \in Clients : Close(c) \/ RedeemReset(c)
  BY DEF Next, Startup, Request, Serve, Crash, Tick, BeginLogin, Verify, FinishLogin,
     Authenticate, Abandon, Logout, IssueInvite, IssueReset, BeginReset, db
<1>. QED
  BY <1>1, <1>2, <1>3, <1>4, <1>5, <1>6 DEF Register

-----------------------------------------------------------------------------
(* Sessions and password replacements.                                     *)

LEMMA SessionsStep ==
  ASSUME TypeOK, References, SessionsOutliveNoReset, Next
  PROVE  SessionsOutliveNoReset'
<1> SUFFICES ASSUME NEW s \in Sessions, session'[s].status = "active"
             PROVE  session'[s].issued = account'[session'[s].user].generation
  BY DEF SessionsOutliveNoReset
<1> USE DEF SessionsOutliveNoReset, db
<1>0. /\ session[s] \in SessionRows
      /\ session[s].status # "unissued" => session[s].user \in Users
  BY DEF TypeOK, SessionRows, NoSession
<1>1. CASE UNCHANGED <<account, session>>
  BY <1>1
<1>2. ASSUME NEW u \in Seeds, Seed(u)
      PROVE  session'[s].issued = account'[session'[s].user].generation
  BY <1>0, <1>2, IdentityAssumption
  DEF Seed, FreeName, TypeOK, References, SessionReferences
<1>3. ASSUME NEW u \in Users, NEW password \in Passwords, NEW z \in Sessions,
             \/ Signup(u, password, z)
             \/ \E i \in Invites : InvitedSignup(u, password, i, z)
      PROVE  session'[s].issued = account'[session'[s].user].generation
  <2>1. account[u].status = "absent" /\ account[u] = NoAccount
    BY <1>3 DEF Signup, InvitedSignup, FreeName, TypeOK, AccountRows
  <2>2. account'[u].generation = 0
    BY <1>3 DEF Signup, InvitedSignup, NewAccount, TypeOK
  <2>3. CASE s = z
    <3>1. Issue(s, u, 0)
      BY <1>3, <2>3 DEF Signup, InvitedSignup
    <3>2. session'[s].user = u /\ session'[s].issued = account[u].generation
      BY <3>1 DEF Issue, TypeOK
    <3>. QED
      BY <2>1, <2>2, <3>2 DEF NoAccount
  <2>4. CASE s # z
    <3>1. session'[s] = session[s]
      BY <1>3, <2>4 DEF Signup, InvitedSignup, Issue, TypeOK
    <3>2. session[s].user \in Users \ {u}
      BY <1>0, <2>1, <3>1 DEF References, SessionReferences
    <3>. QED
      BY <1>3, <3>1, <3>2 DEF Signup, InvitedSignup, TypeOK
  <2>. QED
    BY <2>3, <2>4
<1>4. ASSUME NEW c \in Clients, NEW z \in Sessions, FinishLogin(c, z)
      PROVE  session'[s].issued = account'[session'[s].user].generation
  BY <1>4 DEF FinishLogin, Issue, TypeOK
<1>5. ASSUME NEW c \in Clients, Logout(c)
      PROVE  session'[s].issued = account'[session'[s].user].generation
  <2>1. s # client[c].session
    <3> SUFFICES ASSUME s = client[c].session
                 PROVE  FALSE
      OBVIOUS
    <3>1. session[s].status # "unissued"
      BY <1>5 DEF Logout, References, RequestReferences
    <3>. QED
      BY <1>0, <1>5, <3>1 DEF Logout, TypeOK, SessionRows, NoSession
  <2>. QED
    BY <1>5, <2>1 DEF Logout, TypeOK
<1>6. ASSUME NEW c \in Clients, Close(c)
      PROVE  session'[s].issued = account'[session'[s].user].generation
  <2>1. session'[s] = session[s] /\ session[s].user # client[c].user
    BY <1>6 DEF Close, RevokeSessions
  <2>. QED
    BY <1>0, <1>6, <2>1 DEF Close, TypeOK
<1>7. ASSUME NEW c \in Clients, RedeemReset(c)
      PROVE  session'[s].issued = account'[session'[s].user].generation
  <2>1. session'[s] = session[s] /\ session[s].user # reset[client[c].token].user
    BY <1>7 DEF RedeemReset, RevokeSessions
  <2>. QED
    BY <1>0, <1>7, <2>1 DEF RedeemReset, TypeOK
<1>. QED
  BY <1>1, <1>2, <1>3, <1>4, <1>5, <1>6, <1>7
  DEF Next, Startup, Register, Request, Serve, Crash, Tick, BeginLogin, Verify,
      Authenticate, Abandon, IssueInvite, IssueReset, BeginReset

-----------------------------------------------------------------------------
(* Resets.                                                                 *)

LEMMA DeletedResets ==
  ASSUME TypeOK, NEW u \in Users, NEW t \in Resets,
         DeleteResets(u)[t].status = "live"
  PROVE  DeleteResets(u)[t] = reset[t] /\ reset[t].user # u
<1>1. reset[t].status = "live" /\ reset[t].user = u =>
        DeleteResets(u)[t].status = "void"
  BY DEF TypeOK, DeleteResets, ResetRows, NoReset
<1>2. ~(reset[t].status = "live" /\ reset[t].user = u) => DeleteResets(u)[t] = reset[t]
  BY DEF DeleteResets
<1>. QED
  BY <1>1, <1>2

LEMMA ResetsStep ==
  ASSUME TypeOK, References, OneResetPerOpenAccount, Next
  PROVE  OneResetPerOpenAccount'
<1> USE DEF OneResetPerOpenAccount, Enabled, db
<1>0. \A t \in Resets : reset[t].status # "unissued" => reset[t].user \in Users
  BY DEF TypeOK, ResetRows, NoReset
<1>1. ASSUME UNCHANGED reset,
             \A u \in Users : account[u].status = "enabled" => account'[u].status = "enabled"
      PROVE  OneResetPerOpenAccount'
  BY <1>0, <1>1
<1>2. ASSUME NEW u \in Users, Seed(u) \/ Register
      PROVE  OneResetPerOpenAccount'
  BY <1>1, <1>2 DEF Register, Seed, Signup, InvitedSignup, FreeName, NewAccount, TypeOK
<1>3. ASSUME NEW c \in Clients, Close(c)
      PROVE  OneResetPerOpenAccount'
  <2>1. \A t \in Resets : reset'[t].status = "live" =>
          reset'[t] = reset[t] /\ reset[t].user # client[c].user
    BY <1>3, DeletedResets, RequestFields DEF Close, TypeOK
  <2>. QED
    BY <1>0, <1>3, <2>1 DEF Close, TypeOK
<1>4. ASSUME NEW c \in Clients, NEW u \in Users, NEW t \in Resets, IssueReset(c, u, t)
      PROVE  OneResetPerOpenAccount'
  <2>1. reset'[t].user = u /\ account'[u].status = "enabled"
    BY <1>4 DEF IssueReset, DeleteResets
  <2>2. \A z \in Resets \ {t} : reset'[z].status = "live" =>
          reset'[z] = reset[z] /\ reset[z].user # u
    <3>1. \A z \in Resets \ {t} : reset'[z] = DeleteResets(u)[z]
      BY <1>4 DEF IssueReset, DeleteResets
    <3>. QED
      BY <3>1, DeletedResets
  <2>. QED
    BY <1>4, <2>1, <2>2 DEF IssueReset
<1>5. ASSUME NEW c \in Clients, RedeemReset(c)
      PROVE  OneResetPerOpenAccount'
  <2>1. client[c].token \in Resets
    BY <1>5, RequestFields DEF RedeemReset, TypeOK
  <2>2. \A t \in Resets : reset'[t].status = "live" =>
          reset'[t] = reset[t] /\ reset[t].user # reset[client[c].token].user
    <3> DEFINE z == client[c].token
    <3>1. reset[z].status = "live" /\ reset[z].user \in Users
      BY <1>0, <1>5, <2>1 DEF RedeemReset, Consume, Redeemable
    <3>2. reset'[z].status = "spent"
      BY <1>5, <2>1, <3>1 DEF RedeemReset, DeleteResets, TypeOK, ResetRows, NoReset
    <3>3. \A t \in Resets \ {z} : reset'[t] = DeleteResets(reset[z].user)[t]
      BY <1>5 DEF RedeemReset, DeleteResets
    <3>. QED
      BY <3>1, <3>2, <3>3, DeletedResets
  <2>3. \A u \in Users : account[u].status = "enabled" => account'[u].status = "enabled"
    BY <1>5 DEF RedeemReset, TypeOK, AccountRows, NoAccount
  <2>. QED
    BY <1>0, <2>2, <2>3
<1>6. CASE Serve \/ Crash \/ Tick \/ \E c \in Clients :
             \/ Verify(c) \/ Abandon(c) \/ Logout(c)
             \/ \E u \in Users, guess \in Passwords : BeginLogin(c, u, guess)
             \/ \E s \in Sessions : FinishLogin(c, s) \/ Authenticate(c, s)
             \/ \E i \in Invites : IssueInvite(c, i)
             \/ \E t \in Resets, password \in Passwords : BeginReset(c, t, password)
  <2>1. UNCHANGED <<account, reset>>
    BY <1>6 DEF Serve, Crash, Tick, Verify, Abandon, Logout, BeginLogin,
                FinishLogin, Authenticate, IssueInvite, BeginReset
  <2>. QED
    BY <1>1, <2>1
<1>. QED
  BY <1>2, <1>3, <1>4, <1>5, <1>6, IdentityAssumption DEF Next, Startup, Register, Request

-----------------------------------------------------------------------------
(* Tenants.                                                                *)

\* What TenantBoundary rests on: the issuer recorded with an invitation is an
\* admin of its tenant, an account's invitation is spent in its tenant, and a
\* token's session exists.
InviteAuthority ==
  \A i \in Invites : invite[i].status # "unissued" =>
    /\ account[invite[i].issuer].status # "absent"
    /\ account[invite[i].issuer].admin
    /\ account[invite[i].issuer].tenant = invite[i].tenant

AdmissionAuthority ==
  \A u \in Users : account[u].invite # None =>
    /\ invite[account[u].invite].status # "unissued"
    /\ account[u].tenant = invite[account[u].invite].tenant
    /\ ~account[u].admin

ResetAuthority ==
  \A t \in Resets : reset[t].status # "unissued" =>
    /\ account[reset[t].user].status # "absent"
    /\ session[reset[t].by].status # "unissued"
    /\ account[session[reset[t].by].user].tenant = account[reset[t].user].tenant
    /\ account[session[reset[t].by].user].admin

LEMMA InviteAuthorityStep ==
  ASSUME TypeOK, References, InviteAuthority, Next
  PROVE  InviteAuthority'
<1> SUFFICES ASSUME NEW i \in Invites, invite'[i].status # "unissued"
             PROVE  /\ account'[invite'[i].issuer].status # "absent"
                    /\ account'[invite'[i].issuer].admin
                    /\ account'[invite'[i].issuer].tenant = invite'[i].tenant
  BY DEF InviteAuthority
<1>1. CASE /\ invite[i].status # "unissued"
           /\ invite'[i].issuer = invite[i].issuer
           /\ invite'[i].tenant = invite[i].tenant
  <2>1. invite[i].issuer \in Users
    BY <1>1 DEF TypeOK, InviteRows, NoInvite
  <2>. QED
    BY <1>1, <2>1, AccountStep DEF InviteAuthority, AccountPermanent
<1>2. ASSUME NEW c \in Clients, IssueInvite(c, i)
      PROVE  /\ account'[invite'[i].issuer].status # "absent"
             /\ account'[invite'[i].issuer].admin
             /\ account'[invite'[i].issuer].tenant = invite'[i].tenant
  BY <1>2 DEF IssueInvite, AdminRequest, LiveSession, Enabled, TypeOK,
              References, RequestReferences
<1>3. \/ invite'[i] = invite[i]
      \/ /\ invite[i].status # "unissued"
         /\ invite'[i].issuer = invite[i].issuer
         /\ invite'[i].tenant = invite[i].tenant
      \/ \E c \in Clients : IssueInvite(c, i)
  <2>1. ASSUME NEW u \in Users, NEW password \in Passwords, NEW s \in Sessions,
               NEW j \in Invites, InvitedSignup(u, password, j, s)
        PROVE  \/ invite'[i] = invite[i]
               \/ /\ invite[i].status # "unissued"
                  /\ invite'[i].issuer = invite[i].issuer
                  /\ invite'[i].tenant = invite[i].tenant
    BY <2>1 DEF InvitedSignup, ConsumeInvite, Consumable, TypeOK, InviteRows
  <2>2. ASSUME NEW c \in Clients, NEW j \in Invites, IssueInvite(c, j), i # j
        PROVE  invite'[i] = invite[i]
    BY <2>2 DEF IssueInvite, TypeOK
  <2>. QED
    BY <2>1, <2>2 DEF Next, Startup, Register, Request, Serve, Crash, Tick, Seed,
       Signup, BeginLogin, Verify, FinishLogin, Authenticate, Abandon, Logout,
       Close, IssueReset, BeginReset, RedeemReset, db
<1>. QED
  BY <1>1, <1>2, <1>3

LEMMA AdmissionAuthorityStep ==
  ASSUME TypeOK, References, AdmissionAuthority, Next
  PROVE  AdmissionAuthority'
<1> SUFFICES ASSUME NEW u \in Users, account'[u].invite # None
             PROVE  /\ invite'[account'[u].invite].status # "unissued"
                    /\ account'[u].tenant = invite'[account'[u].invite].tenant
                    /\ ~account'[u].admin
  BY DEF AdmissionAuthority
<1> USE IdentityAssumption DEF db
<1>1. CASE /\ account[u].invite # None
           /\ account'[u].invite = account[u].invite
  <2> DEFINE i == account[u].invite
  <2>1. i \in Invites /\ account[u].status # "absent"
    BY <1>1 DEF TypeOK, AccountRows, NoAccount
  <2>2. invite'[i].status # "unissued" /\ invite'[i].tenant = invite[i].tenant
    <3>1. invite[i].status # "unissued" /\ invite[i] \in InviteRows
      BY <1>1, <2>1 DEF AdmissionAuthority, TypeOK
    <3>2. ASSUME NEW v \in Users, NEW password \in Passwords, NEW s \in Sessions,
                 NEW j \in Invites, InvitedSignup(v, password, j, s)
          PROVE  invite'[i].status # "unissued" /\ invite'[i].tenant = invite[i].tenant
      BY <2>1, <3>1, <3>2 DEF InvitedSignup, ConsumeInvite, TypeOK, InviteRows, NoInvite
    <3>3. ASSUME NEW c \in Clients, NEW j \in Invites, IssueInvite(c, j)
          PROVE  invite'[i] = invite[i]
      BY <2>1, <3>1, <3>3 DEF IssueInvite, TypeOK
    <3>. QED
      BY <3>1, <3>2, <3>3 DEF Next, Startup, Register, Request, Serve, Crash, Tick,
         Seed, Signup, BeginLogin, Verify, FinishLogin, Authenticate, Abandon,
         Logout, Close, IssueReset, BeginReset, RedeemReset
  <2>. QED
    BY <1>1, <2>1, <2>2, AccountStep DEF AdmissionAuthority, AccountPermanent
<1>2. ASSUME NEW password \in Passwords, NEW s \in Sessions, NEW i \in Invites,
             InvitedSignup(u, password, i, s)
      PROVE  /\ account'[u].invite = i
             /\ account'[u].tenant = invite'[i].tenant
             /\ ~account'[u].admin
             /\ invite'[i].status # "unissued"
  BY <1>2 DEF InvitedSignup, ConsumeInvite, Consumable, NewAccount, TypeOK,
              InviteRows, NoInvite
<1>3. \/ account[u].invite # None /\ account'[u].invite = account[u].invite
      \/ \E password \in Passwords, s \in Sessions, i \in Invites :
           InvitedSignup(u, password, i, s)
  <2>1. account[u].status # "absent" => account'[u].invite = account[u].invite
    BY AccountStep
  <2>2. CASE account[u].status = "absent"
    <3>1. account[u] = NoAccount
      BY <2>2 DEF TypeOK, AccountRows
    <3>2. ASSUME NEW v \in Users, Seed(v) \/ \E password \in Passwords, s \in Sessions : Signup(v, password, s)
          PROVE  account'[u].invite = None
      BY <3>1, <3>2 DEF Seed, Signup, NewAccount, NoAccount, TypeOK
    <3>3. ASSUME NEW v \in Users, v # u, NEW password \in Passwords, NEW s \in Sessions,
                 NEW i \in Invites, InvitedSignup(v, password, i, s)
          PROVE  account'[u].invite = None
      <4>1. account'[u] = account[u]
        BY <3>3 DEF InvitedSignup, TypeOK
      <4>. QED
        BY <3>1, <4>1 DEF NoAccount
    <3>4. ASSUME NEW c \in Clients, Close(c) \/ RedeemReset(c)
          PROVE  account'[u].invite = None
      BY <3>1, <3>4 DEF Close, RedeemReset, NoAccount, TypeOK
    <3>5. ASSUME UNCHANGED account
          PROVE  account'[u].invite = None
      BY <3>1, <3>5 DEF NoAccount
    <3>6. \/ UNCHANGED account
          \/ \E v \in Seeds : Seed(v)
          \/ Register
          \/ \E c \in Clients : Close(c) \/ RedeemReset(c)
      BY DEF Next, Startup, Request, Serve, Crash, Tick, BeginLogin, Verify,
         FinishLogin, Authenticate, Abandon, Logout, IssueInvite, IssueReset,
         BeginReset, db
    <3>7. Seeds \subseteq Users
      BY IdentityAssumption
    <3>. QED
      BY <3>2, <3>3, <3>4, <3>5, <3>6, <3>7 DEF Register
  <2>. QED
    BY <2>1, <2>2
<1>. QED
  BY <1>1, <1>2, <1>3

LEMMA ResetAuthorityStep ==
  ASSUME TypeOK, References, ResetAuthority, Next
  PROVE  ResetAuthority'
<1> SUFFICES ASSUME NEW t \in Resets, reset'[t].status # "unissued"
             PROVE  /\ account'[reset'[t].user].status # "absent"
                    /\ session'[reset'[t].by].status # "unissued"
                    /\ account'[session'[reset'[t].by].user].tenant = account'[reset'[t].user].tenant
                    /\ account'[session'[reset'[t].by].user].admin
  BY DEF ResetAuthority
<1>0. reset[t] \in ResetRows
  BY DEF TypeOK
<1>1. CASE /\ reset[t].status # "unissued"
           /\ reset'[t].user = reset[t].user
           /\ reset'[t].by = reset[t].by
  <2> DEFINE s == reset[t].by
  <2>1. reset[t].user \in Users /\ s \in Sessions
    BY <1>0, <1>1 DEF ResetRows, NoReset
  <2>2. session[s].status # "unissued"
    BY <1>1 DEF ResetAuthority
  <2>3. session[s].user \in Users /\ account[session[s].user].status # "absent"
    BY <2>1, <2>2 DEF TypeOK, SessionRows, NoSession, References, SessionReferences
  <2>. QED
    BY <1>1, <2>1, <2>2, <2>3, AccountStep, RowsPersist DEF ResetAuthority, AccountPermanent
<1>2. ASSUME NEW c \in Clients, NEW u \in Users, IssueReset(c, u, t)
      PROVE  /\ account'[reset'[t].user].status # "absent"
             /\ session'[reset'[t].by].status # "unissued"
             /\ account'[session'[reset'[t].by].user].tenant = account'[reset'[t].user].tenant
             /\ account'[session'[reset'[t].by].user].admin
  <2>1. reset'[t].user = u /\ reset'[t].by = client[c].session
    BY <1>2 DEF IssueReset, DeleteResets
  <2>. QED
    BY <1>2, <2>1 DEF IssueReset, SameTenant, AdminRequest, LiveSession, Enabled,
                      References, RequestReferences
<1>3. \/ /\ reset[t].status # "unissued"
         /\ reset'[t].user = reset[t].user
         /\ reset'[t].by = reset[t].by
      \/ \E c \in Clients, u \in Users : IssueReset(c, u, t)
  <2> DEFINE Same == /\ reset[t].status # "unissued"
                     /\ reset'[t].user = reset[t].user
                     /\ reset'[t].by = reset[t].by
  <2>1. ASSUME NEW u \in Users, reset'[t] = DeleteResets(u)[t]
        PROVE  Same
    BY <1>0, <2>1 DEF DeleteResets, ResetRows, NoReset
  <2>2. ASSUME NEW c \in Clients, NEW u \in Users, NEW z \in Resets, IssueReset(c, u, z), z # t
        PROVE  Same
    <3>1. reset'[t] = DeleteResets(u)[t]
      BY <2>2 DEF IssueReset, DeleteResets
    <3>. QED
      BY <2>1, <3>1
  <2>3. ASSUME NEW c \in Clients, Close(c)
        PROVE  Same
    BY <2>1, <2>3, RequestFields DEF Close, TypeOK
  <2>4. ASSUME NEW c \in Clients, RedeemReset(c)
        PROVE  Same
    <3> DEFINE z == client[c].token
    <3>1. z \in Resets /\ reset[z].status = "live" /\ reset[z].user \in Users
      BY <2>4, RequestFields
      DEF RedeemReset, Consume, Redeemable, TypeOK, ResetRows, NoReset
    <3>2. CASE t = z
      BY <1>0, <2>4, <3>1, <3>2 DEF RedeemReset, DeleteResets, ResetRows
    <3>3. CASE t # z
      <4>1. reset'[t] = DeleteResets(reset[z].user)[t]
        BY <2>4, <3>3 DEF RedeemReset, DeleteResets
      <4>. QED
        BY <2>1, <3>1, <4>1
    <3>. QED
      BY <3>2, <3>3
  <2>5. ASSUME UNCHANGED reset
        PROVE  Same
    BY <2>5
  <2>. QED
    BY <2>2, <2>3, <2>4, <2>5 DEF Next, Startup, Register, Request, Serve, Crash,
       Tick, Seed, Signup, InvitedSignup, BeginLogin, Verify, FinishLogin,
       Authenticate, Abandon, Logout, IssueInvite, BeginReset, db
<1>. QED
  BY <1>1, <1>2, <1>3

-----------------------------------------------------------------------------
(* The inductive invariant and the theorems.                               *)

IInv ==
  /\ TypeOK
  /\ References
  /\ SessionsOutliveNoReset
  /\ OneResetPerOpenAccount
  /\ InviteAuthority
  /\ AdmissionAuthority
  /\ ResetAuthority

LEMMA Invariance == Spec => []IInv
<1>1. Init => IInv
  BY InitInvariant
  DEF Init, IInv, SessionsOutliveNoReset, OneResetPerOpenAccount, InviteAuthority,
      AdmissionAuthority, ResetAuthority, NoAccount, NoSession, NoReset, NoInvite
<1>2. IInv /\ Next => IInv'
  BY TypeStep, ReferencesStep, SessionsStep, ResetsStep, InviteAuthorityStep,
     AdmissionAuthorityStep, ResetAuthorityStep
  DEF IInv
<1>3. IInv /\ UNCHANGED vars => IInv'
  BY DEF IInv, vars, TypeOK, References, SessionReferences, RequestReferences,
     SessionsOutliveNoReset, OneResetPerOpenAccount, Enabled, InviteAuthority,
     AdmissionAuthority, ResetAuthority
<1>. QED
  BY <1>1, <1>2, <1>3, PTL DEF Spec

\* Every row and every request in flight keeps its type, and therefore closing,
\* logging out and redeeming always write to a row that exists.
THEOREM TypeCorrect == Spec => []TypeOK
  BY Invariance, PTL DEF IInv

\* No session survives a replacement of its account's password.
THEOREM SessionsFollowResets == Spec => []SessionsOutliveNoReset
  BY Invariance, PTL DEF IInv

\* At most one stored reset per account, and none for a closed account.
THEOREM OneResetStored == Spec => []OneResetPerOpenAccount
  BY Invariance, PTL DEF IInv

\* Invitations and resets never cross the boundary of a tenant.
THEOREM TenantsAreBounded == Spec => []TenantBoundary
<1>1. IInv => TenantBoundary
  <2> SUFFICES ASSUME IInv
               PROVE  TenantBoundary
    OBVIOUS
  <2>1. InvitedIntoIssuersTenant
    <3> SUFFICES ASSUME NEW u \in Users, account[u].invite # None
                 PROVE  /\ ~account[u].admin
                        /\ account[u].tenant = account[invite[account[u].invite].issuer].tenant
                        /\ account[invite[account[u].invite].issuer].admin
      BY DEF InvitedIntoIssuersTenant
    <3>1. account[u].invite \in Invites
      BY DEF IInv, TypeOK, AccountRows, NoAccount
    <3>. QED
      BY <3>1 DEF IInv, AdmissionAuthority, InviteAuthority
  <2>2. ResetIssuedWithinTenant
    BY DEF IInv, ResetAuthority, ResetIssuedWithinTenant
  <2>. QED
    BY <2>1, <2>2 DEF TenantBoundary
<1>. QED
  BY <1>1, Invariance, PTL

\* Writing one row of the accounts writes that row of the registry.
LEMMA RegistryWrite ==
  ASSUME TypeOK, NEW v \in Users, NEW row, account' = [account EXCEPT ![v] = row]
  PROVE  [u \in Users |-> Registered(account'[u])]
           = [[u \in Users |-> Registered(account[u])] EXCEPT ![v] = Registered(row)]
BY DEF TypeOK

LEMMA RegistryStep ==
  ASSUME TypeOK, References, Next
  PROVE  Registry!Next \/ [u \in Users |-> Registered(account'[u])]
                           = [u \in Users |-> Registered(account[u])]
<1> DEFINE Opened(v, tenant, admin) ==
             /\ account[v].status = "absent"
             /\ \E password \in Passwords, via \in Invites \cup {None} :
                  account' = [account EXCEPT ![v] = NewAccount(password, tenant, admin, via)]
<1>0. \A v \in Users : account[v] \in AccountRows
  BY DEF TypeOK
<1>1. CASE UNCHANGED account
  BY <1>1
<1>2. ASSUME NEW v \in Users, NEW tenant \in Tenants, NEW isAdmin \in BOOLEAN,
             Opened(v, tenant, isAdmin)
      PROVE  Registry!Next
  <2>1. PICK password \in Passwords, via \in Invites \cup {None} :
          account' = [account EXCEPT ![v] = NewAccount(password, tenant, isAdmin, via)]
    BY <1>2
  <2>2. Registered(NewAccount(password, tenant, isAdmin, via))
          = [status |-> "enabled", tenant |-> tenant, admin |-> isAdmin]
    BY DEF Registered, NewAccount
  <2>3. Registered(account[v]) = None
    BY <1>2 DEF Registered
  <2>4. Registry!Open(v, tenant, isAdmin)
    BY <2>1, <2>2, <2>3, RegistryWrite DEF Registry!Open, Registry!FreeName
  <2> QED BY <2>4 DEF Registry!Next
<1>3. ASSUME NEW v \in Seeds, Seed(v)
      PROVE  Registry!Next
  <2>1. /\ v \in Users
        /\ SeedTenant[v] \in Tenants
        /\ (v \in SeedAdmins) \in BOOLEAN
        /\ SeedPassword \in Passwords
    BY IdentityAssumption
  <2>2. Opened(v, SeedTenant[v], v \in SeedAdmins)
    BY <1>3, <2>1 DEF Seed, FreeName
  <2> HIDE DEF Opened
  <2> QED BY <1>2, <2>1, <2>2
<1>4. ASSUME NEW v \in Users, NEW password \in Passwords, NEW s \in Sessions,
             Signup(v, password, s)
      PROVE  Registry!Next
  <2>1. v \in Tenants
    BY IdentityAssumption
  <2>2. Opened(v, v, TRUE)
    BY <1>4 DEF Signup, FreeName
  <2> HIDE DEF Opened
  <2> QED BY <1>2, <2>1, <2>2
<1>5. ASSUME NEW v \in Users, NEW password \in Passwords, NEW s \in Sessions,
             NEW i \in Invites, InvitedSignup(v, password, i, s)
      PROVE  Registry!Next
  <2>1. invite[i].tenant \in Tenants
    BY <1>5 DEF InvitedSignup, ConsumeInvite, Consumable, TypeOK, InviteRows, NoInvite
  <2>2. Opened(v, invite[i].tenant, FALSE)
    BY <1>5 DEF InvitedSignup, FreeName
  <2> HIDE DEF Opened
  <2> QED BY <1>2, <2>1, <2>2
<1>6. ASSUME NEW c \in Clients, Close(c)
      PROVE  Registry!Next
  <2> DEFINE v == client[c].user
  <2>0. client[c] \in Requests /\ client[c].pc = "authenticated"
    BY <1>6 DEF Close, TypeOK
  <2>1. v \in Users /\ client[c].session \in Sessions
    BY <2>0, RequestFields
  <2>2. account[v].status # "absent" /\ account[v] \in AccountRows
    BY <1>0, <2>0, <2>1 DEF References, RequestReferences, SessionReferences
  <2> DEFINE row == [account[v] EXCEPT !.status = "disabled"]
  <2>3. account' = [account EXCEPT ![v] = row]
    BY <1>6 DEF Close
  <2>4. /\ Registered(account[v]) \in
             [status : {"enabled", "disabled"}, tenant : Tenants, admin : BOOLEAN]
        /\ Registered(row) = [Registered(account[v]) EXCEPT !.status = "disabled"]
    <3>1. account[v] \in
            [status : {"enabled", "disabled"}, password : Passwords, tenant : Tenants,
             admin : BOOLEAN, invite : Invites \cup {None}, generation : Nat]
      BY <2>2 DEF AccountRows, NoAccount
    <3> QED BY <3>1 DEF Registered
  <2> HIDE DEF v, row
  <2> DEFINE names == [u \in Users |-> Registered(account[u])]
             closed == [u \in Users |-> Registered(account'[u])]
  <2>5. names[v] # None
    BY <2>1, <2>4, IdentityAssumption
  <2>6. closed = [names EXCEPT ![v] = Registered(row)]
    BY <2>1, <2>3, RegistryWrite
  <2>7. closed = [names EXCEPT ![v].status = "disabled"]
    BY <2>1, <2>4, <2>6
  <2>8. Registry!Close(v)
    BY <2>5, <2>7 DEF Registry!Close
  <2> QED BY <2>1, <2>8 DEF Registry!Next
<1>7. ASSUME NEW c \in Clients, RedeemReset(c)
      PROVE  [u \in Users |-> Registered(account'[u])]
               = [u \in Users |-> Registered(account[u])]
  <2>1. \A u \in Users : /\ account'[u].status = account[u].status
                         /\ account'[u].tenant = account[u].tenant
                         /\ account'[u].admin = account[u].admin
    BY <1>0, <1>7 DEF RedeemReset, TypeOK, AccountRows, NoAccount
  <2> QED BY <2>1 DEF Registered
<1>8. \/ UNCHANGED account
      \/ \E v \in Seeds : Seed(v)
      \/ Register
      \/ \E c \in Clients : Close(c) \/ RedeemReset(c)
  BY DEF Next, Startup, Request, Serve, Crash, Tick, BeginLogin, Verify, FinishLogin,
     Authenticate, Abandon, Logout, IssueInvite, IssueReset, BeginReset, db
<1> HIDE DEF Opened
<1>. QED
  BY <1>1, <1>3, <1>4, <1>5, <1>6, <1>7, <1>8 DEF Register

\* The accounts of the store implement the abstract accounts: other components
\* may take a username for one account, of one tenant and role, for ever.
THEOREM ImplementsAbstractAccounts == Spec => ImplementsAccounts
<1>1. Init => Registry!Init
  BY DEF Init, NoAccount, Registered, Registry!Init
<1>2. IInv /\ [Next]_vars =>
        [Registry!Next]_([u \in Users |-> Registered(account[u])])
  <2>1. CASE UNCHANGED vars
    BY <2>1 DEF vars
  <2>2. CASE IInv /\ Next
    BY <2>2, RegistryStep DEF IInv
  <2> QED BY <2>1, <2>2
<1>. QED
  BY <1>1, <1>2, Invariance, PTL DEF Spec, ImplementsAccounts, Registry!Spec

-----------------------------------------------------------------------------
(* Credentials, permits and the moment at which authority is read.         *)

LEMMA AuthorityStep ==
  ASSUME TypeOK, Next
  PROVE  /\ \A i \in Invites :
              /\ invite[i].status = "unissued" /\ invite'[i].status = "live" =>
                   LiveSession(invite'[i].by)
              /\ invite[i].status = "live" /\ invite'[i].status = "spent" =>
                   Enabled(invite[i].issuer)
         /\ \A t \in Resets :
              /\ reset[t].status = "unissued" /\ reset'[t].status = "live" =>
                   LiveSession(reset'[t].by)
              /\ reset[t].status # "spent" /\ reset'[t].status = "spent" =>
                   reset[t].expires > now /\ Enabled(reset[t].user)
<1>1. ASSUME NEW i \in Invites
      PROVE  /\ invite[i].status = "unissued" /\ invite'[i].status = "live" =>
                  LiveSession(invite'[i].by)
             /\ invite[i].status = "live" /\ invite'[i].status = "spent" =>
                  Enabled(invite[i].issuer)
  <2>1. CASE UNCHANGED invite
    BY <2>1
  <2>2. ASSUME NEW u \in Users, NEW password \in Passwords, NEW s \in Sessions,
               NEW j \in Invites, InvitedSignup(u, password, j, s)
        PROVE  \/ invite'[i] = invite[i]
               \/ Enabled(invite[i].issuer) /\ invite'[i].status = "spent"
                    /\ invite[i].status = "live"
    BY <2>2 DEF InvitedSignup, ConsumeInvite, Consumable, TypeOK, InviteRows, NoInvite
  <2>3. ASSUME NEW c \in Clients, NEW j \in Invites, IssueInvite(c, j)
        PROVE  \/ invite'[i] = invite[i]
               \/ LiveSession(invite'[i].by) /\ invite'[i].status = "live"
    BY <2>3 DEF IssueInvite, AdminRequest, TypeOK
  <2>4. \/ UNCHANGED invite
        \/ \E u \in Users, password \in Passwords, s \in Sessions, j \in Invites :
             InvitedSignup(u, password, j, s)
        \/ \E c \in Clients, j \in Invites : IssueInvite(c, j)
    BY DEF Next, Startup, Register, Request, Serve, Crash, Tick, Seed, Signup,
       BeginLogin, Verify, FinishLogin, Authenticate, Abandon, Logout, Close,
       IssueReset, BeginReset, RedeemReset, db
  <2>. QED
    BY <2>1, <2>2, <2>3, <2>4
<1>2. ASSUME NEW t \in Resets
      PROVE  /\ reset[t].status = "unissued" /\ reset'[t].status = "live" =>
                  LiveSession(reset'[t].by)
             /\ reset[t].status # "spent" /\ reset'[t].status = "spent" =>
                  reset[t].expires > now /\ Enabled(reset[t].user)
  <2>0. reset[t] \in ResetRows
    BY DEF TypeOK
  <2>1. CASE UNCHANGED reset
    BY <2>1
  <2>2. ASSUME NEW u, reset'[t] = DeleteResets(u)[t]
        PROVE  reset'[t] = reset[t] \/ reset'[t].status = "void"
    BY <2>0, <2>2 DEF DeleteResets, ResetRows, NoReset
  <2>3. ASSUME NEW c \in Clients, Close(c)
        PROVE  reset'[t] = reset[t] \/ reset'[t].status = "void"
    BY <2>2, <2>3 DEF Close
  <2>4. ASSUME NEW c \in Clients, NEW u \in Users, NEW z \in Resets, IssueReset(c, u, z)
        PROVE  \/ reset'[t] = reset[t]
               \/ reset'[t].status = "void"
               \/ LiveSession(reset'[t].by) /\ reset'[t].status = "live"
    <3>1. CASE t = z
      BY <2>4, <3>1 DEF IssueReset, AdminRequest, DeleteResets
    <3>2. CASE t # z
      BY <2>2, <2>4, <3>2 DEF IssueReset, DeleteResets
    <3>. QED
      BY <3>1, <3>2
  <2>5. ASSUME NEW c \in Clients, RedeemReset(c)
        PROVE  \/ reset'[t] = reset[t]
               \/ reset'[t].status = "void"
               \/ reset[t].expires > now /\ Enabled(reset[t].user) /\ reset'[t].status = "spent"
    <3>1. CASE t = client[c].token
      <4>1. Redeemable(t)
        BY <2>5, <3>1 DEF RedeemReset, Consume
      <4>2. reset[t].expires > now /\ Enabled(reset[t].user) /\ reset[t].status = "live"
        BY <4>1 DEF Redeemable
      <4>3. reset'[t] = [reset[t] EXCEPT !.status = "spent"]
        BY <2>5, <3>1 DEF RedeemReset, DeleteResets
      <4>. QED
        BY <2>0, <4>2, <4>3 DEF ResetRows, NoReset
    <3>2. CASE t # client[c].token
      BY <2>2, <2>5, <3>2 DEF RedeemReset, DeleteResets
    <3>. QED
      BY <3>1, <3>2
  <2>6. \/ UNCHANGED reset
        \/ \E c \in Clients : Close(c) \/ RedeemReset(c)
        \/ \E c \in Clients, u \in Users, z \in Resets : IssueReset(c, u, z)
    BY DEF Next, Startup, Register, Request, Serve, Crash, Tick, Seed, Signup,
       InvitedSignup, BeginLogin, Verify, FinishLogin, Authenticate, Abandon,
       Logout, IssueInvite, BeginReset, db
  <2>. QED
    BY <2>1, <2>3, <2>4, <2>5, <2>6
<1>. QED
  BY <1>1, <1>2

\* No request uses an authority that has lapsed since it was authenticated or
\* since it looked a token up.
THEOREM AuthorityReadWhenUsed == Spec => AuthorityIsCurrent
<1> DEFINE Step ==
      /\ \A i \in Invites :
           /\ invite[i].status = "unissued" /\ invite'[i].status = "live" =>
                LiveSession(invite'[i].by)
           /\ invite[i].status = "live" /\ invite'[i].status = "spent" =>
                Enabled(invite[i].issuer)
      /\ \A t \in Resets :
           /\ reset[t].status = "unissued" /\ reset'[t].status = "live" =>
                LiveSession(reset'[t].by)
           /\ reset[t].status # "spent" /\ reset'[t].status = "spent" =>
                reset[t].expires > now /\ Enabled(reset[t].user)
<1>1. TypeOK /\ [Next]_vars => [Step]_vars
  BY AuthorityStep
<1>. QED
  BY <1>1, TypeCorrect, PTL DEF Spec, AuthorityIsCurrent

\* The requests that hold a permit.
Verifying == {c \in Clients : client[c].pc = "verifying"}

PermitsInvariant == TypeOK /\ IsFiniteSet(Verifying) /\ PermitsConserved

LEMMA PermitsStep ==
  ASSUME PermitsInvariant, TypeOK', Next
  PROVE  PermitsInvariant'
<1> USE DEF PermitsInvariant
<1>0. /\ TypeOK
      /\ IsFiniteSet(Verifying)
      /\ permits + Cardinality(Verifying) = MaxVerifications
      /\ permits \in Nat
      /\ MaxVerifications \in Nat
      /\ Cardinality(Verifying) \in Nat
  BY FS_CardinalityType, IdentityAssumption DEF PermitsConserved, Verifying, TypeOK
<1> SUFFICES IsFiniteSet(Verifying') /\ permits' + Cardinality(Verifying') = MaxVerifications
  BY DEF PermitsConserved, Verifying
<1>1. CASE Verifying' = Verifying /\ permits' = permits
  BY <1>0, <1>1
<1>2. CASE Crash
  <2>1. Verifying' = {}
    BY <1>2 DEF Crash, Verifying, Idle
  <2>2. permits' = MaxVerifications
    BY <1>2 DEF Crash
  <2>. QED
    BY <1>0, <2>1, <2>2, FS_EmptySet
<1>3. ASSUME NEW c \in Clients, NEW u \in Users, NEW guess \in Passwords,
             BeginLogin(c, u, guess)
      PROVE  IsFiniteSet(Verifying') /\ permits' + Cardinality(Verifying') = MaxVerifications
  <2>1. c \notin Verifying
    BY <1>3 DEF BeginLogin, Verifying, Idle
  <2>2. Verifying' = Verifying \cup {c}
    BY <1>0, <1>3 DEF BeginLogin, Become, Verifying, TypeOK
  <2>3. permits' = permits - 1
    BY <1>3 DEF BeginLogin, TakePermit
  <2>4. IsFiniteSet(Verifying') /\ Cardinality(Verifying') = Cardinality(Verifying) + 1
    BY <1>0, <2>1, <2>2, FS_AddElement
  <2>. QED
    BY <1>0, <2>3, <2>4
<1>4. ASSUME NEW c \in Clients, Verify(c)
      PROVE  IsFiniteSet(Verifying') /\ permits' + Cardinality(Verifying') = MaxVerifications
  <2>1. c \in Verifying
    BY <1>4 DEF Verify, Verifying
  <2>2. Verifying' = Verifying \ {c}
    BY <1>0, <1>4 DEF Verify, Become, Verifying, TypeOK, Idle
  <2>3. permits' = permits + 1
    BY <1>4 DEF Verify, ReturnPermit
  <2>4. IsFiniteSet(Verifying') /\ Cardinality(Verifying') = Cardinality(Verifying) - 1
    BY <1>0, <2>1, <2>2, FS_RemoveElement
  <2>. QED
    BY <1>0, <2>3, <2>4
<1>5. ASSUME NEW c \in Clients,
             \/ \E s \in Sessions : FinishLogin(c, s) \/ Authenticate(c, s)
             \/ Abandon(c) \/ Logout(c) \/ Close(c) \/ RedeemReset(c)
             \/ \E i \in Invites : IssueInvite(c, i)
             \/ \E u \in Users, t \in Resets : IssueReset(c, u, t)
             \/ \E t \in Resets, password \in Passwords : BeginReset(c, t, password)
      PROVE  Verifying' = Verifying /\ permits' = permits
  <2>1. permits' = permits
    BY <1>5 DEF FinishLogin, Authenticate, Abandon, Logout, Close, RedeemReset,
       IssueInvite, IssueReset, BeginReset
  <2>2. \/ Become(c, Idle)
        \/ \E u, s : Become(c, [pc |-> "authenticated", user |-> u, session |-> s])
        \/ \E t, p : Become(c, [pc |-> "hashing", token |-> t, password |-> p])
    BY <1>5, Zenon DEF FinishLogin, Authenticate, Abandon, Logout, Close,
       RedeemReset, IssueInvite, IssueReset, BeginReset
  <2>3. client[c].pc # "verifying"
    <3>1. \/ client[c] = Idle
          \/ client[c].pc \in {"granted", "authenticated", "hashing"}
      BY <1>5 DEF FinishLogin, Authenticate, Abandon, Logout, Close,
         RedeemReset, IssueInvite, IssueReset, BeginReset, AdminRequest
    <3>. QED
      BY <3>1 DEF Idle
  <2>4. Verifying' = Verifying
    BY <1>0, <2>2, <2>3 DEF Become, Verifying, TypeOK, Idle
  <2>. QED
    BY <2>1, <2>4
<1>6. CASE Serve \/ Tick \/ (\E u \in Seeds : Seed(u)) \/ Register
  <2>1. UNCHANGED <<client, permits>>
    BY <1>6 DEF Serve, Tick, Seed, Register, Signup, InvitedSignup
  <2>. QED
    BY <1>1, <2>1 DEF Verifying
<1>. QED
  BY <1>1, <1>2, <1>3, <1>4, <1>5, <1>6 DEF Next, Startup, Request

\* However logins fail, are interrupted or die with the process, the semaphore
\* gets its permits back.
THEOREM PermitsAreConserved == Spec => []PermitsConserved
<1>1. Init => PermitsInvariant
  <2> SUFFICES ASSUME Init
               PROVE  PermitsInvariant
    OBVIOUS
  <2>1. Verifying = {}
    BY DEF Init, Verifying, Idle
  <2>2. TypeOK
    BY InitInvariant
  <2>3. IsFiniteSet(Verifying) /\ permits + Cardinality(Verifying) = MaxVerifications
    BY <2>1, FS_EmptySet, IdentityAssumption DEF Init
  <2>. QED
    BY <2>2, <2>3 DEF PermitsInvariant, PermitsConserved, Verifying
<1>2. TypeOK' /\ PermitsInvariant /\ [Next]_vars => PermitsInvariant'
  <2>1. ASSUME PermitsInvariant, UNCHANGED vars
        PROVE  PermitsInvariant'
    BY <2>1 DEF PermitsInvariant, PermitsConserved, Verifying, TypeOK, vars
  <2>. QED
    BY <2>1, PermitsStep
<1>. QED
  BY <1>1, <1>2, TypeCorrect, PTL DEF Spec, PermitsInvariant

\* The resets of u that were redeemed.
Redeemed(u) == {t \in Resets : reset[t].status = "spent" /\ reset[t].user = u}

CredentialsInvariant ==
  /\ TypeOK
  /\ \A u \in Users : IsFiniteSet(Redeemed(u))
  /\ CredentialsSpentOnce

\* An account without a row carries no invitation and had no replacement.
LEMMA NewAccountsAreBlank ==
  ASSUME TypeOK, NEW u \in Users, FreeName(u)
  PROVE  account[u].invite = None /\ account[u].generation = 0
  BY DEF TypeOK, AccountRows, NoAccount, FreeName

LEMMA RedeemedStep ==
  ASSUME CredentialsInvariant, Next, NEW u \in Users
  PROVE  /\ IsFiniteSet(Redeemed(u)')
         /\ account'[u].generation = Cardinality(Redeemed(u)')
<1>0. /\ TypeOK
      /\ IsFiniteSet(Redeemed(u))
      /\ account[u].generation = Cardinality(Redeemed(u))
      /\ account[u] \in AccountRows
      /\ \A t \in Resets : reset[t] \in ResetRows
  BY DEF CredentialsInvariant, CredentialsSpentOnce, ResetSpentOnce, Redeemed, TypeOK
<1>1. ASSUME account'[u].generation = account[u].generation,
             \A t \in Resets : \/ reset'[t] = reset[t]
                               \/ reset[t].status # "spent" /\ reset'[t].status # "spent"
      PROVE  /\ IsFiniteSet(Redeemed(u)')
             /\ account'[u].generation = Cardinality(Redeemed(u)')
  <2>1. Redeemed(u)' = Redeemed(u)
    BY <1>1 DEF Redeemed
  <2>. QED
    BY <1>0, <1>1, <2>1
<1>2. ASSUME NEW v, NEW t \in Resets
      PROVE  \/ DeleteResets(v)[t] = reset[t]
             \/ reset[t].status # "spent" /\ DeleteResets(v)[t].status # "spent"
  BY <1>0 DEF DeleteResets, ResetRows, NoReset
<1>3. CASE UNCHANGED <<account, reset>>
  BY <1>1, <1>3
<1>4. ASSUME NEW v \in Users,
             \/ v \in Seeds /\ Seed(v)
             \/ \E password \in Passwords, s \in Sessions :
                  \/ Signup(v, password, s)
                  \/ \E i \in Invites : InvitedSignup(v, password, i, s)
      PROVE  account'[u].generation = account[u].generation /\ UNCHANGED reset
  <2>1. FreeName(v) /\ UNCHANGED reset
    BY <1>4 DEF Seed, Signup, InvitedSignup
  <2>2. CASE u = v
    <3>1. account'[u].generation = 0
      BY <1>0, <1>4, <2>2 DEF Seed, Signup, InvitedSignup, NewAccount, TypeOK
    <3>. QED
      BY <1>0, <2>1, <2>2, <3>1, NewAccountsAreBlank
  <2>3. CASE u # v
    BY <1>0, <1>4, <2>1, <2>3 DEF Seed, Signup, InvitedSignup, TypeOK
  <2>. QED
    BY <2>2, <2>3
<1>5. ASSUME NEW c \in Clients, Close(c)
      PROVE  /\ account'[u].generation = account[u].generation
             /\ reset' = DeleteResets(client[c].user)
  BY <1>0, <1>5 DEF Close, TypeOK, AccountRows, NoAccount
<1>6. ASSUME NEW c \in Clients, NEW v \in Users, NEW z \in Resets, IssueReset(c, v, z),
             NEW t \in Resets
      PROVE  \/ reset'[t] = reset[t]
             \/ reset[t].status # "spent" /\ reset'[t].status # "spent"
  <2>1. CASE t = z
    BY <1>6, <2>1 DEF IssueReset, DeleteResets
  <2>2. CASE t # z
    BY <1>2, <1>6, <2>2 DEF IssueReset, DeleteResets
  <2>. QED
    BY <2>1, <2>2
<1>7. ASSUME NEW c \in Clients, RedeemReset(c)
      PROVE  /\ IsFiniteSet(Redeemed(u)')
             /\ account'[u].generation = Cardinality(Redeemed(u)')
  <2> DEFINE z == client[c].token
             v == reset[z].user
  <2>1. z \in Resets /\ reset[z].status = "live" /\ v \in Users
    BY <1>0, <1>7, RequestFields
    DEF RedeemReset, Consume, Redeemable, TypeOK, ResetRows, NoReset
  <2>2. reset'[z] = [reset[z] EXCEPT !.status = "spent"]
    BY <1>7, <2>1 DEF RedeemReset, DeleteResets
  <2>3. reset'[z].status = "spent" /\ reset'[z].user = v
    BY <1>0, <2>1, <2>2 DEF ResetRows, NoReset
  <2>4. \A t \in Resets \ {z} : reset'[t] = DeleteResets(v)[t]
    BY <1>7 DEF RedeemReset, DeleteResets
  <2>5. \A t \in Resets \ {z} :
          \/ reset'[t] = reset[t]
          \/ reset[t].status # "spent" /\ reset'[t].status # "spent"
    BY <1>2, <2>4
  <2>6. CASE u = v
    <3>1. Redeemed(u)' = Redeemed(u) \cup {z} /\ z \notin Redeemed(u)
      BY <2>1, <2>3, <2>5, <2>6 DEF Redeemed
    <3>2. account'[u].generation = account[u].generation + 1
      BY <1>0, <1>7, <2>1, <2>6 DEF RedeemReset, TypeOK, AccountRows, NoAccount
    <3>3. /\ IsFiniteSet(Redeemed(u) \cup {z})
          /\ Cardinality(Redeemed(u) \cup {z}) = Cardinality(Redeemed(u)) + 1
      BY <1>0, <3>1, FS_AddElement
    <3>4. Redeemed(u)' = Redeemed(u) \cup {z}
      BY <3>1
    <3> HIDE DEF z
    <3>. QED
      BY <1>0, <3>2, <3>3, <3>4, Zenon
  <2>7. CASE u # v
    <3>1. Redeemed(u)' = Redeemed(u)
      BY <2>1, <2>3, <2>5, <2>7 DEF Redeemed
    <3>2. account'[u] = account[u]
      BY <1>0, <1>7, <2>1, <2>7 DEF RedeemReset, TypeOK
    <3>. QED
      BY <1>0, <3>1, <3>2
  <2>. QED
    BY <2>6, <2>7
<1>8. \/ UNCHANGED <<account, reset>>
      \/ \E v \in Seeds : Seed(v)
      \/ Register
      \/ \E c \in Clients : Close(c) \/ RedeemReset(c)
      \/ \E c \in Clients, v \in Users, z \in Resets : IssueReset(c, v, z)
  BY DEF Next, Startup, Request, Serve, Crash, Tick, BeginLogin, Verify,
     FinishLogin, Authenticate, Abandon, Logout, IssueInvite, BeginReset, db
<1>9. Seeds \subseteq Users
  BY IdentityAssumption
<1>10. CASE (\E v \in Seeds : Seed(v)) \/ Register
  <2>1. account'[u].generation = account[u].generation /\ UNCHANGED reset
    BY <1>4, <1>9, <1>10 DEF Register
  <2>. QED
    BY <1>1, <2>1
<1>11. ASSUME NEW c \in Clients, Close(c)
       PROVE  /\ IsFiniteSet(Redeemed(u)')
              /\ account'[u].generation = Cardinality(Redeemed(u)')
  BY <1>1, <1>2, <1>5, <1>11
<1>12. ASSUME NEW c \in Clients, NEW v \in Users, NEW z \in Resets, IssueReset(c, v, z)
       PROVE  /\ IsFiniteSet(Redeemed(u)')
              /\ account'[u].generation = Cardinality(Redeemed(u)')
  <2>1. UNCHANGED account
    BY <1>12 DEF IssueReset
  <2>. QED
    BY <1>1, <1>6, <1>12, <2>1
<1>. QED
  BY <1>3, <1>7, <1>8, <1>10, <1>11, <1>12

\* i admitted an account if and only if it is spent, and admitted one.
LEMMA AdmittedStep ==
  ASSUME TypeOK, InviteAdmitsOne, Next
  PROVE  InviteAdmitsOne'
<1> SUFFICES ASSUME NEW i \in Invites
             PROVE  /\ invite'[i].status = "spent" <=> \E u \in Users : account'[u].invite = i
                    /\ \A u, v \in Users :
                         account'[u].invite = i /\ account'[v].invite = i => u = v
  BY DEF InviteAdmitsOne
<1>0. /\ invite[i].status = "spent" <=> \E u \in Users : account[u].invite = i
      /\ \A u, v \in Users : account[u].invite = i /\ account[v].invite = i => u = v
      /\ \A u \in Users : account[u] \in AccountRows
      /\ None \notin Invites /\ Seeds \subseteq Users
      /\ invite[i] \in InviteRows
  BY IdentityAssumption DEF InviteAdmitsOne, TypeOK
<1>1. ASSUME \A u \in Users : account'[u].invite = account[u].invite,
             invite'[i].status = "spent" <=> invite[i].status = "spent"
      PROVE  /\ invite'[i].status = "spent" <=> \E u \in Users : account'[u].invite = i
             /\ \A u, v \in Users :
                  account'[u].invite = i /\ account'[v].invite = i => u = v
  BY <1>0, <1>1
<1>2. ASSUME NEW w \in Users,
             \/ w \in Seeds /\ Seed(w)
             \/ \E password \in Passwords, s \in Sessions : Signup(w, password, s)
      PROVE  /\ \A u \in Users : account'[u].invite = account[u].invite
             /\ UNCHANGED invite
  <2>1. FreeName(w) /\ UNCHANGED invite
    BY <1>2 DEF Seed, Signup
  <2>2. account'[w].invite = None
    BY <1>2 DEF Seed, Signup, NewAccount, TypeOK
  <2>3. \A u \in Users \ {w} : account'[u] = account[u]
    BY <1>2 DEF Seed, Signup, TypeOK
  <2>. QED
    BY <2>1, <2>2, <2>3, NewAccountsAreBlank
<1>3. ASSUME NEW w \in Users, NEW password \in Passwords, NEW s \in Sessions,
             NEW j \in Invites, InvitedSignup(w, password, j, s)
      PROVE  /\ invite'[i].status = "spent" <=> \E u \in Users : account'[u].invite = i
             /\ \A u, v \in Users :
                  account'[u].invite = i /\ account'[v].invite = i => u = v
  <2>1. account'[w].invite = j /\ account[w].invite = None
    BY <1>3, NewAccountsAreBlank DEF InvitedSignup, NewAccount, TypeOK
  <2>2. \A u \in Users \ {w} : account'[u] = account[u]
    BY <1>3 DEF InvitedSignup, TypeOK
  <2>3. CASE i = j
    <3>1. invite[i].status = "live"
      BY <1>3, <2>3 DEF InvitedSignup, ConsumeInvite, Consumable
    <3>2. invite'[i].status = "spent"
      BY <1>0, <1>3, <2>3, <3>1
      DEF InvitedSignup, ConsumeInvite, TypeOK, InviteRows, NoInvite
    <3>3. \A u \in Users : account[u].invite # i
      BY <1>0, <3>1
    <3>. QED
      BY <2>1, <2>2, <2>3, <3>2, <3>3
  <2>4. CASE i # j
    <3>1. invite'[i] = invite[i]
      BY <1>3, <2>4 DEF InvitedSignup, ConsumeInvite, TypeOK
    <3>2. \A u \in Users : account'[u].invite = i <=> account[u].invite = i
      BY <1>0, <2>1, <2>2, <2>4
    <3>. QED
      BY <1>0, <3>1, <3>2
  <2>. QED
    BY <2>3, <2>4
<1>4. ASSUME NEW c \in Clients, Close(c) \/ RedeemReset(c)
      PROVE  (\A u \in Users : account'[u].invite = account[u].invite) /\ UNCHANGED invite
  BY <1>0, <1>4 DEF Close, RedeemReset, TypeOK, AccountRows, NoAccount
<1>5. ASSUME NEW c \in Clients, NEW j \in Invites, IssueInvite(c, j)
      PROVE  UNCHANGED account /\ (invite'[i].status = "spent" <=> invite[i].status = "spent")
  BY <1>5 DEF IssueInvite, TypeOK
<1>6. \/ UNCHANGED <<account, invite>>
      \/ \E w \in Seeds : Seed(w)
      \/ Register
      \/ \E c \in Clients : Close(c) \/ RedeemReset(c)
      \/ \E c \in Clients, j \in Invites : IssueInvite(c, j)
  BY DEF Next, Startup, Request, Serve, Crash, Tick, BeginLogin, Verify,
     FinishLogin, Authenticate, Abandon, Logout, IssueReset, BeginReset, db
<1>7. CASE UNCHANGED <<account, invite>>
  BY <1>1, <1>7
<1>8. CASE \E w \in Seeds : Seed(w)
  BY <1>0, <1>1, <1>2, <1>8
<1>9. CASE Register
  BY <1>1, <1>2, <1>3, <1>9 DEF Register
<1>10. CASE \E c \in Clients : Close(c) \/ RedeemReset(c)
  BY <1>1, <1>4, <1>10
<1>11. CASE \E c \in Clients, j \in Invites : IssueInvite(c, j)
  BY <1>1, <1>5, <1>11
<1>. QED
  BY <1>6, <1>7, <1>8, <1>9, <1>10, <1>11

\* A reset replaces one password and an invitation admits one account, however
\* many requests have looked them up.
THEOREM CredentialsAreSpentOnce == Spec => []CredentialsSpentOnce
<1>1. Init => CredentialsInvariant
  <2> SUFFICES ASSUME Init
               PROVE  CredentialsInvariant
    OBVIOUS
  <2>1. \A u \in Users : Redeemed(u) = {} /\ account[u].generation = 0
    BY DEF Init, Redeemed, NoReset, NoAccount
  <2>2. ResetSpentOnce
    BY <2>1, FS_EmptySet DEF ResetSpentOnce, Redeemed
  <2>3. InviteAdmitsOne
    BY IdentityAssumption DEF Init, InviteAdmitsOne, NoAccount, NoInvite
  <2>. QED
    BY <2>1, <2>2, <2>3, InitInvariant, FS_EmptySet
    DEF CredentialsInvariant, CredentialsSpentOnce
<1>2. TypeOK' /\ CredentialsInvariant /\ [Next]_vars => CredentialsInvariant'
  <2>1. ASSUME CredentialsInvariant, UNCHANGED vars
        PROVE  CredentialsInvariant'
    BY <2>1 DEF CredentialsInvariant, CredentialsSpentOnce, ResetSpentOnce,
       InviteAdmitsOne, Redeemed, TypeOK, vars
  <2>2. ASSUME CredentialsInvariant, TypeOK', Next
        PROVE  CredentialsInvariant'
    <3>1. InviteAdmitsOne'
      BY <2>2, AdmittedStep DEF CredentialsInvariant, CredentialsSpentOnce
    <3>2. \A u \in Users : /\ IsFiniteSet(Redeemed(u)')
                           /\ account'[u].generation = Cardinality(Redeemed(u)')
      BY <2>2, RedeemedStep
    <3>. QED
      BY <2>2, <3>1, <3>2
      DEF CredentialsInvariant, CredentialsSpentOnce, ResetSpentOnce, Redeemed
  <2>. QED
    BY <2>1, <2>2
<1>. QED
  BY <1>1, <1>2, TypeCorrect, PTL DEF Spec, CredentialsInvariant
=============================================================================
