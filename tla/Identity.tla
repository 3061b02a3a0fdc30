------------------------------ MODULE Identity ------------------------------
(***************************************************************************)
(* The SQLite identity store of effect-domains: accounts, sessions, tenant *)
(* invitations and password resets, the login semaphore, and the requests  *)
(* that interleave between one database statement (or transaction) and the *)
(* next.  A transaction of the code is one action; every await outside a   *)
(* transaction is a point where other requests, the clock or a crash may   *)
(* run.                                                                    *)
(*                                                                         *)
(* Fields marked "history" are not columns of the store: they record what  *)
(* a row was granted for, so that the properties can speak about it.       *)
(* An operator named Fault... is a plausible mistake in the definition that *)
(* follows it; no action uses it.                                          *)
(***************************************************************************)
EXTENDS Integers, FiniteSets

CONSTANTS
  Users,             \* usernames
  Tenants,           \* tenant identifiers; a username may serve as one
  Seeds,             \* usernames configured to be inserted at startup
  SeedTenant,        \* the tenant of each configured account
  SeedAdmins,        \* configured accounts whose roles contain "admin"
  SeedPassword,      \* the configured password of the seeded accounts
  Passwords,
  Sessions,          \* session rows the store may come to hold
  Resets,            \* password-reset tokens that may be drawn
  Invites,           \* invitation tokens that may be drawn
  Clients,           \* concurrent requests
  MaxVerifications,  \* permits of the password-verification semaphore
  SessionLifetime,
  TokenLifetime,     \* lifetime of resets and invitations
  MaxTime,           \* bound on the modelled clock
  None               \* no password, no tenant, no invitation

ASSUME IdentityAssumption ==
  /\ Users \subseteq Tenants
  /\ Seeds \subseteq Users
  /\ SeedTenant \in [Seeds -> Tenants]
  /\ SeedAdmins \subseteq Seeds
  /\ SeedPassword \in Passwords
  /\ None \notin Tenants \cup Passwords \cup Invites
  /\ None \notin
       [status : {"enabled", "disabled"}, tenant : Tenants, admin : BOOLEAN]
  /\ MaxVerifications \in Nat \ {0}
  /\ SessionLifetime \in Nat \ {0}
  /\ TokenLifetime \in Nat \ {0}
  /\ MaxTime \in Nat

VARIABLES
  server,   \* "starting" while the layer seeds its accounts, then "serving"
  account,  \* identity_accounts, by username
  session,  \* identity_sessions
  reset,    \* identity_password_resets
  invite,   \* identity_tenant_invites
  client,   \* what each request in flight remembers
  permits,  \* free permits of the password-verification semaphore
  now       \* the clock, in units of the lifetimes

db == <<account, session, reset, invite>>
vars == <<server, account, session, reset, invite, client, permits, now>>

-----------------------------------------------------------------------------
(* Rows and requests.                                                      *)

\* generation counts the password replacements of the account and invite is
\* the invitation its holder signed up with: both are history.
NoAccount ==
  [status |-> "absent", password |-> None, tenant |-> None, admin |-> FALSE,
   invite |-> None, generation |-> 0]

NewAccount(password, tenant, admin, via) ==
  [status |-> "enabled", password |-> password, tenant |-> tenant,
   admin |-> admin, invite |-> via, generation |-> 0]

AccountRows ==
  {NoAccount} \cup
  [status : {"enabled", "disabled"}, password : Passwords, tenant : Tenants,
   admin : BOOLEAN, invite : Invites \cup {None}, generation : Nat]

\* verified is the generation of the password that granted the session and
\* issued the generation of the account when its row was inserted: history.
NoSession == [status |-> "unissued"]
SessionRows ==
  {NoSession} \cup
  [status : {"active", "revoked"}, user : Users, expires : Nat,
   verified : Nat, issued : Nat]

\* by is the session whose request issued the token: history, and so are the
\* rows "spent" and "void", which the store deletes.
NoReset == [status |-> "unissued"]
ResetRows ==
  {NoReset} \cup
  [status : {"live", "spent", "void"}, user : Users, expires : Nat,
   by : Sessions]

NoInvite == [status |-> "unissued"]
InviteRows ==
  {NoInvite} \cup
  [status : {"live", "spent"}, tenant : Tenants, issuer : Users,
   expires : Nat, by : Sessions]

Idle == [pc |-> "idle"]
Requests ==
  {Idle}
  \cup [pc : {"verifying"}, user : Users, guess : Passwords,
        hash : Passwords \cup {None}, generation : Nat]
  \cup [pc : {"granted"}, user : Users, generation : Nat]
  \cup [pc : {"authenticated"}, user : Users, session : Sessions]
  \cup [pc : {"hashing"}, token : Resets, password : Passwords]

TypeOK ==
  /\ server \in {"starting", "serving"}
  /\ account \in [Users -> AccountRows]
  /\ session \in [Sessions -> SessionRows]
  /\ reset \in [Resets -> ResetRows]
  /\ invite \in [Invites -> InviteRows]
  /\ client \in [Clients -> Requests]
  /\ permits \in Nat
  /\ now \in 0..MaxTime

Init ==
  /\ server = "starting"
  /\ account = [u \in Users |-> NoAccount]
  /\ session = [s \in Sessions |-> NoSession]
  /\ reset = [t \in Resets |-> NoReset]
  /\ invite = [i \in Invites |-> NoInvite]
  /\ client = [c \in Clients |-> Idle]
  /\ permits = MaxVerifications
  /\ now = 0

-----------------------------------------------------------------------------
(* Queries.                                                                *)

Enabled(u) == account[u].status = "enabled"

\* sessionFor and requesterFor: the row is unrevoked, unexpired, and its
\* account is not disabled.
LiveSession(s) ==
  /\ session[s].status = "active"
  /\ session[s].expires > now
  /\ Enabled(session[s].user)

\* activeToken over the resets: resetExists and consume use the same clause.
Redeemable(t) ==
  /\ reset[t].status = "live"
  /\ reset[t].expires > now
  /\ Enabled(reset[t].user)

\* activeToken over the invitations, whose owner is the issuing admin.
Consumable(i) ==
  /\ invite[i].status = "live"
  /\ invite[i].expires > now
  /\ Enabled(invite[i].issuer)

\* The username has no row: insertAccount and the seeds conflict with any row,
\* also one that is disabled.
FaultClosedNameIsFree(u) == ~Enabled(u)
FreeName(u) == account[u].status = "absent"

FaultAnyTenant(u, v) == TRUE
SameTenant(u, v) == account[u].tenant = account[v].tenant

\* adminTenant succeeds: it reads the session and the account again, inside
\* the transaction of the request that c authenticated earlier.
AdminRequest(c) ==
  /\ client[c].pc = "authenticated"
  /\ LiveSession(client[c].session)
  /\ account[client[c].user].admin

Become(c, request) == client' = [client EXCEPT ![c] = request]

-----------------------------------------------------------------------------
(* Startup.                                                                *)

\* seedAccounts: one configured account the table does not hold yet.  The
\* INSERT does nothing on a conflict, so a restart resets no account.
Seed(u) ==
  /\ server = "starting"
  /\ FreeName(u)
  /\ account' = [account EXCEPT
       ![u] = NewAccount(SeedPassword, SeedTenant[u], u \in SeedAdmins, None)]
  /\ UNCHANGED <<server, session, reset, invite, client, permits, now>>

\* The layer is built once every configured account exists.
Serve ==
  /\ server = "starting"
  /\ \A u \in Seeds : account[u].status # "absent"
  /\ server' = "serving"
  /\ UNCHANGED <<account, session, reset, invite, client, permits, now>>

\* The process dies: requests and permits are memory, the tables persist.
Crash ==
  /\ server' = "starting"
  /\ client' = [c \in Clients |-> Idle]
  /\ permits' = MaxVerifications
  /\ UNCHANGED <<db, now>>

Tick ==
  /\ now < MaxTime
  /\ now' = now + 1
  /\ UNCHANGED <<server, db, client, permits>>

-----------------------------------------------------------------------------
(* Sessions.                                                               *)

\* issueSession: a fresh row for u, granted by the password of a generation.
\* The account is not read again.
Issue(s, u, verified) ==
  /\ session[s].status = "unissued"
  /\ session' = [session EXCEPT
       ![s] = [status |-> "active", user |-> u,
               expires |-> now + SessionLifetime,
               verified |-> verified, issued |-> account[u].generation]]

\* The semaphore of two password verifications: withPermitsIfAvailable(1).
TakePermit == permits > 0 /\ permits' = permits - 1

FaultKeepPermit == UNCHANGED permits
ReturnPermit == permits' = permits + 1

\* login takes a permit (or is refused at once), reads the enabled account
\* and hands the captured hash, or the dummy one, to the verification.
BeginLogin(c, u, guess) ==
  /\ server = "serving"
  /\ client[c] = Idle
  /\ TakePermit
  /\ Become(c, [pc |-> "verifying", user |-> u, guess |-> guess,
                hash |-> IF Enabled(u) THEN account[u].password ELSE None,
                generation |-> account[u].generation])
  /\ UNCHANGED <<server, db, now>>

\* The verification settles (it may also fail) and the permit is returned.
Verify(c) ==
  /\ client[c].pc = "verifying"
  /\ ReturnPermit
  /\ \/ /\ client[c].guess = client[c].hash
        /\ Become(c, [pc |-> "granted", user |-> client[c].user,
                      generation |-> client[c].generation])
     \/ Become(c, Idle)
  /\ UNCHANGED <<server, db, now>>

\* A verified login inserts its session, in no transaction.
FinishLogin(c, s) ==
  /\ client[c].pc = "granted"
  /\ Issue(s, client[c].user, client[c].generation)
  /\ Become(c, Idle)
  /\ UNCHANGED <<server, account, reset, invite, permits, now>>

\* authenticateIdentity: the bearer of s is recognised; the request keeps
\* the identity it read.
Authenticate(c, s) ==
  /\ server = "serving"
  /\ client[c] = Idle
  /\ LiveSession(s)
  /\ Become(c, [pc |-> "authenticated", user |-> session[s].user,
                session |-> s])
  /\ UNCHANGED <<server, db, permits, now>>

\* A request ends without a change: identity.current answers, an operation is
\* refused, a statement fails, or the caller interrupts it.  A verification
\* in progress is uninterruptible.
Abandon(c) ==
  /\ client[c].pc \in {"granted", "authenticated", "hashing"}
  /\ Become(c, Idle)
  /\ UNCHANGED <<server, db, permits, now>>

\* logout: revokes the presented session, unless it is revoked already.
Logout(c) ==
  /\ client[c].pc = "authenticated"
  /\ session' = [session EXCEPT ![client[c].session].status = "revoked"]
  /\ Become(c, Idle)
  /\ UNCHANGED <<server, account, reset, invite, permits, now>>

-----------------------------------------------------------------------------
(* Accounts.                                                               *)

\* The tables after every unrevoked session of u was revoked, and after the
\* stored resets of u were deleted.
FaultRevokeNothing(u) == session
RevokeSessions(u) ==
  [s \in Sessions |->
    IF session[s].status = "active" /\ session[s].user = u
      THEN [session[s] EXCEPT !.status = "revoked"] ELSE session[s]]

FaultKeepResets(u) == reset
DeleteResets(u) ==
  [t \in Resets |->
    IF reset[t].status = "live" /\ reset[t].user = u
      THEN [reset[t] EXCEPT !.status = "void"] ELSE reset[t]]

\* signup without an invitation: the new tenant is named after the account,
\* which is its admin.  Any existing row is a conflict and rolls back.
Signup(u, password, s) ==
  /\ server = "serving"
  /\ FreeName(u)
  /\ account' = [account EXCEPT ![u] = NewAccount(password, u, TRUE, None)]
  /\ Issue(s, u, 0)
  /\ UNCHANGED <<server, reset, invite, client, permits, now>>

\* consumeInvite deletes the eligible invitation and returns its tenant.
FaultReadInvite(i) == Consumable(i) /\ UNCHANGED invite
ConsumeInvite(i) ==
  Consumable(i) /\ invite' = [invite EXCEPT ![i].status = "spent"]

\* signup with invitation i: consumeInvite, the insertion and the session are
\* one transaction, so a conflict restores the invitation.
InvitedSignup(u, password, i, s) ==
  /\ server = "serving"
  /\ ConsumeInvite(i)
  /\ FreeName(u)
  /\ account' = [account EXCEPT
                   ![u] = NewAccount(password, invite[i].tenant, FALSE, i)]
  /\ Issue(s, u, 0)
  /\ UNCHANGED <<server, reset, client, permits, now>>

\* close: the username comes from the earlier authentication.
Close(c) ==
  /\ client[c].pc = "authenticated"
  /\ account' = [account EXCEPT ![client[c].user].status = "disabled"]
  /\ session' = RevokeSessions(client[c].user)
  /\ reset' = DeleteResets(client[c].user)
  /\ Become(c, Idle)
  /\ UNCHANGED <<server, invite, permits, now>>

-----------------------------------------------------------------------------
(* Invitations and password resets.                                        *)

IssueInvite(c, i) ==
  /\ AdminRequest(c)
  /\ invite[i].status = "unissued"
  /\ invite' = [invite EXCEPT
       ![i] = [status |-> "live", tenant |-> account[client[c].user].tenant,
               issuer |-> client[c].user, expires |-> now + TokenLifetime,
               by |-> client[c].session]]
  /\ Become(c, Idle)
  /\ UNCHANGED <<server, account, session, reset, permits, now>>

\* A newer reset of the same account replaces the older ones.
IssueReset(c, u, t) ==
  /\ AdminRequest(c)
  /\ Enabled(u)
  /\ SameTenant(u, client[c].user)
  /\ reset[t].status = "unissued"
  /\ reset' = [DeleteResets(u) EXCEPT
       ![t] = [status |-> "live", user |-> u,
               expires |-> now + TokenLifetime, by |-> client[c].session]]
  /\ Become(c, Idle)
  /\ UNCHANGED <<server, account, session, invite, permits, now>>

\* resetPassword looks the token up, then hashes outside any transaction.
BeginReset(c, t, password) ==
  /\ server = "serving"
  /\ client[c] = Idle
  /\ Redeemable(t)
  /\ Become(c, [pc |-> "hashing", token |-> t, password |-> password])
  /\ UNCHANGED <<server, db, permits, now>>

\* consume deletes the token if the clause of the lookup holds again.
FaultTrustLookup(t) == reset[t].status # "unissued"
Consume(t) == Redeemable(t)

\* The transaction consumes the token under the clause of the lookup, at a
\* later clock; otherwise the token is invalid and nothing changes (Abandon).
RedeemReset(c) ==
  LET t == client[c].token
      u == reset[t].user
  IN  /\ client[c].pc = "hashing"
      /\ Consume(t)
      /\ account' = [account EXCEPT ![u].password = client[c].password,
                                    ![u].generation = @ + 1]
      /\ session' = RevokeSessions(u)
      /\ reset' = [DeleteResets(u) EXCEPT ![t] = [reset[t] EXCEPT !.status = "spent"]]
      /\ Become(c, Idle)
      /\ UNCHANGED <<server, invite, permits, now>>

-----------------------------------------------------------------------------

Startup == Serve \/ Crash \/ Tick \/ \E u \in Seeds : Seed(u)

Register ==
  \E u \in Users, password \in Passwords, s \in Sessions :
    \/ Signup(u, password, s)
    \/ \E i \in Invites : InvitedSignup(u, password, i, s)

Request(c) ==
  \/ \E u \in Users, guess \in Passwords : BeginLogin(c, u, guess)
  \/ Verify(c)
  \/ \E s \in Sessions : FinishLogin(c, s)
  \/ \E s \in Sessions : Authenticate(c, s)
  \/ Abandon(c)
  \/ Logout(c)
  \/ Close(c)
  \/ \E i \in Invites : IssueInvite(c, i)
  \/ \E u \in Users, t \in Resets : IssueReset(c, u, t)
  \/ \E t \in Resets, password \in Passwords : BeginReset(c, t, password)
  \/ RedeemReset(c)

Next == Startup \/ Register \/ \E c \in Clients : Request(c)

Spec == Init /\ [][Next]_vars

-----------------------------------------------------------------------------
(* What the store promises.                                                *)

\* What others may rely on: the rows, seen without passwords and history, only
\* ever open once and close, whatever restarts, seeds and signups follow.
Registered(row) ==
  IF row.status = "absent" THEN None
  ELSE [status |-> row.status, tenant |-> row.tenant, admin |-> row.admin]

Registry == INSTANCE Accounts WITH
  account <- [u \in Users |-> Registered(account[u])]

ImplementsAccounts == Registry!Spec

\* No session survives a password replacement: a session that is still
\* unrevoked was inserted after the last replacement of its account's password.
SessionsOutliveNoReset ==
  \A s \in Sessions : session[s].status = "active" =>
    session[s].issued = account[session[s].user].generation

\* At most one stored reset per account, and only for accounts that are open:
\* closing an account or issuing a newer reset withdraws the older one.
OneResetPerOpenAccount ==
  \A t \in Resets : reset[t].status = "live" =>
    /\ Enabled(reset[t].user)
    /\ \A other \in Resets \ {t} :
         reset[other].status = "live" => reset[other].user # reset[t].user

\* Every replacement of a password consumed a reset of its own: two requests
\* that both found the token before hashing cannot both redeem it.
ResetSpentOnce ==
  \A u \in Users :
    account[u].generation =
      Cardinality({t \in Resets : reset[t].status = "spent" /\ reset[t].user = u})

\* An invitation admits exactly one account: it is spent if and only if an
\* account carries it, and no two accounts carry the same one.  A signup that
\* fails leaves it usable.
InviteAdmitsOne ==
  \A i \in Invites :
    LET admitted == {u \in Users : account[u].invite = i}
    IN  /\ invite[i].status = "spent" <=> admitted # {}
        /\ \A u, v \in admitted : u = v

CredentialsSpentOnce == ResetSpentOnce /\ InviteAdmitsOne

\* Nobody acts across tenants: an invited account is a reader of the tenant of
\* the admin that invited it, and a stored reset was issued by an admin of the
\* tenant of its account.
InvitedIntoIssuersTenant ==
  \A u \in Users : account[u].invite # None =>
    LET i == invite[account[u].invite]
    IN  /\ ~account[u].admin
        /\ account[u].tenant = account[i.issuer].tenant
        /\ account[i.issuer].admin

ResetIssuedWithinTenant ==
  \A t \in Resets : reset[t].status # "unissued" =>
    LET issuer == session[reset[t].by].user
    IN  /\ account[reset[t].user].tenant = account[issuer].tenant
        /\ account[issuer].admin

TenantBoundary == InvitedIntoIssuersTenant /\ ResetIssuedWithinTenant

\* Authority is read when it is used: no invitation or reset is stored for a
\* request whose session was revoked, or had expired, or whose account was
\* closed, after the request had been authenticated; no invitation admits an
\* account once the admin that issued it has closed; and a password is replaced
\* only while the consumed reset has not expired and its account is open,
\* however long the hashing took after the lookup.
AuthorityIsCurrent ==
  [][/\ \A i \in Invites :
          /\ invite[i].status = "unissued" /\ invite'[i].status = "live" =>
               LiveSession(invite'[i].by)
          /\ invite[i].status = "live" /\ invite'[i].status = "spent" =>
               Enabled(invite[i].issuer)
     /\ \A t \in Resets :
          /\ reset[t].status = "unissued" /\ reset'[t].status = "live" =>
               LiveSession(reset'[t].by)
          /\ reset[t].status # "spent" /\ reset'[t].status = "spent" =>
               reset[t].expires > now /\ Enabled(reset[t].user)]_vars

\* The semaphore never loses a permit: what is not free is held by a
\* verification in progress.
PermitsConserved ==
  permits + Cardinality({c \in Clients : client[c].pc = "verifying"})
    = MaxVerifications
=============================================================================
