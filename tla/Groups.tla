------------------------------- MODULE Groups -------------------------------
(***************************************************************************)
(* GroupRuntime: tenant groups, their members, and the permissions that    *)
(* accounts and groups are granted, over the accounts of Accounts.         *)
(*                                                                         *)
(* A request is authenticated by one statement, which yields its actor;    *)
(* the operation runs later, one transaction or one statement, and never   *)
(* reads the actor's account again.  Accounts open and close in between.   *)
(***************************************************************************)

CONSTANTS
  Users,
  Tenants,
  GroupIds,     \* random ids that may be drawn, each at most once
  Names,
  Permissions,
  Clients,
  None

ASSUME GroupsAssumption ==
  None \notin
    [status : {"enabled", "disabled"}, tenant : Tenants, admin : BOOLEAN]

VARIABLES
  account,  \* identity_accounts, see Accounts
  group,    \* identity_groups; a deleted row is remembered
  member,   \* identity_group_memberships
  direct,   \* identity_account_grants
  granted,  \* identity_group_grants
  client    \* the actor of each request in flight

links == <<member, direct, granted>>
vars == <<account, group, member, direct, granted, client>>

Registry == INSTANCE Accounts

Unissued == [status |-> "unissued"]
Deleted == [status |-> "deleted"]
GroupRows ==
  {Unissued, Deleted} \cup [status : {"live"}, tenant : Tenants, name : Names]

Idle == [pc |-> "idle"]
Requests ==
  {Idle} \cup [pc : {"acting"}, username : Users, tenantId : Tenants, admin : BOOLEAN]

TypeOK ==
  /\ account \in [Users -> {None} \cup Registry!Rows]
  /\ group \in [GroupIds -> GroupRows]
  /\ member \subseteq GroupIds \X Users
  /\ direct \subseteq Tenants \X Users \X Permissions
  /\ granted \subseteq GroupIds \X Permissions
  /\ client \in [Clients -> Requests]

Init ==
  /\ Registry!Init
  /\ group = [g \in GroupIds |-> Unissued]
  /\ member = {}
  /\ direct = {}
  /\ granted = {}
  /\ client = [c \in Clients |-> Idle]

-----------------------------------------------------------------------------
(* The checks the operations begin with.                                   *)

Enabled(u) == account[u] # None /\ account[u].status = "enabled"

\* admin(actor): the actor had the role when it was authenticated.
Admin(c) == client[c].pc = "acting" /\ client[c].admin

\* group(actor, id): a group of the actor's tenant.
FaultAnyGroup(c, g) == group[g].status = "live"
OwnGroup(c, g) ==
  group[g].status = "live" /\ group[g].tenant = client[c].tenantId

\* account(actor, username): an enabled account of the actor's tenant.
OwnAccount(c, u) == Enabled(u) /\ account[u].tenant = client[c].tenantId

\* check: the account is enabled, and it was granted the permission itself or
\* is a member of a group of the tenant that was.
check(u, tenant, p) ==
  /\ Enabled(u)
  /\ account[u].tenant = tenant
  /\ \/ <<tenant, u, p>> \in direct
     \/ \E g \in GroupIds :
          /\ <<g, u>> \in member
          /\ group[g].status = "live" /\ group[g].tenant = tenant
          /\ <<g, p>> \in granted

-----------------------------------------------------------------------------
(* Requests.                                                               *)

\* actorFor: the bearer's account, its tenant and whether it is an admin.
GroupActor(u) ==
  [pc |-> "acting", username |-> u,
   tenantId |-> account[u].tenant, admin |-> account[u].admin]

Authenticate(c, u) ==
  /\ client[c] = Idle
  /\ Enabled(u)
  /\ client' = [client EXCEPT ![c] = GroupActor(u)]
  /\ UNCHANGED <<account, group, links>>

Done(c) == client' = [client EXCEPT ![c] = Idle] /\ UNCHANGED account

\* listMembers, isMember, listAccount, listGroup and check answer, or an
\* operation is refused and its transaction rolled back.
Answer(c) ==
  /\ client[c].pc = "acting"
  /\ Done(c)
  /\ UNCHANGED <<group, links>>

create(c, g, name) ==
  /\ Admin(c)
  /\ group[g] = Unissued
  /\ group' = [group EXCEPT
       ![g] = [status |-> "live", tenant |-> client[c].tenantId, name |-> name]]
  /\ Done(c)
  /\ UNCHANGED links

update(c, g, name) ==
  /\ Admin(c)
  /\ OwnGroup(c, g)
  /\ group' = [group EXCEPT ![g].name = name]
  /\ Done(c)
  /\ UNCHANGED links

\* The grants and memberships of a group go before the group itself.
FaultKeepLinks(g, table) == table
Unlinked(g, table) == {row \in table : row[1] # g}

delete(c, g) ==
  /\ Admin(c)
  /\ OwnGroup(c, g)
  /\ granted' = Unlinked(g, granted)
  /\ member' = Unlinked(g, member)
  /\ group' = [group EXCEPT ![g] = Deleted]
  /\ Done(c)
  /\ UNCHANGED direct

\* The insertion conflicts with a membership there is already.
addMember(c, g, u) ==
  /\ Admin(c)
  /\ OwnGroup(c, g)
  /\ OwnAccount(c, u)
  /\ <<g, u>> \notin member
  /\ member' = member \cup {<<g, u>>}
  /\ Done(c)
  /\ UNCHANGED <<group, direct, granted>>

\* Also a closed account can be removed.
removeMember(c, g, u) ==
  /\ Admin(c)
  /\ OwnGroup(c, g)
  /\ <<g, u>> \in member
  /\ member' = member \ {<<g, u>>}
  /\ Done(c)
  /\ UNCHANGED <<group, direct, granted>>

grantAccount(c, u, p) ==
  /\ Admin(c)
  /\ OwnAccount(c, u)
  /\ direct' = direct \cup {<<client[c].tenantId, u, p>>}
  /\ Done(c)
  /\ UNCHANGED <<group, member, granted>>

revokeAccount(c, u, p) ==
  /\ Admin(c)
  /\ OwnAccount(c, u)
  /\ direct' = direct \ {<<client[c].tenantId, u, p>>}
  /\ Done(c)
  /\ UNCHANGED <<group, member, granted>>

grantGroup(c, g, p) ==
  /\ Admin(c)
  /\ OwnGroup(c, g)
  /\ granted' = granted \cup {<<g, p>>}
  /\ Done(c)
  /\ UNCHANGED <<group, member, direct>>

revokeGroup(c, g, p) ==
  /\ Admin(c)
  /\ OwnGroup(c, g)
  /\ granted' = granted \ {<<g, p>>}
  /\ Done(c)
  /\ UNCHANGED <<group, member, direct>>

\* Accounts open and close, by requests that Identity describes; the process
\* may die and take the requests in flight with it.
Open(u, tenant, admin) ==
  Registry!Open(u, tenant, admin) /\ UNCHANGED <<group, links, client>>

Close(u) == Registry!Close(u) /\ UNCHANGED <<group, links, client>>

Crash ==
  /\ client' = [c \in Clients |-> Idle]
  /\ UNCHANGED <<account, group, links>>

-----------------------------------------------------------------------------

Operation(c) ==
  \/ \E u \in Users : Authenticate(c, u)
  \/ Answer(c)
  \/ \E g \in GroupIds, name \in Names : create(c, g, name) \/ update(c, g, name)
  \/ \E g \in GroupIds : delete(c, g)
  \/ \E g \in GroupIds, u \in Users : addMember(c, g, u) \/ removeMember(c, g, u)
  \/ \E u \in Users, p \in Permissions :
       grantAccount(c, u, p) \/ revokeAccount(c, u, p)
  \/ \E g \in GroupIds, p \in Permissions :
       grantGroup(c, g, p) \/ revokeGroup(c, g, p)

Accounting ==
  \E u \in Users :
    \/ \E tenant \in Tenants, admin \in BOOLEAN : Open(u, tenant, admin)
    \/ Close(u)

Next == Accounting \/ Crash \/ \E c \in Clients : Operation(c)

Spec == Init /\ [][Next]_vars

-----------------------------------------------------------------------------
(* What groups and permissions promise.                                    *)

\* Every link joins things of one tenant that exist: a member is an account of
\* its group's tenant, a direct grant is held in the account's own tenant, and
\* a deleted group, whose id a slow request may still carry, gets nothing.
LinksStayInTenant ==
  /\ \A g \in GroupIds, u \in Users : <<g, u>> \in member =>
       /\ group[g].status = "live"
       /\ account[u] # None /\ account[u].tenant = group[g].tenant
  /\ \A t \in Tenants, u \in Users, p \in Permissions : <<t, u, p>> \in direct =>
       account[u] # None /\ account[u].tenant = t
  /\ \A g \in GroupIds, p \in Permissions :
       <<g, p>> \in granted => group[g].status = "live"

Holds(u, p) == account[u] # None /\ check(u, account[u].tenant, p)

\* A right appears only in a step of a request whose account was created as an
\* admin of the tenant of the account that gains it; neither a signup nor a
\* group of that tenant brings rights of its own.
GainNeedsAdmin ==
  [][\A u \in Users, p \in Permissions : ~Holds(u, p) /\ Holds(u, p)' =>
       \E c \in Clients :
         /\ client[c].pc = "acting" /\ client'[c] = Idle
         /\ account[client[c].username].admin
         /\ account[client[c].username].tenant = account[u].tenant]_vars

\* What check answers, taken together, is what TenantRights allows.
Home(u) ==
  IF account[u] = None THEN "outside"
  ELSE IF account[u].status = "enabled" THEN account[u].tenant ELSE "gone"

Rights == {r \in Users \X Permissions : Holds(r[1], r[2])}

Answers == INSTANCE TenantRights WITH
  home <- [u \in Users |-> Home(u)], rights <- Rights,
  Outside <- "outside", Gone <- "gone"

ImplementsRights == Answers!Spec
=============================================================================
