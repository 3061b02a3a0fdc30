---------------------------- MODULE GroupsProofs ----------------------------
(***************************************************************************)
(* Theorems about who may do what: about Groups, for any accounts,         *)
(* tenants, groups, permissions and requests, and about Policies, for any  *)
(* definitions, schemas, rows, claims and entitlements.                    *)
(*                                                                         *)
(* The actor of a request is not read again, so what holds of it must be   *)
(* permanent: ActorsAreAccounts says that tenant and role of the actor are *)
(* those of its account, open or closed.  That opening an account brings   *)
(* no rights needs LinksStayInTenant: an absent account has no links.      *)
(*                                                                         *)
(* A policy is folded in two ways.  Fixpoint says that a fold gives every  *)
(* term a value, TermInduction that what passes from parts to wholes holds *)
(* of all terms; so the two folds agree if they agree on a comparison that *)
(* was checked, whose two scalars have one category or are null.           *)
(***************************************************************************)
EXTENDS Groups, Policies, FiniteSetTheorems, WellFoundedInduction, TLAPS

USE GroupsAssumption

ActorsAreAccounts ==
  \A c \in Clients : client[c].pc = "acting" =>
    LET u == client[c].username
    IN  /\ account[u] # None
        /\ account[u].tenant = client[c].tenantId
        /\ account[u].admin = client[c].admin

IInv == TypeOK /\ LinksStayInTenant /\ ActorsAreAccounts

\* The operations that a request of an admin may turn out to be.
Mutation(c) ==
  \/ \E g \in GroupIds, name \in Names : create(c, g, name) \/ update(c, g, name)
  \/ \E g \in GroupIds : delete(c, g)
  \/ \E g \in GroupIds, u \in Users : addMember(c, g, u) \/ removeMember(c, g, u)
  \/ \E u \in Users, p \in Permissions :
       grantAccount(c, u, p) \/ revokeAccount(c, u, p)
  \/ \E g \in GroupIds, p \in Permissions :
       grantGroup(c, g, p) \/ revokeGroup(c, g, p)

\* A step splits into those that change links or groups and those that do not.
LEMMA NextCases ==
  ASSUME Next
  PROVE  \/ \E u \in Users, tenant \in Tenants, admin \in BOOLEAN : Open(u, tenant, admin)
         \/ \E u \in Users : Close(u)
         \/ Crash
         \/ \E c \in Clients, u \in Users : Authenticate(c, u)
         \/ \E c \in Clients : Answer(c) \/ Mutation(c)
BY DEF Next, Accounting, Operation, Mutation

-----------------------------------------------------------------------------
(* Types.                                                                  *)

LEMMA ActorTyped ==
  ASSUME TypeOK, NEW c \in Clients, client[c].pc = "acting"
  PROVE  /\ client[c].username \in Users
         /\ client[c].tenantId \in Tenants
         /\ client[c].admin \in BOOLEAN
<1>1. client[c] \in Requests
  BY DEF TypeOK
<1>2. client[c] # Idle
  BY DEF Idle
<1> QED BY <1>1, <1>2 DEF Requests

LEMMA IdleTyped ==
  ASSUME TypeOK, NEW c \in Clients, Done(c)
  PROVE  /\ client' \in [Clients -> Requests]
         /\ account' = account
BY DEF TypeOK, Done, Requests

LEMMA OpenTyped ==
  ASSUME TypeOK, NEW u \in Users, NEW tenant \in Tenants, NEW admin \in BOOLEAN,
         Open(u, tenant, admin)
  PROVE  TypeOK'
BY DEF TypeOK, Open, Registry!Open, Registry!Rows, links

LEMMA CloseTyped ==
  ASSUME TypeOK, NEW u \in Users, Close(u)
  PROVE  TypeOK'
<1>1. account[u] \in Registry!Rows
  BY DEF TypeOK, Close, Registry!Close
<1>2. [account[u] EXCEPT !.status = "disabled"] \in Registry!Rows
  BY <1>1 DEF Registry!Rows
<1>3. account' = [account EXCEPT ![u] = [account[u] EXCEPT !.status = "disabled"]]
  BY DEF Close, Registry!Close
<1>4. account' \in [Users -> {None} \cup Registry!Rows]
  BY <1>2, <1>3 DEF TypeOK
<1> QED BY <1>4 DEF TypeOK, Close, links

LEMMA AuthenticateTyped ==
  ASSUME TypeOK, NEW c \in Clients, NEW u \in Users, Authenticate(c, u)
  PROVE  TypeOK'
<1>1. account[u] \in Registry!Rows
  BY DEF TypeOK, Authenticate, Enabled
<1>2. account[u].tenant \in Tenants /\ account[u].admin \in BOOLEAN
  BY <1>1 DEF Registry!Rows
<1>3. GroupActor(u)
        \in [pc : {"acting"}, username : Users, tenantId : Tenants, admin : BOOLEAN]
  BY <1>2 DEF GroupActor
<1>4. client' \in [Clients -> Requests]
  BY <1>3 DEF TypeOK, Requests, Authenticate
<1> QED BY <1>4 DEF TypeOK, Authenticate, links

LEMMA MutationTyped ==
  ASSUME TypeOK, NEW c \in Clients, Mutation(c)
  PROVE  TypeOK'
<1>1. client[c].pc = "acting"
  BY DEF Mutation, create, update, delete, addMember, removeMember, grantAccount,
         revokeAccount, grantGroup, revokeGroup, Admin
<1>2. client' \in [Clients -> Requests] /\ account' = account
  BY IdleTyped DEF Mutation, create, update, delete, addMember, removeMember,
         grantAccount, revokeAccount, grantGroup, revokeGroup
<1>3. client[c].tenantId \in Tenants
  BY <1>1, ActorTyped
<1>4. group' \in [GroupIds -> GroupRows]
  <2>1. ASSUME NEW g \in GroupIds, NEW name \in Names, create(c, g, name)
        PROVE  group' \in [GroupIds -> GroupRows]
    BY <1>3, <2>1 DEF create, TypeOK, GroupRows
  <2>2. ASSUME NEW g \in GroupIds, NEW name \in Names, update(c, g, name)
        PROVE  group' \in [GroupIds -> GroupRows]
    <3>1. group[g] \in [status : {"live"}, tenant : Tenants, name : Names]
      BY <2>2 DEF update, OwnGroup, TypeOK, GroupRows, Unissued, Deleted
    <3>2. [group[g] EXCEPT !.name = name] \in GroupRows
      BY <3>1 DEF GroupRows
    <3>3. group' = [group EXCEPT ![g] = [group[g] EXCEPT !.name = name]]
      BY <2>2 DEF update
    <3> QED BY <3>2, <3>3 DEF TypeOK
  <2>3. ASSUME NEW g \in GroupIds, delete(c, g)
        PROVE  group' \in [GroupIds -> GroupRows]
    BY <2>3 DEF delete, TypeOK, GroupRows
  <2> QED BY <2>1, <2>2, <2>3 DEF Mutation, addMember, removeMember,
             grantAccount, revokeAccount, grantGroup, revokeGroup, TypeOK
<1>5. member' \subseteq GroupIds \X Users
  <2>1. \/ member' \subseteq member
        \/ \E g \in GroupIds, u \in Users : member' = member \cup {<<g, u>>}
    BY DEF Mutation, create, update, delete, addMember, removeMember, grantAccount,
           revokeAccount, grantGroup, revokeGroup, Unlinked, links
  <2> QED BY <2>1 DEF TypeOK
<1>6. direct' \subseteq Tenants \X Users \X Permissions
  <2>1. \/ direct' \subseteq direct
        \/ \E u \in Users, p \in Permissions :
             direct' = direct \cup {<<client[c].tenantId, u, p>>}
    BY DEF Mutation, create, update, delete, addMember, removeMember, grantAccount,
           revokeAccount, grantGroup, revokeGroup, links
  <2> QED BY <1>3, <2>1 DEF TypeOK
<1>7. granted' \subseteq GroupIds \X Permissions
  <2>1. \/ granted' \subseteq granted
        \/ \E g \in GroupIds, p \in Permissions : granted' = granted \cup {<<g, p>>}
    BY DEF Mutation, create, update, delete, addMember, removeMember, grantAccount,
           revokeAccount, grantGroup, revokeGroup, Unlinked, links
  <2> QED BY <2>1 DEF TypeOK
<1> QED BY <1>2, <1>4, <1>5, <1>6, <1>7 DEF TypeOK

LEMMA TypeStep ==
  ASSUME TypeOK, Next
  PROVE  TypeOK'
<1>1. CASE Crash
  BY <1>1 DEF Crash, TypeOK, Requests, links
<1>2. ASSUME NEW c \in Clients, Answer(c)
      PROVE  TypeOK'
  BY <1>2, IdleTyped DEF Answer, TypeOK, links
<1> QED BY <1>1, <1>2, NextCases, OpenTyped, CloseTyped, AuthenticateTyped, MutationTyped

-----------------------------------------------------------------------------
(* Actors and links.                                                       *)

LEMMA ActorsStep ==
  ASSUME TypeOK, ActorsAreAccounts, Next
  PROVE  ActorsAreAccounts'
<1> SUFFICES ASSUME NEW d \in Clients, client'[d].pc = "acting"
    PROVE  LET u == client'[d].username
           IN  /\ account'[u] # None
               /\ account'[u].tenant = client'[d].tenantId
               /\ account'[u].admin = client'[d].admin
  BY DEF ActorsAreAccounts
<1>1. ASSUME UNCHANGED account, client'[d] = client[d]
      PROVE  LET u == client'[d].username
             IN  /\ account'[u] # None
                 /\ account'[u].tenant = client'[d].tenantId
                 /\ account'[u].admin = client'[d].admin
  BY <1>1 DEF ActorsAreAccounts
<1>2. ASSUME NEW c \in Clients, Done(c)
      PROVE  UNCHANGED account /\ client'[d] = client[d]
  BY <1>2 DEF Done, Idle, TypeOK
<1>3. ASSUME NEW u \in Users, NEW tenant \in Tenants, NEW admin \in BOOLEAN,
             Open(u, tenant, admin)
      PROVE  LET v == client'[d].username
             IN  /\ account'[v] # None
                 /\ account'[v].tenant = client'[d].tenantId
                 /\ account'[v].admin = client'[d].admin
  <2>1. client'[d] = client[d] /\ client[d].username \in Users
    BY <1>3, ActorTyped DEF Open
  <2>2. account[client[d].username] # None
    BY <2>1 DEF ActorsAreAccounts
  <2>3. account'[client[d].username] = account[client[d].username]
    BY <1>3, <2>1, <2>2 DEF Open, Registry!Open, Registry!FreeName, TypeOK
  <2> QED BY <2>1, <2>3 DEF ActorsAreAccounts
<1>4. ASSUME NEW u \in Users, Close(u)
      PROVE  LET v == client'[d].username
             IN  /\ account'[v] # None
                 /\ account'[v].tenant = client'[d].tenantId
                 /\ account'[v].admin = client'[d].admin
  <2>1. client'[d] = client[d] /\ client[d].username \in Users
    BY <1>4, ActorTyped DEF Close
  <2> DEFINE v == client[d].username
  <2>2. account[v] \in Registry!Rows
    BY <2>1 DEF ActorsAreAccounts, TypeOK
  <2>3. account'[v] = account[v] \/ account'[v] = [account[v] EXCEPT !.status = "disabled"]
    BY <1>4, <2>1 DEF Close, Registry!Close, TypeOK
  <2>4. /\ account'[v] \in Registry!Rows
        /\ account'[v].tenant = account[v].tenant
        /\ account'[v].admin = account[v].admin
    BY <2>2, <2>3 DEF Registry!Rows
  <2>5. account'[v] # None
    BY <2>4 DEF Registry!Rows
  <2> QED BY <2>1, <2>4, <2>5 DEF ActorsAreAccounts
<1>5. CASE Crash
  BY <1>5 DEF Crash, Idle
<1>6. ASSUME NEW c \in Clients, NEW u \in Users, Authenticate(c, u)
      PROVE  LET v == client'[d].username
             IN  /\ account'[v] # None
                 /\ account'[v].tenant = client'[d].tenantId
                 /\ account'[v].admin = client'[d].admin
  <2>1. CASE d = c
    BY <1>6, <2>1 DEF Authenticate, GroupActor, Enabled, TypeOK
  <2>2. CASE d # c
    BY <1>1, <1>6, <2>2 DEF Authenticate, TypeOK
  <2> QED BY <2>1, <2>2
<1>7. ASSUME NEW c \in Clients, Answer(c) \/ Mutation(c)
      PROVE  Done(c)
  BY <1>7 DEF Answer, Mutation, create, update, delete, addMember, removeMember,
              grantAccount, revokeAccount, grantGroup, revokeGroup
<1> QED BY <1>1, <1>2, <1>3, <1>4, <1>5, <1>6, <1>7, NextCases

\* Opening and closing accounts breaks no link.
LEMMA AccountingKeepsLinks ==
  ASSUME TypeOK, LinksStayInTenant, UNCHANGED <<group, links>>,
         \A u \in Users : account[u] # None =>
           account'[u] # None /\ account'[u].tenant = account[u].tenant
  PROVE  LinksStayInTenant'
BY DEF LinksStayInTenant, links

\* An existing account keeps its tenant.
LEMMA TenantIsPermanent ==
  ASSUME TypeOK, NEW v \in Users,
         \/ \E u \in Users, tenant \in Tenants, admin \in BOOLEAN : Open(u, tenant, admin)
         \/ \E u \in Users : Close(u),
         account[v] # None
  PROVE  account'[v] # None /\ account'[v].tenant = account[v].tenant
<1>1. account[v] \in Registry!Rows
  BY DEF TypeOK
<1>2. account'[v] = account[v] \/ account'[v] = [account[v] EXCEPT !.status = "disabled"]
  BY DEF Open, Close, Registry!Open, Registry!FreeName, Registry!Close, TypeOK
<1>3. account'[v] \in Registry!Rows /\ account'[v].tenant = account[v].tenant
  BY <1>1, <1>2 DEF Registry!Rows
<1> QED BY <1>3 DEF Registry!Rows

\* Operations link only what is in the actor's tenant.
LEMMA MutationKeepsLinks ==
  ASSUME TypeOK, LinksStayInTenant, NEW c \in Clients, Mutation(c)
  PROVE  LinksStayInTenant'
<1>0. UNCHANGED account
  BY DEF Mutation, create, update, delete, addMember, removeMember, grantAccount,
         revokeAccount, grantGroup, revokeGroup, Done
<1>1. ASSUME NEW g \in GroupIds, NEW name \in Names, create(c, g, name)
      PROVE  LinksStayInTenant'
  <2>1. group[g].status # "live"
    BY <1>1 DEF create, Unissued
  <2>2. \A h \in GroupIds : h # g => group'[h] = group[h]
    BY <1>1 DEF create, TypeOK
  <2> QED BY <1>0, <1>1, <2>1, <2>2 DEF create, LinksStayInTenant, links
<1>2. ASSUME NEW g \in GroupIds, NEW name \in Names, update(c, g, name)
      PROVE  LinksStayInTenant'
  <2>1. \A h \in GroupIds : group'[h] = group[h]
                            \/ group'[h] = [group[h] EXCEPT !.name = name]
    BY <1>2 DEF update, TypeOK
  <2>2. group[g] \in [status : {"live"}, tenant : Tenants, name : Names]
    BY <1>2 DEF update, OwnGroup, TypeOK, GroupRows, Unissued, Deleted
  <2>3. \A h \in GroupIds : group[h].status = "live" =>
          group'[h].status = "live" /\ group'[h].tenant = group[h].tenant
    <3>1. \A h \in GroupIds : h # g => group'[h] = group[h]
      BY <1>2 DEF update, TypeOK
    <3>2. group'[g].status = "live" /\ group'[g].tenant = group[g].tenant
      BY <1>2, <2>2 DEF update, TypeOK
    <3> QED BY <3>1, <3>2
  <2> QED BY <1>0, <1>2, <2>3 DEF update, LinksStayInTenant, links
<1>3. ASSUME NEW g \in GroupIds, delete(c, g)
      PROVE  LinksStayInTenant'
  <2>1. \A h \in GroupIds : h # g => group'[h] = group[h]
    BY <1>3 DEF delete, TypeOK
  <2>2. /\ \A h \in GroupIds, u \in Users : <<h, u>> \in member' => <<h, u>> \in member /\ h # g
        /\ \A h \in GroupIds, p \in Permissions :
             <<h, p>> \in granted' => <<h, p>> \in granted /\ h # g
        /\ direct' = direct
    BY <1>3 DEF delete, Unlinked
  <2> QED BY <1>0, <2>1, <2>2 DEF LinksStayInTenant
<1>4. ASSUME NEW g \in GroupIds, NEW u \in Users, addMember(c, g, u)
      PROVE  LinksStayInTenant'
  BY <1>0, <1>4 DEF addMember, OwnGroup, OwnAccount, Enabled, LinksStayInTenant
<1>5. ASSUME NEW g \in GroupIds, NEW u \in Users, removeMember(c, g, u)
      PROVE  LinksStayInTenant'
  BY <1>0, <1>5 DEF removeMember, LinksStayInTenant
<1>6. ASSUME NEW u \in Users, NEW p \in Permissions, grantAccount(c, u, p)
      PROVE  LinksStayInTenant'
  BY <1>0, <1>6 DEF grantAccount, OwnAccount, Enabled, LinksStayInTenant
<1>7. ASSUME NEW u \in Users, NEW p \in Permissions, revokeAccount(c, u, p)
      PROVE  LinksStayInTenant'
  BY <1>0, <1>7 DEF revokeAccount, LinksStayInTenant
<1>8. ASSUME NEW g \in GroupIds, NEW p \in Permissions,
             grantGroup(c, g, p) \/ revokeGroup(c, g, p)
      PROVE  LinksStayInTenant'
  BY <1>0, <1>8 DEF grantGroup, revokeGroup, OwnGroup, LinksStayInTenant
<1> QED BY <1>1, <1>2, <1>3, <1>4, <1>5, <1>6, <1>7, <1>8 DEF Mutation

LEMMA LinksStep ==
  ASSUME TypeOK, LinksStayInTenant, Next
  PROVE  LinksStayInTenant'
<1>1. ASSUME \/ \E u \in Users, tenant \in Tenants, admin \in BOOLEAN : Open(u, tenant, admin)
             \/ \E u \in Users : Close(u)
      PROVE  LinksStayInTenant'
  <2>1. UNCHANGED <<group, links>>
    BY <1>1 DEF Open, Close
  <2> QED BY <1>1, <2>1, TenantIsPermanent, AccountingKeepsLinks
<1>2. ASSUME UNCHANGED <<account, group, links>>
      PROVE  LinksStayInTenant'
  BY <1>2 DEF LinksStayInTenant, links
<1>3. ASSUME NEW c \in Clients, NEW u \in Users, Authenticate(c, u)
      PROVE  UNCHANGED <<account, group, links>>
  BY <1>3 DEF Authenticate
<1>4. ASSUME NEW c \in Clients, Answer(c)
      PROVE  UNCHANGED <<account, group, links>>
  BY <1>4 DEF Answer, Done
<1>5. CASE Crash
  BY <1>2, <1>5 DEF Crash
<1> QED BY <1>1, <1>2, <1>3, <1>4, <1>5, NextCases, MutationKeepsLinks

-----------------------------------------------------------------------------

LEMMA InitInvariant == Init => IInv
  BY DEF Init, IInv, TypeOK, LinksStayInTenant, ActorsAreAccounts, Registry!Init,
         GroupRows, Unissued, Requests, Idle

LEMMA InductiveStep == IInv /\ [Next]_vars => IInv'
<1> SUFFICES ASSUME IInv, [Next]_vars PROVE IInv'
  OBVIOUS
<1>1. CASE Next
  BY <1>1, TypeStep, LinksStep, ActorsStep DEF IInv
<1>2. CASE UNCHANGED vars
  <2>1. UNCHANGED <<account, group, member, direct, granted, client>>
    BY <1>2 DEF vars, links
  <2> QED BY <2>1 DEF IInv, TypeOK, LinksStayInTenant, ActorsAreAccounts
<1> QED BY <1>1, <1>2

LEMMA Invariance == Spec => []IInv
BY InitInvariant, InductiveStep, PTL DEF Spec

\* Type correctness: every id, tenant and actor a row or a request holds is one.
THEOREM TypeCorrect == Spec => []TypeOK
<1>1. IInv => TypeOK
  BY DEF IInv
<1> QED BY <1>1, Invariance, PTL

\* No membership or grant ever crosses a tenant or dangles, whatever requests
\* with outdated actors do.
THEOREM LinksAreLocal == Spec => []LinksStayInTenant
<1>1. IInv => LinksStayInTenant
  BY DEF IInv
<1> QED BY <1>1, Invariance, PTL

-----------------------------------------------------------------------------
(* Rights.                                                                 *)

LiveIn(g, tenant) == group[g].status = "live" /\ group[g].tenant = tenant

\* A step that touches only the groups, links and grants of one tenant.
Within(tenant) ==
  /\ UNCHANGED account
  /\ \A other \in Tenants \ {tenant} :
       /\ \A g \in GroupIds :
            /\ LiveIn(g, other) <=> LiveIn(g, other)'
            /\ LiveIn(g, other) =>
                 /\ \A u \in Users : <<g, u>> \in member <=> <<g, u>> \in member'
                 /\ \A p \in Permissions : <<g, p>> \in granted <=> <<g, p>> \in granted'
       /\ \A u \in Users, p \in Permissions :
            <<other, u, p>> \in direct <=> <<other, u, p>> \in direct'

\* Every operation stays within the tenant of its actor.
LEMMA MutationWithin ==
  ASSUME TypeOK, NEW c \in Clients, Mutation(c)
  PROVE  /\ Within(client[c].tenantId)
         /\ Admin(c)
         /\ Done(c)
<1>0. Admin(c) /\ Done(c) /\ UNCHANGED account
  BY DEF Mutation, create, update, delete, addMember, removeMember, grantAccount,
         revokeAccount, grantGroup, revokeGroup, Done
<1>1. ASSUME NEW g \in GroupIds, NEW name \in Names, create(c, g, name)
      PROVE  Within(client[c].tenantId)
  <2>1. group[g].status # "live"
    BY <1>1 DEF create, Unissued
  <2>2. /\ \A h \in GroupIds : h # g => group'[h] = group[h]
        /\ group'[g].tenant = client[c].tenantId
    BY <1>1 DEF create, TypeOK
  <2> QED BY <1>0, <1>1, <2>1, <2>2 DEF create, Within, LiveIn, links
<1>2. ASSUME NEW g \in GroupIds, NEW name \in Names, update(c, g, name)
      PROVE  Within(client[c].tenantId)
  <2>1. group[g] \in [status : {"live"}, tenant : Tenants, name : Names]
    BY <1>2 DEF update, OwnGroup, TypeOK, GroupRows, Unissued, Deleted
  <2>2. \A h \in GroupIds : h # g => group'[h] = group[h]
    BY <1>2 DEF update, TypeOK
  <2>3. group'[g].status = "live" /\ group'[g].tenant = group[g].tenant
    BY <1>2, <2>1 DEF update, TypeOK
  <2> QED BY <1>0, <1>2, <2>2, <2>3 DEF update, OwnGroup, Within, LiveIn, links
<1>3. ASSUME NEW g \in GroupIds, delete(c, g)
      PROVE  Within(client[c].tenantId)
  <2>1. /\ \A h \in GroupIds : h # g => group'[h] = group[h]
        /\ group'[g].status = "deleted"
    BY <1>3 DEF delete, Deleted, TypeOK
  <2>2. group[g].tenant = client[c].tenantId
    BY <1>3 DEF delete, OwnGroup
  <2>3. /\ \A h \in GroupIds, u \in Users :
             h # g => (<<h, u>> \in member <=> <<h, u>> \in member')
        /\ \A h \in GroupIds, p \in Permissions :
             h # g => (<<h, p>> \in granted <=> <<h, p>> \in granted')
        /\ direct' = direct
    BY <1>3 DEF delete, Unlinked
  <2> QED BY <1>0, <2>1, <2>2, <2>3 DEF Within, LiveIn
<1>4. ASSUME NEW g \in GroupIds, NEW u \in Users,
             addMember(c, g, u) \/ removeMember(c, g, u)
      PROVE  Within(client[c].tenantId)
  BY <1>0, <1>4 DEF addMember, removeMember, OwnGroup, Within, LiveIn
<1>5. ASSUME NEW u \in Users, NEW p \in Permissions,
             grantAccount(c, u, p) \/ revokeAccount(c, u, p)
      PROVE  Within(client[c].tenantId)
  BY <1>0, <1>5 DEF grantAccount, revokeAccount, Within, LiveIn
<1>6. ASSUME NEW g \in GroupIds, NEW p \in Permissions,
             grantGroup(c, g, p) \/ revokeGroup(c, g, p)
      PROVE  Within(client[c].tenantId)
  BY <1>0, <1>6 DEF grantGroup, revokeGroup, OwnGroup, Within, LiveIn
<1> QED BY <1>0, <1>1, <1>2, <1>3, <1>4, <1>5, <1>6 DEF Mutation

\* What check reads, said with LiveIn.
LEMMA HoldsInTenant ==
  ASSUME NEW u \in Users, NEW p \in Permissions
  PROVE  Holds(u, p) <=>
           /\ account[u] # None
           /\ Enabled(u)
           /\ \/ <<account[u].tenant, u, p>> \in direct
              \/ \E g \in GroupIds : /\ LiveIn(g, account[u].tenant)
                                     /\ <<g, u>> \in member
                                     /\ <<g, p>> \in granted
BY DEF Holds, check, LiveIn

LEMMA HoldsInTenantNext ==
  ASSUME NEW u \in Users, NEW p \in Permissions
  PROVE  Holds(u, p)' <=>
           /\ account'[u] # None
           /\ Enabled(u)'
           /\ \/ <<account'[u].tenant, u, p>> \in direct'
              \/ \E g \in GroupIds : /\ LiveIn(g, account[u].tenant)'
                                     /\ <<g, u>> \in member'
                                     /\ <<g, p>> \in granted'
BY DEF Holds, check, LiveIn

\* Nobody outside the tenant notices the step.
LEMMA WithinIsLocal ==
  ASSUME TypeOK, NEW tenant, Within(tenant), NEW u \in Users, NEW p \in Permissions,
         ~ (Enabled(u) /\ account[u].tenant = tenant)
  PROVE  Holds(u, p) <=> Holds(u, p)'
<1>1. account' = account /\ (Enabled(u)' <=> Enabled(u))
  BY DEF Within, Enabled
<1>2. CASE ~ Enabled(u)
  BY <1>1, <1>2, HoldsInTenant, HoldsInTenantNext
<1>3. CASE Enabled(u)
  <2> DEFINE other == account[u].tenant
  <2>1. other \in Tenants \ {tenant}
    BY <1>3 DEF Enabled, TypeOK, Registry!Rows
  <2>2. \A g \in GroupIds :
          /\ LiveIn(g, other) <=> LiveIn(g, other)'
          /\ LiveIn(g, other) =>
               /\ <<g, u>> \in member <=> <<g, u>> \in member'
               /\ <<g, p>> \in granted <=> <<g, p>> \in granted'
    BY <1>1, <2>1 DEF Within
  <2>3. <<other, u, p>> \in direct <=> <<other, u, p>> \in direct'
    BY <2>1 DEF Within
  <2>4. LET same == account'[u].tenant IN same = other
    BY <1>1
  <2>5. /\ Holds(u, p) <=> \/ <<other, u, p>> \in direct
                           \/ \E g \in GroupIds : /\ LiveIn(g, other)
                                                  /\ <<g, u>> \in member
                                                  /\ <<g, p>> \in granted
    BY <1>3, HoldsInTenant DEF Enabled
  <2>6. /\ Holds(u, p)' <=> \/ <<other, u, p>> \in direct'
                            \/ \E g \in GroupIds : /\ LiveIn(g, other)'
                                                   /\ <<g, u>> \in member'
                                                   /\ <<g, p>> \in granted'
    BY <1>1, <1>3, HoldsInTenantNext DEF Enabled
  <2> HIDE DEF other
  <2> QED BY <2>2, <2>3, <2>5, <2>6
<1> QED BY <1>2, <1>3

\* Opening an account gives nobody a right, itself included.
LEMMA OpenGivesNothing ==
  ASSUME TypeOK, LinksStayInTenant, NEW v \in Users, NEW tenant \in Tenants,
         NEW admin \in BOOLEAN, Open(v, tenant, admin),
         NEW u \in Users, NEW p \in Permissions
  PROVE  Holds(u, p) <=> Holds(u, p)'
<1>0. UNCHANGED <<group, member, direct, granted>>
  BY DEF Open, links
<1>1. CASE u = v
  <2>1. account[u] = None
    BY <1>1 DEF Open, Registry!Open, Registry!FreeName
  <2>2. /\ \A g \in GroupIds : <<g, u>> \notin member
        /\ \A t \in Tenants : <<t, u, p>> \notin direct
    BY <2>1 DEF LinksStayInTenant
  <2>3. account'[u].tenant \in Tenants
    BY <1>1 DEF Open, Registry!Open, TypeOK
  <2> QED BY <1>0, <2>1, <2>2, <2>3, HoldsInTenant, HoldsInTenantNext
<1>2. CASE u # v
  <2>1. account'[u] = account[u]
    BY <1>2 DEF Open, Registry!Open, TypeOK
  <2> QED BY <1>0, <2>1 DEF Holds, check, Enabled
<1> QED BY <1>1, <1>2

\* Closing an account takes exactly its own rights.
LEMMA CloseTakesOwn ==
  ASSUME TypeOK, NEW v \in Users, Close(v), NEW u \in Users, NEW p \in Permissions
  PROVE  Holds(u, p)' <=> Holds(u, p) /\ u # v
<1>0. UNCHANGED <<group, member, direct, granted>>
  BY DEF Close, links
<1>1. CASE u = v
  <2>1. account[u] \in Registry!Rows
    BY <1>1 DEF Close, Registry!Close, TypeOK
  <2>2. account'[u] = [account[u] EXCEPT !.status = "disabled"]
    BY <1>1 DEF Close, Registry!Close, TypeOK
  <2>3. account'[u].status = "disabled"
    BY <2>1, <2>2 DEF Registry!Rows
  <2> QED BY <1>1, <2>3, HoldsInTenantNext DEF Enabled
<1>2. CASE u # v
  <2>1. account'[u] = account[u]
    BY <1>2 DEF Close, Registry!Close, TypeOK
  <2> QED BY <1>0, <1>2, <2>1 DEF Holds, check, Enabled
<1> QED BY <1>1, <1>2

\* Rights change by closing an account or by a mutation, and not otherwise.
LEMMA RightsCases ==
  ASSUME IInv, [Next]_vars
  PROVE  \/ \E v \in Users : Close(v)
         \/ \E c \in Clients : Mutation(c)
         \/ \A u \in Users, p \in Permissions : Holds(u, p) <=> Holds(u, p)'
<1>1. ASSUME UNCHANGED <<account, group, member, direct, granted>>
      PROVE  \A u \in Users, p \in Permissions : Holds(u, p) <=> Holds(u, p)'
  BY <1>1 DEF Holds, check, Enabled
<1>2. CASE UNCHANGED vars
  BY <1>1, <1>2 DEF vars, links
<1>3. CASE Crash
  BY <1>1, <1>3 DEF Crash, links
<1>4. ASSUME NEW c \in Clients, \/ Answer(c)
                               \/ \E u \in Users : Authenticate(c, u)
      PROVE  \A u \in Users, p \in Permissions : Holds(u, p) <=> Holds(u, p)'
  BY <1>1, <1>4 DEF Answer, Authenticate, Done, links
<1> QED BY <1>2, <1>3, <1>4, NextCases, OpenGivesNothing DEF IInv

\* A right appears only by a request of an account that was created as an admin
\* of the tenant it appears in.
THEOREM RightsComeFromAdmins == Spec => GainNeedsAdmin
<1>1. ASSUME IInv, [Next]_vars, NEW u \in Users, NEW p \in Permissions,
             ~Holds(u, p), Holds(u, p)'
      PROVE  \E c \in Clients :
               /\ client[c].pc = "acting" /\ client'[c] = Idle
               /\ account[client[c].username].admin
               /\ account[client[c].username].tenant = account[u].tenant
  <2>1. PICK c \in Clients : Mutation(c)
    BY <1>1, RightsCases, CloseTakesOwn DEF IInv
  <2>2. Within(client[c].tenantId) /\ Admin(c) /\ Done(c)
    BY <1>1, <2>1, MutationWithin DEF IInv
  <2>3. account[u].tenant = client[c].tenantId
    BY <1>1, <2>2, ActorTyped, WithinIsLocal DEF IInv, Admin
  <2>4. client'[c] = Idle
    BY <1>1, <2>2 DEF Done, IInv, TypeOK
  <2> QED BY <1>1, <2>2, <2>3, <2>4 DEF Admin, IInv, ActorsAreAccounts
<1>2. IInv /\ [Next]_vars =>
        [\A u \in Users, p \in Permissions : ~Holds(u, p) /\ Holds(u, p)' =>
           \E c \in Clients :
             /\ client[c].pc = "acting" /\ client'[c] = Idle
             /\ account[client[c].username].admin
             /\ account[client[c].username].tenant = account[u].tenant]_vars
  BY <1>1
<1> QED BY <1>2, Invariance, PTL DEF Spec, GainNeedsAdmin

\* The answers of check, taken together, implement the rights of a tenant: what
\* is done in one tenant is not felt in another, and who closes loses all.
THEOREM ImplementsTenantRights == Spec => ImplementsRights
<1> DEFINE homes == [u \in Users |-> Home(u)]
<1>1. Init => Answers!Init
  <2> SUFFICES ASSUME Init PROVE Answers!Init
    OBVIOUS
  <2>1. \A u \in Users : account[u] = None
    BY DEF Init, Registry!Init
  <2> QED BY <2>1 DEF Answers!Init, Home, Rights, Holds
<1>2. ASSUME IInv, [Next]_vars
      PROVE  Answers!Next \/ UNCHANGED <<homes, Rights>>
  <2>0. TypeOK /\ LinksStayInTenant
    BY <1>2 DEF IInv
  <2>1. ASSUME NEW v \in Users, NEW tenant \in Tenants, NEW admin \in BOOLEAN,
               Open(v, tenant, admin)
        PROVE  Answers!Arrive(v, tenant)
    <3>1. Home(v) = "outside"
      BY <2>1 DEF Open, Registry!Open, Registry!FreeName, Home
    <3>2. homes' = [homes EXCEPT ![v] = tenant]
      <4>1. account' = [account EXCEPT ![v] =
              [status |-> "enabled", tenant |-> tenant, admin |-> admin]]
        BY <2>1 DEF Open, Registry!Open
      <4>2. account'[v] \in Registry!Rows
        BY <2>0, <4>1 DEF TypeOK, Registry!Rows
      <4>3. account'[v] # None /\ account'[v].status = "enabled" /\ account'[v].tenant = tenant
        BY <2>0, <4>1, <4>2 DEF TypeOK, Registry!Rows
      <4>4. \A u \in Users : u # v => account'[u] = account[u]
        BY <2>0, <4>1 DEF TypeOK
      <4> QED BY <4>3, <4>4 DEF Home
    <3>3. Rights' = Rights
      BY <2>0, <2>1, OpenGivesNothing DEF Rights
    <3> QED BY <3>1, <3>2, <3>3 DEF Answers!Arrive
  <2>2. ASSUME NEW v \in Users, Close(v)
        PROVE  Answers!Leave(v)
    <3>1. account[v] \in Registry!Rows
      BY <2>0, <2>2 DEF Close, Registry!Close, TypeOK
    <3>2. account'[v] = [account[v] EXCEPT !.status = "disabled"]
      BY <2>0, <2>2 DEF Close, Registry!Close, TypeOK
    <3>3. account'[v] \in Registry!Rows /\ account'[v].status = "disabled"
      BY <3>1, <3>2 DEF Registry!Rows
    <3>4. account'[v] # None
      BY <3>3 DEF Registry!Rows
    <3>5. \A u \in Users : u # v => account'[u] = account[u]
      BY <2>0, <2>2 DEF Close, Registry!Close, TypeOK
    <3>6. homes' = [homes EXCEPT ![v] = "gone"]
      BY <3>3, <3>4, <3>5 DEF Home
    <3>7. Rights' = {r \in Rights : r[1] # v}
      BY <2>0, <2>2, CloseTakesOwn DEF Rights
    <3> QED BY <3>6, <3>7 DEF Answers!Leave
  <2>3. ASSUME NEW c \in Clients, Mutation(c)
        PROVE  Answers!Administer(client[c].tenantId) /\ client[c].tenantId \in Tenants
    <3>1. Within(client[c].tenantId) /\ client[c].tenantId \in Tenants
      BY <2>0, <2>3, MutationWithin, ActorTyped DEF Admin
    <3>2. homes' = homes
      BY <3>1 DEF Within, Home
    <3>3. ASSUME NEW u \in Users, Home(u) # client[c].tenantId, NEW p \in Permissions
          PROVE  <<u, p>> \in Rights <=> <<u, p>> \in Rights'
      <4>1. ~ (Enabled(u) /\ account[u].tenant = client[c].tenantId)
        BY <3>3 DEF Home, Enabled
      <4>2. Holds(u, p) <=> Holds(u, p)'
        BY <2>0, <3>1, <4>1, WithinIsLocal
      <4> QED BY <4>2 DEF Rights
    <3>4. Rights' \subseteq Users \X Permissions
      BY DEF Rights
    <3> QED BY <3>1, <3>2, <3>3, <3>4 DEF Answers!Administer
  <2>4. ASSUME UNCHANGED account,
               \A u \in Users, p \in Permissions : Holds(u, p) <=> Holds(u, p)'
        PROVE  UNCHANGED <<homes, Rights>>
    BY <2>4 DEF Home, Rights
  <2>5. \/ \E u \in Users, tenant \in Tenants, admin \in BOOLEAN : Open(u, tenant, admin)
        \/ \E u \in Users : Close(u)
        \/ \E c \in Clients : Mutation(c)
        \/ UNCHANGED account
    BY <1>2, NextCases DEF Crash, Authenticate, Answer, Done, vars
  <2> HIDE DEF homes
  <2>6. CASE \E c \in Clients : Mutation(c)
    BY <2>3, <2>6 DEF Answers!Next
  <2>7. CASE \E v \in Users : Close(v)
    BY <2>2, <2>7 DEF Answers!Next
  <2>8. CASE \E u \in Users, tenant \in Tenants, admin \in BOOLEAN : Open(u, tenant, admin)
    BY <2>1, <2>8 DEF Answers!Next
  <2> QED BY <1>2, <2>4, <2>5, <2>6, <2>7, <2>8, RightsCases
<1>3. IInv /\ [Next]_vars => [Answers!Next]_<<homes, Rights>>
  BY <1>2
<1> QED BY <1>1, <1>3, Invariance, PTL DEF Spec, ImplementsRights, Answers!Spec

-----------------------------------------------------------------------------
(* Policies: folds.                                                        *)

\* Of some terms, one is the least deep.
LEMMA LeastDepth ==
  ASSUME NEW T, T \subseteq Terms, T # {}
  PROVE  \E t \in T : \A u \in T : ~(Depth(u) < Depth(t))
<1> DEFINE D == {Depth(t) : t \in T}
<1>1. D \subseteq Nat /\ D # {}
  BY TermsAssumption
<1>2. IsWellFoundedOn(OpToRel(<, Nat), Nat)
  BY NatLessThanWellFounded
<1> HIDE DEF D
<1>3. PICK d \in D : \A e \in D : <<e, d>> \notin OpToRel(<, Nat)
  BY <1>1, <1>2, WFMin
<1>4. \A e \in D : ~(e < d)
  BY <1>1, <1>3 DEF OpToRel
<1> QED BY <1>3, <1>4 DEF D

\* What holds of a term if it holds of its parts holds of all terms.
LEMMA TermInduction ==
  ASSUME NEW Good, \A t \in Terms : (t.tag \in Junctions => \A i \in DOMAIN t.children : t.children[i] \in Good) => t \in Good
  PROVE  Terms \subseteq Good
<1> SUFFICES ASSUME Terms \ Good # {} PROVE FALSE
  OBVIOUS
<1>1. PICK t \in Terms \ Good : \A u \in Terms \ Good : ~(Depth(u) < Depth(t))
  BY LeastDepth
<1>2. t.tag \in Junctions => \A i \in DOMAIN t.children : t.children[i] \in Terms /\ Depth(t.children[i]) < Depth(t)
  BY TermsAssumption DEF Junctions
<1> QED BY <1>1, <1>2

\* A step that gives each term what it makes of less deep ones gives something to all.
LEMMA Fixpoint ==
  ASSUME NEW S, NEW s \in S, NEW Step \in [[Terms -> S] -> [Terms -> S]],
         \A f, g \in [Terms -> S] : \A t \in Terms :
           (\A u \in Terms : Depth(u) < Depth(t) => f[u] = g[u]) => Step[f][t] = Step[g][t]
  PROVE  \E f \in [Terms -> S] : f = Step[f]
<1> DEFINE Upto(n, f) == \A t \in Terms : Depth(t) < n => f[t] = Step[f][t]
           F == [Terms -> S]
<1>1. \A t \in Terms : Depth(t) \in Nat
  BY TermsAssumption
<1>2. \A f \in F : Step[f] \in F
  OBVIOUS
<1>3. ASSUME NEW n \in Nat, NEW f \in F, NEW g \in F, Upto(n, f), Upto(n, g)
      PROVE  \A t \in Terms : Depth(t) < n => f[t] = g[t]
  <2> DEFINE T == {t \in Terms : Depth(t) < n /\ f[t] # g[t]}
  <2> SUFFICES ASSUME T # {} PROVE FALSE
    OBVIOUS
  <2>1. PICK t \in T : \A u \in T : ~(Depth(u) < Depth(t))
    BY LeastDepth
  <2>2. \A u \in Terms : Depth(u) < Depth(t) => f[u] = g[u]
    BY <1>1, <2>1
  <2>3. Step[f][t] = Step[g][t]
    BY <2>2
  <2> QED BY <1>3, <2>1, <2>3
<1> DEFINE N == {n \in Nat : \E f \in F : Upto(n, f)}
<1>4. 0 \in N
  <2>1. [t \in Terms |-> s] \in F
    OBVIOUS
  <2>2. \A t \in Terms : ~(Depth(t) < 0)
    BY <1>1
  <2> QED BY <2>1, <2>2
<1>5. ASSUME NEW n \in Nat, n \in N  PROVE n + 1 \in N
  <2>1. PICK f \in F : Upto(n, f)
    BY <1>5
  <2>2. ASSUME NEW t \in Terms, Depth(t) < n + 1  PROVE Step[f][t] = Step[Step[f]][t]
    <3>1. \A u \in Terms : Depth(u) < Depth(t) => f[u] = Step[f][u]
      BY <1>1, <2>1, <2>2
    <3> QED BY <1>2, <3>1
  <2>3. Step[f] \in F /\ Upto(n + 1, Step[f])
    BY <1>2, <2>2
  <2> QED BY <2>3
<1>6. \A n \in Nat : \E f \in F : Upto(n, f)
  <2> DEFINE M == Nat \ N
  <2> HIDE DEF N
  <2> SUFFICES ASSUME M # {} PROVE FALSE
    BY DEF N
  <2>1. PICK m \in M : \A k \in M : <<k, m>> \notin OpToRel(<, Nat)
    <3>1. IsWellFoundedOn(OpToRel(<, Nat), Nat)
      BY NatLessThanWellFounded
    <3>2. M \subseteq Nat
      OBVIOUS
    <3> HIDE DEF M
    <3> QED BY <3>1, <3>2, WFMin
  <2>2. m \in Nat /\ m # 0
    BY <1>4
  <2> DEFINE k == m - 1
  <2>3. k \in Nat /\ k < m /\ k + 1 = m
    BY <2>2
  <2> HIDE DEF k
  <2>4. <<k, m>> \in OpToRel(<, Nat)
    BY <2>2, <2>3 DEF OpToRel
  <2>5. k \in N
    BY <2>1, <2>3, <2>4
  <2>6. k + 1 \in N
    BY <1>5, <2>3, <2>5
  <2> QED BY <2>3, <2>6
<1> DEFINE at == [n \in Nat |-> CHOOSE f \in F : Upto(n, f)]
           h == [t \in Terms |-> at[Depth(t) + 1][t]]
<1>7. \A n \in Nat : at[n] \in F /\ Upto(n, at[n])
  BY <1>6
<1> HIDE DEF at
<1>8. h \in F
  BY <1>1, <1>7
<1>9. ASSUME NEW t \in Terms  PROVE h[t] = Step[h][t]
  <2> DEFINE n == Depth(t) + 1
  <2>1. n \in Nat /\ at[n] \in F /\ Upto(n, at[n])
    BY <1>1, <1>7
  <2>2. ASSUME NEW u \in Terms, Depth(u) < Depth(t)  PROVE h[u] = at[n][u]
    <3> DEFINE m == Depth(u) + 1
    <3>1. m \in Nat /\ m <= n /\ at[m] \in F /\ Upto(m, at[m]) /\ Depth(u) < m
      BY <1>1, <1>7, <2>2
    <3>2. Upto(m, at[n])
      BY <1>1, <2>1, <3>1
    <3>3. at[m][u] = at[n][u]
      BY <1>3, <2>1, <3>1, <3>2
    <3> QED BY <3>3
  <2>3. Step[h][t] = Step[at[n]][t]
    BY <1>8, <2>1, <2>2
  <2>4. Depth(t) < n
    BY <1>1
  <2> QED BY <2>1, <2>3, <2>4
<1>10. Step[h] = h
  BY <1>2, <1>8, <1>9
<1> QED BY <1>8, <1>10


\* What Terminals gives a term, from what it gives the parts.
LEMMA TerminalsAre ==
  ASSUME NEW p \in Terms
  PROVE  Terminals[p] = IF p.tag \in Junctions THEN UNION {Terminals[p.children[i]] : i \in DOMAIN p.children} ELSE {p}
<1> DEFINE S == SUBSET Terms
           Made(f, q) == IF q.tag \in Junctions THEN UNION {f[q.children[i]] : i \in DOMAIN q.children} ELSE {q}
           Step == [f \in [Terms -> S] |-> [q \in Terms |-> Made(f, q)]]
<1>1. \A q \in Terms : q.tag \in Junctions =>
        \A i \in DOMAIN q.children : q.children[i] \in Terms /\ Depth(q.children[i]) < Depth(q)
  BY TermsAssumption DEF Junctions
<1>2. ASSUME NEW f \in [Terms -> S], NEW q \in Terms  PROVE Made(f, q) \in S
  BY <1>1
<1>3. Step \in [[Terms -> S] -> [Terms -> S]]
  BY <1>2
<1>4. ASSUME NEW f \in [Terms -> S], NEW g \in [Terms -> S], NEW q \in Terms,
             \A u \in Terms : Depth(u) < Depth(q) => f[u] = g[u]
      PROVE  Step[f][q] = Step[g][q]
  <2>1. CASE q.tag \in Junctions
    <3>1. \A i \in DOMAIN q.children : f[q.children[i]] = g[q.children[i]]
      BY <1>1, <1>4, <2>1
    <3>2. \A h \in [Terms -> S] : Step[h][q] = UNION {h[q.children[i]] : i \in DOMAIN q.children}
      BY <2>1
    <3>3. {f[q.children[i]] : i \in DOMAIN q.children} = {g[q.children[i]] : i \in DOMAIN q.children}
      BY <3>1
    <3> HIDE DEF Step
    <3> QED BY <1>4, <3>2, <3>3
  <2>2. CASE q.tag \notin Junctions
    BY <2>2
  <2> QED BY <2>1, <2>2
<1>5. PICK f \in [Terms -> S] : f = Step[f]
  <2> HIDE DEF Step
  <2>1. {} \in S
    OBVIOUS
  <2> QED BY <1>3, <1>4, <2>1, Fixpoint
<1>6. f = [q \in Terms |-> Made(f, q)]
  BY <1>5
<1>7. Terminals = [q \in Terms |-> Made(Terminals, q)]
  BY <1>6 DEF Terminals
<1> QED BY <1>7

\* Some natural numbers have a least one.
LEMMA LeastIndex ==
  ASSUME NEW I, I \subseteq Nat, I # {}
  PROVE  \E i \in I : \A j \in I : i <= j
<1>1. IsWellFoundedOn(OpToRel(<, Nat), Nat)
  BY NatLessThanWellFounded
<1>2. PICK i \in I : \A j \in I : <<j, i>> \notin OpToRel(<, Nat)
  BY <1>1, WFMin
<1>3. \A j \in I : ~(j < i)
  BY <1>2 DEF OpToRel
<1> QED BY <1>3

Outcomes == {"true", "false", "error"}

\* A junction of verdicts is one of them, or what it is without any that decides.
LEMMA JunctionIs ==
  ASSUME NEW o, DOMAIN o \subseteq Nat, NEW all \in BOOLEAN
  PROVE  \/ Junction(o, all) = Verdict(all) /\ \A i \in DOMAIN o : o[i] = Verdict(all)
         \/ \E i \in DOMAIN o : o[i] # Verdict(all) /\ Junction(o, all) = o[i]
<1> DEFINE Deciding == {i \in DOMAIN o : o[i] # Verdict(all)}
<1>1. CASE Deciding = {}
  BY <1>1 DEF Junction
<1>2. CASE Deciding # {}
  <2> DEFINE least == CHOOSE i \in Deciding : \A j \in Deciding : i <= j
  <2>1. least \in Deciding
    <3> HIDE DEF Deciding
    <3>1. Deciding \subseteq Nat
      BY DEF Deciding
    <3> QED BY <1>2, <3>1, LeastIndex
  <2>2. Junction(o, all) = o[least]
    BY <1>2 DEF Junction
  <2> QED BY <2>1, <2>2
<1> QED BY <1>1, <1>2

\* A terminal evaluates to a verdict or fails.
LEMMA TerminalOutcome ==
  ASSUME NEW t \in Terms, t.tag \notin Junctions, NEW env
  PROVE  EvaluateTerminal(t, env) \in Outcomes
  BY TermsAssumption DEF EvaluateTerminal, Outcomes, Verdict

EvaluatesTo(f, q, env) ==
  IF q.tag \in Junctions THEN Junction([i \in DOMAIN q.children |-> f[q.children[i]]], q.tag = "All")
  ELSE EvaluateTerminal(q, env)

\* Evaluate is a function that obeys its recursive definition.
LEMMA EvaluateIs ==
  ASSUME NEW env
  PROVE  \E f \in [Terms -> Outcomes] :
           /\ \A p \in Terms : f[p] = EvaluatesTo(f, p, env)
           /\ \A p : Evaluate(p, env) = f[p]
<1> DEFINE Made(f, q) == EvaluatesTo(f, q, env)
           Step == [f \in [Terms -> Outcomes] |-> [q \in Terms |-> Made(f, q)]]
<1>1. \A q \in Terms : q.tag \in Junctions =>
        /\ DOMAIN q.children \subseteq Nat
        /\ \A i \in DOMAIN q.children : q.children[i] \in Terms /\ Depth(q.children[i]) < Depth(q)
  BY TermsAssumption DEF Junctions
<1>2. ASSUME NEW f, NEW q \in Terms,
             q.tag \in Junctions => \A i \in DOMAIN q.children : f[q.children[i]] \in Outcomes
      PROVE  Made(f, q) \in Outcomes
  <2>1. CASE q.tag \in Junctions
    <3> DEFINE o == [i \in DOMAIN q.children |-> f[q.children[i]]]
               all == q.tag = "All"
    <3>1. DOMAIN o \subseteq Nat /\ \A i \in DOMAIN o : o[i] \in Outcomes
      BY <1>1, <1>2, <2>1
    <3>2. all \in BOOLEAN /\ Verdict(all) \in Outcomes
      BY DEF Verdict, Outcomes
    <3>3. Made(f, q) = Junction(o, all)
      BY <2>1 DEF EvaluatesTo
    <3> HIDE DEF o, all, Made
    <3>4. Junction(o, all) \in Outcomes
      BY <3>1, <3>2, JunctionIs
    <3> QED BY <3>3, <3>4
  <2>2. CASE q.tag \notin Junctions
    BY <2>2, TerminalOutcome DEF EvaluatesTo
  <2> QED BY <2>1, <2>2
<1>3. Step \in [[Terms -> Outcomes] -> [Terms -> Outcomes]]
  <2>1. ASSUME NEW f \in [Terms -> Outcomes], NEW q \in Terms  PROVE Made(f, q) \in Outcomes
    BY <1>1, <1>2
  <2> QED BY <2>1
<1>4. ASSUME NEW f \in [Terms -> Outcomes], NEW g \in [Terms -> Outcomes], NEW q \in Terms,
             \A u \in Terms : Depth(u) < Depth(q) => f[u] = g[u]
      PROVE  Step[f][q] = Step[g][q]
  <2>1. Made(f, q) = Made(g, q)
    <3>1. CASE q.tag \in Junctions
      <4>1. [i \in DOMAIN q.children |-> f[q.children[i]]] = [i \in DOMAIN q.children |-> g[q.children[i]]]
        BY <1>1, <1>4, <3>1
      <4> QED BY <3>1, <4>1 DEF EvaluatesTo
    <3>2. CASE q.tag \notin Junctions
      BY <3>2 DEF EvaluatesTo
    <3> QED BY <3>1, <3>2
  <2> QED BY <2>1
<1>5. PICK f \in [Terms -> Outcomes] : f = Step[f]
  <2> HIDE DEF Step
  <2>1. "error" \in Outcomes
    BY DEF Outcomes
  <2> QED BY <1>3, <1>4, <2>1, Fixpoint
<1>6. f = [q \in Terms |-> Made(f, q)]
  BY <1>5
<1> DEFINE outcome == CHOOSE g : g = [q \in Terms |-> Made(g, q)]
<1>7. outcome = [q \in Terms |-> Made(outcome, q)]
  BY <1>6
<1>8. \A p : Evaluate(p, env) = outcome[p]
  BY DEF Evaluate, EvaluatesTo
<1> HIDE DEF outcome
<1>9. outcome \in [Terms -> Outcomes]
  <2> DEFINE Good == {q \in Terms : outcome[q] \in Outcomes}
  <2>1. ASSUME NEW q \in Terms, q.tag \in Junctions => \A i \in DOMAIN q.children : q.children[i] \in Good
        PROVE  q \in Good
    <3>1. Made(outcome, q) \in Outcomes
      BY <1>2, <2>1
    <3>2. outcome[q] = Made(outcome, q)
      BY <1>7
    <3> QED BY <3>1, <3>2
  <2>2. Terms \subseteq Good
    <3> HIDE DEF Good
    <3> QED BY <2>1, TermInduction
  <2>3. DOMAIN outcome = Terms /\ outcome = [q \in Terms |-> outcome[q]]
    BY <1>7
  <2> QED BY <2>2, <2>3
<1> QED BY <1>7, <1>8, <1>9

\* Evaluate makes of a junction what it makes of the parts.
LEMMA EvaluateJunction ==
  ASSUME NEW env, NEW t \in Terms, t.tag \in Junctions
  PROVE  Evaluate(t, env) = Junction([i \in DOMAIN t.children |-> Evaluate(t.children[i], env)], t.tag = "All")
<1>1. PICK f \in [Terms -> Outcomes] :
        /\ \A p \in Terms : f[p] = EvaluatesTo(f, p, env)
        /\ \A p : Evaluate(p, env) = f[p]
  BY EvaluateIs
<1>2. [i \in DOMAIN t.children |-> f[t.children[i]]] = [i \in DOMAIN t.children |-> Evaluate(t.children[i], env)]
  BY <1>1
<1>3. Evaluate(t, env) = Junction([i \in DOMAIN t.children |-> f[t.children[i]]], t.tag = "All")
  BY <1>1 DEF EvaluatesTo
<1> QED BY <1>2, <1>3

\* Evaluate, term by term.
LEMMA Evaluates ==
  ASSUME NEW env, NEW t \in Terms
  PROVE  /\ Evaluate(t, env) \in Outcomes
         /\ t.tag \notin Junctions => Evaluate(t, env) = EvaluateTerminal(t, env)
         /\ t.tag \in Junctions =>
              LET all == t.tag = "All"
                  child(i) == Evaluate(t.children[i], env)
              IN \/ /\ Evaluate(t, env) = Verdict(all)
                    /\ \A i \in DOMAIN t.children : child(i) = Verdict(all)
                 \/ \E i \in DOMAIN t.children :
                      child(i) # Verdict(all) /\ Evaluate(t, env) = child(i)
<1>1. PICK f \in [Terms -> Outcomes] :
        /\ \A p \in Terms : f[p] = EvaluatesTo(f, p, env)
        /\ \A p : Evaluate(p, env) = f[p]
  BY EvaluateIs
<1>2. CASE t.tag \in Junctions
  <2> DEFINE o == [i \in DOMAIN t.children |-> f[t.children[i]]]
             all == t.tag = "All"
  <2>1. DOMAIN o \subseteq Nat /\ all \in BOOLEAN
    BY <1>2, TermsAssumption DEF Junctions
  <2>2. Evaluate(t, env) = Junction(o, all)
    BY <1>1, <1>2 DEF EvaluatesTo
  <2>3. \A i \in DOMAIN t.children : o[i] = Evaluate(t.children[i], env)
    BY <1>1
  <2>4. DOMAIN o = DOMAIN t.children
    OBVIOUS
  <2>5. Evaluate(t, env) \in Outcomes
    BY <1>1
  <2> HIDE DEF o, all
  <2>6. \/ Junction(o, all) = Verdict(all) /\ \A i \in DOMAIN o : o[i] = Verdict(all)
        \/ \E i \in DOMAIN o : o[i] # Verdict(all) /\ Junction(o, all) = o[i]
    BY <2>1, JunctionIs
  <2> QED BY <1>2, <2>2, <2>3, <2>4, <2>5, <2>6 DEF all
<1>3. CASE t.tag \notin Junctions
  BY <1>1, <1>3 DEF EvaluatesTo
<1> QED BY <1>2, <1>3

\* A terminal matches or does not.
LEMMA TerminalIsBoolean ==
  ASSUME NEW t \in Terms, t.tag \notin Junctions, NEW env, NEW stored
  PROVE  TerminalMatches(t, env, stored) \in BOOLEAN
<1>1. CASE t.tag = "Constant"
  BY <1>1, TermsAssumption DEF TerminalMatches
<1>2. CASE t.tag = "Equal"
  BY <1>2 DEF TerminalMatches, TotalEquality
<1>3. CASE t.tag = "Includes"
  BY <1>3 DEF TerminalMatches
<1> QED BY <1>1, <1>2, <1>3, TermsAssumption

MatchesTo(f, q, env, stored) ==
  CASE q.tag = "All" -> \A i \in DOMAIN q.children : f[q.children[i]]
    [] q.tag = "Any" -> \E i \in DOMAIN q.children : f[q.children[i]]
    [] OTHER -> TerminalMatches(q, env, stored)

\* Matches, term by term.
LEMMA MatchesIs ==
  ASSUME NEW env, NEW stored, NEW t \in Terms
  PROVE  /\ t.tag \notin Junctions => Matches(t, env, stored) = TerminalMatches(t, env, stored)
         /\ t.tag = "All" =>
              (Matches(t, env, stored) <=> \A i \in DOMAIN t.children : Matches(t.children[i], env, stored))
         /\ t.tag = "Any" =>
              (Matches(t, env, stored) <=> \E i \in DOMAIN t.children : Matches(t.children[i], env, stored))
<1> DEFINE Made(f, q) == MatchesTo(f, q, env, stored)
           Step == [f \in [Terms -> BOOLEAN] |-> [q \in Terms |-> Made(f, q)]]
<1>1. \A q \in Terms : q.tag \in Junctions =>
        \A i \in DOMAIN q.children : q.children[i] \in Terms /\ Depth(q.children[i]) < Depth(q)
  BY TermsAssumption DEF Junctions
<1>2. ASSUME NEW f \in [Terms -> BOOLEAN], NEW q \in Terms  PROVE Made(f, q) \in BOOLEAN
  <2>1. CASE q.tag \in Junctions
    BY <2>1 DEF MatchesTo, Junctions
  <2>2. CASE q.tag \notin Junctions
    BY <2>2, TerminalIsBoolean DEF MatchesTo, Junctions
  <2> QED BY <2>1, <2>2
<1>3. Step \in [[Terms -> BOOLEAN] -> [Terms -> BOOLEAN]]
  BY <1>2
<1>4. ASSUME NEW f \in [Terms -> BOOLEAN], NEW g \in [Terms -> BOOLEAN], NEW q \in Terms,
             \A u \in Terms : Depth(u) < Depth(q) => f[u] = g[u]
      PROVE  Step[f][q] = Step[g][q]
  <2>1. Made(f, q) = Made(g, q)
    <3>1. CASE q.tag \in Junctions
      <4>1. \A i \in DOMAIN q.children : f[q.children[i]] = g[q.children[i]]
        BY <1>1, <1>4, <3>1
      <4> QED BY <3>1, <4>1 DEF MatchesTo, Junctions
    <3>2. CASE q.tag \notin Junctions
      BY <3>2 DEF MatchesTo, Junctions
    <3> QED BY <3>1, <3>2
  <2> QED BY <2>1
<1>5. PICK f \in [Terms -> BOOLEAN] : f = Step[f]
  <2> HIDE DEF Step
  <2>1. FALSE \in BOOLEAN
    OBVIOUS
  <2> QED BY <1>3, <1>4, <2>1, Fixpoint
<1>6. f = [q \in Terms |-> Made(f, q)]
  BY <1>5
<1> DEFINE holds == CHOOSE g : g = [q \in Terms |-> Made(g, q)]
<1>7. holds = [q \in Terms |-> Made(holds, q)]
  BY <1>6
<1>8. \A p : Matches(p, env, stored) = holds[p]
  BY DEF Matches, MatchesTo
<1> HIDE DEF holds
<1>9. Matches(t, env, stored) = MatchesTo(holds, t, env, stored)
  BY <1>7, <1>8
<1>10. CASE t.tag \notin Junctions
  BY <1>9, <1>10 DEF MatchesTo, Junctions
<1>11. CASE t.tag = "All"
  BY <1>8, <1>9, <1>11 DEF MatchesTo, Junctions
<1>12. CASE t.tag = "Any"
  BY <1>8, <1>9, <1>12 DEF MatchesTo, Junctions
<1> QED BY <1>10, <1>11, <1>12 DEF Junctions

-----------------------------------------------------------------------------
(* Policies: what a description says of the values it describes.           *)

Kinds == {"string", "number", "boolean"}

\* A set of kinds with no two members is known by one of them.
LEMMA OneOf ==
  ASSUME NEW C, C \subseteq Kinds, ~(Cardinality(C) > 1), NEW c \in C
  PROVE  C = {c}
<1>1. IsFiniteSet(Kinds)
  <2>1. IsFiniteSet({"string"})
    BY FS_Singleton
  <2>2. IsFiniteSet({"string"} \cup {"number"})
    BY <2>1, FS_AddElement
  <2>3. IsFiniteSet({"string"} \cup {"number"} \cup {"boolean"})
    BY <2>2, FS_AddElement
  <2>4. Kinds = {"string"} \cup {"number"} \cup {"boolean"}
    BY DEF Kinds
  <2> QED BY <2>3, <2>4
<1>2. IsFiniteSet(C)
  BY <1>1, FS_Subset
<1>3. Cardinality(C) \in Nat
  BY <1>2, FS_CardinalityType
<1>4. IsFiniteSet(C \ {c}) /\ Cardinality(C \ {c}) = Cardinality(C) - 1
  BY <1>2, FS_RemoveElement
<1>5. Cardinality(C \ {c}) \in Nat
  BY <1>4, FS_CardinalityType
<1>6. Cardinality(C \ {c}) = 0
  BY <1>3, <1>4, <1>5
<1>7. C \ {c} = {}
  BY <1>4, <1>6, FS_EmptySet
<1> QED BY <1>7

\* A scalar of a described category.
Plain(s, category) ==
  /\ s \in [kind : Kinds \cup {"null"}, content : 0..1]
  /\ s.kind = "null" => s.content = 0
  /\ s.kind # "null" => category = {s.kind}
Fits(value, d) ==
  /\ value.collection = d.collection
  /\ \A s \in value.entries : Plain(s, d.category)
  /\ ~d.collection => \E s : value = [collection |-> FALSE, entries |-> {s}]

\* What a field may hold fits the description of the field.
LEMMA FieldFits ==
  ASSUME NEW schema, IsSchema(schema), NEW d \in Describe(schema), NEW value \in FieldValues(schema)
  PROVE  Fits(value, d) /\ d.collection = schema.collection
<1> DEFINE C == {Category(m) : m \in schema.members \ {"null"}}
<1>1. ~schema.optional /\ "number" \notin schema.members
  BY DEF Describe
<1>2. d \in Combined(C, "null" \in schema.members, schema.collection)
  BY <1>1 DEF Describe
<1>3. C \subseteq Kinds
  BY <1>1 DEF IsSchema, Category, Kinds
<1>4. ~(Cardinality(C) > 1) /\ d.category = C /\ d.collection = schema.collection
  BY <1>2 DEF Combined
<1>5. ASSUME NEW s \in FieldScalars(schema)  PROVE Plain(s, d.category)
  <2>1. PICK m \in schema.members :
          s \in CASE m = "null" -> {[kind |-> "null", content |-> 0]}
                 [] m = "finite" -> [kind : {"number"}, content : 0..1]
                 [] m = "number" -> [kind : {"number", "nan"}, content : 0..1]
                 [] OTHER -> [kind : {m}, content : 0..1]
    BY DEF FieldScalars
  <2>2. CASE m = "null"
    BY <2>1, <2>2 DEF Plain, Kinds
  <2>3. CASE m # "null"
    <3>1. m \in {"string", "finite", "boolean"}
      BY <1>1, <2>3 DEF IsSchema
    <3>2. s \in [kind : {Category(m)}, content : 0..1]
      BY <2>1, <2>3, <3>1 DEF Category
    <3>3. Category(m) \in C
      BY <2>3
    <3>4. C = {Category(m)}
      <4> HIDE DEF C
      <4> QED BY <1>3, <1>4, <3>3, OneOf
    <3>5. Category(m) \in Kinds /\ Category(m) # "null"
      BY <3>1 DEF Category, Kinds
    <3> QED BY <1>4, <3>2, <3>4, <3>5 DEF Plain
  <2> QED BY <2>2, <2>3
<1>6. schema.collection \in BOOLEAN
  BY DEF IsSchema
<1>7. CASE schema.collection
  <2>1. PICK e \in SUBSET FieldScalars(schema) : value = Many(e)
    BY <1>1, <1>7 DEF FieldValues
  <2> QED BY <1>4, <1>5, <1>6, <1>7, <2>1 DEF Many, Fits
<1>8. CASE ~schema.collection
  <2>1. PICK s \in FieldScalars(schema) : value = One(s.kind, s.content)
    BY <1>1, <1>8 DEF FieldValues
  <2>2. s = [kind |-> s.kind, content |-> s.content]
    BY <1>5, <2>1 DEF Plain
  <2>3. value = [collection |-> FALSE, entries |-> {s}]
    BY <2>1, <2>2 DEF One
  <2> QED BY <1>4, <1>5, <1>6, <1>8, <2>3 DEF Fits
<1> QED BY <1>6, <1>7, <1>8

\* A literal fits its description.
LEMMA LiteralFits ==
  ASSUME NEW value \in Values, NEW d \in DescribeValue(value)
  PROVE  Fits(value, d)
<1> DEFINE Scalars == {s \in [kind : {"string", "number", "boolean", "null", "nan"}, content : 0..1] :
                         s.kind = "null" => s.content = 0}
           kinds == {s.kind : s \in value.entries}
           C == kinds \ {"null"}
<1>1. \/ \E s \in Scalars : value = One(s.kind, s.content)
      \/ \E e \in SUBSET Scalars : value = Many(e)
  BY DEF Values
<1>2. "nan" \notin kinds /\ d \in Combined(C, "null" \in kinds, value.collection)
  BY DEF DescribeValue
<1>3. ~(Cardinality(C) > 1) /\ d.category = C /\ d.collection = value.collection
  BY <1>2 DEF Combined
<1>4. value.entries \subseteq Scalars /\ (~value.collection => \E s : value = [collection |-> FALSE, entries |-> {s}])
  <2>1. ASSUME NEW s \in Scalars, value = One(s.kind, s.content)
        PROVE  value = [collection |-> FALSE, entries |-> {s}]
    <3>1. s = [kind |-> s.kind, content |-> s.content]
      OBVIOUS
    <3> HIDE DEF Scalars
    <3> QED BY <2>1, <3>1 DEF One
  <2>2. ASSUME NEW e \in SUBSET Scalars, value = Many(e)
        PROVE  value.entries = e /\ value.collection
    BY <2>2 DEF Many
  <2> HIDE DEF Scalars
  <2> QED BY <1>1, <2>1, <2>2
<1>5. C \subseteq Kinds
  BY <1>2, <1>4 DEF Kinds
<1>6. ASSUME NEW s \in value.entries  PROVE Plain(s, d.category)
  <2>1. s \in Scalars /\ s.kind # "nan"
    BY <1>2, <1>4
  <2>2. CASE s.kind = "null"
    BY <2>1, <2>2 DEF Plain, Kinds
  <2>3. CASE s.kind # "null"
    <3>1. s.kind \in C
      BY <2>3
    <3>2. C = {s.kind}
      <4> HIDE DEF C
      <4> QED BY <1>3, <1>5, <3>1, OneOf
    <3>3. s.kind \in Kinds
      BY <1>5, <3>1
    <3> QED BY <1>3, <2>1, <2>3, <3>2, <3>3 DEF Plain
  <2> QED BY <2>2, <2>3
<1> QED BY <1>3, <1>4, <1>6 DEF Fits

-----------------------------------------------------------------------------
(* Policies: comparisons, in memory and by SQLite.                         *)

\* An operand that a predicate may use resolves, in memory, to what fits its description.
LEMMA OperandFits ==
  ASSUME NEW o, IsOperand(o), NEW d \in DescribeOperand(o, ScopePhases),
         NEW subject, IsSubject(subject), NEW row, IsRow(row), NEW next
  PROVE  /\ Fits(Resolve(o, Environment(subject, row, next)), d)
         /\ o.tag # "RowField" => /\ o.tag \in {"Literal", "SubjectField"}
                                  /\ Resolve(o, Environment(subject, row, next)) = Resolve(o, Environment(subject, NoRow, NoRow))
         /\ o.tag = "RowField" => /\ d \in Described(Row, o.field) /\ o.field \in DOMAIN row
                                  /\ Resolve(o, Environment(subject, row, next)) = row[o.field]
<1>1. CASE o.tag = "Literal"
  <2>1. o.value \in Values /\ d \in DescribeValue(o.value)
    BY <1>1 DEF IsOperand, DescribeOperand
  <2> QED BY <1>1, <2>1, LiteralFits DEF Resolve
<1>2. CASE o.tag = "SubjectField"
  <2>1. d \in Described(Subject, o.field)
    BY <1>2 DEF DescribeOperand
  <2>2. o.field \in DOMAIN Subject /\ d \in Describe(Subject[o.field])
    BY <2>1 DEF Described
  <2>3. o.field \in DOMAIN subject /\ subject[o.field] \in FieldValues(Subject[o.field])
    BY <2>2 DEF IsSubject
  <2>4. IsSchema(Subject[o.field])
    BY <2>2, SchemasAssumption DEF IsSchema
  <2>5. Fits(subject[o.field], d)
    BY <2>2, <2>3, <2>4, FieldFits
  <2> QED BY <1>2, <2>3, <2>5 DEF Resolve, Environment
<1>3. CASE o.tag = "RowField"
  <2>1. d \in Described(Row, o.field)
    BY <1>3 DEF DescribeOperand
  <2>2. o.field \in DOMAIN Row /\ d \in Describe(Row[o.field])
    BY <2>1 DEF Described
  <2>3. o.field \in DOMAIN row /\ row[o.field] \in FieldValues(Row[o.field])
    BY <2>2 DEF IsRow
  <2>4. IsSchema(Row[o.field])
    BY <2>2, SchemasAssumption DEF IsSchema
  <2>5. Fits(row[o.field], d)
    BY <2>2, <2>3, <2>4, FieldFits
  <2> QED BY <1>3, <2>1, <2>3, <2>5 DEF Resolve, Environment
<1>4. o.tag # "NextField"
  BY DEF DescribeOperand, Phase, ScopePhases
<1> QED BY <1>1, <1>2, <1>3, <1>4 DEF IsOperand

\* A field has one description.
LEMMA OneDescription ==
  ASSUME NEW field, NEW d \in Described(Row, field), NEW e \in Described(Row, field)
  PROVE  d = e
  BY DEF Described, Describe, Combined

Expresses(expression, s) == expression \in {ScalarExpression(s), RowExpression(Store(s))}

\* A scalar that a predicate may use is a scalar in memory and binds.
LEMMA ScalarOperand ==
  ASSUME NEW o, IsOperand(o), NEW d \in DescribeOperand(o, ScopePhases), ~d.collection,
         o.tag # "Literal" => ValidateSqlReference(o),
         NEW subject, IsSubject(subject), NEW row, IsRow(row), NEW next
  PROVE  \E s :
           /\ Plain(s, d.category)
           /\ Resolve(o, Environment(subject, row, next)) = [collection |-> FALSE, entries |-> {s}]
           /\ ScalarBinds(o, Environment(subject, NoRow, NoRow))
           /\ Expresses(Expression(o, Environment(subject, NoRow, NoRow), Stored(row)), s)
<1> DEFINE memory == Environment(subject, row, next)
           bound == Environment(subject, NoRow, NoRow)
<1>1. Fits(Resolve(o, memory), d)
  BY OperandFits
<1>2. PICK s : Resolve(o, memory) = [collection |-> FALSE, entries |-> {s}]
  BY <1>1 DEF Fits
<1>3. Plain(s, d.category)
  BY <1>1, <1>2 DEF Fits
<1>4. s.kind # "nan"
  BY <1>3 DEF Plain, Kinds
<1>5. TheScalar(Resolve(o, memory)) = s
  BY <1>2 DEF TheScalar
<1>6. CASE o.tag # "RowField"
  <2>1. o.tag \in {"Literal", "SubjectField"} /\ Resolve(o, memory) = Resolve(o, bound)
    BY <1>6, OperandFits
  <2>2. IsScalar(Resolve(o, bound))
    BY <1>2, <1>4, <2>1 DEF IsScalar
  <2>3. ScalarBinds(o, bound)
    BY <2>1, <2>2 DEF ScalarBinds
  <2>4. Expression(o, bound, Stored(row)) = ScalarExpression(s)
    BY <1>5, <1>6, <2>1 DEF Expression
  <2> QED BY <1>2, <1>3, <2>3, <2>4 DEF Expresses
<1>7. CASE o.tag = "RowField"
  <2>1. o.field \in DOMAIN row /\ Resolve(o, memory) = row[o.field]
    BY <1>7, OperandFits
  <2>2. ~Row[o.field].encoded
    BY <1>7 DEF ValidateSqlReference
  <2>3. Stored(row)[o.field] = Store(s)
    BY <1>5, <2>1, <2>2 DEF Stored, StoredField
  <2>4. ScalarBinds(o, bound)
    BY <1>7 DEF ScalarBinds
  <2>5. Expression(o, bound, Stored(row)) = RowExpression(Store(s))
    BY <1>7, <2>3 DEF Expression
  <2> QED BY <1>2, <1>3, <2>4, <2>5 DEF Expresses
<1> QED BY <1>6, <1>7

\* Scalars of compatible categories are equal exactly if their expressions are.
LEMMA ComparesScalars ==
  ASSUME NEW c, NEW b, CompatibleCategory(c, b), NEW s, Plain(s, c), NEW r, Plain(r, b),
         NEW e, Expresses(e, s), NEW g, Expresses(g, r)
  PROVE  /\ TotalEquality(e, g) <=> s = r
         /\ s = r => e.kind \in {"row", s.kind}
<1>1. s = r => e.kind \in {"row", s.kind}
  BY DEF Expresses, ScalarExpression, RowExpression
<1>2. \/ s.kind = r.kind \/ s.kind = "null" \/ r.kind = "null"
  BY DEF Plain, CompatibleCategory
<1>3. s = r <=> s.kind = r.kind /\ s.content = r.content
  BY DEF Plain
<1>4. Store(s).type = Store(r).type <=> s.kind = r.kind
  BY <1>2 DEF Plain, Kinds, Store, Numeric
<1>5. Store(s).content = s.content /\ Store(r).content = r.content
  BY DEF Store
<1>6. s = r <=> Store(s).type = Store(r).type /\ Is(Store(s), Store(r))
  BY <1>3, <1>4, <1>5 DEF Is, Numeric, Store
<1>7. s = r <=> Store(s).type = Store(r).type /\ Is(Store(r), Store(s))
  BY <1>3, <1>4, <1>5 DEF Is, Numeric, Store
<1>8. TypeMatches(Store(r), s.kind) <=> Store(s).type = Store(r).type
  BY DEF TypeMatches, Store, Plain, Kinds, Numeric
<1>9. TypeMatches(Store(s), r.kind) <=> Store(s).type = Store(r).type
  BY DEF TypeMatches, Store, Plain, Kinds, Numeric
<1>10. s.kind # "row" /\ r.kind # "row"
  BY DEF Plain, Kinds
<1>11. CASE e = ScalarExpression(s) /\ g = ScalarExpression(r)
  <2>1. TotalEquality(e, g) <=> s.kind = r.kind /\ Is(Store(s), Store(r))
    BY <1>10, <1>11 DEF TotalEquality, ScalarExpression
  <2> QED BY <1>1, <1>4, <1>6, <2>1
<1>12. CASE e = ScalarExpression(s) /\ g = RowExpression(Store(r))
  <2>1. TotalEquality(e, g) <=> TypeMatches(Store(r), s.kind) /\ Is(Store(r), Store(s))
    BY <1>10, <1>12 DEF TotalEquality, ScalarExpression, RowExpression
  <2> QED BY <1>1, <1>7, <1>8, <2>1
<1>13. CASE e = RowExpression(Store(s)) /\ g = ScalarExpression(r)
  <2>1. TotalEquality(e, g) <=> TypeMatches(Store(s), r.kind) /\ Is(Store(s), Store(r))
    BY <1>10, <1>13 DEF TotalEquality, ScalarExpression, RowExpression
  <2> QED BY <1>1, <1>6, <1>9, <2>1
<1>14. CASE e = RowExpression(Store(s)) /\ g = RowExpression(Store(r))
  <2>1. TotalEquality(e, g) <=> Store(s).type = Store(r).type /\ Is(Store(s), Store(r))
    BY <1>14 DEF TotalEquality, RowExpression
  <2> QED BY <1>1, <1>6, <2>1
<1> QED BY <1>11, <1>12, <1>13, <1>14 DEF Expresses

\* A collection that a predicate may use is not a column, and binds.
LEMMA CollectionOperand ==
  ASSUME NEW o, IsOperand(o), NEW d \in DescribeOperand(o, ScopePhases), d.collection,
         o.tag # "Literal" => ValidateSqlReference(o),
         NEW subject, IsSubject(subject), NEW row, IsRow(row), NEW next
  PROVE  /\ \A s \in Resolve(o, Environment(subject, row, next)).entries : Plain(s, d.category)
         /\ IsScalarCollection(Resolve(o, Environment(subject, row, next)))
         /\ CollectionBinds(o, Environment(subject, NoRow, NoRow))
         /\ Resolve(o, Environment(subject, row, next)) = Resolve(o, Environment(subject, NoRow, NoRow))
<1> DEFINE memory == Environment(subject, row, next)
           bound == Environment(subject, NoRow, NoRow)
<1>1. Fits(Resolve(o, memory), d)
  BY OperandFits
<1>2. o.tag # "RowField"
  <2> SUFFICES ASSUME o.tag = "RowField" PROVE FALSE
    OBVIOUS
  <2>1. d \in Described(Row, o.field)
    BY OperandFits
  <2>2. PICK f \in Described(Row, o.field) : ~f.collection
    BY DEF ValidateSqlReference
  <2>3. d = f
    BY <2>1, <2>2, OneDescription
  <2> QED BY <2>2, <2>3
<1>3. o.tag \in {"Literal", "SubjectField"} /\ Resolve(o, memory) = Resolve(o, bound)
  BY <1>2, OperandFits
<1>4. \A s \in Resolve(o, memory).entries : Plain(s, d.category)
  BY <1>1 DEF Fits
<1>5. IsScalarCollection(Resolve(o, memory))
  <2>1. Resolve(o, memory).collection
    BY <1>1 DEF Fits
  <2>2. \A s \in Resolve(o, memory).entries : s.kind # "nan"
    BY <1>4 DEF Plain, Kinds
  <2> QED BY <2>1, <2>2 DEF IsScalarCollection
<1> QED BY <1>3, <1>4, <1>5 DEF CollectionBinds

\* The evaluators agree on a comparison that was checked.
LEMMA TerminalAgrees ==
  ASSUME NEW t \in Terms, t.tag \notin Junctions, CheckTerminal(t, ScopePhases),
         \A o \in OperandsOf(t) : o.tag # "Literal" => ValidateSqlReference(o),
         NEW subject, IsSubject(subject), NEW row, IsRow(row), NEW next
  PROVE  /\ EvaluateTerminal(t, Environment(subject, row, next)) \in {"true", "false"}
         /\ BindsTerminal(t, Environment(subject, NoRow, NoRow))
         /\ EvaluateTerminal(t, Environment(subject, row, next)) = "true"
              <=> TerminalMatches(t, Environment(subject, NoRow, NoRow), Stored(row))
<1> DEFINE memory == Environment(subject, row, next)
           bound == Environment(subject, NoRow, NoRow)
<1>1. CASE t.tag = "Constant"
  <2>1. t.value \in BOOLEAN
    BY <1>1, TermsAssumption DEF Junctions
  <2> QED BY <1>1, <2>1 DEF EvaluateTerminal, BindsTerminal, TerminalMatches, Verdict
<1>2. CASE t.tag = "Equal"
  <2>1. IsOperand(t.left) /\ IsOperand(t.right)
    BY <1>2, TermsAssumption DEF Junctions
  <2>2. CheckPair(t.left, t.right, ScopePhases, FALSE)
    BY <1>2 DEF CheckTerminal
  <2>3. PICK l \in DescribeOperand(t.left, ScopePhases), r \in DescribeOperand(t.right, ScopePhases) :
          l.collection = FALSE /\ ~r.collection /\ CompatibleCategory(l.category, r.category)
    BY <2>2 DEF CheckPair
  <2>4. /\ t.left.tag # "Literal" => ValidateSqlReference(t.left)
        /\ t.right.tag # "Literal" => ValidateSqlReference(t.right)
    BY <1>2 DEF OperandsOf
  <2>5. PICK s :
          /\ Plain(s, l.category)
          /\ Resolve(t.left, memory) = [collection |-> FALSE, entries |-> {s}]
          /\ ScalarBinds(t.left, bound)
          /\ Expresses(Expression(t.left, bound, Stored(row)), s)
    BY <2>1, <2>3, <2>4, ScalarOperand
  <2>6. PICK q :
          /\ Plain(q, r.category)
          /\ Resolve(t.right, memory) = [collection |-> FALSE, entries |-> {q}]
          /\ ScalarBinds(t.right, bound)
          /\ Expresses(Expression(t.right, bound, Stored(row)), q)
    BY <2>1, <2>3, <2>4, ScalarOperand
  <2>7. TotalEquality(Expression(t.left, bound, Stored(row)), Expression(t.right, bound, Stored(row))) <=> s = q
    BY <2>3, <2>5, <2>6, ComparesScalars
  <2>8. IsScalar(Resolve(t.left, memory)) /\ IsScalar(Resolve(t.right, memory))
    BY <2>5, <2>6 DEF IsScalar, Plain, Kinds
  <2>9. EvaluateTerminal(t, memory) = Verdict(Resolve(t.left, memory) = Resolve(t.right, memory))
    BY <1>2, <2>8 DEF EvaluateTerminal
  <2>10. Resolve(t.left, memory) = Resolve(t.right, memory) <=> s = q
    <3>1. ASSUME Resolve(t.left, memory) = Resolve(t.right, memory)  PROVE s = q
      <4>1. Resolve(t.left, memory).entries = {s} /\ Resolve(t.right, memory).entries = {q}
        BY <2>5, <2>6
      <4>2. {s} = {q}
        BY <3>1, <4>1
      <4> QED BY <4>2
    <3> QED BY <2>5, <2>6, <3>1
  <2>11. TerminalMatches(t, bound, Stored(row)) <=> s = q
    BY <1>2, <2>7 DEF TerminalMatches
  <2>12. BindsTerminal(t, bound)
    BY <1>2, <2>5, <2>6 DEF BindsTerminal
  <2> QED BY <2>9, <2>10, <2>11, <2>12 DEF Verdict
<1>3. CASE t.tag = "Includes"
  <2>1. IsOperand(t.collection) /\ IsOperand(t.value)
    BY <1>3, TermsAssumption DEF Junctions
  <2>2. CheckPair(t.collection, t.value, ScopePhases, TRUE)
    BY <1>3 DEF CheckTerminal
  <2>3. PICK l \in DescribeOperand(t.collection, ScopePhases), r \in DescribeOperand(t.value, ScopePhases) :
          l.collection = TRUE /\ ~r.collection /\ CompatibleCategory(l.category, r.category)
    BY <2>2 DEF CheckPair
  <2>4. /\ t.collection.tag # "Literal" => ValidateSqlReference(t.collection)
        /\ t.value.tag # "Literal" => ValidateSqlReference(t.value)
    BY <1>3 DEF OperandsOf
  <2>5. /\ \A s \in Resolve(t.collection, memory).entries : Plain(s, l.category)
        /\ IsScalarCollection(Resolve(t.collection, memory))
        /\ CollectionBinds(t.collection, bound)
        /\ Resolve(t.collection, memory) = Resolve(t.collection, bound)
    BY <2>1, <2>3, <2>4, CollectionOperand
  <2>6. PICK q :
          /\ Plain(q, r.category)
          /\ Resolve(t.value, memory) = [collection |-> FALSE, entries |-> {q}]
          /\ ScalarBinds(t.value, bound)
          /\ Expresses(Expression(t.value, bound, Stored(row)), q)
    BY <2>1, <2>3, <2>4, ScalarOperand
  <2> DEFINE element == Expression(t.value, bound, Stored(row))
             E == Resolve(t.collection, bound).entries
  <2>7. ASSUME NEW s \in E
        PROVE  (element.kind \in {"row", s.kind} /\ TotalEquality(element, ScalarExpression(s))) <=> q = s
    <3>1. Plain(s, l.category)
      BY <2>5
    <3>2. CompatibleCategory(r.category, l.category)
      BY <2>3 DEF CompatibleCategory
    <3>3. Expresses(ScalarExpression(s), s)
      BY DEF Expresses
    <3>4. /\ TotalEquality(element, ScalarExpression(s)) <=> q = s
          /\ q = s => element.kind \in {"row", q.kind}
      BY <2>6, <3>1, <3>2, <3>3, ComparesScalars
    <3> QED BY <3>4
  <2>8. TerminalMatches(t, bound, Stored(row)) <=> q \in E
    <3>1. TerminalMatches(t, bound, Stored(row)) <=>
            \E s \in E : element.kind \in {"row", s.kind} /\ TotalEquality(element, ScalarExpression(s))
      BY <1>3 DEF TerminalMatches
    <3> HIDE DEF element, E
    <3> QED BY <2>7, <3>1
  <2>9. IsScalar(Resolve(t.value, memory)) /\ TheScalar(Resolve(t.value, memory)) = q
    BY <2>6 DEF IsScalar, TheScalar, Plain, Kinds
  <2>10. EvaluateTerminal(t, memory) = Verdict(q \in E)
    BY <1>3, <2>5, <2>9 DEF EvaluateTerminal
  <2>11. BindsTerminal(t, bound)
    BY <1>3, <2>5, <2>6 DEF BindsTerminal
  <2> QED BY <2>8, <2>10, <2>11 DEF Verdict
<1> QED BY <1>1, <1>2, <1>3, TermsAssumption

\* The terminals of a part are terminals of the whole.
LEMMA TerminalsOfParts ==
  ASSUME NEW p \in Terms, p.tag \in Junctions, NEW i \in DOMAIN p.children
  PROVE  Terminals[p.children[i]] \subseteq Terminals[p]
<1>1. Terminals[p] = UNION {Terminals[p.children[j]] : j \in DOMAIN p.children}
  BY TerminalsAre
<1> QED BY <1>1

\* Terminals are no junctions.
LEMMA TerminalsTyped ==
  \A p \in Terms : \A t \in Terminals[p] : t \in Terms /\ t.tag \notin Junctions
<1> DEFINE Good == {p \in Terms : \A t \in Terminals[p] : t \in Terms /\ t.tag \notin Junctions}
<1>1. ASSUME NEW p \in Terms, p.tag \in Junctions => \A i \in DOMAIN p.children : p.children[i] \in Good
      PROVE  p \in Good
  <2>1. CASE p.tag \in Junctions
    <3>1. \A i \in DOMAIN p.children : \A t \in Terminals[p.children[i]] : t \in Terms /\ t.tag \notin Junctions
      BY <1>1, <2>1
    <3>2. Terminals[p] = UNION {Terminals[p.children[i]] : i \in DOMAIN p.children}
      BY <2>1, TerminalsAre
    <3> QED BY <3>1, <3>2
  <2>2. CASE p.tag \notin Junctions
    BY <2>2, TerminalsAre
  <2> QED BY <2>1, <2>2
<1>2. Terms \subseteq Good
  <2> HIDE DEF Good
  <2> QED BY <1>1, TermInduction
<1> QED BY <1>2

\* Evaluators that agree on the terminals agree on the policy.
LEMMA FoldsAgree ==
  ASSUME NEW memory, NEW bound, NEW stored,
         NEW p \in Terms,
         \A t \in Terminals[p] :
           /\ EvaluateTerminal(t, memory) \in {"true", "false"}
           /\ EvaluateTerminal(t, memory) = "true" <=> TerminalMatches(t, bound, stored)
  PROVE  /\ Evaluate(p, memory) \in {"true", "false"}
         /\ Evaluate(p, memory) = "true" <=> Matches(p, bound, stored)
<1> DEFINE Agrees(t) ==
             /\ EvaluateTerminal(t, memory) \in {"true", "false"}
             /\ EvaluateTerminal(t, memory) = "true" <=> TerminalMatches(t, bound, stored)
           Result(q) ==
             /\ Evaluate(q, memory) \in {"true", "false"}
             /\ Evaluate(q, memory) = "true" <=> Matches(q, bound, stored)
           Good == {q \in Terms : (\A t \in Terminals[q] : Agrees(t)) => Result(q)}
<1>1. ASSUME NEW q \in Terms, q.tag \in Junctions => \A i \in DOMAIN q.children : q.children[i] \in Good,
             \A t \in Terminals[q] : Agrees(t)
      PROVE  Result(q)
  <2>1. CASE q.tag \notin Junctions
    <3>1. Agrees(q)
      BY <1>1, <2>1, TerminalsAre
    <3>2. Evaluate(q, memory) = EvaluateTerminal(q, memory)
      BY <2>1, Evaluates
    <3>3. Matches(q, bound, stored) = TerminalMatches(q, bound, stored)
      BY <2>1, MatchesIs
    <3> QED BY <3>1, <3>2, <3>3
  <2>2. CASE q.tag \in Junctions
    <3>1. ASSUME NEW i \in DOMAIN q.children  PROVE Result(q.children[i])
      <4>1. q.children[i] \in Good
        BY <1>1, <2>2
      <4>2. \A t \in Terminals[q.children[i]] : Agrees(t)
        <5>1. Terminals[q.children[i]] \subseteq Terminals[q]
          BY <2>2, TerminalsOfParts
        <5> HIDE DEF Agrees
        <5> QED BY <1>1, <5>1
      <4> QED BY <4>1, <4>2
    <3>2. CASE q.tag = "All"
      <4>1. \/ Evaluate(q, memory) = "true" /\ \A i \in DOMAIN q.children : Evaluate(q.children[i], memory) = "true"
            \/ \E i \in DOMAIN q.children :
                  Evaluate(q.children[i], memory) # "true" /\ Evaluate(q, memory) = Evaluate(q.children[i], memory)
        BY <2>2, <3>2, Evaluates DEF Verdict
      <4>2. Matches(q, bound, stored) <=> \A i \in DOMAIN q.children : Matches(q.children[i], bound, stored)
        BY <3>2, MatchesIs
      <4> QED BY <3>1, <4>1, <4>2
    <3>3. CASE q.tag = "Any"
      <4>1. \/ Evaluate(q, memory) = "false" /\ \A i \in DOMAIN q.children : Evaluate(q.children[i], memory) = "false"
            \/ \E i \in DOMAIN q.children :
                  Evaluate(q.children[i], memory) # "false" /\ Evaluate(q, memory) = Evaluate(q.children[i], memory)
        BY <2>2, <3>3, Evaluates DEF Verdict
      <4>2. Matches(q, bound, stored) <=> \E i \in DOMAIN q.children : Matches(q.children[i], bound, stored)
        BY <3>3, MatchesIs
      <4> QED BY <3>1, <4>1, <4>2
    <3> QED BY <2>2, <3>2, <3>3 DEF Junctions
  <2> QED BY <2>1, <2>2
<1>2. Terms \subseteq Good
  <2>1. \A q \in Terms : (q.tag \in Junctions => \A i \in DOMAIN q.children : q.children[i] \in Good) => q \in Good
    <3> HIDE DEF Agrees, Result
    <3> QED BY <1>1
  <2> HIDE DEF Good
  <2> QED BY <2>1, TermInduction
<1> QED BY <1>2

\* A policy that was checked for predicates selects the rows it holds of.
LEMMA PolicyAgrees ==
  ASSUME NEW p \in Terms, CheckPolicy(p, ScopePhases), \A o \in References(p) : ValidateSqlReference(o),
         NEW subject, IsSubject(subject), NEW row, IsRow(row), NEW next
  PROVE  /\ Evaluate(p, Environment(subject, row, next)) \in {"true", "false"}
         /\ Select(p, subject, Stored(row)) = Evaluate(p, Environment(subject, row, next))
<1> DEFINE memory == Environment(subject, row, next)
           bound == Environment(subject, NoRow, NoRow)
<1>1. ASSUME NEW t \in Terminals[p]
      PROVE  /\ EvaluateTerminal(t, memory) \in {"true", "false"}
             /\ BindsTerminal(t, bound)
             /\ EvaluateTerminal(t, memory) = "true" <=> TerminalMatches(t, bound, Stored(row))
  <2>1. t \in Terms /\ t.tag \notin Junctions
    BY TerminalsTyped
  <2>2. CheckTerminal(t, ScopePhases)
    BY DEF CheckPolicy
  <2>3. \A o \in OperandsOf(t) : o.tag # "Literal" => o \in References(p)
    BY DEF References
  <2>4. \A o \in OperandsOf(t) : o.tag # "Literal" => ValidateSqlReference(o)
    BY <2>3
  <2> QED BY <2>1, <2>2, <2>4, TerminalAgrees
<1>2. /\ Evaluate(p, memory) \in {"true", "false"}
      /\ Evaluate(p, memory) = "true" <=> Matches(p, bound, Stored(row))
  BY <1>1, FoldsAgree
<1>3. Binds(p, bound)
  BY <1>1 DEF Binds
<1> QED BY <1>2, <1>3 DEF Select, Verdict

\* What is compiled is checked for predicates, the scope and the visibility.
LEMMA AcceptedBinds ==
  ASSUME NEW d \in Definitions, Accepted(d)
  PROVE  /\ Visibility(d) \in Terms /\ d.scope \in Terms
         /\ CheckPolicy(Visibility(d), ScopePhases) /\ CheckPolicy(d.scope, ScopePhases)
         /\ \A o \in References(Visibility(d)) : ValidateSqlReference(o)
         /\ \A o \in References(d.scope) : ValidateSqlReference(o)
         /\ "read" \in DOMAIN d.allow =>
              LET rule == d.allow["read"].policy
              IN rule \in Terms /\ CheckPolicy(rule, ScopePhases) /\ \A o \in References(rule) : ValidateSqlReference(o)
<1> DEFINE rule == IF "read" \in DOMAIN d.allow THEN d.allow["read"].policy ELSE Constant(FALSE)
           V == Visibility(d)
<1>1. V \in Terms /\ V = All(<<d.scope, rule>>)
  BY DefinitionsAssumption DEF Visibility
<1> HIDE DEF rule
<1>2. V.tag = "All" /\ V.children = <<d.scope, rule>>
  BY <1>1 DEF All
<1>3. DOMAIN V.children = {1, 2} /\ V.children[1] = d.scope /\ V.children[2] = rule
  BY <1>2
<1>4. d.scope \in Terms /\ rule \in Terms
  BY <1>1, <1>2, <1>3, TermsAssumption DEF Junctions
<1>5. Terminals[V] = UNION {Terminals[V.children[i]] : i \in DOMAIN V.children}
  BY <1>1, <1>2, TerminalsAre DEF Junctions
<1>6. Terminals[V] = Terminals[d.scope] \cup Terminals[rule]
  BY <1>3, <1>5
<1>7. CheckPolicy(d.scope, ScopePhases)
  BY DEF Accepted
<1>8. CheckPolicy(rule, ScopePhases)
  <2>1. CASE "read" \in DOMAIN d.allow
    <3>1. CheckPolicy(d.allow["read"].policy, Phases("read"))
      BY <2>1 DEF Accepted
    <3> QED BY <2>1, <3>1 DEF rule, Phases
  <2>2. CASE "read" \notin DOMAIN d.allow
    <3>1. rule = Constant(FALSE) /\ rule.tag = "Constant"
      BY <2>2 DEF rule, Constant
    <3>2. Terminals[rule] = {rule}
      BY <1>4, <3>1, TerminalsAre DEF Junctions
    <3> QED BY <3>1, <3>2 DEF CheckPolicy, CheckTerminal
  <2> QED BY <2>1, <2>2
<1>9. CheckPolicy(V, ScopePhases)
  BY <1>6, <1>7, <1>8 DEF CheckPolicy
<1>10. \A o \in References(V) : ValidateSqlReference(o)
  BY DEF Accepted, ValidateSqlStorage
<1>11. References(d.scope) \subseteq References(V) /\ References(rule) \subseteq References(V)
  BY <1>6 DEF References
<1>12. "read" \in DOMAIN d.allow => rule = d.allow["read"].policy
  BY DEF rule
<1> QED BY <1>1, <1>4, <1>7, <1>8, <1>9, <1>10, <1>11, <1>12

\* A row that the scope and the rule for reading let a subject see is selected.
LEMMA VisibleIsSelected ==
  ASSUME NEW d \in Definitions, Accepted(d), NEW subject, IsSubject(subject), NEW row, IsRow(row), NEW next,
         Evaluate(d.scope, Environment(subject, row, next)) = "true",
         "read" \in DOMAIN d.allow,
         Evaluate(d.allow["read"].policy, Environment(subject, row, next)) = "true"
  PROVE  Select(Visibility(d), subject, Stored(row)) = "true"
<1> DEFINE env == Environment(subject, row, next)
           V == Visibility(d)
<1>1. V \in Terms /\ CheckPolicy(V, ScopePhases) /\ \A o \in References(V) : ValidateSqlReference(o)
  BY AcceptedBinds
<1>2. V.tag = "All" /\ V.children = <<d.scope, d.allow["read"].policy>>
  BY DEF Visibility, All
<1>3. DOMAIN V.children = {1, 2} /\ V.children[1] = d.scope /\ V.children[2] = d.allow["read"].policy
  BY <1>2
<1> HIDE DEF V
<1>4. \/ Evaluate(V, env) = "true"
      \/ \E i \in DOMAIN V.children : Evaluate(V.children[i], env) # "true"
  BY <1>1, <1>2, Evaluates DEF Junctions, Verdict
<1>5. Evaluate(V, env) = "true"
  BY <1>3, <1>4
<1>6. Select(V, subject, Stored(row)) = Evaluate(V, env)
  BY <1>1, PolicyAgrees
<1> QED BY <1>5, <1>6 DEF V

-----------------------------------------------------------------------------
(* Policies: entitlements, and policies about the subject.                 *)

\* Entitlements suffice if each requirement that is looked at is met.
LEMMA EntitledIf ==
  ASSUME NEW requirements, NEW some, some \subseteq Nat, NEW env
  PROVE  CheckEntitlements(requirements, some, env) = "ok"
           <=> \A i \in some :
                 /\ IsScalar(Resolve(requirements[i].key, env))
                 /\ TheScalar(Resolve(requirements[i].key, env)).kind = "string"
                 /\ Has(requirements[i].name, Resolve(requirements[i].key, env), env.subject)
  BY DEF CheckEntitlements

\* Evaluation depends on what the operands resolve to.
LEMMA EvaluatesSame ==
  ASSUME NEW p \in Terms, NEW e, NEW g,
         \A t \in Terminals[p] : EvaluateTerminal(t, e) = EvaluateTerminal(t, g)
  PROVE  Evaluate(p, e) = Evaluate(p, g)
<1> DEFINE Same(q) == \A t \in Terminals[q] : EvaluateTerminal(t, e) = EvaluateTerminal(t, g)
           Good == {q \in Terms : Same(q) => Evaluate(q, e) = Evaluate(q, g)}
<1>1. ASSUME NEW q \in Terms, q.tag \in Junctions => \A i \in DOMAIN q.children : q.children[i] \in Good,
             Same(q)
      PROVE  Evaluate(q, e) = Evaluate(q, g)
  <2>1. CASE q.tag \notin Junctions
    <3>1. Terminals[q] = {q}
      BY <2>1, TerminalsAre
    <3>2. Evaluate(q, e) = EvaluateTerminal(q, e) /\ Evaluate(q, g) = EvaluateTerminal(q, g)
      BY <2>1, Evaluates
    <3> QED BY <1>1, <3>1, <3>2
  <2>2. CASE q.tag \in Junctions
    <3>1. ASSUME NEW i \in DOMAIN q.children  PROVE Evaluate(q.children[i], e) = Evaluate(q.children[i], g)
      <4>1. Terminals[q.children[i]] \subseteq Terminals[q]
        BY <2>2, TerminalsOfParts
      <4> QED BY <1>1, <2>2, <4>1
    <3>2. [i \in DOMAIN q.children |-> Evaluate(q.children[i], e)] = [i \in DOMAIN q.children |-> Evaluate(q.children[i], g)]
      BY <3>1
    <3>3. Evaluate(q, e) = Junction([i \in DOMAIN q.children |-> Evaluate(q.children[i], e)], q.tag = "All")
      BY <2>2, EvaluateJunction
    <3>4. Evaluate(q, g) = Junction([i \in DOMAIN q.children |-> Evaluate(q.children[i], g)], q.tag = "All")
      BY <2>2, EvaluateJunction
    <3> QED BY <3>2, <3>3, <3>4
  <2> QED BY <2>1, <2>2
<1>2. Terms \subseteq Good
  <2>1. \A q \in Terms : (q.tag \in Junctions => \A i \in DOMAIN q.children : q.children[i] \in Good) => q \in Good
    <3> HIDE DEF Same
    <3> QED BY <1>1
  <2> HIDE DEF Good
  <2> QED BY <2>1, TermInduction
<1> QED BY <1>2

\* A policy about the subject is the same for all rows.
LEMMA SubjectOnlySame ==
  ASSUME NEW p \in Terms, SubjectOnly(p), NEW subject, NEW row, NEW next
  PROVE  Evaluate(p, Environment(subject, row, next)) = Evaluate(p, Environment(subject, NoRow, NoRow))
<1> DEFINE e == Environment(subject, row, next)
           g == Environment(subject, NoRow, NoRow)
<1>1. ASSUME NEW t \in Terminals[p]  PROVE EvaluateTerminal(t, e) = EvaluateTerminal(t, g)
  <2>1. t \in Terms /\ t.tag \notin Junctions
    BY TerminalsTyped
  <2>2. ASSUME NEW o \in OperandsOf(t)  PROVE Resolve(o, e) = Resolve(o, g)
    <3>1. o.tag = "Literal" \/ o.tag = "SubjectField"
      BY DEF SubjectOnly, References
    <3> QED BY <3>1 DEF Resolve, Environment
  <2>3. t.tag \in {"Constant", "Equal", "Includes"}
    BY <2>1, TermsAssumption
  <2>4. CASE t.tag = "Constant"
    BY <2>4 DEF EvaluateTerminal
  <2>5. CASE t.tag = "Equal"
    <3>1. Resolve(t.left, e) = Resolve(t.left, g) /\ Resolve(t.right, e) = Resolve(t.right, g)
      BY <2>2, <2>5 DEF OperandsOf
    <3> HIDE DEF e, g
    <3> QED BY <2>5, <3>1 DEF EvaluateTerminal
  <2>6. CASE t.tag = "Includes"
    <3>1. Resolve(t.collection, e) = Resolve(t.collection, g) /\ Resolve(t.value, e) = Resolve(t.value, g)
      BY <2>2, <2>6 DEF OperandsOf
    <3> HIDE DEF e, g
    <3> QED BY <2>6, <3>1 DEF EvaluateTerminal
  <2> QED BY <2>3, <2>4, <2>5, <2>6
<1> HIDE DEF e, g
<1>2. Evaluate(p, e) = Evaluate(p, g)
  BY <1>1, EvaluatesSame
<1> QED BY <1>2 DEF e, g

\* Requirements of a read, which know no next row, are the same for all of them.
LEMMA ReadRequirementsSame ==
  ASSUME NEW d \in Definitions, Accepted(d), "read" \in DOMAIN d.allow,
         NEW subject, NEW row, NEW next, NEW other
  PROVE  LET requirements == Requirements(d, "read")
         IN CheckEntitlements(requirements, DOMAIN requirements, Environment(subject, row, next)) = "ok"
              <=> CheckEntitlements(requirements, DOMAIN requirements, Environment(subject, row, other)) = "ok"
<1> DEFINE r == Requirements(d, "read")
           e == Environment(subject, row, next)
           g == Environment(subject, row, other)
<1>1. ASSUME NEW i \in DOMAIN r  PROVE Resolve(r[i].key, e) = Resolve(r[i].key, g)
  <2>1. IsOperand(r[i].key)
    BY DefinitionsAssumption
  <2>2. \E k \in DescribeOperand(r[i].key, ScopePhases) : TRUE
    <3>1. ValidateEntitlements(r, Phases("read"))
      BY DEF Accepted
    <3> QED BY <3>1 DEF ValidateEntitlements, Phases
  <2>3. r[i].key.tag # "NextField"
    BY <2>2 DEF DescribeOperand, Phase, ScopePhases
  <2> QED BY <2>1, <2>3 DEF Resolve, Environment, IsOperand
<1>2. e.subject = subject /\ g.subject = subject
  BY DEF Environment
<1>3. DOMAIN r \subseteq Nat
  BY DefinitionsAssumption
<1> HIDE DEF r, e, g
<1>4. CheckEntitlements(r, DOMAIN r, e) = "ok" <=> CheckEntitlements(r, DOMAIN r, g) = "ok"
  BY <1>1, <1>2, <1>3, EntitledIf
<1> QED BY <1>4 DEF r, e, g

-----------------------------------------------------------------------------
(* Policies: the specification.                                            *)

CompiledInv == stage = "compiled" => Accepted(definition)
RequestInv ==
  /\ request.phase \in {"idle", "admitted", "refused", "checked"}
  /\ DOMAIN request = DOMAIN NoRequest
  /\ stage = "declared" => request.phase = "idle"
  /\ request.phase = "admitted" => stage = "compiled" /\ IsSubject(request.claims)
PolicyInv == definition \in Definitions /\ CompiledInv /\ RequestInv

\* What the preflight admits has the claims of a subject.
LEMMA AdmittedIsSubject ==
  ASSUME NEW d, NEW action, NEW claims, Preflight(d, action, claims) = "ok"
  PROVE  IsSubject(claims)
  BY DEF Preflight

\* What is served is a declared definition that was accepted, and a request
\* that is admitted has the claims of a subject.
THEOREM PolicyInvariance == PolicySpec => []PolicyInv
<1>1. PolicyInit => PolicyInv
  BY DEF PolicyInit, PolicyInv, CompiledInv, RequestInv, NoRequest
<1>2. PolicyInv /\ [PolicyNext]_policyVars => PolicyInv'
  <2> SUFFICES ASSUME PolicyInv, [PolicyNext]_policyVars PROVE PolicyInv'
    OBVIOUS
  <2> USE DEF PolicyInv
  <2>1. CASE Compile
    BY <2>1 DEF Compile, CompiledInv, RequestInv
  <2>2. ASSUME NEW action \in Actions, NEW claims \in Claims, Submit(action, claims)  PROVE PolicyInv'
    <3>1. UNCHANGED <<definition, stage>> /\ stage = "compiled" /\ CompiledInv'
      BY <2>2 DEF Submit, CompiledInv
    <3>2. /\ request'.phase = IF Preflight(definition, action, claims) = "ok" THEN "admitted" ELSE "refused"
          /\ request'.claims = claims
          /\ DOMAIN request' = DOMAIN NoRequest
      BY <2>2 DEF Submit, NoRequest
    <3>3. request'.phase = "admitted" => IsSubject(request'.claims)
      BY <3>2, AdmittedIsSubject
    <3> QED BY <3>1, <3>2, <3>3 DEF RequestInv
  <2>3. ASSUME NEW row \in Proposed \cup {NoRow}, NEW next \in Proposed \cup {NoRow}, Decide(row, next)
        PROVE  PolicyInv'
    <3>1. UNCHANGED <<definition, stage>> /\ request.phase = "admitted" /\ CompiledInv'
      BY <2>3 DEF Decide, CompiledInv
    <3>2. request'.phase = "checked" /\ DOMAIN request' = DOMAIN NoRequest
      BY <2>3 DEF Decide, RequestInv, NoRequest
    <3> QED BY <3>1, <3>2 DEF RequestInv
  <2>4. ASSUME NEW name \in DOMAIN Sources, NEW row \in GrantRows, Grant(name, row) \/ Revoke(name, row)
        PROVE  PolicyInv'
    BY <2>4 DEF Grant, Revoke, CompiledInv, RequestInv
  <2>5. CASE Tick
    BY <2>5 DEF Tick, CompiledInv, RequestInv
  <2>6. CASE UNCHANGED policyVars
    BY <2>6 DEF policyVars, CompiledInv, RequestInv
  <2> QED BY <2>1, <2>2, <2>3, <2>4, <2>5, <2>6 DEF PolicyNext
<1> QED BY <1>1, <1>2, PTL DEF PolicySpec

\* Only Decide checks a request.
LEMMA CheckedByDecide ==
  ASSUME PolicyInv, PolicyNext, request'.phase = "checked"
  PROVE  \E row, next \in Proposed \cup {NoRow} : Decide(row, next)
<1>1. ~Compile
  BY DEF Compile, PolicyInv, RequestInv
<1>2. ASSUME NEW action \in Actions, NEW claims \in Claims  PROVE ~Submit(action, claims)
  BY DEF Submit, NoRequest
<1>3. ASSUME NEW name \in DOMAIN Sources, NEW row \in GrantRows  PROVE ~Grant(name, row) /\ ~Revoke(name, row)
  BY DEF Grant, Revoke
<1>4. ~Tick
  BY DEF Tick
<1> QED BY <1>1, <1>2, <1>3, <1>4 DEF PolicyNext

\* Only Submit refuses a request.
LEMMA RefusedBySubmit ==
  ASSUME PolicyNext, request.phase = "idle", request'.phase = "refused"
  PROVE  \E action \in Actions, claims \in Claims : Submit(action, claims)
<1>1. ~Compile /\ ~Tick
  BY DEF Compile, Tick
<1>2. ASSUME NEW row \in Proposed \cup {NoRow}, NEW next \in Proposed \cup {NoRow}  PROVE ~Decide(row, next)
  BY DEF Decide
<1>3. ASSUME NEW name \in DOMAIN Sources, NEW row \in GrantRows  PROVE ~Grant(name, row) /\ ~Revoke(name, row)
  BY DEF Grant, Revoke
<1> QED BY <1>1, <1>2, <1>3 DEF PolicyNext

\* Whatever is compiled, SQLite selects a row with the visibility of the
\* definition exactly if Evaluate holds of it, and neither fails (policy.ts,
\* policy-sql.ts).
THEOREM MemoryAgreesWithSql == PolicySpec => EvaluatorsAgree
<1>1. ASSUME PolicyInv, [PolicyNext]_policyVars, stage = "declared", stage' = "compiled",
             NEW subject \in Subjects, NEW row \in Rows
      PROVE  LET memory == Evaluate(Visibility(definition), Environment(subject, row, NoRow))
             IN /\ memory # "error"
                /\ Select(Visibility(definition), subject, Stored(row)) = memory
  <2>1. Accepted(definition) /\ definition \in Definitions
    <3>1. PolicyNext
      BY <1>1 DEF policyVars
    <3>2. Compile
      BY <1>1, <3>1 DEF PolicyNext, Submit, Decide, Grant, Revoke, Tick
    <3> QED BY <1>1, <3>2 DEF Compile, PolicyInv
  <2>2. /\ Visibility(definition) \in Terms
        /\ CheckPolicy(Visibility(definition), ScopePhases)
        /\ \A o \in References(Visibility(definition)) : ValidateSqlReference(o)
    BY <2>1, AcceptedBinds
  <2>3. IsSubject(subject) /\ IsRow(row)
    BY RowsAssumption
  <2> QED BY <2>2, <2>3, PolicyAgrees
<1>2. PolicyInv /\ [PolicyNext]_policyVars =>
        [(stage = "declared" /\ stage' = "compiled") =>
           \A subject \in Subjects, row \in Rows :
             LET memory == Evaluate(Visibility(definition), Environment(subject, row, NoRow))
             IN /\ memory # "error"
                /\ Select(Visibility(definition), subject, Stored(row)) = memory]_policyVars
  BY <1>1
<1> QED BY <1>2, PolicyInvariance, PTL DEF PolicySpec, EvaluatorsAgree

\* What Check has seen of a write it allows.
LEMMA AllowedWrite ==
  ASSUME NEW d, NEW action \in {"create", "update", "patch", "transition"}, NEW subject, NEW row, NEW next,
         Check(d, action, subject, row, next) = "ok"
  PROVE  LET requirements == Requirements(d, "read")
             after == Environment(subject, next, next)
         IN /\ next # NoRow /\ Evaluate(d.scope, after) = "true"
            /\ "read" \in DOMAIN d.allow /\ Evaluate(d.allow["read"].policy, after) = "true"
            /\ CheckEntitlements(requirements, DOMAIN requirements, after) = "ok"
            /\ action # "create" => row # NoRow /\ Evaluate(d.scope, Environment(subject, row, next)) = "true"
<1>1. NeedsCandidate(action) /\ (NeedsCurrent(action) <=> action # "create")
  BY DEF NeedsCandidate, NeedsCurrent
<1>2. next # NoRow /\ (action # "create" => row # NoRow)
  BY <1>1 DEF Check
<1>3. \A v : Refusal(v) # "ok"
  BY DEF Refusal
<1>4. Scoped(d, subject, next, next) = "true"
  BY <1>1, <1>3 DEF Check
<1>5. action # "create" => Scoped(d, subject, row, next) = "true"
  BY <1>1, <1>3 DEF Check
<1>6. "read" \in DOMAIN d.allow /\ Evaluate(d.allow["read"].policy, Environment(subject, next, next)) = "true"
  BY <1>1, <1>3 DEF Check
<1>7. CheckEntitlements(Requirements(d, "read"), DOMAIN Requirements(d, "read"), Environment(subject, next, next)) = "ok"
  BY <1>1, <1>3 DEF Check
<1> QED BY <1>2, <1>4, <1>5, <1>6, <1>7 DEF Scoped

\* What Check asks of a read.
LEMMA AllowedRead ==
  ASSUME NEW d, "read" \in DOMAIN d.allow, NEW subject, NEW row, row # NoRow,
         Evaluate(d.scope, Environment(subject, row, NoRow)) = "true",
         Evaluate(d.allow["read"].policy, Environment(subject, row, NoRow)) = "true",
         CheckEntitlements(Requirements(d, "read"), DOMAIN Requirements(d, "read"), Environment(subject, row, NoRow)) = "ok"
  PROVE  Check(d, "read", subject, row, NoRow) = "ok"
<1>1. ~NeedsCandidate("read") /\ NeedsCurrent("read")
  BY DEF NeedsCandidate, NeedsCurrent
<1>2. Scoped(d, subject, row, NoRow) = "true"
  BY DEF Scoped
<1> QED BY <1>1, <1>2 DEF Check

\* A row written with leave is one its writer may read.
LEMMA WrittenIsReadable ==
  ASSUME NEW d \in Definitions, Accepted(d), NEW action \in {"create", "update", "patch", "transition"},
         NEW subject, IsSubject(subject),
         NEW row \in Proposed \cup {NoRow}, NEW next \in Proposed \cup {NoRow},
         Check(d, action, subject, row, next) = "ok"
  PROVE  /\ Select(Visibility(d), subject, Stored(next)) = "true"
         /\ action # "create" => Select(d.scope, subject, Stored(row)) = "true"
         /\ Check(d, "read", subject, next, NoRow) = "ok"
<1> DEFINE r == Requirements(d, "read")
           rule == d.allow["read"].policy
           after == Environment(subject, next, next)
           later == Environment(subject, next, NoRow)
<1>1. /\ next # NoRow /\ Evaluate(d.scope, after) = "true"
      /\ "read" \in DOMAIN d.allow /\ Evaluate(rule, after) = "true"
      /\ CheckEntitlements(r, DOMAIN r, after) = "ok"
      /\ action # "create" => row # NoRow /\ Evaluate(d.scope, Environment(subject, row, next)) = "true"
  BY AllowedWrite
<1>2. IsRow(next) /\ (action # "create" => IsRow(row))
  BY <1>1, RowsAssumption
<1>3. /\ d.scope \in Terms /\ CheckPolicy(d.scope, ScopePhases) /\ \A o \in References(d.scope) : ValidateSqlReference(o)
      /\ rule \in Terms /\ CheckPolicy(rule, ScopePhases) /\ \A o \in References(rule) : ValidateSqlReference(o)
  BY <1>1, AcceptedBinds
<1>4. Select(Visibility(d), subject, Stored(next)) = "true"
  BY <1>1, <1>2, VisibleIsSelected
<1>5. action # "create" => Select(d.scope, subject, Stored(row)) = "true"
  BY <1>1, <1>2, <1>3, PolicyAgrees
<1>6. Evaluate(d.scope, later) = "true"
  <2>1. Evaluate(d.scope, later) = Select(d.scope, subject, Stored(next))
    BY <1>2, <1>3, PolicyAgrees
  <2>2. Evaluate(d.scope, after) = Select(d.scope, subject, Stored(next))
    BY <1>2, <1>3, PolicyAgrees
  <2> QED BY <1>1, <2>1, <2>2
<1>7. Evaluate(rule, later) = "true"
  <2>1. Evaluate(rule, later) = Select(rule, subject, Stored(next))
    BY <1>2, <1>3, PolicyAgrees
  <2>2. Evaluate(rule, after) = Select(rule, subject, Stored(next))
    BY <1>2, <1>3, PolicyAgrees
  <2> QED BY <1>1, <2>1, <2>2
<1>8. CheckEntitlements(r, DOMAIN r, later) = "ok"
  BY <1>1, ReadRequirementsSame
<1>9. Check(d, "read", subject, next, NoRow) = "ok"
  BY <1>1, <1>6, <1>7, <1>8, AllowedRead
<1> QED BY <1>4, <1>5, <1>9

\* A write that check allows (runtime.ts, makeCheck) leaves a row that its writer
\* lists and may read, and started from one in the scope.
THEOREM WritesStayReadable == PolicySpec => AllowedWriteIsReadable
<1>1. ASSUME PolicyInv, PolicyNext, request'.phase = "checked", request'.answer = "ok",
             request'.action \in {"create", "update", "patch", "transition"}
      PROVE  /\ Select(Visibility(definition), request'.claims, Stored(request'.next)) = "true"
             /\ request'.action # "create" =>
                  Select(definition.scope, request'.claims, Stored(request'.row)) = "true"
             /\ Check(definition, "read", request'.claims, request'.next, NoRow) = "ok"
  <2>1. PICK row \in Proposed \cup {NoRow}, next \in Proposed \cup {NoRow} : Decide(row, next)
    BY <1>1, CheckedByDecide
  <2>2. definition \in Definitions /\ Accepted(definition) /\ IsSubject(request.claims)
    BY <1>1, <2>1 DEF Decide, PolicyInv, CompiledInv, RequestInv
  <2>3. /\ request'.action = request.action /\ request'.claims = request.claims
        /\ request'.row = row /\ request'.next = next
        /\ request'.answer = Check(definition, request.action, request.claims, row, next)
    BY <1>1, <2>1 DEF Decide, PolicyInv, RequestInv, NoRequest
  <2>4. Check(definition, request.action, request.claims, row, next) = "ok"
    BY <1>1, <2>3
  <2>5. request.action \in {"create", "update", "patch", "transition"}
    BY <1>1, <2>3
  <2>6. /\ Select(Visibility(definition), request.claims, Stored(next)) = "true"
        /\ request.action # "create" => Select(definition.scope, request.claims, Stored(row)) = "true"
        /\ Check(definition, "read", request.claims, next, NoRow) = "ok"
    BY <2>2, <2>4, <2>5, WrittenIsReadable
  <2> QED BY <2>3, <2>6
<1>2. PolicyInv /\ [PolicyNext]_policyVars =>
        [(request'.phase = "checked" /\ request'.answer = "ok"
            /\ request'.action \in {"create", "update", "patch", "transition"}) =>
           /\ Select(Visibility(definition), request'.claims, Stored(request'.next)) = "true"
           /\ request'.action # "create" =>
                Select(definition.scope, request'.claims, Stored(request'.row)) = "true"
           /\ Check(definition, "read", request'.claims, request'.next, NoRow) = "ok"]_policyVars
  BY <1>1
<1> QED BY <1>2, PolicyInvariance, PTL DEF PolicySpec, AllowedWriteIsReadable

\* What Check asks of any request.
LEMMA AllowedRequest ==
  ASSUME NEW d, NEW action \in Actions, NEW subject, NEW row, NEW next,
         Check(d, action, subject, row, next) = "ok"
  PROVE  LET requirements == Requirements(d, action)
             env == Environment(subject, row, next)
         IN /\ action \in DOMAIN d.allow
            /\ Evaluate(d.allow[action].policy, env) = "true"
            /\ CheckEntitlements(requirements, DOMAIN requirements, env) = "ok"
<1>1. \A v : Refusal(v) # "ok"
  BY DEF Refusal
<1>2. action \in DOMAIN d.allow
  BY DEF Check
<1>3. Evaluate(d.allow[action].policy, Environment(subject, row, next)) = "true"
  BY <1>1 DEF Check
<1>4. CheckEntitlements(Requirements(d, action), DOMAIN Requirements(d, action), Environment(subject, row, next)) = "ok"
  BY <1>1 DEF Check
<1> QED BY <1>2, <1>3, <1>4

\* What a check allows, the preflight would have admitted for its claims.
LEMMA PreflightAdmits ==
  ASSUME NEW d \in Definitions, NEW action \in Actions, NEW claims, IsSubject(claims), NEW row, NEW next,
         Check(d, action, claims, row, next) = "ok"
  PROVE  Preflight(d, action, claims) = "ok"
<1> DEFINE r == Requirements(d, action)
           env == Environment(claims, row, next)
           bare == Environment(claims, NoRow, NoRow)
           policy == d.allow[action].policy
<1>1. action \in DOMAIN d.allow /\ Evaluate(policy, env) = "true" /\ CheckEntitlements(r, DOMAIN r, env) = "ok"
  BY AllowedRequest
<1>2. policy \in Terms /\ DOMAIN r \subseteq Nat
  BY <1>1, DefinitionsAssumption
<1>3. SubjectOnly(policy) => Evaluate(policy, bare) = "true"
  BY <1>1, <1>2, SubjectOnlySame
<1>4. CheckEntitlements(r, SubjectKeyed(r), bare) = "ok"
  <2>1. SubjectKeyed(r) \subseteq DOMAIN r /\ SubjectKeyed(r) \subseteq Nat
    BY <1>2 DEF SubjectKeyed
  <2>2. \A i \in SubjectKeyed(r) : Resolve(r[i].key, env) = Resolve(r[i].key, bare)
    BY DEF SubjectKeyed, Resolve, Environment
  <2>3. env.subject = claims /\ bare.subject = claims
    BY DEF Environment
  <2> HIDE DEF r, env, bare
  <2>4. \A i \in DOMAIN r :
          /\ IsScalar(Resolve(r[i].key, env))
          /\ TheScalar(Resolve(r[i].key, env)).kind = "string"
          /\ Has(r[i].name, Resolve(r[i].key, env), claims)
    BY <1>1, <1>2, <2>3, EntitledIf
  <2> QED BY <2>1, <2>2, <2>3, <2>4, EntitledIf
<1> QED BY <1>1, <1>3, <1>4 DEF Preflight

\* What makeSubject refuses of an authenticated request (runtime.ts), makeCheck
\* would refuse with any rows.
THEOREM PreflightIsSound == PolicySpec => PreflightRefusesOnlyHopeless
<1>1. ASSUME PolicyInv, PolicyNext, request.phase = "idle", request'.phase = "refused",
             request'.answer # "unauthenticated",
             NEW row \in Proposed \cup {NoRow}, NEW next \in Proposed \cup {NoRow}
      PROVE  Check(definition, request'.action, request'.claims, row, next) # "ok"
  <2>1. PICK action \in Actions, claims \in Claims : Submit(action, claims)
    BY <1>1, RefusedBySubmit
  <2>2. /\ request'.action = action /\ request'.claims = claims
        /\ request'.answer = Preflight(definition, action, claims)
        /\ request'.answer # "ok"
    BY <1>1, <2>1 DEF Submit, NoRequest
  <2>3. definition \in Definitions
    BY <1>1 DEF PolicyInv
  <2>4. CASE action \notin DOMAIN definition.allow
    <3>1. Check(definition, action, claims, row, next) # "ok"
      BY <2>4, AllowedRequest
    <3> QED BY <2>2, <3>1
  <2>5. CASE action \in DOMAIN definition.allow
    <3>1. IsSubject(claims)
      BY <1>1, <2>2, <2>5 DEF Preflight
    <3>2. Check(definition, action, claims, row, next) # "ok"
      BY <2>2, <2>3, <3>1, PreflightAdmits
    <3> QED BY <2>2, <3>2
  <2> QED BY <2>4, <2>5
<1>2. PolicyInv /\ [PolicyNext]_policyVars =>
        [(request.phase = "idle" /\ request'.phase = "refused"
            /\ request'.answer # "unauthenticated") =>
           \A row, next \in Proposed \cup {NoRow} :
             Check(definition, request'.action, request'.claims, row, next) # "ok"]_policyVars
  BY <1>1
<1> QED BY <1>2, PolicyInvariance, PTL DEF PolicySpec, PreflightRefusesOnlyHopeless
=============================================================================
