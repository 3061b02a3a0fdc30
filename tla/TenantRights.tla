---------------------------- MODULE TenantRights ----------------------------
(***************************************************************************)
(* What groups and permissions promise to an application that asks whether *)
(* a user holds a permission.  Users live in tenants; what is done in a    *)
(* tenant changes the rights of its own users only.  Somebody new has no   *)
(* rights, and who leaves has none from that moment on and never returns.  *)
(***************************************************************************)

CONSTANTS Users, Tenants, Permissions, Outside, Gone

VARIABLES
  home,   \* the tenant of each user, or Outside before and Gone after it
  rights  \* pairs of a user and a permission

Init ==
  /\ home = [u \in Users |-> Outside]
  /\ rights = {}

Arrive(u, tenant) ==
  /\ home[u] = Outside
  /\ home' = [home EXCEPT ![u] = tenant]
  /\ UNCHANGED rights

Leave(u) ==
  /\ home' = [home EXCEPT ![u] = Gone]
  /\ rights' = {r \in rights : r[1] # u}

Administer(tenant) ==
  /\ UNCHANGED home
  /\ rights' \subseteq Users \X Permissions
  /\ \A u \in Users : home[u] # tenant =>
       \A p \in Permissions : <<u, p>> \in rights <=> <<u, p>> \in rights'

Next ==
  \/ \E u \in Users, tenant \in Tenants : Arrive(u, tenant)
  \/ \E u \in Users : Leave(u)
  \/ \E tenant \in Tenants : Administer(tenant)

Spec == Init /\ [][Next]_<<home, rights>>
=============================================================================
