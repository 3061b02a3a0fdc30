------------------------------ MODULE Accounts ------------------------------
(***************************************************************************)
(* What the identity store promises to whoever refers to its accounts: a   *)
(* username names one account for ever.  Its row is never removed, a       *)
(* closed account never opens again, whatever restarts, seeds and signups  *)
(* follow, and its tenant and role stay those it was created with.         *)
(***************************************************************************)

CONSTANTS
  Users,
  Tenants,
  None      \* the username has no account

VARIABLE account

\* admin: the roles of the account contain "admin".
Rows == [status : {"enabled", "disabled"}, tenant : Tenants, admin : BOOLEAN]

Init == account = [u \in Users |-> None]

\* A row conflicts with any row of the name, also one that is disabled.
FaultClosedNameIsFree(u) ==
  account[u] # None => account[u].status = "disabled"
FreeName(u) == account[u] = None

\* A configured account is seeded, or somebody signs up.
Open(u, tenant, admin) ==
  /\ FreeName(u)
  /\ account' = [account EXCEPT
       ![u] = [status |-> "enabled", tenant |-> tenant, admin |-> admin]]

Close(u) ==
  /\ account[u] # None
  /\ account' = [account EXCEPT ![u].status = "disabled"]

Next ==
  \E u \in Users :
    \/ \E tenant \in Tenants, admin \in BOOLEAN : Open(u, tenant, admin)
    \/ Close(u)

Spec == Init /\ [][Next]_account
=============================================================================
