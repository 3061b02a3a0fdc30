----------------------------- MODULE MCIdentity -----------------------------
(* Small instances of Identity.  "acme" is the tenant of the seeded accounts
   of the examples.                                                         *)
EXTENDS Identity, TLC

CONSTANTS admin, alice, carol, acme

SeededTenant == [u \in Seeds |-> acme]

RowSymmetry == Permutations(Sessions) \cup Permutations(Resets)
  \cup Permutations(Invites) \cup Permutations(Clients)
=============================================================================
