------------------------------ MODULE MCGroups ------------------------------
(* A small instance of Groups; who joins which tenant, and as what, is open. *)
EXTENDS Groups, TLC

People == Permutations(Users) \cup Permutations(Tenants)
  \cup Permutations(GroupIds) \cup Permutations(Clients)
=============================================================================
