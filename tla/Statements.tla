----------------------------- MODULE Statements -----------------------------
(***************************************************************************)
(* What one statement of a command's handler does: it leaves a database,   *)
(* what the handler knows so far, and possibly a failure with its details. *)
(***************************************************************************)
EXTENDS Naturals, Sequences

Succeeds == "succeeds"
Unavailable == "unavailable"
Nothing == [nothing |-> TRUE]

Done(db, seen) == [db |-> db, seen |-> seen, failure |-> Succeeds]
FailsWith(db, failure, detail) ==
  [db |-> db, seen |-> detail, failure |-> failure]
Fails(db, failure) == FailsWith(db, failure, Nothing)

\* f with the value of k set or added, as an INSERT or an UPDATE does.
Put(f, k, v) == [x \in DOMAIN f \cup {k} |-> IF x = k THEN v ELSE f[x]]
=============================================================================
