------------------------------- MODULE Exports -------------------------------
(***************************************************************************)
(* What the report-exports example promises to whoever polls an export and *)
(* looks for its file: an accepted export is pending until it is           *)
(* cancelled, fails or succeeds, once and for ever; it is cancelled only   *)
(* while nothing was written for it, and then nothing ever is; and it      *)
(* succeeds only after its file was written.                               *)
(***************************************************************************)

CONSTANTS Ids

VARIABLES
  stage,   \* what Poll answers of each export
  written  \* exports whose file was written

Init ==
  /\ stage = [id \in Ids |-> "unknown"]
  /\ written = {}

Become(id, from, to) ==
  stage[id] = from /\ stage' = [stage EXCEPT ![id] = to]

Accept(id) == Become(id, "unknown", "pending") /\ UNCHANGED written

\* A writer that was given the job may be late: the export has failed since.
Write(id) ==
  /\ stage[id] \in {"pending", "failed", "succeeded"}
  /\ written' = written \cup {id}
  /\ UNCHANGED stage

Cancel(id) ==
  id \notin written /\ Become(id, "pending", "cancelled") /\ UNCHANGED written

Fail(id) == Become(id, "pending", "failed") /\ UNCHANGED written

Succeed(id) ==
  id \in written /\ Become(id, "pending", "succeeded") /\ UNCHANGED written

Next ==
  \E id \in Ids :
    Accept(id) \/ Write(id) \/ Cancel(id) \/ Fail(id) \/ Succeed(id)

Spec == Init /\ [][Next]_<<stage, written>>
=============================================================================
