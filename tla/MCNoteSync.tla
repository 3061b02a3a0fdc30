----------------------------- MODULE MCNoteSync -----------------------------
(* Two replicas whose first revisions tie; one writes a second revision. *)
EXTENDS NoteSync, TLC

Written(title, revision, replicaId) ==
  [title |-> title, revision |-> revision, replicaId |-> replicaId]

CONSTANTS red, blue
MCEdits == {Written(red, 1, 1), Written(blue, 1, 2), Written(red, 2, 1)}
=============================================================================
