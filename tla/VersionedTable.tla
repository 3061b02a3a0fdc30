--------------------------- MODULE VersionedTable ---------------------------
(***************************************************************************)
(* What a resource's table promises to everybody who reads it: every key   *)
(* goes through lives.  A life starts when a row is inserted, each         *)
(* replacement in it raises the version by exactly one, and it ends when   *)
(* the row is removed.  Who asked, by which operation, in how many         *)
(* statements and under which policy is not said here.                     *)
(***************************************************************************)
EXTENDS Integers

CONSTANTS
  Keys,
  Contents,   \* the canonical values of a row, its key and version left out
  Versions,   \* the integers a version may be
  Versioned,  \* whether the resource declares a version field
  Absent      \* the key has no row

VARIABLES
  table,  \* the row of each key
  life    \* how many rows the key has had so far

Rows == [content : Contents, version : Versions]

Init ==
  /\ table = [k \in Keys |-> Absent]
  /\ life = [k \in Keys |-> 0]

Insert(k, row) ==
  /\ table[k] = Absent
  /\ table' = [table EXCEPT ![k] = row]
  /\ life' = [life EXCEPT ![k] = @ + 1]

Replace(k, row) ==
  /\ table[k] # Absent
  /\ row.version = IF Versioned THEN table[k].version + 1 ELSE table[k].version
  /\ table' = [table EXCEPT ![k] = row]
  /\ UNCHANGED life

Remove(k) ==
  /\ table[k] # Absent
  /\ table' = [table EXCEPT ![k] = Absent]
  /\ UNCHANGED life

Next ==
  \E k \in Keys :
    \/ \E row \in Rows : Insert(k, row) \/ Replace(k, row)
    \/ Remove(k)

Spec == Init /\ [][Next]_<<table, life>>
=============================================================================
