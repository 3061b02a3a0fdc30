---------------------------- MODULE MCMigrations ----------------------------
(* Six artifacts over three schemas.  create and index are the usual first
   migrations; rescale rewrites rows and keeps the schema, so its steps also
   succeed on their own result; rival takes the place of index in a diverging
   release; reindex is index after an edit, under the same id; botched has
   the id of rescale, and its steps lose the index that it promises.        *)
EXTENDS Migrations

CONSTANTS create, index, rescale, rival, reindex, botched

MCArtifacts == {create, index, rescale, rival, reindex, botched}
MCIds == {"001", "002", "003", "002b"}
MCIdOf ==
  [m \in MCArtifacts |-> CASE m = create -> "001"
                           [] m \in {rescale, botched} -> "003"
                           [] m = rival -> "002b" [] OTHER -> "002"]

MCSchemas == {"empty", "tables", "indexed", "broken"}
MCTo ==
  [m \in MCArtifacts |-> IF m = create THEN "tables" ELSE "indexed"]

\* Creating what exists fails.
MCSteps ==
  [m \in MCArtifacts |->
    [s \in MCSchemas |->
      CASE m = create /\ s = "empty" -> "tables"
        [] m \in {index, rival, reindex} /\ s = "tables" -> "indexed"
        [] m = botched /\ s = "indexed" -> "broken"
        [] m = rescale /\ s = "indexed" -> "indexed"
        [] OTHER -> Failed]]

MCReleases ==
  {<<create>>, <<create, index>>, <<create, index, rescale>>,
   <<create, rival>>, <<create, reindex, botched>>}
=============================================================================
