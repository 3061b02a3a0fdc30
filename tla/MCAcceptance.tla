---------------------------- MODULE MCAcceptance ----------------------------
(* Two operations.  "edit" stays on its form after an answer and has cases that
   share its controls: c1 gives a number, c2 leaves it out for an optional object
   and takes its text from the latest accepted result.  "create" returns to the
   list; the result of its case c3 is a text that "edit" refuses, and case c4 has
   a value the form has no control for.  Case c5 samples a member that nobody may
   supply, c6 asks for a null where there is none.  Case c7 samples the number
   that goes with the latest text, and c8 gives a text that the first draw does
   not go with.  One scenario requires no input, one states no requirement.       *)
EXTENDS Acceptance

MCFields == {"t", "n", "o", "o.a", "x"}
MCParent == [p \in MCFields |-> IF p = "o.a" THEN "o" ELSE Root]
MCKind == [p \in MCFields |-> CASE p = "n" -> "number" [] p = "o" -> "object"
                                [] p = "x" -> "never" [] OTHER -> "text"]
MCOptional == {"n", "o", "x"}

MCCases == {"c1", "c2", "c3", "c4", "c5", "c6", "c7", "c8"}
MCOperation == [c \in MCCases |-> IF c \in {"c3", "c4"} THEN "create" ELSE "edit"]
MCValidity == [c \in MCCases |-> IF c = "c4" THEN "native-invalid" ELSE "native-valid"]
MCOutcome == [c \in MCCases |-> IF c = "c4" THEN "rejected" ELSE "accepted"]
MCSources == [c \in MCCases |->
  CASE c = "c1" -> ("t" :> NativeStrategy("sample") @@ "n" :> NativeStrategy("minimum"))
    [] c = "c2" -> ("t" :> Captured("t", 0) @@ "o" :> Literal({<<"o", Object>>, <<"o.a", Str("two")>>}))
    [] c = "c3" -> ("t" :> Fixture("owner", 0) @@ "n" :> Fixture("limit", -1))
    [] c = "c4" -> ("t" :> NativeStrategy("sample") @@ "x" :> Literal({<<"x", Str("two")>>}))
    [] c = "c5" -> ("t" :> Literal({<<"t", Str("one")>>}) @@ "x" :> NativeStrategy("sample"))
    [] c = "c6" -> ("t" :> NativeStrategy("null"))
    [] c = "c7" -> ("t" :> Captured("t", 0) @@ "n" :> NativeStrategy("sample"))
    [] OTHER -> ("t" :> Literal({<<"t", Str("two")>>}))]

Scenario(cases, required, requirements, reload) ==
  [cases |-> cases, required |-> required, requirements |-> requirements, reload |-> reload]
MCScenarios == {Scenario({"c1", "c2", "c3", "c4"}, {"c1"}, {"kept", "shown"}, TRUE),
                Scenario({"c3"}, {"c3"}, {}, FALSE), Scenario({"c3"}, {}, {"kept"}, FALSE),
                Scenario({"c5"}, {"c5"}, {"kept"}, FALSE), Scenario({"c6"}, {"c6"}, {"kept"}, FALSE),
                Scenario({"c1", "c7", "c8"}, {"c7"}, {"kept"}, FALSE)}

Limit(bound, at) == [bound |-> bound, at |-> at, exclusive |-> FALSE]
MCMember == [p \in {"t", "n", "o", "x"} |->
  [supplied |-> p # "x", nullable |-> FALSE, numeric |-> p = "n",
   checks |-> IF p = "n" THEN {Limit("minimum", 1), Limit("maximum", 3), Limit("integer", 0)} ELSE {}]]
MCNative == [op \in {"edit", "create"} |-> MCMember]

\* What the codecs take: "edit" only some texts, both a number from 1 to 3.
MCText(op) == IF op = "edit" THEN {"one", "two"} ELSE {"one", "two", "u1", "u2"}
MCTakes(op, pair) ==
  CASE pair[1] \in {"t", "o.a"} -> pair[2].type = "string" /\ pair[2].text \in MCText(op)
    [] pair[1] = "n" -> pair[2].type = "number" /\ pair[2].halves \in {2, 4, 6}
    [] pair[1] = "o" -> pair[2] = Object
    [] OTHER -> FALSE
MCDecodes(op, p, part) == part # {} /\ \A pair \in part : MCTakes(op, pair)
MCCodec(op, payload) ==
  IF /\ \E pair \in payload : pair[1] = "t"
     /\ \A pair \in payload : MCTakes(op, pair)
     /\ ~({<<"t", Str("two")>>, <<"n", Num(6)>>} \subseteq payload)
  THEN {payload} ELSE {}

\* The first sample has no number, the second every member.
MCDrawn(c) == <<{<<"n", Num(6)>>}, {<<"t", Str("one")>>, <<"n", Num(4)>>}>>
MCPrepared(fixture) == "owner" :> Str(IF fixture = 1 THEN "u1" ELSE "u2") @@ "limit" :> Num(6)
MCReturned(fixture, c) ==
  "t" :> Str(CASE c = "c3" -> IF fixture = 1 THEN "u1" ELSE "u2"
               [] c = "c8" -> "two" [] OTHER -> "one")
=============================================================================
