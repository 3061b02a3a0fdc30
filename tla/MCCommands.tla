------------------------------ MODULE MCCommands ------------------------------
(* Small instances of the five applications.                               *)
EXTENDS Applications

Callers == {"c1", "c2"}

\* Elections: none, a draft with one candidate, an open one with a ballot, and
\* closed ones with every bag of five ballots of one or two preferences over
\* three candidates in which the first choices, two, two and one, decide nothing.
Slate == 1..3
Short == {<<a>> : a \in Slate} \cup {<<a, b>> : a, b \in Slate}
Legal == {r \in Short : \A i, j \in DOMAIN r : r[i] = r[j] => i = j}
Ordered(a, b) ==
  Len(a) < Len(b) \/ (Len(a) = Len(b) /\ a[Len(a)] <= b[Len(b)])
Starting(c) == {r \in Legal : r[1] = c}
Pairs(c) == {p \in Starting(c) \X Starting(c) : Ordered(p[1], p[2])}
Bags == {<<p[1], p[2], q[1], q[2], r>> : p \in Pairs(1), q \in Pairs(2), r \in Starting(3)}

AbsenteeList == <<"v1", "v2", "v3", "v4", "v5">>
Absentees == {AbsenteeList[i] : i \in 1..5}

Election(status, version) == [tenant |-> "t1", status |-> status, version |-> version]
ElectionDatabase(election, candidates, ballots) ==
  [app |-> "elections", elections |-> <<election>>,
   candidates |-> [c \in 1..candidates |-> 1], ballots |-> ballots]

MCStored ==
  {[app |-> "elections", elections |-> <<>>, candidates |-> <<>>, ballots |-> <<>>],
   ElectionDatabase(Election("draft", 2), 1, <<>>),
   ElectionDatabase(Election("open", 4), 3, [b \in {<<1, "alice">>} |-> <<2>>])}
  \cup {ElectionDatabase(Election("closed", 5), 3,
          [b \in {<<1, v>> : v \in Absentees} |->
             bag[CHOOSE i \in 1..5 : AbsenteeList[i] = b[2]]]) : bag \in Bags}

MCRankings == {<<1, 2>>, <<2, 1, 3>>, <<1, 1>>, <<3, 4>>}
MCTenantOf == [v \in {"alice", "bob", "eve", "editor"} |-> IF v = "eve" THEN "t2" ELSE "t1"]

MCStock == [s \in {"sku"} |-> 3]

\* More calls are made where a history matters than where one answer does.
Calls(d) ==
  CASE d.app \in {"billing", "inventory", "support"} -> 4
    [] d.app = "elections" /\ DOMAIN d.ballots # {} /\ d.elections[1].status = "closed" -> 1
    [] OTHER -> 3
=============================================================================
