------------------------------ MODULE Elections ------------------------------
(***************************************************************************)
(* The commands of the community elections example: slates, ballots and    *)
(* the instant-runoff tally.  A ballot's preferences are the rows of one   *)
(* (election, ballot) in the order of their ranks.                         *)
(***************************************************************************)
EXTENDS FiniteSets, Statements

CONSTANTS
  Voters,         \* subjects that vote, each with its tenant
  TenantOf,
  Editor,         \* the subject that runs the elections
  Rankings,       \* rankings callers submit, legal or not
  Stored,         \* databases the elections start from
  MaxSlate,       \* candidates an election may have (20 in the code)
  MaxElections    \* bound on the elections a run creates

\* The payloads; 0 is an identifier of no election.
Payloads(db) ==
  LET elections == IF db.elections = <<>> THEN {0} ELSE DOMAIN db.elections
      versions == {1} \cup {db.elections[e].version : e \in DOMAIN db.elections}
      advance(op) == [app : {"elections"}, op : op, subject : {Editor},
                      election : elections, expected : versions]
      ask(op) == [app : {"elections"}, op : op, subject : Voters, election : elections]
  IN  UNION {
        IF Len(db.elections) < MaxElections
          THEN [app : {"elections"}, op : {"create"}, subject : {Editor}]
          ELSE {},
        advance({"addCandidate", "open", "close"}),
        ask({"slate", "myBallot", "result"}),
        [app : {"elections"}, op : {"vote"}, subject : Voters,
         election : elections, ranking : Rankings]}

InsertPreferences(ranking) == [i \in DOMAIN ranking |-> "insertPreference"]

Handler(q) ==
  LET slate == <<"getElection", "listCandidates">>
  IN  CASE q.op = "create" -> <<"insertElection">>
        [] q.op = "addCandidate" ->
             slate \o <<"raiseVersion", "insertCandidate">> \o slate
        [] q.op = "open" -> slate \o <<"open">>
        [] q.op = "close" -> <<"getElection", "close">>
        [] q.op = "slate" -> slate
        [] q.op = "vote" ->
             slate \o <<"findBallot", "deletePreferences">>
               \o InsertPreferences(q.ranking)
        [] q.op = "myBallot" -> <<"getElection", "readBallot", "listPreferences">>
        [] q.op = "result" -> slate \o <<"tally">>

Errors(q) ==
  {"ElectionNotFound"} \cup
  CASE q.op = "create" -> {}
    [] q.op = "addCandidate" -> {"ElectionNotDraft", "InvalidSlate", "VersionConflict"}
    [] q.op = "open" -> {"InvalidSlate", "VersionConflict", "InvalidElectionTransition"}
    [] q.op = "close" -> {"VersionConflict", "InvalidElectionTransition"}
    [] q.op = "slate" -> {}
    [] q.op = "vote" -> {"ElectionNotOpen", "InvalidRanking"}
    [] q.op = "myBallot" -> {"BallotNotFound"}
    [] q.op = "result" -> {"ElectionNotClosed"}

-----------------------------------------------------------------------------
(* Tally.                                                                  *)

\* The first candidate of a ballot that is still in the race, if any.
Choices(ballot, remaining) ==
  {ballot[i] : i \in {i \in DOMAIN ballot :
     /\ ballot[i] \in remaining
     /\ \A j \in 1..(i - 1) : ballot[j] \notin remaining}}

Votes(ballots, candidate, remaining) ==
  Cardinality({b \in DOMAIN ballots : candidate \in Choices(ballots[b], remaining)})

Outcome(outcome, winner, tied) ==
  [outcome |-> outcome, winner |-> winner, tied |-> tied]

\* Candidates with the fewest votes of the round.
Fewest(votes) == {c \in DOMAIN votes : \A d \in DOMAIN votes : votes[c] <= votes[d]}

\* tallyRounds: more than half of the votes that are still active wins, a tie
\* at the bottom ends the count, and otherwise the last candidate is out.
TallyRounds(candidates, ballots) ==
  LET after[remaining \in SUBSET candidates] ==
        LET votes == [c \in remaining |-> Votes(ballots, c, remaining)]
            active == Cardinality({b \in DOMAIN ballots :
                        Choices(ballots[b], remaining) # {}})
            winners == {c \in remaining : 2 * votes[c] > active}
        IN  IF active = 0 THEN Outcome("noVotes", {}, {})
            ELSE IF winners # {} THEN Outcome("winner", winners, {})
            ELSE IF Cardinality(Fewest(votes)) > 1
            THEN Outcome("tie", {}, Fewest(votes))
            ELSE after[remaining \ Fewest(votes)]
  IN  after[candidates]

Tally(candidates, ballots) ==
  IF DOMAIN ballots = {} THEN Outcome("noVotes", {}, {})
                         ELSE TallyRounds(candidates, ballots)

-----------------------------------------------------------------------------
(* Statements.                                                             *)

\* Elections of another tenant are out of the policy's scope.
GetElection(q, seen, db) ==
  IF /\ q.election \in DOMAIN db.elections
     /\ db.elections[q.election].tenant = TenantOf[q.subject]
  THEN Done(db, [election |-> db.elections[q.election]])
  ELSE Fails(db, "ElectionNotFound")

CandidatesOf(db, election) == {c \in DOMAIN db.candidates : db.candidates[c] = election}

ListCandidates(q, seen, db) ==
  Done(db, [election |-> seen.election, candidates |-> CandidatesOf(db, q.election)])

InsertElection(q, db) ==
  LET election == [tenant |-> TenantOf[q.subject], status |-> "draft", version |-> 1]
  IN  Done([db EXCEPT !.elections = Append(@, election)], election)

\* The guards of addCandidate, then UPDATE ... WHERE version = expectedVersion.
RaiseVersion(q, seen, db) ==
  IF seen.election.status # "draft" THEN Fails(db, "ElectionNotDraft")
  ELSE IF Cardinality(seen.candidates) >= MaxSlate THEN Fails(db, "InvalidSlate")
  ELSE IF db.elections[q.election].version # q.expected
  THEN Fails(db, "VersionConflict")
  ELSE Done([db EXCEPT !.elections[q.election].version = @ + 1], seen)

InsertCandidate(q, seen, db) ==
  Done([db EXCEPT !.candidates = Append(@, q.election)], seen)

Advance(q, from, to, db) ==
  IF db.elections[q.election].status # from
  THEN Fails(db, "InvalidElectionTransition")
  ELSE IF db.elections[q.election].version # q.expected
  THEN Fails(db, "VersionConflict")
  ELSE Done([db EXCEPT !.elections[q.election].status = to,
                       !.elections[q.election].version = @ + 1], Nothing)

Open(q, seen, db) ==
  IF Cardinality(seen.candidates) \notin 2..MaxSlate THEN Fails(db, "InvalidSlate")
  ELSE Advance(q, "draft", "open", db)

Close(q, db) == Advance(q, "open", "closed", db)

\* The guards of vote; then the voter's ballot is found or inserted.
FaultIsOpen(election) == election.status # "draft"
IsOpen(election) == election.status = "open"

Legal(ranking, candidates) ==
  /\ \A i, j \in DOMAIN ranking : ranking[i] = ranking[j] => i = j
  /\ \A i \in DOMAIN ranking : ranking[i] \in candidates

Ballot(q) == <<q.election, q.subject>>

FindBallot(q, seen, db) ==
  IF ~IsOpen(seen.election) THEN Fails(db, "ElectionNotOpen")
  ELSE IF ~Legal(q.ranking, seen.candidates) THEN Fails(db, "InvalidRanking")
  ELSE IF Ballot(q) \in DOMAIN db.ballots THEN Done(db, seen)
  ELSE Done([db EXCEPT !.ballots = Put(@, Ballot(q), <<>>)], seen)

DeletePreferences(q, seen, db) ==
  Done([db EXCEPT !.ballots[Ballot(q)] = <<>>], seen)

\* The rank of the next preference; a rank or a candidate is inserted once.
InsertPreference(q, seen, db) ==
  LET rank == Len(db.ballots[Ballot(q)]) + 1
  IN  IF rank \notin DOMAIN q.ranking THEN Fails(db, "UniqueViolation")
      ELSE Done([db EXCEPT !.ballots[Ballot(q)] = Append(@, q.ranking[rank])], seen)

ReadBallot(q, seen, db) ==
  IF Ballot(q) \in DOMAIN db.ballots THEN Done(db, seen)
                                     ELSE Fails(db, "BallotNotFound")

\* RankingSchema refuses an empty ranking.
ListPreferences(q, db) ==
  IF db.ballots[Ballot(q)] = <<>> THEN Fails(db, "SchemaError")
  ELSE Done(db, [ranking |-> db.ballots[Ballot(q)]])

BallotsOf(db, election) ==
  [b \in {b \in DOMAIN db.ballots : b[1] = election} |-> db.ballots[b]]

Count(q, seen, db) ==
  IF seen.election.status # "closed" THEN Fails(db, "ElectionNotClosed")
  ELSE IF \E b \in DOMAIN BallotsOf(db, q.election) : db.ballots[b] = <<>>
  THEN Fails(db, "SchemaError")
  ELSE Done(db, Tally(seen.candidates, BallotsOf(db, q.election)))

RunStatement(statement, q, seen, db) ==
  CASE statement = "insertElection" -> InsertElection(q, db)
    [] statement = "getElection" -> GetElection(q, seen, db)
    [] statement = "listCandidates" -> ListCandidates(q, seen, db)
    [] statement = "raiseVersion" -> RaiseVersion(q, seen, db)
    [] statement = "insertCandidate" -> InsertCandidate(q, seen, db)
    [] statement = "open" -> Open(q, seen, db)
    [] statement = "close" -> Close(q, db)
    [] statement = "findBallot" -> FindBallot(q, seen, db)
    [] statement = "deletePreferences" -> DeletePreferences(q, seen, db)
    [] statement = "insertPreference" -> InsertPreference(q, seen, db)
    [] statement = "readBallot" -> ReadBallot(q, seen, db)
    [] statement = "listPreferences" -> ListPreferences(q, db)
    [] statement = "tally" -> Count(q, seen, db)

-----------------------------------------------------------------------------

\* Ballots that rank a above b.
Prefer(ballots, a, b) ==
  Cardinality({v \in DOMAIN ballots : \E i \in DOMAIN ballots[v] :
    /\ ballots[v][i] = a
    /\ \A j \in 1..(i - 1) : ballots[v][j] # b})

First(ballots, a) == Cardinality({v \in DOMAIN ballots : ballots[v][1] = a})

\* Who may win, told without counting rounds: nobody without a vote, the first
\* choice of a majority, and never a candidate that every other one beats head
\* to head; no winner means no ballots or a tie of at least two.
Defensible(tally, candidates, ballots) ==
  LET majority == {c \in candidates : 2 * First(ballots, c) > Cardinality(DOMAIN ballots)}
  IN  CASE tally.outcome = "noVotes" -> DOMAIN ballots = {}
        [] tally.outcome = "tie" -> majority = {} /\ Cardinality(tally.tied) > 1
        [] tally.outcome = "winner" ->
             /\ majority \subseteq tally.winner
             /\ \E w \in candidates :
                  /\ tally.winner = {w}
                  /\ First(ballots, w) > 0
                  /\ \E d \in candidates \ {w} :
                       Prefer(ballots, w, d) > Prefer(ballots, d, w)

\* Every ballot of an election that was opened is whole and over its slate, and
\* a slate has two candidates at least.
BallotsWhole(db) ==
  \A b \in DOMAIN db.ballots :
    LET candidates == CandidatesOf(db, b[1])
    IN  /\ db.elections[b[1]].status # "draft"
        /\ Cardinality(candidates) >= 2
        /\ db.ballots[b] # <<>>
        /\ Legal(db.ballots[b], candidates)

\* Databases the elections may start from: the tables with their foreign keys,
\* a slate of two for every election that was opened, and whole ballots.
WellFormed(db) ==
  /\ db = [app |-> "elections", elections |-> db.elections,
           candidates |-> db.candidates, ballots |-> db.ballots]
  /\ db.elections \in Seq([tenant : {TenantOf[v] : v \in DOMAIN TenantOf},
                           status : {"draft", "open", "closed"}, version : Nat])
  /\ db.candidates \in Seq(DOMAIN db.elections)
  /\ IsFiniteSet(DOMAIN db.ballots)
  /\ db.ballots \in [DOMAIN db.ballots -> Seq(Nat)]
  /\ \A b \in DOMAIN db.ballots : b = <<b[1], b[2]>> /\ b[1] \in DOMAIN db.elections
  /\ \A e \in DOMAIN db.elections :
       db.elections[e].status # "draft" => Cardinality(CandidatesOf(db, e)) >= 2
  /\ BallotsWhole(db)
=============================================================================
