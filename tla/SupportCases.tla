----------------------------- MODULE SupportCases -----------------------------
(***************************************************************************)
(* The commands of the support cases example over cases, agents, events    *)
(* and audits, and the published operations on agents.                     *)
(***************************************************************************)
EXTENDS FiniteSets, Statements

CONSTANTS
  Agents,     \* the support agents at the start, all on duty
  Customers,
  MaxCases,   \* bounds on the cases a run opens and their versions
  MaxVersion,
  NoAgent

Database ==
  [app |-> "support", agents |-> [a \in Agents |-> TRUE], cases |-> <<>>,
   events |-> <<>>, audits |-> {}]

EventKinds == [triage |-> "triaged", assign |-> "assigned",
               resolve |-> "resolved", reopen |-> "reopened"]

SupportCaseTransitions ==
  [triage |-> [from |-> "open", to |-> "triaged"],
   assign |-> [from |-> "triaged", to |-> "assigned"],
   resolve |-> [from |-> "assigned", to |-> "resolved"],
   reopen |-> [from |-> "resolved", to |-> "triaged"]]

\* assignedAgentId is optional: NoAgent stands for its absence.
Payloads(db) ==
  LET cases == DOMAIN db.cases \cup {0}
      advance(op, actions, agents) ==
        [app : {"support"}, op : {op}, action : actions, id : cases,
         expected : 1..MaxVersion, agent : agents]
  IN  UNION {
        IF Len(db.cases) < MaxCases
          THEN [app : {"support"}, op : {"openCase"}, customer : Customers \cup {"other"}]
          ELSE {},
        advance("advanceCase", {"assign"}, Agents \cup {NoAgent}),
        advance("advanceCase", {"triage", "resolve", "reopen"}, {NoAgent}),
        [app : {"support"}, op : {"caseDetail", "auditTrail"}, id : cases],
        [app : {"support"}, op : {"toggleDuty", "removeAgent"}, agent : Agents]}

Handler(q) ==
  CASE q.op = "openCase" ->
         <<"getCustomer", "insertCase", "insertEvent", "appendAudit">>
    [] q.op = "advanceCase" ->
         <<"getCase", "assignment", "transition", "insertEvent", "appendAudit">>
    [] q.op = "caseDetail" -> <<"getCase", "detail">>
    [] q.op = "auditTrail" -> <<"listAudits">>
    [] q.op \in {"toggleDuty", "removeAgent"} -> <<q.op>>

InTransaction(q) == q.op \notin {"caseDetail", "auditTrail"}

Errors(q) ==
  CASE q.op = "openCase" -> {"SupportCustomerNotFound"}
    [] q.op = "advanceCase" ->
         {"SupportCaseNotFound", "SupportAgentRequired", "SupportAgentNotFound",
          "AgentOffDuty", "VersionConflict", "InvalidSupportCaseTransition"}
    [] q.op = "caseDetail" -> {"SupportCaseNotFound"}
    [] q.op = "auditTrail" -> {}
    [] q.op \in {"toggleDuty", "removeAgent"} -> {"ResourceNotFound"}

-----------------------------------------------------------------------------
(* Statements.                                                             *)

Action(q) == IF q.op = "openCase" THEN "open" ELSE q.action

GetCustomer(q, db) ==
  IF q.customer \in Customers THEN Done(db, Nothing)
                              ELSE Fails(db, "SupportCustomerNotFound")

InsertCase(q, db) ==
  LET case == [status |-> "open", agent |-> NoAgent, version |-> 1]
  IN  Done([db EXCEPT !.cases = Append(@, case), !.events = Append(@, <<>>)],
           [id |-> Len(db.cases) + 1, case |-> case])

GetCase(q, seen, db) ==
  IF q.id \in DOMAIN db.cases THEN Done(db, seen)
                              ELSE Fails(db, "SupportCaseNotFound")

\* assignmentFor: only an assignment reads the agent.
OnDuty(agent, db) == db.agents[agent]

Assignment(q, seen, db) ==
  IF q.action # "assign" THEN Done(db, seen)
  ELSE IF q.agent = NoAgent THEN Fails(db, "SupportAgentRequired")
  ELSE IF q.agent \notin DOMAIN db.agents THEN Fails(db, "SupportAgentNotFound")
  ELSE IF ~OnDuty(q.agent, db) THEN Fails(db, "AgentOffDuty")
  ELSE Done(db, seen)

\* The edge, then the version; an assignment sets the agent, reopening clears it.
Transition(q, db) ==
  LET case == db.cases[q.id]
      edge == SupportCaseTransitions[q.action]
      next == [status |-> edge.to, version |-> case.version + 1,
               agent |-> CASE q.action = "assign" -> q.agent
                           [] q.action = "reopen" -> NoAgent
                           [] OTHER -> case.agent]
  IN  IF case.status # edge.from THEN Fails(db, "InvalidSupportCaseTransition")
      ELSE IF case.version # q.expected THEN Fails(db, "VersionConflict")
      ELSE Done([db EXCEPT !.cases[q.id] = next], [id |-> q.id, case |-> next])

InsertEvent(q, seen, db) ==
  LET kind == IF q.op = "openCase" THEN "opened" ELSE EventKinds[q.action]
  IN  Done([db EXCEPT !.events[seen.id] =
              Append(@, [kind |-> kind, agent |-> seen.case.agent])], seen)

\* INSERT ... ON CONFLICT(id) DO NOTHING, the id made of case and version.
FaultAuditKey(seen) == <<seen.id, 1>>
AuditKey(seen) == <<seen.id, seen.case.version>>

AppendAudit(q, seen, db) ==
  IF \E a \in db.audits : a.id = AuditKey(seen) THEN Done(db, seen)
  ELSE Done([db EXCEPT !.audits = @ \cup
               {[id |-> AuditKey(seen), target |-> seen.id, action |-> Action(q)]}],
            seen)

Detail(q, db) ==
  Done(db, [case |-> db.cases[q.id], events |-> db.events[q.id]])

ListAudits(q, db) == Done(db, [audits |-> {a \in db.audits : a.target = q.id}])

ToggleDuty(q, db) ==
  IF q.agent \in DOMAIN db.agents
  THEN Done([db EXCEPT !.agents[q.agent] = ~@], Nothing)
  ELSE Fails(db, "ResourceNotFound")

\* Cases and events hold foreign keys to their agents.
RemoveAgent(q, db) ==
  LET referenced == \E i \in DOMAIN db.events : \E n \in DOMAIN db.events[i] :
                      db.events[i][n].agent = q.agent
  IN  IF q.agent \notin DOMAIN db.agents THEN Fails(db, "ResourceNotFound")
      ELSE IF referenced THEN Fails(db, Unavailable)
      ELSE Done([db EXCEPT !.agents =
                   [a \in DOMAIN @ \ {q.agent} |-> @[a]]], Nothing)

RunStatement(statement, q, seen, db) ==
  CASE statement = "getCustomer" -> GetCustomer(q, db)
    [] statement = "insertCase" -> InsertCase(q, db)
    [] statement = "getCase" -> GetCase(q, seen, db)
    [] statement = "assignment" -> Assignment(q, seen, db)
    [] statement = "transition" -> Transition(q, db)
    [] statement = "insertEvent" -> InsertEvent(q, seen, db)
    [] statement = "appendAudit" -> AppendAudit(q, seen, db)
    [] statement = "detail" -> Detail(q, db)
    [] statement = "listAudits" -> ListAudits(q, db)
    [] statement = "toggleDuty" -> ToggleDuty(q, db)
    [] statement = "removeAgent" -> RemoveAgent(q, db)

-----------------------------------------------------------------------------

\* Where a case that went through these events stands.
StatusAfter(kind) ==
  CASE kind = "opened" -> "open" [] kind = "reopened" -> "triaged" [] OTHER -> kind

\* The history of a case is complete: one event and one audit for each of its
\* versions, in order, the last one telling its status and its agent; and an
\* agent that works on a case exists.
TrailTellsTheCase(db) ==
  /\ DOMAIN db.events = DOMAIN db.cases
  /\ \A c \in DOMAIN db.cases :
       LET case == db.cases[c]
           events == db.events[c]
           actions == [n \in DOMAIN events |->
                         {a.action : a \in {x \in db.audits : x.id = <<c, n>>}}]
       IN  /\ Len(events) = case.version
           /\ StatusAfter(events[case.version].kind) = case.status
           /\ events[case.version].agent = case.agent
           /\ case.status \in {"assigned", "resolved"} <=> case.agent # NoAgent
           /\ case.agent \in DOMAIN db.agents \cup {NoAgent}
           /\ \A n \in DOMAIN events :
                actions[n] = {IF n = 1 THEN "open"
                              ELSE CHOOSE x \in DOMAIN EventKinds :
                                     EventKinds[x] = events[n].kind}
  /\ \A a \in db.audits : a.id[2] <= db.cases[a.id[1]].version
=============================================================================
