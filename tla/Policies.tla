------------------------------ MODULE Policies ------------------------------
(* Authorization by policy (packages/effect-domains/src/authorization).  A
   definition has a scope, a rule for each allowed action and entitlements an
   action requires.  It is checked once, when the resource is compiled, against
   the field schemas of the resource and of the subject and against the stored
   columns.  From then on the same policy terms are evaluated in two ways: in
   memory on decoded rows, and by SQLite on stored columns.  A request is
   admitted by its claims (subject), then checked with the rows it reads and
   proposes (check); in between, the grants and the clock may change.

   A scalar is its kind and one of two contents; a stored scalar has the type
   SQLite's typeof gives, so a boolean and a number of equal content are the
   same stored scalar.

   A policy is a tree that is folded (Policy.fold): what is made of it is made
   of its parts.  Here the parts of all policies are in Terms, and a fold is a
   recursive function on them, which descends in Depth.                      *)
EXTENDS Integers, Sequences, FiniteSets

CONSTANTS
  Row,             \* the resource's schema: field -> FieldSchema
  Subject,         \* the subject's schema: field -> FieldSchema
  Definitions,     \* the definitions a program may try to compile
  Terms,           \* their policies and all parts of these
  Depth(_),        \* of a term: greater than that of its parts
  Rows,            \* decoded rows the two evaluators are compared on
  Subjects,        \* and claims they are compared for
  Proposed,        \* rows that requests read and propose
  Claims,          \* claims a request may carry, valid for Subject or not
  Sources,         \* entitlements: name -> [scope : subject field, grant]
  GrantTerms,      \* their grants and all parts of these
  GrantRows,       \* possible rows of an entitlement's table
  MaxNow           \* bound on the clock

Actions == {"read", "create", "update", "patch", "remove", "transition"}

-----------------------------------------------------------------------------
(* Values and field schemas.  A value is a scalar, a collection of scalars, or
   missing.  "nan" is a number that is not finite.                            *)
Missing == [collection |-> FALSE, entries |-> {}]
One(kind, content) ==
  [collection |-> FALSE, entries |-> {[kind |-> kind, content |-> content]}]
Many(entries) == [collection |-> TRUE, entries |-> entries]

IsScalar(value) ==
  /\ ~value.collection
  /\ \E s \in value.entries : value.entries = {s} /\ s.kind # "nan"
IsScalarCollection(value) ==
  value.collection /\ \A s \in value.entries : s.kind # "nan"
TheScalar(value) == CHOOSE s \in value.entries : TRUE

\* What a field of this schema may hold.
FieldScalars(schema) ==
  LET Contents(member) ==
        CASE member = "null" -> {[kind |-> "null", content |-> 0]}
          [] member = "finite" -> [kind : {"number"}, content : 0..1]
          [] member = "number" -> [kind : {"number", "nan"}, content : 0..1]
          [] OTHER -> [kind : {member}, content : 0..1]
  IN UNION {Contents(member) : member \in schema.members}
FieldValues(schema) ==
  (IF schema.collection THEN {Many(e) : e \in SUBSET FieldScalars(schema)}
   ELSE {One(s.kind, s.content) : s \in FieldScalars(schema)})
  \cup (IF schema.optional THEN {Missing} ELSE {})

IsSubject(claims) ==
  /\ DOMAIN Subject \subseteq DOMAIN claims
  /\ \A f \in DOMAIN Subject : claims[f] \in FieldValues(Subject[f])

\* Two members of a union that are not null must have one category.
Category(member) == IF member \in {"finite", "number"} THEN "number" ELSE member
Combined(categories, nullable, collection) ==
  IF Cardinality(categories) > 1 THEN {}
  ELSE {[category |-> categories, nullable |-> nullable, collection |-> collection]}

\* The description policies are checked with, if the schema has one.
Describe(schema) ==
  IF schema.optional \/ "number" \in schema.members THEN {}
  ELSE Combined({Category(m) : m \in schema.members \ {"null"}},
                "null" \in schema.members, schema.collection)
DescribeValue(value) ==
  LET kinds == {s.kind : s \in value.entries}
  IN IF "nan" \in kinds THEN {}
     ELSE Combined(kinds \ {"null"}, "null" \in kinds, value.collection)
Described(schema, field) ==
  IF field \in DOMAIN schema THEN Describe(schema[field]) ELSE {}

-----------------------------------------------------------------------------
(* Terms.  Operands: Literal(value), and a field of the subject, the current
   row or the next row.                                                       *)
Literal(value) == [tag |-> "Literal", value |-> value]
SubjectField(field) == [tag |-> "SubjectField", field |-> field]
RowField(field) == [tag |-> "RowField", field |-> field]
NextField(field) == [tag |-> "NextField", field |-> field]

Constant(value) == [tag |-> "Constant", value |-> value]
Equal(left, right) == [tag |-> "Equal", left |-> left, right |-> right]
Includes(collection, value) ==
  [tag |-> "Includes", collection |-> collection, value |-> value]
All(children) == [tag |-> "All", children |-> children]
Any(children) == [tag |-> "Any", children |-> children]

Junctions == {"All", "Any"}

\* The comparisons and constants that a policy joins.
Terminals[p \in Terms] ==
  IF p.tag \in Junctions THEN UNION {Terminals[p.children[i]] : i \in DOMAIN p.children} ELSE {p}

OperandsOf(terminal) ==
  CASE terminal.tag = "Constant" -> {}
    [] terminal.tag = "Equal" -> {terminal.left, terminal.right}
    [] terminal.tag = "Includes" -> {terminal.collection, terminal.value}
References(policy) ==
  {o \in UNION {OperandsOf(terminal) : terminal \in Terminals[policy]} : o.tag # "Literal"}

-----------------------------------------------------------------------------
(* Evaluation in memory.  An environment has the subject's claims and, where
   the phase provides them, a current and a next row.                         *)
NoRow == <<>>
Environment(subject, row, next) == [subject |-> subject, row |-> row, next |-> next]
Verdict(b) == IF b THEN "true" ELSE "false"

Resolve(operand, env) ==
  LET Of(record) ==
        IF operand.field \in DOMAIN record THEN record[operand.field] ELSE Missing
  IN CASE operand.tag = "Literal" -> operand.value
       [] operand.tag = "SubjectField" -> Of(env.subject)
       [] operand.tag = "RowField" -> Of(env.row)
       [] operand.tag = "NextField" -> Of(env.next)

\* A junction evaluates its children in order, up to the first that decides.
Junction(outcomes, all) ==
  LET Deciding == {i \in DOMAIN outcomes : outcomes[i] # Verdict(all)}
  IN IF Deciding = {} THEN Verdict(all)
     ELSE outcomes[CHOOSE i \in Deciding : \A j \in Deciding : i <= j]

EvaluateTerminal(terminal, env) ==
  LET Scalars(a, b) == IsScalar(Resolve(a, env)) /\ IsScalar(Resolve(b, env))
  IN CASE terminal.tag = "Constant" -> Verdict(terminal.value)
       [] terminal.tag = "Equal" ->
            IF ~Scalars(terminal.left, terminal.right) THEN "error"
            ELSE Verdict(Resolve(terminal.left, env) = Resolve(terminal.right, env))
       [] terminal.tag = "Includes" ->
            IF \/ ~IsScalarCollection(Resolve(terminal.collection, env))
               \/ ~IsScalar(Resolve(terminal.value, env)) THEN "error"
            ELSE Verdict(TheScalar(Resolve(terminal.value, env))
                           \in Resolve(terminal.collection, env).entries)

Evaluate(policy, env) ==
  LET outcome[p \in Terms] ==
        IF p.tag \in Junctions
        THEN Junction([i \in DOMAIN p.children |-> outcome[p.children[i]]], p.tag = "All")
        ELSE EvaluateTerminal(p, env)
  IN outcome[policy]

-----------------------------------------------------------------------------
(* Evaluation by SQLite.  A field whose schema is not its own encoding (a
   codec) stores something else than the decoded value.                       *)
Numeric == "numeric"
Store(scalar) ==
  [type |-> CASE scalar.kind = "string" -> "text"
              [] scalar.kind = "null" -> "null"
              [] OTHER -> Numeric,
   content |-> scalar.content]
StoredField(field, value) ==
  LET s == Store(TheScalar(value))
  IN IF Row[field].encoded THEN [s EXCEPT !.type = "text", !.content = 1 - @] ELSE s
Stored(row) == [field \in DOMAIN row |-> StoredField(field, row[field])]

\* a IS b: the affinity of a column may turn a text into a number.
Is(a, b) ==
  \/ a = b
  \/ {a.type, b.type} = {"text", Numeric} /\ a.content = b.content

\* An SQL expression: a bound scalar of known kind, or a column ("row").
ScalarExpression(scalar) == [kind |-> scalar.kind, stored |-> Store(scalar)]
RowExpression(column) == [kind |-> "row", stored |-> column]

TypeMatches(stored, kind) ==
  stored.type = CASE kind \in {"number", "boolean"} -> Numeric
                  [] kind = "null" -> "null"
                  [] OTHER -> "text"

\* The guards make the comparison total: no affinity, no three-valued logic.
TotalEquality(left, right) ==
  CASE left.kind # "row" /\ right.kind # "row" ->
         left.kind = right.kind /\ Is(left.stored, right.stored)
    [] left.kind # "row" /\ right.kind = "row" ->
         TypeMatches(right.stored, left.kind) /\ Is(right.stored, left.stored)
    [] left.kind = "row" /\ right.kind # "row" ->
         TypeMatches(left.stored, right.kind) /\ Is(left.stored, right.stored)
    [] OTHER -> left.stored.type = right.stored.type /\ Is(left.stored, right.stored)

\* Binding a policy fails if an operand is not available to a predicate.
ScalarBinds(operand, env) ==
  \/ operand.tag = "RowField"
  \/ operand.tag \in {"Literal", "SubjectField"} /\ IsScalar(Resolve(operand, env))
CollectionBinds(operand, env) ==
  operand.tag \in {"Literal", "SubjectField"} /\ IsScalarCollection(Resolve(operand, env))

BindsTerminal(terminal, env) ==
  CASE terminal.tag = "Constant" -> TRUE
    [] terminal.tag = "Equal" ->
         ScalarBinds(terminal.left, env) /\ ScalarBinds(terminal.right, env)
    [] terminal.tag = "Includes" ->
         /\ CollectionBinds(terminal.collection, env)
         /\ \/ Resolve(terminal.collection, env).entries = {}
            \/ ScalarBinds(terminal.value, env)
\* A junction binds all its children.
Binds(policy, env) == \A terminal \in Terminals[policy] : BindsTerminal(terminal, env)

Expression(operand, env, stored) ==
  IF operand.tag = "RowField" THEN RowExpression(stored[operand.field])
  ELSE ScalarExpression(TheScalar(Resolve(operand, env)))

TerminalMatches(terminal, env, stored) ==
  CASE terminal.tag = "Constant" -> terminal.value
    [] terminal.tag = "Equal" ->
         TotalEquality(Expression(terminal.left, env, stored),
                       Expression(terminal.right, env, stored))
    [] terminal.tag = "Includes" ->
         \E entry \in Resolve(terminal.collection, env).entries :
           LET member == Expression(terminal.value, env, stored)
           IN /\ member.kind \in {"row", entry.kind}
              /\ TotalEquality(member, ScalarExpression(entry))

Matches(policy, env, stored) ==
  LET holds[p \in Terms] ==
        CASE p.tag = "All" -> \A i \in DOMAIN p.children : holds[p.children[i]]
          [] p.tag = "Any" -> \E i \in DOMAIN p.children : holds[p.children[i]]
          [] OTHER -> TerminalMatches(p, env, stored)
  IN holds[policy]

\* Whether a statement with this WHERE clause reaches the stored row.
Select(policy, subject, stored) ==
  LET env == Environment(subject, NoRow, NoRow)
  IN IF Binds(policy, env) THEN Verdict(Matches(policy, env, stored)) ELSE "error"

-----------------------------------------------------------------------------
(* What a definition must satisfy to be compiled.                             *)
Phase(operand) ==
  CASE operand.tag = "SubjectField" -> "subject"
    [] operand.tag = "RowField" -> "row"
    [] operand.tag = "NextField" -> "next"

DescribeOperand(operand, phases) ==
  IF operand.tag = "Literal" THEN DescribeValue(operand.value)
  ELSE IF Phase(operand) \notin phases THEN {}
  ELSE Described(IF operand.tag = "SubjectField" THEN Subject ELSE Row, operand.field)

\* Fault: operands of different kinds may be compared.
FaultAnyCategory(left, right) == left = right \/ TRUE
\* A category that is not known (null) is compatible with every other.
CompatibleCategory(left, right) == left = {} \/ right = {} \/ left = right

CheckPair(left, right, phases, inclusion) ==
  \E l \in DescribeOperand(left, phases), r \in DescribeOperand(right, phases) :
    /\ l.collection = inclusion
    /\ ~r.collection
    /\ CompatibleCategory(l.category, r.category)

CheckTerminal(terminal, phases) ==
  CASE terminal.tag = "Constant" -> TRUE
    [] terminal.tag = "Equal" -> CheckPair(terminal.left, terminal.right, phases, FALSE)
    [] terminal.tag = "Includes" -> CheckPair(terminal.collection, terminal.value, phases, TRUE)
CheckPolicy(policy, phases) ==
  \A terminal \in Terminals[policy] : CheckTerminal(terminal, phases)

ScopePhases == {"row", "subject"}
Phases(action) ==
  CASE action \in {"read", "remove"} -> ScopePhases
    [] action = "create" -> {"next", "subject"}
    [] OTHER -> {"row", "next", "subject"}
NeedsCurrent(action) == action # "create"
\* Fault: an update is not taken for a write of a candidate.
FaultNoCandidateOnUpdate(action) == action \in {"create", "patch", "transition"}
NeedsCandidate(action) == action \in {"create", "update", "patch", "transition"}

\* The requirements of an action: its own, the scope's, and its rule's.
Requirements(d, action) ==
  IF action \notin DOMAIN d.allow THEN <<>>
  ELSE (IF action \in DOMAIN d.require THEN d.require[action] ELSE <<>>)
         \o d.scopeRequire \o d.allow[action].require

ValidateEntitlements(requirements, phases) ==
  \A i \in DOMAIN requirements :
    \E k \in DescribeOperand(requirements[i].key, phases) :
      k.category = {"string"} /\ ~k.nullable /\ ~k.collection

\* What a statement filters by: the scope and the rule for reading.
Visibility(d) ==
  All(<<d.scope,
        IF "read" \in DOMAIN d.allow THEN d.allow["read"].policy ELSE Constant(FALSE)>>)

\* A column may stand for its field if it stores the canonical value itself.
ValidateSqlReference(operand) ==
  operand.tag = "RowField" =>
    \E f \in Described(Row, operand.field) :
      /\ ~Row[operand.field].encoded
      /\ ~f.collection
      /\ f.category # {}
ValidateSqlStorage(d) == \A o \in References(Visibility(d)) : ValidateSqlReference(o)

Accepted(d) ==
  /\ CheckPolicy(d.scope, ScopePhases)
  /\ \A action \in DOMAIN d.allow :
       /\ CheckPolicy(d.allow[action].policy, Phases(action))
       /\ ValidateEntitlements(Requirements(d, action), Phases(action))
  /\ ValidateSqlStorage(d)

-----------------------------------------------------------------------------
(* What the constants are.                                                    *)
Values ==
  LET Scalars == {s \in [kind : {"string", "number", "boolean", "null", "nan"}, content : 0..1] :
                    s.kind = "null" => s.content = 0}
  IN {One(s.kind, s.content) : s \in Scalars} \cup {Many(e) : e \in SUBSET Scalars}
IsOperand(operand) ==
  \/ operand.tag = "Literal" /\ operand.value \in Values
  \/ operand.tag \in {"SubjectField", "RowField", "NextField"}

\* Terms are built from their parts.
ASSUME TermsAssumption ==
  \A t \in Terms :
    /\ Depth(t) \in Nat
    /\ \/ t.tag = "Constant" /\ t.value \in BOOLEAN
       \/ t.tag = "Equal" /\ IsOperand(t.left) /\ IsOperand(t.right)
       \/ t.tag = "Includes" /\ IsOperand(t.collection) /\ IsOperand(t.value)
       \/ /\ t.tag \in Junctions /\ DOMAIN t.children \subseteq Nat
          /\ \A i \in DOMAIN t.children : t.children[i] \in Terms /\ Depth(t.children[i]) < Depth(t)

IsSchema(schema) ==
  /\ schema.members \subseteq {"string", "finite", "number", "boolean", "null"}
  /\ schema.collection \in BOOLEAN
ASSUME SchemasAssumption ==
  /\ \A f \in DOMAIN Row : IsSchema(Row[f])
  /\ \A f \in DOMAIN Subject : IsSchema(Subject[f])

ASSUME DefinitionsAssumption ==
  \A d \in Definitions :
    /\ Visibility(d) \in Terms /\ DOMAIN d.allow \subseteq Actions
    /\ \A action \in DOMAIN d.allow :
         /\ d.allow[action].policy \in Terms
         /\ DOMAIN Requirements(d, action) \subseteq Nat
         /\ \A i \in DOMAIN Requirements(d, action) : IsOperand(Requirements(d, action)[i].key)

\* Rows and subjects are decoded by their schemas.
IsRow(row) == DOMAIN row = DOMAIN Row /\ \A f \in DOMAIN Row : row[f] \in FieldValues(Row[f])
ASSUME RowsAssumption ==
  /\ \A row \in Rows \cup Proposed : IsRow(row)
  /\ \A subject \in Subjects : IsSubject(subject)

-----------------------------------------------------------------------------
(* Entitlements: a table of grants for each name, read when they are needed.  *)
VARIABLES
  definition,      \* what is compiled
  stage,           \* "declared", then "compiled" or "rejected"
  grants,          \* name -> set of rows, at most one for each key and scope
  now,             \* the clock
  request          \* the request being served, and its answer

policyVars == <<definition, stage, grants, now, request>>

GrantValue(operand, row) ==
  CASE operand.tag = "Literal" -> operand.value
    [] operand.tag = "Now" -> now
    [] operand.tag = "RowField" -> row[operand.field]

EvaluateGrant(grant, row) ==
  LET holds[g \in GrantTerms] ==
        CASE g.tag = "Equal" -> GrantValue(g.left, row) = GrantValue(g.right, row)
          [] g.tag = "LessThan" -> GrantValue(g.left, row) < GrantValue(g.right, row)
          [] g.tag = "All" -> \A i \in DOMAIN g.children : holds[g.children[i]]
          [] g.tag = "Any" -> \E i \in DOMAIN g.children : holds[g.children[i]]
  IN holds[grant]

Has(name, key, subject) ==
  /\ name \in DOMAIN Sources
  /\ \E row \in grants[name] :
       /\ row.key = key
       /\ row.scope = subject[Sources[name].scope]
       /\ EvaluateGrant(Sources[name].grant, row)

\* "ok", or how the first of some requirements that is not met fails.
CheckEntitlements(requirements, some, env) ==
  LET Key(i) == Resolve(requirements[i].key, env)
      NotAString(i) == ~(IsScalar(Key(i)) /\ TheScalar(Key(i)).kind = "string")
      Unmet(i) == NotAString(i) \/ ~Has(requirements[i].name, Key(i), env.subject)
      Failing == {i \in some : Unmet(i)}
      First == CHOOSE i \in Failing : \A j \in Failing : i <= j
  IN IF Failing = {} THEN "ok"
     ELSE IF NotAString(First) THEN "unavailable" ELSE "required"

-----------------------------------------------------------------------------
(* The outcome of the preflight of an action for the claims of a request, and
   of the check of an admitted one.                                           *)
\* Fault: requirements keyed by the row are taken for the subject's.
FaultEveryRequirement(requirements) == DOMAIN requirements
SubjectKeyed(requirements) ==
  {i \in DOMAIN requirements : requirements[i].key.tag \in {"Literal", "SubjectField"}}
SubjectOnly(policy) == \A o \in References(policy) : o.tag = "SubjectField"

Preflight(d, action, claims) ==
  LET requirements == Requirements(d, action)
      required == SubjectKeyed(requirements)
      env == Environment(claims, NoRow, NoRow)
      policy == d.allow[action].policy
      rule == IF SubjectOnly(policy) THEN Evaluate(policy, env) ELSE "true"
  IN CASE action \notin DOMAIN d.allow -> "forbidden"
       [] action \in DOMAIN d.allow /\ ~IsSubject(claims) -> "unauthenticated"
       [] OTHER -> IF required = {} THEN "ok"
                   ELSE IF rule # "true" THEN "forbidden"
                   ELSE CheckEntitlements(requirements, required, env)

Scoped(d, subject, row, next) ==
  IF row = NoRow THEN "true" ELSE Evaluate(d.scope, Environment(subject, row, next))

Refusal(verdict) == IF verdict = "error" THEN "error" ELSE "forbidden"

Check(d, action, subject, row, next) ==
  LET env == Environment(subject, row, next)
      readEnv == Environment(subject, next, next)
      current == IF NeedsCurrent(action) THEN Scoped(d, subject, row, next) ELSE "true"
      candidate == IF NeedsCandidate(action) THEN Scoped(d, subject, next, next) ELSE "true"
      rule == Evaluate(d.allow[action].policy, env)
      readable == IF "read" \in DOMAIN d.allow
                  THEN Evaluate(d.allow["read"].policy, readEnv) ELSE "false"
      Entitled(a, e) == CheckEntitlements(Requirements(d, a), DOMAIN Requirements(d, a), e)
      entitled == Entitled(action, env)
  IN IF \/ action \notin DOMAIN d.allow
        \/ NeedsCurrent(action) /\ row = NoRow
        \/ NeedsCandidate(action) /\ next = NoRow THEN "forbidden"
     ELSE IF current # "true" THEN Refusal(current)
     ELSE IF candidate # "true" THEN Refusal(candidate)
     ELSE IF rule # "true" THEN Refusal(rule)
     ELSE IF ~NeedsCandidate(action) THEN entitled
     ELSE IF readable # "true" THEN Refusal(readable)
     ELSE IF entitled # "ok" THEN entitled ELSE Entitled("read", readEnv)

-----------------------------------------------------------------------------
NoRequest == [phase |-> "idle", action |-> "none", claims |-> NoRow, row |-> NoRow,
         next |-> NoRow, answer |-> "none"]

PolicyInit ==
  /\ definition \in Definitions
  /\ stage = "declared"
  /\ grants = [name \in DOMAIN Sources |-> {}]
  /\ now = 0
  /\ request = NoRequest

Compile ==
  /\ stage = "declared"
  /\ stage' = IF Accepted(definition) THEN "compiled" ELSE "rejected"
  /\ UNCHANGED <<definition, grants, now, request>>

\* A request arrives; its claims are those of the authenticated identity.
Submit(action, claims) ==
  LET answer == Preflight(definition, action, claims)
  IN /\ stage = "compiled"
     /\ request = NoRequest
     /\ request' = [NoRequest EXCEPT !.phase = IF answer = "ok" THEN "admitted" ELSE "refused",
                                !.action = action, !.claims = claims, !.answer = answer]
     /\ UNCHANGED <<definition, stage, grants, now>>

\* The operation has read the current row and built the candidate.
Decide(row, next) ==
  LET answer == Check(definition, request.action, request.claims, row, next)
  IN /\ request.phase = "admitted"
     /\ request' = [request EXCEPT !.phase = "checked", !.row = row, !.next = next,
                                   !.answer = answer]
     /\ UNCHANGED <<definition, stage, grants, now>>

\* Grants are rows that others write: given, replaced and withdrawn.
Grant(name, row) ==
  /\ stage = "compiled"
  /\ request.phase \in {"idle", "admitted"}
  /\ grants' = [grants EXCEPT ![name] =
                  {r \in @ : r.key # row.key \/ r.scope # row.scope} \cup {row}]
  /\ UNCHANGED <<definition, stage, now, request>>

Revoke(name, row) ==
  /\ request.phase = "admitted"
  /\ row \in grants[name]
  /\ grants' = [grants EXCEPT ![name] = @ \ {row}]
  /\ UNCHANGED <<definition, stage, now, request>>

Tick ==
  /\ request.phase = "admitted"
  /\ now < MaxNow
  /\ now' = now + 1
  /\ UNCHANGED <<definition, stage, grants, request>>

PolicyNext ==
  \/ Compile
  \/ \E action \in Actions, claims \in Claims : Submit(action, claims)
  \/ \E row, next \in Proposed \cup {NoRow} : Decide(row, next)
  \/ \E name \in DOMAIN Sources, row \in GrantRows : Grant(name, row)
  \/ \E name \in DOMAIN Sources, row \in GrantRows : Revoke(name, row)
  \/ Tick

PolicySpec == PolicyInit /\ [][PolicyNext]_policyVars

-----------------------------------------------------------------------------
\* The WHERE clause of a compiled definition selects a stored row exactly if
\* the policy holds of the decoded row in memory, for every subject, and
\* neither evaluation fails: a row a list shows is a row a check lets its
\* reader see, whatever the types and nulls in it.
EvaluatorsAgree ==
  [][ (stage = "declared" /\ stage' = "compiled") =>
      \A subject \in Subjects, row \in Rows :
        LET memory == Evaluate(Visibility(definition), Environment(subject, row, NoRow))
        IN /\ memory # "error"
           /\ Select(Visibility(definition), subject, Stored(row)) = memory
    ]_policyVars

\* A write that is allowed started from a row in the scope and leaves a row
\* that its writer's next list will show, with the grants and the clock of the
\* moment of the check and not those of the moment the request was admitted.
AllowedWriteIsReadable ==
  [][ (request'.phase = "checked" /\ request'.answer = "ok"
         /\ request'.action \in {"create", "update", "patch", "transition"}) =>
      /\ Select(Visibility(definition), request'.claims, Stored(request'.next)) = "true"
      /\ request'.action # "create" =>
           Select(definition.scope, request'.claims, Stored(request'.row)) = "true"
      /\ Check(definition, "read", request'.claims, request'.next, NoRow) = "ok"
    ]_policyVars

\* What the preflight refuses, the check would refuse for every row: admission
\* by claims alone never denies a request whose rows would have satisfied the
\* policy and its entitlements.
PreflightRefusesOnlyHopeless ==
  [][ (request.phase = "idle" /\ request'.phase = "refused"
         /\ request'.answer # "unauthenticated") =>
      \A row, next \in Proposed \cup {NoRow} :
        Check(definition, request'.action, request'.claims, row, next) # "ok"
    ]_policyVars
=============================================================================
