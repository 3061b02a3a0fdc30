----------------------------- MODULE MCPolicies -----------------------------
(* A resource with columns of every kind, and a subject with scalars and
   collections.  Every equality and every inclusion between two operands is
   tried as the scope of a definition; a few definitions with rules and
   entitlements are also served.                                             *)
EXTENDS Policies

Field(members) ==
  [members |-> members, collection |-> FALSE, optional |-> FALSE, encoded |-> FALSE]

Columns ==
  [owner |-> Field({"string"}), rank |-> Field({"finite", "null"}),
   open |-> Field({"boolean"}), mixed |-> Field({"boolean", "finite"}),
   raw |-> Field({"number"}), code |-> [Field({"string"}) EXCEPT !.encoded = TRUE]]
ClaimFields ==
  [id |-> Field({"string"}), level |-> Field({"finite", "null"}),
   nick |-> [Field({"string"}) EXCEPT !.optional = TRUE],
   roles |-> [Field({"string"}) EXCEPT !.collection = TRUE],
   flags |-> [Field({"boolean", "null"}) EXCEPT !.collection = TRUE]]

S(i) == One("string", i)
N(i) == One("number", i)
B(i) == One("boolean", i)
Null == One("null", 0)
Nan == One("nan", 0)

AllRows ==
  {[owner |-> S(o), rank |-> r, open |-> B(b), mixed |-> m, raw |-> N(0), code |-> S(c)] :
     o, c, b \in 0..1, r \in {Null, N(0), N(1)}, m \in {B(0), B(1), N(0), N(1)}}
AllSubjects ==
  {[id |-> S(i), level |-> l, nick |-> Missing, roles |-> Many(r), flags |-> Many(f)] :
     i \in 0..1, l \in {Null, N(1)},
     r \in {{}, S(1).entries},
     f \in {{}, B(1).entries, Null.entries, B(0).entries \cup Null.entries}}

Operands ==
  {Literal(v) : v \in {S(1), N(1), B(1), Null, Nan, Many({}), Many(S(0).entries),
                       Many(N(1).entries \cup Null.entries),
                       Many(N(1).entries \cup B(1).entries)}}
  \cup {SubjectField(f) : f \in {"id", "level", "nick", "roles", "flags", "none"}}
  \cup {RowField(f) : f \in DOMAIN Columns}
  \cup {NextField("open")}

Comparisons ==
  {Equal(a, b) : a, b \in Operands} \cup {Includes(a, b) : a, b \in Operands}

Anyone == [policy |-> Constant(TRUE), require |-> <<>>]
Definition(scope) ==
  [scope |-> scope, scopeRequire |-> <<>>, require |-> <<>>,
   allow |-> [read |-> Anyone]]

Own == Equal(RowField("owner"), SubjectField("id"))
IsOpen(field) == Equal(field, Literal(B(1)))
Role == Includes(SubjectField("roles"), Literal(S(1)))
Pro(key) == <<[name |-> "pro", key |-> key]>>
Rule(policy, require) == [policy |-> policy, require |-> require]

\* Owners; each rule looks at other rows and entitlements.
Owners ==
  [scope |-> Own, scopeRequire |-> <<>>,
   require |-> [read |-> Pro(SubjectField("id"))],
   allow |-> [read |-> Rule(Any(<<IsOpen(RowField("open")), Role>>), <<>>),
              create |-> Rule(IsOpen(NextField("open")), Pro(NextField("owner"))),
              update |-> Rule(All(<<Equal(RowField("rank"), NextField("rank")), Role>>), <<>>),
              remove |-> Rule(Role, Pro(RowField("owner")))]]

\* The scope is a policy about the subject and brings an entitlement.
Members ==
  [scope |-> Role, scopeRequire |-> Pro(SubjectField("id")), require |-> <<>>,
   allow |-> [read |-> Anyone,
              transition |-> Rule(Includes(SubjectField("flags"), NextField("open")), <<>>),
              remove |-> Rule(Role, Pro(Literal(S(0))))]]

\* Nobody may read, so nobody may write what he could not read.
WriteOnly ==
  [scope |-> Constant(TRUE), scopeRequire |-> <<>>, require |-> <<>>,
   allow |-> [create |-> Anyone, remove |-> Rule(Own, Pro(SubjectField("id")))]]

\* Entitlement keys and phases that must be rejected.
Misplaced ==
  {[Definition(Own) EXCEPT !.allow = [read |-> Rule(IsOpen(NextField("open")), <<>>)]],
   [Definition(Own) EXCEPT !.allow = [create |-> Rule(Own, <<>>)]],
   [Definition(Own) EXCEPT !.allow = [read |-> Rule(Own, Pro(SubjectField("level")))]],
   [Definition(Own) EXCEPT !.allow = [read |-> Rule(Own, Pro(SubjectField("roles")))]],
   Definition(All(<<Own, Any(<<Role, Equal(RowField("mixed"), Literal(N(1)))>>)>>))}

AllDefinitions ==
  {Definition(p) : p \in Comparisons} \cup Misplaced \cup {Owners, Members, WriteOnly}

\* Terms and their parts; nothing here is nested more than three deep.
WithChildren(terms) ==
  terms \cup UNION {{t.children[i] : i \in DOMAIN t.children} : t \in {u \in terms : u.tag \in Junctions}}
WithParts(terms) == WithChildren(WithChildren(WithChildren(terms)))
Size(term) == Cardinality(WithParts({term}))
Rules == {rule \in AllDefinitions \X Actions : rule[2] \in DOMAIN rule[1].allow}
Built ==
  WithParts({Visibility(d) : d \in AllDefinitions} \cup {rule[1].allow[rule[2]].policy : rule \in Rules})
\* TLC keeps the value of a definition, but not of one that replaces a constant.
AllTerms == Built

ProposedRows ==
  {[owner |-> S(o), rank |-> r, open |-> B(b), mixed |-> B(0), raw |-> N(0), code |-> S(0)] :
     o, b \in 0..1, r \in {N(0)}}
SomeClaims ==
  {[id |-> S(0), level |-> Null, nick |-> Missing, roles |-> Many(r), flags |-> Many(B(1).entries)] :
     r \in {{}, S(1).entries}}
  \cup {[id |-> S(1), level |-> N(1), nick |-> S(1), roles |-> Many(S(1).entries),
         flags |-> Many({})],
        [id |-> Null, level |-> Null, nick |-> Missing, roles |-> Many({}), flags |-> Many({})]}

\* "pro" is granted for a key while the row is active and not expired.
ProSource ==
  [pro |-> [scope |-> "id",
            grant |-> [tag |-> "All", children |->
              <<[tag |-> "Equal", left |-> [tag |-> "RowField", field |-> "active"],
                 right |-> [tag |-> "Literal", value |-> 1]],
                [tag |-> "LessThan", left |-> [tag |-> "Now"],
                 right |-> [tag |-> "RowField", field |-> "until"]]>>]]]
ProTerms == WithParts({ProSource["pro"].grant})
ProRows == {[key |-> S(k), scope |-> S(0), active |-> 1, until |-> 1] : k \in 0..1}
             \cup {[key |-> S(0), scope |-> S(0), active |-> 0, until |-> 1]}
=============================================================================
