------------------------------ MODULE InputCases ------------------------------
(* The inputs of acceptance scenarios (packages/effect-domains-acceptance).
   catalog.ts rejects a declaration the interpreter could not carry out;
   inputs.ts turns a case into a candidate: in an exploration from the declared
   sources of its fields, in a replay from the recorded candidate, whose native
   values are kept while everything else is taken from the fresh run.        *)
EXTENDS GeneratedForm

CONSTANTS
  Operation,        \* the operation of a case
  Sources,          \* where the fields of its payload come from
  Validity,         \* "native-valid" or "native-invalid", as declared
  Outcome,          \* "accepted", "denied" or "rejected", as declared
  Streaming,        \* operations of the application that are not unary
  Native,           \* what the contract of an operation says of each member
  Opaque,           \* operations with a check that nothing can be derived from
  Facts,            \* facts the fixture runtime may prepare
  Prepared(_),      \* facts of a prepared fixture
  Drawn(_),         \* the seeded samples for a case, of its whole payload
  Codec(_, _),      \* a payload decoded and encoded again; {} if it is rejected
  Decodes(_, _, _)  \* whether the codec of a member takes a part of a payload

ASSUME SourcesAssumption ==
  \A c \in DOMAIN Operation : \A p \in DOMAIN Sources[c] :
    Sources[c][p].source \in {"fixture", "captured", "literal", "native"}

Null == [type |-> "null"]
Fixture(fact, offset) == [source |-> "fixture", fact |-> fact, offset |-> offset]
Captured(field, offset) == [source |-> "captured", field |-> field, offset |-> offset]
Literal(part) == [source |-> "literal", part |-> part]
NativeStrategy(strategy) == [source |-> "native", strategy |-> strategy]

\* What a source gives: a part of the payload, nothing yet, or an error.
Part(pairs) == [is |-> "part", pairs |-> pairs]
Waiting == [is |-> "waiting"]
Failed(boundary) == [is |-> "failed", boundary |-> boundary]

PartAt(payload, fields) == {pair \in payload : Chain(pair[1]) \cap fields # {}}
Members(op) == DOMAIN Native[op]

-----------------------------------------------------------------------------
(* Sources.                                                                  *)

WithOffset(value, offset, p, boundary) ==
  IF offset = 0 THEN Part({<<p, value>>})
  ELSE IF value.type = "number" THEN Part({<<p, Num(value.halves + 2 * offset)>>})
  ELSE Failed(boundary)

FixtureField(fixture, p, source) ==
  IF source.fact \in DOMAIN Prepared(fixture)
  THEN WithOffset(Prepared(fixture)[source.fact], source.offset, p, "fixture")
  ELSE Failed("fixture")

\* The latest accepted submission that returned the field, of whatever case.
CapturedField(submissions, p, source) ==
  LET from == SelectSeq(submissions, LAMBDA s : s.accepted /\ source.field \in DOMAIN s.result)
  IN IF from = <<>> THEN Waiting
     ELSE WithOffset(Last(from).result[source.field], source.offset, p, "captured")

\* Inclusive integer bounds that differ, the tightest of all the checks.
NumericBounds(native) ==
  LET Limits(bound) == {k.at : k \in {x \in native.checks : x.bound = bound}}
      lower == Limits("minimum")
      upper == Limits("maximum")
  IN IF /\ native.numeric /\ lower # {} /\ upper # {} /\ Limits("integer") # {}
        /\ \A k \in native.checks : ~k.exclusive
        /\ \A low \in lower, high \in upper : low < high
     THEN {[minimum |-> CHOOSE n \in lower : \A m \in lower : m <= n,
            maximum |-> CHOOSE n \in upper : \A m \in upper : n <= m]}
     ELSE {}

BoundPick(strategy, bounds) ==
  CASE strategy = "minimum" -> 2 * bounds.minimum
    [] strategy = "maximum" -> 2 * bounds.maximum
    [] strategy = "below" -> 2 * (bounds.minimum - 1)
    [] strategy = "above" -> 2 * (bounds.maximum + 1)
    [] strategy = "fractional" -> 2 * bounds.minimum + 1

NativeField(op, p, strategy) ==
  IF strategy = "null"
  THEN IF Native[op][p].nullable THEN Part({<<p, Null>>}) ELSE Failed("unsupported")
  ELSE LET bounds == NumericBounds(Native[op][p])
       IN IF bounds = {} THEN Failed("unsupported")
          ELSE Part({<<p, Num(BoundPick(strategy, CHOOSE b \in bounds : TRUE))>>})

ResolveSource(op, fixture, submissions, p, source) ==
  CASE source.source = "fixture" -> FixtureField(fixture, p, source)
    [] source.source = "captured" -> CapturedField(submissions, p, source)
    [] source.source = "literal" -> Part(source.part)
    [] source.source = "native" -> NativeField(op, p, source.strategy)

\* Resolutions of fields in one: an error counts more than something missing.
ResolveFields(resolutions) ==
  LET of(is) == {r \in Range(resolutions) : r.is = is}
  IN IF of("failed") # {} THEN CHOOSE r \in of("failed") : TRUE
     ELSE IF of("waiting") # {} THEN Waiting
     ELSE Part(UNION {r.pairs : r \in of("part")})

-----------------------------------------------------------------------------
(* Candidates.                                                               *)

IsNative(source) == source.source = "native"
IsSampled(source) == IsNative(source) /\ source.strategy = "sample"
SampledFields(c) == {p \in DOMAIN Sources[c] : IsSampled(Sources[c][p])}

\* Members a caller may not give are never drawn.
Caller(op, payload) == PartAt(payload, {p \in Members(op) : Native[op][p].supplied})

\* All sampled fields come from one draw, the first that has them all and, if
\* the case is valid, goes with the values of the other fields.
SampleWhole(c, fields, fixed) ==
  LET Suits(draw) ==
        LET sampled == PartAt(Caller(Operation[c], draw), fields)
        IN /\ \A p \in fields : \E pair \in sampled : pair[1] = p
           /\ Validity[c] = "native-invalid" \/ Codec(Operation[c], fixed \cup sampled) # {}
      suited == {i \in DOMAIN Drawn(c) : Suits(Drawn(c)[i])}
      first == CHOOSE i \in suited : \A j \in suited : i <= j
  IN IF fields = {} THEN Part(fixed)
     ELSE IF Operation[c] \in Opaque THEN Failed("unsupported")
     ELSE IF suited = {} THEN Failed("exhausted")
     ELSE Part(fixed \cup PartAt(Caller(Operation[c], Drawn(c)[first]), fields))

\* A rejected payload is submitted as it is, an accepted one as it is encoded.
Validate(c, payload) ==
  LET encoded == Codec(Operation[c], payload)
  IN IF (encoded = {}) # (Validity[c] = "native-invalid") THEN Failed("validity")
     ELSE IF encoded = {} THEN Part(payload)
     ELSE Part(CHOOSE e \in encoded : TRUE)

ResolveCase(c, fixture, submissions) ==
  LET sampled == SampledFields(c)
      fixed == ResolveFields([p \in DOMAIN Sources[c] \ sampled |->
                 ResolveSource(Operation[c], fixture, submissions, p, Sources[c][p])])
      whole == IF fixed.is = "part" THEN SampleWhole(c, sampled, fixed.pairs) ELSE fixed
  IN IF Operation[c] \in Streaming THEN Failed("unsupported")
     ELSE IF whole.is = "part" THEN Validate(c, whole.pairs)
     ELSE whole

ReplayField(c, recorded, fixture, submissions, p) ==
  IF IsNative(Sources[c][p])
  THEN IF PartAt(recorded, {p}) = {} THEN Failed("replay") ELSE Part(PartAt(recorded, {p}))
  ELSE ResolveSource(Operation[c], fixture, submissions, p, Sources[c][p])

LiteralFields(c) == {p \in DOMAIN Sources[c] : Sources[c][p].source = "literal"}

ReplayCandidate(c, recorded, fixture, submissions) ==
  LET fields == ResolveFields([p \in DOMAIN Sources[c] |-> ReplayField(c, recorded, fixture, submissions, p)])
      valid == IF fields.is = "part" THEN Validate(c, fields.pairs) ELSE fields
      literal == LiteralFields(c)
  IN IF valid.is = "part" /\ PartAt(valid.pairs, literal) # PartAt(recorded, literal)
     THEN Failed("replay") ELSE valid

-----------------------------------------------------------------------------
(* The catalog.                                                              *)

SamplingOf(op, p) == Native[op][p].supplied /\ op \notin Opaque

StrategyApplies(op, p, strategy) ==
  CASE strategy = "sample" -> SamplingOf(op, p)
    [] strategy = "null" -> Native[op][p].nullable
    [] OTHER -> NumericBounds(Native[op][p]) # {}

\* Fault: native strategies are left to the run.
FaultSourceApplies(c, p) ==
  LET source == Sources[c][p]
  IN source.source = "fixture" => source.fact \in Facts

SourceApplies(c, p) ==
  LET source == Sources[c][p]
      op == Operation[c]
  IN CASE source.source = "fixture" -> source.fact \in Facts
       [] source.source = "native" -> StrategyApplies(op, p, source.strategy)
       [] source.source = "literal" -> Validity[c] = "native-valid" => Decodes(op, p, source.part)
       [] source.source = "captured" -> TRUE

InputAccepted(c) ==
  /\ DOMAIN Sources[c] \subseteq Members(Operation[c])
  /\ Validity[c] = "native-invalid" <=> Outcome[c] = "rejected"
  /\ \A p \in DOMAIN Sources[c] : SourceApplies(c, p)

ScenarioAccepted(scenario) ==
  /\ scenario.required \subseteq scenario.cases
  /\ \A c \in scenario.cases : InputAccepted(c)
=============================================================================
