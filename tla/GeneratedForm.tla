---------------------------- MODULE GeneratedForm ----------------------------
(* The generated form of an operation as the application UI builds and reads it
   (apps/application-ui/src/client.ts) and as the acceptance harness judges and
   fills it from outside (packages/effect-domains-acceptance/src/browser.ts).
   The two share nothing but the attributes of the controls.
   A payload is a set of pairs of a path and a value, an object standing for the
   paths below it; numbers are counted in halves, so that 1.5 is one.  A form is
   what its controls hold and the optional parts that are ticked.            *)
EXTENDS Integers, Sequences, FiniteSets, SequencesExt

CONSTANTS
  Fields,      \* paths of the payload schema
  Parent,      \* the object a path is a member of; Root for the payload itself
  Root,
  Kind,        \* "object", "text", "number", "json", or "never" for no control
  Optional,    \* paths the caller may leave out
  Blank        \* the text of an empty control

Object == [type |-> "object"]
Str(text) == [type |-> "string", text |-> text]
Num(halves) == [type |-> "number", halves |-> halves]

\* A path with the objects that hold it, and the toggles of them all.
Chains ==
  LET Closed == {S \in SUBSET Fields : \A p \in S : Parent[p] \in S \cup {Root}}
  IN [p \in Fields |-> {q \in Fields : \A S \in Closed : p \in S => q \in S}]
Chain(p) == Chains[p]
Toggles(p) == Chain(p) \cap Optional
Rendered == {p \in Fields : \A q \in Chain(p) : Kind[q] # "never"}
Controls == {p \in Rendered : Kind[p] # "object"}
At(payload, p) == {pair[2] : pair \in {x \in payload : x[1] = p}}

\* Paths are a tree, and what has members is an object.
ASSUME FormAssumption ==
  /\ IsFiniteSet(Fields) /\ Root \notin Fields /\ Parent \in [Fields -> Fields \cup {Root}]
  /\ \A p \in Fields : Parent[p] # Root => p \notin Chain(Parent[p]) /\ Kind[Parent[p]] = "object"

-----------------------------------------------------------------------------
(* The client.                                                               *)

EmptyForm == [held |-> [p \in Controls |-> Blank], ticked |-> {}]

\* What a control says: nothing while a number or a JSON text is missing.
Read(form, p) ==
  CASE Kind[p] = "text" -> {Str(form.held[p])}
    [] Kind[p] = "number" -> IF form.held[p] = Blank THEN {} ELSE {Num(form.held[p])}
    [] OTHER -> IF form.held[p] = Blank THEN {} ELSE {form.held[p]}

\* The payload the form sends, none if an included control cannot be read.
Included(form) == {p \in Rendered : Toggles(p) \subseteq form.ticked}
Sent(form) ==
  LET leaves == Included(form) \cap Controls
  IN IF \E p \in leaves : Read(form, p) = {} THEN {}
     ELSE {{<<p, Object>> : p \in Included(form) \ Controls}
             \cup {<<p, CHOOSE v \in Read(form, p) : TRUE>> : p \in leaves}}

-----------------------------------------------------------------------------
(* The harness.                                                              *)

\* A control agrees with the candidate: its value if it and all the objects
\* around it are included, and no value otherwise.
Matches(form, payload, p) ==
  IF Toggles(p) \subseteq form.ticked THEN At(payload, p) # {} /\ At(payload, p) = Read(form, p)
  ELSE At(payload, p) = {}

Outstanding(form, payload) == {p \in Controls : ~Matches(form, payload, p)}

\* Fault: whatever the form cannot express is left out.
FaultCovered(payload) == TRUE

\* Every value has a control, and every object a member that has one.
Covered(payload) ==
  \A pair \in payload :
    IF pair[2] = Object THEN \E q \in payload : Parent[q[1]] = pair[1]
    ELSE pair[1] \in Controls

\* A mandatory control cannot be left out.
Fillable(form, payload) ==
  /\ Covered(payload) /\ Outstanding(form, payload) # {}
  /\ \A p \in Outstanding(form, payload) : At(payload, p) # {} \/ Toggles(p) # {}

\* The text of a value is typed into a field; a structured control takes its JSON.
Typed(value, p) ==
  IF Kind[p] = "json" THEN value ELSE IF value.type = "number" THEN value.halves ELSE value.text

\* Only the controls that disagree are touched, with the toggles around them.
Fill(form, payload) ==
  LET todo == Outstanding(form, payload)
      toggles == UNION {Toggles(p) : p \in todo}
  IN [held |-> [p \in Controls |->
                  IF p \in todo /\ At(payload, p) # {}
                  THEN Typed(CHOOSE v \in At(payload, p) : TRUE, p) ELSE form.held[p]],
      ticked |-> (form.ticked \ toggles) \cup {p \in toggles : At(payload, p) # {}}]

\* Each control that was touched is read again.
Retained(form, payload, filled) ==
  \A p \in Outstanding(form, payload) : Matches(filled, payload, p)

Submittable(form, payload) == Covered(payload) /\ Outstanding(form, payload) = {}
=============================================================================
