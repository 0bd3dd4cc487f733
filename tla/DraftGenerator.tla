--------------------------- MODULE DraftGenerator ---------------------------
(***************************************************************************)
(* The rule-driven generator of test drafts, a pure function of an         *)
(* endpoint and the schemas of its API version                             *)
(* (modules/generation/generation.service.ts), beside a reference          *)
(* definition of which bodies a schema accepts.                            *)
(*                                                                         *)
(* A schema is a record: its type; lo and hi, the bounds of its type       *)
(* (length, value or number of items) and whether they are exclusive; the  *)
(* value that its example, default or enum offers; items, properties,      *)
(* required and allOf.  A string is its length, an array its length and    *)
(* one item.  A path is a sequence of segments, which are texts or         *)
(* placeholders.                                                           *)
(***************************************************************************)
EXTENDS Integers, FiniteSets, SequencesExt

CONSTANTS
  Endpoints,   \* endpoints with their schemas: [ref -> schema]
  None         \* an absent keyword, value or body

VARIABLES
  endpoint,   \* what drafts are generated from
  strategy,   \* GenerationStrategy
  done,       \* whether the job has completed
  drafts      \* generated_drafts

vars == <<endpoint, strategy, done, drafts>>

Scalar(kind, n) == [kind |-> kind, size |-> n]
Array(n, item) == [kind |-> "array", size |-> n, item |-> item]
Object(fields) == [kind |-> "object", fields |-> fields]

First(x, y) == IF x # None THEN x ELSE y

(* resolveSchema: allOf is merged into the node that has it.  "visited" is *)
(* shared by all branches, so a ref counts the first time only.            *)

\* A sub-schema of allOf: its type and bounds count where there are none yet,
\* its properties replace those there are.  Exclusiveness, items and numbers
\* of items are not merged.
Merge(node, sub) ==
  LET type == First(node.type, sub.type)
      bounded == sub.type = type /\ type \in {"string", "number"} IN
  [node EXCEPT
     !.type = type,
     !.lo = IF bounded THEN First(@, sub.lo) ELSE @,
     !.hi = IF bounded THEN First(@, sub.hi) ELSE @,
     !.properties = sub.properties @@ @,
     !.required = @ \cup sub.required]

RECURSIVE Resolve(_, _, _)
Resolve(ref, schemas, visited) ==
  IF ref \in visited \/ ref \notin DOMAIN schemas
  THEN [node |-> None, visited |-> visited \cup {ref}]
  ELSE FoldLeft(
         LAMBDA acc, part :
           LET sub == Resolve(part, schemas, acc.visited) IN
           [node |-> IF sub.node = None THEN acc.node ELSE Merge(acc.node, sub.node),
            visited |-> sub.visited],
         [node |-> schemas[ref], visited |-> visited \cup {ref}],
         schemas[ref].allOf)

PropertySchema(ref, schemas) == Resolve(ref, schemas, {}).node

(* Values.                                                                 *)

\* Strings are no longer than this, whatever minLength asks for.
LongestString == 100

ValidNumber(s) ==
  IF s.lo # None THEN (IF s.xlo THEN s.lo + 1 ELSE s.lo) ELSE 1

\* generateValidValue: an optional property is left out, and so is one
\* whose schema is not there.
RECURSIVE ValidValue(_, _)
ValidValue(s, schemas) ==
  CASE s.offers # None -> s.offers
    [] s.offers = None /\ s.type = "string" ->
         LET n == IF s.lo = None THEN 1 ELSE s.lo IN
         Scalar("string", IF n > LongestString THEN LongestString ELSE n)
    [] s.offers = None /\ s.type = "number" -> Scalar("number", ValidNumber(s))
    [] s.offers = None /\ s.type = "boolean" -> Scalar("boolean", 1)
    [] s.offers = None /\ s.type = "array" ->
         LET item == IF s.items = None THEN None
                     ELSE PropertySchema(s.items, schemas) IN
         IF item = None \/ s.lo \in {None, 0} THEN Array(0, None)
         ELSE Array(s.lo, ValidValue(item, schemas))
    [] s.offers = None /\ s.type = "object" ->
         LET kept == {f \in DOMAIN s.properties : f \in s.required
                        /\ PropertySchema(s.properties[f], schemas) # None} IN
         Object([f \in kept |->
                   ValidValue(PropertySchema(s.properties[f], schemas), schemas)])
    [] OTHER -> Scalar("null", 0)

\* generateInvalidValue: a value of another type.
InvalidValue(s) ==
  CASE s.type = "string" -> Scalar("number", 12345)
    [] s.type \in {"number", "boolean"} ->
         Scalar(IF s.type = "number" THEN "string" ELSE "number", 42)
    [] OTHER -> Scalar("null", 0)

\* Mutant of BoundaryValue: the bounds themselves, which are allowed.
BoundaryValueOnBound(s, schemas) ==
  CASE s.type = "string" /\ s.lo # None -> Scalar("string", s.lo)
    [] s.type = "number" /\ s.lo # None -> Scalar("number", s.lo)
    [] OTHER -> None

\* generateBoundaryValue: one short of the minimum, or one past the maximum
\* if there is no minimum to fall short of.
BoundaryValue(s, schemas) ==
  CASE s.type = "string" /\ s.lo # None /\ s.lo > 0 -> Scalar("string", s.lo - 1)
    [] s.type = "string" /\ s.lo \in {None, 0} /\ s.hi # None ->
         Scalar("string", s.hi + 1)
    [] s.type = "number" /\ s.lo # None ->
         Scalar("number", IF s.xlo THEN s.lo ELSE s.lo - 1)
    [] s.type = "number" /\ s.lo = None /\ s.hi # None ->
         Scalar("number", IF s.xhi THEN s.hi ELSE s.hi + 1)
    [] s.type = "array" /\ s.lo # None /\ s.lo > 0 -> Array(0, None)
    [] s.type = "array" /\ s.lo \in {None, 0} /\ s.hi # None ->
         LET item == IF s.items = None THEN None
                     ELSE PropertySchema(s.items, schemas) IN
         Array(s.hi + 1, IF item = None THEN Scalar("null", 0)
                         ELSE ValidValue(item, schemas))
    [] OTHER -> None

(* Requests.  Query and header parameters are in none.                     *)

Text(t) == [text |-> t, fill |-> FALSE]
Placeholder(name) == [text |-> name, fill |-> TRUE]

ParameterValue(p, schemas) ==
  LET s == IF p.schema = None THEN None ELSE PropertySchema(p.schema, schemas) IN
  CASE p.example # None -> p.example
    [] p.example = None /\ s # None /\ s.type = "number" -> "1"
    [] p.example = None /\ s # None /\ s.type = "string" /\ s.format = "uuid" ->
         "00000000-0000-0000-0000-000000000000"
    [] OTHER -> "test-value"

\* buildUrl: a parameter of the path takes the first placeholder of its name.
Url(ep) ==
  FoldLeft(
    LAMBDA url, p :
      LET k == SelectInSeq(url, LAMBDA segment : segment = Placeholder(p.name)) IN
      IF k = 0 THEN url ELSE [url EXCEPT ![k] = Text(ParameterValue(p, ep.schemas))],
    ep.path, SelectSeq(ep.parameters, LAMBDA p : p.in = "path"))

\* buildHeaders: the first media type of the body.
ContentType(ep) ==
  IF ep.body = None \/ ep.media = <<>> THEN None ELSE ep.media[1]

(* Drafts.                                                                 *)

BodySchema(ep) ==
  IF ContentType(ep) = None THEN None ELSE PropertySchema(ep.body, ep.schemas)

HappyBody(ep) ==
  IF BodySchema(ep) = None THEN None ELSE ValidValue(BodySchema(ep), ep.schemas)

\* {...body}: a body that is no object has no fields.
Fields(body) ==
  IF body = None \/ body.kind # "object" THEN <<>> ELSE body.fields

With(body, f, value) == Object((f :> value) @@ Fields(body))
Without(body, f) ==
  Object([g \in DOMAIN Fields(body) \ {f} |-> Fields(body)[g]])

Reads == {"GET", "HEAD", "QUERY"}

TestDraft(ep, rule, field, contentType, body, expected) ==
  [rule |-> rule, field |-> field, body |-> body, expected |-> expected,
   method |-> ep.method, url |-> Url(ep), contentType |-> contentType,
   sideEffect |-> IF rule \notin {"happy", "example"} \/ ep.method \in Reads
                  THEN "read-only" ELSE "cleanup-required"]

HappyPath(ep) ==
  LET ok == SelectSeq(ep.responses, LAMBDA r : r \in 200..299) IN
  TestDraft(ep, "happy", None, ContentType(ep), HappyBody(ep),
            IF ok = <<>> THEN 200 ELSE ok[1])

\* generateMissingRequiredTests: parameters, then fields of the body.
MissingRequired(ep) ==
  {TestDraft(ep, "parameter", p.name, None, None, 400) :
     p \in {q \in ToSet(ep.parameters) : q.required /\ q.in # "path"}}
  \cup (IF BodySchema(ep) = None THEN {}
        ELSE {TestDraft(ep, "missing", f, ContentType(ep), Without(HappyBody(ep), f), 422) :
                f \in BodySchema(ep).required})

\* Required fields whose schema is there.
Checked(ep) ==
  IF BodySchema(ep) = None THEN {}
  ELSE {f \in DOMAIN BodySchema(ep).properties \cap BodySchema(ep).required :
          PropertySchema(BodySchema(ep).properties[f], ep.schemas) # None}

FieldSchema(ep, f) == PropertySchema(BodySchema(ep).properties[f], ep.schemas)

InvalidType(ep) ==
  {TestDraft(ep, "type", f, ContentType(ep),
             With(HappyBody(ep), f, InvalidValue(FieldSchema(ep, f))), 400) :
     f \in {g \in Checked(ep) :
              FieldSchema(ep, g).type \notin {None, "object", "array"}}}

Boundary(ep) ==
  {TestDraft(ep, "boundary", f, ContentType(ep),
             With(HappyBody(ep), f, BoundaryValue(FieldSchema(ep, f), ep.schemas)), 400) :
     f \in {g \in Checked(ep) : BoundaryValue(FieldSchema(ep, g), ep.schemas) # None}}

\* generateExampleBasedTests: the samples of the description, else the happy path.
ExampleBased(ep) ==
  IF ep.examples = {} THEN {HappyPath(ep)}
  ELSE {TestDraft(ep, "example", None, x.media, x.value, 200) : x \in ep.examples}

\* generateStatusCodesTests: a test that expects an error sends no body.
StatusCodes(ep) ==
  {TestDraft(ep, "status", None, ContentType(ep),
             IF s >= 400 THEN None ELSE HappyBody(ep), s) :
     s \in {t \in ToSet(ep.responses) : t >= 100}}

\* runGeneration, for one endpoint.
Drafts(ep, how) ==
  CASE how = "example" -> ExampleBased(ep)
    [] how = "schema" ->
         {HappyPath(ep)} \cup MissingRequired(ep) \cup InvalidType(ep) \cup Boundary(ep)
    [] OTHER -> StatusCodes(ep)

(* Acceptance.                                                             *)

\* acceptDraft: the test that is made of a draft its reviewer left alone.  Its
\* body is JSON, whatever the draft's header says.
Accepted(d) ==
  [method |-> d.method, url |-> d.url, sideEffect |-> d.sideEffect,
   headers |-> IF d.contentType = None THEN <<>> ELSE "content-type" :> d.contentType,
   body |-> IF d.body = None THEN None
            ELSE [mediaType |-> "application/json", type |-> "json", value |-> d.body],
   assertions |-> <<[id |-> "assert_0", target |-> "status", operator |-> "equals",
                     expected |-> d.expected]>>]

IsRequest(t) ==
  /\ t.method \in {"GET", "POST", "PUT", "PATCH", "DELETE", "HEAD", "OPTIONS", "QUERY"}
  /\ t.url # <<>>
  /\ t.body # None => t.body.type \in {"json", "form", "text", "binary", "none"}

IsAssertion(a) ==
  /\ a.target \in {"status", "header", "jsonPath", "body", "responseTime", "schema"}
  /\ a.operator \in {"equals", "notEquals", "contains", "notContains", "exists",
                     "notExists", "greaterThan", "lessThan", "matches", "type",
                     "schema", "hasItems", "isEmpty"}

\* What acceptDraft asks of a test: TestDefinitionSchema and an assertion.
IsTestDefinition(t) ==
  /\ IsRequest(t) /\ t.assertions # <<>>
  /\ \A k \in DOMAIN t.assertions : IsAssertion(t.assertions[k])
  /\ t.sideEffect \in {"read-only", "cleanup-required", "irreversible", "high-risk"}

(* Endpoints and schemas, as an import stores them.                        *)

IsParameter(p) ==
  /\ p.in \in {"path", "query", "header", "cookie"} /\ p.required \in BOOLEAN
  /\ p.schema = None \/ p.schema \in STRING
  /\ p.example = None \/ p.example \in STRING

IsSchemaNode(s) ==
  /\ s.type = None \/ s.type \in {"string", "number", "boolean", "array", "object"}
  /\ s.lo = None \/ s.lo \in Int
  /\ s.hi = None \/ s.hi \in Int
  /\ s.xlo \in BOOLEAN /\ s.xhi \in BOOLEAN
  /\ s.items = None \/ s.items \in STRING
  /\ \A f \in DOMAIN s.properties : s.properties[f] \in STRING
  /\ \A f \in s.required : f \in STRING
  /\ s.allOf \in Seq(STRING)

IsEndpointDef(ep) ==
  /\ \A k \in DOMAIN ep.path : ep.path[k].text \in STRING /\ ep.path[k].fill \in BOOLEAN
  /\ \A k \in DOMAIN ep.parameters : IsParameter(ep.parameters[k])
  /\ ep.media \in Seq(STRING) /\ ep.responses \in Seq(Nat)
  /\ \A r \in DOMAIN ep.schemas : IsSchemaNode(ep.schemas[r])

Init ==
  /\ endpoint \in Endpoints
  /\ strategy \in {"example", "schema", "status-codes"}
  /\ done = FALSE /\ drafts = {}

Generate ==
  /\ ~done /\ done' = TRUE
  /\ drafts' = Drafts(endpoint, strategy)
  /\ UNCHANGED <<endpoint, strategy>>

Next == Generate

Spec == Init /\ [][Next]_vars

(* The reference: what a schema accepts, allOf as a conjunction.           *)

Within(s, n) ==
  /\ s.lo # None => (IF s.xlo THEN n > s.lo ELSE n >= s.lo)
  /\ s.hi # None => (IF s.xhi THEN n < s.hi ELSE n <= s.hi)

RECURSIVE Accepts(_, _, _)
Accepts(ref, value, schemas) ==
  ref \in DOMAIN schemas =>
    LET s == schemas[ref] IN
    /\ s.type # None => value.kind = s.type
    /\ value.kind \in {"string", "number", "array"} /\ s.type = value.kind
         => Within(s, value.size)
    /\ value.kind = "array" /\ value.size > 0 /\ s.items # None
         => Accepts(s.items, value.item, schemas)
    /\ value.kind = "object" =>
         /\ s.required \subseteq DOMAIN value.fields
         /\ \A f \in DOMAIN value.fields \cap DOMAIN s.properties :
              Accepts(s.properties[f], value.fields[f], schemas)
    /\ \A k \in DOMAIN s.allOf : Accepts(s.allOf[k], value, schemas)

\* The bounds admit a value that can be found from the minimum alone, or 1.
Roomy(s) ==
  /\ s.type = "number" =>
       IF s.lo = None THEN Within(s, 1) ELSE \E n \in {s.lo, s.lo + 1} : Within(s, n)
  /\ s.type = "string" =>
       LET n == IF s.lo = None THEN 1 ELSE s.lo IN n <= LongestString /\ Within(s, n)
  /\ s.type = "array" /\ s.lo \notin {None, 0} =>
       s.items # None /\ (s.hi # None => s.lo <= s.hi)

\* Nothing is composed, required fields are declared, samples are valid, and
\* minima leave room.
Modest(schemas) ==
  \A r \in DOMAIN schemas :
    LET s == schemas[r] IN
    /\ s.allOf = <<>> /\ Roomy(s)
    /\ \A f \in s.required :
         f \in DOMAIN s.properties /\ s.properties[f] \in DOMAIN schemas
    /\ s.offers # None => Accepts(r, s.offers, schemas)

\* Every negative draft of a field is a body that the schema rejects, however
\* the schema is composed, and the happy path is one that it accepts if the
\* schema is modest.  A boundary that is off by one would show up here as a
\* test that blames a correct server (generateBoundaryValue).
DraftsAreTrue ==
  \A d \in drafts :
    /\ d.rule \in {"missing", "type", "boundary"} =>
         ~Accepts(endpoint.body, d.body, endpoint.schemas)
    /\ (d.rule = "happy" /\ BodySchema(endpoint) # None /\ Modest(endpoint.schemas))
         => Accepts(endpoint.body, d.body, endpoint.schemas)

\* A parameter that is declared once, in the path, fills its placeholder.
Filled(ep, url) ==
  /\ Len(url) = Len(ep.path)
  /\ \A k \in DOMAIN url :
       \/ url[k] = ep.path[k]
       \/ /\ ep.path[k].fill /\ ~url[k].fill
          /\ \E p \in ToSet(ep.parameters) :
               p.in = "path" /\ ep.path[k] = Placeholder(p.name)
  /\ \A p \in ToSet(ep.parameters) :
       LET places == {k \in DOMAIN url : ep.path[k] = Placeholder(p.name)} IN
       p.in = "path" /\ Cardinality(places) = 1
         => \A k \in places : ~url[k].fill /\ p.example # None => url[k].text = p.example

\* A draft can be accepted, and what is accepted asks for the path of its
\* endpoint, with its placeholders filled, for the body of the draft and for
\* the media type that is described, if any (buildUrl, buildHeaders,
\* acceptDraft).
DraftsAreAcceptable ==
  \A d \in drafts :
    LET t == Accepted(d) IN
    /\ IsTestDefinition(t)
    /\ Filled(endpoint, t.url)
    /\ t.body = None <=> d.body = None
    /\ t.body # None => t.body.value = d.body
    /\ DOMAIN t.headers # {} /\ d.rule # "example"
         => t.headers["content-type"] = endpoint.media[1]
=============================================================================
