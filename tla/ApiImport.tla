----------------------------- MODULE ApiImport -----------------------------
(***************************************************************************)
(* From an OpenAPI document to a stored ApiVersion (packages/adapters/     *)
(* openapi, modules/import/import.service.ts), and the comparison of two   *)
(* of them (modules/import/diff.service.ts).                               *)
(*                                                                         *)
(* A schema of the document is a reference, true ("boolean"), "false", an  *)
(* object without any keyword the adapter looks for ("plain"), or a        *)
(* schema: its type, and its parts by the keyword and name they stand      *)
(* under, e.g. <<"properties", "a">>.  A canonical path is a sequence of   *)
(* segments; an inline part is stored under the path of its owner and its  *)
(* own.                                                                    *)
(*                                                                         *)
(* A parameter, a body, a response or a header may be a $ref to a          *)
(* component; its record then says what the component says, and byRef that *)
(* the adapter, which follows no reference, does not see it.  A header     *)
(* with content in place of a schema counts as one of these.  The methods  *)
(* of a path that is a $ref are not seen either: it has the one "$ref".    *)
(***************************************************************************)
EXTENDS Integers, Sequences, FiniteSets, SequencesExt, FiniteSetsExt, TLC

CONSTANTS
  Pairs,        \* <<older, newer>>: documents that are imported and compared
  Normalized,   \* raw path -> the path with :param for {param}
  MediaKey,     \* media type -> the same without special characters
  IllegalNames, \* names with a character that EntityIdSchema does not allow
  AllowedHosts, \* hosts that documents may be fetched from
  MaxRedirects,
  None

VARIABLES
  pair,       \* the documents
  at,         \* what importApiSpec does with the next of them
  objects,    \* documents whose source is in the object store
  versions,   \* rows of api_versions, in the order of their insertion
  changes     \* the answer of diffApiVersions

vars == <<pair, at, objects, versions, changes>>

JsonTypes == {"string", "number", "integer", "boolean", "array", "object", "null"}
HttpMethods == {"get", "post", "put", "patch", "delete", "head", "options", "query"}
NonMethods == {"parameters", "servers", "summary", "description", "additionalOperations"}
Representable == {"200", "404"}   \* of the keys that responses have here

(* Schemas.                                                                *)

Error(code) == [severity |-> "error", code |-> code]
Warning(code) == [severity |-> "warning", code |-> code]

Nothing == [id |-> None, nodes |-> <<>>, diagnostics |-> {}]

\* extractSchemas: walk.  What a reference at the root stands for is lost, and
\* so is a list of types.
RECURSIVE Walk(_, _)
Walk(raw, path) ==
  LET Sub(slot) == Walk(raw.parts[slot], path \o slot)
      Inline == {slot \in DOMAIN raw.parts : raw.parts[slot].kind # "ref"}
      Id(slot) == IF slot \in Inline THEN Sub(slot).id ELSE raw.parts[slot].to
      Node == [type |-> IF raw.type \in JsonTypes THEN raw.type ELSE "object",
               required |-> raw.required,
               parts |-> [slot \in {s \in DOMAIN raw.parts : Id(s) # None} |-> Id(slot)]]
  IN CASE raw.kind \in {"boolean", "false"} ->
            [Nothing EXCEPT !.diagnostics = {Error("BOOLEAN_SCHEMA")}]
       [] raw.kind = "plain" -> Nothing
       [] raw.kind = "ref" ->
            [Nothing EXCEPT !.id = path,
               !.nodes = path :> [type |-> "object", required |-> {}, parts |-> <<>>]]
       [] OTHER ->
            [id |-> path,
             nodes |-> FoldSet(LAMBDA slot, nodes : Sub(slot).nodes @@ nodes,
                               path :> Node, Inline),
             diagnostics |-> UNION {Sub(slot).diagnostics : slot \in Inline}
                \cup (IF raw.exclusive THEN {Error("NUMERIC_EXCLUSIVE_BOUND")} ELSE {})]

\* registerSchema: a reference stands for itself, anything else gets a path.
\* A path that is taken is overwritten.
Register(raw, path) ==
  IF raw.kind = "ref" THEN [Nothing EXCEPT !.id = raw.to]
  ELSE LET walked == Walk(raw, path) IN
       IF walked.id = None /\ walked.diagnostics = {}
       THEN [walked EXCEPT !.diagnostics = {Error("SCHEMA_NOT_REPRESENTABLE")}]
       ELSE walked

(* Servers.                                                                *)

First(x, y) == IF x # None THEN x ELSE y

\* The operations whose servers are looked at: not those of QUERY.
Served(doc) ==
  {o \in DOMAIN doc.operations : o[2] \in (HttpMethods \ {"query"}) \cup {"trace"}}

EffectiveServers(doc, o) ==
  First(doc.operations[o].servers,
        First(doc.pathServers[o[1]], First(doc.servers, "/")))

Uniform(doc) ==
  /\ Served(doc) # {}
  /\ \A o, p \in Served(doc) : EffectiveServers(doc, o) = EffectiveServers(doc, p)

\* Mutant of WithServers: overrides are dropped also if they differ.
WithServersOfFirst(doc) ==
  [doc EXCEPT !.pathServers = [p \in DOMAIN @ |-> None],
              !.operations = [o \in DOMAIN @ |-> [@[o] EXCEPT !.servers = None]]]

\* Overrides that agree become the servers of the document.
WithServers(doc) ==
  IF ~Uniform(doc) THEN doc
  ELSE [doc EXCEPT
         !.servers = EffectiveServers(doc, CHOOSE o \in Served(doc) : TRUE),
         !.pathServers = [p \in DOMAIN @ |-> None],
         !.operations = [o \in DOMAIN @ |->
            IF o \in Served(doc) THEN [@[o] EXCEPT !.servers = None] ELSE @[o]]]

ServerDiagnostics(doc) ==
  {Error("SERVERS_NOT_SUPPORTED") : p \in {q \in DOMAIN doc.pathServers :
     doc.pathServers[q] # None}}
  \cup {Error("SERVERS_NOT_SUPPORTED") : o \in {q \in DOMAIN doc.operations :
     q[2] \in HttpMethods /\ doc.operations[q].servers # None}}

(* Endpoints.                                                              *)

\* What is read of a parameter: a reference has neither place nor name.
AsRead(p) ==
  IF p.byRef
  THEN [p EXCEPT !.in = "query", !.name = "$querystring", !.required = FALSE, !.raw = None]
  ELSE p
AllAsRead(parameters) == [k \in DOMAIN parameters |-> AsRead(parameters[k])]

\* Parameters of the path, replaced or followed by those of the operation.
SameParameter(p, q) == p.in = q.in /\ p.name = q.name
MergedParameters(ofPath, ofOperation) ==
  [k \in DOMAIN ofPath |->
     LET own == SelectSeq(ofOperation, LAMBDA q : SameParameter(q, ofPath[k])) IN
     IF own = <<>> THEN ofPath[k] ELSE Last(own)]
  \o SelectSeq(ofOperation, LAMBDA q : \A p \in ToSet(ofPath) : ~SameParameter(p, q))

\* The schemas an operation has, in the order they are registered: where, and
\* under which path.  The place of a parameter and the status of a header are
\* not part of the path.  A schema behind a reference is not seen, nor is one
\* of a body or a header that is false.
Slot(where, raw, path, seen) == [where |-> where, raw |-> raw, path |-> path, seen |-> seen]

Contents(content, where, prefix, seen) ==
  [k \in DOMAIN content |->
     Slot(Append(where, content[k].media), content[k].raw,
          Append(prefix, MediaKey[content[k].media]),
          seen /\ content[k].raw.kind # "false")]

Slots(id, op, parameters) ==
  LET described == SelectSeq(parameters, LAMBDA p : p.raw # None) IN
  [k \in DOMAIN described |->
     Slot(<<"parameter", described[k].in, described[k].name>>, described[k].raw,
          id \o <<"parameter", described[k].name>>, TRUE)]
  \o (IF op.body = None THEN <<>>
      ELSE Contents(op.body.content, <<"body">>, id \o <<"requestBody">>, ~op.body.byRef))
  \o FlattenSeq([k \in DOMAIN op.responses |->
       LET r == op.responses[k] IN
       IF r.status \notin Representable THEN <<>>
       ELSE Contents(r.content, <<"response", r.status>>, id \o <<"response", r.status>>,
                     ~r.byRef)
            \o [h \in DOMAIN r.headers |->
                  Slot(<<"header", r.status, r.headers[h].name>>, r.headers[h].raw,
                       id \o <<"response-header", r.headers[h].name>>,
                       /\ ~r.byRef /\ ~r.headers[h].byRef
                       /\ r.headers[h].raw.kind # "false")]])

\* What an operation registers, each with its place and what came of it.
Registered(slots) ==
  [k \in DOMAIN slots |->
     [where |-> slots[k].where, walked |-> Register(slots[k].raw, slots[k].path)]]

\* An operation, what it registers and what is said about it.  A body that is
\* a reference is an optional one without content, and nothing is said.
EndpointOf(id, op, parameters, mapped, slots) ==
  [id |-> id,
   parameters |-> [k \in DOMAIN mapped |->
     [in |-> mapped[k].in, name |-> mapped[k].name, required |-> mapped[k].required]],
   body |-> IF op.body = None THEN None
            ELSE [required |-> op.body.required /\ ~op.body.byRef],
   statuses |-> {r.status : r \in ToSet(op.responses)} \cap Representable,
   undescribed |-> {r.status : r \in {q \in ToSet(op.responses) : q.byRef}},
   refs |-> [w \in {slots[k].where : k \in DOMAIN slots} |->
     slots[CHOOSE k \in DOMAIN slots : slots[k].where = w].walked.id],
   nodes |-> FoldLeft(LAMBDA nodes, s : s.walked.nodes @@ nodes, <<>>, slots),
   diagnostics |-> UNION {s.walked.diagnostics : s \in ToSet(slots)}
     \cup {Error("QUERYSTRING") : p \in {q \in ToSet(parameters) : q.in = "querystring"}}
     \cup {Error("RESPONSE_STATUS_PATTERN") : r \in
             {q \in ToSet(op.responses) : q.status \notin Representable}}
     \cup (IF op.streams THEN {Error("STREAMING")} ELSE {})]

EndpointWith(id, op, parameters, mapped) ==
  EndpointOf(id, op, parameters, mapped,
             Registered(SelectSeq(Slots(id, op, mapped), LAMBDA s : s.seen)))
Canonical(id, op, parameters) ==
  EndpointWith(id, op, parameters, SelectSeq(parameters, LAMBDA p : p.in # "querystring"))
Endpoint(doc, o) ==
  Canonical(<<o[2], Normalized[o[1]]>>, doc.operations[o],
            MergedParameters(AllAsRead(doc.pathParameters[o[1]]),
                             AllAsRead(doc.operations[o].parameters)))

\* The operations that become endpoints.
Mapped(doc) ==
  {o \in DOMAIN doc.operations :
     o[2] \in HttpMethods /\ (o[2] = "query" => doc.version = "3.2.0")}

OperationDiagnostics(doc) ==
  {Warning("METHOD") : o \in {p \in DOMAIN doc.operations : p[2] \notin HttpMethods}}
  \cup {Error("QUERY_METHOD") : o \in {p \in DOMAIN doc.operations :
          p[2] = "query" /\ doc.version # "3.2.0"}}
  \cup {Error("ADDITIONAL_OPERATION") : o \in doc.additional}

SecuritySchemes(doc) == {s \in doc.security : s \notin doc.exoticSecurity}

(* The canonical model, as far as what is imported may break its schema:   *)
(* the names of parameters are part of identifiers, and a response has a   *)
(* description, which one behind a reference has not.                      *)

IsSchemaNode(node) ==
  node.type \in JsonTypes /\ \A slot \in DOMAIN node.parts : node.parts[slot] # <<>>

IsParameter(p) ==
  /\ p.name \notin IllegalNames
  /\ p.in \in {"path", "query", "header", "cookie"} /\ p.required \in BOOLEAN

IsEndpoint(e) ==
  /\ e.id[1] \in HttpMethods /\ e.id[2] # <<>>
  /\ \A p \in ToSet(e.parameters) : IsParameter(p)
  /\ e.body # None => e.body.required \in BOOLEAN
  /\ e.statuses \subseteq Representable /\ e.undescribed = {}

IsCanonicalModel(model) ==
  /\ model.servers # ""
  /\ \A id \in DOMAIN model.schemas : id # <<>> /\ IsSchemaNode(model.schemas[id])
  /\ \A e \in model.endpoints : IsEndpoint(e)

(* importOpenApi.                                                          *)

\* Defects are a set of codes.  Those of the text, or of the outline of the
\* document, end the import at once, each found in this order.
TextDefects ==
  <<"SOURCE_TOO_LARGE", "SYNTAX", "ALIAS_BUDGET", "NODE_BUDGET", "DEPTH_BUDGET", "SHAPE",
    "VERSION", "NON_SEMVER">>
SemanticDefects == {"EXTERNAL_REFERENCE", "DIALECT"}

Failure(code) == [model |-> None, diagnostics |-> {Error(code)}]

Diagnostics(doc, endpoints, components) ==
  UNION {components[n].diagnostics : n \in DOMAIN components}
  \cup UNION {e.diagnostics : e \in endpoints}
  \cup ServerDiagnostics(doc) \cup OperationDiagnostics(doc)
  \cup {Error(d) : d \in doc.defects \cap SemanticDefects}
  \cup {Warning("SECURITY_TYPE") : s \in doc.security \cap doc.exoticSecurity}
  \cup (IF doc.webhooks THEN {Warning("WEBHOOKS")} ELSE {})

Model(doc, endpoints, components) ==
  [servers |-> doc.servers, security |-> SecuritySchemes(doc), endpoints |-> endpoints,
   schemas |-> FoldSet(LAMBDA e, nodes : e.nodes @@ nodes,
                 FoldSet(LAMBDA n, nodes : components[n].nodes @@ nodes,
                         <<>>, DOMAIN components),
                 endpoints)]

Answer(model, diagnostics) ==
  IF ~IsCanonicalModel(model)
  THEN [model |-> None, diagnostics |-> diagnostics \cup {Error("CANONICAL_MODEL_INVALID")}]
  ELSE [model |-> IF \E d \in diagnostics : d.severity = "error" THEN None ELSE model,
        diagnostics |-> diagnostics]

AnswerOf(doc, endpoints, components) ==
  Answer(Model(doc, endpoints, components), Diagnostics(doc, endpoints, components))

ImportServed(doc) ==
  AnswerOf(doc, {Endpoint(doc, o) : o \in Mapped(doc)},
           [n \in DOMAIN doc.schemas |-> Walk(doc.schemas[n], <<n>>)])

Import(doc) == ImportServed(WithServers(doc))

\* validateAndImportOpenApiText: the schema of the standard is asked last.
AgainstStandard(doc, mapped) ==
  IF mapped.model # None /\ "STANDARD" \in doc.defects
  THEN Failure("SCHEMA_VALIDATION") ELSE mapped

ValidateAndImport(doc) ==
  LET early == SelectSeq(TextDefects, LAMBDA d : d \in doc.defects)
  IN IF early # <<>> THEN Failure(early[1]) ELSE AgainstStandard(doc, Import(doc))

(* computeDiff: endpoints by identifier, parameters by name.               *)

Change(type, category, of, breaking) ==
  [type |-> type, category |-> category, of |-> of, breaking |-> breaking]

When(condition, change) == IF condition THEN {change} ELSE {}

ParameterNames(e) == {p.name : p \in ToSet(e.parameters)}
ParameterNamed(e, n) == Last(SelectSeq(e.parameters, LAMBDA p : p.name = n))
SchemaOf(e, p) ==
  LET where == <<"parameter", p.in, p.name>> IN
  IF where \in DOMAIN e.refs THEN e.refs[where] ELSE None

SchemaChanges(n, before, after) ==
  When(before # after, Change("modified", "schema", <<n>>, None \in {before, after}))

ParameterChanges(b, t) ==
  {Change("added", "parameter", <<n>>, ParameterNamed(t, n).required) :
     n \in ParameterNames(t) \ ParameterNames(b)}
  \cup {Change("removed", "parameter", <<n>>, TRUE) :
          n \in ParameterNames(b) \ ParameterNames(t)}
  \cup {Change("modified", "required", <<n>>, ParameterNamed(t, n).required) :
          n \in {m \in ParameterNames(b) \cap ParameterNames(t) :
                   ParameterNamed(b, m).required # ParameterNamed(t, m).required}}
  \cup UNION {
     SchemaChanges(n, SchemaOf(b, ParameterNamed(b, n)), SchemaOf(t, ParameterNamed(t, n))) :
     n \in ParameterNames(b) \cap ParameterNames(t)}

BodyChanges(b, t) ==
  When(b.body = None /\ t.body # None, Change("added", "requestBody", <<>>, FALSE))
  \cup When(b.body # None /\ t.body = None, Change("removed", "requestBody", <<>>, TRUE))

ResponseChanges(b, t) ==
  {Change("added", "response", <<s>>, FALSE) : s \in t.statuses \ b.statuses}
  \cup {Change("removed", "response", <<s>>, TRUE) : s \in b.statuses \ t.statuses}

ServerChanges(base, target) ==
  When(target.servers \notin {None, base.servers}, Change("added", "server", <<>>, FALSE))
  \cup When(base.servers \notin {None, target.servers}, Change("removed", "server", <<>>, TRUE))

EndpointChanges(b, t) ==
  ParameterChanges(b, t) \cup BodyChanges(b, t) \cup ResponseChanges(b, t)

ComputeDiff(base, target) ==
  LET Ids(model) == {e.id : e \in model.endpoints}
      Named(model, id) == CHOOSE e \in model.endpoints : e.id = id
  IN {Change("added", "endpoint", id, FALSE) : id \in Ids(target) \ Ids(base)}
     \cup {Change("removed", "endpoint", id, TRUE) : id \in Ids(base) \ Ids(target)}
     \cup UNION {EndpointChanges(Named(base, id), Named(target, id)) :
                 id \in Ids(base) \cap Ids(target)}
     \cup ServerChanges(base, target)

(* importApiSpec: the source is stored before the version that points to   *)
(* it, in two systems that share no transaction.                           *)

Init ==
  /\ pair \in Pairs
  /\ at = [document |-> 1, step |-> "read"]
  /\ objects = {} /\ versions = <<>> /\ changes = None

Document == pair[at.document]
Following == [document |-> at.document + 1, step |-> "read"]

\* fetchImportSource: the answers to the requests for the document, each with
\* the host it comes from.  The last one that is asked for is its text.
Fetched(hops) ==
  \E k \in DOMAIN hops :
    /\ k <= MaxRedirects + 1
    /\ \A j \in 1..k : hops[j].host \in AllowedHosts
    /\ \A j \in 1..k - 1 : hops[j].status = "redirect"
    /\ hops[k].status = "ok" /\ ~hops[k].large

\* An import with an error stores nothing.
Refuse ==
  /\ at.step = "read" /\ at.document <= 2
  /\ Fetched(Document.hops) => ValidateAndImport(Document).model = None
  /\ at' = Following
  /\ UNCHANGED <<pair, objects, versions, changes>>

PutSource ==
  /\ at.step = "read" /\ at.document <= 2
  /\ Fetched(Document.hops) /\ ValidateAndImport(Document).model # None
  /\ objects' = objects \cup {Document}
  /\ at' = [at EXCEPT !.step = "stored"]
  /\ UNCHANGED <<pair, versions, changes>>

InsertVersion ==
  /\ at.step = "stored"
  /\ versions' = Append(versions, [source |-> Document, model |-> ValidateAndImport(Document).model])
  /\ at' = Following
  /\ UNCHANGED <<pair, objects, changes>>

\* The process ends, or the database refuses the row.
LoseVersion ==
  /\ at.step = "stored"
  /\ at' = Following
  /\ UNCHANGED <<pair, objects, versions, changes>>

\* diffApiVersions
Compare ==
  /\ Len(versions) = 2 /\ changes = None
  /\ changes' = ComputeDiff(versions[1].model, versions[2].model)
  /\ UNCHANGED <<pair, at, objects, versions>>

Next == Refuse \/ PutSource \/ InsertVersion \/ LoseVersion \/ Compare
Spec == Init /\ [][Next]_vars

(* What a stored version says about its document.                          *)

\* A reference of the model leads to what the document has there.
RECURSIVE Describes(_, _, _)
Describes(model, id, raw) ==
  CASE raw.kind = "ref" -> id = raw.to
    [] raw.kind = "schema" ->
         /\ id \in DOMAIN model.schemas
         /\ LET node == model.schemas[id] IN
            /\ raw.type \in JsonTypes => node.type = raw.type
            /\ node.required = raw.required
            /\ \A slot \in DOMAIN raw.parts :
                 \/ raw.parts[slot].kind = "plain"
                 \/ slot \in DOMAIN node.parts /\ Describes(model, node.parts[slot], raw.parts[slot])
    [] OTHER -> FALSE

\* Names that the adapter does not tell apart are not both used: those of
\* parameters in different places, of headers of different responses, of media
\* types that differ in special characters.
Distinguishable(slots) ==
  \A k, m \in DOMAIN slots : k # m => slots[k].path # slots[m].path

\* An endpoint has the parameters, the body and the responses of its operation;
\* only whether a body that is a reference is required may differ.
Signature(parameters) == {<<p.in, p.name, p.required>> : p \in ToSet(parameters)}
SameContract(e, op, parameters) ==
  /\ Signature(e.parameters) = Signature(parameters)
  /\ e.statuses = {r.status : r \in ToSet(op.responses)}
  /\ e.body = None <=> op.body = None
  /\ op.body # None => (e.body.required <=> op.body.required) \/ op.body.byRef

\* The schemas that are dropped without a diagnostic.
LostInSilence(s) ==
  ~s.seen /\ (s.where[1] \in {"body", "header"} \/ s.raw.kind = "false")

OperationIsKept(doc, model, o) ==
  LET id == <<o[2], Normalized[o[1]]>>
      op == doc.operations[o]
      parameters == MergedParameters(doc.pathParameters[o[1]], op.parameters)
      slots == Slots(id, op, parameters)
  IN \E e \in model.endpoints :
       /\ e.id = id
       /\ SameContract(e, op, parameters)
       /\ o[2] # "query" => EffectiveServers(doc, o) = First(model.servers, "/")
       /\ Distinguishable(slots) => \A s \in ToSet(slots) :
            \/ LostInSilence(s)
            \/ s.where \in DOMAIN e.refs /\ Describes(model, e.refs[s.where], s.raw)

VersionIsFaithful(version) ==
  LET doc == version.source
      kept == {o \in DOMAIN doc.operations : o[2] \in HttpMethods}
  IN /\ \A o \in kept : OperationIsKept(doc, version.model, o)
     /\ Cardinality(version.model.endpoints) = Cardinality(kept)
     /\ \A n \in DOMAIN doc.schemas :
          doc.schemas[n].kind = "schema" => Describes(version.model, <<n>>, doc.schemas[n])

\* A parameter that moves to another place, and a body that becomes required,
\* are changes that computeDiff does not see or does not call breaking.
Required(e) == {<<p.in, p.name>> : p \in {q \in ToSet(e.parameters) : q.required}}
Accepted(e) == {<<p.in, p.name>> : p \in ToSet(e.parameters)}
Unseen(b, t) ==
  \/ \E p \in Accepted(b), q \in Accepted(t) \cup Accepted(b) : p[2] = q[2] /\ p # q
  \/ \E p, q \in Accepted(t) : p[2] = q[2] /\ p # q

\* A request that satisfies an endpoint of the older model is still served.
StillServes(base, target) ==
  \A b \in base.endpoints : \E t \in target.endpoints :
    /\ t.id = b.id
    /\ \/ Unseen(b, t)
       \/ Required(t) \subseteq Required(b) /\ Accepted(b) \subseteq Accepted(t)
    /\ b.body # None => t.body # None
    /\ b.statuses \subseteq t.statuses

(***************************************************************************)
(* "Failed imports never create a valid ApiVersion", and what a version    *)
(* says is what its document said: its source is in the object store, each *)
(* operation is an endpoint with its parameters, body and responses that   *)
(* goes to the servers the document names for it, and every schema can be  *)
(* followed to the keyword it came from; and a comparison without a        *)
(* breaking change means that requests of the older version are still      *)
(* served, by the same servers.  Excepted is what the import loses without *)
(* a word although "warnings for unsupported constructs are never silently *)
(* dropped" (openapi index.ts:18): whether a body that is a $ref is        *)
(* required, its schemas, those of headers that are a $ref or have         *)
(* content, and the schema false of a body or header.                      *)
(***************************************************************************)
ImportIsFaithful ==
  /\ \A v \in ToSet(versions) : v.source \in objects /\ VersionIsFaithful(v)
  /\ (changes # None /\ \A c \in changes : ~c.breaking) =>
       /\ StillServes(versions[1].model, versions[2].model)
       /\ versions[1].model.servers \in {None, versions[2].model.servers}

----------------------------------------------------------------------------
(***************************************************************************)
(* The document of one endpoint that is derived from a stored version      *)
(* (modules/import/endpoint-definition.service.ts): its operation, and the *)
(* schemas that can be reached from it, each a component of its own.       *)
(*                                                                         *)
(* A component has the id of the schema for its name.  The code writes     *)
(* schemas one after the other, as references to them are made; here they  *)
(* are the closure of the references.                                      *)
(***************************************************************************)

\* denormalizePath
Denormalized(path) == CHOOSE raw \in DOMAIN Normalized : Normalized[raw] = path

Reference(id) ==
  [kind |-> "ref", type |-> None, parts |-> <<>>, required |-> {}, exclusive |-> FALSE,
   to |-> <<id>>]
EmptySchema ==
  [kind |-> "plain", type |-> None, parts |-> <<>>, required |-> {}, exclusive |-> FALSE]

\* schemaFromNode
SchemaFromNode(node) ==
  [kind |-> "schema", type |-> node.type, required |-> node.required, exclusive |-> FALSE,
   parts |-> [slot \in DOMAIN node.parts |-> Reference(node.parts[slot])]]

\* The references an endpoint has at a place, e.g. <<"response", "200">>.
At(e, place) == {w \in DOMAIN e.refs : Front(w) = place}
ContentAt(e, place) ==
  [k \in 1..Cardinality(At(e, place)) |->
     LET w == SetToSeq(At(e, place))[k] IN [media |-> Last(w), raw |-> Reference(e.refs[w])]]
HeadersAt(e, status) ==
  [k \in 1..Cardinality(At(e, <<"header", status>>)) |->
     LET w == SetToSeq(At(e, <<"header", status>>))[k] IN
     [name |-> Last(w), raw |-> Reference(e.refs[w]), byRef |-> FALSE]]

\* operationFromEndpoint: a parameter of the path is always required, one
\* without a schema gets the empty one.
ParameterFrom(e, p) ==
  LET schema == SchemaOf(e, p) IN
  [in |-> p.in, name |-> p.name, required |-> p.in = "path" \/ p.required, byRef |-> FALSE,
   raw |-> IF schema = None THEN EmptySchema ELSE Reference(schema)]

OperationFromEndpoint(e) ==
  LET statuses == SetToSeq(e.statuses) IN
  [servers |-> None, streams |-> FALSE,
   parameters |-> [k \in DOMAIN e.parameters |-> ParameterFrom(e, e.parameters[k])],
   responses |-> [k \in DOMAIN statuses |->
     [status |-> statuses[k], content |-> ContentAt(e, <<"response", statuses[k]>>),
      headers |-> HeadersAt(e, statuses[k]), byRef |-> FALSE]],
   body |-> IF e.body = None THEN None
            ELSE [required |-> e.body.required, byRef |-> FALSE,
                  content |-> ContentAt(e, <<"body">>)]]

\* The schemas that are reached from some of them by references.
PartsOf(node) == {node.parts[slot] : slot \in DOMAIN node.parts}
RECURSIVE Reached(_, _)
Reached(model, ids) ==
  LET more == ids \cup UNION {PartsOf(model.schemas[id]) : id \in ids \cap DOMAIN model.schemas}
  IN IF more = ids THEN ids ELSE Reached(model, more)

Referenced(model, e) == Reached(model, {e.refs[w] : w \in DOMAIN e.refs})

\* createEndpointDefinition
CreateEndpointDefinition(model, e) ==
  LET path == Denormalized(e.id[2]) IN
  [version |-> "3.2.0", defects |-> {}, webhooks |-> FALSE, servers |-> model.servers,
   pathServers |-> path :> None, pathParameters |-> path :> <<>>,
   operations |-> <<path, e.id[1]>> :> OperationFromEndpoint(e),
   additional |-> {}, security |-> model.security, exoticSecurity |-> {},
   schemas |-> [id \in Referenced(model, e) \cap DOMAIN model.schemas |->
                  SchemaFromNode(model.schemas[id])]]

----------------------------------------------------------------------------

\* An endpoint and the one that is read from its definition.
SameEndpoint(e, f) ==
  /\ f.id = e.id /\ f.body = e.body /\ f.statuses = e.statuses
  /\ {[p EXCEPT !.required = p.in = "path" \/ @] : p \in ToSet(e.parameters)} =
       ToSet(f.parameters)
  /\ f.refs = [w \in DOMAIN e.refs |-> <<e.refs[w]>>]

\* A definition is portable: read as a document of its own, it gives the
\* endpoint it was derived from, with the same servers, and every schema that
\* can be reached from it, if all its parameters have one.
DefinitionIsFaithful(model, e) ==
  LET back == ValidateAndImport(CreateEndpointDefinition(model, e)).model IN
  (\A p \in ToSet(e.parameters) : SchemaOf(e, p) # None) =>
    /\ back # None
    /\ \A f \in back.endpoints : SameEndpoint(e, f)
    /\ Cardinality(back.endpoints) = 1
    /\ First(back.servers, "/") = First(model.servers, "/")
    /\ \A id \in Reached(model, {e.refs[w] : w \in DOMAIN e.refs}) \cap DOMAIN model.schemas :
         LET node == model.schemas[id] IN
         /\ <<id>> \in DOMAIN back.schemas
         /\ back.schemas[<<id>>] =
              [node EXCEPT !.parts = [slot \in DOMAIN @ |-> <<@[slot]>>]]

\* "Build a portable OpenAPI document for exactly one endpoint", for every
\* endpoint of every stored version (createEndpointDefinition).
DefinitionsAreFaithful ==
  \A v \in ToSet(versions) : \A e \in v.model.endpoints : DefinitionIsFaithful(v.model, e)
=============================================================================
