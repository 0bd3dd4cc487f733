------------------------------- MODULE Arazzo -------------------------------
(***************************************************************************)
(* Arazzo documents and workflows (packages/adapters/arazzo): what is      *)
(* imported, what is exported, and what is left when an export is imported *)
(* again.                                                                  *)
(*                                                                         *)
(* A value is [at, path]: a text, a reference to an input or to an output  *)
(* of a step in a document ("inputs", "steps", "embedded" in a text), a    *)
(* variable in a workflow.  A URL is its server, the segments of its path  *)
(* ("placeholder" for :name) and its query.  A JSON pointer is a sequence  *)
(* of keys, and a key the sequence of its parts between dots.              *)
(***************************************************************************)
EXTENDS Integers, SequencesExt

CONSTANTS
  Cases,      \* <<document, sources, edit>>: what is imported, and edited then
  BeginsWith,   \* <<m, n>>: the name m begins with the name n
  IllegalNames, \* names with a character that EntityIdSchema does not allow
  None

VARIABLES
  case,
  stage,      \* "given", "imported", "edited", "exported", "done"
  imported,   \* the answer of importArazzoText
  exported,   \* the answer of exportArazzoText
  again       \* the answer of importArazzoText for what was exported

arazzoVars == <<case, stage, imported, exported, again>>

----------------------------------------------------------------------------
(* Import.                                                                 *)

Translate(v) ==
  [at |-> IF v.at \in {"inputs", "steps"} THEN "variable" ELSE "text", path |-> v.path]

\* parseArazzoSource: what is wrong with the text or the shape.
TextErrors(d) ==
  IF d.text # "document" THEN {d.text}
  ELSE (IF d.version # "1.1.0" THEN {"UNSUPPORTED_ARAZZO_VERSION"} ELSE {})
       \cup (IF d.sources = <<>> THEN {"INVALID_ARAZZO_SOURCES"} ELSE {})
       \cup (IF d.workflows = <<>> THEN {"INVALID_ARAZZO_WORKFLOWS"} ELSE {})
       \cup (IF \E w \in ToSet(d.workflows) : w.steps = <<>>
             THEN {"INVALID_ARAZZO_WORKFLOW"} ELSE {})

\* A source description against the binding that was supplied for its name:
\* where it was retrieved, and the hash of what was.
SourceErrors(s, sources, strict) ==
  IF s.type # "openapi" THEN {"ARAZZO_SOURCE_TYPE_NOT_SUPPORTED"}
  ELSE IF s.name \notin DOMAIN sources THEN {"ARAZZO_SOURCE_NOT_PROVIDED"}
  ELSE LET b == sources[s.name] IN
    IF ~b.bound THEN IF strict THEN {"ARAZZO_SOURCE_PROVENANCE_REQUIRED"} ELSE {}
    ELSE (IF None \in {s.url, b.url} THEN {"ARAZZO_SOURCE_URL_NOT_RESOLVABLE"}
          ELSE IF s.url # b.url THEN {"ARAZZO_SOURCE_URL_MISMATCH"} ELSE {})
         \cup (IF b.hash # b.model THEN {"ARAZZO_SOURCE_HASH_MISMATCH"} ELSE {})

\* resolveOperation: the operations an id may mean, in the named source or
\* in every source that was supplied.
Matches(op, sources) ==
  {<<name, i>> \in (DOMAIN sources \cap (IF op.source = None THEN DOMAIN sources
                                         ELSE {op.source})) \X (1..9) :
     i \in DOMAIN sources[name].endpoints /\ sources[name].endpoints[i].id = op.id}

\* Map.set keeps the place of a key and takes its last value: a parameter of
\* the step replaces the workflow's of the same name and place.
SameKey(p, q) == p.in = q.in /\ p.name = q.name
Firsts(ps) == SetToSortSeq({i \in DOMAIN ps : \A j \in 1..i - 1 : ~SameKey(ps[i], ps[j])}, <)
Latest(ps, p) ==
  ps[CHOOSE j \in DOMAIN ps : SameKey(p, ps[j]) /\
       \A k \in j + 1..Len(ps) : ~SameKey(p, ps[k])]
LatestOf(ps, firsts) == [i \in DOMAIN firsts |-> Latest(ps, ps[firsts[i]])]
LatestOfEach(ps) == LatestOf(ps, Firsts(ps))
MergedParameters(wps, sps) ==
  LatestOfEach(SelectSeq(wps \o sps, LAMBDA p : ~p.reference))

ParameterErrors(wps, sps) ==
  ({CASE p.name = None \/ p.in = None \/ p.value = None -> "INVALID_ARAZZO_PARAMETER"
     [] p.in = "querystring" -> "ARAZZO_QUERYSTRING_NOT_EXECUTABLE"
     [] p.in \notin {"path", "query", "header", "cookie"} ->
          "INVALID_ARAZZO_PARAMETER_LOCATION"
     [] OTHER -> None : p \in ToSet(MergedParameters(wps, sps))} \ {None})
  \cup (IF \E p \in ToSet(wps \o sps) : p.reference
        THEN {"ARAZZO_REUSABLE_NOT_SUPPORTED"} ELSE {})

\* url.replace(":name", value): the first place where the text stands, which
\* may be the beginning of a longer name.
Replace(path, p) ==
  LET Fits(i) == /\ path[i].at = "placeholder"
                 /\ path[i].path[1] = p.name \/ <<path[i].path[1], p.name>> \in BeginsWith
      hits == {i \in DOMAIN path : Fits(i)}
  IN IF hits = {} THEN path
     ELSE LET i == CHOOSE i \in hits : \A j \in hits : i <= j IN
          [path EXCEPT ![i] =
             IF @.path[1] = p.name THEN Translate(p.value)
             ELSE [at |-> "mixture", path |-> @.path \o p.value.path]]

In(place, ps) == SelectSeq(ps, LAMBDA p : p.in = place)
Pairs(ps) == [i \in DOMAIN ps |-> <<ps[i].name, Translate(ps[i].value)>>]
LastOfEach(ps) ==
  [n \in {p.name : p \in ToSet(ps)} |->
     Translate((CHOOSE p \in ToSet(ps) : p.name = n).value)]

\* headers["Cookie"] is assigned for every cookie: the last remains.
CookieOf(ps) == IF ps = <<>> THEN <<>> ELSE <<Last(Pairs(ps))>>

ContentType(step) ==
  IF step.body.type = None THEN <<>>
  ELSE [n \in {"Content-Type"} |-> [at |-> "text", path |-> <<step.body.type>>]]

CriteriaErrors(step) ==
  IF \E c \in ToSet(step.criteria) : c = None
  THEN {"ARAZZO_CRITERION_NOT_SUPPORTED"} ELSE {}

\* mapOutputs; pointerToJsonPath joins the keys of the pointer by dots.
OutputErrors(step) ==
  {CASE step.outputs[n].from = "object" -> "ARAZZO_SELECTOR_NOT_SUPPORTED"
     [] step.outputs[n].from \in {"body", "header", "status"} -> None
     [] OTHER -> "ARAZZO_RUNTIME_EXPRESSION_NOT_SUPPORTED" :
     n \in DOMAIN step.outputs} \ {None}
Extractions(step) ==
  {[name |-> n, source |-> step.outputs[n].from,
    of |-> IF step.outputs[n].from = "body" THEN FlattenSeq(step.outputs[n].of)
           ELSE step.outputs[n].of] : n \in DOMAIN step.outputs}

\* onFailure: one unconditional retry within bounds, or none.
RetryErrors(step) ==
  CASE step.onFailure = <<>> -> {}
    [] Len(step.onFailure) > 1 \/ ~step.onFailure[1].plain ->
         {"ARAZZO_FAILURE_ACTION_NOT_SUPPORTED"}
    [] step.onFailure[1].limit > 10 \/ step.onFailure[1].after \notin 0..60000 ->
         {"ARAZZO_RETRY_LIMIT_EXCEEDED"}
    [] OTHER -> {}
Retry(step) ==
  IF step.onFailure = <<>> THEN None
  ELSE [max |-> step.onFailure[1].limit,
        delay |-> IF step.onFailure[1].after = 0 THEN 1 ELSE step.onFailure[1].after]

\* What mapStep refuses before it looks for the operation, and beside it.
KindErrors(step) ==
  CASE step.kind = "workflow" -> {"ARAZZO_WORKFLOW_CHAINING_NOT_SUPPORTED"}
    [] step.kind = "channel" -> {"ARAZZO_ASYNCAPI_NOT_SUPPORTED"}
    [] step.kind = "path" -> {"ARAZZO_OPERATION_PATH_NOT_SUPPORTED"}
    [] step.kind = "none" -> {"ARAZZO_OPERATION_REQUIRED"}
    [] OTHER -> {}
FlowErrors(step) ==
  (IF step.depends THEN {"ARAZZO_DEPENDS_ON_NOT_SUPPORTED"} ELSE {})
  \cup (IF step.onSuccess THEN {"ARAZZO_CONTROL_FLOW_NOT_SUPPORTED"} ELSE {})

(* The schema of workflows, as far as what is imported may break it.       *)

IsRetryConfig(retry) == retry.max \in 0..10 /\ retry.delay \in 1..60000

IsExtraction(x) == x.source \in {"body", "header", "cookie", "status"}

IsWorkflowStep(step) ==
  /\ step.id \notin IllegalNames
  /\ step.retry # None => IsRetryConfig(step.retry)
  /\ step.timeout # None => step.timeout \in 1..300000
  /\ \A x \in step.extract : IsExtraction(x)

MaxSteps == 50
IsWorkflowDefinition(flow) ==
  /\ flow.id \notin IllegalNames /\ Len(flow.steps) \in 1..MaxSteps
  /\ \A s \in ToSet(flow.steps) : IsWorkflowStep(s)

\* mapStep, for a step whose operation and server are known.
StepOf(step, ps, server, endpoint) ==
  [id |-> step.id, kind |-> "inline", method |-> endpoint.method,
   url |-> [server |-> server, path |-> FoldLeft(Replace, endpoint.path, In("path", ps)),
            query |-> Pairs(In("query", ps))],
   headers |-> ContentType(step) @@ LastOfEach(In("header", ps)),
   cookie |-> CookieOf(In("cookie", ps)),
   body |-> IF step.body.payload = None THEN None ELSE Translate(step.body.payload),
   assertions |-> step.criteria, extract |-> Extractions(step),
   retry |-> Retry(step), timeout |-> step.timeout, more |-> {}]

Failed(errors) == [errors |-> errors, steps |-> <<>>]

Checked(step) ==
  IF IsWorkflowStep(step) THEN [errors |-> {}, steps |-> <<step>>]
  ELSE Failed({"ARAZZO_WORKFLOW_STEP_INVALID"})

DetailErrors(step, wps) ==
  ParameterErrors(wps, step.parameters)
  \cup CriteriaErrors(step) \cup OutputErrors(step) \cup RetryErrors(step)
  \cup (IF step.body.replaces THEN {"ARAZZO_PAYLOAD_REPLACEMENTS_NOT_SUPPORTED"} ELSE {})

\* The step of the only operation that was found, or of none.
MapFound(step, wps, found, sources, details) ==
  CASE found = {} -> Failed({"ARAZZO_OPERATION_NOT_FOUND"} \cup FlowErrors(step))
    [] Cardinality(found) > 1 ->
         Failed({"ARAZZO_OPERATION_AMBIGUOUS"} \cup FlowErrors(step))
    [] \E m \in found : sources[m[1]].server = None ->
         Failed({"ARAZZO_SERVER_REQUIRED"} \cup FlowErrors(step))
    [] details # {} \/ FlowErrors(step) # {} -> Failed(details \cup FlowErrors(step))
    [] OTHER ->
         LET one == CHOOSE m \in found : TRUE IN
         Checked(StepOf(step, MergedParameters(wps, step.parameters),
                        sources[one[1]].server, sources[one[1]].endpoints[one[2]]))

MapStep(step, wps, sources) ==
  IF KindErrors(step) # {} THEN Failed(KindErrors(step))
  ELSE MapFound(step, wps, Matches(step.operation, sources), sources, DetailErrors(step, wps))

FlowErrorsOf(w, flow, errors) ==
  errors
  \cup (IF w.depends THEN {"ARAZZO_WORKFLOW_DEPENDENCY_NOT_SUPPORTED"} ELSE {})
  \cup (IF w.actions THEN {"ARAZZO_CONTROL_FLOW_NOT_SUPPORTED"} ELSE {})
  \cup (IF flow.steps = <<>> \/ IsWorkflowDefinition(flow) THEN {}
        ELSE {"ARAZZO_WORKFLOW_INVALID"})

Gathered(w, flow, errors) == [flow |-> flow, errors |-> FlowErrorsOf(w, flow, errors)]

FlowOfMapped(w, mapped) ==
  Gathered(w, [id |-> w.id, steps |-> FlattenSeq([i \in DOMAIN mapped |-> mapped[i].steps])],
           UNION {mapped[i].errors : i \in DOMAIN mapped})

FlowOf(w, sources) ==
  FlowOfMapped(w, [i \in DOMAIN w.steps |-> MapStep(w.steps[i], w.parameters, sources)])

\* importArazzoText.
Answer(errors, flows) ==
  [errors |-> errors,
   flows |-> IF errors # {} THEN <<>> ELSE [i \in DOMAIN flows |-> flows[i].flow]]

ImportFlows(d, sources, strict, flows) ==
  Answer(UNION {SourceErrors(s, sources, strict) : s \in ToSet(d.sources)}
           \cup UNION {flows[i].errors : i \in DOMAIN flows}, flows)

Import(d, sources, strict) ==
  IF TextErrors(d) # {} THEN Answer(TextErrors(d), <<>>)
  ELSE ImportFlows(d, sources, strict,
                   [i \in DOMAIN d.workflows |-> FlowOf(d.workflows[i], sources)])

----------------------------------------------------------------------------
(* Export.                                                                 *)

\* ${a} is an input and ${a.b} the output b of the step a.
Reverse1(v) ==
  [at |-> IF v.at # "variable" THEN "text" ELSE IF Len(v.path) = 1 THEN "inputs" ELSE "steps",
   path |-> v.path]

\* matchEndpointUrl: a placeholder matches any one segment.
UrlMatches(url, endpoint, server) ==
  /\ server # None /\ url.server = server
  /\ DOMAIN url.path = DOMAIN endpoint.path
  /\ \A i \in DOMAIN url.path :
       endpoint.path[i].at = "placeholder" \/ url.path[i] = endpoint.path[i]

ExportMatches(step, sources) ==
  {<<name, i>> \in (DOMAIN sources) \X (1..9) :
     /\ i \in DOMAIN sources[name].endpoints
     /\ sources[name].endpoints[i].method = step.method
     /\ sources[name].endpoints[i].id # None
     /\ UrlMatches(step.url, sources[name].endpoints[i], sources[name].server)}

ExportErrors(step, sources) ==
  LET found == ExportMatches(step, sources) IN
  (CASE step.kind # "inline" -> {"ARAZZO_TEST_VERSION_EXPORT_NOT_SUPPORTED"}
     [] found = {} -> {"ARAZZO_EXPORT_OPERATION_NOT_FOUND"}
     [] Cardinality(found) > 1 -> {"ARAZZO_EXPORT_OPERATION_AMBIGUOUS"}
     [] OTHER -> {})
  \cup (IF \E a \in ToSet(step.assertions) : a = None
        THEN {"ARAZZO_ASSERTION_EXPORT_NOT_SUPPORTED"} ELSE {})
  \cup (IF \E x \in step.extract : x.source \notin {"body", "header", "status"}
        THEN {"ARAZZO_EXTRACTION_EXPORT_NOT_SUPPORTED"} ELSE {})

Parameter(in, name, value) ==
  [in |-> in, name |-> name, value |-> Reverse1(value), reference |-> FALSE]

\* The parameters of a step: of its path, of its query, and of its headers
\* but Content-Type, which goes with the body.
ExportedParameters(step, endpoint) ==
  LET places == SetToSortSeq({i \in DOMAIN endpoint.path :
                                endpoint.path[i].at = "placeholder"}, <)
      names == SetToSeq((DOMAIN step.headers) \ {"Content-Type"})
  IN [k \in DOMAIN places |-> Parameter("path", endpoint.path[places[k]].path[1],
                                        step.url.path[places[k]])]
     \o [k \in DOMAIN step.url.query |->
           Parameter("query", step.url.query[k][1], step.url.query[k][2])]
     \o [k \in DOMAIN names |-> Parameter("header", names[k], step.headers[names[k]])]
     \o [k \in DOMAIN step.cookie |->
           Parameter("cookie", step.cookie[k][1], step.cookie[k][2])]

ExportedBody(step) ==
  [payload |-> IF step.body = None THEN None ELSE Reverse1(step.body),
   type |-> IF step.body # None /\ "Content-Type" \in DOMAIN step.headers
            THEN step.headers["Content-Type"].path[1] ELSE None,
   replaces |-> FALSE]

ExportedStep(step, sources) ==
  LET Of(n) == CHOOSE x \in step.extract : x.name = n
      Place(one) == [source |-> one[1], endpoint |-> sources[one[1]].endpoints[one[2]]]
      at == Place(CHOOSE m \in ExportMatches(step, sources) : TRUE)
  IN [id |-> step.id, kind |-> "operation", depends |-> FALSE, onSuccess |-> FALSE,
      operation |-> [source |-> at.source, id |-> at.endpoint.id],
      parameters |-> ExportedParameters(step, at.endpoint),
      body |-> ExportedBody(step), criteria |-> step.assertions,
      outputs |-> [n \in {x.name : x \in step.extract} |->
        [from |-> Of(n).source,
         of |-> IF Of(n).source = "body"
                THEN [i \in DOMAIN Of(n).of |-> <<Of(n).of[i]>>] ELSE Of(n).of]],
      onFailure |-> IF step.retry = None \/ step.retry.max = 0 THEN <<>>
                    ELSE <<[plain |-> TRUE, limit |-> step.retry.max,
                            after |-> step.retry.delay]>>,
      timeout |-> step.timeout]

\* exportArazzoText: conditions, policies, switched-off steps and the
\* teardown (more) are left out without a word.
Export(flows, sources, descriptions) ==
  LET errors == IF flows = <<>> THEN {"ARAZZO_EXPORT_EMPTY"}
                ELSE UNION {ExportErrors(s, sources) :
                              s \in UNION {ToSet(f.steps) : f \in ToSet(flows)}}
  IN [errors |-> errors,
      document |-> IF errors # {} THEN None ELSE
        [text |-> "document", version |-> "1.1.0", sources |-> descriptions,
         workflows |-> [i \in DOMAIN flows |->
           [id |-> flows[i].id, depends |-> FALSE, actions |-> FALSE, parameters |-> <<>>,
            steps |-> [k \in DOMAIN flows[i].steps |->
                         ExportedStep(flows[i].steps[k], sources)]]]]]

----------------------------------------------------------------------------

Document == case[1]
Sources == case[2]
Edited(flows) == [i \in DOMAIN flows |->
  [flows[i] EXCEPT !.steps = [k \in DOMAIN @ |-> case[3] @@ @[k]]]]

Init ==
  /\ case \in Cases /\ stage = "given"
  /\ imported = None /\ exported = None /\ again = None

\* importArazzoWorkflows: every source must have been verified.
ImportText ==
  /\ stage = "given"
  /\ imported' = Import(Document, Sources, TRUE)
  /\ stage' = IF imported'.errors = {} THEN "imported" ELSE "done"
  /\ UNCHANGED <<case, exported, again>>

\* What was imported is edited, and exported for the same sources.
ExportText ==
  /\ stage = "imported"
  /\ exported' = Export(Edited(imported.flows), Sources, Document.sources)
  /\ stage' = IF exported'.errors = {} THEN "exported" ELSE "done"
  /\ UNCHANGED <<case, imported, again>>

ImportAgain ==
  /\ stage = "exported"
  /\ again' = Import(exported.document, Sources, TRUE)
  /\ stage' = "done"
  /\ UNCHANGED <<case, imported, exported>>

Next == ImportText \/ ExportText \/ ImportAgain
Spec == Init /\ [][Next]_arazzoVars

----------------------------------------------------------------------------
(* What a document asks for, and what is promised.                         *)

\* A parameter of the step stands for the workflow's of the same key.
Effective(w, step) ==
  ToSet(step.parameters)
  \cup {p \in ToSet(w.parameters) : \A q \in ToSet(step.parameters) : ~SameKey(p, q)}

ContentPair(step) == {<<n, ContentType(step)[n]>> : n \in DOMAIN ContentType(step)}

Asked(w, step) ==
  LET at == CHOOSE m \in Matches(step.operation, Sources) : TRUE
      endpoint == Sources[at[1]].endpoints[at[2]]
      ps == Effective(w, step)
      Of(in) == {<<p.name, Translate(p.value)>> : p \in {q \in ps : q.in = in}}
  IN [method |-> endpoint.method, server |-> Sources[at[1]].server,
      path |-> [i \in DOMAIN endpoint.path |->
        IF endpoint.path[i].at # "placeholder" THEN endpoint.path[i]
        ELSE Translate((CHOOSE p \in ps :
               p.in = "path" /\ p.name = endpoint.path[i].path[1]).value)],
      query |-> Of("query"), headers |-> Of("header") \cup ContentPair(step),
      cookie |-> Of("cookie"),
      body |-> IF step.body.payload = None THEN None ELSE Translate(step.body.payload)]

Sent(step) ==
  [method |-> step.method, server |-> step.url.server, path |-> step.url.path,
   query |-> ToSet(step.url.query),
   headers |-> {<<n, step.headers[n]>> : n \in DOMAIN step.headers},
   cookie |-> ToSet(step.cookie), body |-> step.body]

\* What the adapter is known to lose without a word: all cookies but one, path
\* parameters that are left out or whose names begin alike, references inside
\* a text, names with dots, and a content type without a body or in a header.
Lost(w, step) ==
  LET at == CHOOSE m \in Matches(step.operation, Sources) : TRUE
      ps == Effective(w, step)
      names == {p.name : p \in {q \in ps : q.in = "path"}}
      path == Sources[at[1]].endpoints[at[2]].path
  IN \/ Cardinality({p \in ps : p.in = "cookie"}) > 1
     \/ names # {path[i].path[1] : i \in {j \in DOMAIN path : path[j].at = "placeholder"}}
     \/ \E m, n \in names : <<m, n>> \in BeginsWith
     \/ \E p \in ps : p.value.at = "embedded" \/ (p.value.at = "inputs" /\ Len(p.value.path) > 1)
     \/ \E n \in DOMAIN step.outputs : \E k \in ToSet(step.outputs[n].of) : Len(k) > 1
     \/ step.body.type # None /\ step.body.payload = None
     \/ \E p \in ps : p.in = "header" /\ p.name = "Content-Type"

Kept(d) == \A w \in ToSet(d.workflows) : \A step \in ToSet(w.steps) : ~Lost(w, step)

Comparable(flows) ==
  [i \in DOMAIN flows |-> [k \in DOMAIN flows[i].steps |->
     LET s == flows[i].steps[k] IN
     <<s.id, Sent(s), s.assertions, s.extract, s.timeout,
       IF s.retry = None \/ s.retry.max = 0 THEN None ELSE s.retry>>]]

\* An Arazzo document is refused, or its workflows send what it asks for, with
\* a step's parameters before the workflow's, and have every step of it; and what the adapter exports is
\* read back as the same workflow.
ArazzoIsFaithful ==
  /\ (imported # None /\ imported.errors = {}) =>
       \A w \in ToSet(imported.flows) : IsWorkflowDefinition(w)
  /\ (imported # None /\ imported.errors = {} /\ Kept(Document)) =>
       \A i \in DOMAIN Document.workflows :
         \A k \in DOMAIN Document.workflows[i].steps :
           Sent(imported.flows[i].steps[k])
             = Asked(Document.workflows[i], Document.workflows[i].steps[k])
  /\ (again # None /\ Kept(Document)) =>
       again.errors = {} /\ Comparable(again.flows) = Comparable(Edited(imported.flows))
=============================================================================
