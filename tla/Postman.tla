------------------------------- MODULE Postman -------------------------------
(***************************************************************************)
(* Postman collections (packages/adapters/postman): a v2.1 document or a   *)
(* v3 bundle of files becomes endpoints and, beside them, the execution    *)
(* model, which keeps what endpoints cannot say.  The files of a bundle    *)
(* are stored before the version that refers to them                       *)
(* (modules/import/import.service.ts).                                     *)
(*                                                                         *)
(* A text is a sequence of parts, <<"text", t>> or <<"variable", name>>.   *)
(* An item is a request, a folder (its items are not None) or both.        *)
(***************************************************************************)
EXTENDS Integers, FiniteSetsExt, SequencesExt

CONSTANTS PostmanInputs, None

VARIABLES
  document,   \* [format, ...]: what is imported, and with which options
  result,     \* the answer of the import, None before it
  objects,    \* the object store: contents, and manifests of bundles
  row         \* the row of api_versions, None before it

----------------------------------------------------------------------------
(* Variables.                                                              *)

Enabled(entries) == SelectSeq(entries, LAMBDA e : ~e.disabled)
Keys(entries) == {entries[i].key : i \in DOMAIN entries}
LastValue(entries, k) ==
  entries[CHOOSE i \in DOMAIN entries : entries[i].key = k /\
            \A j \in i + 1..Len(entries) : entries[j].key # k].value
AsMap(entries) == [k \in Keys(Enabled(entries)) |-> LastValue(Enabled(entries), k)]

\* resolveVariables: the environment is written over the collection.
ScopeCollectionLast(collection, environment) == AsMap(environment \o collection)
Scope(collection, environment) == AsMap(collection \o environment)

Dynamic == {"$guid"}
VariablesOf(text) == {text[i][2] : i \in {j \in DOMAIN text : text[j][1] = "variable"}}

\* expandTemplate: a value is not expanded again.
Expand(text, scope) ==
  FlattenSeq([i \in DOMAIN text |->
    IF text[i][1] = "variable" /\ text[i][2] \notin Dynamic /\ text[i][2] \in DOMAIN scope
    THEN scope[text[i][2]] ELSE <<text[i]>>])

ExpandValues(entries, scope) ==
  [i \in DOMAIN entries |-> [entries[i] EXCEPT !.value = Expand(@, scope)]]
ExpandRequest(r, scope) ==
  [r EXCEPT !.url.host = Expand(@, scope),
            !.url.path = [i \in DOMAIN @ |-> Expand(@[i], scope)],
            !.url.query = ExpandValues(@, scope),
            !.url.variable = ExpandValues(@, scope),
            !.headers = ExpandValues(@, scope)]

\* Every text of a request in which variables are replaced.
Texts(r) ==
  {r.url.host} \cup ToSet(r.url.path)
  \cup {e.value : e \in ToSet(r.url.query) \cup ToSet(r.url.variable) \cup ToSet(r.headers)}

----------------------------------------------------------------------------
(* Endpoints.                                                              *)

\* flattenItems: the requests in their order, each under its folders.  What
\* stands below a request is not looked at.
RECURSIVE FlattenItems(_, _)
FlattenItems(items, tags) ==
  FlattenSeq([i \in DOMAIN items |->
    CASE items[i].request # None -> <<[item |-> items[i], tags |-> tags]>>
      [] items[i].items # None -> FlattenItems(items[i].items, Append(tags, items[i].name))
      [] OTHER -> <<>>])

\* buildPath: the segments of a URL object; else what the text has behind its
\* host, if that is known.  In a URL that is parsed, {{x}} is percent-encoded.
Encoded(text) ==
  [i \in DOMAIN text |-> IF text[i][1] = "variable" THEN <<"encoded", text[i][2]>> ELSE text[i]]
BuildPath(url) ==
  CASE ~url.text /\ url.path # <<>> -> url.path
    [] VariablesOf(url.host) = {} -> [i \in DOMAIN url.path |-> Encoded(url.path[i])]
    [] OTHER -> <<>>

EndpointId(r) == <<r.method, BuildPath(r.url)>>

IsContentType(h) == h.key = "content-type"
Parameters(in, entries) ==
  [i \in DOMAIN entries |-> [in |-> in, name |-> entries[i].key, example |-> entries[i].value]]
ParametersOf(r) ==
  (IF r.url.text THEN <<>>
   ELSE Parameters("query", Enabled(r.url.query)) \o Parameters("path", r.url.variable))
  \o Parameters("header", SelectSeq(Enabled(r.headers), LAMBDA h : ~IsContentType(h)))

MediaType(headers) ==
  LET types == SelectSeq(Enabled(headers), IsContentType) IN
  IF types = <<>> \/ types[1].value = <<>> THEN "application/json" ELSE types[1].value

\* mapRequestBody.
UnsupportedModes == {"file", "graphql"}
BodyOf(r) ==
  CASE r.body = None \/ r.body.mode \in UnsupportedModes \cup {"none"} -> None
    [] r.body.mode = "raw" -> [media |-> MediaType(r.headers), example |-> r.body.raw]
    [] OTHER -> [media |-> r.body.mode, example |-> AsMap(r.body.fields)]
BodyDiagnostics(r) ==
  IF r.body # None /\ r.body.mode \in UnsupportedModes THEN {"UNSUPPORTED_BODY_MODE"} ELSE {}

ResponsesOf(responses) ==
  [i \in DOMAIN responses |->
    [status |-> responses[i].code,
     media |-> IF responses[i].body THEN MediaType(responses[i].headers) ELSE None,
     headers |-> Keys(Enabled(responses[i].headers))]]

\* matchLine: of the calls in a line, the first pattern in this order.  That
\* the line is a comment makes no difference.
Patterns ==
  <<"status", "ok", "accepted", "clientError", "header", "latency", "jsonBody",
    "eql", "property", "body", "json">>
Match(line) ==
  LET found == SelectSeq(Patterns, LAMBDA p : p \in line) IN
  IF found = <<>> THEN None ELSE found[1]

TestLines(events) ==
  FlattenSeq([i \in DOMAIN events |->
    IF events[i].disabled \/ events[i].listen # "test" THEN <<>> ELSE events[i].lines])
Assertions(events) ==
  LET lines == SelectSeq(TestLines(events), LAMBDA l : Match(l) # None) IN
  [i \in DOMAIN lines |-> Match(lines[i])]
RawScripts(events) == SelectSeq(TestLines(events), LAMBDA l : Match(l) = None)

Methods == {"GET", "POST", "PUT", "PATCH", "DELETE", "HEAD", "OPTIONS"}

\* mapToEndpoint, with the assertions of the item.
MapToEndpoint(flat, scope) ==
  LET r == ExpandRequest(flat.item.request, scope) IN
  [id |-> EndpointId(r), tags |-> flat.tags, parameters |-> ParametersOf(r),
   body |-> BodyOf(r), responses |-> ResponsesOf(flat.item.responses),
   assertions |-> Assertions(flat.item.events), raw |-> RawScripts(flat.item.events)]

\* mapWorkflowHints: the ids of each folder, folders in the order in which
\* their first requests stand.
WorkflowHints(flats, scope) ==
  LET inside == SelectSeq(flats, LAMBDA f : f.tags # <<>>)
      firsts == {i \in DOMAIN inside : \A j \in 1..i - 1 : inside[j].tags # inside[i].tags}
      order == SetToSortSeq(firsts, <)
      Of(tags) == SelectSeq(inside, LAMBDA f : f.tags = tags)
  IN [k \in DOMAIN order |->
       [name |-> inside[order[k]].tags,
        steps |-> [i \in DOMAIN Of(inside[order[k]].tags) |->
          EndpointId(ExpandRequest(Of(inside[order[k]].tags)[i].item.request, scope))]]]

----------------------------------------------------------------------------
(* Auth.  importPostmanCollection asks mapAuth for the collection's only.  *)

AuthTypes == {"apikey", "basic", "bearer", "digest", "hawk", "ntlm", "oauth1", "oauth2", "awsv4"}

Effective(item, collection) == IF item # None THEN item ELSE collection

SchemeOf(auth) ==
  CASE auth.type \in {"oauth1", "oauth2"} ->
         [type |-> "oauth2", in |-> None,
          flow |-> IF auth.type = "oauth1" THEN "oauth1" ELSE "authorizationCode"]
    [] auth.type \in {"apikey", "awsv4"} ->
         [type |-> "apiKey", flow |-> None,
          in |-> IF auth.type = "apikey" /\ auth.in = "query" THEN "query" ELSE "header"]
    [] OTHER -> [type |-> "http", in |-> None, flow |-> None]

MapAuth(item, collection) ==
  LET auth == Effective(item, collection) IN
  CASE auth = None -> [schemes |-> {}, diagnostics |-> {}]
    [] auth.type = "noauth" -> [schemes |-> {}, diagnostics |-> {}]
    [] auth.type \notin AuthTypes -> [schemes |-> {}, diagnostics |-> {"UNSUPPORTED_AUTH_TYPE"}]
    [] OTHER -> [schemes |-> {[id |-> auth.type, scheme |-> SchemeOf(auth)]}, diagnostics |-> {}]

----------------------------------------------------------------------------
(* The execution model of a v2.1 document.                                 *)

Scripts(events, scope, path) ==
  [i \in DOMAIN events |->
    [scope |-> scope, path |-> path, listen |-> events[i].listen,
     disabled |-> events[i].disabled, source |-> events[i].lines]]

\* visit: a folder hands its scripts down, a request that has items does not.
RECURSIVE Visit(_, _, _)
Visit(items, parent, inherited) ==
  FlattenSeq([i \in DOMAIN items |->
    LET item == items[i]
        path == Append(parent, item.name)
        down == IF item.request # None THEN inherited
                ELSE inherited \o Scripts(item.events, "folder", path)
    IN (IF item.request = None THEN <<>> ELSE
        <<[path |-> path, request |-> item.request,
           auth |-> IF item.request.auth # None THEN item.request.auth ELSE item.auth,
           variables |-> item.variables,
           scripts |-> down \o Scripts(item.events, "request", path),
           examples |-> item.responses]>>)
       \o (IF item.items = None THEN <<>> ELSE Visit(item.items, path, down))])

ExecutionModel(c) ==
  [requests |-> Visit(c.items, <<>>, <<>>), variables |-> c.variables, auth |-> c.auth,
   scripts |-> Scripts(c.events, "collection", <<>>), resources |-> <<>>]

----------------------------------------------------------------------------
(* The import of a collection.                                             *)

\* parseCollection.
ShapeError(c) ==
  CASE c.text # "object" -> "PARSE_ERROR"
    [] c.old -> "UNSUPPORTED_VERSION"
    [] ~c.schema -> "INVALID_COLLECTION"
    [] c.items = None -> "EMPTY_COLLECTION"
    [] OTHER -> None

Failure(diagnostics, execution) ==
  [success |-> FALSE, diagnostics |-> diagnostics, execution |-> execution]

\* CanonicalApiModelSchema: what the model it would return must not hold.
IsInvalid(c, requests) ==
  \/ ~c.semver
  \/ \E r \in requests : r.request.method \notin Methods \cup {"QUERY"}
  \/ \E r \in requests : \E i \in DOMAIN r.responses : r.responses[i].code \notin 100..599

ImportCollection(c, environment, options) ==
  LET scope == Scope(c.variables, environment)
      all == FlattenItems(c.items, <<>>)
      flats == IF options.foldersToTags THEN all
               ELSE [i \in DOMAIN all |-> [all[i] EXCEPT !.tags = <<>>]]
      auth == IF options.importAuth THEN MapAuth(None, c.auth)
              ELSE [schemes |-> {}, diagnostics |-> {}]
      left == UNION {VariablesOf(t) : t \in UNION {Texts(flats[i].item.request) : i \in DOMAIN flats}}
      warnings ==
        (IF c.name THEN {} ELSE {"MISSING_NAME"}) \cup auth.diagnostics
        \cup UNION {BodyDiagnostics(flats[i].item.request) : i \in DOMAIN flats}
        \cup (IF \E i \in DOMAIN flats : flats[i].item.request.method \notin Methods
              THEN {"UNSUPPORTED_HTTP_METHOD"} ELSE {})
  IN CASE ShapeError(c) # None -> Failure({ShapeError(c)}, None)
       [] IsInvalid(c, {flats[i].item : i \in DOMAIN flats}) ->
            Failure(warnings \cup {"VALIDATION_ERROR"}, ExecutionModel(c))
       [] OTHER ->
          [success |-> TRUE, diagnostics |-> warnings,
           execution |-> ExecutionModel(c), schemes |-> auth.schemes,
           endpoints |-> [i \in DOMAIN flats |-> MapToEndpoint(flats[i], scope)],
           hints |-> WorkflowHints(flats, scope),
           dynamic |-> left \cap Dynamic, unresolved |-> left \ (Dynamic \cup DOMAIN scope)]

----------------------------------------------------------------------------
(* A v3 bundle: files with a folder and a name, "place" the rank of their  *)
(* path among all paths.                                                   *)

Files(b) ==
  SelectSeq(b.files, LAMBDA f : f.safe /\ f.text /\ (b.root = "none" \/ f.inside))
OfKind(b, kind) == SelectSeq(Files(b), LAMBDA f : f.kind = kind)

\* Files with an index first, by their indices, then by path.
Before(f, g) ==
  CASE f.index # None /\ g.index # None /\ f.index # g.index -> f.index < g.index
    [] f.index # None /\ g.index = None -> TRUE
    [] f.index = None /\ g.index # None -> FALSE
    [] OTHER -> f.place < g.place
\* A file that is no YAML has no index.
WithIndex(f) == [f EXCEPT !.index = IF f.yaml THEN @ ELSE None]
RequestFiles(b) ==
  LET files == OfKind(b, "request") IN
  SortSeq([i \in DOMAIN files |-> WithIndex(files[i])], Before)

IsRequest(f) == f.yaml /\ f.request.method # None /\ f.request.url # None
Resources(b, kind, f) ==
  SelectSeq(OfKind(b, kind), LAMBDA g : g.folder = f.folder /\ g.name = f.name)
EventsOf(files) ==
  [i \in DOMAIN files |->
    [listen |-> files[i].listen, lines |-> files[i].lines, disabled |-> FALSE]]

ItemOf(b, f) ==
  [name |-> f.name, request |-> f.request, items |-> None, auth |-> None, responses |-> <<>>,
   events |-> EventsOf(Resources(b, "script", f)), variables |-> f.variables]
Folder(name) ==
  [name |-> name, request |-> None, items |-> <<>>, auth |-> None, responses |-> <<>>,
   events |-> <<>>, variables |-> <<>>]

RECURSIVE AddNestedItem(_, _, _)
AddNestedItem(items, folder, item) ==
  IF folder = <<>> THEN Append(items, item)
  ELSE LET at == {i \in DOMAIN items : items[i].name = folder[1] /\ items[i].items # None} IN
       IF at = {}
       THEN Append(items, [Folder(folder[1]) EXCEPT
                             !.items = AddNestedItem(<<>>, Tail(folder), item)])
       ELSE [items EXCEPT ![Min(at)].items = AddNestedItem(@, Tail(folder), item)]

BundleErrors(b) ==
  (IF \E f \in ToSet(b.files) : ~f.safe THEN {"POSTMAN_V3_INVALID_PATH"} ELSE {})
  \cup (IF \E f \in ToSet(b.files) : f.safe /\ ~f.text THEN {"POSTMAN_V3_INVALID_FILE"} ELSE {})
  \cup (IF Files(b) = <<>> THEN {"POSTMAN_V3_EMPTY_BUNDLE"} ELSE
        (IF \E f \in ToSet(OfKind(b, "definition") \o OfKind(b, "request")) : ~f.yaml
         THEN {"POSTMAN_V3_YAML_PARSE_ERROR"} ELSE {})
        \cup (IF \E f \in ToSet(OfKind(b, "request")) : f.yaml /\ ~IsRequest(f)
              THEN {"POSTMAN_V3_INVALID_REQUEST"} ELSE {})
        \cup (IF OfKind(b, "request") = <<>> THEN {"POSTMAN_V3_EMPTY_COLLECTION"} ELSE {}))

\* parsePostmanV3Bundle: the collection that stands for the bundle.
CollectionOf(b) ==
  LET definition == OfKind(b, "definition")
      Add(items, f) == AddNestedItem(items, f.folder, ItemOf(b, f))
  IN [text |-> "object", old |-> FALSE, schema |-> TRUE, name |-> TRUE, semver |-> TRUE,
      items |-> FoldLeft(Add, <<>>, SelectSeq(RequestFiles(b), IsRequest)),
      auth |-> IF definition = <<>> THEN None ELSE definition[1].auth,
      variables |-> IF definition = <<>> THEN <<>> ELSE definition[1].variables,
      events |-> EventsOf(OfKind(b, "collection script"))]

ExecutionOfBundle(b) ==
  LET requests == SelectSeq(RequestFiles(b), IsRequest) IN
  [requests |-> [i \in DOMAIN requests |->
     LET f == requests[i]  path == Append(f.folder, f.name) IN
     [path |-> path, request |-> f.request, auth |-> f.request.auth,
      variables |-> f.variables,
      scripts |-> Scripts(EventsOf(Resources(b, "script", f)), "request", path),
      examples |-> Resources(b, "example", f)]],
   variables |-> CollectionOf(b).variables, auth |-> CollectionOf(b).auth,
   scripts |-> Scripts(CollectionOf(b).events, "collection", <<>>), resources |-> Files(b)]

\* importPostmanCollectionV3.
ImportBundle(b, options) ==
  CASE b.root = "unsafe" -> Failure({"POSTMAN_V3_INVALID_ROOT"}, None)
    [] Files(b) = <<>> -> Failure(BundleErrors(b), None)
    [] BundleErrors(b) # {} -> Failure(BundleErrors(b), ExecutionOfBundle(b))
    [] OTHER -> [ImportCollection(CollectionOf(b), <<>>, options) EXCEPT
                   !.execution = ExecutionOfBundle(b)]

\* importPostmanEnvironment: nothing but the variables that are enabled.
EnvironmentError(e) ==
  CASE e.text # "object" -> "PARSE_ERROR"
    [] ~e.name \/ e.values = None -> "INVALID_ENVIRONMENT"
    [] OTHER -> None
ImportEnvironment(e) ==
  IF EnvironmentError(e) # None THEN Failure({EnvironmentError(e)}, None)
  ELSE [success |-> TRUE, diagnostics |-> {}, variables |-> AsMap(e.values)]

Init ==
  /\ document \in PostmanInputs /\ result = None
  /\ objects = {} /\ row = None

Import ==
  /\ result = None
  /\ result' = CASE document.format = "v2" ->
                 ImportCollection(document.collection, document.environment, document.options)
               [] document.format = "environment" -> ImportEnvironment(document.file)
               [] OTHER -> ImportBundle(document.bundle, document.options)
  /\ UNCHANGED <<document, objects, row>>

(* importPostmanV3Bundle: the files, all at once, then the manifest, then  *)
(* the row.  The process may end between any two of them.                  *)

\* The same content in two files is one object.
ContentOf(f) == [f EXCEPT !.kind = None, !.folder = None, !.name = None, !.place = None]
Manifest(b) == [files |-> {[file |-> f, content |-> ContentOf(f)] : f \in ToSet(Files(b))}]

Accepted == result # None /\ result.success /\ document.format = "v3"

PutResource ==
  /\ Accepted
  /\ \E f \in ToSet(Files(document.bundle)) :
       ContentOf(f) \notin objects /\ objects' = objects \cup {ContentOf(f)}
  /\ UNCHANGED <<document, result, row>>

AllStored(b) == \A f \in ToSet(Files(b)) : ContentOf(f) \in objects

PutManifest ==
  /\ Accepted /\ AllStored(document.bundle)
  /\ Manifest(document.bundle) \notin objects
  /\ objects' = objects \cup {Manifest(document.bundle)}
  /\ UNCHANGED <<document, result, row>>

\* redactScriptSources: the places of scripts without their sources.
WithoutSources(scripts) ==
  [i \in DOMAIN scripts |-> [scripts[i] EXCEPT !.source = None]]
ExecutionMetadata(execution) ==
  [execution EXCEPT
     !.scripts = WithoutSources(@),
     !.requests = [i \in DOMAIN @ |-> [@[i] EXCEPT !.scripts = WithoutSources(@)]],
     !.resources = Manifest(document.bundle)]

InsertVersion ==
  /\ row = None /\ Accepted /\ Manifest(document.bundle) \in objects
  /\ row' = [source |-> Manifest(document.bundle),
             execution |-> ExecutionMetadata(result.execution)]
  /\ UNCHANGED <<document, result, objects>>

Next == Import \/ PutResource \/ PutManifest \/ InsertVersion

----------------------------------------------------------------------------
(* What a collection says.                                                 *)

EnvironmentOf == IF document.format = "v2" THEN document.environment ELSE <<>>
VariablesIn ==
  IF document.format = "v2" THEN document.collection.variables
  ELSE CollectionOf(document.bundle).variables

\* The value a variable has: the last enabled one of the environment, else of
\* the collection, else the variable stays as it is written.
Given(entries, name) == {i \in DOMAIN entries : entries[i].key = name /\ ~entries[i].disabled}
Meant(part) ==
  CASE part[1] # "variable" \/ part[2] \in Dynamic -> <<part>>
    [] Given(EnvironmentOf, part[2]) # {} ->
         EnvironmentOf[Max(Given(EnvironmentOf, part[2]))].value
    [] Given(VariablesIn, part[2]) # {} -> VariablesIn[Max(Given(VariablesIn, part[2]))].value
    [] OTHER -> <<part>>
MeantText(text) == FlattenSeq([i \in DOMAIN text |-> Meant(text[i])])

\* An endpoint says what its request says: the path, unless the request is a
\* text whose host is unknown, and every enabled header and query parameter.
SaysParameters(e, in, entries) ==
  \A i \in DOMAIN entries :
    (~entries[i].disabled /\ ~(in = "header" /\ IsContentType(entries[i]))) =>
      \E p \in ToSet(e.parameters) :
        p.in = in /\ p.name = entries[i].key /\ p.example = MeantText(entries[i].value)
Says(e, r) ==
  /\ e.id[1] = r.method
  /\ (~r.url.text \/ VariablesOf(MeantText(r.url.host)) = {}) =>
       /\ Len(e.id[2]) = Len(r.url.path)
       /\ \A i \in DOMAIN r.url.path :
            (VariablesOf(MeantText(r.url.path[i])) = {} \/ ~r.url.text) =>
              e.id[2][i] = MeantText(r.url.path[i])
  /\ SaysParameters(e, "header", r.headers)
  /\ ~r.url.text => SaysParameters(e, "query", r.url.query)

\* Variables that are left in an endpoint, and were reported.
Left(e) ==
  UNION ({VariablesOf(e.id[2][i]) : i \in DOMAIN e.id[2]}
         \cup {VariablesOf(p.example) : p \in ToSet(e.parameters)})

\* The hints: every endpoint that has a folder, in its order, with its folder.
HintsAreOrdered ==
  LET inside == SelectSeq(result.endpoints, LAMBDA e : e.tags # <<>>) IN
  /\ \A i \in DOMAIN inside : \E h \in ToSet(result.hints) : h.name = inside[i].tags
  /\ \A h \in ToSet(result.hints) :
       LET own == SelectSeq(result.endpoints, LAMBDA e : e.tags = h.name) IN
       h.steps = [i \in DOMAIN own |-> own[i].id]

\* v2.1: the item at a path, and the scripts of a request: those of the
\* folders around it, the outermost first, then its own.
RECURSIVE ItemAt(_, _)
ItemAt(items, path) ==
  LET item == items[CHOOSE i \in DOMAIN items : items[i].name = path[1]] IN
  IF Len(path) = 1 THEN item ELSE ItemAt(item.items, Tail(path))
ScriptsAround(c, path) ==
  LET Of(n) == LET item == ItemAt(c.items, SubSeq(path, 1, n)) IN
               IF n < Len(path) /\ item.request # None THEN <<>>
               ELSE [i \in DOMAIN item.events |-> <<SubSeq(path, 1, n), item.events[i].lines>>]
  IN FlattenSeq([n \in DOMAIN path |-> Of(n)])
CollectionIsKept(c) ==
  LET requests == result.execution.requests
      outer == SelectSeq(requests, LAMBDA r :
                 ~\E q \in ToSet(requests) : Len(q.path) < Len(r.path) /\ IsPrefix(q.path, r.path))
  IN /\ Len(result.endpoints) = Len(outer)
     /\ \A i \in DOMAIN outer :
          /\ Says(result.endpoints[i], outer[i].request)
          /\ document.options.foldersToTags =>
               result.endpoints[i].tags = Front(outer[i].path)
     /\ \A r \in ToSet(requests) :
          [i \in DOMAIN r.scripts |-> <<r.scripts[i].path, r.scripts[i].source>>] =
            ScriptsAround(c, r.path)

\* v3: the requests in the order of their indices, those without one last;
\* each an endpoint of its folder, with the scripts of its own directory.
BundleIsKept(b) ==
  LET requests == result.execution.requests
      FileAt(path) == CHOOSE f \in ToSet(OfKind(b, "request")) : Append(f.folder, f.name) = path
      IndexAt(i) == FileAt(requests[i].path).index
  IN /\ Len(requests) = Len(OfKind(b, "request"))
     /\ Len(result.endpoints) = Len(requests)
     /\ \A i, j \in DOMAIN requests :
          (i < j /\ IndexAt(j) # None) => IndexAt(i) # None /\ IndexAt(i) <= IndexAt(j)
     /\ \A r \in ToSet(requests) :
          /\ \E e \in ToSet(result.endpoints) :
               /\ document.options.foldersToTags => e.tags = FileAt(r.path).folder
               /\ Says(e, r.request)
          /\ {s.source : s \in ToSet(r.scripts)} =
               {f.lines : f \in {g \in ToSet(OfKind(b, "script")) :
                                   Append(g.folder, g.name) = r.path}}

\* A manifest, and with it a row, is there only if all its files are, and the
\* row names every script and holds no source of any.
BundleIsStored ==
  /\ \A o \in objects : "files" \in DOMAIN o => \A p \in o.files : p.content \in objects
  /\ row # None =>
       /\ row.source \in objects /\ row.execution.resources = row.source
       /\ Len(row.execution.requests) = Len(result.execution.requests)
       /\ \A i \in DOMAIN row.execution.requests :
            LET scripts == row.execution.requests[i].scripts IN
            /\ DOMAIN scripts = DOMAIN result.execution.requests[i].scripts
            /\ \A k \in DOMAIN scripts : scripts[k].source = None
       /\ \A k \in DOMAIN row.execution.scripts : row.execution.scripts[k].source = None

\* What an accepted collection or bundle says is said again by its endpoints,
\* with every known variable replaced and the others reported, and by its
\* execution model, whose scripts and order are those of the source; and what
\* is stored of a bundle is all of it.
PostmanIsFaithful ==
  /\ BundleIsStored
  /\ (result # None /\ result.success /\ document.format = "environment") =>
       \A k \in {document.file.values[i].key : i \in DOMAIN document.file.values} :
         k \in DOMAIN result.variables <=> Given(document.file.values, k) # {}
  /\ (result # None /\ result.success /\ document.format # "environment") =>
       /\ \A e \in ToSet(result.endpoints) :
            Left(e) \subseteq result.dynamic \cup result.unresolved
       /\ HintsAreOrdered
       /\ IF document.format = "v2" THEN CollectionIsKept(document.collection)
          ELSE BundleIsKept(document.bundle)
=============================================================================
