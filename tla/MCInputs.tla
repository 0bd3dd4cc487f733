------------------------------ MODULE MCInputs ------------------------------
(***************************************************************************)
(* The documents, repositories, rows and answers that the parts of         *)
(* MCServices are given: for each kind one, and those that differ from it  *)
(* in one or two places.                                                   *)
(***************************************************************************)
EXTENDS Integers, Sequences, TLC

CONSTANT None

(***************************************************************************)
(* OpenAPI documents for ApiImport: one document, and those that differ    *)
(* from it in their servers, in their parameters, in the schemas they      *)
(* have, in their operations, in what is a reference or in what the        *)
(* adapter refuses.                                                        *)
(***************************************************************************)

Raw(kind, type, parts) ==
  [kind |-> kind, type |-> type, parts |-> parts, required |-> {}, exclusive |-> FALSE]
Ref == [Raw("ref", None, <<>>) EXCEPT !.required = {}] @@ [to |-> <<"Item">>]
Text == Raw("schema", "string", <<>>)
Nullable == Raw("schema", "string|null", <<>>)
Bare == Raw("plain", None, <<>>)
Anything == Raw("boolean", None, <<>>)
Never == Raw("false", None, <<>>)
ObjectOf(part) ==
  [Raw("schema", "object", <<"properties", "a">> :> part) EXCEPT !.required = {"a"}]
ArrayOf(part) == Raw("schema", "array", <<"items">> :> part)

Atoms == {Ref, Text, Nullable, Bare, Anything, Never, [Text EXCEPT !.exclusive = TRUE]}
RawSchemas == Atoms \cup {ObjectOf(s) : s \in Atoms} \cup {ArrayOf(s) : s \in Atoms}
  \cup {ObjectOf(ArrayOf(Ref)), ArrayOf(ObjectOf(Text)),
        Raw("schema", None, (<<"allOf", "0">> :> Ref) @@ (<<"allOf", "1">> :> ObjectOf(Text)))}

Param(in, name, required, raw) ==
  [in |-> in, name |-> name, required |-> required, raw |-> raw, byRef |-> FALSE]
Media(raw) == [media |-> "json", raw |-> raw]
Response(status, content, headers) ==
  [status |-> status, content |-> content, headers |-> headers, byRef |-> FALSE]
Header(name, raw) == [name |-> name, raw |-> raw, byRef |-> FALSE]
Body(required, content) == [required |-> required, content |-> content, byRef |-> FALSE]
ByRef(part) == [part EXCEPT !.byRef = TRUE]

Operation(parameters, body, responses) ==
  [servers |-> None, parameters |-> parameters, body |-> body, responses |-> responses,
   streams |-> FALSE]

Document ==
  [version |-> "3.1.0", defects |-> {}, webhooks |-> FALSE, servers |-> None,
   hops |-> <<[host |-> "here", status |-> "ok", large |-> FALSE]>>,
   pathServers |-> ("/q" :> None) @@ ("/p/{x}" :> None),
   pathParameters |-> ("/q" :> <<>>) @@
                      ("/p/{x}" :> <<Param("path", "x", TRUE, Text)>>),
   operations |->
     (<<"/q", "get">> :> Operation(<<Param("query", "n", FALSE, Text)>>, None,
                                   <<Response("200", <<Media(Ref)>>, <<>>)>>)) @@
     (<<"/p/{x}", "post">> :>
        Operation(<<>>, Body(FALSE, <<Media(ObjectOf(Ref))>>),
                  <<Response("200", <<>>, <<Header("h", Text)>>)>>)),
   additional |-> {}, security |-> {}, exoticSecurity |-> {"exotic"},
   schemas |-> "Item" :> Text]

Q == <<"/q", "get">>
P == <<"/p/{x}", "post">>

WithOperation(o, operation) == [Document EXCEPT !.operations = (o :> operation) @@ @]

ServerVariants ==
  {[Document EXCEPT !.servers = s, !.pathServers["/q"] = p, !.pathServers["/p/{x}"] = r,
                    !.operations[Q].servers = q] :
     s, p, q, r \in {None, "s", "t"}}
  \cup {[Document EXCEPT !.servers = ""]}
  \cup {[[WithOperation(<<"/q", m>>, Document.operations[Q])
            EXCEPT !.operations[<<"/q", m>>].servers = q]
            EXCEPT !.version = "3.2.0", !.servers = s] :
          m \in {"query", "trace"}, q, s \in {None, "s"}}

ParameterVariants ==
  {[Document EXCEPT !.operations[Q].parameters = ps, !.pathParameters["/q"] = qs] :
     ps \in {<<>>} \cup {<<Param("query", "n", r, s)>> : r \in BOOLEAN, s \in {None, Ref, Text}}
            \cup {<<Param("header", "n", TRUE, Text), Param("query", "n", FALSE, Ref)>>,
                  <<Param("query", "m", TRUE, Text), Param("query", "n", FALSE, Text)>>,
                  <<Param("query", "n[]", FALSE, Text)>>,
                  <<Param("querystring", "n", FALSE, Text)>>},
     qs \in {<<>>, <<Param("query", "n", TRUE, ObjectOf(Text))>>}}

SchemaVariants ==
  {[Document EXCEPT !.schemas = "Item" :> s] : s \in RawSchemas}
  \cup {[Document EXCEPT !.operations[P].body.content = <<Media(s)>>] : s \in RawSchemas}
  \cup {[Document EXCEPT !.operations[P].responses =
           <<Response("200", <<Media(s), [media |-> "xml", raw |-> Text]>>,
                      <<Header("h", Ref)>>),
             Response("404", <<>>, <<Header(h, s)>>)>>] :
          s \in RawSchemas, h \in {"h", "i"}}

ContractVariants ==
  {[Document EXCEPT !.operations[P].body = b] :
     b \in {None, Body(TRUE, <<>>)}}
  \cup {[Document EXCEPT !.operations[Q].responses = rs] :
          rs \in {<<>>, <<Response("200", <<>>, <<>>), Response("404", <<>>, <<>>)>>,
                  <<Response("default", <<>>, <<>>)>>}}
  \cup {[Document EXCEPT !.defects = {d}] : d \in {"EXTERNAL_REFERENCE", "SYNTAX", "STANDARD"}}
  \cup {[Document EXCEPT !.operations = Q :> @[Q]], [Document EXCEPT !.operations = <<>>],
        WithOperation(<<"/q", "query">>, Document.operations[Q]),
        WithOperation(<<"/q", "trace">>, Document.operations[Q]),
        WithOperation(<<"/q", "put">>, [Document.operations[Q] EXCEPT !.streams = TRUE]),
        WithOperation(<<"/q", "put">>, Document.operations[Q]),
        [Document EXCEPT !.additional = {"COPY"}],
        [Document EXCEPT !.webhooks = TRUE, !.security = {"bearer", "exotic"}],
        [Document EXCEPT !.hops = <<[host |-> "here", status |-> "redirect", large |-> FALSE],
                                    [host |-> "there", status |-> "ok", large |-> FALSE]>>]}

ReferenceVariants ==
  {[Document EXCEPT !.operations[P].body = ByRef(Body(r, <<Media(Text)>>)),
                    !.operations[P].responses = <<Response("200", <<>>, <<h>>)>>] :
     r \in BOOLEAN, h \in {Header("h", Text), ByRef(Header("h", Text)), Header("h", Never)}}
  \cup {[Document EXCEPT !.operations[Q].responses = <<ByRef(Response("200", <<Media(Ref)>>, <<>>))>>],
        [Document EXCEPT !.operations[Q].parameters = <<ByRef(Param("query", "n", TRUE, Text)),
                                                        ByRef(Param("query", "m", TRUE, Text))>>],
        [Document EXCEPT !.pathParameters["/q"] = <<ByRef(Param("query", "m", TRUE, Text))>>],
        WithOperation(<<"/q", "$ref">>, Document.operations[Q])}

Variants == ReferenceVariants \cup ServerVariants \cup ParameterVariants \cup SchemaVariants \cup ContractVariants

DocumentPairs ==
  ({Document} \X Variants) \cup (ReferenceVariants \X ReferenceVariants)
  \cup (ParameterVariants \X ParameterVariants)
  \cup (ContractVariants \X ContractVariants) \cup {<<v, Document>> : v \in ServerVariants}

RawPathNormalized == ("/q" :> <<"q">>) @@ ("/p/{x}" :> <<"p", ":x">>)
MediaTypeKey == ("json" :> "json") @@ ("xml" :> "xml")

-----------------------------------------------------------------------------
(***************************************************************************)
(* Postman imports: a collection of a folder in a folder and a request     *)
(* beside them, with every form of its inner request, and v3 bundles of    *)
(* two requests and their files.                                           *)
(***************************************************************************)

Word(t) == <<<<"text", t>>>>
Variable(name) == <<<<"variable", name>>>>
Entry(key, value) == [key |-> key, value |-> value, disabled |-> FALSE]
Off(entry) == [entry EXCEPT !.disabled = TRUE]

Url == [text |-> FALSE, host |-> Variable("host"), path |-> <<Word("a"), Variable("id")>>,
        query |-> <<>>, variable |-> <<>>]
PlainRequest ==
  [method |-> "GET", url |-> Url, headers |-> <<>>, body |-> None, auth |-> None]
Item(name, request, items) ==
  [name |-> name, request |-> request, items |-> items, auth |-> None,
   responses |-> <<>>, events |-> <<>>, variables |-> <<>>]
Event(line) == [listen |-> "test", disabled |-> FALSE, lines |-> <<line, {}>>]

\* "out" holds a folder "in" of one request, "top" stands beside it.
Tree(inner, outEvents, inEvents) ==
  <<[Item("out", None,
       <<[Item("in", None, <<inner>>) EXCEPT !.events = inEvents],
         Item("next", [PlainRequest EXCEPT !.method = "PUT"], None)>>) EXCEPT !.events = outEvents],
    Item("top", [PlainRequest EXCEPT !.url.path = <<Word("top")>>], None)>>
Collection(items) ==
  [text |-> "object", old |-> FALSE, schema |-> TRUE, name |-> TRUE, semver |-> TRUE,
   items |-> items, auth |-> None, variables |-> <<>>, events |-> <<>>]
Options == [foldersToTags |-> TRUE, importAuth |-> TRUE]
V2(collection) ==
  [format |-> "v2", collection |-> collection, environment |-> <<>>, options |-> Options]

Own(request) == Item("own", request, None)
Plain == Collection(Tree(Own(PlainRequest), <<>>, <<>>))

\* The variables of the URL: known, unknown or switched off, in one or both.
Values(name) ==
  {<<>>, <<Entry(name, Word("x"))>>, <<Off(Entry(name, Word("x")))>>,
   <<Entry(name, Word("y")), Off(Entry(name, Word("x"))), Entry(name, Word("z"))>>}
Scopes == Values("host") \cup Values("id")
Urls ==
  {[Url EXCEPT !.text = t, !.path = p, !.query = q, !.variable = v] :
     t \in BOOLEAN, p \in {<<>>, Url.path, <<Variable("$guid")>>},
     q \in {<<>>, <<Entry("q", Variable("id")), Off(Entry("o", Word("1")))>>},
     v \in {<<>>, <<Entry("id", Variable("host"))>>}}
Variables ==
  {[V2(Collection(Tree(Own([PlainRequest EXCEPT !.url = u]), <<>>, <<>>))) EXCEPT
      !.collection.variables = c, !.environment = e] : u \in Urls, c \in Scopes, e \in Scopes}

Bodies ==
  {None} \cup {[mode |-> m, raw |-> Word("b"), fields |-> <<Entry("f", Word("1")), Off(Entry("g", Word("2")))>>] :
                 m \in {"none", "raw", "urlencoded", "formdata", "file", "graphql", "other"}}
HeaderLists ==
  {<<>>, <<Entry("content-type", Word("xml")), Entry("h", Variable("id"))>>,
   <<Off(Entry("content-type", Word("xml"))), Off(Entry("h", Word("1")))>>}
Requests ==
  {[PlainRequest EXCEPT !.method = m, !.headers = h, !.body = b] :
     m \in {"GET", "QUERY", "TRACE"}, h \in HeaderLists, b \in Bodies}

Auths ==
  {None} \cup {[type |-> t, in |-> "header"] :
                 t \in {"noauth", "apikey", "basic", "oauth1", "oauth2", "awsv4", "edgegrid"}}
         \cup {[type |-> "apikey", in |-> "query"]}

EventLists ==
  {<<>>, <<Event({"status"}), [Event({"body", "json"}) EXCEPT !.disabled = TRUE]>>,
   <<[Event({"json"}) EXCEPT !.listen = "prerequest"], Event({"eql", "property"})>>}
Inner ==
  {[Own(PlainRequest) EXCEPT !.events = e, !.items = i] :
     e \in EventLists, i \in {None, <<Item("below", PlainRequest, None)>>}}
  \cup {[Own(PlainRequest) EXCEPT !.responses = <<[code |-> c, body |-> b, headers |-> h]>>] :
          c \in {204, 700}, b \in BOOLEAN, h \in HeaderLists}
  \cup {Item("own", None, None), Item("own", None, <<>>)}
Shapes ==
  {[Plain EXCEPT !.text = t] : t \in {"object", "no JSON"}}
  \cup {[Plain EXCEPT !.old = o, !.schema = s, !.name = n, !.semver = v, !.items = i] :
          o, s, n, v \in BOOLEAN, i \in {None, <<>>, Plain.items}}

(* v3: a request "a" in the folder "f" and a request "b" beside it.        *)
File(kind, folder, name, place) ==
  [kind |-> kind, folder |-> folder, name |-> name, place |-> place, safe |-> TRUE,
   text |-> TRUE, inside |-> TRUE, yaml |-> TRUE, index |-> None, request |-> PlainRequest,
   variables |-> <<>>, auth |-> None, lines |-> <<>>, listen |-> "test"]
TextUrl == [PlainRequest EXCEPT !.url.text = TRUE, !.url.host = Word("h")]
RequestFile(folder, name, place, index) ==
  [File("request", folder, name, place) EXCEPT !.index = index, !.request = TextUrl]
Script(folder, name, line) ==
  [File("script", folder, name, 9) EXCEPT !.lines = <<line>>]
Bundles ==
  {[root |-> r, files |-> <<[RequestFile(<<"f">>, "a", 2, i) EXCEPT !.yaml = y, !.request = q],
                            RequestFile(<<>>, "b", 1, j), RequestFile(<<"f">>, "c", 3, j),
                            Script(<<"f">>, "a", {"status"}), Script(<<>>, "b", {"json"})>> \o more] :
     r \in {"none", "safe", "unsafe"}, i \in {None, 1, 2}, j \in {None, 1}, y \in BOOLEAN,
     q \in {TextUrl, [TextUrl EXCEPT !.method = None]},
     more \in {<<>>, <<[File("definition", <<>>, "definition", 0) EXCEPT
                          !.variables = <<Entry("id", Word("7"))>>]>>,
               <<[File("other", <<>>, "o", 8) EXCEPT !.safe = FALSE]>>,
               <<[File("other", <<>>, "o", 8) EXCEPT !.text = FALSE]>>,
               <<[File("collection script", <<>>, "o", 8) EXCEPT !.inside = FALSE]>>}}
  \cup {[root |-> "none", files |-> files] : files \in {<<>>, <<Script(<<>>, "b", {"json"})>>}}

PostmanImports ==
  Variables
  \cup {V2(Collection(Tree(Own(r), <<>>, <<>>))) : r \in Requests}
  \cup {V2(Collection(Tree(i, o, n))) : i \in Inner, o \in EventLists, n \in EventLists}
  \cup {V2(c) : c \in Shapes}
  \cup {[V2([Plain EXCEPT !.auth = a, !.items = Tree([Own(PlainRequest) EXCEPT !.auth = b], <<>>, <<>>)])
           EXCEPT !.options = o] :
          a \in Auths, b \in Auths, o \in [foldersToTags : BOOLEAN, importAuth : BOOLEAN]}
  \cup {[format |-> "environment", file |-> [text |-> t, name |-> n, values |-> v]] :
          t \in {"object", "no JSON"}, n \in BOOLEAN, v \in {None} \cup Values("id")}
  \cup {[format |-> "v3", bundle |-> b, options |-> [Options EXCEPT !.foldersToTags = t]] :
          b \in Bundles, t \in BOOLEAN}

----------------------------------------------------------------------------
(***************************************************************************)
(* Arazzo documents: one, and those that differ from it in one or two      *)
(* places, with the sources they are imported for and an edit of what was  *)
(* imported.                                                               *)
(***************************************************************************)

NamePrefixes == {<<"idx", "id">>}

ArazzoText(t) == [at |-> "text", path |-> <<t>>]
Place(n) == [at |-> "placeholder", path |-> <<n>>]
Input(path) == [at |-> "inputs", path |-> path]
Output(path) == [at |-> "steps", path |-> path]
Embedded == [at |-> "embedded", path |-> <<"t">>]
ArazzoValues == {ArazzoText("x"), Input(<<"t">>), Input(<<"t", "u">>), Output(<<"a", "o">>), Embedded}

Get == [id |-> "get", method |-> "GET", path |-> <<ArazzoText("users"), Place("id")>>]
Me == [id |-> "me", method |-> "GET", path |-> <<ArazzoText("users"), ArazzoText("me")>>]
Make == [id |-> "make", method |-> "POST", path |-> <<ArazzoText("users")>>]
Two == [id |-> "two", method |-> "GET", path |-> <<Place("idx"), ArazzoText("of"), Place("id")>>]
Nameless == [Make EXCEPT !.id = None, !.method = "PUT"]

Source == [endpoints |-> <<Get, Me, Make, Two, Nameless>>, server |-> "s",
           bound |-> TRUE, url |-> "u", hash |-> "h", model |-> "h"]
Other == [Source EXCEPT !.endpoints = <<Get>>, !.server = "t"]
ArazzoOne == "one" :> Source

Parameter(in, name, value) ==
  [in |-> in, name |-> name, value |-> value, reference |-> FALSE]
ArazzoId == Parameter("path", "id", ArazzoText("x"))

Step ==
  [id |-> "b", kind |-> "operation", depends |-> FALSE, onSuccess |-> FALSE,
   operation |-> [source |-> None, id |-> "get"], parameters |-> <<ArazzoId>>,
   body |-> [payload |-> None, type |-> None, replaces |-> FALSE],
   criteria |-> <<200>>, outputs |-> "o" :> [from |-> "body", of |-> <<<<"k">>, <<"l">>>>],
   onFailure |-> <<>>, timeout |-> None]
FirstStep == [Step EXCEPT !.id = "a", !.operation.id = "make", !.parameters = <<>>,
              !.body.payload = Input(<<"t">>), !.body.type = "json"]
Flow == [id |-> "w", depends |-> FALSE, actions |-> FALSE, parameters |-> <<>>,
         steps |-> <<FirstStep, Step>>]
Description == [name |-> "one", type |-> "openapi", url |-> "u"]
ArazzoPlain == [text |-> "document", version |-> "1.1.0", sources |-> <<Description>>,
          workflows |-> <<Flow>>]

WithStep(step) == [ArazzoPlain EXCEPT !.workflows[1].steps[2] = step]

\* Two parameters of a step under one of its workflow.
ParameterSets ==
  LET some == {Parameter(in, n, v) : in \in {"query", "header", "cookie"},
                                     n \in {"p", "q"}, v \in {ArazzoText("x"), Output(<<"a", "o">>)}}
      pairs == {qr \in some \X some : qr[1].in # qr[2].in \/ qr[1].name # qr[2].name}
  IN {[ArazzoPlain EXCEPT !.workflows[1].parameters = <<p>>,
                    !.workflows[1].steps[2].parameters = <<ArazzoId>> \o qr] :
        p \in some, qr \in pairs}

PathSets ==
  {WithStep([Step EXCEPT !.operation.id = "two", !.parameters = ps]) :
     ps \in {<<ArazzoId>>, <<Parameter("path", "idx", ArazzoText("y"))>>,
             <<ArazzoId, Parameter("path", "idx", ArazzoText("y"))>>,
             <<Parameter("path", "idx", ArazzoText("y")), ArazzoId>>}}
  \cup {WithStep([Step EXCEPT !.operation.id = i, !.parameters = ps]) :
          i \in {"get", "me", "gone"},
          ps \in {<<>>, <<ArazzoId>>, <<[ArazzoId EXCEPT !.value = ArazzoText("me")]>>}}

OddParameters ==
  {[ArazzoId EXCEPT !.in = "querystring"], [ArazzoId EXCEPT !.in = "body"], [ArazzoId EXCEPT !.in = None],
   [ArazzoId EXCEPT !.value = None], [ArazzoId EXCEPT !.reference = TRUE],
   Parameter("header", "Content-Type", ArazzoText("x"))}

Steps ==
  {[Step EXCEPT !.parameters = <<ArazzoId, Parameter("header", "p", v)>>] : v \in ArazzoValues}
  \cup {[Step EXCEPT !.parameters = <<[ArazzoId EXCEPT !.value = v]>>] : v \in ArazzoValues}
  \cup {[Step EXCEPT !.parameters = <<ArazzoId, p>>] : p \in OddParameters}
  \cup {[Step EXCEPT !.kind = k] : k \in {"workflow", "channel", "path", "none"}}
  \cup {[Step EXCEPT !.depends = x, !.onSuccess = y] : x, y \in BOOLEAN}
  \cup {[Step EXCEPT !.operation.source = s] : s \in {"one", "two"}}
  \cup {[Step EXCEPT !.criteria = c] : c \in {<<>>, <<200, 201>>, <<None>>}}
  \cup {[Step EXCEPT !.body = [payload |-> v, type |-> t, replaces |-> r]] :
          v \in {None, Output(<<"a", "o">>)}, t \in {None, "json"}, r \in BOOLEAN}
  \cup {[Step EXCEPT !.outputs["o"] = [from |-> f, of |-> k]] :
          f \in {"body", "header", "status", "object", "other"},
          k \in {<<<<"k">>>>, <<<<"k", "l">>>>}}
  \cup {[Step EXCEPT !.id = i] : i \in {"a b", "c"}}
  \cup {[Step EXCEPT !.onFailure = f, !.timeout = t] : t \in {None, 0, 5, 300001},
          f \in {<<[plain |-> p, limit |-> l, after |-> a]>> :
                   p \in BOOLEAN, l \in {-1, 0, 2, 11}, a \in {-1, 0, 1000, 60001}}}

SourceSets ==
  {"one" :> s : s \in
     {Source, [Source EXCEPT !.server = None], [Source EXCEPT !.bound = FALSE],
      [Source EXCEPT !.hash = "i"], [Source EXCEPT !.url = None],
      [Source EXCEPT !.url = "v"]}}
  \cup {ArazzoOne @@ ("two" :> Other), "two" :> Other}

Documents ==
  {ArazzoPlain, [ArazzoPlain EXCEPT !.text = "INVALID_ARAZZO_SYNTAX"], [ArazzoPlain EXCEPT !.version = "1.0.1"],
   [ArazzoPlain EXCEPT !.sources = <<>>], [ArazzoPlain EXCEPT !.workflows = <<>>],
   [ArazzoPlain EXCEPT !.sources = <<[Description EXCEPT !.type = "asyncapi"]>>],
   [ArazzoPlain EXCEPT !.sources = <<Description, [Description EXCEPT !.name = "two"]>>],
   [ArazzoPlain EXCEPT !.workflows[1].steps = <<>>], [ArazzoPlain EXCEPT !.workflows[1].depends = TRUE],
   [ArazzoPlain EXCEPT !.workflows[1].actions = TRUE], [ArazzoPlain EXCEPT !.workflows = <<Flow, Flow>>],
   [ArazzoPlain EXCEPT !.workflows[1].id = "a b"]}

Nothing == [more |-> {}]
Edits ==
  {Nothing, [kind |-> "test"], [assertions |-> <<None>>], [more |-> {"disabled"}],
   [extract |-> {[name |-> "c", source |-> "cookie", of |-> <<"c">>]}]}

ArazzoCases ==
  {<<d, s, Nothing>> : d \in Documents \cup {WithStep([Step EXCEPT !.operation.source = "one"])},
                       s \in SourceSets}
  \cup {<<d, ArazzoOne, Nothing>> : d \in ParameterSets \cup PathSets}
  \cup {<<WithStep(s), ArazzoOne, e>> : s \in Steps, e \in Edits}

----------------------------------------------------------------------------
(***************************************************************************)
(* RAML documents: one, and those that differ from it in a type, a body, a *)
(* resource, a security scheme or a section.                               *)
(***************************************************************************)

Name(n) == [short |-> n, type |-> None, properties |-> <<>>, items |-> None,
            facets |-> {}, required |-> None]
Type(type) == [Name(None) EXCEPT !.type = type]
Integer == Name("integer")
User == [Type("object") EXCEPT !.properties = ("id" :> Integer) @@ ("at" :> Name("date"))]
List(of) == [Type("array") EXCEPT !.items = of]

\* What stands for a property, or for the items of an array.
RamlInner ==
  {Integer, Name("nil"), Name("User"), Name("User[]"), User, Type("User"), Type("datetime"),
   [Type("string") EXCEPT !.required = FALSE, !.facets = {"maxLength"}],
   [List(Integer) EXCEPT !.facets = {"minItems"}], List(Name("User")), List(User),
   List(None), [List(Integer) EXCEPT !.facets = {"enum"}, !.required = FALSE]}
RamlOwn == {[Type(type) EXCEPT !.properties = "a" :> inner] :
          type \in {None, "object", "User"}, inner \in RamlInner}
Types == RamlOwn \cup {List(inner) : inner \in RamlInner}
             \cup {[Type(None) EXCEPT !.items = inner] : inner \in RamlInner}
             \cup RamlInner

Method == [query |-> "q" :> FALSE, headers |-> "h" :> None, traits |-> FALSE,
           body |-> "json" :> Name("User"), securedBy |-> None,
           responses |-> 200 :> ("json" :> Name("User"))]
Resource == [methods |-> <<>>, nested |-> <<>>, securedBy |-> None, applies |-> FALSE,
             uriParameters |-> <<>>]
RamlId == <<"id">>
Users == <<"u", "sers">>
RamlOne(method) == [Resource EXCEPT !.methods = ("get" :> Method) @@ ("post" :> method)]
Under(resource) ==
  [Resource EXCEPT !.nested = <<[path |-> <<RamlId>>, resource |-> resource]>>]
At(path, resource) == [path |-> path, resource |-> resource]

OAuth == [type |-> "OAuth 2.0", describedBy |-> {}, settings |-> {"accessTokenUri"}]
RamlDocument ==
  [text |-> "document", title |-> TRUE, sections |-> {}, types |-> "User" :> User,
   schemes |-> "o" :> OAuth, securedBy |-> None,
   resources |-> <<At(<<Users>>, RamlOne(Method))>>]

\* Bodies in a request or in a response, of one type or two.
BodyOf == {None} \cup Types
Methods ==
  {[Method EXCEPT !.body = ("json" :> t) @@ ("xml" :> u)] :
     t \in BodyOf, u \in {None, Name("string"), User}}
  \cup {[Method EXCEPT !.responses = (s :> ("json" :> t)) @@ (404 :> <<>>)] :
          s \in {200, 99, 600}, t \in BodyOf}
  \cup {[Method EXCEPT !.securedBy = x, !.traits = y] : x \in {None, <<>>, <<"o">>}, y \in BOOLEAN}
  \cup {None}

Resources ==
  {[RamlOne(m) EXCEPT !.securedBy = x, !.applies = y] :
     m \in {Method, [Method EXCEPT !.securedBy = <<"o">>], [Method EXCEPT !.securedBy = <<>>]},
     x \in {None, <<>>, <<"o">>}, y \in BOOLEAN}
  \cup {RamlOne(m) : m \in Methods}
Trees ==
  {<<At(<<Users>>, Under([r EXCEPT !.uriParameters = u]))>> :
     r \in Resources, u \in {<<>>, "id" :> FALSE}}
  \cup {<<At(<<Users>>, Under(RamlOne(m))), At(<<Users, RamlId>>, RamlOne(Method))>> :
          m \in {Method, [Method EXCEPT !.body = "json" :> User]}}

Schemes ==
  {[OAuth EXCEPT !.type = type] :
     type \in {"OAuth 1.0", "Basic Authentication", "Digest Authentication", "x-custom", "x-own"}}
  \cup {[OAuth EXCEPT !.settings = s] :
          s \in {{}, {"requestTokenUri"}, {"requestTokenUri", "tokenCredentialsUri"}}}
  \cup {[OAuth EXCEPT !.type = "Pass Through", !.describedBy = s] :
          s \in {{}, {"headers"}, {"queryParameters"}}}

RamlDocuments ==
  {[RamlDocument EXCEPT !.types = ("User" :> User) @@ ("T" :> t)] : t \in Types}
  \cup {[RamlDocument EXCEPT !.types = ("User" :> User) @@ ("T" :> t),
                         !.resources[1].resource.methods["post"].body = "json" :> Name("T")] :
          t \in Types}
  \cup {[RamlDocument EXCEPT !.resources = tree] : tree \in Trees}
  \cup {[RamlDocument EXCEPT !.resources[1].resource = r] : r \in Resources}
  \cup {[RamlDocument EXCEPT !.schemes = ("o" :> s) @@ ("p" :> OAuth), !.securedBy = x] :
          s \in Schemes, x \in {None, <<"o">>}}
  \cup {[RamlDocument EXCEPT !.sections = s, !.title = t] :
          s \in SUBSET {"traits", "resourceTypes", "uses", "annotationTypes"}, t \in BOOLEAN}
  \cup {[RamlDocument EXCEPT !.text = t] : t \in {"INVALID_YAML", "EMPTY_DOCUMENT"}}

-----------------------------------------------------------------------------
(***************************************************************************)
(* Repositories: two controllers that share a route and two classes of one *)
(* name, and what differs from them in a file, a mapping or a limit; and   *)
(* recorded requests.                                                      *)
(***************************************************************************)

WordSegment(n) == [kind |-> "word", name |-> n]
VariableSegment(n) == [kind |-> "variable", name |-> n]
Regex(n) == [kind |-> "regex", name |-> n]

SourceFile(path) ==
  [path |-> path, regular |-> TRUE, java |-> TRUE, controller |-> FALSE, size |-> 1,
   length |-> 1, class |-> None, fields |-> <<>>, rest |-> FALSE, bases |-> None,
   mappings |-> <<>>]

Field(name, type, required) == [name |-> name, type |-> type, required |-> required]
Class(file, class, type) ==
  [SourceFile(<<"main", "dto", file>>) EXCEPT
     !.class = class, !.fields = <<Field("a", type, TRUE), Field("b", None, TRUE),
                                   Field(file, "string", FALSE)>>]

Argument(kind, name) ==
  [kind |-> kind, name |-> name, type |-> "integer", class |-> "Class", optional |-> FALSE,
   direct |-> TRUE]
PathId == Argument("PathVariable", "id")

GetMapping ==
  [suffixes |-> <<<<VariableSegment("id")>>>>, verbs |-> <<"GET">>, conditional |-> FALSE,
   public |-> TRUE, delimited |-> TRUE, statuses |-> {200}, arguments |-> {PathId}]
Post == [GetMapping EXCEPT !.suffixes = <<<<>>>>, !.verbs = <<"POST">>, !.statuses = {201},
                           !.arguments = {Argument("RequestBody", "body")}]

Controller(file, bases, mappings) ==
  [SourceFile(<<"main", file>>) EXCEPT
     !.controller = TRUE, !.rest = TRUE, !.bases = bases, !.mappings = mappings]
UsersRoute == <<<<WordSegment("users")>>>>

GetMappings ==
  {[GetMapping EXCEPT !.suffixes = s, !.verbs = v] :
     s \in {None, <<<<>>>>, <<<<Regex("id")>>>>, <<<<VariableSegment("id")>>, <<>>>>},
     v \in {<<>>, <<"GET", "POST">>}}
  \cup {[GetMapping EXCEPT !.conditional = c, !.public = p, !.delimited = d, !.statuses = s] :
          c, p, d \in BOOLEAN, s \in {{}, {200, 404}}}
  \cup {[GetMapping EXCEPT !.arguments = {a, b}] :
          a \in {PathId, [PathId EXCEPT !.direct = FALSE], [PathId EXCEPT !.optional = TRUE]},
          b \in {Argument("PathVariable", "other"), Argument("RequestParam", "q"),
                 [Argument("RequestHeader", "id") EXCEPT !.optional = TRUE, !.type = None]}}
PostMappings ==
  {Post} \cup {[Post EXCEPT !.arguments = {[Argument("RequestBody", "body") EXCEPT
                                             !.class = c, !.optional = o]}] :
                 c \in {"Class", "Gone"}, o \in BOOLEAN}

Alone == <<Controller("A", UsersRoute, <<GetMapping, Post>>)>>
Dtos == <<Class("C", "Class", "string"), Class("D", "Class", "integer")>>

\* Of one or two files, that the readers finish in every order.
SourceTrees ==
  {<<Controller("A", b, <<m, p, GetMapping>>), Dtos[1]>> :
     b \in {UsersRoute, None, <<<<>>, <<WordSegment("v1"), VariableSegment("id")>>>>},
     m \in GetMappings, p \in PostMappings}
  \cup {<<Controller("A", UsersRoute, <<GetMapping>>),
           Controller("B", UsersRoute, <<Post, GetMapping>>)>> \o dtos :
          dtos \in {<<>>, Dtos, <<Dtos[1], Class("D", "Other", "integer")>>,
                    <<Class("C", None, "string")>>}}

Odd ==
  {[SourceFile(<<"main", "O">>) EXCEPT !.controller = TRUE],
   SourceFile(<<"dto", "O">>), SourceFile(<<"main", "O">>), SourceFile(<<"main", "dto", "O">>),
   [Dtos[1] EXCEPT !.regular = FALSE], [Dtos[1] EXCEPT !.java = FALSE],
   [Dtos[1] EXCEPT !.path = <<"main", "test", "dto", "C">>],
   [Dtos[1] EXCEPT !.path = <<"other", "dto", "C">>]}
Sized == {[Dtos[1] EXCEPT !.size = s, !.length = n] : s \in {None, 1, 2, 3}, n \in 1..3}

Repository(tree) ==
  [tree |-> tree, directory |-> <<"main">>, truncated |-> FALSE, defects |-> {}]
AllRepositories ==
  {Repository(t) : t \in SourceTrees}
  \cup {[Repository(Alone \o <<f>>) EXCEPT !.directory = d, !.truncated = t] :
          f \in Odd, d \in {<<>>, <<"main">>, <<"other">>}, t \in BOOLEAN}
  \cup {Repository(Alone \o <<f>>) : f \in Sized}
  \cup {[Repository(Alone) EXCEPT !.defects = {d}] : d \in {"host", "reference", "directory"}}
  \cup {Repository(Alone \o Dtos \o <<Class("E", "More", "string"), Class("F", "Last", "string")>>)}

-----------------------------------------------------------------------------
RecordedEntry ==
  [whole |-> TRUE, method |-> "GET", path |-> "a", headers |-> <<"h">>, query |-> <<>>,
   body |-> None, status |-> 200, content |-> "json", answered |-> <<>>]

Entries ==
  {[RecordedEntry EXCEPT !.whole = w, !.method = m, !.path = p, !.status = s] :
     w \in BOOLEAN, m \in {"GET", "POST", "TRACE"}, p \in {"a", "b"}, s \in {200, 404}}
  \cup {[RecordedEntry EXCEPT !.headers = h, !.query = q, !.body = b, !.content = c, !.answered = a] :
          h \in {<<>>, <<"h", "h">>}, q \in {<<>>, <<"q", "h">>}, b \in {None, "", "json"},
          c \in {None, ""}, a \in {<<>>, <<"h", "i", "h">>}}

AllRecordings ==
  {[log |-> FALSE, entries |-> <<>>], [log |-> TRUE, entries |-> <<>>]}
  \cup {[log |-> TRUE, entries |-> e] :
          e \in {<<x>> : x \in Entries}
                \cup {<<x, y, RecordedEntry>> : x \in Entries, y \in {z \in Entries : z.answered = <<>>}}}

-----------------------------------------------------------------------------
(***************************************************************************)
(* Inputs for Access, RunnerRegistry, Policies, CronExpression and         *)
(* WorkflowEditor.                                                         *)
(***************************************************************************)

(* Access: an owner and an editor of one workspace, the owner of another,   *)
(* and a row of each; the owner still has an old password hash.             *)

PlatformUsers ==
  (<<"w1", "a">> :> [role |-> "owner", legacy |-> TRUE])
  @@ (<<"w1", "b">> :> [role |-> "editor", legacy |-> FALSE])
  @@ (<<"w2", "a">> :> [role |-> "owner", legacy |-> FALSE])
PlatformRows == (<<"row", "x">> :> "w1") @@ (<<"row", "y">> :> "w2")
PlatformGuest == <<"w1", "b">>

\* RunnerRegistry: the second secret is of another workspace.
WorkspaceOfThing == ("r" :> "w1") @@ ("s" :> "w1") @@ ("t" :> "w2")

(* Policies: rules with and without conditions, which tie and do not.       *)

TextOf(v) == [kind |-> "text", of |-> {v}]
ListOf(s) == [kind |-> "list", of |-> s]
InProduction == "environmentId" :> TextOf("prod")
MethodIs(value) == "method" :> value
Rule(condition, effect, priority) ==
  [condition |-> condition, effect |-> effect, priority |-> priority]

SomeRules ==
  {Rule(<<>>, "deny", 0), Rule(InProduction, "require-approval", 1),
   Rule(MethodIs(ListOf({"DELETE", "PATCH"})), "deny", 1),
   Rule(InProduction @@ MethodIs(ListOf({"DELETE"})), "allow", 1)}
SomeRuleLists == {<<>>} \cup {<<a>> : a \in SomeRules} \cup {<<a, b>> : a, b \in SomeRules}
SomePriorities == <<1, 0>>

SomeQuestions ==
  {[resource |-> r, context |-> c] :
     r \in {<<>>, InProduction, MethodIs(TextOf("DELETE")), "environmentId" :> None,
            MethodIs(ListOf({"PATCH"})) @@ InProduction},
     c \in {<<>>, InProduction}}

(* CronExpression: every form of a part in every field, alone and after a   *)
(* number.                                                                  *)

Part(form, from, to) == [form |-> form, from |-> from, to |-> to]
AnyValue == Part("any", None, None)
Numbers == {None, 0, 1, 7, 12, 31, 60}
PartsOfFields ==
  {AnyValue} \cup {Part("every", n, None) : n \in {None, 0, 1, 7, 40}}
  \cup {Part("number", n, None) : n \in Numbers} \cup {Part("range", a, b) : a, b \in Numbers}
FieldsOfCron ==
  {<<p>> : p \in PartsOfFields} \cup {<<Part("number", 1, None), p>> : p \in PartsOfFields}
CronExpressions ==
  {<<>>, <<<<AnyValue>>>>}
  \cup {[j \in 1..5 |-> IF j = i THEN f ELSE <<AnyValue>>] : i \in 1..5, f \in FieldsOfCron}
SomeMinutes ==
  {<<m, h, d, month, day>> :
     m \in {0, 35}, h \in {1, 14}, d \in {7, 31}, month \in {1, 12}, day \in {0, 6}}

(* WorkflowEditor: an inline step with more extractions and assertions than *)
(* are shown, a step that refers to a test and a flat one.                  *)

Assertion(target, path, operator, value) ==
  [target |-> target, path |-> path, operator |-> operator, value |-> value, more |-> None]
Extract(name, path) == [name |-> name, path |-> path, source |-> "header", more |-> "kept"]
StepOf(id, form, url) ==
  [id |-> id, form |-> form, method |-> None, url |-> url, headers |-> <<>>,
   extract |-> <<>>, asserts |-> <<>>, rest |-> "kept"]

InlineWorkflow ==
  <<[StepOf("s", "inline", "/a") EXCEPT
      !.headers = <<<<"h", "1">>>>, !.method = "POST",
      !.extract = <<Extract("x", "$.x"), Extract("y", "$.y")>>,
      !.asserts = <<Assertion("header", "h", "equals", 1), Assertion("status", None, "in", None),
                    Assertion("jsonPath", "$.x", "equals", 1)>>]>>
MixedWorkflow ==
  <<[StepOf("s", "id", None) EXCEPT !.asserts = <<Assertion("status", None, "equals", 404)>>],
    StepOf("u", "flat", "/u")>>
FirstVersions ==
  {("A" :> InlineWorkflow) @@ ("B" :> MixedWorkflow), "A" :> InlineWorkflow}

StepPatches ==
  {[method |-> "PUT", status |-> 201], [headers |-> <<<<"", "">>>>],
   [headers |-> <<<<"k", "2">>>>, variable |-> "z"], [variable |-> "", assertion |-> ""],
   [path |-> "/n", expression |-> "$.z", assertion |-> "$.q"]}
AddedSteps ==
  {[id |-> "n", method |-> "POST", path |-> "/p", headers |-> <<>>, reference |-> FALSE,
    variable |-> "newId", expression |-> "$.data", status |-> 201,
    assertion |-> "$.code = 0"]}

(* EnvironmentPage: an environment whose version asks for approval and      *)
(* refers to a secret, and versions that do not.                            *)

GatedVersion == [url |-> "u", variables |-> "refers", labels |-> "gpu", approval |-> TRUE]
OpenVersion == [url |-> "v", variables |-> "none", labels |-> "any", approval |-> FALSE]
TypedForms == {[url |-> "x", variables |-> "none"]}

(* DatasetImport: a row of two fields in every combination of characters,   *)
(* rows that are too short or too long, and no rows.                        *)

Char == {"a", "comma", "quote", "newline", "space"}
Fields == {<<>>} \cup {<<x>> : x \in Char} \cup {<<x, y>> : x, y \in Char}
Table(rows) == [fields |-> <<<<"h">>, <<"i">>>>, rows |-> rows, sensitive |-> {<<"h">>}]
SomeTables ==
  {Table(<<>>), Table(<<<<<<"quote">>>>, <<<<"a">>, <<>>, <<"b">>>>>>)}
  \cup {Table(<<<<f, g>>>>) : f, g \in Fields}

-----------------------------------------------------------------------------
(* Answers, one or two assertions or extractions of each.                  *)

JsonText(chars) == [kind |-> "string", text |-> chars]
Number(n) == [kind |-> "number", n |-> n]
Truth(b) == [kind |-> "boolean", is |-> b]
JsonList(items) == [kind |-> "array", items |-> items]
JsonObject(fields) == [kind |-> "object", fields |-> fields]
Key(k, v) == [key |-> k, value |-> v]

\* Something sensitive on the outside, in a list and in an object of it.
SecretBody ==
  JsonObject(<<Key("token", JsonText(<<"t">>)), Key("n", Number(3)), Key("b", Truth(TRUE)),
               Key("z", [kind |-> "null"]),
               Key("a", JsonList(<<JsonObject(<<Key("Token", JsonList(<<Number(1)>>)),
                                                Key("n", JsonText(<<"n", "m">>))>>), Number(2)>>))>>)
SomeBodies ==
  {SecretBody, JsonObject(<<Key("a", JsonList(<<>>)), Key("n", JsonText(<<>>))>>),
   JsonList(<<SecretBody>>), JsonText(<<"n">>), [kind |-> "null"]}
LowerNames ==
  [n \in {"token", "Token", "n", "b", "z", "a", "set-cookie", "x", "X"} |->
     CASE n = "Token" -> "token" [] n = "X" -> "x" [] OTHER -> n]
SomeHeaders == ("x" :> JsonText(<<"n", "m">>)) @@ ("set-cookie" :> JsonText(<<"c">>))

SomePaths ==
  {<<"$">>, <<"$", ".", "token">>, <<"n">>, <<"$", ".", "z">>, <<"$", ".", "a">>,
   <<"$", ".", "a", "[0]">>, <<"$", ".", "a", "[*]">>, <<"$", ".", "a", "[0]", ".", "n">>,
   <<"$", ".", "n", ".", "b">>, <<"[0]", ".", "n">>, <<"a", "[1]">>}
Expectations ==
  {None, Number(2), Number(3), Truth(TRUE), JsonText(<<"t">>), JsonText(<<"n">>)}

AnswerAssertion(target, operator, path, expected) ==
  [target |-> target, operator |-> operator, path |-> path, expected |-> expected,
   severity |-> "block"]
SomeAssertions ==
  {AnswerAssertion("jsonPath", o, p, x) :
     o \in {"exists", "notExists", "hasItems", "isEmpty"}, p \in SomePaths, x \in {None}}
  \cup {AnswerAssertion("jsonPath", o, p, x) :
          o \in {"equals", "contains", "notContains"}, p \in SomePaths,
          x \in Expectations \ {None}}
  \cup {AnswerAssertion("jsonPath", o, p, Number(2)) :
          o \in {"greaterThan", "lessThan"}, p \in SomePaths}
  \cup {AnswerAssertion("jsonPath", "type", p, JsonText(<<t>>)) :
          p \in SomePaths, t \in {"string", "object"}}
  \cup {AnswerAssertion("header", o, h, x) :
          o \in {"exists", "equals", "contains", "notExists"}, h \in {<<"X">>, <<"a">>},
          x \in {None, JsonText(<<"n">>), JsonText(<<"n", "m">>)}}
  \cup {AnswerAssertion("body", o, None, JsonText(<<c>>)) :
          o \in {"contains", "equals", "notContains"}, c \in {"t", "n", "q"}}
  \cup {AnswerAssertion(t, "equals", None, x) : t \in {"status", "responseTime"},
                                       x \in {None, Number(2), Number(3)}}
  \cup {AnswerAssertion("schema", "matches", None,
                  [kind |-> "schema", dialect |-> d, accepts |-> {SecretBody}]) :
          d \in {None, "2020-12", "draft-04"}}

Extraction(name, source, expression, sensitive) ==
  [name |-> name, source |-> source, expression |-> expression, sensitive |-> sensitive]
SomeExtractions ==
  {<<Extraction("v", "body", p, s)>> : p \in SomePaths, s \in BOOLEAN}
  \cup {<<Extraction("v", "header", <<"X">>, FALSE), Extraction("v", "cookie", None, TRUE),
          Extraction("w", "status", None, FALSE)>>}

Exchange(assertions, extractions, answer) ==
  [assertions |-> assertions, extractions |-> extractions, status |-> 3, ms |-> 2,
   headers |-> SomeHeaders, body |-> answer]
SomeExchanges ==
  {Exchange(<<a>>, <<>>, b) : a \in SomeAssertions, b \in SomeBodies}
  \cup {Exchange(<<>>, x, b) : x \in SomeExtractions, b \in SomeBodies}
  \cup {Exchange(<<[a EXCEPT !.severity = "warn"], b>>, <<>>, SecretBody) :
          a, b \in {AnswerAssertion("status", "equals", None, Number(n)) : n \in {2, 3}}}
=============================================================================
