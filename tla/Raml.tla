-------------------------------- MODULE Raml --------------------------------
(***************************************************************************)
(* RAML 1.0 documents read into the canonical model (packages/adapters/    *)
(* raml): types, bodies, resources, security schemes.                      *)
(*                                                                         *)
(* A type is [short, ...]: the name of a type, or, when short is None, an  *)
(* object with the fields type, properties, items, facets and required.    *)
(* An id of a schema is the sequence of its parts; a path is the sequence  *)
(* of its segments, <<"id">> for {id} and <<>> \o name otherwise.          *)
(***************************************************************************)
EXTENDS Integers, FiniteSetsExt, SequencesExt, TLC

CONSTANTS RamlInputs, None

VARIABLES
  document,   \* what is imported
  result      \* the answer of importRaml, None before it

----------------------------------------------------------------------------
(* Types.                                                                  *)

Strings == {"string", "date", "datetime", "datetime-only", "time-only", "date-only", "file"}
Primitives == Strings \cup {"number", "integer", "boolean", "array", "object", "nil"}

JsonType(name) ==
  CASE name \in Strings -> "string"
    [] name = "nil" -> "null"
    [] OTHER -> name

Node(type) ==
  [type |-> type, facets |-> {}, nullable |-> FALSE, properties |-> <<>>,
   required |-> {}, items |-> None, allOf |-> None]

SchemaPath(name) == <<"schemas", name>>
PropertyId(id, p) == id \o <<"properties", p>>
ItemsId(id) == Append(id, "items")

\* What processType answers: the place of the schema, or of the type it names.
RefOf(t, id) ==
  IF t.short # None /\ t.short \notin Primitives THEN SchemaPath(t.short) ELSE id

NodeType(t) ==
  CASE t.items # None /\ t.properties = <<>> -> "array"
    [] t.type # None /\ t.type \in Primitives -> JsonType(t.type)
    [] OTHER -> "object"

\* A property that is an array keeps the facets of arrays and nothing else.
ArrayFacets == {"minItems", "maxItems", "uniqueItems"}
ArrayNode(t, id) ==
  [Node("array") EXCEPT
     !.facets = t.facets \cap ArrayFacets,
     !.items = IF t.items = None THEN None ELSE RefOf(t.items, ItemsId(id))]

TypeNode(t, id) ==
  [type |-> NodeType(t), facets |-> t.facets, nullable |-> t.required = FALSE,
   properties |-> [p \in DOMAIN t.properties |-> RefOf(t.properties[p], PropertyId(id, p))],
   required |-> {p \in DOMAIN t.properties :
                   t.properties[p].short # None \/ t.properties[p].required # FALSE},
   items |-> IF t.items = None \/ NodeType(t) # "array" THEN None
             ELSE RefOf(t.items, ItemsId(id)),
   allOf |-> IF t.type = None \/ t.type \in Primitives THEN None ELSE SchemaPath(t.type)]

Both(f, g) == f @@ g
All(fs) == FoldSet(Both, <<>>, fs)

\* processType: the schemas it leaves in the registry.
RECURSIVE ProcessType(_, _)
ProcessType(t, id) ==
  LET Items(of, at) == IF of.items = None THEN <<>> ELSE ProcessType(of.items, ItemsId(at))
      Property(p) ==
        LET of == t.properties[p]  at == PropertyId(id, p) IN
        IF of.short = None /\ of.type = "array"
        THEN (at :> ArrayNode(of, at)) @@ Items(of, at)
        ELSE ProcessType(of, at)
  IN IF t.short # None
     THEN IF t.short \in Primitives THEN id :> Node(JsonType(t.short)) ELSE <<>>
     ELSE (id :> TypeNode(t, id))
          @@ All({Property(p) : p \in DOMAIN t.properties})
          @@ (IF NodeType(t) = "array" THEN Items(t, id) ELSE <<>>)

\* processInlineType: a body's own type.  Properties that are not names of
\* types are left out, a name that is not a primitive becomes a string.
ProcessInlineType(t, id) ==
  LET kept == {p \in DOMAIN t.properties : t.properties[p].short # None}
      Of(p) == LET name == t.properties[p].short IN
               IF name \in Primitives THEN JsonType(name) ELSE "string"
  IN (id :> [Node(IF t.items # None THEN "array" ELSE NodeType(t)) EXCEPT
               !.properties = [p \in kept |-> PropertyId(id, p)]])
     @@ All({PropertyId(id, p) :> Node(Of(p)) : p \in kept})

----------------------------------------------------------------------------
(* Resources.                                                              *)

\* A body of one media type: its reference, None when it names no type and
\* lists no property, and what is registered for it.  Of a body that names a
\* type and lists properties the name is taken.
BodyRef(t, id) == IF t = None THEN None ELSE RefOf(t, id)
BodySchemas(t, id) ==
  CASE t = None -> <<>>
    [] t.short = None -> ProcessInlineType(t, id)
    [] OTHER -> ProcessType(t, id)

BodyId(id, place, media) == <<"bodies", id, place, media>>
Bodies(body, id, place) ==
  [m \in {n \in DOMAIN body : body[n] # None} |-> BodyRef(body[m], BodyId(id, place, m))]
SchemasOf(body, id, place) ==
  All({BodySchemas(body[m], BodyId(id, place, m)) : m \in DOMAIN body})

\* extractUriParameters: the definitions of this resource, not of those above.
UriParameters(resource, path) ==
  {[in |-> "path", name |-> path[i][1],
    required |-> IF path[i][1] \in DOMAIN resource.uriParameters
                 THEN resource.uriParameters[path[i][1]] = TRUE ELSE TRUE] :
     i \in {j \in DOMAIN path : Len(path[j]) = 1}}

\* mapParameter: a parameter is required when its definition says so.
Declared(parameters, in) ==
  {[in |-> in, name |-> n, required |-> parameters[n] = TRUE] : n \in DOMAIN parameters}

SecuredByResource(method, resource) ==
  IF resource.securedBy # None THEN resource.securedBy ELSE method.securedBy
SecuredBy(method, resource) ==
  IF method.securedBy # None THEN method.securedBy ELSE resource.securedBy

Statuses(method) == {s \in DOMAIN method.responses : s \in 100..599}

EndpointOf(resource, path, m) ==
  LET method == resource.methods[m]  id == <<m, path>> IN
  [method |-> m, path |-> path,
   parameters |-> UriParameters(resource, path) \cup Declared(method.query, "query")
                  \cup Declared(method.headers, "header"),
   bodies |-> Bodies(method.body, id, <<"request">>),
   bodyRequired |-> m \in {"post", "put", "patch"},
   responses |-> [s \in Statuses(method) |-> Bodies(method.responses[s], id, <<"response", s>>)],
   security |-> SecuredBy(method, resource),
   schemas |-> SchemasOf(method.body, id, <<"request">>)
               @@ All({SchemasOf(method.responses[s], id, <<"response", s>>) : s \in Statuses(method)})]

\* walkResources: the resources of a document, each with its whole path.
RECURSIVE Walk(_, _)
Walk(resource, path) ==
  {<<resource, path>>}
  \cup UNION {Walk(resource.nested[i].resource, path \o resource.nested[i].path) :
                i \in DOMAIN resource.nested}

\* Methods without a value are skipped.
Endpoints(resource, path) ==
  {EndpointOf(resource, path, m) : m \in {n \in DOMAIN resource.methods : resource.methods[n] # None}}

ResourceDiagnostics(resource) ==
  (IF resource.applies THEN {"UNSUPPORTED_RESOURCE_CONSTRUCT"} ELSE {})
  \cup (IF \E m \in DOMAIN resource.methods : resource.methods[m] # None /\ resource.methods[m].traits
        THEN {"UNSUPPORTED_TRAIT_APPLICATION"} ELSE {})

----------------------------------------------------------------------------
(* Security schemes, and the whole document.                               *)

SchemeType(type) ==
  CASE type \in {"OAuth 2.0", "OAuth 1.0"} -> "oauth2"
    [] type \in {"Basic Authentication", "Digest Authentication", "x-custom"} -> "http"
    [] type = "Pass Through" -> "apiKey"
    [] OTHER -> None

Flow(settings) ==
  CASE settings \cap {"authorizationUri", "accessTokenUri"} # {} -> "authorizationCode"
    [] {"requestTokenUri", "tokenCredentialsUri"} \subseteq settings -> "implicit"
    [] OTHER -> None

Scheme(s) ==
  [type |-> SchemeType(s.type),
   scheme |-> CASE s.type = "Basic Authentication" -> "basic"
                [] s.type = "Digest Authentication" -> "digest"
                [] s.type = "x-custom" -> "bearer"
                [] OTHER -> None,
   in |-> CASE SchemeType(s.type) # "apiKey" -> None
            [] "headers" \in s.describedBy -> "header"
            [] "queryParameters" \in s.describedBy -> "query"
            [] OTHER -> None,
   flow |-> IF SchemeType(s.type) = "oauth2" THEN Flow(s.settings) ELSE None]

\* The sections of a document that are not resolved, each with a warning.
Warnings ==
  ("traits" :> "TRAITS_NOT_RESOLVED") @@ ("resourceTypes" :> "RESOURCE_TYPES_NOT_RESOLVED")
  @@ ("uses" :> "LIBRARIES_NOT_RESOLVED") @@ ("annotationTypes" :> "ANNOTATIONS_NOT_RESOLVED")

ImportRaml(d) ==
  LET resources == UNION {Walk(d.resources[i].resource, d.resources[i].path) :
                            i \in DOMAIN d.resources}
      endpoints == UNION {Endpoints(r[1], r[2]) : r \in resources}
      Supported(n) == SchemeType(d.schemes[n].type) # None
  IN IF d.text # "document" THEN [success |-> FALSE, diagnostics |-> {d.text}]
     ELSE [success |-> d.title,
           diagnostics |->
             (IF d.title THEN {} ELSE {"MISSING_TITLE"})
             \cup {Warnings[s] : s \in d.sections}
             \cup UNION {ResourceDiagnostics(r[1]) : r \in resources}
             \cup {"UNSUPPORTED_SECURITY_TYPE" :
                     n \in {x \in DOMAIN d.schemes : ~Supported(x)}},
           schemas |-> All({ProcessType(d.types[n], SchemaPath(n)) : n \in DOMAIN d.types})
                       @@ All({x.schemas : x \in endpoints}),
           securitySchemes |-> [n \in {x \in DOMAIN d.schemes : Supported(x)} |->
                                  Scheme(d.schemes[n])],
           security |-> d.securedBy, endpoints |-> endpoints]

Init == document \in RamlInputs /\ result = None

Import == result = None /\ result' = ImportRaml(document) /\ UNCHANGED document

Next == Import

----------------------------------------------------------------------------
(* What a document says, down to types of types of types.                  *)

Depth == 4

\* The shape of a type as it is written; as for the code, a shorthand such as
\* User[] is the name of a type that is nowhere defined.
RECURSIVE Written(_, _)
Written(t, depth) ==
  CASE depth = 0 -> Node("deep")
    [] t.short # None /\ t.short \in Primitives -> Node(JsonType(t.short))
    [] t.short # None /\ t.short \in DOMAIN document.types ->
         Written(document.types[t.short], depth)
    [] t.short # None -> Node("gone")
    [] OTHER ->
         [type |-> IF t.items # None \/ t.type = "array" THEN "array"
                   ELSE IF t.type \in Primitives THEN JsonType(t.type) ELSE "object",
          facets |-> t.facets, nullable |-> t.required = FALSE,
          properties |-> [p \in DOMAIN t.properties |-> Written(t.properties[p], depth - 1)],
          required |-> {p \in DOMAIN t.properties :
                          ~(t.properties[p].short = None /\ t.properties[p].required = FALSE)},
          items |-> IF t.items = None THEN None ELSE Written(t.items, depth - 1),
          allOf |-> IF t.type = None \/ t.type \in Primitives THEN None
                    ELSE IF t.type \in DOMAIN document.types
                         THEN Written(document.types[t.type], depth - 1) ELSE Node("gone")]

\* The shape that is found by following the references of the result.
RECURSIVE Found(_, _)
Found(ref, depth) ==
  CASE depth = 0 -> Node("deep")
    [] ref \notin DOMAIN result.schemas -> Node("gone")
    [] OTHER ->
         LET n == result.schemas[ref] IN
         [n EXCEPT
            !.properties = [p \in DOMAIN n.properties |-> Found(n.properties[p], depth - 1)],
            !.items = IF @ = None THEN None ELSE Found(@, depth - 1),
            !.allOf = IF @ = None THEN None ELSE Found(@, depth - 1)]

\* What is lost without a word: what an array property says of itself beside
\* the facets of arrays, and a type that is another name of a type.
Aliases == {n \in DOMAIN document.types : document.types[n].short # None}
LosesProperty(t) ==
  t.short = None /\ t.type = "array"
  /\ (t.properties # <<>> \/ t.required = FALSE \/ ~(t.facets \subseteq ArrayFacets))
TypesAreKept ==
  /\ Aliases = {}
  /\ \A n \in DOMAIN document.types :
       \A p \in DOMAIN document.types[n].properties :
         ~LosesProperty(document.types[n].properties[p])

\* The body of a method keeps its type, and of an own type the properties
\* that are primitives; which of these are required is lost.
BodyIsKept(t, ref) ==
  CASE t = None -> ref = None
    [] t.short # None -> Found(ref, Depth) = Written(t, Depth)
    [] /\ t.facets = {} /\ t.items = None /\ t.required = None
       /\ (t.type = None \/ t.type \in Primitives)
       /\ \A p \in DOMAIN t.properties : t.properties[p].short \in Primitives ->
         Found(ref, Depth) = [Written(t, Depth) EXCEPT !.required = {}]
    [] OTHER -> Found(ref, Depth) # Node("gone")

\* The resources and paths that are written down, and the paths that are
\* written in two places: they share the ids of their endpoints.
Resources == UNION {Walk(document.resources[i].resource, document.resources[i].path) :
                      i \in DOMAIN document.resources}
Twice(path) == Cardinality({r \in Resources : r[2] = path}) > 1

MethodIsKept(resource, path, m) ==
  LET method == resource.methods[m] IN
  \E e \in result.endpoints :
    /\ e.method = m /\ e.path = path
    /\ \A i \in DOMAIN path : Len(path[i]) = 1 =>
         \E p \in e.parameters : p.in = "path" /\ p.name = path[i][1]
    /\ e.security = (IF method.securedBy = None THEN resource.securedBy ELSE method.securedBy)
    /\ \A media \in DOMAIN method.body :
         method.body[media] # None => BodyIsKept(method.body[media], e.bodies[media])
    /\ \A s \in DOMAIN method.responses \cap 100..599 : \A media \in DOMAIN method.responses[s] :
         method.responses[s][media] # None =>
           BodyIsKept(method.responses[s][media], e.responses[s][media])

\* A RAML document that is accepted defines, by the references the import
\* leaves, the types it writes down, and every method of every resource, with
\* its own security before its resource's.
RamlIsFaithful ==
  (result # None /\ result.success) =>
    /\ TypesAreKept =>
         \A n \in DOMAIN document.types :
           Found(SchemaPath(n), Depth) = Written(document.types[n], Depth)
    /\ TypesAreKept =>
         \A r \in Resources : \A m \in DOMAIN r[1].methods :
           (r[1].methods[m] # None /\ ~Twice(r[2])) => MethodIsKept(r[1], r[2], m)
=============================================================================
