-------------------------- MODULE RepositoryImport --------------------------
(***************************************************************************)
(* Discovery of an API in the Java sources of a public repository          *)
(* (modules/import/repository.service.ts, packages/adapters/code-discovery) *)
(* importRepository asks for the commit and its tree, readers that share a *)
(* cursor download the candidates, and the routes found are stored.        *)
(*                                                                         *)
(* A path is the sequence of its segments.  The files of a tree are in the *)
(* order of their paths; a file is what the scanner finds in it: the class *)
(* and the fields of a DTO, and the mappings of a controller.  A segment   *)
(* of a route is [kind, name], of kind "word", "variable" or "regex".      *)
(***************************************************************************)
EXTENDS Integers, FiniteSetsExt, SequencesExt, TLC

CONSTANTS Repositories, None, Readers, MaxFiles, MaxFileSize, MaxTotalSize

VARIABLES
  repository, \* [defects, directory, tree, truncated]
  download,   \* the readers: [cursor, loading, files, total]
  result,     \* the model, Nothing if rejected, None while the analysis runs
  manifest,   \* the files of the manifest in the object store, None before
  row         \* the row of api_versions, None before

vars == <<repository, download, result, manifest, row>>

----------------------------------------------------------------------------
(* Candidates.                                                             *)

Excluded == {"test", "tests", "target", "build", "vendor", "generated"}

\* In a directory "dto" that is not the first of the path.
IsDto(file) == \E i \in 2..(Len(file.path) - 1) : file.path[i] = "dto"

IsCandidate(file) ==
  /\ file.regular /\ file.java
  /\ IsPrefix(repository.directory, Front(file.path))
  /\ Excluded \cap ToSet(file.path) = {}
  /\ file.controller \/ IsDto(file)

Candidates == {i \in DOMAIN repository.tree : IsCandidate(repository.tree[i])}
InOrder(files) == SetToSortSeq(files, LAMBDA i, j : i < j)

\* A size that the tree does not say counts as zero.
SaidSize(file) == IF file.size = None THEN 0 ELSE file.size

WithinLimits(files) ==
  LET tree == repository.tree IN
  /\ files # {} /\ Cardinality(files) <= MaxFiles
  /\ \A i \in files : SaidSize(tree[i]) <= MaxFileSize
  /\ MapThenSumSet(LAMBDA i : SaidSize(tree[i]), files) <= MaxTotalSize

----------------------------------------------------------------------------
(* discoverSpringApi: a found is [schemas, endpoints, warnings], a warning *)
(* the place it is about.                                                  *)

Nothing == [schemas |-> <<>>, endpoints |-> <<>>, warnings |-> {}]
Warned(found, place) == [found EXCEPT !.warnings = @ \cup {place}]

\* The fields of a DTO are entered before its name is looked up: those of a
\* second class of that name replace those of the first.
FieldId(class, field) == <<class, field>>
Known(file) == {f \in ToSet(file.fields) : f.type # None}

AddDto(found, i) ==
  LET file == repository.tree[i]
      fields == [id \in {FieldId(file.class, f.name) : f \in Known(file)} |->
                   (CHOOSE f \in Known(file) : f.name = id[2]).type]
      entered ==
        [found EXCEPT !.schemas = fields @@ @,
                      !.warnings = @ \cup {<<i, f.name>> : f \in ToSet(file.fields) \ Known(file)}]
      object == [properties |-> DOMAIN fields,
                 required |-> {f.name : f \in {g \in Known(file) : g.required}}]
  IN CASE file.class = None -> found
       [] <<file.class>> \in DOMAIN found.schemas -> Warned(entered, <<i>>)
       [] OTHER -> [entered EXCEPT !.schemas = (<<file.class>> :> object) @@ @]

\* A static mapping: its paths are literals, it names its verbs, no condition.
IsStatic(mapping) ==
  mapping.suffixes # None /\ mapping.verbs # <<>> /\ ~mapping.conditional

ArgumentKinds ==
  ("RequestParam" :> "query") @@ ("PathVariable" :> "path") @@ ("RequestHeader" :> "header")

\* Arguments whose type does not follow the annotation are passed over.
Arguments(mapping) == {a \in mapping.arguments : a.direct}
BodyArguments(mapping) == {a \in Arguments(mapping) : a.kind = "RequestBody"}
Parameters(mapping) ==
  {[name |-> a.name, in |-> ArgumentKinds[a.kind],
    required |-> a.kind = "PathVariable" \/ ~a.optional,
    schema |-> IF a.type = None THEN "string" ELSE a.type] :
     a \in Arguments(mapping) \ BodyArguments(mapping)}

Variables(path) == {s.name : s \in {t \in ToSet(path) : t.kind = "variable"}}
Implied(name) == [name |-> name, in |-> "path", required |-> TRUE, schema |-> None]

EndpointOf(found, place, mapping, verb, path) ==
  LET said == Parameters(mapping)
      missing == {v \in Variables(path) : \A p \in said : ~(p.in = "path" /\ p.name = v)}
  IN [method |-> verb, path |-> path, from |-> place, statuses |-> mapping.statuses,
      parameters |-> said \cup {Implied(v) : v \in missing},
      bodies |-> {[schema |-> <<a.class>>, required |-> ~a.optional] :
                    a \in {b \in BodyArguments(mapping) : <<b.class>> \in DOMAIN found.schemas}}]

AddRoute(found, place, mapping, verb, path) ==
  LET lost == {a \in BodyArguments(mapping) : <<a.class>> \notin DOMAIN found.schemas}
      added == [found EXCEPT
                  !.endpoints = Append(@, EndpointOf(found, place, mapping, verb, path))]
  IN IF \/ \E s \in ToSet(path) : s.kind = "regex"
        \/ \E e \in ToSet(found.endpoints) : e.method = verb /\ e.path = path
     THEN Warned(found, place)
     ELSE IF lost # {} THEN Warned(added, place) ELSE added

\* The routes of a mapping: for each verb, each base and each suffix.
Routes(bases, mapping) ==
  FlattenSeq([v \in DOMAIN mapping.verbs |->
    FlattenSeq([b \in DOMAIN bases |->
      [s \in DOMAIN mapping.suffixes |-> <<mapping.verbs[v], bases[b] \o mapping.suffixes[s]>>]])])

AddMapping(found, i, m) ==
  LET file == repository.tree[i]  mapping == file.mappings[m]
      Add(f, route) == AddRoute(f, <<i, m>>, mapping, route[1], route[2])
      start == IF mapping.statuses = {} THEN Warned(found, <<i, m>>) ELSE found
  IN CASE ~IsStatic(mapping) -> Warned(found, <<i, m>>)
       [] IsStatic(mapping) /\ ~mapping.public -> found
       [] IsStatic(mapping) /\ mapping.public /\ ~mapping.delimited -> Warned(found, <<i, m>>)
       [] OTHER -> FoldLeft(Add, start, Routes(file.bases, mapping))

AddController(found, i) ==
  LET file == repository.tree[i]
      Add(f, m) == AddMapping(f, i, m) IN
  CASE ~file.rest -> found
    [] file.rest /\ file.bases = None -> Warned(found, <<i>>)
    [] OTHER -> FoldLeft(Add, found, [m \in DOMAIN file.mappings |-> m])

\* Mutant of SortedFiles: the files stay in the order of their arrival.
SortedFilesAsArrived(files) == files

\* The downloaded files in the order of their paths: first DTOs, then controllers.
SortedFiles(files) == InOrder(ToSet(files))

Discover(files) ==
  LET sorted == SortedFiles(files)
      dtos == SelectSeq(sorted, LAMBDA i : IsDto(repository.tree[i]))
      controllers == SelectSeq(sorted, LAMBDA i : repository.tree[i].controller)
  IN FoldLeft(AddController, FoldLeft(AddDto, Nothing, dtos), controllers)

----------------------------------------------------------------------------
(* analyzeRepository and importRepository.                                 *)

Model == result # None /\ result.endpoints # <<>>

Init ==
  /\ repository \in Repositories
  /\ download = None /\ result = None /\ manifest = None /\ row = None

Reject == result' = Nothing /\ UNCHANGED <<repository, download, manifest, row>>

\* parseRepositoryInput: what is wrong with the address, the reference or the
\* directory that was asked for; a slash at the end of these is taken off.
IsRefused == repository.defects # {}

\* The commit of the reference and its tree; the readers start.
Begin ==
  /\ result = None /\ download = None
  /\ IF IsRefused \/ repository.truncated \/ ~WithinLimits(Candidates)
     THEN Reject
     ELSE /\ download' = [cursor |-> 0, loading |-> {}, files |-> <<>>, total |-> 0]
          /\ UNCHANGED <<repository, result, manifest, row>>

Queue == InOrder(Candidates)

\* A reader takes the next candidate.
Take ==
  /\ result = None /\ download # None
  /\ Cardinality(download.loading) < Readers /\ download.cursor < Len(Queue)
  /\ download' = [download EXCEPT !.cursor = @ + 1, !.loading = @ \cup {Queue[download.cursor + 1]}]
  /\ UNCHANGED <<repository, result, manifest, row>>

\* A file has arrived, as the commit has it.
Arrive(i) ==
  LET size == repository.tree[i].length  total == download.total + size IN
  /\ result = None /\ i \in download.loading
  /\ IF size > MaxFileSize \/ total > MaxTotalSize
     THEN Reject
     ELSE /\ download' = [download EXCEPT !.loading = @ \ {i}, !.files = Append(@, i),
                                          !.total = total]
          /\ UNCHANGED <<repository, result, manifest, row>>

\* The connection fails, the time is over, the limit of requests is reached,
\* or the content is not that of the commit.
Fail == result = None /\ Reject

Analyze ==
  LET found == Discover(download.files) IN
  /\ result = None /\ download # None
  /\ download.loading = {} /\ download.cursor = Len(Queue)
  /\ IF found.endpoints = <<>>
     THEN Reject
     ELSE result' = found /\ UNCHANGED <<repository, download, manifest, row>>

PutManifest ==
  /\ Model /\ manifest = None
  /\ manifest' = SortedFiles(download.files)
  /\ UNCHANGED <<repository, download, result, row>>

\* The insert may also fail: then the manifest stays alone.
InsertRow ==
  /\ manifest # None /\ row = None
  /\ row' = [files |-> manifest, model |-> result]
  /\ UNCHANGED <<repository, download, result, manifest>>

Next ==
  \/ Begin \/ Take \/ Fail \/ Analyze \/ PutManifest \/ InsertRow
  \/ download # None /\ \E i \in download.loading : Arrive(i)

Spec == Init /\ [][Next]_vars

----------------------------------------------------------------------------
(* What is stored.                                                         *)

Found == ToSet(result.endpoints)
File(i) == repository.tree[i]

Controllers == {i \in Candidates : File(i).controller /\ File(i).rest}
Mappings == UNION {{<<i, m>> : m \in DOMAIN File(i).mappings} : i \in Controllers}
Mapping(place) == File(place[1]).mappings[place[2]]

\* Mappings whose routes are known without running the program.
Readable ==
  {place \in Mappings : /\ File(place[1]).bases # None /\ IsStatic(Mapping(place))
                        /\ Mapping(place).public /\ Mapping(place).delimited}
RoutesAt(place) == ToSet(Routes(File(place[1]).bases, Mapping(place)))
RouteOf(e) == <<e.method, e.path>>

\* No mapping is lost without a warning, but those no public method follows.
NothingIsSilent ==
  \A place \in Mappings :
    \/ {place, <<place[1]>>} \cap result.warnings # {}
    \/ ~Mapping(place).public
    \/ \A route \in RoutesAt(place) : \E e \in Found : e.from = place /\ RouteOf(e) = route

\* Of the mappings that share a route the first in the order of the paths is
\* kept, whatever was downloaded first.
FirstIsKept ==
  /\ Cardinality({RouteOf(e) : e \in Found}) = Len(result.endpoints)
  /\ \A e \in Found, place \in Readable :
       RouteOf(e) \in RoutesAt(place) =>
         \/ e.from[1] < place[1]
         \/ e.from[1] = place[1] /\ e.from[2] <= place[2]

\* What an endpoint and a class refer to is in the model, and a class that
\* has its name alone says what its source says.
SchemasAreFound ==
  LET classes == {i \in Candidates : IsDto(File(i)) /\ File(i).class # None}
      alone == {i \in classes : \A j \in classes \ {i} : File(j).class # File(i).class} IN
  /\ \A e \in Found : {b.schema : b \in e.bodies} \subseteq DOMAIN result.schemas
  /\ \A i \in classes : result.schemas[<<File(i).class>>].properties \subseteq DOMAIN result.schemas
  /\ \A i \in alone : \A f \in Known(File(i)) :
       /\ result.schemas[FieldId(File(i).class, f.name)] = f.type
       /\ f.required <=> f.name \in result.schemas[<<File(i).class>>].required

\* Every variable of a path is a required parameter of its endpoint.
PathsAreFilled ==
  \A e \in Found :
    Variables(e.path) \subseteq
      {p.name : p \in {q \in e.parameters : q.in = "path" /\ q.required}}

\* What is stored is the discovery in all the candidates of one commit, in one
\* order, and its manifest is in the object store (importRepository).
RepositoryIsFaithful ==
  /\ Model => NothingIsSilent /\ FirstIsKept /\ SchemasAreFound /\ PathsAreFilled
  /\ row # None => /\ row.model = result /\ row.files = manifest
                  /\ manifest = InOrder(Candidates)
=============================================================================
