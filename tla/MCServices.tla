---------------------------- MODULE MCServices ----------------------------
(***************************************************************************)
(* Instances of Startup, TestAuthoring, DraftGenerator, VersionedAssets,   *)
(* ApiImport, Arazzo, Raml, Postman, Har, RepositoryImport, Access,        *)
(* RunnerRegistry, Policies, CronExpression, DatasetImport,                *)
(* EnvironmentPage, AnswerJudge and WorkflowEditor for TLC.                *)
(* A behaviour is one of one of them, chosen at the beginning by "part",   *)
(* while the others stay in an initial state; the later ones use the same  *)
(* variables, from document to again.                                      *)
(***************************************************************************)
EXTENDS Startup, TestAuthoring, Access, RunnerRegistry, VersionedAssets, SequencesExt

CONSTANTS AllowedHosts, MaxRedirects, Readers, MaxFiles, MaxFileSize, MaxTotalSize

VARIABLES
  part,
  endpoint, strategy, done, drafts,
  pair, at, objects, imported, changes,
  document, stage, read, written, again

Inputs == INSTANCE MCInputs

\* Two releases one of which extends the other, and one that was rebased.
ThreeReleases == {<<"a">>, <<"a", "b">>, <<"x", "b">>}

OneJob == [d \in Draft |-> CHOOSE j \in Job : TRUE]

\* Access: two workspaces.  RunnerRegistry: one runner of one of them.
FirstUsersOf == Inputs!PlatformUsers
FirstRowsOf == Inputs!PlatformRows
RowsOf == DOMAIN Inputs!PlatformRows
GuestOf == Inputs!PlatformGuest
WorkspacesOf == Inputs!WorkspaceOfThing

(* Endpoints: the schema of field "a" takes every form, alone or composed  *)
(* with "part"; the body is composed with "more" or not, and may require a *)
(* field that it does not declare or whose schema is gone.                 *)

Schema(type, lo, hi, xlo, xhi) ==
  [type |-> type, lo |-> lo, hi |-> hi, xlo |-> xlo, xhi |-> xhi,
   offers |-> None, format |-> None, items |-> None, properties |-> <<>>, required |-> {},
   allOf |-> <<>>]
Plain(type, lo, hi) == Schema(type, lo, hi, FALSE, FALSE)

Numbers ==
  {s \in {Schema("number", lo, hi, xlo, xhi) :
            lo \in {None, 0, 2}, hi \in {None, 0, 3}, xlo, xhi \in BOOLEAN} :
     (s.xlo => s.lo # None) /\ (s.xhi => s.hi # None)}

FieldSchemas ==
  Numbers
  \cup {Plain("string", lo, hi) : lo \in {None, 0, 2, 101}, hi \in {None, 2}}
  \cup {[Plain("array", lo, hi) EXCEPT !.items = i] :
          lo \in {None, 0, 2}, hi \in {None, 2}, i \in {None, "part"}}
  \cup {Plain("boolean", None, None), Plain(None, None, None)}
  \cup {[Plain("string", 2, None) EXCEPT !.offers = [kind |-> "string", size |-> 3]]}

Parts == {Plain("string", 3, None), Schema("number", 1, None, TRUE, FALSE)}

Bodies ==
  {[Plain(type, None, None) EXCEPT
      !.properties = ("a" :> "field") @@ ("b" :> b), !.required = required, !.allOf = all] :
     type \in {"object", None}, b \in {"part", "gone"},
     required \in {{}, {"a"}, {"a", "b"}, {"c"}}, all \in {<<>>, <<"more">>}}

More == [Plain("object", None, None) EXCEPT
           !.properties = "b" :> "part", !.required = {"b"}]

Parameter(name, in, required) ==
  [name |-> name, in |-> in, required |-> required, schema |-> None, example |-> None]

Segment(text, fill) == [text |-> text, fill |-> fill]
UsersPath == <<Segment("users", FALSE), Segment("id", TRUE)>>

\* Placeholders that are declared, or not, or twice, in the path or elsewhere.
Paths ==
  {<<Segment("users", FALSE)>>, UsersPath,
   UsersPath \o <<Segment("at", TRUE), Segment("id", TRUE)>>}

PathParameters ==
  {<<>>, <<Parameter("id", "query", FALSE)>>}
  \cup {<<[Parameter("id", "path", TRUE) EXCEPT !.example = x, !.schema = r],
          Parameter("at", "path", TRUE)>> :
         x \in {None, "7"}, r \in {None, "text", "uuid", "number", "gone"}}

ParameterSchemas ==
  ("text" :> Plain("string", None, None)) @@ ("number" :> Plain("number", None, None))
  @@ ("uuid" :> [Plain("string", None, None) EXCEPT !.format = "uuid"])

Endpoints ==
  {[method |-> "POST", path |-> UsersPath, body |-> "body", media |-> <<"form", "json">>,
    parameters |-> <<Parameter("id", "path", TRUE), Parameter("q", "query", TRUE)>>,
    examples |-> {}, responses |-> <<404, 201>>,
    schemas |-> ("body" :> b) @@ ("field" :> f) @@ ("part" :> p) @@ ("more" :> More)] :
     b \in Bodies, p \in Parts,
     f \in UNION {{s, [s EXCEPT !.allOf = <<"part">>]} : s \in FieldSchemas}}
  \cup {[method |-> m, path |-> path, body |-> b.body, media |-> b.media,
         parameters |-> ps, responses |-> <<200, 500>>, schemas |-> ParameterSchemas,
         examples |-> {[media |-> b.media[1], value |-> [kind |-> "string", size |-> 1]] :
                         x \in IF b.media = <<>> THEN {} ELSE {1}}] :
          m \in {"GET", "DELETE"}, path \in Paths, ps \in PathParameters,
          b \in {[body |-> None, media |-> <<>>], [body |-> "text", media |-> <<>>],
                [body |-> "text", media |-> <<"text", "json">>]}}

Generator == INSTANCE DraftGenerator
ASSUME EndpointsAreTyped == \A ep \in Endpoints : Generator!IsEndpointDef(ep)
Imports == INSTANCE ApiImport WITH
  versions <- imported, Pairs <- Inputs!DocumentPairs,
  Normalized <- Inputs!RawPathNormalized,
  MediaKey <- Inputs!MediaTypeKey, IllegalNames <- {"n[]", "$querystring"}
Workflows == INSTANCE Arazzo WITH
  case <- document, imported <- read, exported <- written,
  Cases <- Inputs!ArazzoCases, BeginsWith <- Inputs!NamePrefixes,
  IllegalNames <- {"a b"}

RamlImport == INSTANCE Raml WITH result <- read, RamlInputs <- Inputs!RamlDocuments

PostmanImport == INSTANCE Postman WITH
  result <- read, objects <- written, row <- again,
  PostmanInputs <- Inputs!PostmanImports

HarImport == INSTANCE Har WITH result <- read, Recordings <- Inputs!AllRecordings
Discovery == INSTANCE RepositoryImport WITH
  repository <- document, download <- stage, result <- read, manifest <- written,
  row <- again, Repositories <- Inputs!AllRepositories

Rules == INSTANCE Policies WITH
  policies <- document, Policy <- Reviewer, RuleLists <- Inputs!SomeRuleLists,
  Priorities <- Inputs!SomePriorities, Questions <- Inputs!SomeQuestions
Cron == INSTANCE CronExpression WITH
  cron <- document, Expressions <- Inputs!CronExpressions,
  Minutes <- Inputs!SomeMinutes
Environments == INSTANCE EnvironmentPage WITH
  server <- document, page <- read, fetch <- stage, dialog <- written, call <- again,
  Env <- {"a", "b"}, FirstVersion <- Inputs!GatedVersion,
  Elsewhere <- {Inputs!OpenVersion}, Typed <- Inputs!TypedForms, MaxVersions <- 4
Answers == INSTANCE AnswerJudge WITH
  exchange <- document, body <- read, evidence <- written, outcome <- again,
  Exchanges <- Inputs!SomeExchanges, SensitiveFields <- {"token"},
  SensitiveHeaders <- {"set-cookie"}, Lower <- Inputs!LowerNames
Imported == INSTANCE DatasetImport WITH result <- read, Tables <- Inputs!SomeTables
Workspaces == INSTANCE WorkflowEditor WITH
  stored <- document, store <- read, calls <- written, actions <- again,
  FirstDefinitions <- Inputs!FirstVersions, Patches <- Inputs!StepPatches,
  NewSteps <- Inputs!AddedSteps, NewWorkflows <- {"C"}, MaxVersions <- 3, MaxActions <- 4

\* Ids that may still be drawn: what happens to a dataset, to environments and
\* suites, to workflows and suites, and to two workflows.
FreshIds ==
  LET one == {CHOOSE w \in Workflow : TRUE} IN
  {Dataset, Environment \cup Suite, one \cup Suite, Workflow}

generatorVars == <<endpoint, strategy, done, drafts>>
importVars == <<pair, at, objects, imported, changes>>
documentVars == <<document, stage, read, written, again>>
\* The variables of the modules that are extended.
extendedVars == <<vars, authoringVars, accessVars, registryVars, assetVars>>
servicesVars == <<extendedVars, generatorVars, importVars, documentVars, part>>

\* Two editors without a generation, or one and a generation.
FewAtATime ==
  \/ (\A e \in Editor : edit[e] = Idle) /\ (\A j \in Job : job[j] = "failed")
  \/ /\ \E e \in Editor : edit = [f \in Editor |-> IF f = e THEN Idle ELSE Absent]
     /\ \A j \in Job : job[j] = "absent"

ServicesInit ==
  /\ part \in {"startup", "authoring", "generator", "import", "assets", "arazzo", "raml",
              "postman", "har", "repository", "access", "registry", "policies", "cron",
              "editor", "dataset", "environments", "answers"}
  /\ Init /\ (part # "startup" => release = [i \in Instance |-> <<"a">>])
  /\ AuthoringInit /\ FewAtATime /\ (part # "authoring" => \A j \in Job : job[j] = "failed")
  /\ IF part = "generator" THEN Generator!Init
     ELSE /\ endpoint = None /\ strategy = None
          /\ done = FALSE /\ drafts = {}
  /\ IF part = "import" THEN Imports!Init
     ELSE /\ pair = <<>> /\ at = None /\ changes = None
          /\ objects = {} /\ imported = <<>>
  /\ AccessInit /\ RegistryInit
  /\ \E fresh \in FreshIds :
       /\ part # "assets" => fresh = Dataset
       /\ inserted = Asset \ fresh
  /\ assets = {} /\ schedules = {}
  /\ stored = [a \in Asset |-> <<>>]
  /\ saved = [a \in Asset |-> 0] /\ deletions = [a \in Asset |-> 0]
  /\ saving = [q \in Request |-> NoSave]
  /\ CASE part = "arazzo" -> Workflows!Init
       [] part = "raml" -> RamlImport!Init
       [] part = "postman" -> PostmanImport!Init
       [] part = "har" -> HarImport!Init
       [] part = "repository" -> Discovery!Init
       [] part = "policies" -> Rules!Init /\ read = None
       [] part = "cron" -> Cron!Init /\ read = None
       [] part = "editor" -> Workspaces!Init
       [] part = "dataset" -> Imported!Init
       [] part = "environments" -> Environments!Init
       [] part = "answers" -> Answers!Init
       [] OTHER -> document = <<>> /\ read = None
  /\ part \notin {"arazzo", "postman", "repository", "editor", "environments", "answers"} =>
       written = None /\ again = None
  /\ part \notin {"arazzo", "repository", "environments", "answers"} => stage = None

ServicesNext ==
  \/ /\ UNCHANGED <<generatorVars, importVars, documentVars, part>>
     /\ \/ /\ part = "startup" /\ Next
           /\ UNCHANGED <<authoringVars, accessVars, registryVars, assetVars>>
        \/ /\ part = "authoring" /\ AuthoringNext
           /\ UNCHANGED <<vars, accessVars, registryVars, assetVars>>
        \/ /\ part = "access" /\ AccessNext
           /\ UNCHANGED <<vars, authoringVars, registryVars, assetVars>>
        \/ /\ part = "registry" /\ RegistryNext
           /\ UNCHANGED <<vars, authoringVars, accessVars, assetVars>>
        \/ /\ part = "assets" /\ AssetsNext
           /\ UNCHANGED <<vars, authoringVars, accessVars, registryVars>>
  \/ /\ part = "generator" /\ Generator!Next
     /\ UNCHANGED <<extendedVars, importVars, documentVars, part>>
  \/ /\ part = "import" /\ Imports!Next
     /\ UNCHANGED <<extendedVars, generatorVars, documentVars, part>>
  \/ /\ part \notin {"startup", "authoring", "access", "registry", "assets", "generator", "import"}
     /\ UNCHANGED <<extendedVars, generatorVars, importVars, part>>
     /\ \/ part = "arazzo" /\ Workflows!Next
        \/ part = "raml" /\ RamlImport!Next /\ UNCHANGED <<stage, written, again>>
        \/ part = "postman" /\ PostmanImport!Next /\ UNCHANGED stage
        \/ part = "har" /\ HarImport!Next /\ UNCHANGED <<stage, written, again>>
        \/ part = "repository" /\ Discovery!Next
        \/ part = "policies" /\ Rules!Next /\ UNCHANGED <<stage, read, written, again>>
        \/ part = "cron" /\ Cron!Next /\ UNCHANGED <<stage, read, written, again>>
        \/ part = "dataset" /\ Imported!Next /\ UNCHANGED <<stage, written, again>>
        \/ part = "environments" /\ Environments!Next
        \/ part = "answers" /\ Answers!Next
        \/ part = "editor" /\ Workspaces!Next /\ UNCHANGED stage

ServicesSpec == ServicesInit /\ [][ServicesNext]_servicesVars

\* DraftGenerator: negative drafts are rejected, the happy path is accepted
\* by the schema, and a draft can be accepted as it is by its reviewer.
DraftsAreTrue == Generator!DraftsAreTrue /\ Generator!DraftsAreAcceptable

\* ApiImport: a stored version says what its document says, and a comparison
\* that calls nothing breaking is right.  The document of
\* one endpoint, imported, is that endpoint.
ImportIsFaithful ==
  part = "import" => Imports!ImportIsFaithful /\ Imports!DefinitionsAreFaithful

\* Arazzo: what an imported workflow sends is what its document asks for, and
\* an export is read back as the same workflow.  Raml: the types, bodies and
\* methods of a document are found again by the references of its model.
\* Postman: what a collection says, its endpoints and its execution model say.
\* Har: the recorded requests are the endpoints, each at its place of the log.
\* DatasetImport: what is read of a dataset is the table its CSV was written of.
FormatsAreFaithful ==
  /\ part = "arazzo" => Workflows!ArazzoIsFaithful
  /\ part = "raml" => RamlImport!RamlIsFaithful
  /\ part = "postman" => PostmanImport!PostmanIsFaithful
  /\ part = "har" => HarImport!HarIsFaithful
  /\ part = "dataset" => Imported!DatasetIsFaithful

\* RepositoryImport: what is stored is discovered in all the sources of one
\* commit, whatever the order in which they arrive.
RepositoryIsFaithful == part = "repository" => Discovery!RepositoryIsFaithful

\* Policies: the rule that decides is one that no other applicable one precedes.
\* AnswerJudge: an assertion holds if and only if it is true of the answer, and
\* the evidence is the answer without what is sensitive.
JudgementsAreRight ==
  /\ part = "policies" => Rules!DecisionIsOfTopRule
  /\ part = "answers" => Answers!AnswerIsJudged

\* CronExpression: an expression that is accepted is due when it says.
AcceptedIsDue == part = "cron" => Cron!AcceptedIsDue

\* WorkflowEditor: a version that is saved differs by the edits from the one it
\* was made of, and the store says of versions what the server says.
\* EnvironmentPage: the same of environments and their versions.
EditorIsFaithful ==
  /\ part = "editor" => Workspaces!EditorIsFaithful
  /\ part = "environments" => Environments!PageIsFaithful

Symmetry ==
  Permutations(Case) \cup Permutations(Editor) \cup Permutations(Reviewer)
=============================================================================
