--------------------------- MODULE WorkflowEditor ---------------------------
(***************************************************************************)
(* The workflow editor of the web application (stores/workflowStore.ts,    *)
(* pages/Workflows): one tab that opens, edits, saves, publishes and runs  *)
(* workflows.  The answer to a call arrives at any time after it was sent, *)
(* and meanwhile the user goes on.                                         *)
(*                                                                         *)
(* A step of a definition is [id, form, method, url, headers, extract,     *)
(* asserts, rest]: form says where its request stands, flat in the step,   *)
(* inline below useTest, or a reference to a test ("test" or "id").  The   *)
(* editor shows a step as [id, method, path, headers, reference, variable, *)
(* expression, status, assertion].  None stands for what is absent.        *)
(***************************************************************************)
EXTENDS Integers, SequencesExt, FiniteSetsExt, TLC

CONSTANTS
  FirstDefinitions,  \* the steps of the first version of every workflow there is
  Patches,           \* records of the fields that are entered for a step
  NewSteps,          \* steps that are added, as they are shown
  NewWorkflows,      \* workflows that may be created
  MaxVersions,       \* bound: versions of all workflows
  MaxActions,        \* bound: edits and clicks in all
  None

VARIABLES
  stored,     \* per workflow, the versions of the server, [steps, plan, base, shown]:
              \* base and shown are what a version was made from
  store,      \* the state of the store; own, whether its steps were read from the
              \* version that is active or from one it was saved from
  calls,      \* the calls that are under way
  actions     \* how often the user did something

vars == <<stored, store, calls, actions>>

(* What the editor shows of a definition.                                   *)

AsMethod(method) == IF method = None THEN "GET" ELSE method

FirstWhere(list, Test(_)) ==
  LET found == {i \in DOMAIN list : Test(list[i])} IN
  IF found = {} THEN 0 ELSE Min(found)

IsStatus(assert) == assert.target = "status"
IsOther(assert) == assert.target # "status"

View(step) ==
  LET status == FirstWhere(step.asserts, IsStatus)
      other == FirstWhere(step.asserts, IsOther)
  IN [id |-> step.id, method |-> AsMethod(step.method),
      path |-> IF step.url = None THEN "" ELSE step.url, headers |-> step.headers,
      reference |-> step.form \in {"test", "id"},
      variable |-> IF step.extract = <<>> THEN "" ELSE step.extract[1].name,
      expression |-> IF step.extract = <<>> THEN "" ELSE step.extract[1].path,
      status |-> IF status = 0 \/ step.asserts[status].value = None THEN 200
                 ELSE step.asserts[status].value,
      assertion |-> IF other = 0 \/ step.asserts[other].path = None THEN ""
                    ELSE step.asserts[other].path]

DefinitionToSteps(steps) == [i \in DOMAIN steps |-> View(steps[i])]

(* What is saved of what is shown: fields that did not change keep what the *)
(* definition says.                                                         *)

NoStep(id) == [id |-> id, form |-> "flat", method |-> None, url |-> None, headers |-> <<>>,
               extract |-> <<>>, asserts |-> <<>>, rest |-> None]

RequestOf(step, shown, before) ==
  LET new == before = None
      Changed(field) == new \/ shown[field] # before[field]
  IN IF shown.reference THEN step
     ELSE [step EXCEPT
            !.method = IF Changed("method") THEN shown.method ELSE @,
            !.url = IF Changed("path") THEN shown.path ELSE @,
            !.headers = IF Changed("headers") THEN shown.headers ELSE @]

ExtractOf(old, shown) ==
  LET rest == IF old = <<>> THEN <<>> ELSE Tail(old)
      path == IF shown.expression = "" THEN "$" ELSE shown.expression
      more == IF old = <<>> THEN None ELSE old[1].more
  IN IF shown.variable = "" THEN rest
     ELSE <<[name |-> shown.variable, path |-> path, source |-> "body", more |-> more]>>
          \o rest

\* The first assertion of its kind is changed, or one is added.
Put(asserts, at, NewAssert(_)) ==
  IF at = 0
  THEN Append(asserts, NewAssert([target |-> None, path |-> None, operator |-> None,
                                  value |-> None, more |-> None]))
  ELSE [asserts EXCEPT ![at] = NewAssert(@)]

StatusAssert(asserts, shown) ==
  LET New(old) ==
        [old EXCEPT !.target = "status", !.operator = "equals", !.value = shown.status]
  IN Put(asserts, FirstWhere(asserts, IsStatus), New)

\* Mutant of BodyAssert: the first assertion is changed whatever its target.
BodyAssertFirst(asserts, shown) ==
  LET at == IF asserts = <<>> THEN 0 ELSE 1
      New(old) ==
        [old EXCEPT !.target = "jsonPath", !.operator = "exists", !.path = shown.assertion]
  IN IF shown.assertion # "" THEN Put(asserts, at, New)
     ELSE IF at = 0 THEN asserts ELSE RemoveAt(asserts, at)

BodyAssert(asserts, shown) ==
  LET at == FirstWhere(asserts, IsOther)
      New(old) ==
        [old EXCEPT !.target = "jsonPath", !.operator = "exists", !.path = shown.assertion]
  IN IF shown.assertion # "" THEN Put(asserts, at, New)
     ELSE IF at = 0 THEN asserts ELSE RemoveAt(asserts, at)

SaveStep(shown, raw, before, canonical) ==
  LET new == before = None
      old == IF raw = None THEN NoStep(shown.id) ELSE raw
      Changed(field) == new \/ shown[field] # before[field]
      status == IF Changed("status") THEN StatusAssert(old.asserts, shown) ELSE old.asserts
  IN [RequestOf(old, shown, before) EXCEPT
       !.form = IF new /\ canonical THEN "inline" ELSE @,
       !.extract = IF Changed("variable") \/ Changed("expression")
                   THEN ExtractOf(@, shown) ELSE @,
       !.asserts = IF Changed("assertion") THEN BodyAssert(status, shown) ELSE status]

StepOf(steps, id) ==
  LET found == {i \in DOMAIN steps : steps[i].id = id} IN
  IF found = {} THEN None ELSE steps[Max(found)]

BeforeOf(base, id) == IF StepOf(base, id) = None THEN None ELSE View(StepOf(base, id))

\* The header names of a changed step are given, once each.
RefusesHeaders(shown, before) ==
  /\ ~shown.reference
  /\ shown.headers # (IF before = None THEN <<>> ELSE before.headers)
  /\ \/ \E i \in DOMAIN shown.headers : shown.headers[i][1] = ""
     \/ ~IsInjective([i \in DOMAIN shown.headers |-> shown.headers[i][1]])

RefusesRequest(shown, before) ==
  /\ shown.reference /\ before # None
  /\ shown.path # before.path \/ shown.method # before.method

Refuses(steps, base) ==
  \E i \in DOMAIN steps :
    LET before == BeforeOf(base, steps[i].id) IN
    RefusesHeaders(steps[i], before) \/ RefusesRequest(steps[i], before)

StepsToDefinition(steps, base) ==
  LET canonical == \E i \in DOMAIN base : base[i].form \in {"inline", "test"} IN
  [i \in DOMAIN steps |->
    SaveStep(steps[i], StepOf(base, steps[i].id), BeforeOf(base, steps[i].id), canonical)]

(* The store.  The id of a version is <<workflow, number>>.                  *)

Closed == [open |-> None, workflow |-> None, active |-> None, versions |-> <<>>,
           steps |-> <<>>, selected |-> None, logs |-> {}, run |-> "idle",
           saving |-> FALSE, publishing |-> FALSE, running |-> FALSE, own |-> FALSE]

VersionOf(id) ==
  LET found == {i \in DOMAIN store.versions : store.versions[i].id = id} IN
  IF found = {} THEN None ELSE store.versions[Min(found)]

IsShown == store.open # None /\ store.workflow # None

\* What the inspector shows: the step with the selected id, or else the first.
SelectedId ==
  CASE \E i \in DOMAIN store.steps : store.steps[i].id = store.selected -> store.selected
    [] store.steps = <<>> -> None
    [] OTHER -> store.steps[1].id

\* The fields of the inspector that are enabled for a step.
EnabledFields(step) ==
  {"variable", "expression", "status", "assertion"}
  \cup (IF step.reference THEN {} ELSE {"method", "path", "headers"})

IsBusy == store.saving \/ store.publishing

\* A call is sent, the server acts on it, and its answer arrives; or it fails
\* before or after the server acted.
NewCall(kind, of) ==
  [kind |-> kind, of |-> of, steps |-> <<>>, base |-> <<>>, shown |-> <<>>,
   publish |-> FALSE, served |-> FALSE, version |-> None, versions |-> <<>>]

\* The user does something.
Act == actions < MaxActions /\ actions' = actions + 1

Call(call) == Act /\ calls' = Append(calls, call)
Waiting(kind) == {i \in DOMAIN calls : calls[i].kind = kind}
Unserved(kind) == {i \in Waiting(kind) : ~calls[i].served}
Received(i) == calls' = RemoveAt(calls, i)

\* Whether a call is answered with success.
Outcomes(i) == IF calls[i].served THEN BOOLEAN ELSE {FALSE}

\* The page of a workflow is shown, of the one that is open too.
OpenWorkflow ==
  /\ \E w \in DOMAIN stored :
       store' = [store EXCEPT !.open = w] /\ Call(NewCall("open", w))
  /\ UNCHANGED stored

\* listWorkflowVersions: the newest version first.
ListVersions(w) ==
  Reverse([n \in DOMAIN stored[w] |->
    [id |-> <<w, n>>, steps |-> stored[w][n].steps, plan |-> stored[w][n].plan]])

ServeOpen ==
  /\ \E i \in Unserved("open") :
       calls' = [calls EXCEPT ![i].served = TRUE, ![i].versions = ListVersions(calls[i].of)]
  /\ UNCHANGED <<stored, store, actions>>

Opened ==
  /\ \E i \in Waiting("open") : \E succeeds \in Outcomes(i) :
       LET versions == calls[i].versions
           steps == IF versions = <<>> THEN <<>> ELSE DefinitionToSteps(versions[1].steps)
       IN
       /\ Received(i)
       /\ store' = IF succeeds
                   THEN [store EXCEPT !.workflow = calls[i].of, !.versions = versions,
                                      !.active = IF versions = <<>> THEN None
                                                 ELSE versions[1].id,
                                      !.steps = steps, !.run = "idle",
                                      !.selected = IF steps = <<>> THEN None
                                                   ELSE steps[1].id,
                                      !.logs = {steps[n].id : n \in DOMAIN steps},
                                      !.own = Waiting("save") \cup Waiting("publish") = {}]
                   ELSE [store EXCEPT !.open = None, !.workflow = None]
  /\ UNCHANGED <<stored, actions>>

BackToList ==
  /\ store.open # None /\ Act
  /\ store' = [Closed EXCEPT !.saving = store.saving, !.publishing = store.publishing,
                             !.running = store.running]
  /\ UNCHANGED <<stored, calls>>

(* The list of workflows, and a new one, which has no version.             *)

CreateWorkflow ==
  /\ store.open = None /\ ~store.saving
  /\ Call(NewCall("create", None))
  /\ store' = [store EXCEPT !.saving = TRUE]
  /\ UNCHANGED stored

ServeCreate ==
  /\ \E i \in Unserved("create"), w \in NewWorkflows \ DOMAIN stored :
       /\ stored' = [v \in DOMAIN stored \cup {w} |-> IF v = w THEN <<>> ELSE stored[v]]
       /\ calls' = [calls EXCEPT ![i].served = TRUE, ![i].of = w]
  /\ UNCHANGED <<store, actions>>

\* The page goes on to the new workflow.
Created ==
  /\ \E i \in Waiting("create") : \E succeeds \in Outcomes(i) :
       /\ calls' = IF succeeds
                   THEN [calls EXCEPT ![i] = NewCall("open", calls[i].of)]
                   ELSE RemoveAt(calls, i)
       /\ store' = IF succeeds
                   THEN [store EXCEPT !.saving = FALSE, !.open = calls[i].of]
                   ELSE [store EXCEPT !.saving = FALSE]
  /\ UNCHANGED <<stored, actions>>

(* The steps: one is selected on the canvas or in the log, which still      *)
(* lists the steps of the opening, and the inspector edits or deletes it.   *)

SelectStep ==
  /\ IsShown
  /\ \E id \in store.logs \cup {store.steps[i].id : i \in DOMAIN store.steps} :
       store' = [store EXCEPT !.selected = id]
  /\ UNCHANGED <<stored, calls, actions>>

UpdateSelected ==
  /\ IsShown /\ Act /\ store.steps # <<>>
  /\ \E patch \in Patches :
       /\ DOMAIN patch \subseteq EnabledFields(StepOf(store.steps, SelectedId))
       /\ store' = [store EXCEPT !.steps = [i \in DOMAIN @ |->
            IF @[i].id = SelectedId THEN patch @@ @[i] ELSE @[i]]]
  /\ UNCHANGED <<stored, calls>>

\* Its id is the time, which no step has yet.
HandleEndpointSelect ==
  /\ IsShown /\ Act
  /\ \E step \in NewSteps :
       /\ \A i \in DOMAIN store.steps : store.steps[i].id # step.id
       /\ \A v \in ToSet(store.versions) : StepOf(v.steps, step.id) = None
       /\ store' = [store EXCEPT !.steps = Append(@, step), !.selected = step.id]
  /\ UNCHANGED <<stored, calls>>

PlaceOf(id) == FirstWhere(store.steps, LAMBDA step : step.id = id)
StepsWithout(id) == SelectSeq(store.steps, LAMBDA step : step.id # id)

\* The step before the deleted one is selected then.
DeleteStep ==
  LET at == PlaceOf(SelectedId)
      rest == StepsWithout(SelectedId)
  IN
  /\ IsShown /\ Act /\ Len(store.steps) > 1
  /\ store' = [store EXCEPT !.steps = rest,
                            !.selected = rest[IF at > 2 THEN at - 1 ELSE 1].id]
  /\ UNCHANGED <<stored, calls>>

(* Saving and publishing.  What is saved is made of the steps and of the    *)
(* active version as they are now.                                          *)

SaveDraft ==
  LET version == VersionOf(store.active)
      base == IF version = None THEN <<>> ELSE version.steps
  IN
  /\ IsShown /\ ~IsBusy /\ store.steps # <<>> /\ ~Refuses(store.steps, base)
  /\ \E publish \in BOOLEAN :
       Call([NewCall("save", store.open) EXCEPT
              !.steps = StepsToDefinition(store.steps, base),
              !.base = IF store.own /\ store.workflow = store.open THEN base ELSE None,
              !.shown = store.steps, !.publish = publish])
  /\ store' = [store EXCEPT !.saving = TRUE]
  /\ UNCHANGED stored

VersionCount == MapThenSumSet(LAMBDA w : Len(stored[w]), DOMAIN stored)

Insert(w, steps, base, shown) ==
  /\ VersionCount < MaxVersions
  /\ stored' = [stored EXCEPT ![w] =
       Append(@, [steps |-> steps, plan |-> FALSE, base |-> base, shown |-> shown])]

ServeSave ==
  /\ \E i \in Unserved("save") :
       LET call == calls[i] IN
       /\ Insert(call.of, call.steps, call.base, call.shown)
       /\ calls' = [calls EXCEPT ![i].served = TRUE,
                                 ![i].version = <<call.of, Len(stored[call.of]) + 1>>]
  /\ UNCHANGED <<store, actions>>

\* publishDraft goes on to publish what was saved.
Saved ==
  /\ \E i \in Waiting("save") : \E succeeds \in Outcomes(i) :
       LET call == calls[i]
           version == [id |-> call.version, steps |-> call.steps, plan |-> FALSE]
           publishes == call.publish /\ succeeds
       IN
       /\ calls' = IF publishes
                   THEN [calls EXCEPT ![i] =
                          [NewCall("publish", version.id) EXCEPT !.steps = call.steps]]
                   ELSE RemoveAt(calls, i)
       /\ store' = IF succeeds
                   THEN [store EXCEPT !.versions = <<version>> \o @, !.active = version.id,
                                      !.saving = FALSE, !.publishing = publishes]
                   ELSE [store EXCEPT !.saving = FALSE]
  /\ UNCHANGED <<stored, actions>>

\* The server publishes, unless the definition does not compile, and its answer
\* arrives or does not.
ServedPublish(id) == stored' = [stored EXCEPT ![id[1]][id[2]].plan = TRUE]

Published ==
  /\ \E i \in Waiting("publish") :
       LET published == [id |-> calls[i].of, steps |-> calls[i].steps, plan |-> TRUE] IN
       /\ Received(i) /\ ServedPublish(published.id)
       /\ store' = [store EXCEPT !.publishing = FALSE, !.active = published.id, !.versions =
            [n \in DOMAIN @ |-> IF @[n].id = published.id THEN published ELSE @[n]]]
  /\ UNCHANGED actions

PublishFailed ==
  /\ \E i \in Waiting("publish") :
       Received(i) /\ (ServedPublish(calls[i].of) \/ UNCHANGED stored)
  /\ store' = [store EXCEPT !.publishing = FALSE]
  /\ UNCHANGED actions

(* Running: the run is created and then asked for until it ends.            *)

RunWorkflow ==
  /\ IsShown /\ store.run # "running" /\ ~store.running
  /\ VersionOf(store.active) # None /\ VersionOf(store.active).plan
  /\ Call(NewCall("run", store.active))
  /\ store' = [store EXCEPT !.running = TRUE, !.run = "running"]
  /\ UNCHANGED stored

RunCreated ==
  /\ \E i \in Waiting("run") : calls' = [calls EXCEPT ![i].kind = "poll"]
  /\ UNCHANGED <<stored, store, actions>>

\* The run passed or failed, or a call failed, or the run goes on after it was
\* asked for thirty times.
RunFollowed ==
  /\ \E i \in Waiting("run") \cup Waiting("poll") :
       /\ Received(i)
       /\ \E run \in {"ended"} \cup (IF calls[i].kind = "poll" THEN {store.run} ELSE {}) :
            store' = [store EXCEPT !.running = FALSE, !.run = run]
  /\ UNCHANGED <<stored, actions>>

Init ==
  /\ \E first \in FirstDefinitions :
       stored = [w \in DOMAIN first |->
         <<[steps |-> first[w], plan |-> FALSE, base |-> first[w],
            shown |-> DefinitionToSteps(first[w])]>>]
  /\ store = Closed /\ calls = <<>> /\ actions = 0

Next ==
  \/ OpenWorkflow \/ ServeOpen \/ Opened \/ BackToList
  \/ CreateWorkflow \/ ServeCreate \/ Created
  \/ SelectStep \/ UpdateSelected \/ HandleEndpointSelect \/ DeleteStep
  \/ SaveDraft \/ ServeSave \/ Saved \/ Published \/ PublishFailed
  \/ RunWorkflow \/ RunCreated \/ RunFollowed

Spec == Init /\ [][Next]_vars

Others(asserts) == SelectSeq(asserts, IsOther)
Statuses(asserts) == SelectSeq(asserts, IsStatus)
AfterFirst(list) == IF list = <<>> THEN <<>> ELSE Tail(list)

\* What a step that is saved must have of the step before it.
Keeps(step, old, shown, before) ==
  /\ step.rest = old.rest /\ step.form = old.form
  /\ AfterFirst(step.extract) = AfterFirst(old.extract) \/ shown.variable = ""
  /\ AfterFirst(Statuses(step.asserts)) = AfterFirst(Statuses(old.asserts))
  /\ AfterFirst(Others(step.asserts)) = AfterFirst(Others(old.asserts)) \/ shown.assertion = ""
  /\ shown.status = before.status => Statuses(step.asserts) = Statuses(old.asserts)
  /\ shown.assertion = before.assertion => Others(step.asserts) = Others(old.asserts)
  /\ shown.method = before.method => step.method = old.method
  /\ shown.path = before.path => step.url = old.url

(* A version that is saved shows, when it is opened again, what the editor  *)
(* showed, and has every field of the version it was made from that the     *)
(* form does not show or that was not changed: the further extractions and  *)
(* assertions, the place of the request, and whole steps nobody touched.    *)
(* Nothing is said of what is made of steps and a version that do not belong *)
(* together: of two workflows, or of an opening that a save was overtaken by.*)
EditsAreExact ==
  \A w \in DOMAIN stored : \A v \in {v \in ToSet(stored[w]) : v.base # None} :
    /\ Len(v.steps) = Len(v.shown)
    /\ \A i \in DOMAIN v.steps :
         LET old == StepOf(v.base, v.shown[i].id)
             before == BeforeOf(v.base, v.shown[i].id)
             now == View(v.steps[i])
         IN /\ old # None => IF v.shown[i] = before THEN v.steps[i] = old
                             ELSE Keeps(v.steps[i], old, v.shown[i], before)
            /\ \A f \in {"id", "method", "path", "headers", "status", "reference"} :
                 now[f] = v.shown[i][f]
            /\ v.shown[i].variable # "" => now.variable = v.shown[i].variable
            /\ v.shown[i].assertion # "" => now.assertion = v.shown[i].assertion

(* What the store holds of a version is what the server holds, in whatever  *)
(* order answers arrive and whatever was opened meanwhile; a version that    *)
(* it takes for published is, so that only published versions are run, one   *)
(* at a time.                                                               *)
StoreIsTrue ==
  /\ \A v \in ToSet(store.versions) :
       LET there == stored[v.id[1]][v.id[2]] IN
       v.steps = there.steps /\ (v.plan => there.plan)
  /\ \A i \in Waiting("run") : stored[calls[i].of[1]][calls[i].of[2]].plan
  /\ Cardinality(Waiting("run") \cup Waiting("poll")) <= 1

EditorIsFaithful == EditsAreExact /\ StoreIsTrue
=============================================================================
