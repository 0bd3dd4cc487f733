----------------------------- MODULE WorkflowRun -----------------------------
(***************************************************************************)
(* From a definition to the answer of the quality gate: a workflow version *)
(* (or a test version, or steps that are posted) is compiled, a run of its *)
(* plan is created, directly or by a schedule, the runner executes it, its *)
(* daemon uploads the events, and the gate of a suite evaluates them.      *)
(*                                                                         *)
(* The lease and the loss of messages are RunLease's: here one daemon      *)
(* executes the run once, and all its uploads arrive.  Payloads are below  *)
(* the limit over which they are stored outside the event table.           *)
(***************************************************************************)
EXTENDS WorkflowCompiler, PlanExecutor

LOCAL INSTANCE Functions

CONSTANTS
  Workflow,   \* the definitions of workflow versions
  Posted,     \* sequences of steps that a client posts
  Given,      \* other plans the protocol allows
  Tests,      \* the test versions of the workspace
  EnvNames    \* the variables of the environment's version

\* An id that the control plane makes for a step is neither of the two words.
OwnId == Id \ {RunMark, TeardownMark}

PostedStep == [refs : SUBSET Ref, extract : SUBSET Name, asserts : Seq(Severity)]

\* What is stored and posted has passed the schemas of the contracts, and
\* there are ids enough for posted steps to differ.
ASSUME InputsAreValid ==
  /\ Workflow \subseteq Definition /\ Given \subseteq ExecutionPlan
  /\ DOMAIN Tests \subseteq TestId /\ \A t \in DOMAIN Tests : Tests[t] \in Test
  /\ Posted \subseteq Seq(PostedStep)
  /\ \A steps \in Posted : \E id \in [DOMAIN steps -> OwnId] : IsInjective(id)

VARIABLES
  source,  \* the definition of the run's workflow version, or NoSource
  origin,  \* how the run was created
  status,  \* runs.status: pending until the daemon reports the verdict
  rows     \* step_events

vars == <<execVars, source, origin, status, rows>>

NoSource == [steps |-> <<>>, teardown |-> <<>>, strategy |-> "always"]
Origin == {"none", "workflow", "schedule", "test", "steps", "given"}

\* A row of step_events: the payload is the event, with its sequence number.
Row == [index : Nat, sequence : Nat, event : Event]

TypeOK ==
  /\ ExecTypeOK
  /\ source \in Workflow \cup {NoSource}
  /\ origin \in Origin
  /\ status \in {"none", "pending", "passed", "failed"}
  /\ rows \in Seq(Row)

Init ==
  /\ ExecInit
  /\ source = NoSource /\ origin = "none"
  /\ status = "none" /\ rows = <<>>

-----------------------------------------------------------------------------
(* Creating the run.                                                       *)

\* createRunFromWorkflow: the plan that publishVersion compiled, with
\* whatever references to the environment it has.
RunWorkflow(d) ==
  /\ ~Rejected(d, Tests)
  /\ Execute(CompiledPlan(d, Tests))
  /\ source' = d /\ origin' = "workflow" /\ status' = "pending"
  /\ UNCHANGED rows

EnvRefs(step) == {ref \in step.uses : ref.kind = "env"}

\* Every reference to the environment is to a variable it has.
Bindable(p) ==
  \A i \in DOMAIN p.steps : \A ref \in EnvRefs(p.steps[i]) : ref.name \in EnvNames

\* References to the environment are replaced by its values.
Bound(p) ==
  [p EXCEPT !.steps = [i \in DOMAIN p.steps |->
     [p.steps[i] EXCEPT !.uses = @ \ EnvRefs(p.steps[i])]]]

\* triggerSchedule: the same plan, bound to an environment.
RunScheduled(d) ==
  /\ ~Rejected(d, Tests)
  /\ Bindable(CompiledPlan(d, Tests))
  /\ Execute(Bound(CompiledPlan(d, Tests)))
  /\ source' = d /\ origin' = "schedule" /\ status' = "pending"
  /\ UNCHANGED rows

\* The plan of compileTestCaseVersionPlan.
TestPlan(id, test) ==
  [steps |-> <<[id |-> id, enabled |-> TRUE, cond |-> None, onFalse |-> "skip",
                uses |-> UNION {test.refs[part] : part \in DOMAIN test.refs},
                extracts |-> test.extract, asserts |-> test.asserts,
                retries |-> 0, polls |-> 1, onFailure |-> "stop"]>>,
   teardown |-> <<>>]

\* runPublishedTest: nothing may be left to resolve, and the address is one.
RunTest(id, t) ==
  LET p == TestPlan(id, Tests[t])
  IN  /\ Bindable(p)
      /\ Bound(p).steps[1].uses = {}
      /\ ~Tests[t].blank
      /\ Execute(Bound(p))
      /\ source' = NoSource /\ origin' = "test" /\ status' = "pending"
      /\ UNCHANGED rows

\* triggerSchedule, of a suite's test: only the environment is bound.
RunScheduledTest(id, t) ==
  LET p == TestPlan(id, Tests[t])
  IN  /\ Bindable(p)
      /\ Execute(Bound(p))
      /\ source' = NoSource /\ origin' = "schedule" /\ status' = "pending"
      /\ UNCHANGED rows

\* createRunFromSteps: a step's id is the run's with its position, so no two
\* are the same; nothing is checked.
StepIds(steps) == CHOOSE id \in [DOMAIN steps -> OwnId] : IsInjective(id)

PostedPlan(steps) ==
  LET id == StepIds(steps)
  IN  [steps |-> [i \in DOMAIN steps |->
         [id |-> id[i], enabled |-> TRUE, cond |-> None, onFalse |-> "skip",
          uses |-> steps[i].refs, extracts |-> steps[i].extract,
          asserts |-> steps[i].asserts,
          retries |-> 0, polls |-> 1, onFailure |-> "stop"]],
       teardown |-> <<>>]

RunSteps(steps) ==
  /\ Execute(PostedPlan(steps))
  /\ source' = NoSource /\ origin' = "steps" /\ status' = "pending"
  /\ UNCHANGED rows

\* Conditions and polling are in the protocol, and the runner executes them
\* (its tests do), but nothing in the control plane compiles them yet.
RunGiven(p) ==
  /\ Execute(p)
  /\ source' = NoSource /\ origin' = "given" /\ status' = "pending"
  /\ UNCHANGED rows

-----------------------------------------------------------------------------
(* Evidence.                                                               *)

\* The step ids of a plan, main steps first.
PlanIds(p) ==
  [i \in 1..(Len(p.steps) + Len(p.teardown)) |->
     IF i <= Len(p.steps) THEN p.steps[i].id ELSE p.teardown[i - Len(p.steps)].id]

\* Mutant of IndexOf: teardown steps are counted from 0 again.
IndexOfEach(p, id) ==
  LET main == {i \in DOMAIN p.steps : p.steps[i].id = id}
  IN  IF main # {} THEN LastOf(main) - 1
      ELSE LastOf({i \in DOMAIN p.teardown : p.teardown[i].id = id}) - 1

\* indexes.get: the last step of that id, counted from 0.
IndexOf(p, id) == LastOf({i \in DOMAIN PlanIds(p) : PlanIds(p)[i] = id}) - 1

\* mapUploadEvents: of the events of the run itself, and of the marker of the
\* teardown, are kept those whose word is the id of a step.
Uploaded(p, events) ==
  LET ids == {PlanIds(p)[i] : i \in DOMAIN PlanIds(p)}
      ofSteps == SelectSeq(events, LAMBDA e : e.id \in ids)
  IN  [k \in DOMAIN ofSteps |-> [index |-> IndexOf(p, ofSteps[k].id),
                                   sequence |-> k, event |-> ofSteps[k]]]

\* The daemon uploads the events and then reports its verdict.
Report ==
  /\ phase = "done" /\ status = "pending"
  /\ rows' = Uploaded(plan, log)
  /\ status' = Verdict
  /\ UNCHANGED <<execVars, source, origin>>

-----------------------------------------------------------------------------
(* evaluateQualityGate, of a run that was not cancelled.                   *)

Gate == [noNewFailures : BOOLEAN, blockOnInfraError : BOOLEAN,
         requiredWorkflows : BOOLEAN, requiredTags : BOOLEAN,
         maxFlakyRetries : Nat \cup {None}, minEndpointCoverage : (0..100) \cup {None}]

RowsOf(type) == {k \in DOMAIN rows : rows[k].event.type = type}
RowsWith(type, result) == {k \in RowsOf(type) : rows[k].event.result = result}

FailedBlocking ==
  {k \in RowsWith("assertion.evaluated", "failed") : rows[k].event.severity = "block"}

\* No event of the protocol has an error of the type infrastructure.
HasInfraError == FALSE

\* The field retries of step.finished is always 0.
TotalRetries == 0

\* Attempts, and a marker of the teardown that was kept, count as steps; a
\* teardown step that passes counts as a passed one.
Coverage ==
  LET started == Cardinality(RowsOf("step.started"))
      ok == Cardinality(RowsWith("step.finished", "passed"))
  IN  IF started = 0 THEN 0 ELSE (2 * 100 * ok + started) \div (2 * started)

GateResult(gate) ==
  CASE HasInfraError /\ gate.blockOnInfraError -> "INCONCLUSIVE"
    [] RowsOf("run.finished") = {} -> "INCONCLUSIVE"
    [] OTHER ->
       IF \/ gate.noNewFailures /\ FailedBlocking # {}
          \/ gate.maxFlakyRetries # None /\ TotalRetries > gate.maxFlakyRetries
          \/ gate.minEndpointCoverage # None /\ Coverage < gate.minEndpointCoverage
          \/ gate.requiredTags
          \/ gate.requiredWorkflows /\ RowsWith("run.finished", "passed") = {}
       THEN "FAILED" ELSE "PASSED"

-----------------------------------------------------------------------------
Create ==
  /\ phase = "idle"
  /\ \/ \E d \in Workflow : RunWorkflow(d) \/ RunScheduled(d)
     \/ \E id \in OwnId, t \in DOMAIN Tests : RunTest(id, t) \/ RunScheduledTest(id, t)
     \/ \E steps \in Posted : RunSteps(steps)
     \/ \E p \in Given : RunGiven(p)

Next ==
  \/ Create
  \/ ExecNext /\ UNCHANGED <<source, origin, status, rows>>
  \/ Report

Spec == Init /\ [][Next]_vars

-----------------------------------------------------------------------------
(* What the parts promise together.                                        *)

\* What the compiler accepts without a warning can be resolved when it is
\* executed: a reference to a variable stays in a request only if a step
\* before it was to produce it (and was switched off, failed or was answered
\* without it), or if it came with a test, whose references the compiler does
\* not look at.  A schedule leaves no reference to the environment, and the
\* run of a single test none at all.
UnresolvedIsExcused ==
  \A k \in DOMAIN log :
    log[k].type = "step.started" /\ log[k].part = "main" =>
      \A ref \in log[k].missing :
        /\ origin # "test"
        /\ origin = "schedule" => ref.kind # "env"
        /\ /\ source # NoSource
           /\ ref.kind = "var"
           /\ ref \in OwnRefs(source.steps[log[k].at]) \ Unproduced(source.steps)
           => \E j \in 1..(log[k].at - 1) : ref.name \in plan.steps[j].extracts

\* The evidence stored for a step is what the runner logged of it, in its
\* order, for main and teardown steps alike, when no two have one id; a step
\* whose id is one of the two words is given the events of the run, or the
\* marker of the teardown, as its own, and no other step is.
EvidenceIsOfItsStep ==
  LET ids == PlanIds(plan)
      main == Len(plan.steps)
      Of(part, i, id) ==
        SelectSeq(log, LAMBDA e : (e.part = part /\ e.at = i) \/ (e.at = 0 /\ e.id = id))
      Stored(i) == SelectSeq(rows, LAMBDA r : r.index = i - 1)
  IN  status \in {"passed", "failed"} /\ Cardinality({ids[i] : i \in DOMAIN ids}) = Len(ids) =>
        \A i \in DOMAIN ids :
          LET logged == IF i <= main THEN Of("main", i, ids[i])
                        ELSE Of("teardown", i - main, ids[i])
          IN  /\ Len(Stored(i)) = Len(logged)
              /\ \A k \in DOMAIN logged : Stored(i)[k].event = logged[k]

\* A run that passed passes a gate without criteria ("5. PASSED - all gate
\* criteria satisfied").
NoGate == [noNewFailures |-> FALSE, blockOnInfraError |-> FALSE,
           requiredWorkflows |-> FALSE, requiredTags |-> FALSE,
           maxFlakyRetries |-> None, minEndpointCoverage |-> None]
PassedRunPassesGate == status = "passed" => GateResult(NoGate) = "PASSED"
=============================================================================
