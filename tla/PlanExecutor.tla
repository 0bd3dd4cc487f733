---------------------------- MODULE PlanExecutor ----------------------------
(***************************************************************************)
(* executePlan of the runner: the steps of a plan one after the other,     *)
(* each with its condition, attempts and polls, and then the teardown.     *)
(* What a target answers is chosen freely: a request breaks (network,      *)
(* timeout, an address that is none), or an answer carries some of the     *)
(* values to be extracted and fulfils each assertion or not.               *)
(*                                                                         *)
(* A variable holds "false" (what a condition takes for false: false, 0,   *)
(* null or nothing, as text) or "true" (anything else, a JSON null         *)
(* included: it is rendered as [object Object]); "unset" is a reference    *)
(* that is left as it stands, and a condition takes it for true.           *)
(***************************************************************************)
EXTENDS RunnerProtocol

VARIABLES
  plan,     \* the plan in execution
  phase,    \* what executePlan does next
  at,       \* i, ti: the position in the steps, or in the teardown
  attempt,  \* attempt of executeStep (0: none yet)
  poll,     \* pollAttempt
  store,    \* the VariableStore
  passed, failed, skipped,  \* stepsPassed, stepsFailed, stepsSkipped
  log       \* allEvents

counts == <<passed, failed, skipped>>
execVars == <<plan, phase, at, attempt, poll, store, counts, log>>

-----------------------------------------------------------------------------
Value == {"unset", "false", "true"}

\* part and at tell which occurrence an event is of (at = 0: of no step); the
\* code has the id only.  missing: the references that the request still
\* holds.  severity: of the assertion that was evaluated.
Event == [type : {"run.started", "step.started", "assertion.evaluated",
                  "step.finished", "step.retried", "run.finished"},
          part : {"run", "main", "teardown"}, at : Nat, id : Id,
          result : {"none", "passed", "failed", "error"},
          missing : SUBSET Ref, severity : Severity \cup {"none"}]

\* "idle": no plan; "main" and "teardown": between two steps or attempts;
\* "sending" and "cleaning": inside executeStep; "stopped": main steps over.
Phase == {"idle", "main", "sending", "stopped", "teardown", "cleaning", "done"}

ExecTypeOK ==
  /\ plan \in ExecutionPlan
  /\ phase \in Phase
  /\ at \in Nat /\ attempt \in Nat /\ poll \in Nat
  /\ store \in [Name -> Value]
  /\ passed \in Nat /\ failed \in Nat /\ skipped \in Nat
  /\ log \in Seq(Event)

ExecInit ==
  /\ plan = NoPlan /\ phase = "idle"
  /\ at = 0 /\ attempt = 0 /\ poll = 0
  /\ store = [n \in Name |-> "unset"]
  /\ passed = 0 /\ failed = 0 /\ skipped = 0
  /\ log = <<>>

-----------------------------------------------------------------------------
Step == plan.steps[at]
Cleanup == plan.teardown[at]

RunEvent(type, result) ==
  [type |-> type, part |-> "run", at |-> 0, id |-> RunMark,
   result |-> result, missing |-> {}, severity |-> "none"]
TeardownEvent ==
  [type |-> "step.started", part |-> "teardown", at |-> 0, id |-> TeardownMark,
   result |-> "none", missing |-> {}, severity |-> "none"]
MainEvent(type, result) ==
  [type |-> type, part |-> "main", at |-> at, id |-> Step.id,
   result |-> result, missing |-> {}, severity |-> "none"]
CleanupEvent(type, result) ==
  [type |-> type, part |-> "teardown", at |-> at, id |-> Cleanup.id,
   result |-> result, missing |-> {}, severity |-> "none"]

\* resolve: the store is asked for the last part of a dotted name, whatever
\* comes before it; a reference to nothing stays in the request.
Unresolved(step) == {ref \in step.uses : store[ref.name] = "unset"}

\* An extraction that finds nothing sets nothing.
Extract(found) == [n \in Name |-> IF n \in DOMAIN found THEN found[n] ELSE store[n]]
Findings(step) == UNION {[S -> {"false", "true"}] : S \in SUBSET step.extracts}

\* executePlan is called: run.started.
Execute(p) ==
  /\ phase = "idle"
  /\ plan' = p
  /\ phase' = "main" /\ at' = 1
  /\ log' = <<RunEvent("run.started", "none")>>
  /\ UNCHANGED <<attempt, poll, store, counts>>

-----------------------------------------------------------------------------
(* The main steps.                                                         *)

\* A step is looked at for the first time.
Fresh == phase = "main" /\ at <= Len(plan.steps) /\ attempt = 0

IsFalse(step) == step.cond # None /\ store[step.cond] = "false"

SkipStep ==
  /\ Fresh
  /\ ~Step.enabled \/ (IsFalse(Step) /\ Step.onFalse # "fail")
  /\ skipped' = skipped + 1
  /\ at' = at + 1
  /\ UNCHANGED <<plan, phase, attempt, poll, store, passed, failed, log>>

\* A false condition with onFalse = fail ends the main steps, and no event
\* says so.
RefuseStep ==
  /\ Fresh
  /\ Step.enabled /\ IsFalse(Step) /\ Step.onFalse = "fail"
  /\ failed' = failed + 1
  /\ phase' = "stopped"
  /\ UNCHANGED <<plan, at, attempt, poll, store, passed, skipped, log>>

\* executeStep is entered, up to its first request.
BeginAttempt ==
  /\ phase = "main" /\ at <= Len(plan.steps)
  /\ attempt = 0 => Step.enabled /\ ~IsFalse(Step)
  /\ attempt' = attempt + 1 /\ poll' = 1
  /\ phase' = "sending"
  /\ log' = Append(log, [MainEvent("step.started", "none")
                           EXCEPT !.missing = Unresolved(Step)])
  /\ UNCHANGED <<plan, at, store, counts>>

\* The answer does not fulfil pollUntilExpression and another poll is left.
\* The duration limit can end the polling at any of them.
PollAgain ==
  /\ phase = "sending"
  /\ poll < Step.polls
  /\ poll' = poll + 1
  /\ UNCHANGED <<plan, phase, at, attempt, store, counts, log>>

\* The step has its result: on to the next one, or out of the loop.
Leave(result) ==
  /\ attempt' = 0 /\ poll' = 0
  /\ IF result = "passed" \/ Step.onFailure = "skip"
     THEN phase' = "main" /\ at' = at + 1
     ELSE phase' = "stopped" /\ at' = at

\* Mutant of Settle: only failed assertions fail a run.
SettleUnlessError(result) ==
  /\ Leave(result)
  /\ passed' = passed + (IF result = "passed" THEN 1 ELSE 0)
  /\ failed' = failed + (IF result = "failed" THEN 1 ELSE 0)

Settle(result) ==
  /\ Leave(result)
  /\ passed' = passed + (IF result = "passed" THEN 1 ELSE 0)
  /\ failed' = failed + (IF result = "passed" THEN 0 ELSE 1)

\* Mutant of MayRetry: failed assertions are retried too.
MayRetryFailed(result) == result # "passed" /\ attempt <= Step.retries

\* Only an attempt that ended in an error is repeated.
MayRetry(result) == result = "error" /\ attempt <= Step.retries

\* executeStep returns: with the attempt's last events, and another attempt
\* or the step's result.
EndAttempt(events, result) ==
  LET finished == Append(log \o events, MainEvent("step.finished", result))
  IN  IF MayRetry(result)
      THEN /\ log' = Append(finished, MainEvent("step.retried", "none"))
           /\ phase' = "main" /\ poll' = 0
           /\ UNCHANGED <<at, attempt, passed, failed>>
      ELSE /\ log' = finished
           /\ Settle(result)

\* evaluateAssertions: an event for each, whether it holds or not.
Evaluated(holds) ==
  [k \in DOMAIN Step.asserts |->
     [MainEvent("assertion.evaluated", IF holds[k] THEN "passed" ELSE "failed")
        EXCEPT !.severity = Step.asserts[k]]]

\* assertionFailed > 0
BlockingFailed(holds) ==
  \E k \in DOMAIN Step.asserts : ~holds[k] /\ Step.asserts[k] = "block"

\* An answer (the last poll's) arrives and is evaluated.
AnswerEvaluated(found, holds) ==
  /\ phase = "sending"
  /\ store' = Extract(found)
  /\ EndAttempt(Evaluated(holds), IF BlockingFailed(holds) THEN "failed" ELSE "passed")
  /\ UNCHANGED <<plan, skipped>>

\* The request breaks, or its timer aborts it.
RequestBreaks ==
  /\ phase = "sending"
  /\ EndAttempt(<<>>, "error")
  /\ UNCHANGED <<plan, store, skipped>>

\* An answer arrives and evaluating it throws (an assertion on a value that
\* is not there): an error like any other, after the extraction.
EvaluationThrows(found) ==
  /\ phase = "sending"
  /\ store' = Extract(found)
  /\ EndAttempt(<<>>, "error")
  /\ UNCHANGED <<plan, skipped>>

-----------------------------------------------------------------------------
(* The teardown: whatever the main steps came to.                          *)

\* Mutant of BeginTeardown: a failure that stops the run skips it.
BeginTeardownAfterAll ==
  /\ phase = "main" /\ at > Len(plan.steps)
  /\ phase' = "teardown" /\ at' = 1
  /\ log' = log
  /\ UNCHANGED <<plan, attempt, poll, store, counts>>

BeginTeardown ==
  /\ phase = "stopped" \/ (phase = "main" /\ at > Len(plan.steps))
  /\ phase' = "teardown" /\ at' = 1
  /\ log' = IF plan.teardown = <<>> THEN log
            ELSE Append(log, TeardownEvent)
  /\ UNCHANGED <<plan, attempt, poll, store, counts>>

SkipCleanup ==
  /\ phase = "teardown" /\ at <= Len(plan.teardown)
  /\ ~Cleanup.enabled
  /\ at' = at + 1
  /\ UNCHANGED <<plan, phase, attempt, poll, store, counts, log>>

BeginCleanup ==
  /\ phase = "teardown" /\ at <= Len(plan.teardown)
  /\ Cleanup.enabled
  /\ attempt' = attempt + 1
  /\ phase' = "cleaning"
  /\ log' = Append(log, CleanupEvent("step.started", "none"))
  /\ UNCHANGED <<plan, at, poll, store, counts>>

\* Mutant of CleanupEnds: the first attempt is the last.
CleanupEndsAtOnce(result) ==
  /\ phase = "cleaning"
  /\ log' = Append(log, CleanupEvent("step.finished", result))
  /\ phase' = "teardown"
  /\ attempt' = 0 /\ at' = at + 1
  /\ UNCHANGED <<plan, poll, store, counts>>

\* Teardown steps have no assertions: an answer, whatever its status, passes.
CleanupEnds(result) ==
  /\ phase = "cleaning"
  /\ log' = Append(log, CleanupEvent("step.finished", result))
  /\ phase' = "teardown"
  /\ IF result = "passed" \/ attempt > Cleanup.retries
     THEN attempt' = 0 /\ at' = at + 1
     ELSE UNCHANGED <<attempt, at>>
  /\ UNCHANGED <<plan, poll, store, counts>>

\* terminalState.
Verdict == IF failed > 0 THEN "failed" ELSE "passed"

Finish ==
  /\ phase = "teardown" /\ at > Len(plan.teardown)
  /\ phase' = "done"
  /\ log' = Append(log, RunEvent("run.finished", Verdict))
  /\ UNCHANGED <<plan, at, attempt, poll, store, counts>>

-----------------------------------------------------------------------------
ExecNext ==
  \/ SkipStep \/ RefuseStep \/ BeginAttempt \/ PollAgain \/ RequestBreaks
  \/ phase = "sending" /\ \E found \in Findings(Step) :
       \/ \E holds \in [DOMAIN Step.asserts -> BOOLEAN] : AnswerEvaluated(found, holds)
       \/ EvaluationThrows(found)
  \/ BeginTeardown \/ SkipCleanup \/ BeginCleanup
  \/ \E result \in {"passed", "error"} : CleanupEnds(result)
  \/ Finish

-----------------------------------------------------------------------------
(* What an execution promises.                                             *)

Events(part, i, type) ==
  {k \in DOMAIN log : log[k].part = part /\ log[k].at = i /\ log[k].type = type}

\* The result of the last attempt at step i ("none": it was not tried).
Outcome(part, i) ==
  LET ends == Events(part, i, "step.finished")
  IN  IF ends = {} THEN "none"
      ELSE log[CHOOSE k \in ends : \A l \in ends : l <= k].result

\* The verdict is what the evidence says: a plan passes when each of its
\* enabled steps was executed, and passed in the end, but for those whose
\* condition was false; and it fails for a step that did not.
VerdictIsDeserved ==
  phase = "done" =>
    LET Excused(i) == plan.steps[i].cond # None /\ Outcome("main", i) = "none"
        Good(i) == \/ ~plan.steps[i].enabled
                   \/ Outcome("main", i) = "passed"
                   \/ Excused(i) /\ plan.steps[i].onFalse = "skip"
    IN  /\ Verdict = "passed" => \A i \in DOMAIN plan.steps : Good(i)
        /\ Verdict = "failed" => \E i \in DOMAIN plan.steps :
             \/ Outcome("main", i) \in {"failed", "error"}
             \/ Excused(i) /\ plan.steps[i].onFalse = "fail"

\* A step fails for a blocking assertion, and for nothing else: a warning is
\* logged, and the step passes.
BlockingDecides ==
  \A i \in DOMAIN plan.steps :
    LET failures == {k \in Events("main", i, "assertion.evaluated") :
                       log[k].result = "failed" /\ log[k].severity = "block"}
    IN  Outcome("main", i) \in {"passed", "failed"} =>
          (Outcome("main", i) = "failed" <=> failures # {})

\* A request is repeated only while the target may not have answered: after
\* an answer was judged, or when the retries are used up, the step is not
\* sent again, and after a failure that stops the run no other main step is
\* begun.
NothingIsSentAgain ==
  \A i \in DOMAIN plan.steps :
    /\ Cardinality(Events("main", i, "step.started")) <= plan.steps[i].retries + 1
    /\ \A k \in Events("main", i, "step.finished"), l \in Events("main", i, "step.started") :
         log[k].result # "error" => l < k
    /\ Outcome("main", i) \in {"failed", "error"} /\ plan.steps[i].onFailure # "skip" =>
         \A j \in (i + 1)..Len(plan.steps) : Events("main", j, "step.started") = {}

\* However the main steps ended, at the end of the run every enabled teardown
\* step has passed or has had all its attempts, after the last main step.
TeardownIsExhausted ==
  phase = "done" =>
    \A i \in DOMAIN plan.teardown : plan.teardown[i].enabled =>
      LET starts == Events("teardown", i, "step.started")
      IN  /\ starts # {}
          /\ \/ Outcome("teardown", i) = "passed"
             \/ Cardinality(starts) = plan.teardown[i].retries + 1
          /\ \A k \in starts, l \in DOMAIN log : log[l].part = "main" => l < k
=============================================================================
