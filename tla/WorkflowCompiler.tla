-------------------------- MODULE WorkflowCompiler --------------------------
(***************************************************************************)
(* compileWorkflow: a workflow definition and the test versions it refers  *)
(* to become an execution plan, or diagnostics.                            *)
(*                                                                         *)
(* Of a request matters what its parts refer to.  A step may have parts of *)
(* its own, and leave others to a published test.  Both callers of the     *)
(* compiler give it a resolver of tests.                                   *)
(***************************************************************************)
EXTENDS RunnerProtocol

CONSTANTS
  TestId,       \* test versions that may be referred to
  MaxSteps,     \* most steps (50 in the code)
  MaxTeardown   \* most teardown steps (20 in the code)

ASSUME CompilerBoundsAreNat == MaxSteps \in Nat /\ MaxTeardown \in Nat

Part == {"url", "headers", "body"}

\* refs: what a part refers to; None, like no extract and no assertions: it
\* is left out.  blank: the url is, if there is one.  asserts: how many
\* assertions there are.  Conditions, polling and the strategy of the
\* teardown are of the workflow DSL.
StepDef == [id : Id, test : TestId \cup {None}, method : BOOLEAN,
            refs : [Part -> (SUBSET Ref) \cup {None}], blank : BOOLEAN,
            extract : (SUBSET Name) \cup {None}, asserts : Nat \cup {None},
            enabled : BOOLEAN, retries : Nat,
            onFailure : {"stop", "skip", "goto", "teardown-and-stop"},
            cond : Name \cup {None}, polls : Nat \ {0}]
TeardownDef == [id : Id, url : {"given", "blank"}, enabled : BOOLEAN, retries : Nat]
Definition == [steps : Seq(StepDef), teardown : Seq(TeardownDef),
               strategy : {"always", "on-success", "on-failure", "never"}]

\* A test version.  query: with the authentication.  resolveTestVersion
\* returns neither that nor the severities.
Test == [refs : [Part \cup {"query"} -> SUBSET Ref], blank : BOOLEAN,
         extract : SUBSET Name, asserts : Seq(Severity)]

-----------------------------------------------------------------------------
(* References and dependencies of the fields a step has itself: those of    *)
(* the test it refers to are not looked at.                                 *)

Own(field) == IF field = None THEN {} ELSE field
OwnExtract(step) == Own(step.extract)
OwnRefs(step) == UNION {Own(step.refs[part]) : part \in Part}

\* The last one wins, as in the maps of the code.
LastOf(S) == IF S = {} THEN 0 ELSE CHOOSE i \in S : \A j \in S : j <= i

\* The step a reference waits for (0: none).
ProducerOf(steps, ref) ==
  CASE ref.kind = "env"  -> 0
    [] ref.kind = "step" -> LastOf({i \in DOMAIN steps : steps[i].id = ref.step})
    [] ref.kind = "var"  -> LastOf({i \in DOMAIN steps : ref.name \in OwnExtract(steps[i])})

\* checkStepDependencies: its errors
ForwardReference(steps) ==
  \E i \in DOMAIN steps : \E ref \in OwnRefs(steps[i]) : ProducerOf(steps, ref) > i

\* checkStepDependencies: its warnings.  A step-scoped reference to a step
\* that is not there gets none.
Unproduced(steps) ==
  {ref \in UNION {OwnRefs(steps[i]) : i \in DOMAIN steps} :
     ref.kind = "var" /\ ProducerOf(steps, ref) = 0}

\* Mutant of HasCycle: a step that waits for itself is no cycle.
HasLongCycle(steps) ==
  \E S \in SUBSET DOMAIN steps :
    Cardinality(S) > 1 /\ \A i \in S : \E ref \in OwnRefs(steps[i]) : ProducerOf(steps, ref) \in S

\* detectCycles: the depth-first search meets a gray step exactly when some
\* steps wait for each other, or one for itself.
HasCycle(steps) ==
  \E S \in SUBSET DOMAIN steps :
    S # {} /\ \A i \in S : \E ref \in OwnRefs(steps[i]) : ProducerOf(steps, ref) \in S

-----------------------------------------------------------------------------
(* Expanding tests.                                                        *)

\* resolveStepDefinition finds nothing to execute.
Unresolvable(step, tests) ==
  IF step.test # None THEN step.test \notin DOMAIN tests ELSE ~step.method

\* Each of a step's own fields comes before the test's.
BlankUrl(step, tests) ==
  IF step.refs["url"] # None THEN step.blank
  ELSE step.test = None \/ tests[step.test].blank
ResolvedPart(step, tests, part) ==
  IF step.test # None /\ step.refs[part] = None THEN tests[step.test].refs[part]
  ELSE Own(step.refs[part])
ResolvedRefs(step, tests) == UNION {ResolvedPart(step, tests, part) : part \in Part}
ResolvedExtract(step, tests) ==
  IF step.test # None /\ step.extract = None THEN tests[step.test].extract
  ELSE OwnExtract(step)
ResolvedAsserts(step, tests) ==
  IF step.asserts # None THEN step.asserts
  ELSE IF step.test = None THEN 0 ELSE Len(tests[step.test].asserts)

\* There is a diagnostic of severity error.
Rejected(d, tests) ==
  \/ d.steps = <<>> \/ Len(d.steps) > MaxSteps \/ Len(d.teardown) > MaxTeardown
  \/ \E i, j \in DOMAIN d.steps : i # j /\ d.steps[i].id = d.steps[j].id
  \/ ForwardReference(d.steps) \/ HasCycle(d.steps)
  \/ \E i \in DOMAIN d.steps :
       \/ Unresolvable(d.steps[i], tests)
       \/ BlankUrl(d.steps[i], tests)
  \/ \E i \in DOMAIN d.teardown : d.teardown[i].url = "blank"

-----------------------------------------------------------------------------
(* The plan.                                                               *)

AtMost(n, limit) == IF n <= limit THEN n ELSE limit

\* Conditions, polling and the teardown's strategy are not carried over,
\* onFailure = goto becomes stop, and every assertion blocks.
Frozen(step, tests) ==
  [id |-> step.id, enabled |-> step.enabled, cond |-> None, onFalse |-> "skip",
   uses |-> ResolvedRefs(step, tests),
   extracts |-> ResolvedExtract(step, tests),
   asserts |-> [k \in 1..ResolvedAsserts(step, tests) |-> "block"],
   retries |-> AtMost(step.retries, 10), polls |-> 1,
   onFailure |-> IF step.onFailure = "goto" THEN "stop" ELSE step.onFailure]

CompiledPlan(d, tests) ==
  [steps |-> [i \in DOMAIN d.steps |-> Frozen(d.steps[i], tests)],
   teardown |-> [i \in DOMAIN d.teardown |->
     [id |-> d.teardown[i].id, enabled |-> d.teardown[i].enabled,
      retries |-> AtMost(d.teardown[i].retries, 3)]]]
=============================================================================
