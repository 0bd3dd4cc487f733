---------------------------- MODULE MCWorkflowRun ----------------------------
(* Instances of WorkflowRun and RunClient for TLC. *)
EXTENDS RunClient, TLC

CONSTANTS a, b, c, x, t1, t2, run, teardown

Env == [kind |-> "env", step |-> None, name |-> x]
Var == [kind |-> "var", step |-> None, name |-> x]
Of(s) == [kind |-> "step", step |-> s, name |-> x]

Request(url, headers, body) == [url |-> url, headers |-> headers, body |-> body]

Def(id, refs, extract) ==
  [id |-> id, test |-> None, method |-> TRUE, refs |-> Request(refs, None, None),
   blank |-> FALSE, extract |-> extract, asserts |-> 1, enabled |-> TRUE, retries |-> 0,
   onFailure |-> "stop", cond |-> None, polls |-> 1]
Using(id, t) ==
  [Def(id, {}, None) EXCEPT !.test = t, !.refs = Request(None, None, None), !.asserts = None]

First ==
  {Def(a, {}, {x}), Def(a, {Var}, {x}), Def(a, {Of(b)}, {}), Using(a, t1),
   [Def(a, {}, {x}) EXCEPT !.enabled = FALSE],
   [Def(a, {}, {x}) EXCEPT !.retries = 1, !.onFailure = "skip"],
   [Def(a, {}, {}) EXCEPT !.blank = TRUE]}
\* Of two tests one gives the url, the headers and the body, and of the other
\* the step replaces the url; and two steps have a word for an id.
Second ==
  {Def(b, {Var}, {}), Def(run, {Env}, {x}), Def(b, {Of(a)}, {x}), Using(b, t2),
   [Using(b, t2) EXCEPT !.refs = Request({}, None, {Of(a)}), !.asserts = 0],
   [Def(teardown, {Var}, {}) EXCEPT !.retries = 1, !.onFailure = "teardown-and-stop"]}
Cleaning == {<<>>, <<[id |-> c, url |-> "given", enabled |-> TRUE, retries |-> 4]>>}

\* A teardown step whose id is the word run, after a step that is called
\* teardown.
Misnamed ==
  [steps |-> <<Def(a, {}, {x}), Def(teardown, {Var}, {})>>,
   teardown |-> <<[id |-> run, url |-> "given", enabled |-> TRUE, retries |-> 0]>>,
   strategy |-> "always"]

TwoSteps ==
  {[steps |-> <<s, u>>, teardown |-> td, strategy |-> "always"] :
     s \in First, u \in Second, td \in Cleaning}
  \cup {Misnamed}

TwoTests ==
  t1 :> [refs |-> Request({}, {}, {}) @@ "query" :> {}, blank |-> FALSE,
         extract |-> {x}, asserts |-> <<"warn">>]
  @@ t2 :> [refs |-> Request({Env}, {Env}, {Var}) @@ "query" :> {Var}, blank |-> FALSE,
            extract |-> {}, asserts |-> <<"block">>]

Frz(id) == [id |-> id, enabled |-> TRUE, cond |-> None, onFalse |-> "skip",
            uses |-> {}, extracts |-> {}, asserts |-> <<"warn", "block">>,
            retries |-> 0, polls |-> 1, onFailure |-> "stop"]

PostedSteps ==
  {<<[refs |-> {Var}, extract |-> {x}, asserts |-> <<"block", "warn">>],
     [refs |-> {Env, Var}, extract |-> {}, asserts |-> <<>>]>>}

\* Conditions and polling, which only a plan that was not compiled can have.
Conditional ==
  {[steps |-> <<[Frz(a) EXCEPT !.extracts = {x}, !.polls = 2],
                [Frz(b) EXCEPT !.cond = x, !.onFalse = f, !.retries = 1]>>,
    teardown |-> <<[id |-> b, enabled |-> FALSE, retries |-> 0],
                   [id |-> c, enabled |-> TRUE, retries |-> 2]>>] : f \in {"skip", "fail"}}

\* One command of each kind, with the orders of words and flags that parse
\* differently: --no-wait takes a word that follows it.
Commands ==
  {<<Word("run"), Word("version")>>,
   <<Word("run-workflow"), Word("version"), Flag("no-wait")>>,
   <<Word("run"), Flag("no-wait"), Word("version")>>,
   <<Word("run"), Word("version"), Flag("no-wait"), Assigned("wait")>>,
   <<Flag("output"), Word("github"), Word("report"), Word("run")>>,
   <<Word("status"), Word("run")>>, <<Word("status")>>}
=============================================================================
