------------------------------ MODULE Policies ------------------------------
(***************************************************************************)
(* Policies and the decisions made by their rules (modules/policy).        *)
(*                                                                         *)
(* A rule is [condition, effect, priority]; a condition and the resource   *)
(* and context of a question are functions from keys to values.  A value   *)
(* is [kind, of], a text, a list or another value, with the set of what is  *)
(* in it; a key with the value None is there, and is null.                 *)
(***************************************************************************)
EXTENDS Integers, FiniteSetsExt, SequencesExt, TLC

CONSTANTS
  Policy,           \* the ids of policies
  RuleLists,        \* the lists of rules a policy may be given
  Priorities,       \* the priorities of policies and rules, descending
  Questions,        \* [resource, context] of the evaluations
  None

VARIABLE policies   \* the rows: [rules, priority, enabled]

(* Conditions.                                                              *)

Lookup(key, asked) ==
  CASE key \in DOMAIN asked.resource -> asked.resource[key]
    [] key \notin DOMAIN asked.resource /\ key \in DOMAIN asked.context -> asked.context[key]
    [] OTHER -> None

\* A list admits its members and the lists that share one; a list equals none.
ValueMatches(condition, actual) ==
  IF condition.kind = "list"
  THEN actual.kind \in {"text", "list"} /\ actual.of \cap condition.of # {}
  ELSE actual = condition /\ actual.kind # "list"

RuleMatchesCondition(rule, asked) ==
  \A key \in DOMAIN rule.condition :
    LET actual == Lookup(key, asked) IN
    actual # None /\ ValueMatches(rule.condition[key], actual)

\* A stable sort by priority, the highest first.
SortRulesByPriority(rules) ==
  FlattenSeq([i \in DOMAIN Priorities |->
    SelectSeq(rules, LAMBDA rule : rule.priority = Priorities[i])])

\* The enabled rows, in every order the database may give them in.
EnabledRows(rows) ==
  {order \in SetToSeqs({p \in DOMAIN rows : rows[p].enabled}) :
     \A i, j \in DOMAIN order :
       i < j => rows[order[i]].priority >= rows[order[j]].priority}

\* Mutant of AllRules: the rules of a policy come before those of the next.
AllRulesByPolicy(rows, order) ==
  FlattenSeq([i \in DOMAIN order |-> SortRulesByPriority(rows[order[i]].rules)])

AllRules(rows, order) ==
  SortRulesByPriority(FlattenSeq([i \in DOMAIN order |-> rows[order[i]].rules]))

\* evaluatePolicies: the first rule that matches decides.
EvaluatePolicies(rows, order, asked) ==
  LET Applies(rule) == RuleMatchesCondition(rule, asked)
      matching == SelectSeq(AllRules(rows, order), Applies)
  IN IF matching = <<>> THEN [decision |-> "allow", rule |-> None]
     ELSE [decision |-> Head(matching).effect, rule |-> Head(matching)]

(* The handlers, each of one statement that changes the rows.               *)

CreatePolicy ==
  \E p \in Policy \ DOMAIN policies, rules \in RuleLists, n \in ToSet(Priorities) :
    policies' = policies @@ (p :> [rules |-> rules, priority |-> n, enabled |-> TRUE])

\* Only the fields that are provided are changed.
UpdatePolicy ==
  \E p \in DOMAIN policies :
    \/ \E rules \in RuleLists : policies' = [policies EXCEPT ![p].rules = rules]
    \/ \E n \in ToSet(Priorities) : policies' = [policies EXCEPT ![p].priority = n]
    \/ \E on \in BOOLEAN : policies' = [policies EXCEPT ![p].enabled = on]

DeletePolicy ==
  \E p \in DOMAIN policies : policies' = [x \in DOMAIN policies \ {p} |-> policies[x]]

Init == policies = <<>>

Next == CreatePolicy \/ UpdatePolicy \/ DeletePolicy

Spec == Init /\ [][Next]_policies

\* The places of the rules of enabled policies that apply.
Applicable(asked) ==
  UNION {{<<p, i>> : i \in {i \in DOMAIN policies[p].rules :
                             RuleMatchesCondition(policies[p].rules[i], asked)}} :
           p \in {p \in DOMAIN policies : policies[p].enabled}}

RuleAt(at) == policies[at[1]].rules[at[2]]

\* One place comes before another: for the priority of its rule, then for that
\* of its policy, then because it stands before it in the same policy.
Precedes(at, other) ==
  \/ RuleAt(at).priority > RuleAt(other).priority
  \/ /\ RuleAt(at).priority = RuleAt(other).priority
     /\ \/ policies[at[1]].priority > policies[other[1]].priority
        \/ at[1] = other[1] /\ at[2] < other[2]

(* A decision is that of an applicable rule that no other one precedes,     *)
(* whatever policies the rules are spread over and whatever order the rows  *)
(* come in, and the default only for want of a rule; and to save the rules  *)
(* of a policy in the order in which they are shown changes no decision.    *)
DecisionIsOfTopRule ==
  \A asked \in Questions, order \in EnabledRows(policies) :
    LET decided == EvaluatePolicies(policies, order, asked)
        applicable == Applicable(asked)
    IN /\ IF applicable = {}
          THEN decided = [decision |-> "allow", rule |-> None]
          ELSE \E at \in applicable :
                 /\ decided = [decision |-> RuleAt(at).effect, rule |-> RuleAt(at)]
                 /\ ~ \E other \in applicable : Precedes(other, at)
       /\ \A p \in DOMAIN policies :
            EvaluatePolicies([policies EXCEPT ![p].rules = SortRulesByPriority(@)],
                             order, asked) = decided
=============================================================================
