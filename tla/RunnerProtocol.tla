--------------------------- MODULE RunnerProtocol ---------------------------
(***************************************************************************)
(* The execution plan of the contract package runner-protocol, which the   *)
(* compiler of the control plane and the executor of the runner share.     *)
(***************************************************************************)
EXTENDS Naturals, Sequences, FiniteSets

CONSTANTS
  Id,    \* step ids
  RunMark, TeardownMark,  \* the words run and teardown
  Name,  \* names of variables
  None   \* no step, no condition, nothing given

\* The events of the run itself, and the one that begins its teardown, carry
\* these words as their step id, and nothing keeps a step from having one.
ASSUME MarksAreIds == RunMark \in Id /\ TeardownMark \in Id /\ RunMark # TeardownMark

\* ${env.name}, ${step.name}, ${name}
Ref == [kind : {"env", "step", "var"}, step : Id \cup {None}, name : Name]

\* A failed assertion of severity warn fails no step.
Severity == {"block", "warn"}

\* uses: what its URL, headers, query and body refer to; asserts: the
\* severities of its assertions, in their order.
FrozenStep == [id : Id, enabled : BOOLEAN, cond : Name \cup {None},
               onFalse : {"skip", "fail"}, uses : SUBSET Ref,
               extracts : SUBSET Name, asserts : Seq(Severity),
               retries : 0..10, polls : Nat \ {0},
               onFailure : {"stop", "skip", "teardown-and-stop"}]
TeardownStep == [id : Id, enabled : BOOLEAN, retries : 0..3]
ExecutionPlan == [steps : Seq(FrozenStep), teardown : Seq(TeardownStep)]
NoPlan == [steps |-> <<>>, teardown |-> <<>>]
=============================================================================
