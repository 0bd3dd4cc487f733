------------------------------ MODULE JobQueue ------------------------------
(***************************************************************************)
(* What the AI generation queue promises a workspace: a bounded number of  *)
(* active jobs; a job that ends keeps its outcome until somebody reopens   *)
(* it, and never if it completed; and a completed job has exactly the one  *)
(* result it completed with.  No workers, leases, clocks or messages.      *)
(***************************************************************************)
EXTENDS Naturals, FiniteSets

CONSTANTS
  Job,      \* jobs that may be enqueued
  Limit     \* most jobs active at a time

VARIABLES
  state,    \* state[j]: how far the job has got
  results   \* results[j]: number of results stored for it

vars == <<state, results>>

Active == {j \in Job : state[j] \in {"pending", "running"}}

Init ==
  /\ state = [j \in Job |-> "absent"]
  /\ results = [j \in Job |-> 0]

\* Enqueued, or reopened by a user.
Open(j) ==
  /\ state[j] \in {"absent", "failed", "cancelled"}
  /\ Cardinality(Active) < Limit
  /\ state' = [state EXCEPT ![j] = "pending"]
  /\ UNCHANGED results

Start(j) ==
  /\ state[j] = "pending"
  /\ state' = [state EXCEPT ![j] = "running"]
  /\ UNCHANGED results

Complete(j) ==
  /\ state[j] = "running" /\ results[j] = 0
  /\ state' = [state EXCEPT ![j] = "completed"]
  /\ results' = [results EXCEPT ![j] = 1]

Abandon(j) ==
  /\ state[j] \in {"pending", "running"}
  /\ state' \in {[state EXCEPT ![j] = s] : s \in {"failed", "cancelled"}}
  /\ UNCHANGED results

Next == \E j \in Job : Open(j) \/ Start(j) \/ Complete(j) \/ Abandon(j)

Spec == Init /\ [][Next]_vars
=============================================================================
