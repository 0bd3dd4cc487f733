---------------------------- MODULE RunDispatch ----------------------------
(***************************************************************************)
(* What run dispatch promises, with no mention of polls, rows, requests    *)
(* or processes: a run is queued once, granted to one runner once, and     *)
(* ends once, with the verdict of the runner it was granted to; it passes  *)
(* only after its evidence has been sealed, and evidence is sealed once.   *)
(***************************************************************************)

CONSTANTS
  Run,      \* runs that may be created
  Runner,   \* registered runner identities
  None      \* "no runner"

VARIABLES
  state,    \* state[r]: how far the run has got
  holder,   \* holder[r]: the runner the run was granted to
  sealed    \* the runs whose evidence has a manifest

vars == <<state, holder, sealed>>

RunState == {"absent", "queued", "held", "passed", "failed"}

Init ==
  /\ state = [r \in Run |-> "absent"]
  /\ holder = [r \in Run |-> None]
  /\ sealed = {}

Queue(R) ==
  /\ R # {}
  /\ \A r \in R : state[r] = "absent"
  /\ state' = [r \in Run |-> IF r \in R THEN "queued" ELSE state[r]]
  /\ UNCHANGED <<holder, sealed>>

Grant(r, n) ==
  /\ state[r] = "queued"
  /\ state' = [state EXCEPT ![r] = "held"]
  /\ holder' = [holder EXCEPT ![r] = n]
  /\ UNCHANGED sealed

\* A seal may be written late: after its run has been reported failed.
Seal(r) ==
  /\ state[r] \in {"held", "failed"}
  /\ r \notin sealed
  /\ sealed' = sealed \cup {r}
  /\ UNCHANGED <<state, holder>>

Pass(r) ==
  /\ state[r] = "held"
  /\ r \in sealed
  /\ state' = [state EXCEPT ![r] = "passed"]
  /\ UNCHANGED <<holder, sealed>>

Fail(r) ==
  /\ state[r] = "held"
  /\ state' = [state EXCEPT ![r] = "failed"]
  /\ UNCHANGED <<holder, sealed>>

Next ==
  \/ \E R \in SUBSET Run : Queue(R)
  \/ \E r \in Run : Seal(r) \/ Pass(r) \/ Fail(r)
  \/ \E r \in Run, n \in Runner : Grant(r, n)

Spec == Init /\ [][Next]_vars
=============================================================================
