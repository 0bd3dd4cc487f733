------------------------------ MODULE PlanQueue ------------------------------
(***************************************************************************)
(* AI plan generation in one workspace: the plan jobs, the transactions    *)
(* on them (enqueue, automatic suggestion, claim, renew, complete, fail,   *)
(* cancel), the settings row, and the workers in plan mode.                *)
(*                                                                         *)
(* Enqueue and autoSuggest hold the advisory lock plan:<workspace> to      *)
(* their end; in between they read the inventory, and then the active      *)
(* jobs, and others may commit between these statements.  An inventory     *)
(* is a number, 0 the empty one; what matters of it is its fingerprint.    *)
(* A worker finishes an execution once, but what it posts may arrive at    *)
(* any time, more than once, or never.  A lease token is a random UUID     *)
(* drawn by each claim: the attempt it was drawn for stands for it.        *)
(***************************************************************************)
EXTENDS Naturals, FiniteSets

CONSTANTS
  Job,         \* jobs that may be inserted
  Worker,      \* workers with the capability 'plan', of one model
  User,        \* users who ask for plans
  Limit,       \* most active jobs (3 in the code)
  LeaseBudget, \* claims a job gets (3 in the code)
  MaxAssets,   \* bound: how many inventories there are, but the empty one
  None         \* no worker, no job

ASSUME PlanLimitIsPositive == Limit \in Nat \ {0}
ASSUME PlanBudgetIsPositive == LeaseBudget \in Nat \ {0}
ASSUME PlanJobsAreFinite == IsFiniteSet(Job)
ASSUME PlanNoneIsNothing == None \notin Job \cup Worker
ASSUME InventoriesAreNat == MaxAssets \in Nat
ASSUME CallersDiffer == Worker \cap User = {}

VARIABLES
  status,    \* ai_plan_jobs.status
  born,      \* created_at, as a rank
  attempt,   \* attempt
  holder,    \* worker_id
  lapsed,    \* the clocks by which a running job's leased_until has passed
  result,    \* the attempt whose proposal is stored (0: proposal is NULL)
  enabled,   \* ai_plan_settings.enabled
  checked,   \* last_checked is less than 30 s old
  lastHash,  \* last_hash: the inventory of the last suggestion
  assets,    \* the inventory that planInventory would return
  pc,        \* what a worker, or a user's request, does next
  seen,      \* what its transaction has read of the inventory
  lease,     \* lease[w]: the job and token w works on
  net        \* finished executions whose posts may still arrive

jobVars  == <<status, born, attempt, holder, lapsed, result>>
setVars  == <<enabled, checked, lastHash>>
callVars == <<pc, seen>>
workVars == <<lease, net>>
vars == <<jobVars, setVars, assets, callVars, workVars>>

-----------------------------------------------------------------------------
Caller    == Worker \cup User
Clock     == {"database", "process"}
JobStatus == {"absent", "pending", "running", "completed", "failed", "cancelled"}
Token     == 0..LeaseBudget
Inventory == 0..MaxAssets
Lease     == [job : Job, token : Token]
NoLease   == [job |-> None, token |-> 0]
Message   == [worker : Worker, job : Job, token : Token]

\* "suggest", "claim" and "work" are a worker's: the two transactions of
\* claimPlan, and executing what it got.  "read" and "checked" are inside the
\* transaction of autoSuggest or enqueuePlan.
Phase == {"suggest", "idle", "read", "checked", "claim", "work"}

TypeOK ==
  /\ status \in [Job -> JobStatus]
  /\ born \in [Job -> Nat]
  /\ attempt \in [Job -> Token]
  /\ holder \in [Job -> Worker \cup {None}]
  /\ lapsed \in [Job -> SUBSET Clock]
  /\ result \in [Job -> Token]
  /\ enabled \in BOOLEAN /\ checked \in BOOLEAN /\ lastHash \in Inventory
  /\ assets \in Inventory
  /\ pc \in [Caller -> Phase]
  /\ seen \in [Caller -> Inventory]
  /\ lease \in [Worker -> Lease \cup {NoLease}]
  /\ net \subseteq Message

Init ==
  /\ status = [j \in Job |-> "absent"]
  /\ born = [j \in Job |-> 0]
  /\ attempt = [j \in Job |-> 0]
  /\ holder = [j \in Job |-> None]
  /\ lapsed = [j \in Job |-> {}]
  /\ result = [j \in Job |-> 0]
  /\ enabled = FALSE /\ checked = FALSE /\ lastHash = 0
  /\ assets = 0
  /\ pc = [p \in Caller |-> IF p \in Worker THEN "suggest" ELSE "idle"]
  /\ seen = [p \in Caller |-> 0]
  /\ lease = [w \in Worker |-> NoLease]
  /\ net = {}

-----------------------------------------------------------------------------
(* Inserting jobs.                                                         *)

Active == {j \in Job : status[j] \in {"pending", "running"}}
InTransaction(p) == pc[p] \in {"read", "checked"}

\* Bound: an id is left for one more job.
Room == \E j \in Job : status[j] = "absent"

\* pg_advisory_xact_lock can be granted.
PlanLockFree == \A p \in Caller : ~InTransaction(p)

Goto(p, phase) == pc' = [pc EXCEPT ![p] = phase]

\* Mutant of BeginEnqueue: no advisory lock.
BeginEnqueueUnlocked(u) ==
  /\ pc[u] = "idle" /\ Room
  /\ Goto(u, "read")
  /\ seen' = [seen EXCEPT ![u] = assets]
  /\ UNCHANGED <<jobVars, setVars, assets, workVars>>

\* A user's transaction gets the lock and reads the inventory.
BeginEnqueue(u) ==
  /\ PlanLockFree
  /\ pc[u] = "idle" /\ Room
  /\ Goto(u, "read")
  /\ seen' = [seen EXCEPT ![u] = assets]
  /\ UNCHANGED <<jobVars, setVars, assets, workVars>>

\* ... then it counts the active jobs.  It is refused when there is nothing to
\* plan with or no place for a job.
CountActive(u) ==
  /\ pc[u] = "read"
  /\ IF seen[u] # 0 /\ Cardinality(Active) < Limit
     THEN Goto(u, "checked") /\ UNCHANGED seen
     ELSE Goto(u, "idle") /\ seen' = [seen EXCEPT ![u] = 0]
  /\ UNCHANGED <<jobVars, setVars, assets, workVars>>

\* INSERT.  created_at is when the transaction began, perhaps before it got
\* the lock.
InsertJob(j) ==
  /\ status[j] = "absent"
  /\ status' = [status EXCEPT ![j] = "pending"]
  /\ \E rank \in 0..Cardinality({i \in Job : status[i] # "absent"}) :
       born' = [i \in Job |-> IF i = j THEN rank
                              ELSE IF status[i] # "absent" /\ born[i] >= rank
                                   THEN born[i] + 1 ELSE born[i]]
  /\ UNCHANGED <<attempt, holder, lapsed, result>>

Enqueue(u, j) ==
  /\ pc[u] = "checked"
  /\ InsertJob(j)
  /\ Goto(u, "idle") /\ seen' = [seen EXCEPT ![u] = 0]
  /\ UNCHANGED <<setVars, assets, workVars>>

\* claimPlan begins with autoSuggest: the settings row is locked if a
\* suggestion may be due, and the inventory is read.
BeginSuggest(w) ==
  /\ PlanLockFree
  /\ pc[w] = "suggest"
  /\ IF enabled /\ ~checked
     THEN Goto(w, "read") /\ seen' = [seen EXCEPT ![w] = assets]
     ELSE Goto(w, "claim") /\ UNCHANGED seen
  /\ UNCHANGED <<jobVars, setVars, assets, workVars>>

\* A job is suggested for what has changed since the last suggestion, when
\* no other job is active.  If none is due, last_checked is committed alone.
CheckFingerprint(w) ==
  LET due == seen[w] \notin {0, lastHash} /\ Active = {} /\ Room
  IN  /\ pc[w] = "read"
      /\ Goto(w, IF due THEN "checked" ELSE "claim")
      /\ seen' = [seen EXCEPT ![w] = IF due THEN @ ELSE 0]
      /\ checked' = (checked \/ ~due)
      /\ UNCHANGED <<jobVars, enabled, lastHash, assets, workVars>>

\* The job and its fingerprint are committed together.
Suggest(w, j) ==
  /\ pc[w] = "checked"
  /\ InsertJob(j)
  /\ lastHash' = seen[w] /\ checked' = TRUE
  /\ Goto(w, "claim") /\ seen' = [seen EXCEPT ![w] = 0]
  /\ UNCHANGED <<enabled, assets, workVars>>

\* A statement fails, or the instance dies: ROLLBACK, and the caller's
\* request with it.
TransactionFails(p) ==
  /\ InTransaction(p)
  /\ Goto(p, IF p \in Worker THEN "suggest" ELSE "idle")
  /\ seen' = [seen EXCEPT ![p] = 0]
  /\ UNCHANGED <<jobVars, setVars, assets, workVars>>

-----------------------------------------------------------------------------
(* Settings, inventory and time.                                           *)

\* Mutant of SetEnabled: the settings row is read without FOR UPDATE.
SetEnabledUnlocked(b) ==
  /\ enabled' = b /\ checked' = FALSE
  /\ UNCHANGED <<jobVars, lastHash, assets, callVars, workVars>>

\* The UPDATE waits for the settings row, which a suggestion holds.
SetEnabled(b) ==
  /\ \A w \in Worker : ~InTransaction(w)
  /\ enabled' = b /\ checked' = FALSE
  /\ UNCHANGED <<jobVars, lastHash, assets, callVars, workVars>>

\* Tests and workflows are published and deleted.
ChangeAssets ==
  /\ assets' \in Inventory \ {assets}
  /\ UNCHANGED <<jobVars, setVars, callVars, workVars>>

CheckIsOld ==
  /\ checked
  /\ checked' = FALSE
  /\ UNCHANGED <<jobVars, enabled, lastHash, assets, callVars, workVars>>

-----------------------------------------------------------------------------
(* Leases.                                                                 *)

Claimable(j) ==
  status[j] = "pending" \/ (status[j] = "running" /\ "database" \in lapsed[j])
Oldest(j) == Claimable(j) /\ \A i \in Job : Claimable(i) => born[j] <= born[i]

End(j, s) ==
  /\ status' = [status EXCEPT ![j] = s]
  /\ lapsed' = [lapsed EXCEPT ![j] = {}]

BudgetLeft(j) == attempt[j] < LeaseBudget

\* If the answer is lost the worker polls again: Abort.
Claim(w, j) ==
  /\ pc[w] = "claim"
  /\ Oldest(j) /\ BudgetLeft(j)
  /\ status' = [status EXCEPT ![j] = "running"]
  /\ attempt' = [attempt EXCEPT ![j] = @ + 1]
  /\ holder' = [holder EXCEPT ![j] = w]
  /\ lapsed' = [lapsed EXCEPT ![j] = {}]
  /\ Goto(w, "work")
  /\ lease' = [lease EXCEPT ![w] = [job |-> j, token |-> attempt'[j]]]
  /\ UNCHANGED <<born, result, setVars, assets, seen, net>>

\* The budget is used up: LEASE_EXHAUSTED.
Exhaust(w, j) ==
  /\ pc[w] = "claim"
  /\ Oldest(j) /\ ~BudgetLeft(j)
  /\ End(j, "failed")
  /\ Goto(w, "suggest")
  /\ UNCHANGED <<born, attempt, holder, result,
                 setVars, assets, seen, workVars>>

ClaimNothing(w) ==
  /\ pc[w] = "claim"
  /\ ~\E j \in Job : Claimable(j)
  /\ Goto(w, "suggest")
  /\ UNCHANGED <<jobVars, setVars, assets, seen, workVars>>

Lapse(j, c) ==
  /\ status[j] = "running" /\ c \notin lapsed[j]
  /\ lapsed' = [lapsed EXCEPT ![j] = @ \cup {c}]
  /\ UNCHANGED <<status, born, attempt, holder, result,
                 setVars, assets, callVars, workVars>>

\* Mutant of LeaseHolds: the worker is compared, the token is not.
LeaseHoldsByWorker(w, l) ==
  /\ status[l.job] = "running" /\ holder[l.job] = w
  /\ "process" \notin lapsed[l.job]

\* planLeaseAction's check, by the control plane's clock.
LeaseHolds(w, l) ==
  /\ status[l.job] = "running" /\ holder[l.job] = w
  /\ attempt[l.job] = l.token
  /\ "process" \notin lapsed[l.job]

Renew(w) ==
  /\ pc[w] = "work" /\ LeaseHolds(w, lease[w])
  /\ lapsed' = [lapsed EXCEPT ![lease[w].job] = {}]
  /\ UNCHANGED <<status, born, attempt, holder, result,
                 setVars, assets, callVars, workVars>>

Rest(w) ==
  /\ Goto(w, "suggest")
  /\ lease' = [lease EXCEPT ![w] = NoLease]
  /\ UNCHANGED <<jobVars, setVars, assets, seen>>

\* A renewal is refused or unanswered, or the worker is restarted: the
\* execution is killed and nothing is posted.
Abort(w) == pc[w] = "work" /\ Rest(w) /\ UNCHANGED net

\* The execution ends: its result is posted, or its failure, or, after a
\* result that nobody answered, both.
Finish(w) ==
  /\ pc[w] = "work"
  /\ net' = net \cup
       {[worker |-> w, job |-> lease[w].job, token |-> lease[w].token]}
  /\ Rest(w)

\* A post that passes the check; every other one changes nothing, also the
\* repeated one of a result that is stored already.
Deliver(m) ==
  /\ m \in net
  /\ LeaseHolds(m.worker, m)
  /\ \/ /\ End(m.job, "completed")
        /\ result' = [result EXCEPT ![m.job] = m.token]
     \/ End(m.job, "failed") /\ UNCHANGED result
  /\ UNCHANGED <<born, attempt, holder, setVars, assets, callVars, workVars>>

\* One UPDATE, without the plan lock.
Cancel(j) ==
  /\ j \in Active
  /\ End(j, "cancelled")
  /\ UNCHANGED <<born, attempt, holder, result, setVars, assets, callVars, workVars>>

-----------------------------------------------------------------------------
WorkerStep(w) ==
  \/ BeginSuggest(w) \/ CheckFingerprint(w)
  \/ ClaimNothing(w) \/ Finish(w) \/ Abort(w) \/ Renew(w)
  \/ \E j \in Job : Suggest(w, j) \/ Claim(w, j) \/ Exhaust(w, j)

UserStep(u) == BeginEnqueue(u) \/ CountActive(u) \/ \E j \in Job : Enqueue(u, j)

Next ==
  \/ \E w \in Worker : WorkerStep(w)
  \/ \E u \in User : UserStep(u)
  \/ \E p \in Caller : TransactionFails(p)
  \/ \E b \in BOOLEAN : SetEnabled(b)
  \/ ChangeAssets \/ CheckIsOld
  \/ \E j \in Job : Cancel(j) \/ \E c \in Clock : Lapse(j, c)
  \/ \E m \in net : Deliver(m)

Spec == Init /\ [][Next]_vars

-----------------------------------------------------------------------------
(* Properties.                                                             *)

\* A job has a proposal exactly when it is completed, and it is the one its
\* last lease produced: not one that arrived after the lease was taken over,
\* by another worker or by the same one, or after the job was cancelled.
LastLeaseOnly ==
  \A j \in Job :
    /\ status[j] = "completed" <=> result[j] # 0
    /\ status[j] = "completed" => result[j] = attempt[j]

\* When a job is suggested, suggestions are enabled, no other job is active,
\* and its source is not the one suggested last: two workers do not both react
\* to one change, and a setting that was turned off stays respected, although
\* all of that was read by earlier statements.
SuggestionIsDue ==
  [][\A w \in Worker, j \in Job : Suggest(w, j) =>
       /\ enabled
       /\ Active = {}
       /\ seen[w] \notin {0, lastHash}]_vars

\* The rows behave as a job queue: at most Limit active, an ended job keeps
\* its outcome, a completed one has one result.
Queue == INSTANCE JobQueue WITH
  state <- status,
  results <- [j \in Job |-> IF result[j] = 0 THEN 0 ELSE 1]
ImplementsJobQueue == Queue!Spec
=============================================================================
