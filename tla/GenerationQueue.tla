--------------------------- MODULE GenerationQueue ---------------------------
(***************************************************************************)
(* The AI generation queue of one workspace: the job rows and the          *)
(* transactions on them (enqueue, claim, renew, complete, fail, cancel,    *)
(* retry), and the workers that claim a job, run it, renew its lease and   *)
(* submit its result over a network that delays and loses.                 *)
(*                                                                         *)
(* A lease token is a random UUID, here the number of the attempt it was   *)
(* drawn for: attempt only grows, so no token is drawn twice.  A lease     *)
(* lapses when its 30 s pass, by the database's clock (the one claim       *)
(* looks at) and by the control plane's (the one checkLease looks at):     *)
(* two clocks, in either order.                                            *)
(***************************************************************************)
EXTENDS Naturals, FiniteSets

CONSTANTS
  Job,         \* jobs that may be enqueued
  Worker,      \* AI workers, each running one job at a time
  Model,       \* what a job is addressed to: provider and model
  Limit,       \* most active jobs in a workspace (10 in the code)
  LeaseBudget, \* claims a job gets each time it is opened (3 in the code)
  SubmitTries, \* times a worker posts one result (3 in the code)
  MaxAttempt,  \* bound: no retry beyond this many claims of one job
  None         \* no worker, no job

CONSTANT ModelOf(_)   \* the model a worker is configured for

ASSUME LimitIsNat == Limit \in Nat
ASSUME BudgetsArePositive ==
  LeaseBudget \in Nat \ {0} /\ SubmitTries \in Nat \ {0} /\ MaxAttempt \in Nat
ASSUME JobsAreFinite == IsFiniteSet(Job)
ASSUME NoneIsNothing == None \notin Job \cup Worker
ASSUME ModelsAreModels == \A w \in Worker : ModelOf(w) \in Model

VARIABLES
  status,    \* generation_jobs.status
  born,      \* generation_jobs.created_at, as a rank
  target,    \* the task's modelTarget
  attempt,   \* ai_generation_tasks.attempt
  budget,    \* max_attempts
  token,     \* lease_token: 0 is NULL
  holder,    \* worker_id
  lapsed,    \* the clocks by which leased_until has passed
  drafts,    \* number of times a result's drafts were inserted
  author,    \* the attempt whose result they are (history: no column)
  open,      \* enqueue and retry transactions between count and write
  pc,        \* pc[w]: what worker w is doing
  lease,     \* lease[w]: the job and token it got from claim
  valid,     \* valid[w]: its result will pass validateGenerationResult
  tries,     \* tries[w]: how often it has posted that result
  aborted,   \* aborted[w]: its AbortController, set by a failed renewal
  reply,     \* reply[w]: the answer to the post it is waiting for
  net        \* complete and fail requests in flight

jobVars    == <<status, born, target, attempt, budget, token, holder, lapsed,
                drafts, author>>
workerVars == <<pc, lease, valid, tries, aborted, reply>>
vars == <<jobVars, open, workerVars, net>>

-----------------------------------------------------------------------------
Clock     == {"database", "process"}
JobStatus == {"absent", "pending", "running", "completed", "failed", "cancelled"}
Token     == 0..(MaxAttempt + LeaseBudget)
NoLease   == [job |-> None, token |-> 0]
Lease     == [job : Job, token : Token]
Message   == [kind : {"complete", "fail"}, worker : Worker, job : Job,
              token : Token, valid : BOOLEAN]
Change    == [op : {"enqueue", "retry"}, job : Job]

TypeOK ==
  /\ status \in [Job -> JobStatus]
  /\ born \in [Job -> Nat]
  /\ target \in [Job -> Model \cup {None}]
  /\ attempt \in [Job -> Token]
  /\ budget \in [Job -> Token]
  /\ token \in [Job -> Token]
  /\ holder \in [Job -> Worker \cup {None}]
  /\ lapsed \in [Job -> SUBSET Clock]
  /\ drafts \in [Job -> Nat]
  /\ author \in [Job -> Token]
  /\ open \subseteq Change
  /\ pc \in [Worker -> {"idle", "executing", "submitting", "failing"}]
  /\ lease \in [Worker -> Lease \cup {NoLease}]
  /\ valid \in [Worker -> BOOLEAN]
  /\ tries \in [Worker -> 0..SubmitTries]
  /\ aborted \in [Worker -> BOOLEAN]
  /\ reply \in [Worker -> {"none", "ok", "refused"}]
  /\ net \subseteq Message

Init ==
  /\ status = [j \in Job |-> "absent"]
  /\ born = [j \in Job |-> 0]
  /\ target = [j \in Job |-> None]
  /\ attempt = [j \in Job |-> 0]
  /\ budget = [j \in Job |-> LeaseBudget]
  /\ token = [j \in Job |-> 0]
  /\ holder = [j \in Job |-> None]
  /\ lapsed = [j \in Job |-> {}]
  /\ drafts = [j \in Job |-> 0]
  /\ author = [j \in Job |-> 0]
  /\ open = {}
  /\ pc = [w \in Worker |-> "idle"]
  /\ lease = [w \in Worker |-> NoLease]
  /\ valid = [w \in Worker |-> FALSE]
  /\ tries = [w \in Worker |-> 0]
  /\ aborted = [w \in Worker |-> FALSE]
  /\ reply = [w \in Worker |-> "none"]
  /\ net = {}

-----------------------------------------------------------------------------
(* Users: enqueue, cancel, retry.  All three take the workspace's advisory *)
(* lock first and keep it until they commit; retry and cancel then lock    *)
(* the job's rows.  Counting and writing are two statements, so workers'   *)
(* transactions may commit between them.                                   *)

Active == {j \in Job : status[j] \in {"pending", "running"}}
QueueFull == Cardinality(Active) >= Limit
LockFree == open = {}
RowFree(j) == [op |-> "retry", job |-> j] \notin open

\* The lock is granted, and the count leaves room.  A full queue is a 429.
CountForEnqueue(j) ==
  /\ LockFree
  /\ status[j] = "absent" /\ ~QueueFull
  /\ open' = open \cup {[op |-> "enqueue", job |-> j]}
  /\ UNCHANGED <<jobVars, workerVars, net>>

\* The rows are inserted for the model of a worker that is online; COMMIT.
\* created_at is when the transaction began, before it waited for the lock: it
\* may be earlier than that of a job committed before.
Enqueue(c, w) ==
  /\ c \in open /\ c.op = "enqueue"
  /\ status' = [status EXCEPT ![c.job] = "pending"]
  /\ \E rank \in 0..Cardinality({j \in Job : status[j] # "absent"}) :
       born' = [born EXCEPT ![c.job] = rank]
  /\ target' = [target EXCEPT ![c.job] = ModelOf(w)]
  /\ open' = open \ {c}
  /\ UNCHANGED <<attempt, budget, token, holder, lapsed, drafts, author,
                 workerVars, net>>

CountForRetry(j) ==
  /\ LockFree
  /\ status[j] \in {"failed", "cancelled"} /\ ~QueueFull
  /\ attempt[j] <= MaxAttempt
  /\ open' = open \cup {[op |-> "retry", job |-> j]}
  /\ UNCHANGED <<jobVars, workerVars, net>>

\* The token is cleared, the budget reopened; the old worker_id stays.
Retry(c) ==
  /\ c \in open /\ c.op = "retry"
  /\ token' = [token EXCEPT ![c.job] = 0]
  /\ lapsed' = [lapsed EXCEPT ![c.job] = {}]
  /\ budget' = [budget EXCEPT ![c.job] = attempt[c.job] + LeaseBudget]
  /\ status' = [status EXCEPT ![c.job] = "pending"]
  /\ open' = open \ {c}
  /\ UNCHANGED <<born, target, attempt, holder, drafts, author, workerVars, net>>

\* A statement fails, the process dies, the input is refused: ROLLBACK.
RollBack(c) ==
  /\ c \in open
  /\ open' = open \ {c}
  /\ UNCHANGED <<jobVars, workerVars, net>>

\* Mutant of Cancel: whatever the status.
CancelAnything(j) ==
  /\ LockFree
  /\ status[j] # "absent"
  /\ status' = [status EXCEPT ![j] = "cancelled"]
  /\ UNCHANGED <<born, target, attempt, budget, token, holder, lapsed, drafts,
                 author, open, workerVars, net>>

Cancel(j) ==
  /\ LockFree
  /\ j \in Active
  /\ status' = [status EXCEPT ![j] = "cancelled"]
  /\ UNCHANGED <<born, target, attempt, budget, token, holder, lapsed, drafts,
                 author, open, workerVars, net>>

-----------------------------------------------------------------------------
(* The lease: claim, its lapse, renewal.                                   *)

\* Mutant of Claimable: lapsed leases are not taken over.
ClaimablePending(w) ==
  {j \in Job : target[j] = ModelOf(w) /\ RowFree(j) /\ status[j] = "pending"}

Claimable(w) ==
  {j \in Job : /\ target[j] = ModelOf(w) /\ RowFree(j)
               /\ \/ status[j] = "pending"
                  \/ status[j] = "running" /\ "database" \in lapsed[j]}

\* FOR UPDATE SKIP LOCKED LIMIT 1, oldest first.
NextJob(w, j) ==
  j \in Claimable(w) /\ \A i \in Claimable(w) : born[j] <= born[i]

\* The job's budget is used up: LEASE_EXHAUSTED, and no lease this time.
ExhaustJob(w, j) ==
  /\ pc[w] = "idle"
  /\ NextJob(w, j) /\ attempt[j] >= budget[j]
  /\ status' = [status EXCEPT ![j] = "failed"]
  /\ UNCHANGED <<born, target, attempt, budget, token, holder, lapsed, drafts,
                 author, open, workerVars, net>>

GrantLease(w, j) ==
  /\ NextJob(w, j) /\ attempt[j] < budget[j]
  /\ status' = [status EXCEPT ![j] = "running"]
  /\ attempt' = [attempt EXCEPT ![j] = @ + 1]
  /\ token' = [token EXCEPT ![j] = attempt[j] + 1]
  /\ holder' = [holder EXCEPT ![j] = w]
  /\ lapsed' = [lapsed EXCEPT ![j] = {}]
  /\ UNCHANGED <<born, target, budget, drafts, author>>

Claim(w, j) ==
  /\ pc[w] = "idle"
  /\ GrantLease(w, j)
  /\ pc' = [pc EXCEPT ![w] = "executing"]
  /\ lease' = [lease EXCEPT ![w] = [job |-> j, token |-> attempt[j] + 1]]
  /\ UNCHANGED <<open, valid, tries, aborted, reply, net>>

\* The claim commits and its answer is lost, or comes after the 10 s timeout.
ClaimLost(w, j) ==
  /\ pc[w] = "idle"
  /\ GrantLease(w, j)
  /\ UNCHANGED <<open, workerVars, net>>

\* 30 s pass without a renewal, by one of the clocks.
Lapse(j, c) ==
  /\ status[j] = "running" /\ c \notin lapsed[j]
  /\ lapsed' = [lapsed EXCEPT ![j] = @ \cup {c}]
  /\ UNCHANGED <<status, born, target, attempt, budget, token, holder, drafts,
                 author, open, workerVars, net>>

\* Mutant of Holds: the status is not looked at.
HoldsAnyStatus(w, j, t) ==
  /\ holder[j] = w /\ token[j] = t
  /\ "process" \notin lapsed[j]

\* Mutant of Holds: the worker's name is enough.
HoldsByName(w, j, t) ==
  /\ status[j] = "running"
  /\ holder[j] = w
  /\ "process" \notin lapsed[j]

\* checkLease
Holds(w, j, t) ==
  /\ status[j] = "running"
  /\ holder[j] = w /\ token[j] = t
  /\ "process" \notin lapsed[j]

Busy(w) == pc[w] \in {"executing", "submitting", "failing"}

\* Back to the polling loop.
Leave(w) ==
  /\ pc' = [pc EXCEPT ![w] = "idle"]
  /\ lease' = [lease EXCEPT ![w] = NoLease]
  /\ valid' = [valid EXCEPT ![w] = FALSE]
  /\ tries' = [tries EXCEPT ![w] = 0]
  /\ aborted' = [aborted EXCEPT ![w] = FALSE]
  /\ reply' = [reply EXCEPT ![w] = "none"]

\* controller.abort(): it kills the child; a post under way goes on.
Abort(w) ==
  IF pc[w] = "executing"
    THEN Leave(w)
    ELSE /\ aborted' = [aborted EXCEPT ![w] = TRUE]
         /\ UNCHANGED <<pc, lease, valid, tries, reply>>

\* The 8 s heartbeat is accepted ...
Renew(w) ==
  /\ Busy(w) /\ ~aborted[w]
  /\ RowFree(lease[w].job)
  /\ Holds(w, lease[w].job, lease[w].token)
  /\ lapsed' = [lapsed EXCEPT ![lease[w].job] = {}]
  /\ UNCHANGED <<status, born, target, attempt, budget, token, holder, drafts,
                 author, open, workerVars, net>>

\* ... or refused: the lease was lost, the job cancelled or done ...
RenewRefused(w) ==
  /\ Busy(w) /\ ~aborted[w]
  /\ RowFree(lease[w].job)
  /\ ~Holds(w, lease[w].job, lease[w].token)
  /\ Abort(w)
  /\ UNCHANGED <<jobVars, open, net>>

\* ... or it, or its answer, is lost: the worker gives up all the same.
RenewLost(w) ==
  /\ Busy(w) /\ ~aborted[w]
  /\ Abort(w)
  /\ \/ UNCHANGED lapsed
     \/ /\ RowFree(lease[w].job) /\ Holds(w, lease[w].job, lease[w].token)
        /\ lapsed' = [lapsed EXCEPT ![lease[w].job] = {}]
  /\ UNCHANGED <<status, born, target, attempt, budget, token, holder, drafts,
                 author, open, net>>

-----------------------------------------------------------------------------
(* The worker runs the job and submits (runWorker).                        *)

\* Posts of one result are equal, so in flight they are one message; that an
\* answer may be lost makes up for it.
Request(w, k, v) ==
  [kind |-> k, worker |-> w, job |-> lease[w].job, token |-> lease[w].token,
   valid |-> v]

SendComplete(w, v, n) ==
  /\ net' = net \cup {Request(w, "complete", v)}
  /\ tries' = [tries EXCEPT ![w] = n]
  /\ reply' = [reply EXCEPT ![w] = "none"]

SendFail(w) ==
  /\ pc' = [pc EXCEPT ![w] = "failing"]
  /\ net' = net \cup {Request(w, "fail", FALSE)}
  /\ UNCHANGED <<jobVars, open, lease, valid, tries, aborted, reply>>

\* executeLease resolves with what generateDrafts made in the child process; the
\* result passes the server's validation or not.
FinishExecution(w, v) ==
  /\ pc[w] = "executing"
  /\ pc' = [pc EXCEPT ![w] = "submitting"]
  /\ valid' = [valid EXCEPT ![w] = v]
  /\ SendComplete(w, v, 1)
  /\ UNCHANGED <<jobVars, open, lease, aborted>>

\* It rejects: TIMEOUT, INVALID_RESULT or MODEL_FAILED.
ExecutionFails(w) ==
  /\ pc[w] = "executing"
  /\ SendFail(w)

\* No answer in 10 s, or a 5xx: post the same result again.
SubmitAgain(w) ==
  /\ pc[w] = "submitting" /\ reply[w] = "none" /\ ~aborted[w]
  /\ tries[w] < SubmitTries
  /\ SendComplete(w, valid[w], tries[w] + 1)
  /\ UNCHANGED <<jobVars, open, pc, lease, valid, aborted>>

\* No answer to the last try either, or a 4xx: report the job failed.
GiveUp(w) ==
  /\ pc[w] = "submitting" /\ ~aborted[w]
  /\ reply[w] = "refused" \/ (reply[w] = "none" /\ tries[w] = SubmitTries)
  /\ SendFail(w)

\* Done; or aborted, which ends the loop without a fail request; or the fail
\* request returned or timed out.
StopWork(w) ==
  /\ \/ pc[w] = "submitting" /\ (reply[w] = "ok" \/ aborted[w])
     \/ pc[w] = "failing"
  /\ Leave(w)
  /\ UNCHANGED <<jobVars, open, net>>

\* The process dies at any point and the supervisor starts it again.
Die(w) ==
  /\ Busy(w)
  /\ Leave(w)
  /\ UNCHANGED <<jobVars, open, net>>

-----------------------------------------------------------------------------
(* The control plane serves the requests, in any order.                    *)

\* The answer reaches the worker that still waits for it, or is lost.
Answer(m, r) ==
  IF /\ pc[m.worker] = "submitting" /\ m.kind = "complete"
     /\ lease[m.worker] = [job |-> m.job, token |-> m.token]
    THEN \E a \in {r, "none"} : reply' = [reply EXCEPT ![m.worker] = a]
    ELSE UNCHANGED reply

Serve(m) ==
  /\ m \in net /\ RowFree(m.job)
  /\ net' = net \ {m}
  /\ UNCHANGED <<open, pc, lease, valid, tries, aborted>>

\* The same lease already completed the job with this result: 200 again.  (A
\* lease has one result, so the comparison of result_hash is that of the token.)
AlreadyDone(m) ==
  status[m.job] = "completed" /\ holder[m.job] = m.worker /\ token[m.job] = m.token

CompleteJob(m) ==
  /\ Serve(m) /\ m.kind = "complete" /\ m.valid
  /\ ~AlreadyDone(m) /\ Holds(m.worker, m.job, m.token)
  /\ drafts' = [drafts EXCEPT ![m.job] = @ + 1]
  /\ author' = [author EXCEPT ![m.job] = m.token]
  /\ status' = [status EXCEPT ![m.job] = "completed"]
  /\ Answer(m, "ok")
  /\ UNCHANGED <<born, target, attempt, budget, token, holder, lapsed>>

CompleteAgain(m) ==
  /\ Serve(m) /\ m.kind = "complete" /\ m.valid
  /\ AlreadyDone(m)
  /\ Answer(m, "ok")
  /\ UNCHANGED jobVars

FailJob(m) ==
  /\ Serve(m) /\ m.kind = "fail"
  /\ Holds(m.worker, m.job, m.token)
  /\ status' = [status EXCEPT ![m.job] = "failed"]
  /\ UNCHANGED <<born, target, attempt, budget, token, holder, lapsed, drafts,
                 author, reply>>

\* 400 or 409, and nothing written.
RefuseMessage(m) ==
  /\ Serve(m)
  /\ \/ m.kind = "complete" /\ ~m.valid
     \/ m.kind = "complete" /\ ~AlreadyDone(m) /\ ~Holds(m.worker, m.job, m.token)
     \/ m.kind = "fail" /\ ~Holds(m.worker, m.job, m.token)
  /\ Answer(m, "refused")
  /\ UNCHANGED jobVars

LoseMessage(m) ==
  /\ m \in net
  /\ net' = net \ {m}
  /\ UNCHANGED <<jobVars, open, workerVars>>

-----------------------------------------------------------------------------
UserStep ==
  \/ \E j \in Job : CountForEnqueue(j) \/ CountForRetry(j) \/ Cancel(j)
  \/ \E c \in open : Retry(c) \/ RollBack(c) \/ \E w \in Worker : Enqueue(c, w)

WorkerStep(w) ==
  \/ \E j \in Job : ExhaustJob(w, j) \/ Claim(w, j) \/ ClaimLost(w, j)
  \/ Renew(w) \/ RenewRefused(w) \/ RenewLost(w)
  \/ \E v \in BOOLEAN : FinishExecution(w, v)
  \/ ExecutionFails(w) \/ SubmitAgain(w) \/ GiveUp(w) \/ StopWork(w) \/ Die(w)

MessageStep(m) ==
  CompleteJob(m) \/ CompleteAgain(m) \/ FailJob(m) \/ RefuseMessage(m) \/ LoseMessage(m)

Next ==
  \/ UserStep
  \/ \E w \in Worker : WorkerStep(w)
  \/ \E m \in net : MessageStep(m)
  \/ \E j \in Job, c \in Clock : Lapse(j, c)

Spec == Init /\ [][Next]_vars

\* Idle workers poll, executions end (they are killed at their deadline), posts
\* return or time out, clocks advance.  No request needs to arrive.
Polls(w) == \E j \in Job : ExhaustJob(w, j) \/ Claim(w, j)
Proceeds(w) ==
  \/ \E v \in BOOLEAN : FinishExecution(w, v)
  \/ SubmitAgain(w) \/ GiveUp(w) \/ StopWork(w)

Fairness ==
  /\ \A w \in Worker : WF_vars(Polls(w)) /\ WF_vars(Proceeds(w))
  /\ \A j \in Job : WF_vars(Lapse(j, "database"))

FairSpec == Spec /\ Fairness

-----------------------------------------------------------------------------
(* Properties.                                                             *)

\* A workspace never has more than Limit active jobs, however enqueues,
\* retries, rollbacks and workers interleave (count(*) >= 10 is a 429, and
\* the insert is another statement).
QueueBound == Cardinality(Active) <= Limit

\* A job has drafts exactly when it completed, inserted once: retried,
\* duplicated and delayed submissions never insert them twice or after an end.
DraftsOnce ==
  \A j \in Job : drafts[j] = IF status[j] = "completed" THEN 1 ELSE 0

\* The drafts of a completed job are the result of its last lease, the attempt
\* that their source_info names: a worker that lost its lease, even one that
\* got the same job again, cannot submit the old result, whichever clock lags
\* (checkLease's token and worker comparison).
DraftsOfLastLease ==
  \A j \in Job : status[j] = "completed" =>
    author[j] = attempt[j] /\ token[j] = attempt[j]

\* At most one worker is busy under the current lease of a job, and a worker
\* that was told ok really has its result stored.
OneLeaseHolder ==
  /\ \A v, w \in Worker : lease[v] = lease[w] /\ lease[v] # NoLease => v = w
  /\ \A w \in Worker : reply[w] = "ok" =>
       /\ status[lease[w].job] = "completed"
       /\ author[lease[w].job] = lease[w].token

\* Each opening of a job is paid for by at most LeaseBudget claims, lost ones
\* included, and a retry never shortens a budget that is still open.
BudgetRespected ==
  \A j \in Job :
    /\ attempt[j] <= budget[j]
    /\ status[j] = "pending" /\ token[j] = 0 => budget[j] = attempt[j] + LeaseBudget

(* The inductive invariant behind them (GenerationQueue_proofs).           *)

\* One transaction at a time has counted, there is room for what it will
\* write, and its job is still as it was counted.
OpenInv ==
  /\ \A c, d \in open : c = d
  /\ open # {} => ~QueueFull
  /\ \A c \in open :
       /\ c.op = "enqueue" => status[c.job] = "absent"
       /\ c.op = "retry" => /\ status[c.job] \in {"failed", "cancelled"}
                            /\ attempt[c.job] <= MaxAttempt

\* A running job has the token of its last attempt; a pending one has none.
LeaseInv ==
  \A j \in Job :
    /\ status[j] = "absent" => attempt[j] = 0 /\ budget[j] = LeaseBudget
    /\ status[j] \in {"absent", "pending"} => token[j] = 0
    /\ status[j] = "running" => token[j] = attempt[j] /\ attempt[j] > 0

\* A busy worker has a lease of an attempt that was made, an idle one none.
WorkerInv ==
  \A w \in Worker :
    /\ pc[w] = "idle" => lease[w] = NoLease /\ reply[w] = "none"
    /\ pc[w] # "idle" => /\ lease[w] \in Lease
                         /\ lease[w].token > 0
                         /\ lease[w].token <= attempt[lease[w].job]

IInv ==
  /\ TypeOK
  /\ OpenInv /\ LeaseInv /\ WorkerInv
  /\ QueueBound /\ DraftsOnce /\ DraftsOfLastLease
  /\ OneLeaseHolder /\ BudgetRespected

(* Refinement.                                                             *)

Queue == INSTANCE JobQueue WITH state <- status, results <- drafts

\* Seen from the workspace this is JobQueue: bounded, an outcome stays until a
\* user reopens the job, completed is for ever.  A claim of a lapsed lease is
\* invisible.
ImplementsJobQueue == Queue!Spec

\* An active job ends, whatever dies or is lost, as long as a worker for its
\* model polls: leases lapse and the budget of claims runs out.
ActiveEnds == \A j \in Job : j \in Active ~> j \notin Active
=============================================================================
