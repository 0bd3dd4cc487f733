------------------------ MODULE GenerationQueue_proofs ------------------------
(***************************************************************************)
(* Proofs about GenerationQueue, for any jobs, workers, models and limits. *)
(***************************************************************************)
EXTENDS GenerationQueue, FiniteSetTheorems, TLAPS

\* What is said about the rows of jobs and about open transactions.
TablesInv ==
  OpenInv /\ LeaseInv /\ QueueBound /\ DraftsOnce /\ DraftsOfLastLease /\ BudgetRespected

\* The active jobs can be counted.
LEMMA ActiveIsFinite ==
  /\ IsFiniteSet(Active) /\ Cardinality(Active) \in Nat
  /\ \A A \in SUBSET Active : IsFiniteSet(A) /\ Cardinality(A) <= Cardinality(Active)
<1>1. IsFiniteSet(Active)
  BY JobsAreFinite, FS_Subset DEF Active
<1>2. QED BY <1>1, FS_Subset, FS_CardinalityType

\* Steps that change leases' expiry only keep it.
LEMMA TablesUnchanged ==
  ASSUME IInv, UNCHANGED <<status, attempt, budget, token, drafts, author, open>>
  PROVE  TablesInv'
<1>1. OpenInv' /\ LeaseInv' /\ QueueBound'
  BY DEF IInv, OpenInv, LeaseInv, QueueBound, QueueFull, Active
<1>2. DraftsOnce' /\ DraftsOfLastLease' /\ BudgetRespected'
  BY DEF IInv, DraftsOnce, DraftsOfLastLease, BudgetRespected
<1>3. QED BY <1>1, <1>2 DEF TablesInv

\* An active job that ends, with drafts if it completes, leaves room.
LEMMA JobEnds ==
  ASSUME IInv, NEW j \in Active, NEW s \in {"completed", "failed", "cancelled"},
         \A c \in open : c.op = "retry" => c.job # j,
         status' = [status EXCEPT ![j] = s],
         UNCHANGED <<attempt, budget, token, open>>,
         IF s = "completed"
           THEN /\ drafts' = [drafts EXCEPT ![j] = @ + 1]
                /\ author' = [author EXCEPT ![j] = token[j]]
                /\ status[j] = "running"
           ELSE UNCHANGED <<drafts, author>>
  PROVE  TablesInv'
<1>1. j \in Job /\ status \in [Job -> JobStatus] /\ drafts \in [Job -> Nat] /\ author \in [Job -> Token]
  BY DEF IInv, TypeOK, Active
<1>2. Active' \subseteq Active
  BY <1>1 DEF Active
<1>3. Cardinality(Active') <= Cardinality(Active) /\ Cardinality(Active') \in Nat
  BY <1>2, ActiveIsFinite, FS_CardinalityType
<1>4. QueueBound' /\ (QueueFull' => QueueFull)
  BY <1>3, ActiveIsFinite, LimitIsNat DEF IInv, QueueBound, QueueFull
<1>5. OpenInv'
  BY <1>1, <1>4 DEF IInv, OpenInv, Active
<1>6. LeaseInv' /\ BudgetRespected'
  BY <1>1 DEF IInv, LeaseInv, BudgetRespected, Active
<1>7. DraftsOnce'
  BY <1>1 DEF IInv, DraftsOnce, Active
<1>8. DraftsOfLastLease'
  BY <1>1 DEF IInv, DraftsOfLastLease, LeaseInv, Active
<1>9. QED BY <1>4, <1>5, <1>6, <1>7, <1>8 DEF TablesInv

\* A job that a counted transaction opens fills the place that was counted.
LEMMA JobOpens ==
  ASSUME IInv, NEW c \in open, open' = open \ {c},
         status' = [status EXCEPT ![c.job] = "pending"],
         token' = [token EXCEPT ![c.job] = 0],
         budget' = [budget EXCEPT ![c.job] = attempt[c.job] + LeaseBudget],
         UNCHANGED <<attempt, drafts, author>>
  PROVE  TablesInv'
<1>1. c.job \in Job /\ c.job \notin Active /\ open' = {}
  BY DEF IInv, TypeOK, OpenInv, Change, Active
<1>2. Active' = Active \cup {c.job}
  BY <1>1 DEF IInv, TypeOK, Active
<1>3. Cardinality(Active') = Cardinality(Active) + 1
  BY <1>1, <1>2, ActiveIsFinite, FS_AddElement
<1>4. QueueBound'
  BY <1>3, ActiveIsFinite, LimitIsNat DEF IInv, OpenInv, QueueFull, QueueBound
<1>5. OpenInv'
  BY <1>1 DEF OpenInv
<1>6. LeaseInv'
  BY <1>1 DEF IInv, TypeOK, LeaseInv
<1>7. BudgetRespected'
  BY <1>1, BudgetsArePositive DEF IInv, TypeOK, Token, BudgetRespected
<1>8. DraftsOnce' /\ DraftsOfLastLease'
  BY <1>1 DEF IInv, TypeOK, OpenInv, Change, DraftsOnce, DraftsOfLastLease
<1>9. QED BY <1>4, <1>5, <1>6, <1>7, <1>8 DEF TablesInv

\* A claim makes a new attempt, whose number is the new token.
LEMMA JobIsClaimed ==
  ASSUME IInv, NEW w \in Worker, NEW j \in Job, GrantLease(w, j), open' = open
  PROVE  /\ TablesInv'
         /\ attempt[j] + 1 \in Token /\ attempt[j] + 1 > 0
<1>1. /\ j \in Active /\ [op |-> "retry", job |-> j] \notin open
      /\ attempt[j] \in Nat /\ attempt[j] + 1 <= budget[j]
      /\ attempt[j] + 1 \in Token
  BY BudgetsArePositive DEF IInv, TypeOK, Token, GrantLease, NextJob, Claimable, RowFree, Active
<1>2. Active' = Active
  BY <1>1 DEF IInv, TypeOK, Active, GrantLease
<1>3. QueueBound' /\ QueueFull' = QueueFull
  BY <1>2 DEF IInv, QueueBound, QueueFull
<1>4. OpenInv'
  BY <1>1, <1>3 DEF IInv, TypeOK, Change, OpenInv, Active, GrantLease
<1>5. LeaseInv'
  BY <1>1 DEF IInv, TypeOK, LeaseInv, GrantLease
<1>6. DraftsOnce' /\ DraftsOfLastLease'
  BY <1>1 DEF IInv, TypeOK, DraftsOnce, DraftsOfLastLease, Active, GrantLease
<1>7. BudgetRespected'
  BY <1>1 DEF IInv, TypeOK, BudgetRespected, GrantLease
<1>8. QED BY <1>1, <1>3, <1>4, <1>5, <1>6, <1>7 DEF TablesInv

-----------------------------------------------------------------------------
\* Users keep the invariant: counting, writing and cancelling.
LEMMA UserStepInv ==
  ASSUME IInv, UserStep
  PROVE  IInv'
<1>1. ASSUME NEW j \in Job, CountForEnqueue(j) \/ CountForRetry(j) PROVE IInv'
  <2>1. TypeOK'
    BY <1>1 DEF IInv, TypeOK, CountForEnqueue, CountForRetry, Change, jobVars,
        workerVars
  <2>2. OpenInv'
    BY <1>1 DEF IInv, OpenInv, QueueFull, Active, LockFree, CountForEnqueue,
        CountForRetry, jobVars
  <2>3. LeaseInv' /\ QueueBound' /\ DraftsOnce' /\ DraftsOfLastLease' /\ BudgetRespected'
    BY <1>1 DEF IInv, LeaseInv, QueueBound, Active, DraftsOnce, DraftsOfLastLease,
        BudgetRespected, CountForEnqueue, CountForRetry, jobVars
  <2>4. WorkerInv' /\ OneLeaseHolder'
    BY <1>1 DEF IInv, WorkerInv, OneLeaseHolder, CountForEnqueue, CountForRetry,
        jobVars, workerVars
  <2>5. QED BY <2>1, <2>2, <2>3, <2>4 DEF IInv
<1>2. ASSUME NEW c \in open, NEW w \in Worker, Enqueue(c, w) PROVE IInv'
  <2>1. c.job \in Job /\ status[c.job] = "absent"
    BY <1>2 DEF IInv, TypeOK, OpenInv, Change, Enqueue
  <2>2. budget[c.job] = attempt[c.job] + LeaseBudget /\ token[c.job] = 0
    BY <2>1, BudgetsArePositive DEF IInv, LeaseInv
  <2>3. budget = [budget EXCEPT ![c.job] = attempt[c.job] + LeaseBudget] /\ token = [token EXCEPT ![c.job] = 0]
    BY <2>1, <2>2 DEF IInv, TypeOK
  <2>4. TablesInv'
    BY <1>2, <2>3, JobOpens DEF Enqueue
  <2>5. TypeOK'
    <3>1. born' \in [Job -> Nat]
      <4>1. PICK rank \in 0..Cardinality({j \in Job : status[j] # "absent"}) :
              born' = [born EXCEPT ![c.job] = rank]
        BY <1>2 DEF Enqueue
      <4>2. rank \in Nat
        BY <4>1
      <4>3. QED BY <4>1, <4>2 DEF IInv, TypeOK
    <3>2. QED
      BY <1>2, <3>1, ModelsAreModels DEF IInv, TypeOK, Enqueue, JobStatus, workerVars
  <2>6. WorkerInv' /\ OneLeaseHolder'
    BY <1>2, <2>1 DEF IInv, TypeOK, WorkerInv, OneLeaseHolder, Enqueue, workerVars
  <2>7. QED BY <2>4, <2>5, <2>6 DEF IInv, TablesInv
<1>3. ASSUME NEW c \in open, Retry(c) PROVE IInv'
  <2>1. c.job \in Job /\ status[c.job] \in {"failed", "cancelled"} /\ attempt[c.job] <= MaxAttempt
    BY <1>3 DEF IInv, TypeOK, OpenInv, Change, Retry
  <2>2. TablesInv'
    BY <1>3, JobOpens DEF Retry
  <2>3. attempt[c.job] + LeaseBudget \in Token /\ 0 \in Token
    BY <2>1, BudgetsArePositive DEF IInv, TypeOK, Token
  <2>4. TypeOK'
    BY <1>3, <2>3 DEF IInv, TypeOK, Retry, JobStatus, workerVars
  <2>5. WorkerInv' /\ OneLeaseHolder'
    BY <1>3, <2>1 DEF IInv, TypeOK, WorkerInv, OneLeaseHolder, Retry, workerVars
  <2>6. QED BY <2>2, <2>4, <2>5 DEF IInv, TablesInv
<1>4. ASSUME NEW c \in open, RollBack(c) PROVE IInv'
  <2>1. TypeOK'
    BY <1>4 DEF IInv, TypeOK, RollBack, jobVars, workerVars
  <2>2. OpenInv' /\ LeaseInv' /\ QueueBound'
    BY <1>4 DEF IInv, OpenInv, LeaseInv, QueueBound, QueueFull, Active, RollBack, jobVars
  <2>3. DraftsOnce' /\ DraftsOfLastLease' /\ BudgetRespected'
    BY <1>4 DEF IInv, DraftsOnce, DraftsOfLastLease, BudgetRespected, RollBack, jobVars
  <2>4. WorkerInv' /\ OneLeaseHolder'
    BY <1>4 DEF IInv, WorkerInv, OneLeaseHolder, RollBack, jobVars, workerVars
  <2>5. QED BY <2>1, <2>2, <2>3, <2>4 DEF IInv
<1>5. ASSUME NEW j \in Job, Cancel(j) PROVE IInv'
  <2>1. TablesInv'
    BY <1>5, JobEnds DEF Cancel, LockFree
  <2>2. TypeOK'
    BY <1>5 DEF IInv, TypeOK, Cancel, JobStatus, workerVars
  <2>3. WorkerInv' /\ OneLeaseHolder'
    BY <1>5 DEF IInv, TypeOK, WorkerInv, OneLeaseHolder, Active, Cancel, workerVars
  <2>4. QED BY <2>1, <2>2, <2>3 DEF IInv, TablesInv
<1>6. QED BY <1>1, <1>2, <1>3, <1>4, <1>5 DEF UserStep

-----------------------------------------------------------------------------
\* A worker that claims, or finds a job whose budget is used up, keeps it ...
LEMMA ClaimingInv ==
  ASSUME IInv, NEW w \in Worker, NEW j \in Job,
         ExhaustJob(w, j) \/ Claim(w, j) \/ ClaimLost(w, j)
  PROVE  IInv'
<1>1. ASSUME ExhaustJob(w, j) PROVE IInv'
  <2>1. j \in Active /\ [op |-> "retry", job |-> j] \notin open
    BY <1>1 DEF ExhaustJob, NextJob, Claimable, RowFree, Active
  <2>2. \A c \in open : c.op = "retry" => c.job # j
    BY <2>1 DEF IInv, TypeOK, Change
  <2>3. TablesInv'
    BY <1>1, <2>1, <2>2, JobEnds DEF ExhaustJob
  <2>4. TypeOK'
    BY <1>1 DEF IInv, TypeOK, ExhaustJob, JobStatus, workerVars
  <2>5. WorkerInv' /\ OneLeaseHolder'
    BY <1>1, <2>1 DEF IInv, TypeOK, WorkerInv, OneLeaseHolder, Active, ExhaustJob, workerVars
  <2>6. QED BY <2>3, <2>4, <2>5 DEF IInv, TablesInv
<1>2. ASSUME GrantLease(w, j), open' = open, net' = net,
             UNCHANGED <<valid, tries, aborted, reply>>,
             pc' \in [Worker -> {"idle", "executing", "submitting", "failing"}],
             lease' \in [Worker -> Lease \cup {NoLease}]
      PROVE  TypeOK' /\ TablesInv'
  <2>1. TablesInv' /\ attempt[j] + 1 \in Token
    BY <1>2, JobIsClaimed
  <2>2. TypeOK'
    BY <1>2, <2>1 DEF IInv, TypeOK, GrantLease, JobStatus
  <2>3. QED BY <2>1, <2>2
<1>3. \A v \in Worker : lease[v] # NoLease /\ lease[v].job = j => lease[v].token <= attempt[j]
  BY DEF IInv, TypeOK, WorkerInv
<1>4. j \in Active /\ attempt[j] \in Nat /\ attempt[j] + 1 > 0 /\ attempt[j] + 1 > attempt[j]
      /\ status[j] # "completed"
  BY DEF IInv, TypeOK, Token, ExhaustJob, Claim, ClaimLost, GrantLease, NextJob, Claimable, Active
<1>5. ASSUME Claim(w, j) PROVE IInv'
  <2>1. [job |-> j, token |-> attempt[j] + 1] \in Lease
    BY <1>5, JobIsClaimed DEF Claim, Lease
  <2>2. TypeOK' /\ TablesInv'
    BY <1>2, <1>5, <2>1 DEF IInv, TypeOK, Claim
  <2>3. WorkerInv'
    BY <1>4, <1>5, <2>1 DEF IInv, TypeOK, Token, WorkerInv, Lease, NoLease, Claim, GrantLease
  <2>4. OneLeaseHolder'
    <3>1. \A v \in Worker : lease[v] # [job |-> j, token |-> attempt[j] + 1]
      BY <1>3, <1>4, NoneIsNothing DEF NoLease, IInv, TypeOK, Token, Lease
    <3>2. \A u, v \in Worker : lease'[u] = lease'[v] /\ lease'[u] # NoLease => u = v
      BY <1>5, <3>1 DEF IInv, TypeOK, OneLeaseHolder, Claim
    <3>3. \A v \in Worker : reply'[v] = "ok" => v # w /\ lease'[v] = lease[v]
      BY <1>5 DEF IInv, TypeOK, WorkerInv, Claim
    <3>4. \A v \in Worker : reply'[v] = "ok" =>
            /\ status'[lease'[v].job] = "completed"
            /\ author'[lease'[v].job] = lease'[v].token
      BY <1>4, <1>5, <3>3 DEF IInv, TypeOK, OneLeaseHolder, Claim, GrantLease
    <3>5. QED BY <3>2, <3>4 DEF OneLeaseHolder
  <2>5. QED BY <2>2, <2>3, <2>4 DEF IInv, TablesInv
<1>6. ASSUME ClaimLost(w, j) PROVE IInv'
  <2>1. TypeOK' /\ TablesInv'
    BY <1>2, <1>6 DEF IInv, TypeOK, ClaimLost, workerVars
  <2>2. WorkerInv'
    BY <1>4, <1>6 DEF IInv, TypeOK, Token, WorkerInv, Lease, ClaimLost, GrantLease, workerVars
  <2>3. OneLeaseHolder'
    BY <1>4, <1>6 DEF IInv, TypeOK, OneLeaseHolder, ClaimLost, GrantLease, workerVars
  <2>4. QED BY <2>1, <2>2, <2>3 DEF IInv, TablesInv
<1>7. QED BY <1>1, <1>5, <1>6

\* A worker that leaves its job, or is told to, keeps it ...
LEMMA LeavingInv ==
  ASSUME IInv, NEW w \in Worker, pc[w] # "idle", Leave(w) \/ Abort(w),
         lapsed' \in [Job -> SUBSET Clock],
         UNCHANGED <<status, born, target, attempt, budget, token, holder,
                     drafts, author, open, net>>
  PROVE  IInv'
<1>1. ASSUME Leave(w) PROVE IInv'
  <2>1. TypeOK'
    BY <1>1, BudgetsArePositive DEF IInv, TypeOK, Leave
  <2>2. WorkerInv'
    BY <1>1 DEF IInv, TypeOK, WorkerInv, Leave
  <2>3. OneLeaseHolder'
    BY <1>1 DEF IInv, TypeOK, OneLeaseHolder, Leave
  <2>4. QED BY <2>1, <2>2, <2>3, TablesUnchanged DEF IInv, TablesInv
<1>2. ASSUME aborted' = [aborted EXCEPT ![w] = TRUE],
             UNCHANGED <<pc, lease, valid, tries, reply>>
      PROVE  IInv'
  <2>1. TypeOK'
    BY <1>2 DEF IInv, TypeOK
  <2>2. WorkerInv' /\ OneLeaseHolder'
    BY <1>2 DEF IInv, WorkerInv, OneLeaseHolder
  <2>3. QED BY <2>1, <2>2, TablesUnchanged DEF IInv, TablesInv
<1>3. QED BY <1>1, <1>2 DEF Abort

\* ... and so does one that goes on with it ...
LEMMA WorkingInv ==
  ASSUME IInv, NEW w \in Worker,
         \/ \E v \in BOOLEAN : FinishExecution(w, v)
         \/ ExecutionFails(w) \/ SubmitAgain(w) \/ GiveUp(w)
  PROVE  IInv'
<1>1. pc[w] # "idle" /\ lease[w] \in Lease
  BY DEF IInv, WorkerInv, FinishExecution, ExecutionFails, SubmitAgain, GiveUp
<1>2. \A k \in {"complete", "fail"}, v \in BOOLEAN : Request(w, k, v) \in Message
  BY <1>1 DEF Lease, Request, Message
<1>3. /\ valid' \in [Worker -> BOOLEAN] /\ net' \subseteq Message
      /\ tries' \in [Worker -> 0..SubmitTries]
  <2>1. ASSUME NEW v \in BOOLEAN, FinishExecution(w, v)
        PROVE /\ valid' \in [Worker -> BOOLEAN] /\ net' \subseteq Message
              /\ tries' \in [Worker -> 0..SubmitTries]
    BY <1>2, <2>1, BudgetsArePositive DEF IInv, TypeOK, FinishExecution, SendComplete
  <2>2. ASSUME ExecutionFails(w) \/ GiveUp(w)
        PROVE /\ valid' \in [Worker -> BOOLEAN] /\ net' \subseteq Message
              /\ tries' \in [Worker -> 0..SubmitTries]
    BY <1>2, <2>2 DEF IInv, TypeOK, ExecutionFails, GiveUp, SendFail
  <2>3. ASSUME SubmitAgain(w)
        PROVE /\ valid' \in [Worker -> BOOLEAN] /\ net' \subseteq Message
              /\ tries' \in [Worker -> 0..SubmitTries]
    BY <1>2, <2>3, BudgetsArePositive DEF IInv, TypeOK, SubmitAgain, SendComplete
  <2>4. QED BY <2>1, <2>2, <2>3
<1>4. /\ pc' = pc \/ \E x \in {"submitting", "failing"} : pc' = [pc EXCEPT ![w] = x]
      /\ reply' = reply \/ reply' = [reply EXCEPT ![w] = "none"]
      /\ UNCHANGED <<jobVars, open, lease, aborted>>
  BY DEF FinishExecution, ExecutionFails, SubmitAgain, GiveUp, SendComplete, SendFail
<1>5. TypeOK'
  BY <1>3, <1>4 DEF IInv, TypeOK, jobVars
<1>6. WorkerInv'
  BY <1>1, <1>4 DEF IInv, TypeOK, WorkerInv, jobVars
<1>7. OneLeaseHolder'
  BY <1>4 DEF IInv, TypeOK, OneLeaseHolder, jobVars
<1>8. QED BY <1>4, <1>5, <1>6, <1>7, TablesUnchanged DEF IInv, TablesInv, jobVars

\* ... and so do renewals and clocks.
LEMMA TimeInv ==
  ASSUME IInv, lapsed' \in [Job -> SUBSET Clock],
         UNCHANGED <<status, born, target, attempt, budget, token, holder,
                     drafts, author, open, workerVars, net>>
  PROVE  IInv'
<1>1. TypeOK'
  BY DEF IInv, TypeOK, workerVars
<1>2. WorkerInv' /\ OneLeaseHolder'
  BY DEF IInv, WorkerInv, OneLeaseHolder, workerVars
<1>3. QED BY <1>1, <1>2, TablesUnchanged DEF IInv, TablesInv

LEMMA WorkerStepInv ==
  ASSUME IInv, NEW w \in Worker, WorkerStep(w)
  PROVE  IInv'
<1>1. ASSUME Renew(w) PROVE IInv'
  <2>1. lapsed' \in [Job -> SUBSET Clock]
    BY <1>1 DEF IInv, TypeOK, Renew
  <2>2. QED BY <1>1, <2>1, TimeInv DEF Renew
<1>2. ASSUME RenewRefused(w) \/ StopWork(w) \/ Die(w) PROVE IInv'
  <2>1. lapsed' \in [Job -> SUBSET Clock]
    BY <1>2 DEF IInv, TypeOK, RenewRefused, StopWork, Die, jobVars
  <2>2. QED BY <1>2, <2>1, LeavingInv DEF RenewRefused, StopWork, Die, Busy, jobVars
<1>3. ASSUME RenewLost(w) PROVE IInv'
  <2>1. lapsed' \in [Job -> SUBSET Clock]
    BY <1>3 DEF IInv, TypeOK, RenewLost
  <2>2. QED BY <1>3, <2>1, LeavingInv DEF RenewLost, Busy
<1>4. QED BY <1>1, <1>2, <1>3, ClaimingInv, WorkingInv DEF WorkerStep

-----------------------------------------------------------------------------
\* An answer tells ok only to the worker that posted under the lease it names.
LEMMA AnswerReaches ==
  ASSUME IInv, NEW m \in Message, NEW r \in {"ok", "refused"}, Answer(m, r)
  PROVE  /\ reply' \in [Worker -> {"none", "ok", "refused"}]
         /\ \A v \in Worker : reply'[v] = "ok" =>
              \/ reply[v] = "ok"
              \/ /\ r = "ok" /\ pc[v] = "submitting"
                 /\ lease[v] = [job |-> m.job, token |-> m.token]
         /\ \A v \in Worker : pc[v] = "idle" => reply'[v] = reply[v]
<1>1. m.worker \in Worker /\ reply \in [Worker -> {"none", "ok", "refused"}]
  BY DEF Message, IInv, TypeOK
<1>2. QED BY <1>1 DEF Answer

\* Serving or losing a request keeps the invariant.
LEMMA MessageStepInv ==
  ASSUME IInv, NEW m \in net, MessageStep(m)
  PROVE  IInv'
<1>1. /\ m \in Message /\ m.job \in Job /\ m.worker \in Worker
      /\ \A v \in Worker : reply[v] = "ok" =>
           lease[v].job \in Job /\ status[lease[v].job] = "completed"
  BY DEF IInv, TypeOK, Message, WorkerInv, OneLeaseHolder, Lease
<1>2. ASSUME Serve(m), Holds(m.worker, m.job, m.token)
      PROVE  /\ m.job \in Active /\ status[m.job] = "running"
             /\ \A c \in open : c.op = "retry" => c.job # m.job
  BY <1>1, <1>2 DEF IInv, TypeOK, Change, Serve, Holds, RowFree, Active
<1>3. ASSUME CompleteJob(m) PROVE IInv'
  <2>1. m.job \in Active /\ status[m.job] = "running" /\ token[m.job] = m.token
    BY <1>2, <1>3 DEF CompleteJob, Holds
  <2>2. TablesInv'
    BY <1>2, <1>3, <2>1, JobEnds DEF CompleteJob, Serve
  <2>3. /\ reply' \in [Worker -> {"none", "ok", "refused"}]
        /\ \A v \in Worker : reply'[v] = "ok" =>
             \/ reply[v] = "ok"
             \/ lease[v] = [job |-> m.job, token |-> m.token]
        /\ \A v \in Worker : pc[v] = "idle" => reply'[v] = reply[v]
    BY <1>1, <1>3, AnswerReaches DEF CompleteJob
  <2>4. TypeOK'
    <3>1. drafts' \in [Job -> Nat] /\ author' \in [Job -> Token] /\ status' \in [Job -> JobStatus]
      BY <1>1, <1>3 DEF IInv, TypeOK, Message, JobStatus, CompleteJob
    <3>2. QED BY <1>3, <2>3, <3>1 DEF IInv, TypeOK, CompleteJob, Serve
  <2>5. WorkerInv'
    BY <1>3, <2>3 DEF IInv, WorkerInv, CompleteJob, Serve
  <2>6. OneLeaseHolder'
    <3>1. status' = [status EXCEPT ![m.job] = "completed"] /\ lease' = lease
          /\ author' = [author EXCEPT ![m.job] = m.token]
      BY <1>3 DEF CompleteJob, Serve
    <3>2. ASSUME NEW v \in Worker, reply'[v] = "ok"
          PROVE  status'[lease'[v].job] = "completed" /\ author'[lease'[v].job] = lease'[v].token
      <4>1. CASE reply[v] = "ok"
        BY <1>1, <2>1, <3>1, <4>1 DEF IInv, TypeOK, OneLeaseHolder
      <4>2. CASE lease[v] = [job |-> m.job, token |-> m.token]
        BY <1>1, <3>1, <4>2 DEF IInv, TypeOK
      <4>3. QED BY <2>3, <3>2, <4>1, <4>2
    <3>3. QED BY <3>1, <3>2 DEF IInv, OneLeaseHolder
  <2>7. QED BY <2>2, <2>4, <2>5, <2>6 DEF IInv, TablesInv
<1>4. ASSUME NEW r \in {"ok", "refused"}, Serve(m), Answer(m, r), UNCHANGED jobVars,
             r = "ok" => status[m.job] = "completed" /\ token[m.job] = m.token
      PROVE  IInv'
  <2>1. /\ reply' \in [Worker -> {"none", "ok", "refused"}]
        /\ \A v \in Worker : reply'[v] = "ok" =>
              \/ reply[v] = "ok"
              \/ r = "ok" /\ lease[v] = [job |-> m.job, token |-> m.token]
        /\ \A v \in Worker : pc[v] = "idle" => reply'[v] = reply[v]
    BY <1>1, <1>4, AnswerReaches
  <2>2. r = "ok" => author[m.job] = m.token
    BY <1>1, <1>4 DEF IInv, DraftsOfLastLease
  <2>3. TypeOK'
    BY <1>4, <2>1 DEF IInv, TypeOK, Serve, jobVars
  <2>4. WorkerInv'
    BY <1>4, <2>1 DEF IInv, WorkerInv, Serve, jobVars
  <2>5. OneLeaseHolder'
    BY <1>4, <2>1, <2>2 DEF IInv, OneLeaseHolder, Serve, jobVars
  <2>6. QED BY <1>4, <2>3, <2>4, <2>5, TablesUnchanged DEF IInv, TablesInv, Serve, jobVars
<1>5. ASSUME FailJob(m) PROVE IInv'
  <2>1. TablesInv'
    BY <1>2, <1>5, JobEnds DEF FailJob, Serve
  <2>2. TypeOK'
    BY <1>5 DEF IInv, TypeOK, JobStatus, FailJob, Serve
  <2>3. WorkerInv'
    BY <1>5 DEF IInv, WorkerInv, FailJob, Serve
  <2>4. OneLeaseHolder'
    BY <1>1, <1>2, <1>5 DEF IInv, TypeOK, OneLeaseHolder, FailJob, Serve
  <2>5. QED BY <2>1, <2>2, <2>3, <2>4 DEF IInv, TablesInv
<1>6. ASSUME LoseMessage(m) PROVE IInv'
  <2>1. TypeOK'
    BY <1>6 DEF IInv, TypeOK, LoseMessage, jobVars, workerVars
  <2>2. WorkerInv' /\ OneLeaseHolder'
    BY <1>6 DEF IInv, WorkerInv, OneLeaseHolder, LoseMessage, jobVars, workerVars
  <2>3. QED BY <1>6, <2>1, <2>2, TablesUnchanged DEF IInv, TablesInv, LoseMessage, jobVars
<1>7. CompleteAgain(m) => IInv'
  BY <1>4 DEF CompleteAgain, AlreadyDone
<1>8. RefuseMessage(m) => IInv'
  BY <1>4 DEF RefuseMessage
<1>9. QED BY <1>3, <1>5, <1>6, <1>7, <1>8 DEF MessageStep

-----------------------------------------------------------------------------
\* The inductive invariant holds in the initial state.
LEMMA InitInv == Init => IInv
<1> SUFFICES ASSUME Init PROVE IInv
  OBVIOUS
<1>1. TypeOK
  BY BudgetsArePositive DEF Init, TypeOK, JobStatus, Token
<1>2. Active = {}
  BY DEF Init, Active
<1>3. QueueBound
  BY <1>2, FS_EmptySet, LimitIsNat DEF QueueBound
<1>4. OpenInv /\ LeaseInv
  BY DEF Init, OpenInv, LeaseInv
<1>5. WorkerInv /\ OneLeaseHolder
  BY DEF Init, WorkerInv, OneLeaseHolder
<1>6. DraftsOnce /\ DraftsOfLastLease /\ BudgetRespected
  BY BudgetsArePositive DEF Init, DraftsOnce, DraftsOfLastLease, BudgetRespected
<1>7. QED BY <1>1, <1>3, <1>4, <1>5, <1>6 DEF IInv

\* Every step preserves it.
LEMMA NextInv == IInv /\ [Next]_vars => IInv'
<1> SUFFICES ASSUME IInv, [Next]_vars PROVE IInv'
  OBVIOUS
<1>1. ASSUME NEW j \in Job, NEW c \in Clock, Lapse(j, c) PROVE IInv'
  <2>1. lapsed' \in [Job -> SUBSET Clock]
    BY <1>1 DEF IInv, TypeOK, Lapse
  <2>2. QED BY <1>1, <2>1, TimeInv DEF Lapse
<1>2. CASE UNCHANGED vars
  <2>1. lapsed' \in [Job -> SUBSET Clock]
    BY <1>2 DEF IInv, TypeOK, vars, jobVars
  <2>2. QED BY <1>2, <2>1, TimeInv DEF vars, jobVars
<1>3. QED BY <1>1, <1>2, UserStepInv, WorkerStepInv, MessageStepInv DEF Next

\* The inductive invariant holds throughout, whatever dies, lapses or is lost.
THEOREM Invariance == Spec => []IInv
<1>1. QED BY InitInv, NextInv, PTL DEF Spec

\* Every variable keeps its type; attempts stay within the drawn tokens.
THEOREM TypeCorrect == Spec => []TypeOK
<1>1. IInv => TypeOK
  BY DEF IInv
<1>2. QED BY <1>1, Invariance, PTL

\* A workspace never has more than Limit active jobs.
THEOREM QueueBoundAlways == Spec => []QueueBound
<1>1. IInv => QueueBound
  BY DEF IInv
<1>2. QED BY <1>1, Invariance, PTL

\* A completed job's drafts were inserted once, and no other job has any.
THEOREM DraftsOnceAlways == Spec => []DraftsOnce
<1>1. IInv => DraftsOnce
  BY DEF IInv
<1>2. QED BY <1>1, Invariance, PTL

\* They come from the last lease of the job, whichever clock lags.
THEOREM DraftsOfLastLeaseAlways == Spec => []DraftsOfLastLease
<1>1. IInv => DraftsOfLastLease
  BY DEF IInv
<1>2. QED BY <1>1, Invariance, PTL

\* No two workers are busy under one lease, and ok means stored.
THEOREM OneLeaseHolderAlways == Spec => []OneLeaseHolder
<1>1. IInv => OneLeaseHolder
  BY DEF IInv
<1>2. QED BY <1>1, Invariance, PTL

\* No opening of a job costs more than LeaseBudget claims.
THEOREM BudgetRespectedAlways == Spec => []BudgetRespected
<1>1. IInv => BudgetRespected
  BY DEF IInv
<1>2. QED BY <1>1, Invariance, PTL

-----------------------------------------------------------------------------
\* JobQueue counts active jobs as the queue does.
LEMMA SameCount == \A S : Queue!Cardinality(S) = Cardinality(S)
<1>1. QED BY DEF Queue!Cardinality, Cardinality

\* Seen from the workspace, every step opens, starts, completes or abandons a
\* job, or is invisible.
LEMMA StepRefines ==
  ASSUME IInv, [Next]_vars
  PROVE  [Queue!Next]_(Queue!vars)
<1>1. ASSUME UNCHANGED <<status, drafts>> PROVE UNCHANGED Queue!vars
  BY <1>1 DEF Queue!vars
<1>2. ASSUME NEW c \in open, Retry(c) \/ \E w \in Worker : Enqueue(c, w)
      PROVE  \E j \in Job : Queue!Open(j)
  <2>1. c.job \in Job /\ status[c.job] \in {"absent", "failed", "cancelled"}
    BY <1>2 DEF IInv, TypeOK, OpenInv, Change, Retry, Enqueue
  <2>2. Queue!Cardinality(Queue!Active) < Limit
    BY SameCount, ActiveIsFinite, LimitIsNat DEF IInv, OpenInv, QueueFull, Queue!Active, Active
  <2>3. status' = [status EXCEPT ![c.job] = "pending"] /\ drafts' = drafts
    BY <1>2 DEF Retry, Enqueue
  <2>4. Queue!Open(c.job)
    BY <2>1, <2>2, <2>3 DEF Queue!Open
  <2>5. PICK j \in Job : j = c.job
    BY <2>1
  <2>6. Queue!Open(j)
    BY <2>4, <2>5 DEF Queue!Open
  <2>7. QED BY <2>6
<1>3. ASSUME NEW w \in Worker, NEW j \in Job, Claim(w, j) \/ ClaimLost(w, j)
      PROVE  Queue!Start(j) \/ UNCHANGED Queue!vars
  <2>1. /\ status[j] \in {"pending", "running"}
        /\ status' = [status EXCEPT ![j] = "running"] /\ drafts' = drafts
    BY <1>3 DEF Claim, ClaimLost, GrantLease, NextJob, Claimable
  <2>2. status[j] = "running" => status' = status
    BY <2>1 DEF IInv, TypeOK
  <2>3. QED BY <2>1, <2>2 DEF Queue!Start, Queue!vars
<1>4. ASSUME NEW j \in Job, Cancel(j) PROVE Queue!Abandon(j)
  BY <1>4 DEF Cancel, Active, Queue!Abandon
<1>5. ASSUME NEW w \in Worker, NEW j \in Job, ExhaustJob(w, j) PROVE Queue!Abandon(j)
  BY <1>5 DEF ExhaustJob, NextJob, Claimable, Queue!Abandon
<1>6. ASSUME NEW m \in net, CompleteJob(m) \/ FailJob(m)
      PROVE  \E j \in Job : Queue!Complete(j) \/ Queue!Abandon(j)
  <2>1. m.job \in Job /\ status[m.job] = "running" /\ drafts[m.job] = 0
    BY <1>6 DEF IInv, TypeOK, Message, DraftsOnce, CompleteJob, FailJob, Holds
  <2>2. PICK j \in Job : j = m.job
    BY <2>1
  <2>3. CompleteJob(m) => Queue!Complete(j)
    BY <2>1, <2>2 DEF IInv, TypeOK, CompleteJob, Queue!Complete
  <2>4. FailJob(m) => Queue!Abandon(j)
    BY <2>1, <2>2 DEF FailJob, Queue!Abandon
  <2>5. QED BY <1>6, <2>3, <2>4
<1>7. ASSUME NEW j \in Job, CountForEnqueue(j) \/ CountForRetry(j)
      PROVE  UNCHANGED <<status, drafts>>
  BY <1>7 DEF CountForEnqueue, CountForRetry, jobVars
<1>8. ASSUME NEW c \in open, RollBack(c) PROVE UNCHANGED <<status, drafts>>
  BY <1>8 DEF RollBack, jobVars
<1>9. ASSUME NEW w \in Worker, WorkerStep(w),
             ~\E j \in Job : ExhaustJob(w, j) \/ Claim(w, j) \/ ClaimLost(w, j)
      PROVE  UNCHANGED <<status, drafts>>
  BY <1>9 DEF WorkerStep, Renew, RenewRefused, RenewLost, FinishExecution,
      ExecutionFails, SubmitAgain, GiveUp, StopWork, Die, SendFail, jobVars
<1>10. ASSUME NEW m \in net, MessageStep(m), ~CompleteJob(m), ~FailJob(m)
       PROVE  UNCHANGED <<status, drafts>>
  BY <1>10 DEF MessageStep, CompleteAgain, RefuseMessage, LoseMessage, jobVars
<1>11. ASSUME NEW j \in Job, NEW c \in Clock, Lapse(j, c) PROVE UNCHANGED <<status, drafts>>
  BY <1>11 DEF Lapse
<1>12. CASE UNCHANGED vars
  BY <1>1, <1>12 DEF vars, jobVars
<1>13. ASSUME UserStep PROVE [Queue!Next]_(Queue!vars)
  BY <1>1, <1>2, <1>4, <1>7, <1>8, <1>13 DEF UserStep, Queue!Next
<1>14. ASSUME NEW w \in Worker, WorkerStep(w) PROVE [Queue!Next]_(Queue!vars)
  BY <1>1, <1>3, <1>5, <1>9, <1>14 DEF Queue!Next
<1>15. ASSUME NEW m \in net, MessageStep(m) PROVE [Queue!Next]_(Queue!vars)
  BY <1>1, <1>6, <1>10, <1>15 DEF Queue!Next
<1>16. QED BY <1>1, <1>11, <1>12, <1>13, <1>14, <1>15 DEF Next

\* The generation queue implements JobQueue: bounded, an outcome stays until a
\* user reopens the job, and a completed job is never reopened.
THEOREM QueueImplementsJobQueue == Spec => ImplementsJobQueue
<1>1. Init => Queue!Init
  BY DEF Init, Queue!Init
<1>2. IInv /\ [Next]_vars => [Queue!Next]_(Queue!vars)
  BY StepRefines
<1>3. QED BY <1>1, <1>2, Invariance, PTL DEF Spec, ImplementsJobQueue, Queue!Spec
===============================================================================
