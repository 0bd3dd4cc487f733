---------------------------- MODULE PlanQueue_proofs ----------------------------
(***************************************************************************)
(* Proofs about PlanQueue, for any jobs, workers, users, limits and        *)
(* numbers of inventories.  What a transaction has counted or compared     *)
(* holds to its end because of the advisory lock and the settings row:     *)
(* others may end jobs meanwhile, but none inserts one.                    *)
(***************************************************************************)
EXTENDS PlanQueue, FiniteSetTheorems, TLAPS

\* One transaction at a time holds plan:<workspace>.
LockInv == \A p, q \in Caller : InTransaction(p) /\ InTransaction(q) => p = q

\* A worker in its transaction holds the settings row, and one that is about
\* to suggest still has a reason to.
SuggestInv ==
  \A w \in Worker :
    /\ InTransaction(w) => enabled
    /\ pc[w] = "checked" => Active = {} /\ seen[w] \notin {0, lastHash}

\* There is still a place for the job a user is about to insert.
EnqueueInv == \A u \in User : pc[u] = "checked" => Cardinality(Active) < Limit

TransactionInv == LockInv /\ SuggestInv /\ EnqueueInv

\* A running job has been claimed.
ClaimedInv == \A j \in Job : status[j] = "running" => attempt[j] # 0

\* A working worker has a lease.
WorkInv == \A w \in Worker : pc[w] = "work" => lease[w] \in Lease

IInv == TypeOK /\ TransactionInv /\ ClaimedInv /\ WorkInv /\ LastLeaseOnly

-----------------------------------------------------------------------------
\* The active jobs can be counted.
LEMMA ActiveIsFinite ==
  /\ IsFiniteSet(Active) /\ Cardinality(Active) \in Nat
  /\ \A A \in SUBSET Active : IsFiniteSet(A) /\ Cardinality(A) <= Cardinality(Active)
<1>1. IsFiniteSet(Active)
  BY PlanJobsAreFinite, FS_Subset DEF Active
<1>2. QED BY <1>1, FS_Subset, FS_CardinalityType

\* Steps that insert no job and begin no transaction keep what open ones know.
LEMMA TransactionKept ==
  ASSUME IInv, Active' \subseteq Active, UNCHANGED <<enabled, lastHash>>,
         \A p \in Caller : pc'[p] \in {"read", "checked"} => pc'[p] = pc[p] /\ seen'[p] = seen[p]
  PROVE  TransactionInv'
<1>1. LockInv'
  BY DEF IInv, TransactionInv, LockInv, InTransaction
<1>2. SuggestInv'
  BY DEF IInv, TransactionInv, SuggestInv, InTransaction, Caller
<1>3. Cardinality(Active') <= Cardinality(Active) /\ Cardinality(Active') \in Nat
  BY ActiveIsFinite, FS_CardinalityType
<1>4. EnqueueInv'
  BY <1>3, ActiveIsFinite, PlanLimitIsPositive DEF IInv, TransactionInv, EnqueueInv, Caller
<1>5. QED BY <1>1, <1>2, <1>4 DEF TransactionInv

\* Steps that leave the jobs as they are.
LEMMA JobsKept ==
  ASSUME IInv, UNCHANGED <<status, attempt, result>>
  PROVE  ClaimedInv' /\ LastLeaseOnly' /\ Active' = Active
BY DEF IInv, ClaimedInv, LastLeaseOnly, Active

\* A transaction that inserts a job ends with that.
LEMMA InsertKeeps ==
  ASSUME IInv, NEW p \in Caller, NEW phase \in {"idle", "claim"}, NEW j \in Job,
         pc[p] = "checked", InsertJob(j), Goto(p, phase)
  PROVE  /\ status' \in [Job -> JobStatus] /\ born' \in [Job -> Nat]
         /\ TransactionInv' /\ ClaimedInv' /\ LastLeaseOnly'
<1>1. status' \in [Job -> JobStatus]
  BY DEF IInv, TypeOK, InsertJob, JobStatus
<1>2. born' \in [Job -> Nat]
  <2>1. PICK rank \in 0..Cardinality({i \in Job : status[i] # "absent"}) :
          born' = [i \in Job |-> IF i = j THEN rank
                                 ELSE IF status[i] # "absent" /\ born[i] >= rank
                                      THEN born[i] + 1 ELSE born[i]]
    BY DEF InsertJob
  <2>2. rank \in Nat
    BY <2>1
  <2>3. QED BY <2>1, <2>2 DEF IInv, TypeOK
<1>3. \A q \in Caller : pc'[q] \notin {"read", "checked"}
  BY DEF IInv, TypeOK, TransactionInv, LockInv, InTransaction, Goto
<1>4. TransactionInv'
  BY <1>3 DEF TransactionInv, LockInv, SuggestInv, EnqueueInv, InTransaction, Caller
<1>5. ClaimedInv' /\ LastLeaseOnly'
  BY DEF IInv, TypeOK, ClaimedInv, LastLeaseOnly, InsertJob
<1>6. QED BY <1>1, <1>2, <1>4, <1>5

\* A job ends: by a result of its last lease, or without one.
LEMMA EndKeeps ==
  ASSUME IInv, NEW j \in Active, NEW s \in {"completed", "failed", "cancelled"}, End(j, s),
         IF s = "completed"
           THEN status[j] = "running" /\ result' = [result EXCEPT ![j] = attempt[j]]
           ELSE UNCHANGED result,
         UNCHANGED <<attempt, enabled, lastHash, seen>>,
         pc' = pc \/ \E w \in Worker : pc' = [pc EXCEPT ![w] = "suggest"]
  PROVE  /\ status' \in [Job -> JobStatus] /\ lapsed' \in [Job -> SUBSET Clock]
         /\ result' \in [Job -> Token]
         /\ TransactionInv' /\ ClaimedInv' /\ LastLeaseOnly'
<1>1. j \in Job /\ status[j] \in {"pending", "running"} /\ result[j] = 0
  BY DEF Active, IInv, LastLeaseOnly
<1>2. /\ status' \in [Job -> JobStatus] /\ lapsed' \in [Job -> SUBSET Clock]
      /\ result' \in [Job -> Token]
  BY <1>1 DEF IInv, TypeOK, End, JobStatus
<1>3. Active' \subseteq Active
  BY <1>1 DEF IInv, TypeOK, Active, End
<1>4. TransactionInv'
  BY <1>3, TransactionKept DEF IInv, TypeOK
<1>5. ClaimedInv' /\ LastLeaseOnly'
  BY <1>1 DEF IInv, TypeOK, ClaimedInv, LastLeaseOnly, End
<1>6. QED BY <1>2, <1>4, <1>5

-----------------------------------------------------------------------------
\* Asking for a plan.
LEMMA UserStepInv ==
  ASSUME IInv, NEW u \in User, UserStep(u)
  PROVE  IInv'
<1>1. u \in Caller /\ u \notin Worker
  BY CallersDiffer DEF Caller
<1>2. ASSUME BeginEnqueue(u) PROVE IInv'
  <2>1. TypeOK'
    BY <1>1, <1>2 DEF IInv, TypeOK, BeginEnqueue, Goto, Phase, jobVars, setVars, workVars
  <2>2. ClaimedInv' /\ LastLeaseOnly' /\ Active' = Active
    BY <1>2, JobsKept DEF BeginEnqueue, jobVars
  <2>3. \A q \in Caller : q # u => pc'[q] \notin {"read", "checked"}
    BY <1>2 DEF IInv, TypeOK, BeginEnqueue, PlanLockFree, InTransaction, Goto
  <2>4. pc'[u] = "read"
    BY <1>1, <1>2 DEF IInv, TypeOK, BeginEnqueue, Goto
  <2>5. TransactionInv'
    BY <1>1, <2>3, <2>4 DEF TransactionInv, LockInv, SuggestInv, EnqueueInv, InTransaction, Caller
  <2>6. WorkInv'
    BY <1>2 DEF IInv, TypeOK, WorkInv, BeginEnqueue, Goto, workVars, Caller
  <2>7. QED BY <2>1, <2>2, <2>5, <2>6 DEF IInv
<1>3. ASSUME CountActive(u) PROVE IInv'
  <2>1. TypeOK'
    BY <1>1, <1>3, InventoriesAreNat
      DEF IInv, TypeOK, CountActive, Goto, Phase, Inventory, jobVars, setVars, workVars
  <2>2. ClaimedInv' /\ LastLeaseOnly' /\ Active' = Active
    BY <1>3, JobsKept DEF CountActive, jobVars
  <2>3. \A q \in Caller : q # u => pc'[q] \notin {"read", "checked"}
    BY <1>1, <1>3 DEF IInv, TypeOK, TransactionInv, LockInv, CountActive, InTransaction, Goto
  <2>4. pc'[u] = "checked" => Cardinality(Active) < Limit
    BY <1>1, <1>3 DEF IInv, TypeOK, CountActive, Goto
  <2>5. TransactionInv'
    BY <1>1, <2>2, <2>3, <2>4 DEF TransactionInv, LockInv, SuggestInv, EnqueueInv, InTransaction, Caller
  <2>6. WorkInv'
    BY <1>3 DEF IInv, TypeOK, WorkInv, CountActive, Goto, workVars, Caller
  <2>7. QED BY <2>1, <2>2, <2>5, <2>6 DEF IInv
<1>4. ASSUME NEW j \in Job, Enqueue(u, j) PROVE IInv'
  <2>1. /\ status' \in [Job -> JobStatus] /\ born' \in [Job -> Nat]
        /\ TransactionInv' /\ ClaimedInv' /\ LastLeaseOnly'
    BY <1>1, <1>4, InsertKeeps DEF Enqueue
  <2>2. TypeOK'
    BY <1>1, <1>4, <2>1, InventoriesAreNat
      DEF IInv, TypeOK, Enqueue, InsertJob, Goto, Phase, Inventory, setVars, workVars
  <2>3. WorkInv'
    BY <1>4 DEF IInv, TypeOK, WorkInv, Enqueue, Goto, workVars, Caller
  <2>4. QED BY <2>1, <2>2, <2>3 DEF IInv
<1>5. QED BY <1>2, <1>3, <1>4 DEF UserStep

\* The suggestion that precedes every claim.
LEMMA SuggestingInv ==
  ASSUME IInv, NEW w \in Worker,
         BeginSuggest(w) \/ CheckFingerprint(w) \/ \E j \in Job : Suggest(w, j)
  PROVE  IInv'
<1>1. w \in Caller /\ w \notin User
  BY CallersDiffer DEF Caller
<1>2. ASSUME BeginSuggest(w) PROVE IInv'
  <2>1. TypeOK'
    BY <1>1, <1>2 DEF IInv, TypeOK, BeginSuggest, Goto, Phase, jobVars, setVars, workVars
  <2>2. ClaimedInv' /\ LastLeaseOnly' /\ Active' = Active
    BY <1>2, JobsKept DEF BeginSuggest, jobVars
  <2>3. \A q \in Caller : q # w => pc'[q] \notin {"read", "checked"}
    BY <1>2 DEF IInv, TypeOK, BeginSuggest, PlanLockFree, InTransaction, Goto
  <2>4. pc'[w] = "claim" \/ (pc'[w] = "read" /\ enabled')
    BY <1>1, <1>2 DEF IInv, TypeOK, BeginSuggest, Goto, setVars
  <2>5. TransactionInv'
    BY <1>1, <2>3, <2>4 DEF TransactionInv, LockInv, SuggestInv, EnqueueInv, InTransaction, Caller
  <2>6. WorkInv'
    BY <1>2 DEF IInv, TypeOK, WorkInv, BeginSuggest, Goto, workVars, Caller
  <2>7. QED BY <2>1, <2>2, <2>5, <2>6 DEF IInv
<1>3. ASSUME CheckFingerprint(w) PROVE IInv'
  <2> DEFINE due == seen[w] \notin {0, lastHash} /\ Active = {} /\ Room
  <2>1. /\ pc[w] = "read"
        /\ pc' = [pc EXCEPT ![w] = IF due THEN "checked" ELSE "claim"]
        /\ seen' = [seen EXCEPT ![w] = IF due THEN @ ELSE 0]
        /\ checked' = (checked \/ ~due)
        /\ UNCHANGED <<jobVars, enabled, lastHash, assets, workVars>>
    BY <1>3 DEF CheckFingerprint, Goto
  <2>2. due => Active = {} /\ seen[w] \notin {0, lastHash}
    OBVIOUS
  <2> HIDE DEF due
  <2>3. checked' \in BOOLEAN
    BY <2>1 DEF IInv, TypeOK
  <2>4. TypeOK'
    BY <1>1, <2>1, <2>3, InventoriesAreNat
      DEF IInv, TypeOK, Phase, Inventory, jobVars, workVars
  <2>5. ClaimedInv' /\ LastLeaseOnly' /\ Active' = Active
    BY <2>1, JobsKept DEF jobVars
  <2>6. \A q \in Caller : q # w => pc'[q] \notin {"read", "checked"}
    BY <1>1, <2>1 DEF IInv, TypeOK, TransactionInv, LockInv, InTransaction
  <2>7. pc'[w] = "checked" => enabled' /\ Active' = {} /\ seen'[w] \notin {0, lastHash'}
    BY <1>1, <2>1, <2>2, <2>5 DEF IInv, TypeOK, TransactionInv, SuggestInv, InTransaction
  <2>8. pc'[w] # "read"
    BY <1>1, <2>1 DEF IInv, TypeOK
  <2>9. TransactionInv'
    BY <1>1, <2>6, <2>7, <2>8
      DEF TransactionInv, LockInv, SuggestInv, EnqueueInv, InTransaction, Caller
  <2>10. WorkInv'
    BY <2>1 DEF IInv, TypeOK, WorkInv, workVars, Caller
  <2>11. QED BY <2>4, <2>5, <2>9, <2>10 DEF IInv
<1>4. ASSUME NEW j \in Job, Suggest(w, j) PROVE IInv'
  <2>1. /\ status' \in [Job -> JobStatus] /\ born' \in [Job -> Nat]
        /\ TransactionInv' /\ ClaimedInv' /\ LastLeaseOnly'
    BY <1>1, <1>4, InsertKeeps DEF Suggest
  <2>2. TypeOK'
    BY <1>1, <1>4, <2>1, InventoriesAreNat
      DEF IInv, TypeOK, Suggest, InsertJob, Goto, Phase, Inventory, workVars
  <2>3. WorkInv'
    BY <1>4 DEF IInv, TypeOK, WorkInv, Suggest, Goto, workVars, Caller
  <2>4. QED BY <2>1, <2>2, <2>3 DEF IInv
<1>5. QED BY <1>2, <1>3, <1>4

\* A claim begins a new attempt, under a token that no post carries yet.
LEMMA ClaimInv ==
  ASSUME IInv, NEW w \in Worker, NEW j \in Job, Claim(w, j)
  PROVE  IInv'
<1>1. /\ status[j] \in {"pending", "running"} /\ attempt[j] \in Nat
      /\ attempt[j] + 1 \in Token /\ attempt[j] + 1 # 0 /\ w \in Caller
  BY PlanBudgetIsPositive DEF IInv, TypeOK, Token, Claim, Oldest, Claimable, BudgetLeft, Caller
<1>2. attempt'[j] = attempt[j] + 1
  BY DEF IInv, TypeOK, Claim
<1>3. [job |-> j, token |-> attempt'[j]] \in Lease
  BY <1>1, <1>2 DEF Lease
<1>4. TypeOK'
  BY <1>1, <1>3 DEF IInv, TypeOK, Claim, Goto, Phase, JobStatus, setVars
<1>5. Active' = Active
  BY <1>1 DEF IInv, TypeOK, Active, Claim
<1>6. TransactionInv'
  BY <1>1, <1>5, TransactionKept DEF IInv, TypeOK, Claim, Goto, setVars
<1>7. ClaimedInv' /\ LastLeaseOnly'
  BY <1>1 DEF IInv, TypeOK, ClaimedInv, LastLeaseOnly, Claim
<1>8. WorkInv'
  BY <1>1, <1>3 DEF IInv, TypeOK, WorkInv, Claim, Goto, Caller
<1>9. QED BY <1>4, <1>6, <1>7, <1>8 DEF IInv

\* The other steps of a worker.
LEMMA WorkerStepInv ==
  ASSUME IInv, NEW w \in Worker, WorkerStep(w)
  PROVE  IInv'
<1>1. w \in Caller
  BY DEF Caller
<1>2. ASSUME NEW j \in Job, Exhaust(w, j) PROVE IInv'
  <2>1. j \in Active
    BY <1>2 DEF Exhaust, Oldest, Claimable, Active
  <2>2. /\ status' \in [Job -> JobStatus] /\ lapsed' \in [Job -> SUBSET Clock]
        /\ TransactionInv' /\ ClaimedInv' /\ LastLeaseOnly'
    BY <1>2, <2>1, EndKeeps DEF Exhaust, Goto, setVars
  <2>3. TypeOK'
    BY <1>1, <1>2, <2>2 DEF IInv, TypeOK, Exhaust, Goto, Phase, setVars, workVars
  <2>4. WorkInv'
    BY <1>2 DEF IInv, TypeOK, WorkInv, Exhaust, Goto, workVars, Caller
  <2>5. QED BY <2>2, <2>3, <2>4 DEF IInv
<1>3. ASSUME ClaimNothing(w) PROVE IInv'
  <2>1. ClaimedInv' /\ LastLeaseOnly' /\ Active' = Active
    BY <1>3, JobsKept DEF ClaimNothing, jobVars
  <2>2. TransactionInv'
    BY <1>1, <1>3, <2>1, TransactionKept DEF IInv, TypeOK, ClaimNothing, Goto, setVars
  <2>3. TypeOK'
    BY <1>1, <1>3 DEF IInv, TypeOK, ClaimNothing, Goto, Phase, jobVars, setVars, workVars
  <2>4. WorkInv'
    BY <1>3 DEF IInv, TypeOK, WorkInv, ClaimNothing, Goto, workVars, Caller
  <2>5. QED BY <2>1, <2>2, <2>3, <2>4 DEF IInv
<1>4. ASSUME Renew(w) PROVE IInv'
  <2>1. ClaimedInv' /\ LastLeaseOnly' /\ Active' = Active
    BY <1>4, JobsKept DEF Renew
  <2>2. TransactionInv'
    BY <1>4, <2>1, TransactionKept DEF Renew, setVars, callVars
  <2>3. TypeOK' /\ WorkInv'
    BY <1>4 DEF IInv, TypeOK, WorkInv, Renew, setVars, callVars, workVars
  <2>4. QED BY <2>1, <2>2, <2>3 DEF IInv
<1>5. ASSUME Rest(w), net' \subseteq Message PROVE IInv'
  <2>1. ClaimedInv' /\ LastLeaseOnly' /\ Active' = Active
    BY <1>5, JobsKept DEF Rest, jobVars
  <2>2. TransactionInv'
    BY <1>1, <1>5, <2>1, TransactionKept DEF IInv, TypeOK, Rest, Goto, setVars
  <2>3. TypeOK'
    BY <1>1, <1>5 DEF IInv, TypeOK, Rest, Goto, Phase, jobVars, setVars
  <2>4. WorkInv'
    BY <1>1, <1>5 DEF IInv, TypeOK, WorkInv, Rest, Goto, Caller
  <2>5. QED BY <2>1, <2>2, <2>3, <2>4 DEF IInv
<1>6. ASSUME Abort(w) PROVE IInv'
  BY <1>5, <1>6 DEF IInv, TypeOK, Abort
<1>7. ASSUME Finish(w) PROVE IInv'
  <2>1. lease[w] \in Lease
    BY <1>7 DEF IInv, WorkInv, Finish
  <2>2. net' \subseteq Message
    BY <1>7, <2>1 DEF IInv, TypeOK, Finish, Lease, Message
  <2>3. QED BY <1>5, <1>7, <2>2 DEF Finish
<1>8. QED
  BY <1>2, <1>3, <1>4, <1>6, <1>7, SuggestingInv, ClaimInv DEF WorkerStep

\* Posts that arrive, cancellations, failures, settings, assets and time.
LEMMA DeliverInv ==
  ASSUME IInv, NEW m \in net, Deliver(m)
  PROVE  IInv'
<1>1. m.job \in Job /\ status[m.job] = "running" /\ attempt[m.job] = m.token
  BY DEF IInv, TypeOK, Message, Deliver, LeaseHolds
<1>2. m.job \in Active
  BY <1>1 DEF Active
<1>3. PICK s \in {"completed", "failed"} :
        /\ End(m.job, s)
        /\ IF s = "completed" THEN result' = [result EXCEPT ![m.job] = attempt[m.job]]
           ELSE UNCHANGED result
  BY <1>1 DEF Deliver
<1>4. UNCHANGED <<born, attempt, holder, setVars, assets, callVars, workVars>>
  BY DEF Deliver
<1>5. /\ status' \in [Job -> JobStatus] /\ lapsed' \in [Job -> SUBSET Clock]
      /\ result' \in [Job -> Token]
      /\ TransactionInv' /\ ClaimedInv' /\ LastLeaseOnly'
  BY <1>1, <1>2, <1>3, <1>4, EndKeeps DEF setVars, callVars
<1>6. TypeOK' /\ WorkInv'
  BY <1>4, <1>5 DEF IInv, TypeOK, WorkInv, setVars, callVars, workVars
<1>7. QED BY <1>5, <1>6 DEF IInv

LEMMA CancelInv ==
  ASSUME IInv, NEW j \in Job, Cancel(j)
  PROVE  IInv'
<1>1. /\ status' \in [Job -> JobStatus] /\ lapsed' \in [Job -> SUBSET Clock]
      /\ TransactionInv' /\ ClaimedInv' /\ LastLeaseOnly'
  BY EndKeeps DEF Cancel, setVars, callVars
<1>2. TypeOK' /\ WorkInv'
  BY <1>1 DEF IInv, TypeOK, WorkInv, Cancel, setVars, callVars, workVars
<1>3. QED BY <1>1, <1>2 DEF IInv

LEMMA WorldInv ==
  ASSUME IInv,
         \/ \E p \in Caller : TransactionFails(p)
         \/ \E b \in BOOLEAN : SetEnabled(b)
         \/ ChangeAssets \/ CheckIsOld
         \/ \E j \in Job, c \in Clock : Lapse(j, c)
         \/ UNCHANGED vars
  PROVE  IInv'
<1>1. ASSUME NEW p \in Caller, TransactionFails(p) PROVE IInv'
  <2>1. ClaimedInv' /\ LastLeaseOnly' /\ Active' = Active
    BY <1>1, JobsKept DEF TransactionFails, jobVars
  <2>2. TransactionInv'
    BY <1>1, <2>1, TransactionKept DEF IInv, TypeOK, TransactionFails, Goto, setVars
  <2>3. TypeOK'
    BY <1>1, InventoriesAreNat
      DEF IInv, TypeOK, TransactionFails, Goto, Phase, Inventory, jobVars, setVars, workVars
  <2>4. WorkInv'
    BY <1>1 DEF IInv, TypeOK, WorkInv, TransactionFails, Goto, workVars, Caller
  <2>5. QED BY <2>1, <2>2, <2>3, <2>4 DEF IInv
<1>2. ASSUME NEW b \in BOOLEAN, SetEnabled(b) PROVE IInv'
  <2>1. ClaimedInv' /\ LastLeaseOnly' /\ Active' = Active
    BY <1>2, JobsKept DEF SetEnabled, jobVars
  <2>2. TransactionInv'
    BY <1>2, <2>1
      DEF IInv, TransactionInv, LockInv, SuggestInv, EnqueueInv, InTransaction, SetEnabled, callVars
  <2>3. TypeOK' /\ WorkInv'
    BY <1>2 DEF IInv, TypeOK, WorkInv, SetEnabled, jobVars, callVars, workVars
  <2>4. QED BY <2>1, <2>2, <2>3 DEF IInv
<1>3. ASSUME UNCHANGED <<status, born, attempt, holder, result, enabled, lastHash, callVars, workVars>>,
             lapsed' \in [Job -> SUBSET Clock], checked' \in BOOLEAN, assets' \in Inventory
      PROVE  IInv'
  <2>1. ClaimedInv' /\ LastLeaseOnly' /\ Active' = Active
    BY <1>3, JobsKept
  <2>2. TransactionInv'
    BY <1>3, <2>1, TransactionKept DEF callVars
  <2>3. TypeOK' /\ WorkInv'
    BY <1>3 DEF IInv, TypeOK, WorkInv, callVars, workVars
  <2>4. QED BY <2>1, <2>2, <2>3 DEF IInv
<1>4. ChangeAssets \/ CheckIsOld \/ UNCHANGED vars => IInv'
  BY <1>3 DEF ChangeAssets, CheckIsOld, IInv, TypeOK, vars, jobVars, setVars
<1>5. ASSUME NEW j \in Job, NEW c \in Clock, Lapse(j, c) PROVE IInv'
  BY <1>3, <1>5 DEF Lapse, IInv, TypeOK, setVars
<1>6. QED BY <1>1, <1>2, <1>4, <1>5

-----------------------------------------------------------------------------
LEMMA InitInv == Init => IInv
<1> SUFFICES ASSUME Init PROVE IInv
  OBVIOUS
<1>1. TypeOK
  <2>1. 0 \in Token /\ 0 \in Inventory
    BY PlanBudgetIsPositive, InventoriesAreNat DEF Token, Inventory
  <2>2. pc \in [Caller -> Phase]
    BY DEF Init, Phase
  <2>3. lease \in [Worker -> Lease \cup {NoLease}]
    BY DEF Init
  <2>4. QED BY <2>1, <2>2, <2>3 DEF Init, TypeOK, JobStatus
<1>2. TransactionInv
  BY DEF Init, TransactionInv, LockInv, SuggestInv, EnqueueInv, InTransaction, Caller
<1>3. ClaimedInv /\ WorkInv /\ LastLeaseOnly
  BY DEF Init, ClaimedInv, WorkInv, LastLeaseOnly, Caller
<1>4. QED BY <1>1, <1>2, <1>3 DEF IInv

LEMMA NextInv ==
  ASSUME IInv, [Next]_vars
  PROVE  IInv'
BY UserStepInv, WorkerStepInv, DeliverInv, CancelInv, WorldInv DEF Next

\* What transactions have read stays true as long as they rely on it, and
\* results belong to leases, whatever is lost, repeated, late or cancelled.
THEOREM Invariance == Spec => []IInv
<1>1. QED BY InitInv, NextInv, PTL DEF Spec

\* The columns, the callers and the messages stay of their types.
THEOREM TypeCorrect == Spec => []TypeOK
<1>1. IInv => TypeOK
  BY DEF IInv
<1>2. QED BY <1>1, Invariance, PTL

\* A job has a proposal exactly when it is completed, and it is its last
\* lease's (planLeaseAction).
THEOREM LastLeaseOnlyAlways == Spec => []LastLeaseOnly
<1>1. IInv => LastLeaseOnly
  BY DEF IInv
<1>2. QED BY <1>1, Invariance, PTL

\* autoSuggest inserts a job only for a change that nobody reacted to, with
\* suggestions switched on and nothing active.
THEOREM SuggestionIsDueAlways == Spec => SuggestionIsDue
<1>1. ASSUME IInv, NEW w \in Worker, NEW j \in Job, Suggest(w, j)
      PROVE  enabled /\ Active = {} /\ seen[w] \notin {0, lastHash}
  BY <1>1 DEF IInv, TransactionInv, SuggestInv, InTransaction, Suggest
<1>2. IInv => [\A w \in Worker, j \in Job : Suggest(w, j) =>
                 /\ enabled
                 /\ Active = {}
                 /\ seen[w] \notin {0, lastHash}]_vars
  BY <1>1
<1>3. QED BY <1>2, Invariance, PTL DEF SuggestionIsDue

-----------------------------------------------------------------------------
\* JobQueue counts active jobs as the queue does.
LEMMA SameCount == \A S : Queue!Cardinality(S) = Cardinality(S)
<1>1. QED BY DEF Queue!Cardinality, Cardinality

\* Seen from the workspace, every step opens, starts, completes or abandons a
\* job, or is invisible.
LEMMA StepRefines ==
  ASSUME IInv, [Next]_vars
  PROVE  [Queue!Next]_(Queue!vars)
<1>1. ASSUME UNCHANGED <<status, result>> PROVE UNCHANGED Queue!vars
  BY <1>1 DEF Queue!vars
<1>2. ASSUME NEW p \in Caller, NEW j \in Job, pc[p] = "checked", InsertJob(j)
      PROVE  Queue!Open(j)
  <2>1. Cardinality(Active) < Limit
    <3>1. CASE p \in User
      BY <1>2, <3>1 DEF IInv, TransactionInv, EnqueueInv
    <3>2. CASE p \in Worker
      <4>1. Active = {}
        BY <1>2, <3>2 DEF IInv, TransactionInv, SuggestInv
      <4>2. QED BY <4>1, FS_EmptySet, PlanLimitIsPositive
    <3>3. QED BY <3>1, <3>2 DEF Caller
  <2>2. Queue!Cardinality(Queue!Active) < Limit
    BY <2>1, SameCount DEF Queue!Active, Active
  <2>3. QED BY <1>2, <2>2 DEF InsertJob, Queue!Open
<1>3. ASSUME NEW w \in Worker, NEW j \in Job, Claim(w, j)
      PROVE  Queue!Start(j) \/ UNCHANGED Queue!vars
  <2>1. /\ status[j] \in {"pending", "running"}
        /\ status' = [status EXCEPT ![j] = "running"] /\ result' = result
    BY <1>3 DEF Claim, Oldest, Claimable
  <2>2. status[j] = "running" => status' = status
    BY <2>1 DEF IInv, TypeOK
  <2>3. QED BY <2>1, <2>2 DEF Queue!Start, Queue!vars
<1>4. ASSUME NEW j \in Job, NEW s \in {"failed", "cancelled"}, End(j, s),
             status[j] \in {"pending", "running"}, UNCHANGED result
      PROVE  Queue!Abandon(j)
  BY <1>4 DEF End, Queue!Abandon
<1>5. ASSUME NEW m \in net, Deliver(m)
      PROVE  \E j \in Job : Queue!Complete(j) \/ Queue!Abandon(j)
  <2>1. /\ m.job \in Job /\ status[m.job] = "running" /\ result[m.job] = 0
        /\ attempt[m.job] = m.token /\ m.token # 0
    BY <1>5 DEF IInv, TypeOK, Message, ClaimedInv, LastLeaseOnly, Deliver, LeaseHolds
  <2>2. PICK j \in Job : j = m.job
    BY <2>1
  <2>3. CASE End(m.job, "failed") /\ UNCHANGED result
    BY <1>4, <2>1, <2>2, <2>3
  <2>4. CASE End(m.job, "completed") /\ result' = [result EXCEPT ![m.job] = m.token]
    <3>1. [i \in Job |-> IF result'[i] = 0 THEN 0 ELSE 1]
            = [[i \in Job |-> IF result[i] = 0 THEN 0 ELSE 1] EXCEPT ![j] = 1]
      BY <2>1, <2>2, <2>4 DEF IInv, TypeOK
    <3>2. Queue!Complete(j)
      BY <2>1, <2>2, <2>4, <3>1 DEF End, Queue!Complete
    <3>3. QED BY <3>2
  <2>5. QED BY <1>5, <2>3, <2>4 DEF Deliver
<1>6. ASSUME NEW u \in User, UserStep(u) PROVE [Queue!Next]_(Queue!vars)
  <2>1. CASE BeginEnqueue(u) \/ CountActive(u)
    BY <1>1, <2>1 DEF BeginEnqueue, CountActive, jobVars
  <2>2. ASSUME NEW j \in Job, Enqueue(u, j) PROVE [Queue!Next]_(Queue!vars)
    BY <1>2, <2>2 DEF Enqueue, Caller, Queue!Next
  <2>3. QED BY <1>6, <2>1, <2>2 DEF UserStep
<1>7. ASSUME NEW w \in Worker, WorkerStep(w) PROVE [Queue!Next]_(Queue!vars)
  <2>1. CASE BeginSuggest(w) \/ CheckFingerprint(w) \/ ClaimNothing(w)
    BY <1>1, <2>1 DEF BeginSuggest, CheckFingerprint, ClaimNothing, jobVars
  <2>2. CASE Finish(w) \/ Abort(w) \/ Renew(w)
    BY <1>1, <2>2 DEF Finish, Abort, Rest, Renew, jobVars
  <2>3. ASSUME NEW j \in Job, Suggest(w, j) PROVE [Queue!Next]_(Queue!vars)
    BY <1>2, <2>3 DEF Suggest, Caller, Queue!Next
  <2>4. ASSUME NEW j \in Job, Claim(w, j) PROVE [Queue!Next]_(Queue!vars)
    BY <1>3, <2>4 DEF Queue!Next
  <2>5. ASSUME NEW j \in Job, Exhaust(w, j) PROVE [Queue!Next]_(Queue!vars)
    BY <1>4, <2>5 DEF Exhaust, Oldest, Claimable, Queue!Next
  <2>6. QED BY <1>7, <2>1, <2>2, <2>3, <2>4, <2>5 DEF WorkerStep
<1>8. ASSUME NEW j \in Job, Cancel(j) PROVE [Queue!Next]_(Queue!vars)
  BY <1>4, <1>8 DEF Cancel, Active, Queue!Next
<1>9. ASSUME \/ \E p \in Caller : TransactionFails(p)
             \/ \E b \in BOOLEAN : SetEnabled(b)
             \/ ChangeAssets \/ CheckIsOld
             \/ \E j \in Job, c \in Clock : Lapse(j, c)
             \/ UNCHANGED vars
      PROVE  UNCHANGED Queue!vars
  BY <1>1, <1>9 DEF TransactionFails, SetEnabled, ChangeAssets, CheckIsOld, Lapse, vars, jobVars
<1>10. QED BY <1>5, <1>6, <1>7, <1>8, <1>9 DEF Next, Queue!Next

\* The plan queue implements JobQueue: at most Limit active jobs, an ended job
\* keeps its outcome, and a completed one has one result.
THEOREM PlansImplementJobQueue == Spec => ImplementsJobQueue
<1>1. Init => Queue!Init
  BY DEF Init, Queue!Init
<1>2. IInv /\ [Next]_vars => [Queue!Next]_(Queue!vars)
  BY StepRefines
<1>3. QED BY <1>1, <1>2, Invariance, PTL DEF Spec, ImplementsJobQueue, Queue!Spec
=============================================================================
