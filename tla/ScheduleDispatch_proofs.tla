----------------------- MODULE ScheduleDispatch_proofs -----------------------
(***************************************************************************)
(* Proofs about ScheduleDispatch, for any schedules, instances, requests,  *)
(* cron expressions and bounds.                                            *)
(***************************************************************************)
EXTENDS ScheduleDispatch, FiniteSetTheorems, TLAPS

\* Steps that write no table keep what is said about tables only.
LEMMA TablesUnchanged ==
  ASSUME IInv, UNCHANGED dbVars
  PROVE  BatchInv' /\ OncePerMinute' /\ ClaimedMeansRun'
  BY DEF IInv, BatchInv, OncePerMinute, ClaimedMeansRun, dbVars

\* The end of a transaction gives up exactly its own lock, if it has one.
LEMMA UnlockedOnly ==
  ASSUME TypeOK, NEW p \in Process
  PROVE  /\ Unlocked(p) \in [Schedule -> Instance \cup {None}]
         /\ \A s \in Schedule, i \in Instance :
              Unlocked(p)[s] = i <=> lock[s] = i /\ i # p
         /\ p \in Request \/ pc[p] \notin Open => Unlocked(p) = lock
<1>1. /\ Unlocked(p) \in [Schedule -> Instance \cup {None}]
      /\ \A s \in Schedule, i \in Instance :
              Unlocked(p)[s] = i <=> lock[s] = i /\ i # p
  BY NoneIsNothing DEF TypeOK, Unlocked, Process
<1>2. ASSUME p \in Request \/ pc[p] \notin Open PROVE Unlocked(p) = lock
  <2>1. \A s \in Schedule : lock[s] # p
    BY <1>2, NoneIsNothing, ProcessesDisjoint DEF TypeOK, LockHeld, Process
  <2>2. QED BY <2>1 DEF TypeOK, Unlocked
<1>3. QED BY <1>1, <1>2

\* A process that ends its transaction and goes back to its loop, or to sleep,
\* leaves all others where they are.
LEMMA BackToLoop ==
  ASSUME IInv, NEW p \in Process, pc[p] # "idle", lock' = Unlocked(p),
         \/ Leave(p)
         \/ p \in Instance /\ \E left \in SUBSET Schedule : ContinueWith(p, left)
  PROVE  /\ pc' \in [Process -> {"idle", "polling", "next", "reading", "compiled", "ready"}
                         \cup Open]
         /\ minute' \in [Instance -> Minute \cup {None}]
         /\ queue' \in [Instance -> SUBSET Schedule]
         /\ current' \in [Process -> Schedule \cup {None}]
         /\ seen' \in [Process -> Config \cup {NoConfig}]
         /\ plan' \in [Process -> Plan]
         /\ lock' \in [Schedule -> Instance \cup {None}]
         /\ LockHeld'
         /\ used' = used => ProcessInv'
         /\ pc'[p] \notin Open
         /\ \A q \in Process \ {p} : /\ pc'[q] = pc[q] /\ current'[q] = current[q]
                                     /\ seen'[q] = seen[q]
         /\ \A i \in Instance \ {p} : minute'[i] = minute[i]
<1>1. NoPlan \in Plan
  BY BoundsAreNat DEF NoPlan, Plan
<1>2. /\ pc' \in [Process -> {"idle", "polling", "next", "reading", "compiled", "ready"}
                         \cup Open]
      /\ minute' \in [Instance -> Minute \cup {None}]
      /\ queue' \in [Instance -> SUBSET Schedule]
  BY DEF IInv, TypeOK, Leave, ContinueWith, Process
<1>3. /\ current' \in [Process -> Schedule \cup {None}]
      /\ seen' \in [Process -> Config \cup {NoConfig}]
      /\ plan' \in [Process -> Plan]
  BY <1>1 DEF IInv, TypeOK, Leave, ContinueWith
<1>4. lock' \in [Schedule -> Instance \cup {None}]
  BY UnlockedOnly DEF IInv
<1>5. pc'[p] \in {"idle", "next"} /\ (p \in Request => pc'[p] = "idle")
  BY ProcessesDisjoint DEF IInv, TypeOK, Leave, ContinueWith
<1>6. \A q \in Process \ {p} : /\ pc'[q] = pc[q] /\ current'[q] = current[q]
                               /\ seen'[q] = seen[q]
  BY DEF IInv, TypeOK, Leave, ContinueWith
<1>7. /\ \A i \in Instance \ {p} : minute'[i] = minute[i]
      /\ p \in Instance /\ pc'[p] # "idle" => minute'[p] = minute[p]
  BY DEF IInv, TypeOK, Leave, ContinueWith, Process
<1>8. LockHeld'
  <2>1. \A s \in Schedule, i \in Instance : lock'[s] = i <=> lock[s] = i /\ i # p
    BY UnlockedOnly DEF IInv
  <2>2. QED BY <1>5, <1>6, <2>1 DEF IInv, TypeOK, LockHeld, Process, Open
<1>9. used' = used => ProcessInv'
  BY <1>5, <1>6, <1>7 DEF IInv, ProcessInv, Process, Open
<1>10. QED BY <1>2, <1>3, <1>4, <1>5, <1>6, <1>7, <1>8, <1>9 DEF Open

\* ... and keeps the invariant if it writes nothing.
LEMMA LeaveInv ==
  ASSUME IInv, NEW p \in Process, pc[p] # "idle", lock' = Unlocked(p),
         \/ Leave(p)
         \/ p \in Instance /\ \E left \in SUBSET Schedule : ContinueWith(p, left),
         UNCHANGED <<dbVars, clock>>,
         edits' \in 0..MaxEdits, faults' \in 0..MaxFaults
  PROVE  IInv'
<1>1. TypeOK'
  BY BackToLoop DEF IInv, TypeOK, dbVars
<1>2. ProcessInv'
  BY BackToLoop DEF dbVars
<1>3. LockInv'
  BY BackToLoop DEF IInv, LockInv, StillDue, dbVars, Process
<1>4. QED BY <1>1, <1>2, <1>3, TablesUnchanged DEF IInv

-----------------------------------------------------------------------------
\* Users keep the invariant: an edit waits for the row.
LEMMA UserStepInv ==
  ASSUME IInv, UserStep
  PROVE  IInv'
<1>1. ASSUME NEW s \in Schedule, NEW c \in Config, CreateSchedule(s, c) PROVE IInv'
  <2>1. TypeOK'
    BY <1>1, BoundsAreNat DEF IInv, TypeOK, LockHeld, CreateSchedule,
        processVars
  <2>2. ProcessInv'
    BY <1>1 DEF IInv, TypeOK, ProcessInv, CreateSchedule, processVars
  <2>3. LockInv'
    BY <1>1 DEF IInv, TypeOK, LockInv, StillDue, CreateSchedule, processVars
  <2>4. BatchInv' /\ OncePerMinute'
    BY <1>1 DEF IInv, BatchInv, OncePerMinute, CreateSchedule
  <2>5. ClaimedMeansRun'
    BY <1>1 DEF IInv, BatchInv, ClaimedMeansRun, CreateSchedule
  <2>6. QED BY <2>1, <2>2, <2>3, <2>4, <2>5 DEF IInv
<1>2. ASSUME NEW s \in Schedule, NEW c \in Config, UpdateSchedule(s, c) PROVE IInv'
  <2>1. TypeOK'
    BY <1>2, BoundsAreNat DEF IInv, TypeOK, LockHeld, UpdateSchedule,
        processVars
  <2>2. ProcessInv'
    BY <1>2 DEF IInv, ProcessInv, UpdateSchedule, processVars
  <2>3. \A i \in Instance : pc[i] \in Open => current[i] # s
    BY <1>2, NoneIsNothing DEF IInv, TypeOK, LockHeld, UpdateSchedule, Process
  <2>4. LockInv'
    BY <1>2, <2>3 DEF IInv, TypeOK, LockInv, StillDue, UpdateSchedule,
        processVars
  <2>5. BatchInv' /\ OncePerMinute' /\ ClaimedMeansRun'
    BY <1>2 DEF IInv, BatchInv, OncePerMinute, ClaimedMeansRun, UpdateSchedule
  <2>6. QED BY <2>1, <2>2, <2>4, <2>5 DEF IInv
<1>3. ASSUME NEW s \in Schedule, DeleteSchedule(s) PROVE IInv'
  <2>1. TypeOK'
    BY <1>3, BoundsAreNat DEF IInv, TypeOK, LockHeld, DeleteSchedule,
        processVars
  <2>2. ProcessInv'
    BY <1>3 DEF IInv, ProcessInv, DeleteSchedule, processVars
  <2>3. \A i \in Instance : pc[i] \in Open => current[i] # s
    BY <1>3, NoneIsNothing DEF IInv, TypeOK, LockHeld, DeleteSchedule, Process
  <2>4. LockInv'
    BY <1>3, <2>3 DEF IInv, TypeOK, LockInv, StillDue, DeleteSchedule,
        processVars
  <2>5. BatchInv' /\ OncePerMinute'
    BY <1>3 DEF IInv, BatchInv, OncePerMinute, DeleteSchedule
  <2>6. ClaimedMeansRun'
    BY <1>3 DEF IInv, ClaimedMeansRun, DeleteSchedule
  <2>7. QED BY <2>1, <2>2, <2>4, <2>5, <2>6 DEF IInv
<1>4. ASSUME NEW s \in Schedule, PublishSuite(s) PROVE IInv'
  <2>1. TypeOK'
    BY <1>4, BoundsAreNat DEF IInv, TypeOK, LockHeld, PublishSuite, processVars
  <2>2. ProcessInv' /\ LockInv'
    BY <1>4 DEF IInv, ProcessInv, LockInv, StillDue, PublishSuite, processVars
  <2>3. BatchInv' /\ OncePerMinute' /\ ClaimedMeansRun'
    BY <1>4 DEF IInv, BatchInv, OncePerMinute, ClaimedMeansRun, PublishSuite
  <2>4. QED BY <2>1, <2>2, <2>3 DEF IInv
<1>5. ASSUME NEW e \in Env, NEW g \in BOOLEAN, PublishEnvironment(e, g) PROVE IInv'
  <2>1. TypeOK'
    BY <1>5, BoundsAreNat DEF IInv, TypeOK, LockHeld, PublishEnvironment,
        processVars
  <2>2. ProcessInv' /\ LockInv'
    BY <1>5 DEF IInv, ProcessInv, LockInv, StillDue, PublishEnvironment,
        processVars
  <2>3. BatchInv' /\ OncePerMinute' /\ ClaimedMeansRun'
    BY <1>5 DEF IInv, BatchInv, OncePerMinute, ClaimedMeansRun,
        PublishEnvironment
  <2>4. QED BY <2>1, <2>2, <2>3 DEF IInv
<1>6. QED BY <1>1, <1>2, <1>3, <1>4, <1>5 DEF UserStep
-----------------------------------------------------------------------------
\* A dispatcher keeps it, before it opens its transaction ...
LEMMA PollingInv ==
  ASSUME IInv, NEW i \in Instance,
         \/ AdvanceClock(i) \/ ReadClock(i) \/ ReadDue(i)
         \/ \E s \in Schedule : ReadSchedule(i, s) \/ SkipDeleted(i, s)
  PROVE  IInv'
<1>1. ASSUME AdvanceClock(i) PROVE IInv'
  <2>1. TypeOK'
    BY <1>1, BoundsAreNat DEF IInv, TypeOK, LockHeld, AdvanceClock, Minute,
        dbVars,
        processVars
  <2>2. ProcessInv' /\ LockInv'
    BY <1>1 DEF IInv, ProcessInv, LockInv, StillDue, AdvanceClock, dbVars,
        processVars
  <2>3. QED BY <1>1, <2>1, <2>2, TablesUnchanged DEF IInv, AdvanceClock
<1>2. ASSUME ReadClock(i) PROVE IInv'
  <2>1. TypeOK'
    BY <1>2, BoundsAreNat, NoneIsNothing, ProcessesDisjoint DEF IInv, TypeOK,
        LockHeld, ProcessInv, ReadClock, dbVars, Process, Open
  <2>2. ProcessInv'
    BY <1>2, ProcessesDisjoint DEF IInv, TypeOK, ProcessInv, ReadClock, dbVars,
        Process, Open
  <2>3. LockInv'
    BY <1>2, ProcessesDisjoint DEF IInv, TypeOK, LockInv, StillDue, ReadClock,
        dbVars, Process, Open
  <2>4. QED BY <1>2, <2>1, <2>2, <2>3, TablesUnchanged DEF IInv, ReadClock
<1>3. ASSUME ReadDue(i) PROVE IInv'
  <2>1. pc[i] = "polling" /\ lock' = Unlocked(i)
    BY <1>3, UnlockedOnly DEF IInv, ReadDue, Process, Open
  <2>2. QED BY <1>3, <2>1, LeaveInv DEF IInv, TypeOK, ReadDue, Process, Due,
      Open
<1>4. ASSUME NEW s \in Schedule, ReadSchedule(i, s) PROVE IInv'
  <2>1. TypeOK'
    BY <1>4, BoundsAreNat, NoneIsNothing, ProcessesDisjoint DEF IInv, TypeOK,
        LockHeld, ProcessInv, ReadSchedule, StartTrigger, dbVars, Process, Open
  <2>2. ProcessInv'
    BY <1>4, ProcessesDisjoint DEF IInv, TypeOK, ProcessInv, ReadSchedule,
        StartTrigger, dbVars, Process, Open
  <2>3. LockInv'
    BY <1>4, ProcessesDisjoint DEF IInv, TypeOK, LockInv, StillDue,
        ReadSchedule, StartTrigger,
        dbVars, Process, Open
  <2>4. QED BY <1>4, <2>1, <2>2, <2>3, TablesUnchanged DEF IInv, ReadSchedule
<1>5. ASSUME NEW s \in Schedule, SkipDeleted(i, s) PROVE IInv'
  <2>1. pc[i] = "next" /\ lock' = Unlocked(i)
    BY <1>5, UnlockedOnly DEF IInv, SkipDeleted, Process, Open
  <2>2. QED BY <1>5, <2>1, LeaveInv DEF IInv, TypeOK, SkipDeleted, Process,
      Due, Open
<1>6. QED BY <1>1, <1>2, <1>3, <1>4, <1>5

\* ... and so do both kinds of trigger while they read ...
LEMMA ReadingInv ==
  ASSUME IInv, NEW p \in Process, ReadSuite(p) \/ ReadEnvironment(p) \/ RejectPlans(p)
  PROVE  IInv'
<1> DEFINE read == [suite |-> suite[current[p]], version |-> 0]
           both == [suite   |-> plan[p].suite,
                    version |-> IF seen[p].env = None THEN 0 ELSE version[seen[p].env]]
<1>1. ASSUME ReadSuite(p) \/ ReadEnvironment(p) PROVE IInv'
  <2>1. /\ UNCHANGED <<dbVars, lock, clock, minute, queue, current, seen, edits, faults>>
        /\ pc[p] \in {"reading", "compiled"}
        /\ pc' = [pc EXCEPT ![p] = "compiled"] \/ pc' = [pc EXCEPT ![p] = "ready"]
        /\ \/ ReadSuite(p) /\ plan' = [plan EXCEPT ![p] = read]
           \/ ReadEnvironment(p) /\ plan' = [plan EXCEPT ![p] = both]
    BY <1>1 DEF ReadSuite, ReadEnvironment
  <2>2. TypeOK'
    <3>1. current[p] \in Schedule /\ seen[p].env \in Env \cup {None} /\ plan[p] \in Plan
      BY <2>1 DEF IInv, TypeOK, ProcessInv, Config, NoConfig
    <3>2. read \in Plan /\ both \in Plan
      BY <3>1, BoundsAreNat DEF IInv, TypeOK, Plan
    <3>3. plan' \in [Process -> Plan]
      BY <2>1, <3>2 DEF IInv, TypeOK
    <3>4. LockHeld'
      BY <2>1 DEF IInv, TypeOK, LockHeld, Process, Open
    <3>5. QED BY <2>1, <3>3, <3>4 DEF IInv, TypeOK, dbVars
  <2>3. ProcessInv'
    BY <2>1, ProcessesDisjoint DEF IInv, TypeOK, ProcessInv, dbVars, Process, Open
  <2>4. LockInv'
    BY <2>1, ProcessesDisjoint DEF IInv, TypeOK, LockInv, StillDue, dbVars, Process, Open
  <2>5. QED BY <2>1, <2>2, <2>3, <2>4, TablesUnchanged DEF IInv
<1>2. ASSUME RejectPlans(p) PROVE IInv'
  <2>1. pc[p] \in {"reading", "compiled"} /\ lock' = Unlocked(p)
    BY <1>2, UnlockedOnly DEF IInv, RejectPlans, Process, Open
  <2>2. QED BY <1>2, <2>1, LeaveInv DEF IInv, TypeOK, RejectPlans, Process,
      Due, Open
<1>3. QED BY <1>1, <1>2

\* ... and a dispatcher in its transaction, up to the runs ...
LEMMA TransactionInv ==
  ASSUME IInv, NEW i \in Instance,
         LockRow(i) \/ NotDueAnyMore(i) \/ ClaimMinute(i) \/ AlreadyClaimed(i)
  PROVE  IInv'
<1>1. ASSUME LockRow(i) PROVE IInv'
  <2>1. TypeOK'
    BY <1>1, BoundsAreNat, NoneIsNothing, ProcessesDisjoint DEF IInv, TypeOK,
        LockHeld, ProcessInv, LockRow, dbVars, Process, Open
  <2>2. ProcessInv'
    BY <1>1, ProcessesDisjoint DEF IInv, TypeOK, ProcessInv, LockRow, dbVars,
        Process, Open
  <2>3. LockInv'
    BY <1>1, ProcessesDisjoint DEF IInv, TypeOK, LockInv, StillDue, LockRow,
        dbVars, Process, Open
  <2>4. QED BY <1>1, <2>1, <2>2, <2>3, TablesUnchanged DEF IInv, LockRow
<1>2. ASSUME NotDueAnyMore(i) PROVE IInv'
  <2>1. pc[i] = "ready" /\ lock' = Unlocked(i)
    BY <1>2, UnlockedOnly DEF IInv, NotDueAnyMore, Process, Open
  <2>2. QED BY <1>2, <2>1, LeaveInv DEF IInv, TypeOK, NotDueAnyMore, Process,
      Due, Open
<1>3. ASSUME ClaimMinute(i) PROVE IInv'
  <2>1. TypeOK'
    BY <1>3, BoundsAreNat, NoneIsNothing, ProcessesDisjoint DEF IInv, TypeOK,
        LockHeld, ProcessInv, ClaimMinute, dbVars, Process, Open
  <2>2. ProcessInv'
    BY <1>3, ProcessesDisjoint DEF IInv, TypeOK, ProcessInv, ClaimMinute,
        dbVars, Process, Open
  <2>3. LockInv'
    BY <1>3, ProcessesDisjoint DEF IInv, TypeOK, LockInv, StillDue,
        ClaimMinute,
        dbVars, Process, Open
  <2>4. QED BY <1>3, <2>1, <2>2, <2>3, TablesUnchanged DEF IInv, ClaimMinute
<1>4. ASSUME AlreadyClaimed(i) PROVE IInv'
  <2>1. pc[i] = "locked" /\ lock' = Unlocked(i)
    BY <1>4, UnlockedOnly DEF IInv, AlreadyClaimed, Process, Open
  <2>2. QED BY <1>4, <2>1, LeaveInv DEF IInv, TypeOK, AlreadyClaimed, Process,
      Due, Open
<1>5. QED BY <1>1, <1>2, <1>3, <1>4

\* ... that commits the claim and the runs ...
LEMMA CommitInv ==
  ASSUME IInv, NEW i \in Instance, Commit(i)
  PROVE  IInv'
<1> DEFINE pair == <<current[i], minute[i]>>
           b == [schedule |-> current[i], at |-> minute[i], env |-> seen[i].env,
                 plan |-> plan[i],
                 nth |-> Cardinality({x \in batches : x.schedule = current[i]
                                                     /\ x.at = minute[i]})]
<1>1. /\ current[i] \in rows /\ minute[i] \in Minute /\ pair \notin claims
      /\ minute[i] # None
  BY NoneIsNothing DEF IInv, TypeOK, ProcessInv, LockInv, StillDue, Commit,
      Open
<1>2. {x \in batches : x.schedule = current[i] /\ x.at = minute[i]} = {}
  BY <1>1 DEF IInv, ClaimedMeansRun
<1>3. b.nth = 0 /\ b.schedule = current[i] /\ b.at = minute[i]
  BY <1>2, FS_EmptySet
<1>4. batches' = batches \cup {b} /\ claims' = claims \cup {pair}
  BY DEF Commit, CreateRuns
<1>5. b \in Batch
  BY <1>1, <1>3 DEF IInv, TypeOK, Batch, Config, NoConfig, Process
<1>6. i \in Process /\ pc[i] # "idle" /\ lock' = Unlocked(i) /\ Leave(i) /\ used' = used
  BY DEF Commit, Process
<1>7. TypeOK'
  BY <1>1, <1>4, <1>5, <1>6, BackToLoop DEF IInv, TypeOK, Commit
<1>8. ProcessInv'
  BY <1>6, BackToLoop
<1>9. LockInv'
  <2>1. \A k \in Instance \ {i} : pc[k] \in Open => current[k] # current[i]
    BY <1>1 DEF IInv, TypeOK, LockHeld, Commit, Open
  <2>2. QED BY <1>4, <1>6, <2>1, BackToLoop DEF IInv, LockInv, StillDue,
      Commit, Process
<1>10. BatchInv'
  BY <1>1, <1>3, <1>4, <1>6, FS_AddElement DEF IInv, TypeOK, BatchInv
<1>11. OncePerMinute'
  BY <1>3, <1>4 DEF IInv, OncePerMinute
<1>12. ClaimedMeansRun'
  BY <1>1, <1>3, <1>4 DEF IInv, ClaimedMeansRun, Commit
<1>13. QED BY <1>7, <1>8, <1>9, <1>10, <1>11, <1>12 DEF IInv

\* ... and so do a trigger by hand, which claims nothing, ...
LEMMA RequestInv ==
  ASSUME IInv, NEW r \in Request,
         CommitManual(r) \/ \E s \in Schedule : TriggerNow(r, s)
  PROVE  IInv'
<1>1. ASSUME CommitManual(r) PROVE IInv'
  <2> DEFINE b == [schedule |-> current[r], at |-> None, env |-> seen[r].env,
                   plan |-> plan[r],
                   nth |-> Cardinality({x \in batches : x.schedule = current[r]
                                                       /\ x.at = None})]
  <2>1. current[r] \in used /\ current[r] \in Schedule
    BY <1>1 DEF IInv, TypeOK, ProcessInv, CommitManual, Process
  <2>2. batches' = batches \cup {b} /\ b.schedule = current[r] /\ b.at = None
    BY <1>1 DEF CommitManual, CreateRuns
  <2>3. b.nth \in Nat
    BY FS_Subset, FS_CardinalityType DEF IInv, BatchInv
  <2>4. b \in Batch
    BY <2>1, <2>3 DEF IInv, TypeOK, Batch, Config, NoConfig, Process
  <2>5. r \in Process /\ pc[r] # "idle" /\ lock' = Unlocked(r) /\ Leave(r) /\ used' = used
    BY <1>1, UnlockedOnly DEF IInv, CommitManual, Process
  <2>6. TypeOK'
    BY <1>1, <2>2, <2>4, <2>5, BackToLoop DEF IInv, TypeOK, CommitManual
  <2>7. ProcessInv'
    BY <2>5, BackToLoop
  <2>8. LockInv'
    BY <1>1, <2>5, BackToLoop, ProcessesDisjoint DEF IInv, LockInv, StillDue,
        CommitManual, Process
  <2>9. BatchInv'
    BY <2>1, <2>2, <2>5, FS_AddElement DEF IInv, BatchInv
  <2>10. OncePerMinute'
    BY <2>2 DEF IInv, OncePerMinute
  <2>11. ClaimedMeansRun'
    BY <1>1, <2>2 DEF IInv, ClaimedMeansRun, CommitManual
  <2>12. QED BY <2>6, <2>7, <2>8, <2>9, <2>10, <2>11 DEF IInv
<1>2. ASSUME NEW s \in Schedule, TriggerNow(r, s) PROVE IInv'
  <2>1. TypeOK'
    BY <1>2, BoundsAreNat, ProcessesDisjoint DEF IInv, TypeOK, LockHeld,
        ProcessInv, TriggerNow, StartTrigger, dbVars, Process, Open
  <2>2. ProcessInv'
    BY <1>2, ProcessesDisjoint DEF IInv, TypeOK, ProcessInv, TriggerNow,
        StartTrigger, dbVars, Process, Open
  <2>3. LockInv'
    BY <1>2, ProcessesDisjoint DEF IInv, TypeOK, LockInv, StillDue, TriggerNow,
        StartTrigger,
        dbVars, Process, Open
  <2>4. QED BY <1>2, <2>1, <2>2, <2>3, TablesUnchanged DEF IInv, TriggerNow
<1>3. QED BY <1>1, <1>2

\* ... a failed statement and a crash.
LEMMA FaultInv ==
  ASSUME IInv, NEW p \in Process,
         StatementFails(p) \/ (p \in Instance /\ Crash(p))
  PROVE  IInv'
<1>1. /\ pc[p] # "idle" /\ lock' = Unlocked(p)
      /\ UNCHANGED <<dbVars, clock>>
      /\ edits' \in 0..MaxEdits /\ faults' \in 0..MaxFaults
  BY BoundsAreNat DEF IInv, TypeOK, StatementFails, Crash
<1>2. \/ Leave(p)
      \/ p \in Instance /\ \E left \in SUBSET Schedule : ContinueWith(p, left)
  <2>1. pc[p] \in {"polling", "next"} => p \in Instance
    BY DEF IInv, ProcessInv, Process
  <2>2. p \in Instance => queue[p] \subseteq Schedule
    BY DEF IInv, TypeOK
  <2>3. QED BY <2>1, <2>2 DEF StatementFails, Crash
<1>3. QED BY <1>1, <1>2, LeaveInv

-----------------------------------------------------------------------------
\* The inductive invariant holds in the initial state.
LEMMA InitInv == Init => IInv
<1> SUFFICES ASSUME Init PROVE IInv
  OBVIOUS
<1>1. TypeOK
  BY BoundsAreNat, NoneIsNothing DEF Init, TypeOK, LockHeld, Minute, Plan,
      NoPlan, Process, Open
<1>2. ProcessInv /\ LockInv
  BY DEF Init, ProcessInv, LockInv, Process, Open
<1>3. BatchInv /\ OncePerMinute /\ ClaimedMeansRun
  BY FS_EmptySet DEF Init, BatchInv, OncePerMinute, ClaimedMeansRun
<1>4. QED BY <1>1, <1>2, <1>3 DEF IInv

\* Every step preserves it.
LEMMA NextInv == IInv /\ [Next]_vars => IInv'
<1> SUFFICES ASSUME IInv, [Next]_vars PROVE IInv'
  OBVIOUS
<1>1. ASSUME UserStep PROVE IInv'
  BY <1>1, UserStepInv
<1>2. ASSUME NEW i \in Instance, DispatcherStep(i) \/ AdvanceClock(i) PROVE IInv'
  BY <1>2, PollingInv, ReadingInv, TransactionInv, CommitInv DEF
      DispatcherStep, Process
<1>3. ASSUME NEW r \in Request, RequestStep(r) PROVE IInv'
  BY <1>3, RequestInv, ReadingInv DEF RequestStep, Process
<1>4. ASSUME NEW p \in Process, StatementFails(p) PROVE IInv'
  BY <1>4, FaultInv
<1>5. ASSUME NEW i \in Instance, Crash(i) PROVE IInv'
  BY <1>5, FaultInv DEF Process
<1>6. CASE UNCHANGED vars
  <2>1. TypeOK' /\ ProcessInv'
    BY <1>6 DEF IInv, TypeOK, LockHeld, ProcessInv, vars, dbVars, processVars
  <2>2. LockInv'
    BY <1>6 DEF IInv, LockInv, StillDue, vars, dbVars, processVars
  <2>3. QED BY <1>6, <2>1, <2>2, TablesUnchanged DEF IInv, vars
<1>7. QED BY <1>1, <1>2, <1>3, <1>4, <1>5, <1>6 DEF Next

\* The inductive invariant holds throughout, however instances, users and
\* faults interleave.
THEOREM Invariance == Spec => []IInv
<1>1. QED BY InitInv, NextInv, PTL DEF Spec

\* Every variable keeps its type, and a row is locked by one transaction.
THEOREM TypeCorrect == Spec => []TypeOK
<1>1. IInv => TypeOK
  BY DEF IInv
<1>2. QED BY <1>1, Invariance, PTL

\* No schedule is dispatched twice for a minute, by any number of instances
\* (triggerSchedule's claim in schedule_dispatches).
THEOREM OncePerMinuteAlways == Spec => []OncePerMinute
<1>1. IInv => OncePerMinute
  BY DEF IInv
<1>2. QED BY <1>1, Invariance, PTL

\* A minute is claimed exactly when its runs exist.
THEOREM ClaimedMeansRunAlways == Spec => []ClaimedMeansRun
<1>1. IInv => ClaimedMeansRun
  BY DEF IInv
<1>2. QED BY <1>1, Invariance, PTL

-----------------------------------------------------------------------------
\* A commit is one firing of the abstract schedule, by the row as it is then.
LEMMA CommitFires ==
  ASSUME IInv, NEW i \in Instance, Commit(i)
  PROVE  Firing!Fire(current[i], minute[i])
<1> DEFINE record(b) == [schedule |-> b.schedule, at |-> b.at, env |-> b.env, nth |-> b.nth]
           fired == {record(b) : b \in {x \in batches : x.at # None}}
           new == [schedule |-> current[i], at |-> minute[i], env |-> seen[i].env,
                   plan |-> plan[i],
                   nth |-> Cardinality({x \in batches : x.schedule = current[i]
                                                       /\ x.at = minute[i]})]
<1>1. /\ current[i] \in rows /\ config[current[i]].enabled
      /\ minute[i] \in config[current[i]].due /\ config[current[i]].env = seen[i].env
      /\ <<current[i], minute[i]>> \notin claims /\ minute[i] # None
  BY NoneIsNothing DEF IInv, TypeOK, ProcessInv, LockInv, StillDue, Commit,
      Open
<1>2. \A b \in batches : ~(b.schedule = current[i] /\ b.at = minute[i])
  BY <1>1 DEF IInv, ClaimedMeansRun
<1>3. batches' = batches \cup {new} /\ rows' = rows /\ config' = config
  BY DEF Commit, CreateRuns
<1>4. new.nth = 0
  BY <1>2, FS_EmptySet
<1>5. fired' = fired \cup {[schedule |-> current[i], at |-> minute[i],
                            env |-> config[current[i]].env, nth |-> 0]}
  <2>1. new.schedule = current[i] /\ new.at = minute[i] /\ new.env = config[current[i]].env
    BY <1>1
  <2> HIDE DEF new
  <2>2. {x \in batches' : x.at # None} = {x \in batches : x.at # None} \cup {new}
    BY <1>1, <1>3, <2>1
  <2>3. fired' = fired \cup {record(new)}
    BY <2>2
  <2>4. QED BY <1>4, <2>1, <2>3
<1>6. ~\E f \in fired : f.schedule = current[i] /\ f.at = minute[i]
  BY <1>2
<1>7. QED BY <1>1, <1>3, <1>5, <1>6 DEF Firing!Fire

\* Every other step is an edit, a deletion, or invisible.
LEMMA StepRefines ==
  ASSUME IInv, [Next]_vars
  PROVE  [Firing!Next]_(Firing!vars)
<1>1. ASSUME NEW s \in Schedule, NEW c \in Config, CreateSchedule(s, c) \/ UpdateSchedule(s, c)
      PROVE  Firing!Edit(s)
  BY <1>1 DEF CreateSchedule, UpdateSchedule, Firing!Edit
<1>2. ASSUME NEW s \in Schedule, DeleteSchedule(s) PROVE Firing!Delete(s)
  BY <1>2 DEF DeleteSchedule, Firing!Delete
<1>3. ASSUME NEW i \in Instance, Commit(i)
      PROVE  \E s \in Schedule, m \in Minute : Firing!Fire(s, m)
  <2>1. current[i] \in Schedule /\ minute[i] \in Minute
    BY <1>3 DEF IInv, TypeOK, ProcessInv, Commit, Process, Open
  <2>2. PICK s \in Schedule, m \in Minute : s = current[i] /\ m = minute[i]
    BY <2>1
  <2>3. Firing!Fire(current[i], minute[i])
    BY <1>3, CommitFires
  <2>4. Firing!Fire(s, m)
    BY <2>2, <2>3 DEF Firing!Fire
  <2>5. QED BY <2>4
<1>4. ASSUME NEW r \in Request, CommitManual(r) PROVE UNCHANGED Firing!vars
  <2>1. {b \in batches' : b.at # None} = {b \in batches : b.at # None}
    BY <1>4 DEF CommitManual, CreateRuns
  <2>2. QED BY <1>4, <2>1 DEF CommitManual, Firing!vars
<1>5. ASSUME UNCHANGED <<rows, config, batches>> PROVE UNCHANGED Firing!vars
  BY <1>5 DEF Firing!vars
<1>6. ASSUME UserStep, ~\E s \in Schedule, c \in Config : CreateSchedule(s, c) \/ UpdateSchedule(s, c),
             ~\E s \in Schedule : DeleteSchedule(s)
      PROVE  UNCHANGED <<rows, config, batches>>
  BY <1>6 DEF UserStep, PublishSuite, PublishEnvironment
<1>7. ASSUME NEW i \in Instance, DispatcherStep(i) \/ AdvanceClock(i) \/ Crash(i), ~Commit(i)
      PROVE  UNCHANGED <<rows, config, batches>>
  BY <1>7 DEF DispatcherStep, ReadClock, ReadDue, ReadSchedule, SkipDeleted,
      ReadSuite, ReadEnvironment, RejectPlans, LockRow, NotDueAnyMore, ClaimMinute,
      AlreadyClaimed, AdvanceClock, Crash, dbVars
<1>8. ASSUME NEW r \in Request, RequestStep(r), ~CommitManual(r)
      PROVE  UNCHANGED <<rows, config, batches>>
  BY <1>8 DEF RequestStep, TriggerNow, ReadSuite, ReadEnvironment, RejectPlans, dbVars
<1>9. ASSUME NEW p \in Process, StatementFails(p)
      PROVE  UNCHANGED <<rows, config, batches>>
  BY <1>9 DEF StatementFails, dbVars
<1>10. CASE UNCHANGED vars
  BY <1>5, <1>10 DEF vars, dbVars
<1>11. QED
  BY <1>1, <1>2, <1>3, <1>4, <1>5, <1>6, <1>7, <1>8, <1>9, <1>10 DEF Next,
      Firing!Next

\* Scheduling implements CronDispatch: a batch appears in one instant in which
\* the row exists, is enabled, and names the minute and the environment.
THEOREM DispatchImplementsCron == Spec => ImplementsCronDispatch
<1>1. Init => Firing!Init
  BY DEF Init, Firing!Init
<1>2. IInv /\ [Next]_vars => [Firing!Next]_(Firing!vars)
  BY StepRefines
<1>3. QED BY <1>1, <1>2, Invariance, PTL DEF Spec, ImplementsCronDispatch,
    Firing!Spec
=============================================================================
