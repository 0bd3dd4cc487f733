-------------------------- MODULE RunLease_proofs --------------------------
(***************************************************************************)
(* Proofs about RunLease, for any runs, daemons, clients, polls and bounds. *)
(***************************************************************************)
EXTENDS RunLease, FiniteSetTheorems, TLAPS

\* Reporting a verdict preserves the inductive invariant, when the run is
\* claimed, no report about it is in flight and a verdict 'passed' is earned.
LEMMA ReportInv ==
  ASSUME IInv, NEW n \in Daemon, pc[n] \in Working, NEW s \in DaemonVerdict,
         status[work[n]] = "claimed", NoPatch(work[n]),
         s = "passed" => Earned(work[n]),
         Report(n, s), faults' \in 0..MaxFaults,
         UNCHANGED <<tableVars, tokens, pollVars, evidenceVars, work, call>>
  PROVE  IInv'
<1>1. work[n] \in Run /\ owner[work[n]] = n
  BY DEF IInv, TypeOK, DaemonInv, WorkInv
<1>2. TypeOK'
  BY <1>1 DEF IInv, TypeOK, Report, Patch, DaemonPhase, tableVars, pollVars,
      evidenceVars
<1>3. DaemonInv'
  BY DEF IInv, TypeOK, DaemonInv, Working, Report, pollVars
<1>4. FreshInv'
  BY <1>1, NoneIsNothing DEF IInv, TypeOK, FreshInv, Untouched, DaemonInv, Report,
      tableVars, pollVars, evidenceVars
<1>5. WorkInv'
  BY <1>1 DEF IInv, TypeOK, WorkInv, Untouched, NoPatch, Report, tableVars,
      evidenceVars
<1>6. PatchInv'
  BY <1>1 DEF IInv, TypeOK, PatchInv, Earned, NoPatch, Report, tableVars,
      evidenceVars
<1>7. PollInv' /\ EvidenceInv' /\ OwnerInv'
  BY DEF IInv, PollInv, EvidenceInv, OwnerInv, tableVars, pollVars, evidenceVars
<1>8. QED BY <1>2, <1>3, <1>4, <1>5, <1>6, <1>7 DEF IInv

\* A step of a poll handler preserves the inductive invariant.
LEMMA PollStepInv ==
  ASSUME IInv, NEW h \in Poll, PollStep(h)
  PROVE  IInv'
<1>1. ASSUME SelectPending(h) PROVE IInv'
  <2>1. /\ pick'[h] \in Run /\ status[pick'[h]] = "pending"
        /\ \A g \in Poll : pick[g] # pick'[h]
      BY <1>1, NoneIsNothing DEF IInv, TypeOK, PollPhase, PollInv, FreshInv,
          SelectPending, Oldest, Available, Locked
  <2>2. TypeOK'
      BY <1>1 DEF IInv, TypeOK, PollPhase, SelectPending, Oldest, NoFault,
          Available, Locked, tableVars, evidenceVars, daemonVars
  <2>3. PollInv'
      BY <1>1, <2>1, NoneIsNothing DEF IInv, TypeOK, PollInv, SelectPending,
          Oldest, Available, Locked, tableVars, evidenceVars, daemonVars
  <2>4. DaemonInv'
      BY <1>1, NoneIsNothing DEF IInv, TypeOK, DaemonInv, Working,
          SelectPending, tableVars, evidenceVars, daemonVars
  <2>5. FreshInv'
      BY <1>1, NoneIsNothing DEF IInv, TypeOK, FreshInv, Untouched,
          SelectPending, Oldest, Available, Locked, tableVars, evidenceVars,
          daemonVars
  <2>6. WorkInv' /\ EvidenceInv' /\ PatchInv' /\ OwnerInv'
      BY <1>1 DEF IInv, WorkInv, EvidenceInv, PatchInv, OwnerInv, Untouched,
          NoPatch, Working, Earned, SelectPending, tableVars, evidenceVars,
          daemonVars
  <2>7. QED BY <2>1, <2>2, <2>3, <2>4, <2>5, <2>6 DEF IInv
<1>2. ASSUME SelectNothing(h) PROVE IInv'
  <2>1. TypeOK'
      BY <1>2 DEF IInv, TypeOK, PollPhase, SelectNothing, Available, NoFault,
          Locked, tableVars, evidenceVars, daemonVars
  <2>2. PollInv'
      BY <1>2, NoneIsNothing DEF IInv, TypeOK, PollInv, SelectNothing,
          Available, Locked, tableVars, evidenceVars, daemonVars
  <2>3. DaemonInv'
      BY <1>2, NoneIsNothing DEF IInv, TypeOK, DaemonInv, Working,
          SelectNothing, tableVars, evidenceVars, daemonVars
  <2>4. FreshInv'
      BY <1>2, NoneIsNothing DEF IInv, TypeOK, FreshInv, Untouched,
          SelectNothing, Available, Locked, tableVars, evidenceVars, daemonVars
  <2>5. WorkInv' /\ EvidenceInv' /\ PatchInv' /\ OwnerInv'
      BY <1>2 DEF IInv, WorkInv, EvidenceInv, PatchInv, OwnerInv, Untouched,
          NoPatch, Working, Earned, SelectNothing, tableVars, evidenceVars,
          daemonVars
  <2>6. QED BY <2>1, <2>2, <2>3, <2>4, <2>5 DEF IInv
<1>3. ASSUME ClaimSelected(h) PROVE IInv'
  <2>1. /\ pick[h] \in Run /\ status[pick[h]] = "pending" /\ asker[h] \in Daemon
        /\ Untouched(pick[h])
        /\ \A n \in Daemon : work[n] # pick[h]
        /\ \A g \in Poll : g # h => pick[g] # pick[h]
      BY <1>3, NoneIsNothing DEF IInv, PollInv, FreshInv, ClaimSelected
  <2>2. TypeOK'
      BY <1>3, <2>1 DEF IInv, TypeOK, Runner, PollPhase, Status, ClientStatus,
          ClaimSelected, NoFault, evidenceVars, daemonVars
  <2>3. PollInv'
      BY <1>3, <2>1, NoneIsNothing DEF IInv, TypeOK, PollInv, ClaimSelected,
          evidenceVars, daemonVars
  <2>4. DaemonInv'
      BY <1>3, NoneIsNothing DEF IInv, TypeOK, DaemonInv, Working,
          ClaimSelected, evidenceVars, daemonVars
  <2>5. FreshInv'
      BY <1>3, <2>1, NoneIsNothing DEF IInv, TypeOK, FreshInv, Untouched,
          ClaimSelected, evidenceVars, daemonVars
  <2>6. WorkInv'
      BY <1>3, <2>1, NoneIsNothing DEF IInv, TypeOK, WorkInv, Untouched,
          NoPatch, Working, ClaimSelected, evidenceVars, daemonVars
  <2>7. PatchInv'
      BY <1>3, <2>1 DEF IInv, TypeOK, PatchInv, Earned, ClaimSelected,
          evidenceVars, daemonVars
  <2>8. OwnerInv'
      BY <1>3, <2>1, RunnersDisjoint DEF IInv, TypeOK, OwnerInv, ClaimSelected,
          evidenceVars, daemonVars, Runner
  <2>9. EvidenceInv'
      BY <1>3 DEF IInv, EvidenceInv, ClaimSelected, evidenceVars, daemonVars
  <2>10. QED BY <2>1, <2>2, <2>3, <2>4, <2>5, <2>6, <2>7, <2>8, <2>9 DEF IInv
<1>4. ASSUME PollExpires(h) PROVE IInv'
  <2>1. pick[h] = None
      BY <1>4 DEF IInv, PollInv, PollExpires
  <2>2. TypeOK'
      BY <1>4 DEF IInv, TypeOK, PollPhase, PollExpires, NoFault, tableVars,
          evidenceVars, daemonVars
  <2>3. PollInv'
      BY <1>4, <2>1, NoneIsNothing DEF IInv, TypeOK, PollInv, PollExpires,
          tableVars, evidenceVars, daemonVars
  <2>4. DaemonInv'
      BY <1>4, NoneIsNothing DEF IInv, TypeOK, DaemonInv, Working, PollExpires,
          tableVars, evidenceVars, daemonVars
  <2>5. FreshInv'
      BY <1>4, <2>1, NoneIsNothing DEF IInv, TypeOK, FreshInv, Untouched,
          PollExpires, tableVars, evidenceVars, daemonVars
  <2>6. WorkInv' /\ EvidenceInv' /\ PatchInv' /\ OwnerInv'
      BY <1>4 DEF IInv, WorkInv, EvidenceInv, PatchInv, OwnerInv, Untouched,
          NoPatch, Working, Earned, PollExpires, tableVars, evidenceVars,
          daemonVars
  <2>7. QED BY <2>1, <2>2, <2>3, <2>4, <2>5, <2>6 DEF IInv
<1>5. ASSUME PollFails(h) PROVE IInv'
  <2>1. TypeOK'
      BY <1>5, BoundsAreNat DEF IInv, TypeOK, PollPhase, PollFails, Fault,
          tableVars, evidenceVars, daemonVars
  <2>2. PollInv'
      BY <1>5, NoneIsNothing DEF IInv, TypeOK, PollInv, PollFails, tableVars,
          evidenceVars, daemonVars
  <2>3. DaemonInv'
      BY <1>5, NoneIsNothing DEF IInv, TypeOK, DaemonInv, Working, PollFails,
          tableVars, evidenceVars, daemonVars
  <2>4. FreshInv'
      BY <1>5, NoneIsNothing DEF IInv, TypeOK, FreshInv, Untouched, PollFails,
          tableVars, evidenceVars, daemonVars
  <2>5. WorkInv' /\ EvidenceInv' /\ PatchInv' /\ OwnerInv'
      BY <1>5 DEF IInv, WorkInv, EvidenceInv, PatchInv, OwnerInv, Untouched,
          NoPatch, Working, Earned, PollFails, tableVars, evidenceVars,
          daemonVars
  <2>6. QED BY <2>1, <2>2, <2>3, <2>4, <2>5 DEF IInv
<1>6. ASSUME DropReply(h) PROVE IInv'
  <2>1. TypeOK'
      BY <1>6 DEF IInv, TypeOK, PollPhase, DropReply, FreePoll, NoFault,
          tableVars, evidenceVars, daemonVars
  <2>2. PollInv'
      BY <1>6, NoneIsNothing DEF IInv, TypeOK, PollInv, DropReply, FreePoll,
          tableVars, evidenceVars, daemonVars
  <2>3. DaemonInv'
      BY <1>6, NoneIsNothing DEF IInv, TypeOK, DaemonInv, Working, DropReply,
          FreePoll, tableVars, evidenceVars, daemonVars
  <2>4. FreshInv'
      BY <1>6, NoneIsNothing DEF IInv, TypeOK, FreshInv, Untouched, DropReply,
          FreePoll, tableVars, evidenceVars, daemonVars
  <2>5. WorkInv' /\ EvidenceInv' /\ PatchInv' /\ OwnerInv'
      BY <1>6 DEF IInv, WorkInv, EvidenceInv, PatchInv, OwnerInv, Untouched,
          NoPatch, Working, Earned, DropReply, FreePoll, tableVars,
          evidenceVars, daemonVars
  <2>6. QED BY <2>1, <2>2, <2>3, <2>4, <2>5 DEF IInv
<1>7. QED BY <1>1, <1>2, <1>3, <1>4, <1>5, <1>6 DEF PollStep

\* So does a daemon that polls, dies or comes back ...
LEMMA PollingDaemonInv ==
  ASSUME IInv, NEW n \in Daemon,
         \/ \E h \in Poll : OpenPoll(n, h)
         \/ ReceiveRun(n) \/ ReceiveNothing(n) \/ PollBreaks(n)
         \/ Crash(n) \/ Restart(n)
  PROVE  IInv'
<1>1. ASSUME NEW h \in Poll, OpenPoll(n, h) PROVE IInv'
  <2>1. TypeOK'
      BY <1>1 DEF IInv, TypeOK, DaemonPhase, PollPhase, OpenPoll, NoFault,
          tableVars, evidenceVars
  <2>2. PollInv'
      BY <1>1, NoneIsNothing DEF IInv, TypeOK, PollInv, OpenPoll, tableVars,
          evidenceVars
  <2>3. DaemonInv'
      BY <1>1, NoneIsNothing DEF IInv, TypeOK, DaemonInv, Working, OpenPoll,
          tableVars, evidenceVars
  <2>4. FreshInv'
      BY <1>1, NoneIsNothing DEF IInv, TypeOK, FreshInv, Untouched, OpenPoll,
          tableVars, evidenceVars
  <2>5. WorkInv'
      BY <1>1, NoneIsNothing DEF IInv, TypeOK, WorkInv, Untouched, NoPatch,
          Working, OpenPoll, tableVars, evidenceVars
  <2>6. EvidenceInv' /\ PatchInv' /\ OwnerInv'
      BY <1>1 DEF IInv, EvidenceInv, PatchInv, OwnerInv, Earned, OpenPoll,
          tableVars, evidenceVars
  <2>7. QED BY <2>1, <2>2, <2>3, <2>4, <2>5, <2>6 DEF IInv
<1>2. ASSUME ReceiveRun(n) PROVE IInv'
  <2>1. /\ call[n] \in Poll /\ pick[call[n]] \in Run
        /\ status[pick[call[n]]] = "claimed" /\ owner[pick[call[n]]] = n
        /\ Untouched(pick[call[n]])
        /\ \A m \in Daemon : work[m] # pick[call[n]]
        /\ \A g \in Poll : g # call[n] => pick[g] # pick[call[n]]
      BY <1>2, NoneIsNothing DEF IInv, TypeOK, PollInv, DaemonInv, FreshInv,
          ReceiveRun
  <2>2. TypeOK'
      BY <1>2, <2>1 DEF IInv, TypeOK, DaemonPhase, PollPhase, ReceiveRun,
          FreePoll, NoFault, tableVars, evidenceVars
  <2>3. PollInv'
      BY <1>2, <2>1, NoneIsNothing DEF IInv, TypeOK, PollInv, ReceiveRun,
          FreePoll, tableVars, evidenceVars
  <2>4. DaemonInv'
      BY <1>2, <2>1, NoneIsNothing DEF IInv, TypeOK, DaemonInv, Working,
          ReceiveRun, FreePoll, tableVars, evidenceVars
  <2>5. FreshInv'
      BY <1>2, <2>1, NoneIsNothing DEF IInv, TypeOK, FreshInv, Untouched,
          ReceiveRun, FreePoll, tableVars, evidenceVars
  <2>6. WorkInv'
      BY <1>2, <2>1, NoneIsNothing DEF IInv, TypeOK, WorkInv, Untouched,
          NoPatch, Working, ReceiveRun, FreePoll, tableVars, evidenceVars
  <2>7. EvidenceInv' /\ PatchInv' /\ OwnerInv'
      BY <1>2 DEF IInv, EvidenceInv, PatchInv, OwnerInv, Earned, ReceiveRun,
          FreePoll, tableVars, evidenceVars
  <2>8. QED BY <2>1, <2>2, <2>3, <2>4, <2>5, <2>6, <2>7 DEF IInv
<1>3. ASSUME ReceiveNothing(n) PROVE IInv'
  <2>1. call[n] \in Poll
      BY <1>3 DEF IInv, DaemonInv, ReceiveNothing
  <2>2. TypeOK'
      BY <1>3, <2>1 DEF IInv, TypeOK, DaemonPhase, PollPhase, ReceiveNothing,
          FreePoll, NoFault, tableVars, evidenceVars
  <2>3. PollInv'
      BY <1>3, <2>1, NoneIsNothing DEF IInv, TypeOK, PollInv, ReceiveNothing,
          FreePoll, tableVars, evidenceVars
  <2>4. DaemonInv'
      BY <1>3, <2>1, NoneIsNothing DEF IInv, TypeOK, DaemonInv, Working,
          ReceiveNothing, FreePoll, tableVars, evidenceVars
  <2>5. FreshInv'
      BY <1>3, <2>1, NoneIsNothing DEF IInv, TypeOK, FreshInv, Untouched,
          ReceiveNothing, FreePoll, tableVars, evidenceVars
  <2>6. WorkInv'
      BY <1>3, NoneIsNothing DEF IInv, TypeOK, WorkInv, Untouched, NoPatch,
          Working, ReceiveNothing, FreePoll, tableVars, evidenceVars
  <2>7. EvidenceInv' /\ PatchInv' /\ OwnerInv'
      BY <1>3 DEF IInv, EvidenceInv, PatchInv, OwnerInv, Earned,
          ReceiveNothing, FreePoll, tableVars, evidenceVars
  <2>8. QED BY <2>1, <2>2, <2>3, <2>4, <2>5, <2>6, <2>7 DEF IInv
<1>4. ASSUME PollBreaks(n) PROVE IInv'
  <2>1. TypeOK'
      BY <1>4, BoundsAreNat DEF IInv, TypeOK, DaemonPhase, PollBreaks, Fault,
          tableVars, pollVars, evidenceVars
  <2>2. DaemonInv'
      BY <1>4, NoneIsNothing DEF IInv, TypeOK, DaemonInv, Working, PollBreaks,
          tableVars, pollVars, evidenceVars
  <2>3. WorkInv'
      BY <1>4, NoneIsNothing DEF IInv, TypeOK, WorkInv, Untouched, NoPatch,
          Working, PollBreaks, tableVars, pollVars, evidenceVars
  <2>4. PollInv' /\ FreshInv' /\ EvidenceInv' /\ PatchInv' /\ OwnerInv'
      BY <1>4 DEF IInv, PollInv, FreshInv, EvidenceInv, PatchInv, OwnerInv,
          Untouched, Earned, PollBreaks, tableVars, pollVars, evidenceVars
  <2>5. QED BY <2>1, <2>2, <2>3, <2>4 DEF IInv
<1>5. ASSUME Crash(n) PROVE IInv'
  <2>1. TypeOK'
      BY <1>5, BoundsAreNat DEF IInv, TypeOK, DaemonPhase, Crash, Fault,
          tableVars, pollVars, evidenceVars
  <2>2. DaemonInv'
      BY <1>5, NoneIsNothing DEF IInv, TypeOK, DaemonInv, Working, Crash,
          tableVars, pollVars, evidenceVars
  <2>3. FreshInv'
      BY <1>5, NoneIsNothing DEF IInv, TypeOK, FreshInv, Untouched, Crash,
          tableVars, pollVars, evidenceVars
  <2>4. WorkInv'
      BY <1>5, NoneIsNothing DEF IInv, TypeOK, WorkInv, Untouched, NoPatch,
          Working, Crash, tableVars, pollVars, evidenceVars
  <2>5. PollInv' /\ EvidenceInv' /\ PatchInv' /\ OwnerInv'
      BY <1>5 DEF IInv, PollInv, EvidenceInv, PatchInv, OwnerInv, Earned,
          Crash, tableVars, pollVars, evidenceVars
  <2>6. QED BY <2>1, <2>2, <2>3, <2>4, <2>5 DEF IInv
<1>6. ASSUME Restart(n) PROVE IInv'
  <2>1. TypeOK'
      BY <1>6 DEF IInv, TypeOK, DaemonPhase, Restart, NoFault, tableVars,
          pollVars, evidenceVars
  <2>2. DaemonInv'
      BY <1>6, NoneIsNothing DEF IInv, TypeOK, DaemonInv, Working, Restart,
          tableVars, pollVars, evidenceVars
  <2>3. WorkInv'
      BY <1>6, NoneIsNothing DEF IInv, TypeOK, WorkInv, Untouched, NoPatch,
          Working, Restart, tableVars, pollVars, evidenceVars
  <2>4. PollInv' /\ FreshInv' /\ EvidenceInv' /\ PatchInv' /\ OwnerInv'
      BY <1>6 DEF IInv, PollInv, FreshInv, EvidenceInv, PatchInv, OwnerInv,
          Untouched, Earned, Restart, tableVars, pollVars, evidenceVars
  <2>5. QED BY <2>1, <2>2, <2>3, <2>4 DEF IInv
<1>7. QED BY <1>1, <1>2, <1>3, <1>4, <1>5, <1>6

\* ... and one that works on a run ...
LEMMA WorkingDaemonInv ==
  ASSUME IInv, NEW n \in Daemon,
         \/ \E b \in 0..MaxBatch, v \in DaemonVerdict : FinishPlan(n, b, v)
         \/ \E v \in DaemonVerdict : FinishEmptyPlan(n, v)
         \/ PlanThrows(n)
         \/ UploadAccepted(n) \/ UploadRefused(n) \/ UploadBreaks(n)
         \/ SealAccepted(n) \/ SealRefused(n) \/ SealBreaks(n)
         \/ ReportReturns(n) \/ ReportBreaks(n)
  PROVE  IInv'
<1>1. ASSUME NEW b \in 0..MaxBatch, NEW v \in DaemonVerdict, FinishPlan(n, b, v) PROVE IInv'
  <2>1. /\ work[n] \in Run /\ owner[work[n]] = n /\ status[work[n]] = "claimed"
        /\ Untouched(work[n])
        /\ \A m \in Daemon : m # n => work[m] # work[n]
        /\ \A h \in Poll : phase[h] = "reply" => pick[h] # work[n]
      BY <1>1, NoneIsNothing DEF IInv, TypeOK, DaemonInv, FreshInv, WorkInv,
          Working, FinishPlan
  <2>2. TypeOK'
      BY <1>1, <2>1, BoundsAreNat DEF IInv, TypeOK, IngestPhase, DaemonVerdict,
          DaemonPhase, FinishPlan, NoFault, tableVars, pollVars
  <2>3. DaemonInv'
      BY <1>1, <2>1, NoneIsNothing DEF IInv, TypeOK, DaemonInv, Working,
          FinishPlan, tableVars, pollVars
  <2>4. FreshInv'
      BY <1>1, <2>1, NoneIsNothing DEF IInv, TypeOK, FreshInv, Untouched,
          FinishPlan, tableVars, pollVars
  <2>5. WorkInv'
      BY <1>1, <2>1, NoneIsNothing DEF IInv, TypeOK, WorkInv, Untouched,
          NoPatch, Working, FinishPlan, tableVars, pollVars, DaemonVerdict
  <2>6. EvidenceInv'
      BY <1>1, <2>1, BoundsAreNat DEF IInv, TypeOK, EvidenceInv, FinishPlan,
          tableVars, pollVars, Untouched
  <2>7. PatchInv'
      BY <1>1, <2>1 DEF IInv, TypeOK, PatchInv, Earned, FinishPlan, tableVars,
          pollVars, Untouched
  <2>8. PollInv' /\ OwnerInv'
      BY <1>1 DEF IInv, PollInv, OwnerInv, FinishPlan, tableVars, pollVars
  <2>9. QED BY <2>1, <2>2, <2>3, <2>4, <2>5, <2>6, <2>7, <2>8 DEF IInv
<1>2. ASSUME NEW v \in DaemonVerdict, FinishEmptyPlan(n, v) PROVE IInv'
  <2>1. /\ work[n] \in Run /\ owner[work[n]] = n /\ status[work[n]] = "claimed"
        /\ Untouched(work[n])
        /\ \A m \in Daemon : m # n => work[m] # work[n]
        /\ \A h \in Poll : phase[h] = "reply" => pick[h] # work[n]
      BY <1>2, NoneIsNothing DEF IInv, TypeOK, DaemonInv, FreshInv, WorkInv,
          Working, FinishEmptyPlan
  <2>2. TypeOK'
      BY <1>2, <2>1 DEF IInv, TypeOK, DaemonVerdict, DaemonPhase, SealPhase,
          FinishEmptyPlan, StartSeal, NoFault, tableVars, pollVars
  <2>3. DaemonInv'
      BY <1>2, <2>1, NoneIsNothing DEF IInv, TypeOK, DaemonInv, Working,
          FinishEmptyPlan, StartSeal, tableVars, pollVars
  <2>4. FreshInv'
      BY <1>2, <2>1, NoneIsNothing DEF IInv, TypeOK, FreshInv, Untouched,
          FinishEmptyPlan, StartSeal, tableVars, pollVars
  <2>5. WorkInv'
      BY <1>2, <2>1, NoneIsNothing DEF IInv, TypeOK, WorkInv, Untouched,
          NoPatch, Working, FinishEmptyPlan, StartSeal, tableVars, pollVars,
          DaemonVerdict
  <2>6. EvidenceInv'
      BY <1>2, <2>1, BoundsAreNat DEF IInv, TypeOK, EvidenceInv,
          FinishEmptyPlan, StartSeal, tableVars, pollVars, Untouched
  <2>7. PatchInv'
      BY <1>2, <2>1 DEF IInv, TypeOK, PatchInv, Earned, FinishEmptyPlan,
          StartSeal, tableVars, pollVars, Untouched
  <2>8. PollInv' /\ OwnerInv'
      BY <1>2 DEF IInv, PollInv, OwnerInv, FinishEmptyPlan, StartSeal,
          tableVars, pollVars
  <2>9. QED BY <2>1, <2>2, <2>3, <2>4, <2>5, <2>6, <2>7, <2>8 DEF IInv
<1>3. ASSUME PlanThrows(n) PROVE IInv'
  <2>1. /\ pc[n] \in Working /\ status[work[n]] = "claimed" /\ NoPatch(work[n])
        /\ faults' \in 0..MaxFaults
    BY <1>3, BoundsAreNat DEF IInv, TypeOK, DaemonInv, WorkInv, Untouched,
        NoPatch, Working, PlanThrows, NoFault
  <2>2. QED BY <1>3, <2>1, ReportInv DEF DaemonVerdict, PlanThrows
<1>4. ASSUME UploadAccepted(n) PROVE IInv'
  <2>1. /\ work[n] \in Run /\ owner[work[n]] = n /\ status[work[n]] = "claimed"
        /\ NoPatch(work[n]) /\ seal[work[n]] = "none" /\ outcome[work[n]] # "none"
        /\ \A m \in Daemon : m # n => work[m] # work[n]
        /\ \A h \in Poll : phase[h] = "reply" => pick[h] # work[n]
      BY <1>4, NoneIsNothing DEF IInv, TypeOK, DaemonInv, FreshInv, WorkInv,
          Working, UploadAccepted
  <2>2. TypeOK'
      BY <1>4, <2>1 DEF IInv, TypeOK, DaemonPhase, SealPhase, UploadAccepted,
          StartSeal, NoFault, tableVars, pollVars
  <2>3. DaemonInv'
      BY <1>4, <2>1, NoneIsNothing DEF IInv, TypeOK, DaemonInv, Working,
          UploadAccepted, StartSeal, tableVars, pollVars
  <2>4. FreshInv'
      BY <1>4, <2>1, NoneIsNothing DEF IInv, TypeOK, FreshInv, Untouched,
          UploadAccepted, StartSeal, tableVars, pollVars
  <2>5. WorkInv'
      BY <1>4, <2>1, NoneIsNothing DEF IInv, TypeOK, WorkInv, Untouched,
          NoPatch, Working, UploadAccepted, StartSeal, tableVars, pollVars
  <2>6. EvidenceInv'
      BY <1>4, <2>1, BoundsAreNat DEF IInv, TypeOK, EvidenceInv,
          UploadAccepted, StartSeal, tableVars, pollVars
  <2>7. PatchInv'
      BY <1>4, <2>1 DEF IInv, TypeOK, PatchInv, Earned, UploadAccepted,
          StartSeal, tableVars, pollVars
  <2>8. PollInv' /\ OwnerInv'
      BY <1>4 DEF IInv, PollInv, OwnerInv, UploadAccepted, StartSeal,
          tableVars, pollVars
  <2>9. QED BY <2>1, <2>2, <2>3, <2>4, <2>5, <2>6, <2>7, <2>8 DEF IInv
<1>5. ASSUME UploadRefused(n) PROVE IInv'
  <2>1. /\ pc[n] \in Working /\ status[work[n]] = "claimed" /\ NoPatch(work[n])
        /\ faults' \in 0..MaxFaults
    BY <1>5, BoundsAreNat DEF IInv, TypeOK, DaemonInv, WorkInv, Untouched,
        NoPatch, Working, UploadRefused, NoFault
  <2>2. QED BY <1>5, <2>1, ReportInv DEF DaemonVerdict, UploadRefused
<1>6. ASSUME UploadBreaks(n) PROVE IInv'
  <2>1. /\ pc[n] \in Working /\ status[work[n]] = "claimed" /\ NoPatch(work[n])
        /\ faults' \in 0..MaxFaults
    BY <1>6, BoundsAreNat DEF IInv, TypeOK, DaemonInv, WorkInv, Untouched,
        NoPatch, Working, UploadBreaks, Fault
  <2>2. QED BY <1>6, <2>1, ReportInv DEF DaemonVerdict, UploadBreaks
<1>7. ASSUME SealAccepted(n) PROVE IInv'
  <2>1. /\ pc[n] \in Working /\ status[work[n]] = "claimed" /\ NoPatch(work[n])
        /\ faults' \in 0..MaxFaults
        /\ outcome[work[n]] \in DaemonVerdict
        /\ outcome[work[n]] = "passed" => Earned(work[n])
    BY <1>7, BoundsAreNat DEF IInv, TypeOK, DaemonInv, WorkInv, Untouched,
        NoPatch, Working, Earned, SealAccepted, NoFault
  <2>2. QED BY <1>7, <2>1, ReportInv DEF SealAccepted
<1>8. ASSUME SealRefused(n) PROVE IInv'
  <2>1. /\ pc[n] \in Working /\ status[work[n]] = "claimed" /\ NoPatch(work[n])
        /\ faults' \in 0..MaxFaults
    BY <1>8, BoundsAreNat DEF IInv, TypeOK, DaemonInv, WorkInv, Untouched,
        NoPatch, Working, SealRefused, NoFault
  <2>2. QED BY <1>8, <2>1, ReportInv DEF DaemonVerdict, SealRefused
<1>9. ASSUME SealBreaks(n) PROVE IInv'
  <2>1. /\ pc[n] \in Working /\ status[work[n]] = "claimed" /\ NoPatch(work[n])
        /\ faults' \in 0..MaxFaults
    BY <1>9, BoundsAreNat DEF IInv, TypeOK, DaemonInv, WorkInv, Untouched,
        NoPatch, Working, SealBreaks, Fault
  <2>2. QED BY <1>9, <2>1, ReportInv DEF DaemonVerdict, SealBreaks
<1>10. ASSUME ReportReturns(n) PROVE IInv'
  <2>1. TypeOK'
      BY <1>10 DEF IInv, TypeOK, DaemonPhase, ReportReturns, EndWork, InFlight,
          NoFault, tableVars, pollVars, evidenceVars
  <2>2. DaemonInv'
      BY <1>10, NoneIsNothing DEF IInv, TypeOK, DaemonInv, Working,
          ReportReturns, EndWork, InFlight, tableVars, pollVars, evidenceVars
  <2>3. FreshInv'
      BY <1>10, NoneIsNothing DEF IInv, TypeOK, FreshInv, Untouched,
          ReportReturns, EndWork, InFlight, tableVars, pollVars, evidenceVars
  <2>4. WorkInv'
      BY <1>10, NoneIsNothing DEF IInv, TypeOK, WorkInv, Untouched, NoPatch,
          Working, ReportReturns, EndWork, InFlight, tableVars, pollVars,
          evidenceVars
  <2>5. PollInv' /\ EvidenceInv' /\ PatchInv' /\ OwnerInv'
      BY <1>10 DEF IInv, PollInv, EvidenceInv, PatchInv, OwnerInv, Earned,
          ReportReturns, EndWork, tableVars, pollVars, evidenceVars
  <2>6. QED BY <2>1, <2>2, <2>3, <2>4, <2>5 DEF IInv
<1>11. ASSUME ReportBreaks(n) PROVE IInv'
  <2>1. TypeOK'
      BY <1>11, BoundsAreNat DEF IInv, TypeOK, DaemonPhase, ReportBreaks,
          EndWork, InFlight, Fault, tableVars, pollVars, evidenceVars
  <2>2. DaemonInv'
      BY <1>11, NoneIsNothing DEF IInv, TypeOK, DaemonInv, Working,
          ReportBreaks, EndWork, InFlight, tableVars, pollVars, evidenceVars
  <2>3. FreshInv'
      BY <1>11, NoneIsNothing DEF IInv, TypeOK, FreshInv, Untouched,
          ReportBreaks, EndWork, InFlight, tableVars, pollVars, evidenceVars
  <2>4. WorkInv'
      BY <1>11, NoneIsNothing DEF IInv, TypeOK, WorkInv, Untouched, NoPatch,
          Working, ReportBreaks, EndWork, InFlight, tableVars, pollVars,
          evidenceVars
  <2>5. PollInv' /\ EvidenceInv' /\ PatchInv' /\ OwnerInv'
      BY <1>11 DEF IInv, PollInv, EvidenceInv, PatchInv, OwnerInv, Earned,
          ReportBreaks, EndWork, tableVars, pollVars, evidenceVars
  <2>6. QED BY <2>1, <2>2, <2>3, <2>4, <2>5 DEF IInv
<1>12. QED BY <1>1, <1>2, <1>3, <1>4, <1>5, <1>6, <1>7, <1>8, <1>9, <1>10, <1>11

\* ... and the control plane serving the requests about a run ...
LEMMA RequestStepInv ==
  ASSUME IInv, NEW r \in Run, RequestStep(r)
  PROVE  IInv'
<1>1. ASSUME BeginIngest(r) PROVE IInv'
  <2>1. TypeOK'
      BY <1>1 DEF IInv, TypeOK, IngestPhase, BeginIngest, Authorized, NoFault,
          tableVars, pollVars, daemonVars
  <2>2. FreshInv'
      BY <1>1, NoneIsNothing DEF IInv, TypeOK, FreshInv, Untouched,
          BeginIngest, Authorized, tableVars, pollVars, daemonVars
  <2>3. WorkInv'
      BY <1>1, NoneIsNothing DEF IInv, TypeOK, WorkInv, Untouched, NoPatch,
          Working, BeginIngest, Authorized, tableVars, pollVars, daemonVars
  <2>4. EvidenceInv'
      BY <1>1, BoundsAreNat DEF IInv, TypeOK, EvidenceInv, BeginIngest,
          Authorized, tableVars, pollVars, daemonVars
  <2>5. PollInv' /\ DaemonInv' /\ PatchInv' /\ OwnerInv'
      BY <1>1 DEF IInv, PollInv, DaemonInv, PatchInv, OwnerInv, Working,
          Earned, BeginIngest, tableVars, pollVars, daemonVars
  <2>6. QED BY <2>1, <2>2, <2>3, <2>4, <2>5 DEF IInv
<1>2. ASSUME InsertEvent(r) PROVE IInv'
  <2>1. stored[r] + 1 \in 0..MaxBatch
      BY <1>2, BoundsAreNat DEF IInv, TypeOK, EvidenceInv, InsertEvent
  <2>2. TypeOK'
      BY <1>2, <2>1, BoundsAreNat DEF IInv, TypeOK, IngestPhase, InsertEvent,
          NoFault, tableVars, pollVars, daemonVars
  <2>3. FreshInv'
      BY <1>2, NoneIsNothing DEF IInv, TypeOK, FreshInv, Untouched,
          InsertEvent, tableVars, pollVars, daemonVars
  <2>4. WorkInv'
      BY <1>2, NoneIsNothing DEF IInv, TypeOK, WorkInv, Untouched, NoPatch,
          Working, InsertEvent, tableVars, pollVars, daemonVars
  <2>5. EvidenceInv'
      BY <1>2, BoundsAreNat DEF IInv, TypeOK, EvidenceInv, InsertEvent,
          tableVars, pollVars, daemonVars
  <2>6. PollInv' /\ DaemonInv' /\ PatchInv' /\ OwnerInv'
      BY <1>2 DEF IInv, PollInv, DaemonInv, PatchInv, OwnerInv, Working,
          Earned, InsertEvent, tableVars, pollVars, daemonVars
  <2>7. QED BY <2>1, <2>2, <2>3, <2>4, <2>5, <2>6 DEF IInv
<1>3. ASSUME IngestFails(r) PROVE IInv'
  <2>1. TypeOK'
      BY <1>3, BoundsAreNat DEF IInv, TypeOK, IngestPhase, IngestFails, Fault,
          tableVars, pollVars, daemonVars
  <2>2. FreshInv'
      BY <1>3, NoneIsNothing DEF IInv, TypeOK, FreshInv, Untouched,
          IngestFails, tableVars, pollVars, daemonVars
  <2>3. WorkInv'
      BY <1>3, NoneIsNothing DEF IInv, TypeOK, WorkInv, Untouched, NoPatch,
          Working, IngestFails, tableVars, pollVars, daemonVars
  <2>4. EvidenceInv'
      BY <1>3, BoundsAreNat DEF IInv, TypeOK, EvidenceInv, IngestFails,
          tableVars, pollVars, daemonVars
  <2>5. PollInv' /\ DaemonInv' /\ PatchInv' /\ OwnerInv'
      BY <1>3 DEF IInv, PollInv, DaemonInv, PatchInv, OwnerInv, Working,
          Earned, IngestFails, tableVars, pollVars, daemonVars
  <2>6. QED BY <2>1, <2>2, <2>3, <2>4, <2>5 DEF IInv
<1>4. ASSUME BuildManifest(r) PROVE IInv'
  <2>1. TypeOK'
      BY <1>4, BoundsAreNat DEF IInv, TypeOK, SealPhase, BuildManifest,
          Authorized, NoFault, tableVars, pollVars, daemonVars
  <2>2. FreshInv'
      BY <1>4, NoneIsNothing DEF IInv, TypeOK, FreshInv, Untouched,
          BuildManifest, Authorized, tableVars, pollVars, daemonVars
  <2>3. WorkInv'
      BY <1>4, NoneIsNothing DEF IInv, TypeOK, WorkInv, Untouched, NoPatch,
          Working, BuildManifest, Authorized, tableVars, pollVars, daemonVars
  <2>4. EvidenceInv'
      BY <1>4, BoundsAreNat DEF IInv, TypeOK, EvidenceInv, BuildManifest,
          Authorized, tableVars, pollVars, daemonVars
  <2>5. PatchInv'
      BY <1>4 DEF IInv, TypeOK, PatchInv, Earned, BuildManifest, Authorized,
          tableVars, pollVars, daemonVars
  <2>6. PollInv' /\ DaemonInv' /\ OwnerInv'
      BY <1>4 DEF IInv, PollInv, DaemonInv, OwnerInv, Working, BuildManifest,
          tableVars, pollVars, daemonVars
  <2>7. QED BY <2>1, <2>2, <2>3, <2>4, <2>5, <2>6 DEF IInv
<1>5. ASSUME WriteManifest(r) PROVE IInv'
  <2>1. TypeOK'
      BY <1>5, BoundsAreNat DEF IInv, TypeOK, Unsealed, SealPhase,
          WriteManifest, NoFault, tableVars, pollVars, daemonVars
  <2>2. FreshInv'
      BY <1>5, NoneIsNothing DEF IInv, TypeOK, FreshInv, Untouched,
          WriteManifest, tableVars, pollVars, daemonVars
  <2>3. WorkInv'
      BY <1>5, NoneIsNothing DEF IInv, TypeOK, WorkInv, Untouched, NoPatch,
          Working, WriteManifest, tableVars, pollVars, daemonVars
  <2>4. EvidenceInv'
      BY <1>5, BoundsAreNat DEF IInv, TypeOK, EvidenceInv, WriteManifest,
          tableVars, pollVars, daemonVars
  <2>5. PatchInv'
      BY <1>5 DEF IInv, TypeOK, PatchInv, Earned, WriteManifest, tableVars,
          pollVars, daemonVars
  <2>6. PollInv' /\ DaemonInv' /\ OwnerInv'
      BY <1>5 DEF IInv, PollInv, DaemonInv, OwnerInv, Working, WriteManifest,
          tableVars, pollVars, daemonVars
  <2>7. QED BY <2>1, <2>2, <2>3, <2>4, <2>5, <2>6 DEF IInv
<1>6. ASSUME SealFails(r) PROVE IInv'
  <2>1. TypeOK'
      BY <1>6, BoundsAreNat DEF IInv, TypeOK, SealPhase, SealFails, Fault,
          tableVars, pollVars, daemonVars
  <2>2. FreshInv'
      BY <1>6, NoneIsNothing DEF IInv, TypeOK, FreshInv, Untouched, SealFails,
          tableVars, pollVars, daemonVars
  <2>3. WorkInv'
      BY <1>6, NoneIsNothing DEF IInv, TypeOK, WorkInv, Untouched, NoPatch,
          Working, SealFails, tableVars, pollVars, daemonVars
  <2>4. EvidenceInv'
      BY <1>6, BoundsAreNat DEF IInv, TypeOK, EvidenceInv, SealFails,
          tableVars, pollVars, daemonVars
  <2>5. PatchInv'
      BY <1>6 DEF IInv, TypeOK, PatchInv, Earned, SealFails, tableVars,
          pollVars, daemonVars
  <2>6. PollInv' /\ DaemonInv' /\ OwnerInv'
      BY <1>6 DEF IInv, PollInv, DaemonInv, OwnerInv, Working, SealFails,
          tableVars, pollVars, daemonVars
  <2>7. QED BY <2>1, <2>2, <2>3, <2>4, <2>5, <2>6 DEF IInv
<1>7. QED BY <1>1, <1>2, <1>3, <1>4, <1>5, <1>6 DEF RequestStep

\* ... and a status report that arrives or gets lost ...
LEMMA PatchStepInv ==
  ASSUME IInv, NEW p \in patches, PatchStep(p)
  PROVE  IInv'
<1>1. ASSUME ApplyPatch(p) PROVE IInv'
  <2>1. /\ p.run \in Run /\ p.status \in DaemonVerdict
        /\ status[p.run] = "claimed" /\ owner[p.run] = p.runner
        /\ \A q \in patches : q # p => q.run # p.run
        /\ p.status = "passed" => Earned(p.run)
        /\ \A h \in Poll : phase[h] = "reply" => pick[h] # p.run
      BY <1>1, NoneIsNothing DEF IInv, TypeOK, Patch, FreshInv, Untouched,
          PatchInv, ApplyPatch
  <2>2. TypeOK'
      BY <1>1, <2>1 DEF IInv, TypeOK, Patch, DaemonVerdict, Status,
          ClientStatus, ApplyPatch, UpdateStatus, NoFault, pollVars,
          evidenceVars, daemonVars
  <2>3. PollInv'
      BY <1>1, <2>1, NoneIsNothing DEF IInv, TypeOK, PollInv, ApplyPatch,
          UpdateStatus, pollVars, evidenceVars, daemonVars
  <2>4. FreshInv'
      BY <1>1, <2>1, NoneIsNothing DEF IInv, TypeOK, FreshInv, Untouched,
          ApplyPatch, UpdateStatus, pollVars, evidenceVars, daemonVars,
          DaemonVerdict
  <2>5. WorkInv'
      BY <1>1, <2>1, NoneIsNothing DEF IInv, TypeOK, WorkInv, Untouched,
          NoPatch, Working, ApplyPatch, UpdateStatus, pollVars, evidenceVars,
          daemonVars
  <2>6. PatchInv'
      BY <1>1, <2>1 DEF IInv, TypeOK, PatchInv, Earned, ApplyPatch,
          UpdateStatus, pollVars, evidenceVars, daemonVars
  <2>7. OwnerInv'
      BY <1>1, <2>1, RunnersDisjoint DEF IInv, TypeOK, OwnerInv, ApplyPatch,
          UpdateStatus, pollVars, evidenceVars, daemonVars, DaemonVerdict
  <2>8. DaemonInv' /\ EvidenceInv'
      BY <1>1 DEF IInv, DaemonInv, EvidenceInv, Working, ApplyPatch,
          UpdateStatus, pollVars, evidenceVars, daemonVars
  <2>9. QED BY <2>1, <2>2, <2>3, <2>4, <2>5, <2>6, <2>7, <2>8 DEF IInv
<1>2. ASSUME LosePatch(p) PROVE IInv'
  <2>1. TypeOK'
      BY <1>2, BoundsAreNat DEF IInv, TypeOK, Patch, DaemonVerdict, LosePatch,
          Fault, tableVars, pollVars, evidenceVars, daemonVars
  <2>2. FreshInv'
      BY <1>2, NoneIsNothing DEF IInv, TypeOK, FreshInv, Untouched, LosePatch,
          tableVars, pollVars, evidenceVars, daemonVars
  <2>3. WorkInv'
      BY <1>2, NoneIsNothing DEF IInv, TypeOK, WorkInv, Untouched, NoPatch,
          Working, LosePatch, tableVars, pollVars, evidenceVars, daemonVars
  <2>4. PatchInv'
      BY <1>2 DEF IInv, TypeOK, PatchInv, Earned, LosePatch, tableVars,
          pollVars, evidenceVars, daemonVars
  <2>5. PollInv' /\ DaemonInv' /\ EvidenceInv' /\ OwnerInv'
      BY <1>2 DEF IInv, PollInv, DaemonInv, EvidenceInv, OwnerInv, Working,
          LosePatch, tableVars, pollVars, evidenceVars, daemonVars
  <2>6. QED BY <2>1, <2>2, <2>3, <2>4, <2>5 DEF IInv
<1>3. QED BY <1>1, <1>2 DEF PatchStep

\* ... and the users of the API.
LEMMA OutsideStepInv ==
  ASSUME IInv, 
         \/ \E R \in SUBSET Run : CreateRuns(R)
         \/ \E n \in Runner : DeleteRunner(n)
         \/ \E c \in Client : ClientStep(c)
  PROVE  IInv'
<1>1. ASSUME NEW R \in SUBSET Run, CreateRuns(R) PROVE IInv'
  <2>1. /\ Cardinality(Created) \in Nat
        /\ \A r \in R : status[r] = "absent" /\ NoPatch(r)
      BY <1>1, RunsAreFinite, FS_Subset, FS_CardinalityType DEF IInv, FreshInv,
          Untouched, NoPatch, CreateRuns, Created
  <2>2. TypeOK'
      BY <1>1, <2>1 DEF IInv, TypeOK, Status, ClientStatus, CreateRuns,
          NoFault, pollVars, evidenceVars, daemonVars
  <2>3. PollInv'
      BY <1>1, <2>1, NoneIsNothing DEF IInv, TypeOK, PollInv, CreateRuns,
          Created, pollVars, evidenceVars, daemonVars
  <2>4. FreshInv'
      BY <1>1, <2>1, NoneIsNothing DEF IInv, TypeOK, FreshInv, Untouched,
          CreateRuns, Created, pollVars, evidenceVars, daemonVars
  <2>5. WorkInv'
      BY <1>1, <2>1, NoneIsNothing DEF IInv, TypeOK, WorkInv, Untouched,
          NoPatch, Working, CreateRuns, Created, pollVars, evidenceVars,
          daemonVars
  <2>6. PatchInv'
      BY <1>1, <2>1 DEF IInv, TypeOK, PatchInv, Earned, CreateRuns, pollVars,
          evidenceVars, daemonVars, NoPatch, Patch
  <2>7. OwnerInv'
      BY <1>1, RunnersDisjoint DEF IInv, TypeOK, OwnerInv, CreateRuns, Created,
          pollVars, evidenceVars, daemonVars
  <2>8. DaemonInv' /\ EvidenceInv'
      BY <1>1 DEF IInv, DaemonInv, EvidenceInv, Working, CreateRuns, pollVars,
          evidenceVars, daemonVars
  <2>9. QED BY <2>1, <2>2, <2>3, <2>4, <2>5, <2>6, <2>7, <2>8 DEF IInv
<1>2. ASSUME NEW n \in Runner, DeleteRunner(n) PROVE IInv'
  <2>1. TypeOK'
      BY <1>2, BoundsAreNat DEF IInv, TypeOK, Runner, DeleteRunner, Fault,
          tableVars, pollVars, evidenceVars, daemonVars
  <2>2. PollInv' /\ DaemonInv' /\ FreshInv' /\ WorkInv' /\ EvidenceInv' /\ PatchInv' /\ OwnerInv'
      BY <1>2 DEF IInv, PollInv, DaemonInv, FreshInv, WorkInv, EvidenceInv,
          PatchInv, OwnerInv, Working, Untouched, NoPatch, Earned,
          DeleteRunner, tableVars, pollVars, evidenceVars, daemonVars
  <2>3. QED BY <2>1, <2>2 DEF IInv
<1>3. ASSUME NEW c \in Client, NEW r \in Run, ClientClaim(c, r) PROVE IInv'
  <2>1. /\ status[r] = "pending" /\ Untouched(r)
        /\ \A n \in Daemon : work[n] # r
        /\ \A h \in Poll : pick[h] # r
      BY <1>3, NoneIsNothing DEF IInv, TypeOK, PollPhase, PollInv, FreshInv,
          Locked, ClientClaim
  <2>2. TypeOK'
      BY <1>3 DEF IInv, TypeOK, Runner, Status, ClientStatus, ClientClaim,
          Locked, NoFault, pollVars, evidenceVars, daemonVars
  <2>3. PollInv'
      BY <1>3, <2>1, NoneIsNothing DEF IInv, TypeOK, PollInv, ClientClaim,
          Locked, pollVars, evidenceVars, daemonVars
  <2>4. FreshInv'
      BY <1>3, <2>1, NoneIsNothing DEF IInv, TypeOK, FreshInv, Untouched,
          ClientClaim, Locked, pollVars, evidenceVars, daemonVars
  <2>5. WorkInv'
      BY <1>3, <2>1, NoneIsNothing DEF IInv, TypeOK, WorkInv, Untouched,
          NoPatch, Working, ClientClaim, Locked, pollVars, evidenceVars,
          daemonVars
  <2>6. PatchInv'
      BY <1>3, <2>1 DEF IInv, TypeOK, PatchInv, Earned, ClientClaim, pollVars,
          evidenceVars, daemonVars
  <2>7. OwnerInv'
      BY <1>3, <2>1, RunnersDisjoint DEF IInv, TypeOK, OwnerInv, ClientClaim,
          Locked, pollVars, evidenceVars, daemonVars, Runner
  <2>8. DaemonInv' /\ EvidenceInv'
      BY <1>3 DEF IInv, DaemonInv, EvidenceInv, Working, ClientClaim, pollVars,
          evidenceVars, daemonVars
  <2>9. QED BY <2>1, <2>2, <2>3, <2>4, <2>5, <2>6, <2>7, <2>8 DEF IInv
<1>4. ASSUME NEW c \in Client, NEW r \in Run, NEW s \in ClientStatus, ClientReport(c, r, s) PROVE IInv'
  <2>1. \/ status' = status
        \/ /\ owner[r] = c /\ status' = [status EXCEPT ![r] = s]
           /\ status[r] \notin {"absent", "pending"} /\ owner[r] \notin Daemon
           /\ \A n \in Daemon : work[n] # r
           /\ \A h \in Poll : pick[h] # r
           /\ NoPatch(r)
      BY <1>4, RunnersDisjoint, NoneIsNothing DEF IInv, TypeOK, PollPhase,
          Patch, PollInv, FreshInv, WorkInv, PatchInv, NoPatch, ClientReport,
          UpdateStatus
  <2>2. TypeOK'
      BY <1>4, <2>1 DEF IInv, TypeOK, Status, ClientStatus, ClientReport,
          UpdateStatus, NoFault, pollVars, evidenceVars, daemonVars
  <2>3. PollInv'
      BY <1>4, <2>1, NoneIsNothing DEF IInv, TypeOK, PollInv, ClientReport,
          UpdateStatus, pollVars, evidenceVars, daemonVars
  <2>4. FreshInv'
      BY <1>4, <2>1, NoneIsNothing DEF IInv, TypeOK, FreshInv, Untouched,
          ClientReport, UpdateStatus, pollVars, evidenceVars, daemonVars,
          ClientStatus
  <2>5. WorkInv'
      BY <1>4, <2>1, NoneIsNothing DEF IInv, TypeOK, WorkInv, Untouched,
          NoPatch, Working, ClientReport, UpdateStatus, pollVars, evidenceVars,
          daemonVars
  <2>6. PatchInv'
      BY <1>4, <2>1 DEF IInv, TypeOK, PatchInv, Earned, ClientReport,
          UpdateStatus, pollVars, evidenceVars, daemonVars, NoPatch
  <2>7. OwnerInv'
      BY <1>4, <2>1, RunnersDisjoint DEF IInv, TypeOK, OwnerInv, ClientReport,
          UpdateStatus, pollVars, evidenceVars, daemonVars
  <2>8. DaemonInv' /\ EvidenceInv'
      BY <1>4 DEF IInv, DaemonInv, EvidenceInv, Working, ClientReport,
          UpdateStatus, pollVars, evidenceVars, daemonVars
  <2>9. QED BY <2>1, <2>2, <2>3, <2>4, <2>5, <2>6, <2>7, <2>8 DEF IInv
<1>5. QED BY <1>1, <1>2, <1>3, <1>4 DEF ClientStep

-----------------------------------------------------------------------------
\* The inductive invariant holds in the initial state.
LEMMA InitInv == Init => IInv
<1> SUFFICES ASSUME Init PROVE IInv
  OBVIOUS
<1>1. TypeOK
  BY BoundsAreNat DEF Init, TypeOK, Status, PollPhase, IngestPhase, SealPhase,
      DaemonPhase, Patch
<1>2. PollInv /\ DaemonInv /\ WorkInv /\ OwnerInv
  BY NoneIsNothing DEF Init, PollInv, DaemonInv, WorkInv, OwnerInv, Working
<1>3. FreshInv
  BY NoneIsNothing DEF Init, FreshInv, Untouched
<1>4. EvidenceInv /\ PatchInv
  BY DEF Init, EvidenceInv, PatchInv
<1>5. QED BY <1>1, <1>2, <1>3, <1>4 DEF IInv

\* Every step preserves it.
LEMMA NextInv == IInv /\ [Next]_vars => IInv'
<1> SUFFICES ASSUME IInv, [Next]_vars PROVE IInv'
  OBVIOUS
<1>1. ASSUME NEW R \in SUBSET Run, CreateRuns(R) PROVE IInv'
  BY <1>1, OutsideStepInv
<1>2. ASSUME NEW h \in Poll, PollStep(h) PROVE IInv'
  BY <1>2, PollStepInv
<1>3. ASSUME NEW n \in Daemon, DaemonStep(n) PROVE IInv'
  BY <1>3, PollingDaemonInv, WorkingDaemonInv DEF DaemonStep
<1>4. ASSUME NEW r \in Run, RequestStep(r) PROVE IInv'
  BY <1>4, RequestStepInv
<1>5. ASSUME NEW p \in patches, PatchStep(p) PROVE IInv'
  BY <1>5, PatchStepInv
<1>6. ASSUME NEW n \in Runner, DeleteRunner(n) PROVE IInv'
  BY <1>6, OutsideStepInv
<1>7. ASSUME NEW c \in Client, ClientStep(c) PROVE IInv'
  BY <1>7, OutsideStepInv
<1>8. CASE UNCHANGED vars
  <2>1. TypeOK'
    BY <1>8 DEF IInv, TypeOK, Patch, vars, tableVars, pollVars, evidenceVars,
        daemonVars
  <2>2. PollInv' /\ DaemonInv' /\ EvidenceInv' /\ OwnerInv'
    BY <1>8 DEF IInv, PollInv, DaemonInv, EvidenceInv, OwnerInv, vars,
        tableVars, pollVars, evidenceVars, daemonVars
  <2>3. FreshInv' /\ WorkInv' /\ PatchInv'
    BY <1>8 DEF IInv, FreshInv, WorkInv, PatchInv, Untouched, NoPatch, Earned,
        vars, tableVars, pollVars, evidenceVars, daemonVars
  <2>4. QED BY <2>1, <2>2, <2>3 DEF IInv
<1>9. QED BY <1>1, <1>2, <1>3, <1>4, <1>5, <1>6, <1>7, <1>8 DEF Next

\* The inductive invariant holds throughout, with faults wherever they strike.
THEOREM Invariance == Spec => []IInv
<1>1. QED BY InitInv, NextInv, PTL DEF Spec

\* Every variable keeps its type: in particular no run ever stores more events
\* than MaxBatch and only known statuses are written.
THEOREM TypeCorrect == Spec => []TypeOK
<1>1. IInv => TypeOK
  BY DEF IInv
<1>2. QED BY <1>1, Invariance, PTL

\* claimNextRun and claimRun never hand one run to two holders, and every
\* request about a run comes from its owner.
THEOREM OneHolderAlways == Spec => []OneHolder
<1>1. IInv => OneHolder
  <2> SUFFICES ASSUME IInv PROVE OneHolder
    OBVIOUS
  <2>1. \A n \in Daemon : work[n] # None => owner[work[n]] = n
    BY DEF IInv, WorkInv
  <2>2. QED BY <2>1 DEF IInv, PollInv, FreshInv, OneHolder
<1>2. QED BY <1>1, Invariance, PTL

\* No run is executed twice: what a daemon starts on is untouched.
THEOREM FreshExecutionAlways == Spec => []FreshExecution
<1>1. IInv => FreshExecution
  BY DEF IInv, DaemonInv, WorkInv, Working, FreshExecution
<1>2. QED BY <1>1, Invariance, PTL

\* A manifest covers all the events of its run, from when it is written on.
THEOREM ManifestCompleteAlways == Spec => []ManifestComplete
<1>1. IInv => ManifestComplete
  BY DEF IInv, EvidenceInv, ManifestComplete
<1>2. QED BY <1>1, Invariance, PTL

\* A daemon's verdict 'passed' is backed by complete, sealed evidence.
THEOREM PassedHasEvidenceAlways == Spec => []PassedHasEvidence
<1>1. IInv => PassedHasEvidence
  BY DEF IInv, EvidenceInv, PatchInv, Earned, PassedHasEvidence
<1>2. QED BY <1>1, Invariance, PTL

-----------------------------------------------------------------------------
\* The steps that write runs.status, and the run they write.
LEMMA StatusWrites ==
  ASSUME IInv, [Next]_vars, NEW r \in Run, status'[r] # status[r]
  PROVE  \/ \E R \in SUBSET Run : CreateRuns(R) /\ r \in R
         \/ \E h \in Poll : ClaimSelected(h) /\ pick[h] = r
         \/ \E p \in patches : ApplyPatch(p) /\ p.run = r
         \/ \E c \in Client : ClientClaim(c, r)
         \/ \E c \in Client, s \in ClientStatus : ClientReport(c, r, s)
<1>1. status \in [Run -> Status]
  BY DEF IInv, TypeOK
<1>2. ASSUME NEW R \in SUBSET Run, CreateRuns(R) PROVE r \in R
  BY <1>1, <1>2 DEF CreateRuns
<1>3. ASSUME NEW h \in Poll, PollStep(h) PROVE ClaimSelected(h) /\ pick[h] = r
  BY <1>1, <1>3 DEF PollStep, SelectPending, SelectNothing, ClaimSelected,
      PollExpires, PollFails, DropReply, tableVars
<1>4. ASSUME NEW n \in Daemon, DaemonStep(n) PROVE FALSE
  BY <1>4 DEF DaemonStep, OpenPoll, ReceiveRun, ReceiveNothing, PollBreaks,
      FinishPlan, FinishEmptyPlan, PlanThrows, UploadAccepted, UploadRefused,
      UploadBreaks, SealAccepted, SealRefused, SealBreaks, ReportReturns,
      ReportBreaks, Crash, Restart, tableVars
<1>5. ASSUME NEW q \in Run, RequestStep(q) PROVE FALSE
  BY <1>5 DEF RequestStep, BeginIngest, InsertEvent, IngestFails,
      BuildManifest, WriteManifest, SealFails, tableVars
<1>6. ASSUME NEW p \in patches, PatchStep(p) PROVE ApplyPatch(p) /\ p.run = r
  BY <1>1, <1>6 DEF PatchStep, ApplyPatch, LosePatch, UpdateStatus, tableVars
<1>7. ASSUME NEW n \in Runner, DeleteRunner(n) PROVE FALSE
  BY <1>7 DEF DeleteRunner, tableVars
<1>8. ASSUME NEW c \in Client, ClientStep(c)
      PROVE  \/ ClientClaim(c, r)
             \/ \E s \in ClientStatus : ClientReport(c, r, s)
  BY <1>1, <1>8 DEF ClientStep, ClientClaim, ClientReport, UpdateStatus
<1>9. CASE UNCHANGED vars
  BY <1>9 DEF vars, tableVars
<1>10. QED
  BY <1>2, <1>3, <1>4, <1>5, <1>6, <1>7, <1>8, <1>9 DEF Next

\* The verdict of a run handled by daemons is never overwritten.
THEOREM VerdictIsFinalAlways == Spec => VerdictIsFinal
<1>1. ASSUME IInv, [Next]_vars, NEW r \in Run,
             status[r] \in Terminal, owner[r] \in Daemon
      PROVE  status'[r] = status[r]
  <2> SUFFICES ASSUME status'[r] # status[r] PROVE FALSE
    OBVIOUS
  <2>1. ASSUME NEW R \in SUBSET Run, CreateRuns(R), r \in R PROVE FALSE
    BY <1>1, <2>1 DEF CreateRuns, Created, Terminal
  <2>2. ASSUME NEW h \in Poll, ClaimSelected(h), pick[h] = r PROVE FALSE
    BY <1>1, <2>2 DEF IInv, PollInv, ClaimSelected, Terminal
  <2>3. ASSUME NEW p \in patches, ApplyPatch(p), p.run = r PROVE FALSE
    BY <1>1, <2>3 DEF IInv, PatchInv, Terminal
  <2>4. ASSUME NEW c \in Client, ClientClaim(c, r) PROVE FALSE
    BY <1>1, <2>4 DEF ClientClaim, Terminal
  <2>5. ASSUME NEW c \in Client, NEW s \in ClientStatus, ClientReport(c, r, s)
        PROVE  FALSE
    BY <1>1, <2>5, RunnersDisjoint DEF ClientReport, UpdateStatus
  <2>6. QED BY <1>1, <2>1, <2>2, <2>3, <2>4, <2>5, StatusWrites
<1>2. IInv /\ [Next]_vars =>
        [\A r \in Run : status[r] \in Terminal /\ owner[r] \in Daemon =>
                          status'[r] = status[r]]_vars
  BY <1>1
<1>3. QED BY <1>2, Invariance, PTL DEF Spec, VerdictIsFinal

-----------------------------------------------------------------------------
\* What the abstract state of a run is, with no API-driven runner around.
LEMMA AbstractStates ==
  ASSUME Client = {}, IInv, NEW r \in Run
  PROVE  /\ status[r] \in {"absent", "pending", "claimed", "passed", "failed"}
         /\ status[r] \notin {"absent", "pending"} => owner[r] \in Daemon
         /\ status[r] = "pending" <=> AbstractState(r) = "queued"
         /\ status[r] = "claimed" <=> AbstractState(r) = "held"
         /\ status[r] \notin {"pending", "claimed"} => AbstractState(r) = status[r]
<1>1. /\ status[r] \in {"absent", "pending", "claimed", "passed", "failed"}
      /\ status[r] \notin {"absent", "pending"} => owner[r] \in Daemon
  BY DEF IInv, OwnerInv, Runner, DaemonVerdict
<1>2. QED BY <1>1 DEF AbstractState

\* A step of the protocol is a step of the abstract dispatch or changes
\* nothing it sees.
LEMMA StepRefines ==
  ASSUME Client = {}, IInv, IInv', [Next]_vars
  PROVE  [Dispatch!Next]_(Dispatch!vars)
<1> DEFINE st == [r \in Run |-> AbstractState(r)]
           sd == {r \in Run : manifest[r] # Unsealed}
<1>1. \A r \in Run : status'[r] = status[r] => AbstractState(r)' = AbstractState(r)
  BY DEF AbstractState
<1>2. ASSUME NEW R \in SUBSET Run, CreateRuns(R) PROVE Dispatch!Queue(R)
  <2>1. owner' = owner /\ sd' = sd
    BY <1>2 DEF CreateRuns, evidenceVars
  <2>2. \A r \in R : AbstractState(r) = "absent" /\ AbstractState(r)' = "queued"
    BY <1>2 DEF CreateRuns, Created, AbstractState
  <2>3. \A r \in Run \ R : AbstractState(r)' = AbstractState(r)
    BY <1>1, <1>2 DEF CreateRuns
  <2>4. R # {}
    BY <1>2 DEF CreateRuns
  <2>5. QED BY <2>1, <2>2, <2>3, <2>4 DEF Dispatch!Queue
<1>3. ASSUME NEW h \in Poll, ClaimSelected(h)
      PROVE  Dispatch!Grant(pick[h], asker[h]) /\ pick[h] \in Run /\ asker[h] \in Runner
  <2>1. /\ pick[h] \in Run /\ asker[h] \in Daemon /\ status[pick[h]] = "pending"
        /\ status' = [status EXCEPT ![pick[h]] = "claimed"]
        /\ owner' = [owner EXCEPT ![pick[h]] = asker[h]]
        /\ sd' = sd
    BY <1>3 DEF IInv, PollInv, ClaimSelected, evidenceVars
  <2>2. /\ status'[pick[h]] = "claimed"
        /\ \A r \in Run : r # pick[h] => status'[r] = status[r]
    BY <2>1 DEF IInv, TypeOK
  <2>3. /\ st[pick[h]] = "queued"
        /\ st' = [st EXCEPT ![pick[h]] = "held"]
    BY <2>1, <2>2, <1>1 DEF AbstractState
  <2>4. QED BY <2>1, <2>2, <2>3 DEF Dispatch!Grant, Runner
<1>4. ASSUME NEW p \in patches, ApplyPatch(p), status' # status
      PROVE  p.run \in Run /\ (Dispatch!Pass(p.run) \/ Dispatch!Fail(p.run))
  <2>1. /\ p.run \in Run /\ p.status \in DaemonVerdict /\ status[p.run] = "claimed"
        /\ p.status = "passed" => p.run \in sd
        /\ status' = [status EXCEPT ![p.run] = p.status]
        /\ owner' = owner /\ sd' = sd
    BY <1>4, BoundsAreNat DEF IInv, TypeOK, Patch, PatchInv, EvidenceInv, Earned,
        Unsealed, ApplyPatch, UpdateStatus, evidenceVars
  <2>2. /\ AbstractState(p.run) = "held" /\ AbstractState(p.run)' = p.status
        /\ \A r \in Run \ {p.run} : AbstractState(r)' = AbstractState(r)
    BY <2>1, <1>1 DEF AbstractState, DaemonVerdict, IInv, TypeOK
  <2>3. st' = [st EXCEPT ![p.run] = p.status]
    BY <2>1, <2>2
  <2>4. QED BY <2>1, <2>2, <2>3 DEF Dispatch!Pass, Dispatch!Fail, DaemonVerdict
<1>5. ASSUME NEW r \in Run, WriteManifest(r) PROVE Dispatch!Seal(r)
  <2>1. /\ manifest[r] = Unsealed /\ built[r] # Unsealed
        /\ manifest' = [manifest EXCEPT ![r] = built[r]]
        /\ status' = status /\ owner' = owner
    <3>1. manifest[r] = Unsealed /\ built[r] # Unsealed
      BY <1>5, BoundsAreNat DEF IInv, TypeOK, EvidenceInv, Unsealed, WriteManifest
    <3>2. QED BY <1>5, <3>1 DEF WriteManifest, tableVars
  <2>2. sd' = sd \cup {r} /\ r \notin sd
    BY <2>1 DEF IInv, TypeOK
  <2>3. status[r] \in {"claimed", "failed"}
    BY <1>5, AbstractStates DEF WriteManifest, IInv, FreshInv, Untouched,
        PatchInv, Earned
  <2>4. AbstractState(r) \in {"held", "failed"} /\ st' = st
    BY <2>1, <2>3, <1>1, AbstractStates
  <2>5. QED BY <2>1, <2>2, <2>4 DEF Dispatch!Seal
<1>6. ASSUME UNCHANGED <<status, owner, manifest>> PROVE UNCHANGED Dispatch!vars
  BY <1>6, <1>1 DEF Dispatch!vars
<1>7. ASSUME NEW h \in Poll, PollStep(h), ~ClaimSelected(h)
      PROVE  UNCHANGED <<status, owner, manifest>>
  BY <1>7 DEF PollStep, SelectPending, SelectNothing, PollExpires, PollFails,
      DropReply, tableVars, evidenceVars
<1>8. ASSUME NEW n \in Daemon, DaemonStep(n)
      PROVE  UNCHANGED <<status, owner, manifest>>
  BY <1>8 DEF DaemonStep, OpenPoll, ReceiveRun, ReceiveNothing, PollBreaks,
      FinishPlan, FinishEmptyPlan, PlanThrows, UploadAccepted, UploadRefused,
      UploadBreaks, SealAccepted, SealRefused, SealBreaks, ReportReturns,
      ReportBreaks, Crash, Restart, tableVars, evidenceVars
<1>9. ASSUME NEW r \in Run, RequestStep(r), ~WriteManifest(r)
      PROVE  UNCHANGED <<status, owner, manifest>>
  BY <1>9 DEF RequestStep, BeginIngest, InsertEvent, IngestFails, BuildManifest,
      SealFails, tableVars
<1>10. ASSUME NEW p \in patches, PatchStep(p), ~(ApplyPatch(p) /\ status' # status)
       PROVE  UNCHANGED <<status, owner, manifest>>
  BY <1>10 DEF PatchStep, ApplyPatch, LosePatch, tableVars, evidenceVars
<1>11. ASSUME NEW n \in Runner, DeleteRunner(n)
       PROVE  UNCHANGED <<status, owner, manifest>>
  BY <1>11 DEF DeleteRunner, tableVars, evidenceVars
<1>12. CASE UNCHANGED vars
  BY <1>6, <1>12 DEF vars, tableVars, evidenceVars
<1>13. QED
  BY <1>2, <1>3, <1>4, <1>5, <1>6, <1>7, <1>8, <1>9, <1>10, <1>11, <1>12
      DEF Next, Dispatch!Next

\* Without API-driven runners the lease protocol implements RunDispatch: a run
\* is granted once, gets one verdict from its holder, and passes only sealed.
THEOREM LeaseImplementsDispatch ==
  ASSUME Client = {} PROVE Spec => ImplementsDispatch
<1>1. Init => Dispatch!Init
  BY DEF Init, Dispatch!Init, AbstractState
<1>2. IInv /\ IInv' /\ [Next]_vars => [Dispatch!Next]_(Dispatch!vars)
  BY StepRefines
<1>3. QED BY <1>1, <1>2, Invariance, PTL DEF Spec, ImplementsDispatch, Dispatch!Spec
=============================================================================
