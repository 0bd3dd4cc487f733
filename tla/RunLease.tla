------------------------------ MODULE RunLease ------------------------------
(***************************************************************************)
(* The run lease protocol: the control plane's runs table and its claim,   *)
(* event, manifest and status endpoints, the long polls it has open, and   *)
(* the runner daemons that poll, execute, upload and report.               *)
(*                                                                         *)
(* A step is one database statement or transaction, one message, or one    *)
(* stretch of a daemon between two awaits.  Between SELECT and UPDATE the  *)
(* claim transaction holds a row lock, so it is two steps.  Requests of a  *)
(* daemon outlive it: the control plane finishes what it has received.     *)
(***************************************************************************)
EXTENDS Integers, FiniteSets

CONSTANTS
  Run,        \* runs of one workspace
  Daemon,     \* runner daemons (apps/runner), each with its own identity
  Client,     \* runner identities driven by hand through the HTTP API
  Poll,       \* long-poll handlers the control plane can have open
  None,       \* no run, no runner, no poll
  MaxBatch,   \* most step events one execution produces
  MaxFaults   \* bound on crashes, lost messages and failed statements

ASSUME RunnersDisjoint == Daemon \cap Client = {}
ASSUME NoneIsNothing == None \notin Run \cup Daemon \cup Client \cup Poll
ASSUME RunsAreFinite == IsFiniteSet(Run)
ASSUME BoundsAreNat == MaxBatch \in Nat /\ MaxFaults \in Nat

Runner == Daemon \cup Client

VARIABLES
  status,    \* runs.status
  owner,     \* runs.runner_id
  stamp,     \* runs.created_at: equal for the runs of one transaction
  tokens,    \* runner_tokens: the runners that can authenticate
  phase,     \* phase[h]: where the handler of poll h is
  asker,     \* asker[h]: the runner poll h was authenticated for
  pick,      \* pick[h]: the run locked, then returned, by poll h
  ingest,    \* ingest[r]: the POST .../events request of run r
  produced,  \* produced[r]: events in that request
  stored,    \* stored[r]: step_events rows of run r
  outcome,   \* outcome[r]: what executing the plan of r concluded
  seal,      \* seal[r]: the POST .../evidence-manifest request of r
  built,     \* built[r]: rows that request has read
  manifest,  \* manifest[r]: event_count of the manifest row, or Unsealed
  patches,   \* PATCH .../runs/:id requests in flight
  pc,        \* pc[n]: what daemon n is doing
  work,      \* work[n]: the run daemon n is executing
  call,      \* call[n]: the poll daemon n is waiting for
  faults     \* faults so far

tableVars    == <<status, owner, stamp>>
pollVars     == <<phase, asker, pick>>
evidenceVars == <<ingest, produced, stored, outcome, seal, built, manifest>>
daemonVars   == <<pc, work, call>>
vars == <<tableVars, tokens, pollVars, evidenceVars, patches, daemonVars, faults>>

-----------------------------------------------------------------------------
(* Values.                                                                 *)

Unsealed == -1

\* What PATCH accepts is any string; these are the ones runners send.
DaemonVerdict == {"passed", "failed"}
ClientStatus  == {"running", "passed", "failed", "cancelled"}
Status        == {"absent", "pending", "claimed"} \cup ClientStatus
Terminal      == {"passed", "failed", "cancelled"}

PollPhase   == {"free", "querying", "waiting", "locked", "reply"}
IngestPhase == {"none", "sent", "running", "done", "stopped"}
SealPhase   == {"none", "sent", "building", "done", "stopped"}
DaemonPhase == {"down", "idle", "polling", "executing", "uploading",
                "sealing", "reporting"}
Patch       == [run : Run, runner : Daemon, status : DaemonVerdict]

TypeOK ==
  /\ status \in [Run -> Status]
  /\ owner \in [Run -> Runner \cup {None}]
  /\ stamp \in [Run -> Nat]
  /\ tokens \subseteq Runner
  /\ phase \in [Poll -> PollPhase]
  /\ asker \in [Poll -> Daemon \cup {None}]
  /\ pick \in [Poll -> Run \cup {None}]
  /\ ingest \in [Run -> IngestPhase]
  /\ produced \in [Run -> 0..MaxBatch]
  /\ stored \in [Run -> 0..MaxBatch]
  /\ outcome \in [Run -> DaemonVerdict \cup {"none"}]
  /\ seal \in [Run -> SealPhase]
  /\ built \in [Run -> 0..MaxBatch]
  /\ manifest \in [Run -> 0..MaxBatch \cup {Unsealed}]
  /\ patches \subseteq Patch
  /\ pc \in [Daemon -> DaemonPhase]
  /\ work \in [Daemon -> Run \cup {None}]
  /\ call \in [Daemon -> Poll \cup {None}]
  /\ faults \in 0..MaxFaults

Init ==
  /\ status = [r \in Run |-> "absent"]
  /\ owner = [r \in Run |-> None]
  /\ stamp = [r \in Run |-> 0]
  /\ tokens = Runner
  /\ phase = [h \in Poll |-> "free"]
  /\ asker = [h \in Poll |-> None]
  /\ pick = [h \in Poll |-> None]
  /\ ingest = [r \in Run |-> "none"]
  /\ produced = [r \in Run |-> 0]
  /\ stored = [r \in Run |-> 0]
  /\ outcome = [r \in Run |-> "none"]
  /\ seal = [r \in Run |-> "none"]
  /\ built = [r \in Run |-> 0]
  /\ manifest = [r \in Run |-> Unsealed]
  /\ patches = {}
  /\ pc = [n \in Daemon |-> "idle"]
  /\ work = [n \in Daemon |-> None]
  /\ call = [n \in Daemon |-> None]
  /\ faults = 0

Fault == faults < MaxFaults /\ faults' = faults + 1
NoFault == UNCHANGED faults

-----------------------------------------------------------------------------
(* The runs table: insertion, and the claim of a polled run.               *)

Created == {r \in Run : status[r] # "absent"}

\* One transaction inserts R: a single run from the API, several from a
\* schedule.  They become visible together with the transaction's now().
CreateRuns(R) ==
  /\ R # {} /\ R \cap Created = {}
  /\ status' = [r \in Run |-> IF r \in R THEN "pending" ELSE status[r]]
  /\ stamp' = [r \in Run |-> IF r \in R THEN Cardinality(Created) ELSE stamp[r]]
  /\ NoFault
  /\ UNCHANGED <<owner, tokens, pollVars, evidenceVars, patches, daemonVars>>

Locked == {pick[h] : h \in {g \in Poll : phase[g] = "locked"}}
\* Mutants: the SELECT without FOR UPDATE SKIP LOCKED, and one that also takes
\* over claimed runs, as a naive lease expiry would.
AvailableUnlocked == {r \in Run : status[r] = "pending"}
AvailableReclaimed == {r \in Run : status[r] \in {"pending", "claimed"} /\ r \notin Locked}

Available == {r \in Run : status[r] = "pending" /\ r \notin Locked}
\* Mutant: a strict comparison, which runs of one transaction never satisfy.
OldestStrict == {r \in Available : \A s \in Available \ {r} : stamp[r] < stamp[s]}

Oldest == {r \in Available : \A s \in Available : stamp[r] <= stamp[s]}

\* SELECT ... ORDER BY created_at LIMIT 1 FOR UPDATE SKIP LOCKED finds a row.
SelectPending(h) ==
  /\ phase[h] \in {"querying", "waiting"}
  /\ \E r \in Oldest : pick' = [pick EXCEPT ![h] = r]
  /\ phase' = [phase EXCEPT ![h] = "locked"]
  /\ NoFault
  /\ UNCHANGED <<tableVars, tokens, asker, evidenceVars, patches, daemonVars>>

\* ... or none, and the handler sleeps before it asks again.
SelectNothing(h) ==
  /\ phase[h] = "querying"
  /\ Available = {}
  /\ phase' = [phase EXCEPT ![h] = "waiting"]
  /\ NoFault
  /\ UNCHANGED <<tableVars, tokens, asker, pick, evidenceVars, patches, daemonVars>>

\* UPDATE ... WHERE id, and COMMIT.
ClaimSelected(h) ==
  /\ phase[h] = "locked"
  /\ status' = [status EXCEPT ![pick[h]] = "claimed"]
  /\ owner' = [owner EXCEPT ![pick[h]] = asker[h]]
  /\ phase' = [phase EXCEPT ![h] = "reply"]
  /\ NoFault
  /\ UNCHANGED <<stamp, tokens, asker, pick, evidenceVars, patches, daemonVars>>

\* The 30 s deadline passes during a sleep: 204.
PollExpires(h) ==
  /\ phase[h] = "waiting"
  /\ phase' = [phase EXCEPT ![h] = "reply"]
  /\ NoFault
  /\ UNCHANGED <<tableVars, tokens, asker, pick, evidenceVars, patches, daemonVars>>

\* A statement fails: ROLLBACK frees the row, the handler answers 500.
PollFails(h) ==
  /\ phase[h] \in {"querying", "waiting", "locked"}
  /\ Fault
  /\ phase' = [phase EXCEPT ![h] = "reply"]
  /\ pick' = [pick EXCEPT ![h] = None]
  /\ UNCHANGED <<tableVars, tokens, asker, evidenceVars, patches, daemonVars>>

FreePoll(h) ==
  /\ phase' = [phase EXCEPT ![h] = "free"]
  /\ asker' = [asker EXCEPT ![h] = None]
  /\ pick' = [pick EXCEPT ![h] = None]

\* Nobody waits for this answer any more; the run in it stays claimed.
DropReply(h) ==
  /\ phase[h] = "reply"
  /\ \A n \in Daemon : call[n] # h
  /\ FreePoll(h)
  /\ NoFault
  /\ UNCHANGED <<tableVars, tokens, evidenceVars, patches, daemonVars>>

-----------------------------------------------------------------------------
(* A daemon polls.                                                         *)

\* The request arrives and is authenticated once, before the 30 s loop.
OpenPoll(n, h) ==
  /\ pc[n] = "idle" /\ n \in tokens
  /\ phase[h] = "free"
  /\ phase' = [phase EXCEPT ![h] = "querying"]
  /\ asker' = [asker EXCEPT ![h] = n]
  /\ pc' = [pc EXCEPT ![n] = "polling"]
  /\ call' = [call EXCEPT ![n] = h]
  /\ NoFault
  /\ UNCHANGED <<tableVars, tokens, pick, evidenceVars, patches, work>>

ReceiveRun(n) ==
  /\ pc[n] = "polling"
  /\ phase[call[n]] = "reply" /\ pick[call[n]] # None
  /\ pc' = [pc EXCEPT ![n] = "executing"]
  /\ work' = [work EXCEPT ![n] = pick[call[n]]]
  /\ call' = [call EXCEPT ![n] = None]
  /\ FreePoll(call[n])
  /\ NoFault
  /\ UNCHANGED <<tableVars, tokens, evidenceVars, patches>>

\* 204 or an error status: the daemon sleeps and polls again.
ReceiveNothing(n) ==
  /\ pc[n] = "polling"
  /\ phase[call[n]] = "reply" /\ pick[call[n]] = None
  /\ pc' = [pc EXCEPT ![n] = "idle"]
  /\ call' = [call EXCEPT ![n] = None]
  /\ FreePoll(call[n])
  /\ NoFault
  /\ UNCHANGED <<tableVars, tokens, evidenceVars, patches, work>>

\* The connection breaks: the daemon gives the poll up, its handler does not.
PollBreaks(n) ==
  /\ pc[n] = "polling"
  /\ Fault
  /\ pc' = [pc EXCEPT ![n] = "idle"]
  /\ call' = [call EXCEPT ![n] = None]
  /\ UNCHANGED <<tableVars, tokens, pollVars, evidenceVars, patches, work>>

-----------------------------------------------------------------------------
(* A daemon executes, uploads, seals, reports (executeRun).                *)

\* reportStatus sends the PATCH and waits for its answer.
Report(n, s) ==
  /\ patches' = patches \cup {[run |-> work[n], runner |-> n, status |-> s]}
  /\ pc' = [pc EXCEPT ![n] = "reporting"]

StartSeal(n) ==
  /\ seal' = [seal EXCEPT ![work[n]] = "sent"]
  /\ pc' = [pc EXCEPT ![n] = "sealing"]

\* executePlan returns b events that concern steps, and a verdict.
FinishPlan(n, b, v) ==
  /\ pc[n] = "executing" /\ b > 0
  /\ outcome' = [outcome EXCEPT ![work[n]] = v]
  /\ produced' = [produced EXCEPT ![work[n]] = b]
  /\ ingest' = [ingest EXCEPT ![work[n]] = "sent"]
  /\ pc' = [pc EXCEPT ![n] = "uploading"]
  /\ NoFault
  /\ UNCHANGED <<tableVars, tokens, pollVars, stored, seal, built, manifest,
                 patches, work, call>>

\* Mutant: nothing uploaded, so nothing sealed.
FinishEmptyPlanUnsealed(n, v) ==
  /\ pc[n] = "executing"
  /\ outcome' = [outcome EXCEPT ![work[n]] = v]
  /\ Report(n, v)
  /\ NoFault
  /\ UNCHANGED <<tableVars, tokens, pollVars, ingest, produced, stored, seal, built,
                 manifest, work, call>>

\* A plan whose steps are all disabled or skipped has nothing to upload.
FinishEmptyPlan(n, v) ==
  /\ pc[n] = "executing"
  /\ outcome' = [outcome EXCEPT ![work[n]] = v]
  /\ StartSeal(n)
  /\ NoFault
  /\ UNCHANGED <<tableVars, tokens, pollVars, ingest, produced, stored, built,
                 manifest, patches, work, call>>

\* executePlan throws, and main's catch reports the run failed.
PlanThrows(n) ==
  /\ pc[n] = "executing"
  /\ Report(n, "failed")
  /\ NoFault
  /\ UNCHANGED <<tableVars, tokens, pollVars, evidenceVars, work, call>>

UploadAccepted(n) ==
  /\ pc[n] = "uploading" /\ ingest[work[n]] = "done"
  /\ StartSeal(n)
  /\ NoFault
  /\ UNCHANGED <<tableVars, tokens, pollVars, ingest, produced, stored, outcome,
                 built, manifest, patches, work, call>>

\* The answer is 401, 404 or 500.
UploadRefused(n) ==
  /\ pc[n] = "uploading" /\ ingest[work[n]] = "stopped"
  /\ Report(n, "failed")
  /\ NoFault
  /\ UNCHANGED <<tableVars, tokens, pollVars, evidenceVars, work, call>>

\* Mutant: uploadEvents logs the failure and returns, as reportStatus does.
UploadBreaksSwallowed(n) ==
  /\ pc[n] = "uploading" /\ ingest[work[n]] # "stopped"
  /\ Fault
  /\ StartSeal(n)
  /\ UNCHANGED <<tableVars, tokens, pollVars, ingest, produced, stored, outcome,
                 built, manifest, patches, work, call>>

\* The connection breaks; the control plane may still be inserting.
UploadBreaks(n) ==
  /\ pc[n] = "uploading" /\ ingest[work[n]] # "stopped"
  /\ Fault
  /\ Report(n, "failed")
  /\ UNCHANGED <<tableVars, tokens, pollVars, evidenceVars, work, call>>

\* The manifest request is answered 201: report what the plan concluded.
SealAccepted(n) ==
  /\ pc[n] = "sealing" /\ seal[work[n]] = "done"
  /\ Report(n, outcome[work[n]])
  /\ NoFault
  /\ UNCHANGED <<tableVars, tokens, pollVars, evidenceVars, work, call>>

SealRefused(n) ==
  /\ pc[n] = "sealing" /\ seal[work[n]] = "stopped"
  /\ Report(n, "failed")
  /\ NoFault
  /\ UNCHANGED <<tableVars, tokens, pollVars, evidenceVars, work, call>>

\* Mutant: persistEvidenceManifest logs the failure and returns.
SealBreaksSwallowed(n) ==
  /\ pc[n] = "sealing" /\ seal[work[n]] # "stopped"
  /\ Fault
  /\ Report(n, outcome[work[n]])
  /\ UNCHANGED <<tableVars, tokens, pollVars, evidenceVars, work, call>>

SealBreaks(n) ==
  /\ pc[n] = "sealing" /\ seal[work[n]] # "stopped"
  /\ Fault
  /\ Report(n, "failed")
  /\ UNCHANGED <<tableVars, tokens, pollVars, evidenceVars, work, call>>

EndWork(n) ==
  /\ pc' = [pc EXCEPT ![n] = "idle"]
  /\ work' = [work EXCEPT ![n] = None]

InFlight(n) == \E p \in patches : p.runner = n /\ p.run = work[n]

\* The PATCH is answered; whatever the answer is, reportStatus returns.
ReportReturns(n) ==
  /\ pc[n] = "reporting" /\ ~InFlight(n)
  /\ EndWork(n)
  /\ NoFault
  /\ UNCHANGED <<tableVars, tokens, pollVars, evidenceVars, patches, call>>

\* Mutant: reportStatus throws, and main's catch reports the run failed.
ReportBreaksRethrown(n) ==
  /\ pc[n] = "reporting" /\ InFlight(n)
  /\ Fault
  /\ Report(n, "failed")
  /\ UNCHANGED <<tableVars, tokens, pollVars, evidenceVars, work, call>>

\* The connection breaks: reportStatus logs it and returns, and never retries.
ReportBreaks(n) ==
  /\ pc[n] = "reporting" /\ InFlight(n)
  /\ Fault
  /\ EndWork(n)
  /\ UNCHANGED <<tableVars, tokens, pollVars, evidenceVars, patches, call>>

\* The process dies, or SIGTERM makes it exit in the middle of its work.
Crash(n) ==
  /\ pc[n] # "down"
  /\ Fault
  /\ pc' = [pc EXCEPT ![n] = "down"]
  /\ work' = [work EXCEPT ![n] = None]
  /\ call' = [call EXCEPT ![n] = None]
  /\ UNCHANGED <<tableVars, tokens, pollVars, evidenceVars, patches>>

\* It comes back with the same RUNNER_ID and RUNNER_TOKEN, and polls.
Restart(n) ==
  /\ pc[n] = "down"
  /\ pc' = [pc EXCEPT ![n] = "idle"]
  /\ NoFault
  /\ UNCHANGED <<tableVars, tokens, pollVars, evidenceVars, patches, work, call>>

-----------------------------------------------------------------------------
(* The control plane serves the requests.                                  *)

\* verifyRunnerToken and runnerOwnsRun.  The requests about a run come from
\* the daemon it was handed to, so the sender is the owner it was claimed for.
Authorized(r) == owner[r] \in tokens

BeginIngest(r) ==
  /\ ingest[r] = "sent"
  /\ ingest' = [ingest EXCEPT ![r] = IF Authorized(r) THEN "running" ELSE "stopped"]
  /\ NoFault
  /\ UNCHANGED <<tableVars, tokens, pollVars, produced, stored, outcome, seal, built,
                 manifest, patches, daemonVars>>

\* Mutant: one event too many.
InsertEventOverrun(r) ==
  /\ ingest[r] = "running"
  /\ stored' = [stored EXCEPT ![r] = @ + 1]
  /\ ingest' = [ingest EXCEPT ![r] = IF stored[r] = produced[r] THEN "done" ELSE "running"]
  /\ NoFault
  /\ UNCHANGED <<tableVars, tokens, pollVars, produced, outcome, seal, built,
                 manifest, patches, daemonVars>>

\* insertEvents: one INSERT for each event, no transaction around them.
InsertEvent(r) ==
  /\ ingest[r] = "running"
  /\ stored' = [stored EXCEPT ![r] = @ + 1]
  /\ ingest' = [ingest EXCEPT ![r] = IF stored[r] + 1 = produced[r]
                                       THEN "done" ELSE "running"]
  /\ NoFault
  /\ UNCHANGED <<tableVars, tokens, pollVars, produced, outcome, seal, built,
                 manifest, patches, daemonVars>>

\* The request is lost, or an INSERT or an upload to the object store fails.
IngestFails(r) ==
  /\ ingest[r] \in {"sent", "running"}
  /\ Fault
  /\ ingest' = [ingest EXCEPT ![r] = "stopped"]
  /\ UNCHANGED <<tableVars, tokens, pollVars, produced, stored, outcome, seal,
                 built, manifest, patches, daemonVars>>

\* buildEvidenceManifest reads the rows there are.
BuildManifest(r) ==
  /\ seal[r] = "sent"
  /\ seal' = [seal EXCEPT ![r] = IF Authorized(r) THEN "building" ELSE "stopped"]
  /\ built' = [built EXCEPT ![r] = IF Authorized(r) THEN stored[r] ELSE @]
  /\ NoFault
  /\ UNCHANGED <<tableVars, tokens, pollVars, ingest, produced, stored, outcome,
                 manifest, patches, daemonVars>>

\* The object is written, then the row: ON CONFLICT (run_id) DO NOTHING.
WriteManifest(r) ==
  /\ seal[r] = "building"
  /\ seal' = [seal EXCEPT ![r] = "done"]
  /\ manifest' = [manifest EXCEPT ![r] = IF @ = Unsealed THEN built[r] ELSE @]
  /\ NoFault
  /\ UNCHANGED <<tableVars, tokens, pollVars, ingest, produced, stored, outcome,
                 built, patches, daemonVars>>

SealFails(r) ==
  /\ seal[r] \in {"sent", "building"}
  /\ Fault
  /\ seal' = [seal EXCEPT ![r] = "stopped"]
  /\ UNCHANGED <<tableVars, tokens, pollVars, ingest, produced, stored, outcome,
                 built, manifest, patches, daemonVars>>

\* Mutants: the UPDATE without runner_id in its WHERE, and one that obeys the
\* protocol's transition table although nothing ever reports 'running'.
UpdateStatusOfAnyone(r, n, s) ==
  status' = IF n \in tokens THEN [status EXCEPT ![r] = s] ELSE status
UpdateStatusFromRunning(r, n, s) ==
  status' = IF n \in tokens /\ owner[r] = n /\ status[r] = "running"
              THEN [status EXCEPT ![r] = s] ELSE status

\* updateRunStatus: WHERE id AND runner_id, and no condition on the status.
UpdateStatus(r, n, s) ==
  status' = IF n \in tokens /\ owner[r] = n THEN [status EXCEPT ![r] = s] ELSE status

ApplyPatch(p) ==
  /\ p \in patches
  /\ UpdateStatus(p.run, p.runner, p.status)
  /\ patches' = patches \ {p}
  /\ NoFault
  /\ UNCHANGED <<owner, stamp, tokens, pollVars, evidenceVars, daemonVars>>

LosePatch(p) ==
  /\ p \in patches
  /\ Fault
  /\ patches' = patches \ {p}
  /\ UNCHANGED <<tableVars, tokens, pollVars, evidenceVars, daemonVars>>

\* DELETE /api/runners/:id deletes the tokens; the runs keep their runner_id.
DeleteRunner(n) ==
  /\ n \in tokens
  /\ Fault
  /\ tokens' = tokens \ {n}
  /\ UNCHANGED <<tableVars, pollVars, evidenceVars, patches, daemonVars>>

-----------------------------------------------------------------------------
(* A runner driven through the HTTP API.                                   *)

\* Mutant: the UPDATE without status = 'pending' in its WHERE.
ClientClaimUnguarded(c, r) ==
  /\ c \in tokens
  /\ status[r] # "absent" /\ r \notin Locked
  /\ status' = [status EXCEPT ![r] = "claimed"]
  /\ owner' = [owner EXCEPT ![r] = c]
  /\ NoFault
  /\ UNCHANGED <<stamp, tokens, pollVars, evidenceVars, patches, daemonVars>>

\* PUT /api/runs/:id/claim: one UPDATE ... WHERE status = 'pending', which
\* waits while a poll holds the row.
ClientClaim(c, r) ==
  /\ c \in tokens
  /\ status[r] = "pending" /\ r \notin Locked
  /\ status' = [status EXCEPT ![r] = "claimed"]
  /\ owner' = [owner EXCEPT ![r] = c]
  /\ NoFault
  /\ UNCHANGED <<stamp, tokens, pollVars, evidenceVars, patches, daemonVars>>

ClientReport(c, r, s) ==
  /\ status[r] # "absent"
  /\ UpdateStatus(r, c, s)
  /\ NoFault
  /\ UNCHANGED <<owner, stamp, tokens, pollVars, evidenceVars, patches, daemonVars>>

-----------------------------------------------------------------------------
PollStep(h) ==
  \/ SelectPending(h)
  \/ SelectNothing(h)
  \/ ClaimSelected(h)
  \/ PollExpires(h)
  \/ PollFails(h)
  \/ DropReply(h)

DaemonStep(n) ==
  \/ \E h \in Poll : OpenPoll(n, h)
  \/ ReceiveRun(n)
  \/ ReceiveNothing(n)
  \/ PollBreaks(n)
  \/ \E b \in 0..MaxBatch, v \in DaemonVerdict : FinishPlan(n, b, v)
  \/ \E v \in DaemonVerdict : FinishEmptyPlan(n, v)
  \/ PlanThrows(n)
  \/ UploadAccepted(n)
  \/ UploadRefused(n)
  \/ UploadBreaks(n)
  \/ SealAccepted(n)
  \/ SealRefused(n)
  \/ SealBreaks(n)
  \/ ReportReturns(n)
  \/ ReportBreaks(n)
  \/ Crash(n)
  \/ Restart(n)

RequestStep(r) ==
  \/ BeginIngest(r)
  \/ InsertEvent(r)
  \/ IngestFails(r)
  \/ BuildManifest(r)
  \/ WriteManifest(r)
  \/ SealFails(r)

PatchStep(p) == ApplyPatch(p) \/ LosePatch(p)

ClientStep(c) ==
  \/ \E r \in Run : ClientClaim(c, r)
  \/ \E r \in Run, s \in ClientStatus : ClientReport(c, r, s)

Next ==
  \/ \E R \in SUBSET Run : CreateRuns(R)
  \/ \E h \in Poll : PollStep(h)
  \/ \E n \in Daemon : DaemonStep(n)
  \/ \E r \in Run : RequestStep(r)
  \/ \E p \in patches : PatchStep(p)
  \/ \E n \in Runner : DeleteRunner(n)
  \/ \E c \in Client : ClientStep(c)

Spec == Init /\ [][Next]_vars

-----------------------------------------------------------------------------
(* Fairness: what the event loop, the database and a supervised daemon     *)
(* (restart: unless-stopped) do sooner or later.  Faults, deletions and    *)
(* creations are never required, and neither is anything of a Client.      *)

Serves(h) ==
  SelectPending(h) \/ SelectNothing(h) \/ ClaimSelected(h) \/ PollExpires(h)
    \/ DropReply(h)

Works(n) ==
  \/ \E h \in Poll : OpenPoll(n, h)
  \/ ReceiveRun(n) \/ ReceiveNothing(n)
  \/ \E b \in 0..MaxBatch, v \in DaemonVerdict : FinishPlan(n, b, v)
  \/ \E v \in DaemonVerdict : FinishEmptyPlan(n, v)
  \/ UploadAccepted(n) \/ UploadRefused(n)
  \/ SealAccepted(n) \/ SealRefused(n)
  \/ ReportReturns(n) \/ Restart(n)

Handles(r) == BeginIngest(r) \/ InsertEvent(r) \/ BuildManifest(r) \/ WriteManifest(r)

Fairness ==
  /\ \A h \in Poll : WF_vars(Serves(h))
  /\ \A n \in Daemon : WF_vars(Works(n))
  /\ \A r \in Run : WF_vars(Handles(r))
  /\ \A p \in Patch : WF_vars(ApplyPatch(p))

FairSpec == Spec /\ Fairness

-----------------------------------------------------------------------------
(* Safety.                                                                 *)

Untouched(r) ==
  /\ ingest[r] = "none" /\ produced[r] = 0 /\ stored[r] = 0
  /\ outcome[r] = "none" /\ seal[r] = "none" /\ manifest[r] = Unsealed
  /\ \A p \in patches : p.run # r

\* A run is in at most one place: one daemon works on it, or one answer of the
\* control plane carries it; and it is claimed for exactly that runner, so no
\* request about it is refused as not owned (claimNextRun, runnerOwnsRun).
OneHolder ==
  /\ \A n, m \in Daemon : work[n] # None /\ work[n] = work[m] => n = m
  /\ \A h, g \in Poll : phase[h] = "reply" /\ pick[h] # None /\ pick[g] = pick[h] => h = g
  /\ \A h \in Poll, n \in Daemon : phase[h] = "reply" /\ pick[h] # None => work[n] # pick[h]
  /\ \A n \in Daemon : work[n] # None => owner[work[n]] = n
  /\ \A h \in Poll : phase[h] = "reply" /\ pick[h] # None => owner[pick[h]] = asker[h]

\* No run is ever executed a second time: a daemon starts executing only runs
\* of which nothing has been uploaded, sealed or reported, whatever crashed
\* before ("Lease expiry does not auto-create a second concurrent execution",
\* packages/contracts/runner-protocol/src/index.ts:15).
FreshExecution ==
  \A n \in Daemon : pc[n] = "executing" =>
    status[work[n]] = "claimed" /\ Untouched(work[n])

\* A run a daemon reported passed did pass, every event it produced is stored
\* and its manifest covers them all (executeRun's upload, seal, report order).
PassedHasEvidence ==
  \A r \in Run : status[r] = "passed" /\ owner[r] \in Daemon =>
    /\ outcome[r] = "passed"
    /\ stored[r] = produced[r]
    /\ manifest[r] = produced[r]

\* A manifest is complete and stays so: no event is missing when it is written
\* and none arrives after (persistEvidenceManifest's "immutable evidence
\* manifest", although inserting and building share no transaction).
ManifestComplete ==
  \A r \in Run : manifest[r] # Unsealed =>
    manifest[r] = stored[r] /\ stored[r] = produced[r]

\* The verdict of a run handled by daemons is final, whatever answer is lost
\* and whatever is still in flight, although updateRunStatus checks no status.
VerdictIsFinal ==
  [][\A r \in Run :
       status[r] \in Terminal /\ owner[r] \in Daemon => status'[r] = status[r]]_vars

(* The inductive invariant behind them (RunLease_proofs).                  *)

Working == {"executing", "uploading", "sealing", "reporting"}

\* Only a claim holds a lock, only on a pending run, and alone; no two polls
\* carry one run.
PollInv ==
  \A h \in Poll :
    /\ phase[h] # "free" => asker[h] \in Daemon
    /\ phase[h] \in {"free", "querying", "waiting"} => pick[h] = None
    /\ phase[h] = "locked" => pick[h] \in Run /\ status[pick[h]] = "pending"
    /\ \A g \in Poll : pick[h] # None /\ pick[g] = pick[h] => g = h

\* A daemon waits for its own poll, and has work exactly while it works.
DaemonInv ==
  \A n \in Daemon :
    /\ pc[n] = "polling" => /\ call[n] \in Poll
                            /\ asker[call[n]] = n /\ phase[call[n]] # "free"
    /\ pc[n] # "polling" => call[n] = None
    /\ pc[n] \in Working <=> work[n] # None

\* Nothing has happened to a run before its claim is answered.
FreshInv ==
  /\ \A r \in Run : status[r] \in {"absent", "pending"} =>
       owner[r] = None /\ Untouched(r) /\ \A n \in Daemon : work[n] # r
  /\ \A h \in Poll : phase[h] = "reply" /\ pick[h] # None =>
       /\ status[pick[h]] = "claimed" /\ owner[pick[h]] = asker[h]
       /\ Untouched(pick[h]) /\ \A n \in Daemon : work[n] # pick[h]

NoPatch(r) == \A p \in patches : p.run # r

\* How far the evidence of a daemon's run is, by what the daemon is doing.
WorkInv ==
  \A n \in Daemon : work[n] # None =>
    /\ owner[work[n]] = n
    /\ pc[n] = "executing" => status[work[n]] = "claimed" /\ Untouched(work[n])
    /\ pc[n] = "uploading" => /\ status[work[n]] = "claimed" /\ NoPatch(work[n])
                              /\ ingest[work[n]] # "none" /\ seal[work[n]] = "none"
                              /\ outcome[work[n]] # "none"
    /\ pc[n] = "sealing"   => /\ status[work[n]] = "claimed" /\ NoPatch(work[n])
                              /\ seal[work[n]] # "none" /\ outcome[work[n]] # "none"

\* Rows, batch and manifest of one run.
EvidenceInv ==
  \A r \in Run :
    /\ ingest[r] = "none" => produced[r] = 0 /\ stored[r] = 0
    /\ ingest[r] = "sent" => stored[r] < produced[r]
    /\ ingest[r] = "running" => stored[r] < produced[r]
    /\ ingest[r] = "done" => stored[r] = produced[r]
    /\ seal[r] # "none" => ingest[r] \in {"none", "done"}
    /\ seal[r] = "building" => built[r] = produced[r]
    /\ seal[r] = "done" => manifest[r] = produced[r]
    /\ seal[r] # "done" => manifest[r] = Unsealed

Earned(r) == outcome[r] = "passed" /\ seal[r] = "done"

\* At most one verdict is in flight per run, from its owner, while the run is
\* claimed; a verdict 'passed' is earned when sent and when written.
PatchInv ==
  /\ \A p \in patches : /\ owner[p.run] = p.runner
                        /\ status[p.run] = "claimed"
                        /\ p.status = "passed" => Earned(p.run)
  /\ \A p, q \in patches : p.run = q.run => p = q
  /\ \A r \in Run : status[r] = "passed" /\ owner[r] \in Daemon => Earned(r)

\* A run that left the queue has an owner, and a daemon only ends it.
OwnerInv ==
  \A r \in Run : status[r] \notin {"absent", "pending"} =>
    /\ owner[r] \in Runner
    /\ owner[r] \in Daemon => status[r] \in {"claimed"} \cup DaemonVerdict

IInv ==
  /\ TypeOK
  /\ PollInv /\ DaemonInv /\ FreshInv /\ WorkInv
  /\ EvidenceInv /\ PatchInv /\ OwnerInv

(* Refinement.                                                             *)

AbstractState(r) ==
  CASE status[r] = "pending" -> "queued"
    [] status[r] = "claimed" -> "held"
    [] OTHER                 -> status[r]

Dispatch == INSTANCE RunDispatch WITH
  state  <- [r \in Run |-> AbstractState(r)],
  holder <- owner,
  sealed <- {r \in Run : manifest[r] # Unsealed}

\* Driven by daemons only, the protocol implements RunDispatch: one grant, one
\* verdict by the holder, passed only after one seal.
ImplementsDispatch == Dispatch!Spec

-----------------------------------------------------------------------------
(* Liveness.                                                               *)

\* Crashes, lost answers and deleted runners notwithstanding, a pending run is
\* claimed as long as one registered daemon is left, also when runners driven
\* by hand compete with it (claimNextRun).
PendingIsClaimed ==
  \A r \in Run : status[r] = "pending" ~>
    status[r] # "pending" \/ tokens \cap Daemon = {}

\* A pending run ends with a verdict and with its evidence, unless a fault
\* happens or a runner driven by hand takes it (executeRun).
PendingEnds ==
  \A r \in Run : status[r] = "pending" ~>
    status[r] \in Terminal \/ owner[r] \in Client \/ faults > 0

-----------------------------------------------------------------------------
(* What the documents say and the code does not do.                        *)

ProtocolState(s) ==
  CASE s = "pending" -> "queued"
    [] s = "claimed" -> "leased"
    [] OTHER         -> s

\* VALID_RUN_TRANSITIONS, packages/contracts/runner-protocol/src/index.ts:232.
ValidTransitions ==
  [queued |-> {"leased", "cancelled"},
   leased |-> {"running", "queued"},
   running |-> {"passed", "failed", "inconclusive", "cancelled", "orphaned"},
   passed |-> {}, failed |-> {}, cancelled |-> {}]

\* "Any transition not listed here is rejected."  The code lists the table and
\* applies it nowhere: a daemon takes a claimed run straight to its verdict.
OnlyValidTransitions ==
  [][\A r \in Run : status[r] # "absent" /\ status'[r] # status[r] =>
       ProtocolState(status'[r]) \in ValidTransitions[ProtocolState(status[r])]]_vars

\* "LEASED --> QUEUED" and "RUNNING --> ORPHANED: Runner" lost: a run whose
\* runner is gone leaves the claimed state.  The code has no lease expiry.
LeaseIsReleased ==
  \A r \in Run : status[r] = "claimed" ~> status[r] # "claimed"

\* A run whose plan passed is not reported failed because of infrastructure:
\* business failures and infrastructure failures must not share one status
\* (docs/PRD.md:451).  When the upload breaks, main's catch reports 'failed'.
PassedIsNotFailed ==
  \A r \in Run : outcome[r] = "passed" => status[r] # "failed"
=============================================================================
