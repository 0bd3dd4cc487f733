-------------------------- MODULE ScheduleDispatch --------------------------
(***************************************************************************)
(* Scheduled runs: the schedules of a workspace, the dispatchers that each *)
(* instance of the control plane runs, and users who edit schedules,       *)
(* publish suites and environments, and trigger a schedule by hand, all on *)
(* one database.                                                           *)
(*                                                                         *)
(* A dispatcher reads the schedules, then for each one due reads its row,  *)
(* its suite and its environment one statement after another, and only     *)
(* then opens the transaction that locks the row, checks it again, claims  *)
(* the minute and creates the runs.  Everything may change in between.     *)
(* A cron expression is the set of minutes it matches; the runs of one     *)
(* transaction are one batch.                                              *)
(***************************************************************************)
EXTENDS Naturals, FiniteSets

CONSTANTS
  Schedule,    \* ids of schedules, random: none is drawn twice
  Instance,    \* control plane processes, each with a dispatcher
  Request,     \* trigger-now requests served at the same time
  Env,         \* environments
  Cron,        \* cron expressions, each a set of minutes
  Horizon,     \* bound: the last minute of the clocks
  MaxVersion,  \* bound: versions of a suite or an environment
  MaxEdits,    \* bound: edits and publications after creation
  MaxFaults,   \* bound: crashes and failed statements
  None         \* no schedule, no environment, no minute

Minute  == 1..Horizon
Process == Instance \cup Request

ASSUME BoundsAreNat ==
  /\ Horizon \in Nat \ {0} /\ MaxVersion \in Nat \ {0}
  /\ MaxEdits \in Nat /\ MaxFaults \in Nat
ASSUME CronsAreMinutes == Cron \subseteq SUBSET Minute
ASSUME ProcessesDisjoint == Instance \cap Request = {}
ASSUME NoneIsNothing == None \notin Schedule \cup Process \cup Env \cup Minute

VARIABLES
  rows,      \* schedules whose row exists
  used,      \* ids ever given to a schedule
  config,    \* config[s]: enabled, cron_expression, environment_id
  suite,     \* suite[s]: latest version of its suite, 0 if it cannot be compiled
  version,   \* version[e]: latest version of an environment
  gated,     \* gated[e]: no version yet, or one with approval or runner labels
  claims,    \* schedule_dispatches: pairs of a schedule and a minute
  batches,   \* committed batches of runs
  lock,      \* lock[s]: the transaction that holds the row FOR UPDATE
  clock,     \* clock[i]: an instance's clock
  pc,        \* pc[p]: the statement process p is at
  minute,    \* minute[i]: the minute of its current poll
  queue,     \* queue[i]: due schedules it has not looked at
  current,   \* current[p]: the schedule it is triggering
  seen,      \* seen[p]: that schedule's row, as read first
  plan,      \* plan[p]: the suite and environment versions it compiled
  edits, faults

dbVars == <<rows, used, config, suite, version, gated, claims, batches>>
processVars == <<pc, minute, queue, current, seen, plan>>
vars == <<dbVars, lock, clock, processVars, edits, faults>>

-----------------------------------------------------------------------------
Config   == [enabled : BOOLEAN, due : Cron, env : Env \cup {None}]
NoConfig == [enabled |-> FALSE, due |-> {}, env |-> None]
Plan     == [suite : 0..MaxVersion, version : 0..MaxVersion]
NoPlan   == [suite |-> 0, version |-> 0]
Batch    == [schedule : Schedule, at : Minute \cup {None}, env : Env \cup {None},
             plan : Plan, nth : Nat]
Open     == {"locked", "claimed"}    \* in a transaction that has the row

\* A row is locked by the one transaction that is past its check.
LockHeld ==
  \A s \in Schedule, i \in Instance :
    lock[s] = i <=> pc[i] \in Open /\ current[i] = s

TypeOK ==
  /\ rows \subseteq used /\ used \subseteq Schedule
  /\ config \in [Schedule -> Config \cup {NoConfig}]
  /\ suite \in [Schedule -> 0..MaxVersion]
  /\ version \in [Env -> 1..MaxVersion]
  /\ gated \in [Env -> BOOLEAN]
  /\ claims \subseteq rows \X Minute
  /\ batches \subseteq Batch
  /\ lock \in [Schedule -> Instance \cup {None}]
  /\ clock \in [Instance -> Minute]
  /\ pc \in [Process -> {"idle", "polling", "next", "reading", "compiled", "ready"} \cup Open]
  /\ minute \in [Instance -> Minute \cup {None}]
  /\ queue \in [Instance -> SUBSET Schedule]
  /\ current \in [Process -> Schedule \cup {None}]
  /\ seen \in [Process -> Config \cup {NoConfig}]
  /\ plan \in [Process -> Plan]
  /\ edits \in 0..MaxEdits /\ faults \in 0..MaxFaults
  /\ LockHeld

Init ==
  /\ rows = {} /\ used = {} /\ claims = {} /\ batches = {}
  /\ config = [s \in Schedule |-> NoConfig]
  /\ suite = [s \in Schedule |-> 0]
  /\ version = [e \in Env |-> 1]
  /\ gated \in [Env -> BOOLEAN]
  /\ lock = [s \in Schedule |-> None]
  /\ clock = [i \in Instance |-> 1]
  /\ pc = [p \in Process |-> "idle"]
  /\ minute = [i \in Instance |-> None]
  /\ queue = [i \in Instance |-> {}]
  /\ current = [p \in Process |-> None]
  /\ seen = [p \in Process |-> NoConfig]
  /\ plan = [p \in Process |-> NoPlan]
  /\ edits = 0 /\ faults = 0

-----------------------------------------------------------------------------
(* Users.  An UPDATE or DELETE waits for the row.                          *)

CreateSchedule(s, c) ==
  /\ s \notin used
  /\ rows' = rows \cup {s} /\ used' = used \cup {s}
  /\ config' = [config EXCEPT ![s] = c]
  /\ suite' \in {[suite EXCEPT ![s] = v] : v \in 0..1}
  /\ UNCHANGED <<version, gated, claims, batches, lock, clock, processVars,
                 edits, faults>>

UpdateSchedule(s, c) ==
  /\ s \in rows /\ lock[s] = None
  /\ edits < MaxEdits /\ edits' = edits + 1
  /\ c # config[s]
  /\ config' = [config EXCEPT ![s] = c]
  /\ UNCHANGED <<rows, used, suite, version, gated, claims, batches, lock, clock,
                 processVars, faults>>

\* The schedule's claims go with it (ON DELETE CASCADE).
DeleteSchedule(s) ==
  /\ s \in rows /\ lock[s] = None
  /\ edits < MaxEdits /\ edits' = edits + 1
  /\ rows' = rows \ {s}
  /\ claims' = {c \in claims : c[1] # s}
  /\ UNCHANGED <<used, config, suite, version, gated, batches, lock, clock,
                 processVars, faults>>

\* A version of the schedule's suite all of whose members are published.
PublishSuite(s) ==
  /\ s \in rows /\ suite[s] < MaxVersion
  /\ edits < MaxEdits /\ edits' = edits + 1
  /\ suite' = [suite EXCEPT ![s] = @ + 1]
  /\ UNCHANGED <<rows, used, config, version, gated, claims, batches, lock, clock,
                 processVars, faults>>

PublishEnvironment(e, g) ==
  /\ version[e] < MaxVersion
  /\ edits < MaxEdits /\ edits' = edits + 1
  /\ version' = [version EXCEPT ![e] = @ + 1]
  /\ gated' = [gated EXCEPT ![e] = g]
  /\ UNCHANGED <<rows, used, config, suite, claims, batches, lock, clock,
                 processVars, faults>>

\* Each instance has its own clock; they drift.
AdvanceClock(i) ==
  /\ clock[i] < Horizon
  /\ clock' = [clock EXCEPT ![i] = @ + 1]
  /\ UNCHANGED <<dbVars, lock, processVars, edits, faults>>

-----------------------------------------------------------------------------
(* The dispatcher: dispatchDueSchedules, every 5 s after the last one.     *)

\* new Date(), before the query it is for.
ReadClock(i) ==
  /\ pc[i] = "idle"
  /\ pc' = [pc EXCEPT ![i] = "polling"]
  /\ minute' = [minute EXCEPT ![i] = clock[i]]
  /\ UNCHANGED <<dbVars, lock, clock, queue, current, seen, plan, edits, faults>>

\* Back to the loop over the due schedules, or to sleep after the last.
ContinueWith(i, left) ==
  /\ pc' = [pc EXCEPT ![i] = IF left = {} THEN "idle" ELSE "next"]
  /\ queue' = [queue EXCEPT ![i] = left]
  /\ minute' = [minute EXCEPT ![i] = IF left = {} THEN None ELSE @]
  /\ current' = [current EXCEPT ![i] = None]
  /\ seen' = [seen EXCEPT ![i] = NoConfig]
  /\ plan' = [plan EXCEPT ![i] = NoPlan]

\* Mutant of Leave: an error or a null ends the poll.
LeavePoll(p) ==
  IF p \in Instance THEN ContinueWith(p, {})
  ELSE /\ pc' = [pc EXCEPT ![p] = "idle"]
       /\ current' = [current EXCEPT ![p] = None]
       /\ seen' = [seen EXCEPT ![p] = NoConfig]
       /\ plan' = [plan EXCEPT ![p] = NoPlan]
       /\ UNCHANGED <<minute, queue>>

\* triggerSchedule is over: its result or its error goes to the loop, which
\* goes on either way, or to the user.
Leave(p) ==
  IF p \in Instance THEN ContinueWith(p, queue[p])
  ELSE /\ pc' = [pc EXCEPT ![p] = "idle"]
       /\ current' = [current EXCEPT ![p] = None]
       /\ seen' = [seen EXCEPT ![p] = NoConfig]
       /\ plan' = [plan EXCEPT ![p] = NoPlan]
       /\ UNCHANGED <<minute, queue>>

\* getDueSchedules
Due(m) == {s \in rows : config[s].enabled /\ m \in config[s].due}

ReadDue(i) ==
  /\ pc[i] = "polling"
  /\ ContinueWith(i, Due(minute[i]))
  /\ UNCHANGED <<dbVars, lock, clock, edits, faults>>

StartTrigger(p, s) ==
  /\ pc' = [pc EXCEPT ![p] = "reading"]
  /\ current' = [current EXCEPT ![p] = s]
  /\ seen' = [seen EXCEPT ![p] = config[s]]

\* The next due schedule, whose row triggerSchedule reads again.
ReadSchedule(i, s) ==
  /\ pc[i] = "next" /\ s \in queue[i] \cap rows
  /\ StartTrigger(i, s)
  /\ queue' = [queue EXCEPT ![i] = @ \ {s}]
  /\ UNCHANGED <<dbVars, lock, clock, minute, plan, edits, faults>>

\* It has been deleted since the poll.
SkipDeleted(i, s) ==
  /\ pc[i] = "next" /\ s \in queue[i] \ rows
  /\ ContinueWith(i, queue[i] \ {s})
  /\ UNCHANGED <<dbVars, lock, clock, edits, faults>>

\* POST trigger-now: a disabled schedule will do.
TriggerNow(r, s) ==
  /\ pc[r] = "idle" /\ s \in rows
  /\ edits < MaxEdits /\ edits' = edits + 1
  /\ StartTrigger(r, s)
  /\ UNCHANGED <<dbVars, lock, clock, minute, queue, plan, faults>>

\* The suite and the tests and workflows it names, of which it counts the
\* publications together, are read and compiled ...
ReadSuite(p) ==
  /\ pc[p] = "reading" /\ suite[current[p]] # 0
  /\ pc' = [pc EXCEPT ![p] = "compiled"]
  /\ plan' = [plan EXCEPT ![p] = [suite |-> suite[current[p]], version |-> 0]]
  /\ UNCHANGED <<dbVars, lock, clock, minute, queue, current, seen, edits, faults>>

\* ... and then the environment, which must not ask for an approval.
Refused(e) == e # None /\ gated[e]

ReadEnvironment(p) ==
  /\ pc[p] = "compiled" /\ ~Refused(seen[p].env)
  /\ pc' = [pc EXCEPT ![p] = "ready"]
  /\ plan' = [plan EXCEPT ![p] =
       [suite   |-> plan[p].suite,
        version |-> IF seen[p].env = None THEN 0 ELSE version[seen[p].env]]]
  /\ UNCHANGED <<dbVars, lock, clock, minute, queue, current, seen, edits, faults>>

\* ScheduleTriggerError
RejectPlans(p) ==
  /\ \/ pc[p] = "reading" /\ suite[current[p]] = 0
     \/ pc[p] = "compiled" /\ Refused(seen[p].env)
  /\ Leave(p)
  /\ UNCHANGED <<dbVars, lock, clock, edits, faults>>

-----------------------------------------------------------------------------
(* The transaction.                                                        *)

\* Mutant of StillDue: the environment is not compared.
StillEnabled(i) ==
  LET row == config[current[i]] IN
  /\ current[i] \in rows
  /\ row.enabled /\ minute[i] \in row.due

\* What the locked row is checked for, against the row read first.
StillDue(i) ==
  LET row == config[current[i]] IN
  /\ current[i] \in rows
  /\ row.enabled /\ minute[i] \in row.due
  /\ row.env = seen[i].env

\* SELECT ... FOR UPDATE, and the check passes.
LockRow(i) ==
  /\ pc[i] = "ready" /\ lock[current[i]] = None
  /\ StillDue(i)
  /\ lock' = [lock EXCEPT ![current[i]] = i]
  /\ pc' = [pc EXCEPT ![i] = "locked"]
  /\ UNCHANGED <<dbVars, clock, minute, queue, current, seen, plan, edits, faults>>

\* It does not: ROLLBACK, null.
NotDueAnyMore(i) ==
  /\ pc[i] = "ready" /\ lock[current[i]] = None
  /\ ~StillDue(i)
  /\ Leave(i)
  /\ UNCHANGED <<dbVars, lock, clock, edits, faults>>

Unlocked(p) == [s \in Schedule |-> IF lock[s] = p THEN None ELSE lock[s]]

\* Mutant of ClaimMinute: the claim commits on its own, before the runs.
ClaimMinuteAtOnce(i) ==
  /\ pc[i] = "locked"
  /\ <<current[i], minute[i]>> \notin claims
  /\ claims' = claims \cup {<<current[i], minute[i]>>}
  /\ pc' = [pc EXCEPT ![i] = "claimed"]
  /\ UNCHANGED <<rows, used, config, suite, version, gated, batches, lock, clock,
                 minute, queue, current, seen, plan, edits, faults>>

\* Mutant of ClaimMinute: no conflict with an earlier claim.
ClaimMinuteAgain(i) ==
  /\ pc[i] = "locked"
  /\ pc' = [pc EXCEPT ![i] = "claimed"]
  /\ UNCHANGED <<dbVars, lock, clock, minute, queue, current, seen, plan, edits,
                 faults>>

\* INSERT ... ON CONFLICT DO NOTHING: the claim is the transaction's own
\* until it commits.
ClaimMinute(i) ==
  /\ pc[i] = "locked"
  /\ <<current[i], minute[i]>> \notin claims
  /\ pc' = [pc EXCEPT ![i] = "claimed"]
  /\ UNCHANGED <<dbVars, lock, clock, minute, queue, current, seen, plan, edits,
                 faults>>

AlreadyClaimed(i) ==
  /\ pc[i] = "locked"
  /\ <<current[i], minute[i]>> \in claims
  /\ lock' = Unlocked(i)
  /\ Leave(i)
  /\ UNCHANGED <<dbVars, clock, edits, faults>>

\* One run per member, new ids, the plans and the environment read before.
CreateRuns(p, m) ==
  batches' = batches \cup
    {[schedule |-> current[p], at |-> m, env |-> seen[p].env, plan |-> plan[p],
      nth |-> Cardinality({b \in batches : b.schedule = current[p] /\ b.at = m})]}

\* The runs, run_ids and COMMIT.
Commit(i) ==
  /\ pc[i] = "claimed"
  /\ CreateRuns(i, minute[i])
  /\ claims' = claims \cup {<<current[i], minute[i]>>}
  /\ lock' = Unlocked(i)
  /\ Leave(i)
  /\ UNCHANGED <<rows, used, config, suite, version, gated, clock, edits, faults>>

\* Without scheduledAt there is neither lock nor check nor claim.
CommitManual(r) ==
  /\ pc[r] = "ready"
  /\ CreateRuns(r, None)
  /\ Leave(r)
  /\ UNCHANGED <<rows, used, config, suite, version, gated, claims, lock, clock,
                 edits, faults>>

\* A statement fails.  In triggerSchedule: ROLLBACK, and the error is kept
\* for after the loop.  In getDueSchedules: no schedule is looked at.
StatementFails(p) ==
  /\ faults < MaxFaults /\ faults' = faults + 1
  /\ pc[p] # "idle"
  /\ lock' = Unlocked(p)
  /\ IF pc[p] = "polling" THEN ContinueWith(p, {})
     ELSE IF pc[p] = "next"
       THEN \E s \in queue[p] : ContinueWith(p, queue[p] \ {s})
     ELSE Leave(p)
  /\ UNCHANGED <<dbVars, clock, edits>>

\* The process dies, its transaction with it, and is started again.
Crash(i) ==
  /\ faults < MaxFaults /\ faults' = faults + 1
  /\ pc[i] # "idle"
  /\ lock' = Unlocked(i)
  /\ ContinueWith(i, {})
  /\ UNCHANGED <<dbVars, clock, edits>>

-----------------------------------------------------------------------------
UserStep ==
  \/ \E s \in Schedule, c \in Config : CreateSchedule(s, c) \/ UpdateSchedule(s, c)
  \/ \E s \in Schedule : DeleteSchedule(s) \/ PublishSuite(s)
  \/ \E e \in Env, g \in BOOLEAN : PublishEnvironment(e, g)

DispatcherStep(i) ==
  \/ ReadClock(i) \/ ReadDue(i)
  \/ \E s \in Schedule : ReadSchedule(i, s) \/ SkipDeleted(i, s)
  \/ ReadSuite(i) \/ ReadEnvironment(i) \/ RejectPlans(i)
  \/ LockRow(i) \/ NotDueAnyMore(i)
  \/ ClaimMinute(i) \/ AlreadyClaimed(i) \/ Commit(i)

RequestStep(r) ==
  \/ \E s \in Schedule : TriggerNow(r, s)
  \/ ReadSuite(r) \/ ReadEnvironment(r) \/ RejectPlans(r) \/ CommitManual(r)

Next ==
  \/ UserStep
  \/ \E i \in Instance : DispatcherStep(i) \/ AdvanceClock(i) \/ Crash(i)
  \/ \E r \in Request : RequestStep(r)
  \/ \E p \in Process : StatementFails(p)

Spec == Init /\ [][Next]_vars

\* A timer fires again, a statement returns, and PostgreSQL grants a row lock
\* in the order it was asked for.  Clocks and users need not move.
FairSpec ==
  /\ Spec
  /\ \A i \in Instance :
       /\ WF_vars(DispatcherStep(i))
       /\ SF_vars(LockRow(i) \/ NotDueAnyMore(i))

-----------------------------------------------------------------------------
(* Properties.                                                             *)

\* However the instances race, crash and retry, a schedule gets one batch of
\* runs for a minute (the primary key of schedule_dispatches).
OncePerMinute ==
  \A b \in batches : b.at # None => b.nth = 0

\* A minute is claimed exactly when its runs exist: a crash or an error between
\* the claim and the runs neither loses the minute nor lets it run twice.
ClaimedMeansRun ==
  claims = {<<b.schedule, b.at>> : b \in {x \in batches :
              x.at # None /\ x.schedule \in rows}}

(* The inductive invariant behind them (ScheduleDispatch_proofs).          *)

\* A poll has a minute, only a dispatcher opens the locking transaction, and
\* what is being triggered was a schedule once.
ProcessInv ==
  /\ \A i \in Instance : pc[i] # "idle" => minute[i] \in Minute
  /\ \A r \in Request : pc[r] \in {"idle", "reading", "compiled", "ready"}
  /\ \A p \in Process : pc[p] \in {"reading", "compiled", "ready"} \cup Open => current[p] \in used

\* What was checked on the locked row stays true, and the minute that was free
\* stays free, until the transaction ends.
LockInv ==
  \A i \in Instance : pc[i] \in Open =>
    /\ StillDue(i)
    /\ pc[i] = "claimed" => <<current[i], minute[i]>> \notin claims

\* Batches are of schedules that exist or existed.
BatchInv == IsFiniteSet(batches) /\ \A b \in batches : b.schedule \in used

IInv ==
  /\ TypeOK
  /\ ProcessInv /\ LockInv /\ BatchInv
  /\ OncePerMinute /\ ClaimedMeansRun

(* Refinement.                                                             *)

\* Schedule edits are serialized with dispatch: seen from outside the batch is
\* created in one instant, at which the row is there, enabled, due, and names
\* the environment the runs are bound to, though the row, the suite and the
\* environment were read long before.
Firing == INSTANCE CronDispatch WITH
  Config <- Config \cup {NoConfig},
  fired <- {[schedule |-> b.schedule, at |-> b.at, env |-> b.env, nth |-> b.nth] :
              b \in {x \in batches : x.at # None}}

ImplementsCronDispatch == Firing!Spec

\* While an instance's clock stays in a minute, a schedule that is due in it and
\* can run gets its runs, whatever becomes of the other schedules of the poll.
DueIsDispatched ==
  \A s \in Schedule, m \in Minute :
    <>[](/\ s \in Due(m) /\ suite[s] # 0 /\ ~Refused(config[s].env)
         /\ \E i \in Instance : clock[i] = m)
      => <>(<<s, m>> \in claims)
=============================================================================
