--------------------------- MODULE WorkflowRun_proofs ---------------------------
(***************************************************************************)
(* Proofs about WorkflowRun and RunClient, for any definitions, plans,     *)
(* answers of the targets and commands: what an execution may send again,  *)
(* what its teardown owes, that its verdict is what its evidence says, and *)
(* which references may be left in a request.                              *)
(*                                                                         *)
(* The properties speak of the events that were logged.  The definitions   *)
(* here take the log as an argument, because the end of an attempt appends *)
(* several events at once.                                                 *)
(***************************************************************************)
EXTENDS RunClient, FiniteSetTheorems, TLAPS

EventsOf(s, part, i, type) ==
  {k \in DOMAIN s : s[k].part = part /\ s[k].at = i /\ s[k].type = type}

IsLatest(s, part, i, k) ==
  /\ k \in EventsOf(s, part, i, "step.finished")
  /\ \A l \in EventsOf(s, part, i, "step.finished") : l <= k

OutcomeOf(s, part, i) ==
  LET ends == EventsOf(s, part, i, "step.finished")
  IN  IF ends = {} THEN "none"
      ELSE s[CHOOSE k \in ends : \A l \in ends : l <= k].result

\* Of the events that end an attempt of one step, one is the latest.
LatestInv(s) ==
  \A k \in DOMAIN s : s[k].type = "step.finished" =>
    \E m \in DOMAIN s : IsLatest(s, s[k].part, s[k].at, m)

Starts(s, part, i) == EventsOf(s, part, i, "step.started")
\* The ends of the attempts that were answered.
Answers(s, i) == {k \in EventsOf(s, "main", i, "step.finished") : s[k].result # "error"}
HasFailed(s, i) == OutcomeOf(s, "main", i) \in {"failed", "error"}

-----------------------------------------------------------------------------
(* The invariant of an execution.                                          *)

InMain == phase \in {"main", "sending"}
InTeardown == phase \in {"teardown", "cleaning"}

\* Positions are in the plan, and attempts are of the step at the position.
PlaceInv ==
  /\ phase \in {"idle", "stopped"} => attempt = 0
  /\ phase = "idle" => log = <<>> /\ failed = 0
  /\ InMain => at \in 1..(Len(plan.steps) + 1)
  /\ InTeardown => at \in 1..(Len(plan.teardown) + 1)
  /\ phase = "main" /\ at > Len(plan.steps) => attempt = 0
  /\ phase = "teardown" /\ at > Len(plan.teardown) => attempt = 0
  /\ phase = "teardown" /\ attempt > 0 => plan.teardown[at].enabled
  /\ phase = "sending" => at \in DOMAIN plan.steps /\ attempt > 0
  /\ phase = "cleaning" =>
       at \in DOMAIN plan.teardown /\ plan.teardown[at].enabled /\ attempt > 0

\* NothingIsSentAgain, of a log.
SentOnce(s) ==
  \A i \in DOMAIN plan.steps :
    /\ Cardinality(Starts(s, "main", i)) <= plan.steps[i].retries + 1
    /\ \A k \in Answers(s, i), l \in Starts(s, "main", i) : l < k
    /\ HasFailed(s, i) /\ plan.steps[i].onFailure # "skip" =>
         \A j \in (i + 1)..Len(plan.steps) : Starts(s, "main", j) = {}

\* No main step was reached but those up to the position; the attempts at that
\* one were counted and none was answered; and what failed before may be
\* skipped.
SentInv ==
  /\ SentOnce(log)
  /\ InMain =>
       /\ \A k \in DOMAIN log : log[k].part = "main" =>
            log[k].at < at \/ (log[k].at = at /\ attempt > 0)
       /\ at \in DOMAIN plan.steps =>
            /\ Cardinality(Starts(log, "main", at)) = attempt
            /\ Answers(log, at) = {}
            /\ attempt <= plan.steps[at].retries + (IF phase = "sending" THEN 1 ELSE 0)
       /\ \A i \in 1..(at - 1) : HasFailed(log, i) => plan.steps[i].onFailure = "skip"

\* The steps that have their result, and what these may be.
Done == IF InMain THEN 1..(at - 1) ELSE DOMAIN plan.steps
WasExcused(s, i) == plan.steps[i].cond # None /\ OutcomeOf(s, "main", i) = "none"
IsGood(s, i) ==
  \/ ~plan.steps[i].enabled
  \/ OutcomeOf(s, "main", i) = "passed"
  \/ WasExcused(s, i) /\ plan.steps[i].onFalse = "skip"
IsBad(s, i) ==
  \/ HasFailed(s, i)
  \/ WasExcused(s, i) /\ plan.steps[i].onFalse = "fail"

VerdictInv ==
  phase # "idle" =>
    /\ failed = 0 => \A i \in Done : IsGood(log, i)
    /\ failed > 0 => \E i \in Done : IsBad(log, i)
    /\ phase = "stopped" => failed > 0

\* The teardown begins after the main steps, and has done with what is before
\* its position.
Exhausted(s, i) ==
  /\ Starts(s, "teardown", i) # {}
  /\ \/ OutcomeOf(s, "teardown", i) = "passed"
     \/ Cardinality(Starts(s, "teardown", i)) = plan.teardown[i].retries + 1

MainComesFirst(s) ==
  \A k, l \in DOMAIN s : s[k].part = "teardown" /\ s[l].part = "main" => l < k

CleanInv ==
  /\ MainComesFirst(log)
  /\ ~InTeardown /\ phase # "done" => \A k \in DOMAIN log : log[k].part # "teardown"
  /\ InTeardown =>
       /\ \A k \in DOMAIN log : log[k].part = "teardown" =>
            log[k].at < at \/ (log[k].at = at /\ attempt > 0)
       /\ at \in DOMAIN plan.teardown =>
            /\ Cardinality(Starts(log, "teardown", at)) = attempt
            /\ attempt <= plan.teardown[at].retries + (IF phase = "cleaning" THEN 1 ELSE 0)
       /\ \A i \in 1..(at - 1) : plan.teardown[i].enabled => Exhausted(log, i)
  /\ phase = "done" =>
       \A i \in DOMAIN plan.teardown : plan.teardown[i].enabled => Exhausted(log, i)

\* What is left in a request was referred to by its step.
MissingInv(s) ==
  \A k \in DOMAIN s : s[k].type = "step.started" /\ s[k].part = "main" =>
    s[k].at \in DOMAIN plan.steps /\ s[k].missing \subseteq plan.steps[s[k].at].uses

ExecInv ==
  /\ ExecTypeOK /\ PlaceInv /\ SentInv /\ VerdictInv /\ CleanInv
  /\ MissingInv(log) /\ LatestInv(log)

\* What the plan of a run has to do with what it was created from.
OriginInv ==
  /\ origin = "test" => \A i \in DOMAIN plan.steps : plan.steps[i].uses = {}
  /\ origin = "schedule" => \A i \in DOMAIN plan.steps : EnvRefs(plan.steps[i]) = {}
  /\ source # NoSource =>
       /\ source \in Workflow /\ ~Rejected(source, Tests)
       /\ \A i \in DOMAIN plan.steps :
            /\ i \in DOMAIN source.steps
            /\ plan.steps[i].extracts = ResolvedExtract(source.steps[i], Tests)
  /\ phase = "idle" => plan = NoPlan /\ source = NoSource /\ origin = "none"

\* The status is the verdict, or what another runner reported; and a command
\* exits with what the status says, which stays.
StatusInv ==
  /\ phase = "idle" => status = "none"
  /\ status \in {"passed", "failed"} => phase = "done" /\ status = Verdict

ExitTellsStatus ==
  cli.phase = "exited" =>
    /\ cli.code = 0 /\ ~cli.waited => origin = "workflow"
    /\ cli.code = 0 /\ cli.waited => status = "passed"
    /\ cli.code = 1 => status \in {"failed", "blocked"}
    /\ cli.code = 4 => status = "cancelled"

IInv == ExecInv /\ OriginInv /\ StatusInv /\ ExitTellsStatus

-----------------------------------------------------------------------------
(* Events.                                                                 *)

\* The properties are about these.
LEMMA EventsAreOfTheLog ==
  /\ \A part, i, type : Events(part, i, type) = EventsOf(log, part, i, type)
  /\ \A part, i : Outcome(part, i) = OutcomeOf(log, part, i)
BY DEF Events, EventsOf, Outcome, OutcomeOf

LEMMA AppendedEvent ==
  ASSUME NEW s \in Seq(Event), NEW e \in Event
  PROVE  /\ Append(s, e) \in Seq(Event)
         /\ Len(s) \in Nat /\ Len(s) + 1 \notin DOMAIN s
         /\ DOMAIN Append(s, e) = DOMAIN s \cup {Len(s) + 1}
         /\ \A k \in DOMAIN s : Append(s, e)[k] = s[k] /\ k < Len(s) + 1 /\ k \in Nat
         /\ Append(s, e)[Len(s) + 1] = e
OBVIOUS

\* An event is added to the ones of its own kind.
LEMMA AppendEvents ==
  ASSUME NEW s \in Seq(Event), NEW e \in Event, NEW part, NEW i, NEW type
  PROVE  EventsOf(Append(s, e), part, i, type) =
           IF e.part = part /\ e.at = i /\ e.type = type
           THEN EventsOf(s, part, i, type) \cup {Len(s) + 1}
           ELSE EventsOf(s, part, i, type)
<1> DEFINE t == Append(s, e)
<1>1. /\ DOMAIN t = DOMAIN s \cup {Len(s) + 1} /\ Len(s) + 1 \notin DOMAIN s
      /\ \A k \in DOMAIN s : t[k] = s[k]
      /\ t[Len(s) + 1] = e
  BY AppendedEvent
<1> HIDE DEF t
<1>2. QED BY <1>1 DEF EventsOf, t

\* They are finitely many, and one more is counted.
LEMMA EventsAreFinite ==
  ASSUME NEW s \in Seq(Event), NEW part, NEW i, NEW type
  PROVE  /\ IsFiniteSet(EventsOf(s, part, i, type))
         /\ Cardinality(EventsOf(s, part, i, type)) \in Nat
         /\ Cardinality(EventsOf(s, part, i, type) \cup {Len(s) + 1}) =
              Cardinality(EventsOf(s, part, i, type)) + 1
         /\ Cardinality(EventsOf(s, part, i, type)) = 0 <=> EventsOf(s, part, i, type) = {}
<1> DEFINE E == EventsOf(s, part, i, type)
<1>1. E \subseteq 1..Len(s) /\ Len(s) \in Nat /\ Len(s) + 1 \notin E
  BY DEF EventsOf
<1>2. IsFiniteSet(1..Len(s))
  BY <1>1, FS_Interval
<1> HIDE DEF E
<1>3. IsFiniteSet(E)
  BY <1>1, <1>2, FS_Subset
<1>4. Cardinality(E) \in Nat /\ Cardinality(E \cup {Len(s) + 1}) = Cardinality(E) + 1
      /\ (Cardinality(E) = 0 <=> E = {})
  BY <1>1, <1>3, FS_AddElement, FS_EmptySet, FS_CardinalityType
<1>5. QED BY <1>3, <1>4 DEF E

\* The outcome is the result of the latest end, and there is one.
LEMMA OutcomeIsLatest ==
  ASSUME NEW s \in Seq(Event), NEW part, NEW i, NEW k, IsLatest(s, part, i, k)
  PROVE  OutcomeOf(s, part, i) = s[k].result
<1> DEFINE ends == EventsOf(s, part, i, "step.finished")
           c == CHOOSE m \in ends : \A l \in ends : l <= m
<1>1. ends \subseteq Nat /\ k \in ends /\ \A l \in ends : l <= k
  BY DEF IsLatest, EventsOf
<1>2. c \in ends /\ \A l \in ends : l <= c
  BY <1>1
<1>3. c = k
  BY <1>1, <1>2
<1>4. OutcomeOf(s, part, i) = s[c].result
  BY <1>1 DEF OutcomeOf
<1>5. QED BY <1>3, <1>4

LEMMA EndedMeansLatest ==
  ASSUME NEW s \in Seq(Event), LatestInv(s), NEW part, NEW i,
         EventsOf(s, part, i, "step.finished") # {}
  PROVE  \E k \in DOMAIN s : IsLatest(s, part, i, k)
BY DEF LatestInv, EventsOf

\* An end of an attempt determines the outcome of its step, and every other
\* event none.
LEMMA AppendOutcome ==
  ASSUME NEW s \in Seq(Event), NEW e \in Event, LatestInv(s)
  PROVE  /\ LatestInv(Append(s, e))
         /\ \A part, i : OutcomeOf(Append(s, e), part, i) =
              IF e.part = part /\ e.at = i /\ e.type = "step.finished" THEN e.result
              ELSE OutcomeOf(s, part, i)
<1> DEFINE t == Append(s, e)
<1>1. /\ t \in Seq(Event) /\ DOMAIN t = DOMAIN s \cup {Len(s) + 1}
      /\ \A k \in DOMAIN s : t[k] = s[k] /\ k < Len(s) + 1 /\ k \in Nat
      /\ t[Len(s) + 1] = e /\ Len(s) \in Nat
  BY AppendedEvent
<1>2. \A part, i : EventsOf(t, part, i, "step.finished") =
        IF e.part = part /\ e.at = i /\ e.type = "step.finished"
        THEN EventsOf(s, part, i, "step.finished") \cup {Len(s) + 1}
        ELSE EventsOf(s, part, i, "step.finished")
  BY AppendEvents
<1> HIDE DEF t
<1>3. ASSUME NEW part, NEW i, e.part = part, e.at = i, e.type = "step.finished"
      PROVE  IsLatest(t, part, i, Len(s) + 1)
  BY <1>1, <1>2, <1>3 DEF IsLatest, EventsOf
<1>4. ASSUME NEW part, NEW i, NEW k, ~(e.part = part /\ e.at = i /\ e.type = "step.finished"),
             IsLatest(s, part, i, k)
      PROVE  IsLatest(t, part, i, k)
  BY <1>2, <1>4 DEF IsLatest
<1>5. LatestInv(t)
  <2>1. SUFFICES ASSUME NEW k \in DOMAIN t, t[k].type = "step.finished"
                 PROVE  \E m \in DOMAIN t : IsLatest(t, t[k].part, t[k].at, m)
    BY DEF LatestInv
  <2>2. CASE e.part = t[k].part /\ e.at = t[k].at /\ e.type = "step.finished"
    BY <1>1, <1>3, <2>2
  <2>3. CASE ~(e.part = t[k].part /\ e.at = t[k].at /\ e.type = "step.finished")
    <3>1. k \in DOMAIN s /\ t[k] = s[k]
      BY <1>1, <2>1, <2>3
    <3>2. PICK m \in DOMAIN s : IsLatest(s, s[k].part, s[k].at, m)
      BY <2>1, <3>1 DEF LatestInv
    <3>3. QED BY <1>1, <1>4, <2>3, <3>1, <3>2
  <2>4. QED BY <2>2, <2>3
<1>6. ASSUME NEW part, NEW i
      PROVE  OutcomeOf(t, part, i) =
               IF e.part = part /\ e.at = i /\ e.type = "step.finished" THEN e.result
               ELSE OutcomeOf(s, part, i)
  <2>1. CASE e.part = part /\ e.at = i /\ e.type = "step.finished"
    BY <1>1, <1>3, <2>1, OutcomeIsLatest
  <2>2. CASE ~(e.part = part /\ e.at = i /\ e.type = "step.finished")
    <3>1. CASE EventsOf(s, part, i, "step.finished") = {}
      BY <1>2, <2>2, <3>1 DEF OutcomeOf
    <3>2. CASE EventsOf(s, part, i, "step.finished") # {}
      <4>1. PICK k \in DOMAIN s : IsLatest(s, part, i, k)
        BY <3>2, EndedMeansLatest
      <4>2. OutcomeOf(s, part, i) = s[k].result
        BY <4>1, OutcomeIsLatest
      <4>3. IsLatest(t, part, i, k)
        BY <1>4, <2>2, <4>1
      <4>4. OutcomeOf(t, part, i) = t[k].result
        BY <1>1, <4>3, OutcomeIsLatest
      <4>5. QED BY <1>1, <2>2, <4>2, <4>4
    <3>3. QED BY <3>1, <3>2
  <2>3. QED BY <2>1, <2>2
<1>7. QED BY <1>5, <1>6 DEF t

-----------------------------------------------------------------------------
(* What is logged.                                                         *)

LEMMA AnyPlanTypes ==
  ASSUME NEW p \in ExecutionPlan
  PROVE  /\ Len(p.steps) \in Nat /\ DOMAIN p.steps = 1..Len(p.steps)
         /\ \A i \in DOMAIN p.steps :
              /\ p.steps[i] \in FrozenStep /\ p.steps[i].id \in Id
              /\ p.steps[i].enabled \in BOOLEAN /\ p.steps[i].onFalse \in {"skip", "fail"}
              /\ p.steps[i].uses \subseteq Ref /\ p.steps[i].retries \in Nat
              /\ p.steps[i].extracts \subseteq Name
         /\ Len(p.teardown) \in Nat /\ DOMAIN p.teardown = 1..Len(p.teardown)
         /\ \A i \in DOMAIN p.teardown :
              /\ p.teardown[i] \in TeardownStep /\ p.teardown[i].id \in Id
              /\ p.teardown[i].enabled \in BOOLEAN /\ p.teardown[i].retries \in Nat
<1>1. p.steps \in Seq(FrozenStep) /\ p.teardown \in Seq(TeardownStep)
  BY DEF ExecutionPlan
<1>2. /\ \A i \in DOMAIN p.steps : p.steps[i] \in FrozenStep
      /\ \A i \in DOMAIN p.teardown : p.teardown[i] \in TeardownStep
  BY <1>1
<1>3. \A f \in FrozenStep :
        /\ f.id \in Id /\ f.enabled \in BOOLEAN /\ f.onFalse \in {"skip", "fail"}
        /\ f.uses \subseteq Ref /\ f.retries \in Nat /\ f.extracts \subseteq Name
  BY DEF FrozenStep
<1>4. \A f \in TeardownStep : f.id \in Id /\ f.enabled \in BOOLEAN /\ f.retries \in Nat
  BY DEF TeardownStep
<1>5. QED BY <1>1, <1>2, <1>3, <1>4

LEMMA PlanTypes ==
  ASSUME ExecTypeOK
  PROVE  /\ Len(plan.steps) \in Nat /\ DOMAIN plan.steps = 1..Len(plan.steps)
         /\ \A i \in DOMAIN plan.steps :
              /\ plan.steps[i] \in FrozenStep /\ plan.steps[i].id \in Id
              /\ plan.steps[i].enabled \in BOOLEAN /\ plan.steps[i].onFalse \in {"skip", "fail"}
              /\ plan.steps[i].uses \subseteq Ref /\ plan.steps[i].retries \in Nat
              /\ plan.steps[i].extracts \subseteq Name
         /\ Len(plan.teardown) \in Nat /\ DOMAIN plan.teardown = 1..Len(plan.teardown)
         /\ \A i \in DOMAIN plan.teardown :
              /\ plan.teardown[i] \in TeardownStep /\ plan.teardown[i].id \in Id
              /\ plan.teardown[i].enabled \in BOOLEAN /\ plan.teardown[i].retries \in Nat
BY AnyPlanTypes DEF ExecTypeOK

LEMMA EventTypes ==
  ASSUME ExecTypeOK,
         NEW type \in {"run.started", "step.started", "assertion.evaluated",
                       "step.finished", "step.retried", "run.finished"},
         NEW result \in {"none", "passed", "failed", "error"}
  PROVE  /\ RunEvent(type, result) \in Event
         /\ at \in DOMAIN plan.steps => MainEvent(type, result) \in Event
         /\ at \in DOMAIN plan.teardown => CleanupEvent(type, result) \in Event
<1>1. at \in Nat /\ {} \in SUBSET Ref
  BY DEF ExecTypeOK
<1>2. at \in DOMAIN plan.steps => Step.id \in Id
  BY PlanTypes DEF Step, FrozenStep
<1>3. at \in DOMAIN plan.teardown => Cleanup.id \in Id
  BY PlanTypes DEF Cleanup, TeardownStep
<1>4. RunEvent(type, result) \in Event
  BY <1>1, MarksAreIds DEF RunEvent, Event
<1>5. at \in DOMAIN plan.steps => MainEvent(type, result) \in Event
  BY <1>1, <1>2 DEF MainEvent, Event
<1>6. at \in DOMAIN plan.teardown => CleanupEvent(type, result) \in Event
  BY <1>1, <1>3 DEF CleanupEvent, Event
<1>7. QED BY <1>4, <1>5, <1>6

LEMMA LoggedAt ==
  ASSUME ExecTypeOK
  PROVE  /\ log \in Seq(Event) /\ at \in Nat
         /\ \A k \in DOMAIN log : log[k] \in Event /\ log[k].at \in Nat
<1>1. log \in Seq(Event)
  BY DEF ExecTypeOK
<1>2. \A k \in DOMAIN log : log[k] \in Event
  BY <1>1
<1>3. QED BY <1>1, <1>2 DEF ExecTypeOK, Event

\* What has not been reached has no events.
LEMMA NoEvents ==
  ASSUME NEW s \in Seq(Event), NEW part, NEW i,
         \A k \in DOMAIN s : ~(s[k].part = part /\ s[k].at = i)
  PROVE  /\ \A type : EventsOf(s, part, i, type) = {}
         /\ OutcomeOf(s, part, i) = "none"
         /\ Cardinality(Starts(s, part, i)) = 0
<1>1. \A type : EventsOf(s, part, i, type) = {}
  BY DEF EventsOf
<1>2. QED BY <1>1, FS_EmptySet DEF OutcomeOf, Starts

LEMMA NotReachedInMain ==
  ASSUME ExecInv, InMain, NEW i \in Nat, i > at \/ (i = at /\ attempt = 0)
  PROVE  /\ \A type : EventsOf(log, "main", i, type) = {}
         /\ OutcomeOf(log, "main", i) = "none"
         /\ Cardinality(Starts(log, "main", i)) = 0
<1>1. at \in Nat /\ log \in Seq(Event)
  BY DEF ExecInv, ExecTypeOK
<1>2. \A k \in DOMAIN log : ~(log[k].part = "main" /\ log[k].at = i)
  BY <1>1 DEF ExecInv, SentInv
<1>3. QED BY <1>1, <1>2, NoEvents

LEMMA NotReachedInTeardown ==
  ASSUME ExecInv, InTeardown, NEW i \in Nat, i > at \/ (i = at /\ attempt = 0)
  PROVE  /\ \A type : EventsOf(log, "teardown", i, type) = {}
         /\ OutcomeOf(log, "teardown", i) = "none"
         /\ Cardinality(Starts(log, "teardown", i)) = 0
<1>1. at \in Nat /\ log \in Seq(Event)
  BY DEF ExecInv, ExecTypeOK
<1>2. \A k \in DOMAIN log : ~(log[k].part = "teardown" /\ log[k].at = i)
  BY <1>1 DEF ExecInv, CleanInv
<1>3. QED BY <1>1, <1>2, NoEvents

\* An event that ends an attempt is an answer unless it is an error.
LEMMA AppendAnswers ==
  ASSUME NEW s \in Seq(Event), NEW e \in Event, NEW i
  PROVE  Answers(Append(s, e), i) =
           IF /\ e.part = "main" /\ e.at = i
              /\ e.type = "step.finished" /\ e.result # "error"
           THEN Answers(s, i) \cup {Len(s) + 1}
           ELSE Answers(s, i)
<1> DEFINE t == Append(s, e)
           E == EventsOf(s, "main", i, "step.finished")
           F == EventsOf(t, "main", i, "step.finished")
<1>1. /\ \A k \in E : t[k] = s[k]
      /\ t[Len(s) + 1] = e /\ Len(s) + 1 \notin E
  BY AppendedEvent DEF EventsOf
<1>2. F = IF e.part = "main" /\ e.at = i /\ e.type = "step.finished"
          THEN E \cup {Len(s) + 1} ELSE E
  BY AppendEvents
<1>3. Answers(t, i) = {k \in F : t[k].result # "error"}
      /\ Answers(s, i) = {k \in E : s[k].result # "error"}
  BY DEF Answers
<1> HIDE DEF t, E, F
<1>4. QED BY <1>1, <1>2, <1>3 DEF t

\* Assertions that are evaluated neither start nor end an attempt.
LEMMA LogAssertions ==
  ASSUME NEW s \in Seq(Event), LatestInv(s), NEW t \in Seq(Event),
         \A l \in DOMAIN t : t[l].type = "assertion.evaluated"
  PROVE  /\ s \o t \in Seq(Event) /\ LatestInv(s \o t) /\ Len(s \o t) = Len(s) + Len(t)
         /\ \A part, i, type : type # "assertion.evaluated" =>
              EventsOf(s \o t, part, i, type) = EventsOf(s, part, i, type)
         /\ \A part, i : OutcomeOf(s \o t, part, i) = OutcomeOf(s, part, i)
         /\ \A i : Answers(s \o t, i) = Answers(s, i)
         /\ \A k \in DOMAIN (s \o t) :
              \/ k \in DOMAIN s /\ (s \o t)[k] = s[k]
              \/ \E l \in DOMAIN t : (s \o t)[k] = t[l]
<1> DEFINE u == s \o t
<1>1. /\ u \in Seq(Event) /\ Len(u) = Len(s) + Len(t)
      /\ Len(s) \in Nat /\ Len(t) \in Nat
      /\ DOMAIN s = 1..Len(s) /\ DOMAIN t = 1..Len(t) /\ DOMAIN u = 1..(Len(s) + Len(t))
      /\ \A k \in DOMAIN u : u[k] = IF k <= Len(s) THEN s[k] ELSE t[k - Len(s)]
  OBVIOUS
<1> HIDE DEF u
<1>2. /\ DOMAIN s \subseteq DOMAIN u /\ \A k \in DOMAIN s : u[k] = s[k]
      /\ \A k \in DOMAIN u : k \in DOMAIN s \/ \E l \in DOMAIN t : u[k] = t[l]
  <2>1. \A k \in DOMAIN u : k \in DOMAIN s \/ (k - Len(s) \in DOMAIN t /\ u[k] = t[k - Len(s)])
    BY <1>1
  <2>2. DOMAIN s \subseteq DOMAIN u /\ \A k \in DOMAIN s : u[k] = s[k]
    BY <1>1
  <2>3. QED BY <2>1, <2>2
<1>3. \A k \in DOMAIN u : k \in DOMAIN s \/ u[k].type = "assertion.evaluated"
  BY <1>2
<1>4. \A part, i, type : type # "assertion.evaluated" =>
        EventsOf(u, part, i, type) = EventsOf(s, part, i, type)
  BY <1>2, <1>3 DEF EventsOf
<1>5. \A part, i, k : IsLatest(u, part, i, k) <=> IsLatest(s, part, i, k)
  BY <1>4 DEF IsLatest
<1>6. LatestInv(u)
  <2>1. SUFFICES ASSUME NEW k \in DOMAIN u, u[k].type = "step.finished"
                 PROVE  \E m \in DOMAIN u : IsLatest(u, u[k].part, u[k].at, m)
    BY DEF LatestInv
  <2>2. k \in DOMAIN s /\ u[k] = s[k]
    BY <1>2, <1>3, <2>1
  <2>3. PICK m \in DOMAIN s : IsLatest(s, s[k].part, s[k].at, m)
    BY <2>1, <2>2 DEF LatestInv
  <2>4. QED BY <1>2, <1>5, <2>2, <2>3
<1>7. ASSUME NEW part, NEW i
      PROVE  OutcomeOf(u, part, i) = OutcomeOf(s, part, i)
  <2>1. EventsOf(u, part, i, "step.finished") = EventsOf(s, part, i, "step.finished")
    BY <1>4
  <2>2. CASE EventsOf(s, part, i, "step.finished") = {}
    BY <2>1, <2>2 DEF OutcomeOf
  <2>3. CASE EventsOf(s, part, i, "step.finished") # {}
    <3>1. PICK k \in DOMAIN s : IsLatest(s, part, i, k)
      BY <2>3, EndedMeansLatest
    <3>2. OutcomeOf(s, part, i) = s[k].result
      BY <3>1, OutcomeIsLatest
    <3>3. IsLatest(u, part, i, k)
      BY <1>5, <3>1
    <3>4. OutcomeOf(u, part, i) = u[k].result
      BY <1>1, <3>3, OutcomeIsLatest
    <3>5. QED BY <1>2, <3>2, <3>4
  <2>4. QED BY <2>2, <2>3
<1>8. \A i : Answers(u, i) = Answers(s, i)
  <2>1. ASSUME NEW i
        PROVE  Answers(u, i) = Answers(s, i)
    <3>1. EventsOf(u, "main", i, "step.finished") = EventsOf(s, "main", i, "step.finished")
      BY <1>4
    <3>2. \A k \in EventsOf(s, "main", i, "step.finished") : u[k] = s[k]
      BY <1>2 DEF EventsOf
    <3>3. QED BY <3>1, <3>2 DEF Answers
  <2>2. QED BY <2>1
<1>9. QED BY <1>1, <1>2, <1>4, <1>6, <1>7, <1>8 DEF u

\* The events of the assertions of a step.
AreEvaluations(events) ==
  /\ events \in Seq(Event)
  /\ \A l \in DOMAIN events :
       /\ events[l].part = "main" /\ events[l].at = at
       /\ events[l].type = "assertion.evaluated"

LEMMA EvaluatedTypes ==
  ASSUME ExecTypeOK, at \in DOMAIN plan.steps, NEW holds
  PROVE  AreEvaluations(Evaluated(holds))
<1> DEFINE e(k) == [MainEvent("assertion.evaluated", IF holds[k] THEN "passed" ELSE "failed")
                      EXCEPT !.severity = Step.asserts[k]]
<1>1. Step.asserts \in Seq(Severity)
  BY PlanTypes DEF Step, FrozenStep
<1>2. \A k \in DOMAIN Step.asserts : Step.asserts[k] \in Severity
  BY <1>1
<1>3. \A k \in DOMAIN Step.asserts :
        /\ e(k) \in Event /\ e(k).part = "main" /\ e(k).at = at
        /\ e(k).type = "assertion.evaluated"
  <2>1. SUFFICES ASSUME NEW k \in DOMAIN Step.asserts
                 PROVE  /\ e(k) \in Event /\ e(k).part = "main" /\ e(k).at = at
                        /\ e(k).type = "assertion.evaluated"
    OBVIOUS
  <2>2. at \in Nat /\ Step.id \in Id /\ {} \in SUBSET Ref
    BY PlanTypes DEF ExecTypeOK, Step
  <2>3. QED BY <1>2, <2>2 DEF MainEvent, Event
<1>4. Evaluated(holds) = [k \in DOMAIN Step.asserts |-> e(k)]
  BY DEF Evaluated
<1> HIDE DEF e
<1>5. Evaluated(holds) \in Seq(Event)
  BY <1>1, <1>3, <1>4
<1>6. QED BY <1>3, <1>4, <1>5 DEF AreEvaluations

\* The events that end an attempt.
LEMMA EndOfAttempt ==
  ASSUME ExecTypeOK, LatestInv(log), at \in DOMAIN plan.steps,
         NEW result \in {"passed", "failed", "error"},
         NEW events, AreEvaluations(events),
         EndAttempt(events, result)
  PROVE  /\ log' \in Seq(Event) /\ LatestInv(log')
         /\ \A part, i : Starts(log', part, i) = Starts(log, part, i)
         /\ \A part, i : ~(part = "main" /\ i = at) =>
              OutcomeOf(log', part, i) = OutcomeOf(log, part, i)
         /\ OutcomeOf(log', "main", at) = result
         /\ \A i : i # at => Answers(log', i) = Answers(log, i)
         /\ result = "error" => Answers(log', at) = Answers(log, at)
         /\ \A k \in Answers(log', at) : k \in Answers(log, at) \/ k > Len(log)
         /\ \A k \in DOMAIN log' :
              \/ k \in DOMAIN log /\ log'[k] = log[k]
              \/ log'[k].part = "main" /\ log'[k].at = at /\ log'[k].type # "step.started"
<1> DEFINE e2 == MainEvent("step.finished", result)
           e3 == MainEvent("step.retried", "none")
           s1 == log \o events
           s2 == Append(s1, e2)
<1>1. e2 \in Event /\ e3 \in Event
  BY EventTypes
<1>2. /\ e2.part = "main" /\ e2.at = at /\ e2.type = "step.finished" /\ e2.result = result
      /\ e3.part = "main" /\ e3.at = at /\ e3.type = "step.retried"
  BY DEF MainEvent
<1>3. log' = s2 \/ log' = Append(s2, e3)
  BY DEF EndAttempt
<1>4. log \in Seq(Event) /\ events \in Seq(Event)
  BY DEF ExecTypeOK, AreEvaluations
<1>5. /\ s1 \in Seq(Event) /\ LatestInv(s1) /\ Len(s1) + 1 > Len(log) /\ Len(log) \in Nat
      /\ \A part, i : Starts(s1, part, i) = Starts(log, part, i)
      /\ \A part, i : OutcomeOf(s1, part, i) = OutcomeOf(log, part, i)
      /\ \A i : Answers(s1, i) = Answers(log, i)
      /\ \A k \in DOMAIN s1 :
           \/ k \in DOMAIN log /\ s1[k] = log[k]
           \/ s1[k].part = "main" /\ s1[k].at = at /\ s1[k].type # "step.started"
  <2>1. \A l \in DOMAIN events : events[l].part = "main" /\ events[l].at = at
                                /\ events[l].type = "assertion.evaluated"
    BY DEF AreEvaluations
  <2>2. /\ s1 \in Seq(Event) /\ LatestInv(s1) /\ Len(s1) = Len(log) + Len(events)
        /\ \A part, i, type : type # "assertion.evaluated" =>
             EventsOf(s1, part, i, type) = EventsOf(log, part, i, type)
        /\ \A part, i : OutcomeOf(s1, part, i) = OutcomeOf(log, part, i)
        /\ \A i : Answers(s1, i) = Answers(log, i)
        /\ \A k \in DOMAIN s1 :
             \/ k \in DOMAIN log /\ s1[k] = log[k]
             \/ \E l \in DOMAIN events : s1[k] = events[l]
    BY <1>4, <2>1, LogAssertions
  <2>3. Len(log) \in Nat /\ Len(events) \in Nat
    BY <1>4
  <2>4. \A part, i : Starts(s1, part, i) = Starts(log, part, i)
    BY <2>2 DEF Starts
  <2> HIDE DEF s1
  <2>5. \A k \in DOMAIN s1 :
           \/ k \in DOMAIN log /\ s1[k] = log[k]
           \/ s1[k].part = "main" /\ s1[k].at = at /\ s1[k].type # "step.started"
    BY <2>1, <2>2
  <2>6. QED BY <2>2, <2>3, <2>4, <2>5
<1> HIDE DEF e2, e3, s1, s2
<1>6. /\ s2 \in Seq(Event) /\ LatestInv(s2)
      /\ \A part, i : Starts(s2, part, i) = Starts(s1, part, i)
      /\ \A part, i : ~(part = "main" /\ i = at) => OutcomeOf(s2, part, i) = OutcomeOf(s1, part, i)
      /\ OutcomeOf(s2, "main", at) = result
      /\ \A i : Answers(s2, i) = IF i = at /\ result # "error"
                                 THEN Answers(s1, i) \cup {Len(s1) + 1} ELSE Answers(s1, i)
      /\ \A k \in DOMAIN s2 :
           \/ k \in DOMAIN s1 /\ s2[k] = s1[k]
           \/ s2[k].part = "main" /\ s2[k].at = at /\ s2[k].type # "step.started"
  <2>1. LatestInv(s2) /\ \A part, i : OutcomeOf(s2, part, i) =
          IF part = "main" /\ i = at THEN result ELSE OutcomeOf(s1, part, i)
    BY <1>1, <1>2, <1>5, AppendOutcome DEF s2
  <2>2. \A part, i, type : type # "step.finished" =>
          EventsOf(s2, part, i, type) = EventsOf(s1, part, i, type)
    BY <1>1, <1>2, <1>5, AppendEvents DEF s2
  <2>3. s2 \in Seq(Event) /\ \A k \in DOMAIN s2 :
          \/ k \in DOMAIN s1 /\ s2[k] = s1[k]
          \/ s2[k].part = "main" /\ s2[k].at = at /\ s2[k].type # "step.started"
    BY <1>1, <1>2, <1>5, AppendedEvent DEF s2
  <2>4. \A i : Answers(s2, i) = IF i = at /\ result # "error"
                               THEN Answers(s1, i) \cup {Len(s1) + 1} ELSE Answers(s1, i)
    BY <1>1, <1>2, <1>5, AppendAnswers DEF s2
  <2>5. QED BY <2>1, <2>2, <2>3, <2>4 DEF Starts
<1>7. /\ log' \in Seq(Event) /\ LatestInv(log')
      /\ \A part, i : Starts(log', part, i) = Starts(s2, part, i)
      /\ \A part, i : OutcomeOf(log', part, i) = OutcomeOf(s2, part, i)
      /\ \A i : Answers(log', i) = Answers(s2, i)
      /\ \A k \in DOMAIN log' :
           \/ k \in DOMAIN s2 /\ log'[k] = s2[k]
           \/ log'[k].part = "main" /\ log'[k].at = at /\ log'[k].type # "step.started"
  <2>1. CASE log' = s2
    BY <1>6, <2>1
  <2>2. CASE log' = Append(s2, e3)
    <3>1. LatestInv(log') /\ \A part, i : OutcomeOf(log', part, i) = OutcomeOf(s2, part, i)
      BY <1>1, <1>2, <1>6, <2>2, AppendOutcome
    <3>2. \A part, i, type : type # "step.retried" =>
            EventsOf(log', part, i, type) = EventsOf(s2, part, i, type)
      BY <1>1, <1>2, <1>6, <2>2, AppendEvents
    <3>3. log' \in Seq(Event) /\ \A k \in DOMAIN log' :
            \/ k \in DOMAIN s2 /\ log'[k] = s2[k]
            \/ log'[k].part = "main" /\ log'[k].at = at /\ log'[k].type # "step.started"
      BY <1>1, <1>2, <1>6, <2>2, AppendedEvent
    <3>4. \A i : Answers(log', i) = Answers(s2, i)
      BY <1>1, <1>2, <1>6, <2>2, AppendAnswers
    <3>5. QED BY <3>1, <3>2, <3>3, <3>4 DEF Starts
  <2>3. QED BY <1>3, <2>1, <2>2
<1>8. QED BY <1>5, <1>6, <1>7

-----------------------------------------------------------------------------
(* The steps of an execution.                                              *)

\* A step that appends one event keeps the log in order.
LEMMA LogGrows ==
  ASSUME ExecInv, NEW e \in Event, log' = Append(log, e)
  PROVE  /\ log' \in Seq(Event) /\ LatestInv(log')
         /\ \A part, i, type : EventsOf(log', part, i, type) =
              IF e.part = part /\ e.at = i /\ e.type = type
              THEN EventsOf(log, part, i, type) \cup {Len(log) + 1}
              ELSE EventsOf(log, part, i, type)
         /\ \A part, i : OutcomeOf(log', part, i) =
              IF e.part = part /\ e.at = i /\ e.type = "step.finished" THEN e.result
              ELSE OutcomeOf(log, part, i)
         /\ \A k \in DOMAIN log' : (k \in DOMAIN log /\ log'[k] = log[k] /\ k < Len(log) + 1)
                                   \/ (log'[k] = e /\ k = Len(log) + 1)
<1>1. log \in Seq(Event) /\ LatestInv(log)
  BY DEF ExecInv, ExecTypeOK
<1>2. QED BY <1>1, AppendedEvent, AppendEvents, AppendOutcome

\* An execution begins with nothing logged but that.
LEMMA ExecuteInv ==
  ASSUME ExecInv, NEW p \in ExecutionPlan, Execute(p)
  PROVE  ExecInv'
<1> DEFINE e == RunEvent("run.started", "none")
<1>1. /\ phase = "idle" /\ attempt = 0 /\ failed = 0 /\ log = <<>>
      /\ plan' = p /\ phase' = "main" /\ at' = 1 /\ log' = <<e>>
      /\ UNCHANGED <<attempt, poll, store, counts>>
  BY DEF Execute, ExecInv, PlaceInv
<1>2. e \in Event /\ e.part = "run" /\ e.type = "run.started"
  BY EventTypes DEF ExecInv, RunEvent
<1>3. log' = Append(log, e)
  BY <1>1
<1> HIDE DEF e
<1>4. log' \in Seq(Event) /\ LatestInv(log')
  BY <1>2, <1>3, LogGrows
<1>5. ExecTypeOK'
  BY <1>1, <1>4 DEF ExecInv, ExecTypeOK, Phase, counts
<1>6. Len(plan'.steps) \in Nat /\ \A i \in DOMAIN plan'.steps : plan'.steps[i].retries \in Nat
  BY <1>1, AnyPlanTypes
<1>7. PlaceInv'
  BY <1>1, <1>6 DEF PlaceInv, InMain, InTeardown, counts
<1>8. \A k \in DOMAIN log' : log'[k].part = "run" /\ log'[k].type = "run.started"
  BY <1>1, <1>2
<1>9. \A i : /\ \A type : EventsOf(log', "main", i, type) = {}
             /\ OutcomeOf(log', "main", i) = "none"
             /\ Cardinality(Starts(log', "main", i)) = 0
  BY <1>4, <1>8, NoEvents
<1>10. SentInv'
  <2>1. SentOnce(log)'
    BY <1>6, <1>9 DEF SentOnce, Starts, Answers, HasFailed
  <2>2. QED BY <1>1, <1>6, <1>8, <1>9, <2>1 DEF SentInv, InMain, Answers
<1>11. VerdictInv'
  BY <1>1 DEF VerdictInv, Done, InMain, counts
<1>12. CleanInv'
  BY <1>1, <1>8 DEF CleanInv, MainComesFirst, InTeardown
<1>13. MissingInv(log)'
  BY <1>8 DEF MissingInv
<1>14. QED BY <1>4, <1>5, <1>7, <1>10, <1>11, <1>12, <1>13 DEF ExecInv

\* A step that is left out has no outcome, and is excused.
LEMMA SkipStepInv ==
  ASSUME ExecInv, SkipStep
  PROVE  ExecInv'
<1>1. /\ phase = "main" /\ at \in DOMAIN plan.steps /\ attempt = 0 /\ InMain
      /\ at' = at + 1 /\ skipped' = skipped + 1
      /\ UNCHANGED <<plan, phase, attempt, poll, store, passed, failed, log>>
  BY PlanTypes DEF SkipStep, Fresh, InMain, ExecInv, PlaceInv
<1>2. /\ Len(plan.steps) \in Nat /\ DOMAIN plan.steps = 1..Len(plan.steps)
      /\ \A i \in DOMAIN plan.steps : plan.steps[i] \in FrozenStep
  BY PlanTypes DEF ExecInv
<1>3. ExecTypeOK'
  BY <1>1, <1>2 DEF ExecInv, ExecTypeOK
<1>4. PlaceInv'
  BY <1>1, <1>2 DEF ExecInv, PlaceInv, InMain, InTeardown
<1>5. \A i \in {at, at + 1} : /\ \A type : EventsOf(log, "main", i, type) = {}
                             /\ OutcomeOf(log, "main", i) = "none"
                             /\ Cardinality(Starts(log, "main", i)) = 0
  BY <1>1, <1>2, NotReachedInMain
<1>6. SentInv'
  <2>1. SentOnce(log)'
    BY <1>1 DEF ExecInv, SentInv, SentOnce
  <2>2. \A k \in DOMAIN log : log[k].part = "main" => log[k].at < at + 1
    BY <1>1, <1>2, LoggedAt DEF ExecInv, SentInv
  <2>3. at + 1 \in DOMAIN plan.steps =>
          /\ Cardinality(Starts(log, "main", at + 1)) = attempt
          /\ Answers(log, at + 1) = {}
          /\ attempt <= plan.steps[at + 1].retries
    <3>1. at + 1 \in DOMAIN plan.steps => plan.steps[at + 1].retries \in Nat
      BY PlanTypes DEF ExecInv
    <3>2. QED BY <1>1, <1>2, <1>5, <3>1 DEF Answers
  <2>4. \A i \in 1..at : HasFailed(log, i) => plan.steps[i].onFailure = "skip"
    BY <1>1, <1>2, <1>5 DEF ExecInv, SentInv, InMain, HasFailed
  <2>5. at + 1 - 1 = at
    BY <1>2, <1>1
  <2> DEFINE Here(p, s, i, n, f) ==
               i \in DOMAIN p.steps =>
                 /\ Cardinality(Starts(s, "main", i)) = n
                 /\ Answers(s, i) = {}
                 /\ n <= p.steps[i].retries + (IF f = "sending" THEN 1 ELSE 0)
             Before(p, s, i) ==
               \A j \in 1..(i - 1) : HasFailed(s, j) => p.steps[j].onFailure = "skip"
  <2>6. Here(plan', log', at', attempt', phase')
    <3>1. at + 1 \in DOMAIN plan.steps => plan.steps[at + 1].retries \in Nat
      BY PlanTypes DEF ExecInv
    <3>2. Here(plan, log, at + 1, attempt, phase)
      BY <1>1, <2>3, <3>1
    <3>3. QED BY <1>1, <3>2
  <2>7. Before(plan', log', at')
    <3>1. Before(plan, log, at + 1)
      <4>1. 1..((at + 1) - 1) = 1..at
        BY <1>1, <1>2
      <4>2. QED BY <2>4, <4>1
    <3>2. QED BY <1>1, <3>1
  <2>8. \A k \in DOMAIN log' : log'[k].part = "main" =>
          log'[k].at < at' \/ (log'[k].at = at' /\ attempt' > 0)
    BY <1>1, <2>2
  <2>9. QED BY <2>1, <2>6, <2>7, <2>8 DEF SentInv
<1>7. VerdictInv'
  <2>1. IsGood(log, at)
    <3>1. ~plan.steps[at].enabled \/ (IsFalse(Step) /\ Step.onFalse = "skip")
      BY <1>1, <1>2 DEF SkipStep, Step, FrozenStep
    <3>2. QED BY <1>5, <3>1 DEF IsGood, WasExcused, IsFalse, Step
  <2>2. \A i \in 1..at : i \in 1..(at - 1) \/ i = at
    BY <1>1, <1>2
  <2>3. Done' = 1..at /\ Done = 1..(at - 1)
    BY <1>1, <1>2 DEF Done, InMain
  <2>4. QED
    BY <1>1, <1>2, <2>1, <2>2, <2>3
      DEF ExecInv, VerdictInv, IsGood, IsBad, WasExcused, HasFailed
<1>8. CleanInv'
  BY <1>1 DEF ExecInv, CleanInv, InTeardown
<1>9. MissingInv(log)' /\ LatestInv(log)'
  BY <1>1 DEF ExecInv, MissingInv
<1>10. QED BY <1>3, <1>4, <1>6, <1>7, <1>8, <1>9 DEF ExecInv

\* A step that is refused for its condition fails the run.
LEMMA RefuseStepInv ==
  ASSUME ExecInv, RefuseStep
  PROVE  ExecInv'
<1>1. /\ phase = "main" /\ at \in DOMAIN plan.steps /\ attempt = 0 /\ InMain
      /\ failed' = failed + 1 /\ phase' = "stopped"
      /\ UNCHANGED <<plan, at, attempt, poll, store, passed, skipped, log>>
  BY PlanTypes DEF RefuseStep, Fresh, InMain, ExecInv, PlaceInv
<1>2. ExecTypeOK'
  BY <1>1 DEF ExecInv, ExecTypeOK, Phase
<1>3. PlaceInv'
  BY <1>1 DEF PlaceInv, InMain, InTeardown
<1>4. SentInv'
  BY <1>1 DEF ExecInv, SentInv, SentOnce, InMain
<1>5. VerdictInv'
  <2>1. IsBad(log, at)
    <3>1. OutcomeOf(log, "main", at) = "none"
      BY <1>1, NotReachedInMain DEF ExecInv, ExecTypeOK
    <3>2. QED BY <3>1 DEF IsBad, WasExcused, RefuseStep, IsFalse, Step
  <2>2. failed \in Nat
    BY DEF ExecInv, ExecTypeOK
  <2>3. QED BY <1>1, <2>1, <2>2 DEF VerdictInv, Done, InMain, IsBad, WasExcused, HasFailed
<1>6. CleanInv'
  BY <1>1 DEF ExecInv, CleanInv, InTeardown
<1>7. MissingInv(log)' /\ LatestInv(log)'
  BY <1>1 DEF ExecInv, MissingInv
<1>8. QED BY <1>2, <1>3, <1>4, <1>5, <1>6, <1>7 DEF ExecInv

\* While the main steps are executed no event is of the teardown.
LEMMA MainEventsOnly ==
  ASSUME ExecInv, InMain, plan' = plan, ~InTeardown', phase' # "done",
         \A k \in DOMAIN log' : (k \in DOMAIN log /\ log'[k] = log[k]) \/ log'[k].part = "main"
  PROVE  CleanInv'
<1>1. \A k \in DOMAIN log : log[k].part # "teardown"
  BY DEF ExecInv, CleanInv, InMain, InTeardown
<1>2. \A k \in DOMAIN log' : log'[k].part # "teardown"
  BY <1>1
<1>3. QED BY <1>2 DEF CleanInv, MainComesFirst

\* The attempts at a step are counted.
LEMMA BeginAttemptInv ==
  ASSUME ExecInv, BeginAttempt
  PROVE  ExecInv'
<1> DEFINE e == [MainEvent("step.started", "none") EXCEPT !.missing = Unresolved(Step)]
<1>1. /\ phase = "main" /\ at \in DOMAIN plan.steps /\ InMain
      /\ attempt' = attempt + 1 /\ poll' = 1 /\ phase' = "sending"
      /\ log' = Append(log, e)
      /\ UNCHANGED <<plan, at, store, passed, failed, skipped>>
  BY PlanTypes DEF BeginAttempt, InMain, ExecInv, PlaceInv, counts
<1>2. /\ Len(plan.steps) \in Nat /\ DOMAIN plan.steps = 1..Len(plan.steps)
      /\ at \in Nat /\ attempt \in Nat /\ log \in Seq(Event)
      /\ plan.steps[at].retries \in Nat /\ plan.steps[at].uses \subseteq Ref
      /\ plan.steps[at].id \in Id
  BY <1>1, PlanTypes DEF ExecInv, ExecTypeOK
<1>3. /\ e \in Event /\ e.part = "main" /\ e.at = at /\ e.type = "step.started"
      /\ e.missing \subseteq plan.steps[at].uses
  <2>1. Unresolved(Step) \subseteq plan.steps[at].uses
    BY DEF Unresolved, Step
  <2>2. QED BY <1>2, <2>1 DEF MainEvent, Event, Step
<1> HIDE DEF e
<1>4. /\ log' \in Seq(Event) /\ LatestInv(log')
      /\ \A i, type : EventsOf(log', "main", i, type) =
           IF i = at /\ type = "step.started"
           THEN EventsOf(log, "main", i, type) \cup {Len(log) + 1}
           ELSE EventsOf(log, "main", i, type)
      /\ \A i : OutcomeOf(log', "main", i) = OutcomeOf(log, "main", i)
      /\ \A k \in DOMAIN log' : (k \in DOMAIN log /\ log'[k] = log[k] /\ k < Len(log) + 1)
                                \/ (log'[k] = e /\ k = Len(log) + 1)
  BY <1>1, <1>3, LogGrows
<1>5. ExecTypeOK'
  BY <1>1, <1>2, <1>4 DEF ExecInv, ExecTypeOK, Phase
<1>6. PlaceInv'
  BY <1>1, <1>2 DEF ExecInv, PlaceInv, InMain, InTeardown
<1>7. /\ Cardinality(Starts(log', "main", at)) = attempt + 1
      /\ attempt <= plan.steps[at].retries
      /\ \A i : Answers(log', i) = Answers(log, i)
      /\ Answers(log, at) = {}
      /\ \A i : i # at => Starts(log', "main", i) = Starts(log, "main", i)
      /\ \A i : HasFailed(log', i) <=> HasFailed(log, i)
  <2>1. /\ Cardinality(Starts(log, "main", at)) = attempt
        /\ Answers(log, at) = {}
        /\ attempt <= plan.steps[at].retries
    BY <1>1, <1>2 DEF ExecInv, SentInv
  <2>2. Cardinality(Starts(log', "main", at)) = attempt + 1
    BY <1>2, <1>4, <2>1, EventsAreFinite DEF Starts
  <2>3. \A i : Answers(log', i) = Answers(log, i)
    BY <1>1, <1>2, <1>3, AppendAnswers
  <2>4. QED BY <1>4, <2>1, <2>2, <2>3 DEF Starts, HasFailed
<1>8. \A i \in 1..(at - 1) : HasFailed(log, i) => plan.steps[i].onFailure = "skip"
  BY <1>1 DEF ExecInv, SentInv
<1>9. SentInv'
  <2>1. SentOnce(log)'
    <3>1. SUFFICES ASSUME NEW i \in DOMAIN plan.steps
                   PROVE  /\ Cardinality(Starts(log', "main", i)) <= plan.steps[i].retries + 1
                          /\ \A k \in Answers(log', i), l \in Starts(log', "main", i) : l < k
                          /\ HasFailed(log', i) /\ plan.steps[i].onFailure # "skip" =>
                               \A j \in (i + 1)..Len(plan.steps) : Starts(log', "main", j) = {}
      BY <1>1 DEF SentOnce
    <3>2. SentOnce(log)
      BY DEF ExecInv, SentInv
    <3>3. CASE i # at
      <4>1. ASSUME HasFailed(log', i), plan.steps[i].onFailure # "skip",
                   NEW j \in (i + 1)..Len(plan.steps)
            PROVE  Starts(log', "main", j) = {}
        <5>1. HasFailed(log, i) /\ Starts(log, "main", j) = {}
          BY <1>7, <3>2, <4>1 DEF SentOnce
        <5>2. j # at
          BY <1>2, <1>8, <4>1, <5>1
        <5>3. QED BY <1>7, <5>1, <5>2
      <4>2. QED BY <1>7, <3>2, <3>3, <4>1 DEF SentOnce
    <3>4. CASE i = at
      <4>1. ASSUME NEW j \in (i + 1)..Len(plan.steps)
            PROVE  Starts(log', "main", j) = {}
        <5>1. j # at /\ j \in Nat /\ j > at
          BY <1>2, <3>4
        <5>2. Starts(log, "main", j) = {}
          BY <1>1, <5>1, NotReachedInMain DEF Starts
        <5>3. QED BY <1>7, <5>1, <5>2
      <4>2. QED BY <1>2, <1>7, <3>4, <4>1
    <3>5. QED BY <3>3, <3>4
  <2>2. \A k \in DOMAIN log' : log'[k].part = "main" =>
          log'[k].at < at \/ (log'[k].at = at /\ attempt + 1 > 0)
    BY <1>1, <1>2, <1>3, <1>4 DEF ExecInv, SentInv
  <2>3. QED BY <1>1, <1>2, <1>7, <1>8, <2>1, <2>2 DEF SentInv, InMain
<1>10. VerdictInv'
  BY <1>1, <1>4, <1>7 DEF ExecInv, VerdictInv, Done, InMain, IsGood, IsBad, WasExcused
<1>11. CleanInv'
  <2>1. ~InTeardown' /\ phase' # "done"
    BY <1>1 DEF InTeardown
  <2>2. QED BY <1>1, <1>3, <1>4, <2>1, MainEventsOnly
<1>12. MissingInv(log)'
  BY <1>1, <1>3, <1>4 DEF ExecInv, MissingInv
<1>13. QED BY <1>4, <1>5, <1>6, <1>9, <1>10, <1>11, <1>12 DEF ExecInv

\* Another poll is of the same attempt.
LEMMA PollAgainInv ==
  ASSUME ExecInv, PollAgain
  PROVE  ExecInv'
<1>1. phase = "sending" /\ poll' = poll + 1
      /\ UNCHANGED <<plan, phase, at, attempt, store, passed, failed, skipped, log>>
  BY DEF PollAgain, counts
<1>2. ExecTypeOK'
  BY <1>1 DEF ExecInv, ExecTypeOK
<1>3. PlaceInv'
  BY <1>1 DEF ExecInv, PlaceInv, InMain, InTeardown
<1>4. SentInv'
  BY <1>1 DEF ExecInv, SentInv, SentOnce, InMain
<1>5. VerdictInv'
  BY <1>1 DEF ExecInv, VerdictInv, Done, InMain, IsGood, IsBad, WasExcused
<1>6. CleanInv'
  BY <1>1 DEF ExecInv, CleanInv, InTeardown, Exhausted
<1>7. MissingInv(log)' /\ LatestInv(log)'
  BY <1>1 DEF ExecInv, MissingInv
<1>8. QED BY <1>2, <1>3, <1>4, <1>5, <1>6, <1>7 DEF ExecInv

\* An attempt that ended is repeated or settles its step.
LEMMA AttemptEnds ==
  ASSUME ExecInv, phase = "sending", plan' = plan, skipped' = skipped,
         store' \in [Name -> Value], poll' = 0,
         NEW result \in {"passed", "failed", "error"},
         NEW events, AreEvaluations(events),
         EndAttempt(events, result)
  PROVE  ExecInv'
<1>1. /\ at \in DOMAIN plan.steps /\ at \in Nat /\ attempt \in Nat /\ attempt > 0
      /\ Len(plan.steps) \in Nat /\ DOMAIN plan.steps = 1..Len(plan.steps)
      /\ plan.steps[at].retries \in Nat /\ log \in Seq(Event)
      /\ passed \in Nat /\ failed \in Nat /\ InMain
  <2>1. at \in DOMAIN plan.steps /\ attempt > 0 /\ InMain
    BY DEF ExecInv, PlaceInv, InMain
  <2>2. QED BY <2>1, PlanTypes DEF ExecInv, ExecTypeOK
<1>2. /\ log' \in Seq(Event) /\ LatestInv(log')
      /\ \A part, i : Starts(log', part, i) = Starts(log, part, i)
      /\ \A part, i : ~(part = "main" /\ i = at) =>
           OutcomeOf(log', part, i) = OutcomeOf(log, part, i)
      /\ OutcomeOf(log', "main", at) = result
      /\ \A i : i # at => Answers(log', i) = Answers(log, i)
      /\ result = "error" => Answers(log', at) = Answers(log, at)
      /\ \A k \in Answers(log', at) : k \in Answers(log, at) \/ k > Len(log)
      /\ \A k \in DOMAIN log' :
           \/ k \in DOMAIN log /\ log'[k] = log[k]
           \/ log'[k].part = "main" /\ log'[k].at = at /\ log'[k].type # "step.started"
  BY <1>1, EndOfAttempt DEF ExecInv
<1>3. \/ /\ result = "error" /\ attempt <= plan.steps[at].retries
         /\ phase' = "main" /\ UNCHANGED <<at, attempt, passed, failed>>
      \/ /\ result = "passed" \/ plan.steps[at].onFailure = "skip"
         /\ phase' = "main" /\ at' = at + 1 /\ attempt' = 0
      \/ /\ result # "passed" /\ phase' = "stopped" /\ at' = at /\ attempt' = 0
  BY DEF EndAttempt, MayRetry, Settle, Leave, Step
<1>4. \/ passed' = passed /\ failed' = failed /\ attempt' = attempt
      \/ /\ attempt' = 0
         /\ passed' = passed + (IF result = "passed" THEN 1 ELSE 0)
         /\ failed' = failed + (IF result = "passed" THEN 0 ELSE 1)
  BY DEF EndAttempt, Settle, Leave
<1>5. /\ Cardinality(Starts(log, "main", at)) = attempt
      /\ Answers(log, at) = {}
      /\ attempt <= plan.steps[at].retries + 1
      /\ \A i \in 1..(at - 1) : HasFailed(log, i) => plan.steps[i].onFailure = "skip"
  BY <1>1 DEF ExecInv, SentInv
<1>6. ExecTypeOK'
  <2>1. at' \in Nat /\ attempt' \in Nat /\ phase' \in Phase
    BY <1>1, <1>3 DEF Phase
  <2>2. passed' \in Nat /\ failed' \in Nat
    BY <1>1, <1>4
  <2>3. QED BY <1>2, <2>1, <2>2 DEF ExecInv, ExecTypeOK
<1>7. PlaceInv'
  <2>1. at + 1 \in 1..(Len(plan.steps) + 1) /\ at \in 1..(Len(plan.steps) + 1)
        /\ at <= Len(plan.steps)
    BY <1>1
  <2>2. QED BY <1>1, <1>3, <2>1 DEF PlaceInv, InMain, InTeardown
<1>8. \A i : i # at =>
        /\ Answers(log', i) = Answers(log, i)
        /\ HasFailed(log', i) <=> HasFailed(log, i)
        /\ OutcomeOf(log', "main", i) = OutcomeOf(log, "main", i)
  BY <1>2 DEF HasFailed
<1>9. HasFailed(log', at) <=> result # "passed"
  BY <1>2 DEF HasFailed
<1>10. \A j \in Nat : j > at =>
         /\ Starts(log', "main", j) = {} /\ Cardinality(Starts(log', "main", j)) = 0
         /\ Answers(log', j) = {} /\ ~HasFailed(log', j)
  <2>1. \A j \in Nat : j > at =>
          /\ Starts(log, "main", j) = {} /\ Cardinality(Starts(log, "main", j)) = 0
          /\ Answers(log, j) = {} /\ ~HasFailed(log, j)
    BY <1>1, NotReachedInMain DEF Starts, Answers, HasFailed
  <2>2. QED BY <1>1, <1>2, <1>8, <2>1
<1>11. SentInv'
  <2>1. SentOnce(log)'
    <3>1. SUFFICES ASSUME NEW i \in DOMAIN plan.steps
                   PROVE  /\ Cardinality(Starts(log', "main", i)) <= plan.steps[i].retries + 1
                          /\ \A k \in Answers(log', i), l \in Starts(log', "main", i) : l < k
                          /\ HasFailed(log', i) /\ plan.steps[i].onFailure # "skip" =>
                               \A j \in (i + 1)..Len(plan.steps) : Starts(log', "main", j) = {}
      BY DEF SentOnce
    <3>2. SentOnce(log)
      BY DEF ExecInv, SentInv
    <3>3. CASE i # at
      BY <1>2, <1>8, <3>2, <3>3 DEF SentOnce
    <3>4. CASE i = at
      <4>1. /\ \A l \in Starts(log, "main", at) : l <= Len(log) /\ l \in Nat
            /\ Len(log) \in Nat /\ Answers(log', at) \subseteq Nat
        BY <1>1, <1>2 DEF Starts, Answers, EventsOf
      <4>2. \A k \in Answers(log', at) : k > Len(log)
        BY <1>2, <1>5
      <4>3. \A j \in (at + 1)..Len(plan.steps) : j \in Nat /\ j > at
        BY <1>1
      <4>4. QED BY <1>2, <1>5, <1>10, <3>4, <4>1, <4>2, <4>3
    <3>5. QED BY <3>3, <3>4
  <2>2. \A k \in DOMAIN log' : log'[k].part = "main" => log'[k].at <= at
    BY <1>1, <1>2, LoggedAt DEF ExecInv, SentInv
  <2>3. \A k \in DOMAIN log' : log'[k].part = "main" => log'[k].at \in Nat
    BY <1>1, <1>2, LoggedAt DEF ExecInv
  <2>4. CASE phase' = "main" /\ at' = at /\ attempt' = attempt /\ result = "error"
             /\ attempt <= plan.steps[at].retries
    <3>1. Answers(log', at) = {}
      BY <1>2, <1>5, <2>4
    <3>2. \A i \in 1..(at - 1) : HasFailed(log', i) => plan.steps[i].onFailure = "skip"
      BY <1>1, <1>5, <1>8
    <3>3. \A k \in DOMAIN log' : log'[k].part = "main" =>
            log'[k].at < at \/ (log'[k].at = at /\ attempt > 0)
      BY <1>1, <2>2, <2>3
    <3>4. QED BY <1>1, <1>2, <1>5, <2>1, <2>4, <3>1, <3>2, <3>3 DEF SentInv, InMain
  <2>5. CASE phase' = "main" /\ at' = at + 1 /\ attempt' = 0
             /\ (result = "passed" \/ plan.steps[at].onFailure = "skip")
    <3>1. \A i \in 1..at : HasFailed(log', i) => plan.steps[i].onFailure = "skip"
      <4>1. \A i \in 1..at : i \in 1..(at - 1) \/ i = at
        BY <1>1
      <4>2. QED BY <1>5, <1>8, <1>9, <2>5, <4>1
    <3>2. 1..((at + 1) - 1) = 1..at /\ at + 1 \in Nat /\ at + 1 > at
      BY <1>1
    <3>3. \A k \in DOMAIN log' : log'[k].part = "main" => log'[k].at < at + 1
      BY <1>1, <2>2, <2>3
    <3>4. at + 1 \in DOMAIN plan.steps => plan.steps[at + 1].retries \in Nat
      BY PlanTypes DEF ExecInv
    <3>5. at + 1 \in DOMAIN plan.steps =>
            /\ Cardinality(Starts(log', "main", at + 1)) = 0
            /\ Answers(log', at + 1) = {}
            /\ 0 <= plan.steps[at + 1].retries + 0
      BY <1>10, <3>2, <3>4
    <3>6. QED BY <2>1, <2>5, <3>1, <3>2, <3>3, <3>5 DEF SentInv, InMain
  <2>6. CASE phase' = "stopped"
    BY <2>1, <2>6 DEF SentInv, InMain
  <2>7. QED BY <1>3, <2>4, <2>5, <2>6
<1>12. VerdictInv'
  <2>1. /\ failed = 0 => \A i \in 1..(at - 1) : IsGood(log, i)
        /\ failed > 0 => \E i \in 1..(at - 1) : IsBad(log, i)
    BY <1>1 DEF ExecInv, VerdictInv, Done
  <2>2. \A i \in 1..(at - 1) : i # at /\ i \in 1..at /\ i \in DOMAIN plan.steps
    BY <1>1
  <2>3. /\ failed = 0 => \A i \in 1..(at - 1) : IsGood(log', i)
        /\ failed > 0 => \E i \in 1..(at - 1) : IsBad(log', i)
    BY <1>8, <2>1, <2>2 DEF IsGood, IsBad, WasExcused
  <2>4. result = "passed" => IsGood(log', at)
    BY <1>2 DEF IsGood
  <2>5. result # "passed" => IsBad(log', at)
    BY <1>9 DEF IsBad
  <2>6. failed' \in Nat /\ failed \in Nat
        /\ (failed' = failed \/ (result # "passed" /\ failed' > 0))
    BY <1>1, <1>4
  <2>7. CASE phase' = "main" /\ at' = at /\ failed' = failed
    <3>1. Done' = 1..(at - 1)
      BY <2>7 DEF Done, InMain
    <3>2. QED BY <2>3, <2>7, <3>1 DEF VerdictInv, IsGood, IsBad, WasExcused, HasFailed
  <2>8. CASE phase' = "main" /\ at' = at + 1 /\ (result # "passed" => failed' > 0)
             /\ (result = "passed" => failed' = failed)
    <3>1. Done' = 1..at
      <4>1. 1..((at + 1) - 1) = 1..at
        BY <1>1
      <4>2. QED BY <2>8, <4>1 DEF Done, InMain
    <3>2. \A i \in 1..at : i \in 1..(at - 1) \/ i = at
      BY <1>1
    <3>3. at \in 1..at
      BY <1>1
    <3>4. /\ failed' = 0 => \A i \in 1..at : IsGood(log', i)
          /\ failed' > 0 => \E i \in 1..at : IsBad(log', i)
      BY <2>2, <2>3, <2>4, <2>5, <2>6, <2>8, <3>2, <3>3
    <3>5. QED BY <2>8, <3>1, <3>4 DEF VerdictInv, IsGood, IsBad, WasExcused, HasFailed
  <2>9. CASE phase' = "stopped" /\ result # "passed" /\ failed' > 0
    <3>1. Done' = DOMAIN plan.steps
      BY <2>9 DEF Done, InMain
    <3>2. QED
      BY <1>1, <2>5, <2>6, <2>9, <3>1 DEF VerdictInv, IsGood, IsBad, WasExcused, HasFailed
  <2>10. \/ phase' = "main" /\ at' = at /\ failed' = failed
         \/ /\ phase' = "main" /\ at' = at + 1
            /\ result # "passed" => failed' > 0
            /\ result = "passed" => failed' = failed
         \/ phase' = "stopped" /\ result # "passed" /\ failed' > 0
    BY <1>1 DEF EndAttempt, Settle, Leave
  <2>11. QED BY <2>7, <2>8, <2>9, <2>10
<1>13. CleanInv'
  <2>1. ~InTeardown' /\ phase' # "done"
    BY <1>3 DEF InTeardown
  <2>2. QED BY <1>1, <1>2, <2>1, MainEventsOnly
<1>14. MissingInv(log)'
  BY <1>2 DEF ExecInv, MissingInv
<1>15. QED BY <1>2, <1>6, <1>7, <1>11, <1>12, <1>13, <1>14 DEF ExecInv

\* After the main steps nothing that is said of them changes.
LEMMA MainStays ==
  ASSUME ExecInv, phase # "idle", phase' \in {"teardown", "cleaning", "done"},
         InMain => at = Len(plan.steps) + 1, plan' = plan, failed' = failed,
         NEW e \in Event, e.part # "main", log' = log \/ log' = Append(log, e)
  PROVE  /\ log' \in Seq(Event) /\ LatestInv(log)' /\ SentInv' /\ VerdictInv'
         /\ MissingInv(log)' /\ MainComesFirst(log)'
<1>1. /\ log' \in Seq(Event) /\ LatestInv(log')
      /\ \A i, type : EventsOf(log', "main", i, type) = EventsOf(log, "main", i, type)
      /\ \A i : OutcomeOf(log', "main", i) = OutcomeOf(log, "main", i)
      /\ \A k \in DOMAIN log' :
           \/ k \in DOMAIN log /\ log'[k] = log[k]
           \/ log'[k].part # "main" /\ \A l \in DOMAIN log : l < k
  <2>1. CASE log' = log
    BY <2>1 DEF ExecInv, ExecTypeOK
  <2>2. CASE log' = Append(log, e)
    <3>1. \A l \in DOMAIN log : l < Len(log) + 1
      BY DEF ExecInv, ExecTypeOK
    <3>2. QED BY <2>2, <3>1, LogGrows
  <2>3. QED BY <2>1, <2>2
<1>2. SentInv'
  <2>1. SentOnce(log)
    BY DEF ExecInv, SentInv
  <2>2. SentOnce(log)'
    <3>1. \A i : Answers(log', i) = Answers(log, i)
      BY <1>1 DEF Answers, EventsOf
    <3>2. QED BY <1>1, <2>1, <3>1 DEF SentOnce, Starts, HasFailed
  <2>3. QED BY <2>2 DEF SentInv, InMain
<1>3. VerdictInv'
  <2>1. Done = DOMAIN plan.steps /\ Done' = DOMAIN plan.steps
    <3>1. Len(plan.steps) \in Nat /\ DOMAIN plan.steps = 1..Len(plan.steps)
      BY PlanTypes DEF ExecInv
    <3>2. at = Len(plan.steps) + 1 => 1..(at - 1) = 1..Len(plan.steps)
      BY <3>1
    <3>3. QED BY <3>1, <3>2 DEF Done, InMain
  <2>2. QED
    BY <1>1, <2>1 DEF ExecInv, VerdictInv, IsGood, IsBad, WasExcused, HasFailed
<1>4. MissingInv(log)'
  BY <1>1 DEF ExecInv, MissingInv
<1>5. MainComesFirst(log)'
  <2>1. MainComesFirst(log)
    BY DEF ExecInv, CleanInv
  <2>2. QED BY <1>1, <2>1 DEF MainComesFirst
<1>6. QED BY <1>1, <1>2, <1>3, <1>4, <1>5

\* The teardown begins, and its marker is of no step.
LEMMA BeginTeardownInv ==
  ASSUME ExecInv, BeginTeardown
  PROVE  ExecInv'
<1> DEFINE e == TeardownEvent
<1>1. /\ phase # "idle" /\ ~InTeardown /\ phase # "done" /\ attempt = 0
      /\ InMain => at = Len(plan.steps) + 1
      /\ phase' = "teardown" /\ at' = 1
      /\ log' = log \/ log' = Append(log, e)
      /\ UNCHANGED <<plan, attempt, poll, store, passed, failed, skipped>>
  <2>1. phase = "stopped" \/ (phase = "main" /\ at > Len(plan.steps))
    BY DEF BeginTeardown
  <2>2. /\ phase' = "teardown" /\ at' = 1 /\ (log' = log \/ log' = Append(log, e))
        /\ UNCHANGED <<plan, attempt, poll, store, passed, failed, skipped>>
    BY DEF BeginTeardown, counts
  <2>3. attempt = 0 /\ (phase = "main" => at \in 1..(Len(plan.steps) + 1))
    BY <2>1 DEF ExecInv, PlaceInv, InMain
  <2>4. Len(plan.steps) \in Nat
    BY PlanTypes DEF ExecInv
  <2>5. QED BY <2>1, <2>2, <2>3, <2>4 DEF InMain, InTeardown
<1>2. e \in Event /\ e.part = "teardown" /\ e.at = 0
  BY MarksAreIds DEF TeardownEvent, Event
<1> HIDE DEF e
<1>3. /\ log' \in Seq(Event) /\ LatestInv(log)' /\ SentInv' /\ VerdictInv'
      /\ MissingInv(log)' /\ MainComesFirst(log)'
  BY <1>1, <1>2, MainStays
<1>4. ExecTypeOK'
  BY <1>1, <1>3 DEF ExecInv, ExecTypeOK, Phase
<1>5. Len(plan.teardown) \in Nat /\ \A i \in DOMAIN plan.teardown : plan.teardown[i].retries \in Nat
  BY PlanTypes DEF ExecInv
<1>6. PlaceInv'
  BY <1>1, <1>5 DEF PlaceInv, InMain, InTeardown
<1>7. \A k \in DOMAIN log' : log'[k].part = "teardown" => log'[k].at = 0
  <2>1. \A k \in DOMAIN log : log[k].part # "teardown"
    BY <1>1 DEF ExecInv, CleanInv
  <2>2. CASE log' = log
    BY <2>1, <2>2
  <2>3. CASE log' = Append(log, e)
    BY <1>2, <2>1, <2>3, LogGrows
  <2>4. QED BY <1>1, <2>2, <2>3
<1>8. CleanInv'
  <2>1. Cardinality(Starts(log', "teardown", 1)) = 0
    BY <1>3, <1>7, NoEvents
  <2>2. \A i \in 1..(1 - 1) : FALSE
    OBVIOUS
  <2>3. \A k \in DOMAIN log' : log'[k].part = "teardown" => log'[k].at < 1
    BY <1>7
  <2>4. 1 \in DOMAIN plan.teardown => 0 <= plan.teardown[1].retries + 0
    BY <1>5
  <2>5. QED BY <1>1, <1>3, <2>1, <2>2, <2>3, <2>4 DEF CleanInv, InTeardown
<1>9. QED BY <1>3, <1>4, <1>6, <1>8 DEF ExecInv

\* What the steps of the teardown have in common.
LEMMA CleanupTypes ==
  ASSUME ExecInv, InTeardown
  PROVE  /\ at \in Nat /\ at > 0 /\ attempt \in Nat /\ log \in Seq(Event)
         /\ Len(plan.teardown) \in Nat /\ DOMAIN plan.teardown = 1..Len(plan.teardown)
         /\ \A i \in DOMAIN plan.teardown :
              plan.teardown[i].retries \in Nat /\ plan.teardown[i].enabled \in BOOLEAN
         /\ at <= Len(plan.teardown) => at \in DOMAIN plan.teardown
         /\ at \in DOMAIN plan.teardown => at + 1 \in 1..(Len(plan.teardown) + 1)
         /\ 1..((at + 1) - 1) = 1..at
         /\ \A i \in 1..at : i \in 1..(at - 1) \/ i = at
         /\ \A i \in 1..(at - 1) : i # at
         /\ \A k \in DOMAIN log : log[k].part = "teardown" => log[k].at <= at
         /\ \A k \in DOMAIN log : log[k].at \in Nat
<1>1. /\ at \in Nat /\ at > 0 /\ attempt \in Nat /\ log \in Seq(Event)
  BY PlanTypes DEF ExecInv, ExecTypeOK, PlaceInv
<1>2. /\ Len(plan.teardown) \in Nat /\ DOMAIN plan.teardown = 1..Len(plan.teardown)
      /\ \A i \in DOMAIN plan.teardown :
           plan.teardown[i].retries \in Nat /\ plan.teardown[i].enabled \in BOOLEAN
  BY PlanTypes DEF ExecInv
<1>3. \A k \in DOMAIN log : log[k].at \in Nat
  BY LoggedAt DEF ExecInv
<1>4. \A k \in DOMAIN log : log[k].part = "teardown" => log[k].at <= at
  BY <1>1, <1>3 DEF ExecInv, CleanInv
<1>5. QED BY <1>1, <1>2, <1>3, <1>4

\* A step of the teardown that is off owes nothing.
LEMMA SkipCleanupInv ==
  ASSUME ExecInv, SkipCleanup
  PROVE  ExecInv'
<1>1. /\ phase = "teardown" /\ InTeardown /\ at <= Len(plan.teardown)
      /\ ~plan.teardown[at].enabled /\ at' = at + 1
      /\ UNCHANGED <<plan, phase, attempt, poll, store, passed, failed, skipped, log>>
  BY DEF SkipCleanup, Cleanup, InTeardown, counts
<1>2. attempt = 0
  BY <1>1 DEF ExecInv, PlaceInv, ExecTypeOK
<1>3. SentInv' /\ VerdictInv' /\ MissingInv(log)' /\ LatestInv(log)'
  BY <1>1
    DEF ExecInv, SentInv, SentOnce, VerdictInv, Done, InMain, IsGood, IsBad, WasExcused,
        MissingInv
<1>4. ExecTypeOK'
  BY <1>1, CleanupTypes DEF ExecInv, ExecTypeOK
<1>5. PlaceInv'
  BY <1>1, <1>2, CleanupTypes DEF ExecInv, PlaceInv, InMain, InTeardown
<1>6. CleanInv'
  <2>1. \A i \in 1..at : plan.teardown[i].enabled => Exhausted(log, i)
    BY <1>1, CleanupTypes DEF ExecInv, CleanInv
  <2>2. \A k \in DOMAIN log : log[k].part = "teardown" => log[k].at < at + 1
    BY <1>1, CleanupTypes
  <2>3. at + 1 \in DOMAIN plan.teardown =>
          Cardinality(Starts(log, "teardown", at + 1)) = 0 /\ 0 <= plan.teardown[at + 1].retries + 0
    BY <1>1, CleanupTypes, NotReachedInTeardown
  <2>4. MainComesFirst(log)
    BY DEF ExecInv, CleanInv
  <2>5. 1..(at' - 1) = 1..at
    BY <1>1, CleanupTypes
  <2>6. QED
    BY <1>1, <1>2, <2>1, <2>2, <2>3, <2>4, <2>5
      DEF CleanInv, InTeardown, Exhausted, MainComesFirst
<1>7. QED BY <1>3, <1>4, <1>5, <1>6 DEF ExecInv

\* The attempts at a step of the teardown are counted.
LEMMA BeginCleanupInv ==
  ASSUME ExecInv, BeginCleanup
  PROVE  ExecInv'
<1> DEFINE e == CleanupEvent("step.started", "none")
<1>1. /\ phase = "teardown" /\ InTeardown /\ ~InMain /\ at <= Len(plan.teardown)
      /\ plan.teardown[at].enabled /\ attempt' = attempt + 1 /\ phase' = "cleaning"
      /\ log' = Append(log, e)
      /\ UNCHANGED <<plan, at, poll, store, passed, failed, skipped>>
  BY DEF BeginCleanup, Cleanup, InTeardown, InMain, counts
<1>2. at \in DOMAIN plan.teardown
  BY <1>1, CleanupTypes
<1>3. /\ e \in Event /\ e.part = "teardown" /\ e.at = at /\ e.type = "step.started"
  BY <1>2, EventTypes DEF ExecInv, CleanupEvent
<1> HIDE DEF e
<1>4. /\ log' \in Seq(Event) /\ LatestInv(log)' /\ SentInv' /\ VerdictInv'
      /\ MissingInv(log)' /\ MainComesFirst(log)'
  BY <1>1, <1>3, MainStays
<1>5. ExecTypeOK'
  BY <1>1, <1>4, CleanupTypes DEF ExecInv, ExecTypeOK, Phase
<1>6. PlaceInv'
  BY <1>1, <1>2, CleanupTypes DEF ExecInv, PlaceInv, InMain, InTeardown
<1>7. /\ \A i, type : EventsOf(log', "teardown", i, type) =
           IF i = at /\ type = "step.started"
           THEN EventsOf(log, "teardown", i, type) \cup {Len(log) + 1}
           ELSE EventsOf(log, "teardown", i, type)
      /\ \A i : OutcomeOf(log', "teardown", i) = OutcomeOf(log, "teardown", i)
      /\ \A k \in DOMAIN log' : (k \in DOMAIN log /\ log'[k] = log[k]) \/ log'[k] = e
  BY <1>1, <1>3, LogGrows
<1>8. CleanInv'
  <2>1. Cardinality(Starts(log, "teardown", at)) = attempt /\ attempt <= plan.teardown[at].retries
    BY <1>1, <1>2, CleanupTypes DEF ExecInv, CleanInv
  <2>2. Cardinality(Starts(log', "teardown", at)) = attempt + 1
    BY <1>1, <1>7, <2>1, CleanupTypes, EventsAreFinite DEF Starts
  <2>3. \A i \in 1..(at - 1) : plan.teardown[i].enabled => Exhausted(log', i)
    <3>1. \A i \in 1..(at - 1) : i # at /\ (plan.teardown[i].enabled => Exhausted(log, i))
      BY <1>1, CleanupTypes DEF ExecInv, CleanInv
    <3>2. QED BY <1>7, <3>1 DEF Exhausted, Starts
  <2>4. \A k \in DOMAIN log' : log'[k].part = "teardown" =>
          log'[k].at < at \/ (log'[k].at = at /\ attempt + 1 > 0)
    BY <1>1, <1>3, <1>7, CleanupTypes
  <2>5. attempt + 1 <= plan.teardown[at].retries + 1
    BY <1>1, <1>2, <2>1, CleanupTypes
  <2>6. QED
    BY <1>1, <1>4, <2>2, <2>3, <2>4, <2>5 DEF CleanInv, InTeardown, Exhausted
<1>9. QED BY <1>4, <1>5, <1>6, <1>8 DEF ExecInv

\* A step of the teardown is repeated, or is done with.
LEMMA CleanupEndsInv ==
  ASSUME ExecInv, NEW result \in {"passed", "error"}, CleanupEnds(result)
  PROVE  ExecInv'
<1> DEFINE e == CleanupEvent("step.finished", result)
<1>1. /\ phase = "cleaning" /\ InTeardown /\ ~InMain /\ phase' = "teardown"
      /\ log' = Append(log, e)
      /\ UNCHANGED <<plan, poll, store, passed, failed, skipped>>
  BY DEF CleanupEnds, InTeardown, InMain, counts
<1>2. at \in DOMAIN plan.teardown /\ plan.teardown[at].enabled /\ attempt > 0
      /\ at <= Len(plan.teardown)
  BY <1>1, CleanupTypes DEF ExecInv, PlaceInv
<1>3. \/ /\ result = "passed" \/ attempt > plan.teardown[at].retries
         /\ attempt' = 0 /\ at' = at + 1
      \/ /\ attempt <= plan.teardown[at].retries /\ attempt' = attempt /\ at' = at
  BY <1>1, <1>2, CleanupTypes DEF CleanupEnds, Cleanup
<1>4. /\ e \in Event /\ e.part = "teardown" /\ e.at = at /\ e.type = "step.finished"
      /\ e.result = result
  BY <1>2, EventTypes DEF ExecInv, CleanupEvent
<1> HIDE DEF e
<1>5. /\ log' \in Seq(Event) /\ LatestInv(log)' /\ SentInv' /\ VerdictInv'
      /\ MissingInv(log)' /\ MainComesFirst(log)'
  BY <1>1, <1>4, MainStays
<1>6. ExecTypeOK'
  BY <1>1, <1>3, <1>5, CleanupTypes DEF ExecInv, ExecTypeOK, Phase
<1>7. PlaceInv'
  BY <1>1, <1>2, <1>3, CleanupTypes DEF PlaceInv, InMain, InTeardown
<1>8. /\ \A i : Starts(log', "teardown", i) = Starts(log, "teardown", i)
      /\ \A i : OutcomeOf(log', "teardown", i) =
                 IF i = at THEN result ELSE OutcomeOf(log, "teardown", i)
      /\ \A k \in DOMAIN log' : (k \in DOMAIN log /\ log'[k] = log[k]) \/ log'[k] = e
  BY <1>1, <1>4, LogGrows DEF Starts
<1>9. CleanInv'
  <2>1. Cardinality(Starts(log, "teardown", at)) = attempt /\ attempt <= plan.teardown[at].retries + 1
    BY <1>1, <1>2 DEF ExecInv, CleanInv
  <2>2. \A i \in 1..(at - 1) : plan.teardown[i].enabled => Exhausted(log', i)
    <3>1. \A i \in 1..(at - 1) : i # at /\ (plan.teardown[i].enabled => Exhausted(log, i))
      BY <1>1, CleanupTypes DEF ExecInv, CleanInv
    <3>2. QED BY <1>8, <3>1 DEF Exhausted
  <2>3. \A k \in DOMAIN log' : log'[k].part = "teardown" => log'[k].at <= at /\ log'[k].at \in Nat
    BY <1>1, <1>4, <1>8, CleanupTypes
  <2>4. CASE attempt' = 0 /\ at' = at + 1
             /\ (result = "passed" \/ attempt > plan.teardown[at].retries)
    <3>1. Exhausted(log', at)
      <4>1. Starts(log, "teardown", at) # {}
        <5>1. Cardinality(Starts(log, "teardown", at)) # 0 /\ log \in Seq(Event)
          BY <1>1, <1>2, <2>1, CleanupTypes
        <5>2. QED BY <5>1, EventsAreFinite DEF Starts
      <4>2. result = "passed" \/ attempt = plan.teardown[at].retries + 1
        <5>1. plan.teardown[at].retries \in Nat /\ attempt \in Nat
          BY <1>1, <1>2, CleanupTypes
        <5>2. attempt <= plan.teardown[at].retries + 1
          BY <2>1
        <5>3. result = "passed" \/ attempt > plan.teardown[at].retries
          BY <2>4
        <5>4. QED BY <5>1, <5>2, <5>3
      <4>3. QED BY <1>8, <2>1, <4>1, <4>2 DEF Exhausted
    <3>2. \A i \in 1..at : plan.teardown[i].enabled => Exhausted(log', i)
      BY <1>1, <2>2, <3>1, CleanupTypes
    <3>3. 1..(at' - 1) = 1..at
      BY <1>1, <2>4, CleanupTypes
    <3>4. \A k \in DOMAIN log' : log'[k].part = "teardown" => log'[k].at < at + 1
      BY <1>1, <2>3, CleanupTypes
    <3>5. at + 1 \in DOMAIN plan.teardown =>
            /\ Cardinality(Starts(log', "teardown", at + 1)) = 0
            /\ 0 <= plan.teardown[at + 1].retries + 0
      <4>1. at + 1 \in Nat /\ at + 1 > at
        BY <1>1, CleanupTypes
      <4>2. Cardinality(Starts(log, "teardown", at + 1)) = 0
        BY <1>1, <4>1, NotReachedInTeardown
      <4>3. QED BY <1>1, <1>8, <4>2, CleanupTypes
    <3>6. QED
      BY <1>1, <1>5, <2>4, <3>2, <3>3, <3>4, <3>5 DEF CleanInv, InTeardown, Exhausted
  <2>5. CASE attempt' = attempt /\ at' = at /\ attempt <= plan.teardown[at].retries
    <3>1. \A k \in DOMAIN log' : log'[k].part = "teardown" =>
            log'[k].at < at \/ (log'[k].at = at /\ attempt > 0)
      BY <1>1, <1>2, <2>3, CleanupTypes
    <3>2. attempt <= plan.teardown[at].retries + 0
      BY <1>1, <1>2, <2>5, CleanupTypes
    <3>3. QED
      BY <1>1, <1>5, <1>8, <2>1, <2>2, <2>5, <3>1, <3>2 DEF CleanInv, InTeardown, Exhausted
  <2>6. QED BY <1>3, <2>4, <2>5
<1>10. QED BY <1>5, <1>6, <1>7, <1>9 DEF ExecInv

\* The run is finished when the teardown is through.
LEMMA FinishInv ==
  ASSUME ExecInv, Finish
  PROVE  ExecInv'
<1> DEFINE e == RunEvent("run.finished", Verdict)
<1>1. /\ phase = "teardown" /\ InTeardown /\ ~InMain /\ phase' = "done"
      /\ at > Len(plan.teardown) /\ log' = Append(log, e)
      /\ UNCHANGED <<plan, at, attempt, poll, store, passed, failed, skipped>>
  BY DEF Finish, InTeardown, InMain, counts
<1>2. e \in Event /\ e.part = "run" /\ e.type = "run.finished"
  BY EventTypes DEF ExecInv, RunEvent, Verdict
<1> HIDE DEF e
<1>3. /\ log' \in Seq(Event) /\ LatestInv(log)' /\ SentInv' /\ VerdictInv'
      /\ MissingInv(log)' /\ MainComesFirst(log)'
  BY <1>1, <1>2, MainStays
<1>4. ExecTypeOK'
  BY <1>1, <1>3 DEF ExecInv, ExecTypeOK, Phase
<1>5. PlaceInv'
  BY <1>1 DEF PlaceInv, InMain, InTeardown
<1>6. CleanInv'
  <2>1. DOMAIN plan.teardown = 1..(at - 1)
    <3>1. at = Len(plan.teardown) + 1
      BY <1>1, CleanupTypes DEF ExecInv, PlaceInv
    <3>2. QED BY <1>1, <3>1, CleanupTypes
  <2>2. \A i \in DOMAIN plan.teardown : plan.teardown[i].enabled => Exhausted(log, i)
    BY <1>1, <2>1 DEF ExecInv, CleanInv
  <2>3. /\ \A i : Starts(log', "teardown", i) = Starts(log, "teardown", i)
        /\ \A i : OutcomeOf(log', "teardown", i) = OutcomeOf(log, "teardown", i)
    BY <1>1, <1>2, LogGrows DEF Starts
  <2>4. QED BY <1>1, <1>3, <2>2, <2>3 DEF CleanInv, InTeardown, Exhausted
<1>7. QED BY <1>3, <1>4, <1>5, <1>6 DEF ExecInv

\* What is extracted are texts that the store can hold.
LEMMA ExtractTypes ==
  ASSUME ExecInv, phase = "sending", NEW found \in Findings(Step)
  PROVE  Extract(found) \in [Name -> Value]
<1>1. store \in [Name -> Value]
  BY DEF ExecInv, ExecTypeOK
<1>2. \A n \in DOMAIN found : found[n] \in {"false", "true"}
  BY DEF Findings
<1>3. \A n \in Name : (IF n \in DOMAIN found THEN found[n] ELSE store[n]) \in Value
  BY <1>1, <1>2 DEF Value
<1>4. QED BY <1>3 DEF Extract

\* Every step of an execution keeps the invariant.
LEMMA ExecNextInv ==
  ASSUME ExecInv, ExecNext
  PROVE  ExecInv'
<1>1. ASSUME phase = "sending", NEW found \in Findings(Step), NEW holds,
             AnswerEvaluated(found, holds)
      PROVE  ExecInv'
  <2> DEFINE events == Evaluated(holds)
             result == IF BlockingFailed(holds) THEN "failed" ELSE "passed"
  <2>1. EndAttempt(events, result)
        /\ store' \in [Name -> Value] /\ plan' = plan /\ skipped' = skipped
    BY <1>1, ExtractTypes DEF AnswerEvaluated
  <2>2. poll' = 0
    BY <2>1 DEF EndAttempt, Settle, Leave
  <2>3. result \in {"passed", "failed", "error"}
    OBVIOUS
  <2>4. AreEvaluations(events)
    BY <1>1, EvaluatedTypes DEF ExecInv, PlaceInv
  <2> HIDE DEF events, result
  <2>5. QED BY <1>1, <2>1, <2>2, <2>3, <2>4, AttemptEnds
<1>2. ASSUME phase = "sending", EndAttempt(<<>>, "error"), store' \in [Name -> Value],
             plan' = plan, skipped' = skipped
      PROVE  ExecInv'
  <2>1. poll' = 0
    BY <1>2 DEF EndAttempt, Settle, Leave
  <2>2. AreEvaluations(<<>>)
    BY DEF AreEvaluations
  <2>3. QED BY <1>2, <2>1, <2>2, AttemptEnds
<1>3. CASE RequestBreaks
  <2>1. store \in [Name -> Value]
    BY DEF ExecInv, ExecTypeOK
  <2>2. QED BY <1>2, <1>3, <2>1 DEF RequestBreaks
<1>4. ASSUME phase = "sending", NEW found \in Findings(Step), EvaluationThrows(found)
      PROVE  ExecInv'
  BY <1>2, <1>4, ExtractTypes DEF EvaluationThrows
<1>5. QED
  BY <1>1, <1>3, <1>4, SkipStepInv, RefuseStepInv, BeginAttemptInv, PollAgainInv,
     BeginTeardownInv, SkipCleanupInv, BeginCleanupInv, CleanupEndsInv, FinishInv
    DEF ExecNext

-----------------------------------------------------------------------------
(* The plans of runs.                                                      *)

\* Some positions have a last one: above it are the fewest of them.
LEMMA SomeHaveALast ==
  ASSUME NEW n \in Nat, NEW S \in SUBSET (1..n), S # {}
  PROVE  \E x \in S : \A y \in S : y <= x
<1> DEFINE Above(x) == {y \in S : y > x}
           T == {Above(x) : x \in S}
           R == StrictSubsetOrdering(S)
<1>1. S \subseteq Nat /\ IsFiniteSet(S)
  <2>1. IsFiniteSet(1..n)
    BY FS_Interval
  <2>2. IsFiniteSet(S)
    BY <2>1, FS_Subset
  <2>3. S \subseteq Nat
    OBVIOUS
  <2>4. QED BY <2>2, <2>3
<1>2. IsWellFoundedOn(R, SUBSET S)
  <2>1. FiniteSubsetsOf(S) = SUBSET S
    BY <1>1, FS_FiniteSubsetsOfFinite
  <2>2. QED BY <2>1, FS_StrictSubsetOrderingWellFounded
<1>3. T \subseteq SUBSET S /\ T # {}
  OBVIOUS
<1> HIDE DEF R, T
<1>4. PICK m \in T : \A y \in T : <<y, m>> \notin R
  BY <1>2, <1>3, WFMin
<1>5. PICK x \in S : m = Above(x)
  BY DEF T
<1>6. \A y \in S : y <= x
  <2>1. SUFFICES ASSUME NEW y \in S, ~(y <= x)
                 PROVE  FALSE
    OBVIOUS
  <2>2. y > x
    BY <1>1, <2>1
  <2>3. Above(y) \in T /\ Above(y) \subseteq Above(x)
    <3>1. Above(y) \in T
      BY DEF T
    <3>2. \A z \in S : z > y => z > x
     BY <1>1, <2>2
    <3>3. QED BY <3>1, <3>2
  <2>4. y \in Above(x) /\ y \notin Above(y)
    BY <1>1, <2>2
  <2> HIDE DEF Above
  <2>5. <<Above(y), Above(x)>> \notin R
    BY <1>4, <1>5, <2>3
  <2>6. Above(y) \in SUBSET S /\ Above(x) \in SUBSET S
    BY DEF Above
  <2>7. QED BY <2>3, <2>4, <2>5, <2>6 DEF R, StrictSubsetOrdering
<1>7. QED BY <1>6

\* LastOf is that one, or 0.
LEMMA LastIsOne ==
  ASSUME NEW n \in Nat, NEW S \in SUBSET (1..n)
  PROVE  /\ LastOf(S) \in Nat
         /\ S # {} => LastOf(S) \in S /\ \A j \in S : j <= LastOf(S)
<1>1. CASE S = {}
  BY <1>1 DEF LastOf
<1>2. CASE S # {}
  <2>1. \E x \in S : \A j \in S : j <= x
    BY <1>2, SomeHaveALast
  <2> DEFINE m == CHOOSE i \in S : \A j \in S : j <= i
  <2>2. m \in S /\ \A j \in S : j <= m
    BY <2>1
  <2>3. LastOf(S) = m
    BY <1>2 DEF LastOf
  <2> HIDE DEF m
  <2>4. QED BY <2>2, <2>3
<1>3. QED BY <1>1, <1>2

\* A step is frozen as the protocol says.
LEMMA FrozenType ==
  ASSUME NEW step \in StepDef, ~Unresolvable(step, Tests)
  PROVE  /\ Frozen(step, Tests) \in FrozenStep
         /\ Frozen(step, Tests).extracts = ResolvedExtract(step, Tests)
<1>1. step.test # None => step.test \in DOMAIN Tests /\ Tests[step.test] \in Test
  BY InputsAreValid DEF Unresolvable
<1>2. ResolvedRefs(step, Tests) \in SUBSET Ref
  <2>1. \A part \in Part : ResolvedPart(step, Tests, part) \in SUBSET Ref
    BY <1>1 DEF ResolvedPart, Own, StepDef, Test
  <2>2. QED BY <2>1 DEF ResolvedRefs
<1>3. ResolvedExtract(step, Tests) \in SUBSET Name
  BY <1>1 DEF ResolvedExtract, OwnExtract, Own, StepDef, Test
<1>4. AtMost(step.retries, 10) \in 0..10
  BY DEF AtMost, StepDef
<1>5. (IF step.onFailure = "goto" THEN "stop" ELSE step.onFailure)
        \in {"stop", "skip", "teardown-and-stop"}
  BY DEF StepDef
<1>6. step.id \in Id /\ step.enabled \in BOOLEAN
  BY DEF StepDef
<1>7. [k \in 1..ResolvedAsserts(step, Tests) |-> "block"] \in Seq(Severity)
  <2>1. step.asserts # None => step.asserts \in Nat
    BY DEF StepDef
  <2>2. step.test # None => Len(Tests[step.test].asserts) \in Nat
    <3>1. step.test # None => Tests[step.test].asserts \in Seq(Severity)
      BY <1>1 DEF Test
    <3>2. QED BY <3>1
  <2>3. ResolvedAsserts(step, Tests) \in Nat
    BY <2>1, <2>2 DEF ResolvedAsserts
  <2>4. QED BY <2>3 DEF Severity
<1>8. QED BY <1>2, <1>3, <1>4, <1>5, <1>6, <1>7 DEF Frozen, FrozenStep

\* What is not rejected compiles to a plan of the protocol.
LEMMA CompiledPlanType ==
  ASSUME NEW d \in Workflow, ~Rejected(d, Tests)
  PROVE  /\ CompiledPlan(d, Tests) \in ExecutionPlan
         /\ d.steps \in Seq(StepDef)
         /\ DOMAIN CompiledPlan(d, Tests).steps = DOMAIN d.steps
         /\ \A i \in DOMAIN d.steps :
              /\ CompiledPlan(d, Tests).steps[i] = Frozen(d.steps[i], Tests)
              /\ d.steps[i] \in StepDef /\ ~Unresolvable(d.steps[i], Tests)
              /\ CompiledPlan(d, Tests).steps[i] \in FrozenStep
<1> DEFINE p == CompiledPlan(d, Tests)
           cleanup(i) == [id |-> d.teardown[i].id, enabled |-> d.teardown[i].enabled,
                          retries |-> AtMost(d.teardown[i].retries, 3)]
<1>1. d \in Definition
  BY InputsAreValid
<1>2. d.steps \in Seq(StepDef) /\ d.teardown \in Seq(TeardownDef)
  BY <1>1 DEF Definition
<1>3. \A i \in DOMAIN d.steps : d.steps[i] \in StepDef /\ ~Unresolvable(d.steps[i], Tests)
  BY <1>2 DEF Rejected
<1>4. \A i \in DOMAIN d.steps : Frozen(d.steps[i], Tests) \in FrozenStep
  BY <1>3, FrozenType
<1>5. [i \in DOMAIN d.steps |-> Frozen(d.steps[i], Tests)] \in Seq(FrozenStep)
  BY <1>2, <1>4
<1>6. \A i \in DOMAIN d.teardown : cleanup(i) \in TeardownStep
  <2>1. SUFFICES ASSUME NEW i \in DOMAIN d.teardown
                 PROVE  cleanup(i) \in TeardownStep
    OBVIOUS
  <2>2. d.teardown[i] \in TeardownDef
    BY <1>2
  <2>3. AtMost(d.teardown[i].retries, 3) \in 0..3
    BY <2>2 DEF AtMost, TeardownDef
  <2>4. QED BY <2>2, <2>3 DEF TeardownDef, TeardownStep
<1> HIDE DEF cleanup
<1>7. [i \in DOMAIN d.teardown |-> cleanup(i)] \in Seq(TeardownStep)
  BY <1>2, <1>6
<1>8. p \in ExecutionPlan
  BY <1>5, <1>7 DEF CompiledPlan, ExecutionPlan, cleanup
<1>9. QED BY <1>2, <1>3, <1>4, <1>8 DEF CompiledPlan

\* Binding removes the references to the environment, and nothing else.
LEMMA BoundPlanType ==
  ASSUME NEW p \in ExecutionPlan
  PROVE  /\ Bound(p) \in ExecutionPlan
         /\ DOMAIN Bound(p).steps = DOMAIN p.steps
         /\ \A i \in DOMAIN p.steps :
              /\ Bound(p).steps[i].extracts = p.steps[i].extracts
              /\ Bound(p).steps[i].uses = p.steps[i].uses \ EnvRefs(p.steps[i])
              /\ EnvRefs(Bound(p).steps[i]) = {}
<1> DEFINE bare(i) == [p.steps[i] EXCEPT !.uses = p.steps[i].uses \ EnvRefs(p.steps[i])]
<1>1. p.steps \in Seq(FrozenStep) /\ p.teardown \in Seq(TeardownStep)
  BY DEF ExecutionPlan
<1>2. \A i \in DOMAIN p.steps :
        /\ bare(i) \in FrozenStep
        /\ bare(i).extracts = p.steps[i].extracts
        /\ bare(i).uses = p.steps[i].uses \ EnvRefs(p.steps[i])
  <2>1. SUFFICES ASSUME NEW i \in DOMAIN p.steps
                 PROVE  /\ bare(i) \in FrozenStep
                        /\ bare(i).extracts = p.steps[i].extracts
                        /\ bare(i).uses = p.steps[i].uses \ EnvRefs(p.steps[i])
    OBVIOUS
  <2>2. p.steps[i] \in FrozenStep
    BY <1>1
  <2>3. QED BY <2>2 DEF FrozenStep
<1>3. Bound(p) = [p EXCEPT !.steps = [i \in DOMAIN p.steps |-> bare(i)]]
  BY DEF Bound
<1>4. Bound(p).steps = [i \in DOMAIN p.steps |-> bare(i)] /\ Bound(p).teardown = p.teardown
  BY <1>3 DEF ExecutionPlan
<1> HIDE DEF bare
<1>5. [i \in DOMAIN p.steps |-> bare(i)] \in Seq(FrozenStep)
  BY <1>1, <1>2
<1>6. Bound(p) \in ExecutionPlan
  BY <1>1, <1>3, <1>5 DEF ExecutionPlan
<1>7. \A i \in DOMAIN p.steps : EnvRefs(bare(i)) = {}
  BY <1>2 DEF EnvRefs
<1>8. QED BY <1>2, <1>4, <1>6, <1>7

\* The plan of a test has one step.
LEMMA TestPlanType ==
  ASSUME NEW id \in OwnId, NEW t \in DOMAIN Tests
  PROVE  /\ TestPlan(id, Tests[t]) \in ExecutionPlan
         /\ DOMAIN TestPlan(id, Tests[t]).steps = {1}
<1>1. Tests[t] \in Test
  BY InputsAreValid
<1>2. TestPlan(id, Tests[t]).steps[1] \in FrozenStep
  <2>1. \A part \in DOMAIN Tests[t].refs : Tests[t].refs[part] \subseteq Ref
    BY <1>1 DEF Test
  <2>2. UNION {Tests[t].refs[part] : part \in DOMAIN Tests[t].refs} \subseteq Ref
    BY <2>1
  <2>3. Tests[t].asserts \in Seq(Severity) /\ Tests[t].extract \subseteq Name
    BY <1>1 DEF Test
  <2>4. id \in Id
    BY DEF OwnId
  <2>5. QED BY <2>2, <2>3, <2>4 DEF TestPlan, FrozenStep
<1>3. QED BY <1>2 DEF TestPlan, ExecutionPlan

\* Of posted steps every one is in the plan, under an id of its own.
LEMMA PostedPlanType ==
  ASSUME NEW steps \in Posted
  PROVE  PostedPlan(steps) \in ExecutionPlan
<1> DEFINE id == StepIds(steps)
           frozen(i) == [id |-> id[i], enabled |-> TRUE, cond |-> None, onFalse |-> "skip",
                         uses |-> steps[i].refs, extracts |-> steps[i].extract,
                         asserts |-> steps[i].asserts,
                         retries |-> 0, polls |-> 1, onFailure |-> "stop"]
<1>1. steps \in Seq(PostedStep)
  BY InputsAreValid
<1>2. id \in [DOMAIN steps -> OwnId]
  BY InputsAreValid DEF StepIds
<1> HIDE DEF id
<1>3. \A i \in DOMAIN steps : frozen(i) \in FrozenStep
  <2>1. SUFFICES ASSUME NEW i \in DOMAIN steps
                 PROVE  frozen(i) \in FrozenStep
    OBVIOUS
  <2>2. id[i] \in Id
    BY <1>2 DEF OwnId
  <2>3. steps[i] \in PostedStep
    BY <1>1
  <2>4. QED BY <2>2, <2>3 DEF FrozenStep, PostedStep
<1> HIDE DEF frozen
<1>4. [i \in DOMAIN steps |-> frozen(i)] \in Seq(FrozenStep)
  BY <1>1, <1>3
<1>5. PostedPlan(steps) = [steps |-> [i \in DOMAIN steps |-> frozen(i)], teardown |-> <<>>]
  BY DEF PostedPlan, id, frozen
<1>6. QED BY <1>4, <1>5 DEF ExecutionPlan

-----------------------------------------------------------------------------
(* The steps of the whole.                                                 *)

\* A run that is created is executed by a plan of the protocol that goes with
\* what it was created from.
LEMMA CreateInv ==
  ASSUME ExecInv, OriginInv, Create
  PROVE  ExecInv' /\ OriginInv' /\ status' = "pending" /\ phase' = "main" /\ phase = "idle"
<1>1. \A p \in ExecutionPlan : Execute(p) =>
        ExecInv' /\ plan' = p /\ phase' = "main" /\ phase = "idle"
  BY ExecuteInv DEF Execute
<1>2. ASSUME NEW d \in Workflow, RunWorkflow(d)
      PROVE  ExecInv' /\ OriginInv' /\ status' = "pending" /\ phase' = "main" /\ phase = "idle"
  <2>1. ~Rejected(d, Tests) /\ Execute(CompiledPlan(d, Tests))
        /\ source' = d /\ origin' = "workflow" /\ status' = "pending"
    BY <1>2 DEF RunWorkflow
  <2>2. CompiledPlan(d, Tests) \in ExecutionPlan
        /\ \A i \in DOMAIN CompiledPlan(d, Tests).steps :
             /\ i \in DOMAIN d.steps
             /\ CompiledPlan(d, Tests).steps[i].extracts = ResolvedExtract(d.steps[i], Tests)
    BY <2>1, CompiledPlanType, FrozenType
  <2>3. ExecInv' /\ plan' = CompiledPlan(d, Tests) /\ phase' = "main" /\ phase = "idle"
    BY <1>1, <2>1, <2>2
  <2>4. QED BY <2>1, <2>2, <2>3 DEF OriginInv
<1>3. ASSUME NEW d \in Workflow, RunScheduled(d)
      PROVE  ExecInv' /\ OriginInv' /\ status' = "pending" /\ phase' = "main" /\ phase = "idle"
  <2> DEFINE p == Bound(CompiledPlan(d, Tests))
  <2>1. ~Rejected(d, Tests) /\ Execute(p)
        /\ source' = d /\ origin' = "schedule" /\ status' = "pending"
    BY <1>3 DEF RunScheduled
  <2>2. CompiledPlan(d, Tests) \in ExecutionPlan
        /\ \A i \in DOMAIN CompiledPlan(d, Tests).steps :
             /\ i \in DOMAIN d.steps
             /\ CompiledPlan(d, Tests).steps[i].extracts = ResolvedExtract(d.steps[i], Tests)
    BY <2>1, CompiledPlanType, FrozenType
  <2>3. p \in ExecutionPlan
        /\ \A i \in DOMAIN p.steps :
             /\ i \in DOMAIN d.steps /\ EnvRefs(p.steps[i]) = {}
             /\ p.steps[i].extracts = ResolvedExtract(d.steps[i], Tests)
    BY <2>2, BoundPlanType
  <2> HIDE DEF p
  <2>4. ExecInv' /\ plan' = p /\ phase' = "main" /\ phase = "idle"
    BY <1>1, <2>1, <2>3
  <2>5. QED BY <2>1, <2>3, <2>4 DEF OriginInv
<1>4. ASSUME NEW id \in OwnId, NEW t \in DOMAIN Tests, RunTest(id, t)
      PROVE  ExecInv' /\ OriginInv' /\ status' = "pending" /\ phase' = "main" /\ phase = "idle"
  <2> DEFINE p == Bound(TestPlan(id, Tests[t]))
  <2>1. p.steps[1].uses = {} /\ Execute(p)
        /\ source' = NoSource /\ origin' = "test" /\ status' = "pending"
    BY <1>4 DEF RunTest
  <2>2. p \in ExecutionPlan /\ DOMAIN p.steps = {1}
    BY TestPlanType, BoundPlanType
  <2> HIDE DEF p
  <2>3. ExecInv' /\ plan' = p /\ phase' = "main" /\ phase = "idle"
    BY <1>1, <2>1, <2>2
  <2>4. QED BY <2>1, <2>2, <2>3 DEF OriginInv
<1>5. ASSUME NEW id \in OwnId, NEW t \in DOMAIN Tests, RunScheduledTest(id, t)
      PROVE  ExecInv' /\ OriginInv' /\ status' = "pending" /\ phase' = "main" /\ phase = "idle"
  <2> DEFINE p == Bound(TestPlan(id, Tests[t]))
  <2>1. Execute(p) /\ source' = NoSource /\ origin' = "schedule" /\ status' = "pending"
    BY <1>5 DEF RunScheduledTest
  <2>2. p \in ExecutionPlan /\ \A i \in DOMAIN p.steps : EnvRefs(p.steps[i]) = {}
    BY TestPlanType, BoundPlanType
  <2> HIDE DEF p
  <2>3. ExecInv' /\ plan' = p /\ phase' = "main" /\ phase = "idle"
    BY <1>1, <2>1, <2>2
  <2>4. QED BY <2>1, <2>2, <2>3 DEF OriginInv
<1>6. ASSUME NEW p \in ExecutionPlan, Execute(p), source' = NoSource,
             origin' \in {"steps", "given"}, status' = "pending"
      PROVE  ExecInv' /\ OriginInv' /\ status' = "pending" /\ phase' = "main" /\ phase = "idle"
  <2>1. ExecInv' /\ plan' = p /\ phase' = "main" /\ phase = "idle"
    BY <1>1, <1>6
  <2>2. QED BY <1>6, <2>1 DEF OriginInv
<1>7. ASSUME NEW steps \in Posted, RunSteps(steps)
      PROVE  ExecInv' /\ OriginInv' /\ status' = "pending" /\ phase' = "main" /\ phase = "idle"
  BY <1>6, <1>7, PostedPlanType DEF RunSteps
<1>8. ASSUME NEW p \in Given, RunGiven(p)
      PROVE  ExecInv' /\ OriginInv' /\ status' = "pending" /\ phase' = "main" /\ phase = "idle"
  BY <1>6, <1>8, InputsAreValid DEF RunGiven
<1>9. QED BY <1>2, <1>3, <1>4, <1>5, <1>7, <1>8 DEF Create

\* No step of an execution changes its plan, and none leads out of it.
LEMMA ExecKeepsPlan ==
  ASSUME ExecNext
  PROVE  plan' = plan /\ phase # "idle" /\ phase # "done" /\ phase' # "idle"
<1>1. CASE SkipStep \/ RefuseStep \/ BeginAttempt \/ PollAgain
  BY <1>1 DEF SkipStep, RefuseStep, BeginAttempt, PollAgain, Fresh
<1>2. ASSUME NEW events, NEW result, phase = "sending", EndAttempt(events, result), plan' = plan
      PROVE  phase # "idle" /\ phase # "done" /\ phase' # "idle"
  BY <1>2 DEF EndAttempt, Settle, Leave
<1>3. CASE RequestBreaks
  BY <1>2, <1>3 DEF RequestBreaks
<1>4. ASSUME NEW found, NEW holds, AnswerEvaluated(found, holds)
      PROVE  plan' = plan /\ phase # "idle" /\ phase # "done" /\ phase' # "idle"
  <2> DEFINE result == IF BlockingFailed(holds) THEN "failed" ELSE "passed"
             events == Evaluated(holds)
  <2>1. phase = "sending" /\ EndAttempt(events, result) /\ plan' = plan
    BY <1>4 DEF AnswerEvaluated
  <2> HIDE DEF result, events
  <2>2. QED BY <1>2, <2>1
<1>5. ASSUME NEW found, EvaluationThrows(found)
      PROVE  plan' = plan /\ phase # "idle" /\ phase # "done" /\ phase' # "idle"
  BY <1>2, <1>5 DEF EvaluationThrows
<1>6. CASE BeginTeardown \/ SkipCleanup \/ BeginCleanup \/ Finish
  BY <1>6 DEF BeginTeardown, SkipCleanup, BeginCleanup, Finish
<1>7. ASSUME NEW result, CleanupEnds(result)
      PROVE  plan' = plan /\ phase # "idle" /\ phase # "done" /\ phase' # "idle"
  BY <1>7 DEF CleanupEnds
<1>8. QED BY <1>1, <1>3, <1>4, <1>5, <1>6, <1>7 DEF ExecNext

\* What does not touch the execution keeps what is said of it.
LEMMA ExecStutters ==
  ASSUME ExecInv, OriginInv, UNCHANGED <<execVars, source, origin>>
  PROVE  ExecInv' /\ OriginInv'
<1>1. UNCHANGED <<plan, phase, at, attempt, poll, store, passed, failed, skipped, log>>
  BY DEF execVars, counts
<1>2. ExecTypeOK' /\ PlaceInv' /\ MissingInv(log)' /\ LatestInv(log)'
  BY <1>1 DEF ExecInv, ExecTypeOK, PlaceInv, InMain, InTeardown, MissingInv
<1>3. SentInv' /\ VerdictInv'
  BY <1>1
    DEF ExecInv, SentInv, SentOnce, InMain, VerdictInv, Done, IsGood, IsBad, WasExcused
<1>4. CleanInv'
  BY <1>1 DEF ExecInv, CleanInv, InTeardown, Exhausted
<1>5. OriginInv'
  BY <1>1 DEF OriginInv
<1>6. QED BY <1>2, <1>3, <1>4, <1>5 DEF ExecInv

\* An execution goes on with the plan it has.
LEMMA ExecOrigin ==
  ASSUME OriginInv, ExecNext, UNCHANGED <<source, origin, status>>
  PROVE  OriginInv'
<1>1. plan' = plan /\ phase' # "idle"
  BY ExecKeepsPlan
<1>2. source' = source /\ origin' = origin
  OBVIOUS
<1>3. QED BY <1>1, <1>2 DEF OriginInv

\* What a step of the whole does to the status: it is pending from the
\* creation to the verdict.
LEMMA NextInv ==
  ASSUME IInv, Next, UNCHANGED cli
  PROVE  IInv'
<1> USE DEF IInv
<1>1. CASE Create
  <2>1. ExecInv' /\ OriginInv' /\ status' = "pending" /\ phase' = "main" /\ phase = "idle"
    BY <1>1, CreateInv
  <2>2. status = "none" /\ origin = "none"
    BY <2>1 DEF StatusInv, OriginInv
  <2>3. StatusInv' /\ ExitTellsStatus'
    BY <2>1, <2>2 DEF StatusInv, ExitTellsStatus
  <2>4. QED BY <2>1, <2>3
<1>2. CASE ExecNext /\ UNCHANGED <<source, origin, status, rows>>
  <2>1. ExecInv' /\ OriginInv'
    BY <1>2, ExecNextInv, ExecOrigin
  <2>2. phase # "done" /\ phase' # "idle" /\ status' = status /\ origin' = origin
    BY <1>2, ExecKeepsPlan
  <2>3. StatusInv' /\ ExitTellsStatus'
    BY <2>2 DEF StatusInv, ExitTellsStatus
  <2>4. QED BY <2>1, <2>3
<1>3. CASE Report
  <2>1. phase = "done" /\ status = "pending" /\ status' = Verdict
        /\ UNCHANGED <<execVars, source, origin>>
    BY <1>3 DEF Report
  <2>2. ExecInv' /\ OriginInv'
    BY <2>1, ExecStutters
  <2>3. phase' = "done" /\ Verdict' = Verdict /\ origin' = origin
    BY <2>1 DEF execVars, counts, Verdict
  <2>4. StatusInv' /\ ExitTellsStatus'
    BY <2>1, <2>3 DEF StatusInv, ExitTellsStatus
  <2>5. QED BY <2>2, <2>4
<1>4. QED BY <1>1, <1>2, <1>3 DEF Next

\* What changes neither the execution nor the status keeps the invariant, if
\* a command that ends tells the status.
LEMMA OnlyLooks ==
  ASSUME IInv, UNCHANGED vars, ExitTellsStatus'
  PROVE  IInv'
<1>1. UNCHANGED <<execVars, source, origin>> /\ status' = status
  BY DEF vars
<1>2. ExecInv' /\ OriginInv'
  BY <1>1, ExecStutters DEF IInv
<1>3. StatusInv'
  BY <1>1 DEF IInv, StatusInv, Verdict, execVars, counts
<1>4. QED BY <1>2, <1>3 DEF IInv

\* The exit code of a status is one of its own.
LEMMA CodeTellsStatus ==
  ASSUME NEW s
  PROVE  /\ ExitCodeForStatus(s) = 0 => s = "passed"
         /\ ExitCodeForStatus(s) = 1 => s \in {"failed", "blocked"}
         /\ ExitCodeForStatus(s) = 4 => s = "cancelled"
<1>1. ExitCodes.passed = 0 /\ ExitCodes.failed = 1 /\ ExitCodes.inconclusive = 2
      /\ ExitCodes.error = 3 /\ ExitCodes.cancelled = 4
  BY DEF ExitCodes
<1>2. CASE s \in {"failed", "blocked"}
  BY <1>1, <1>2 DEF ExitCodeForStatus
<1>3. CASE s \in {"passed", "inconclusive", "cancelled"}
  <2>1. ExitCodeForStatus(s) = ExitCodes[s]
    BY <1>3 DEF ExitCodeForStatus
  <2>2. QED BY <1>1, <1>3, <2>1
<1>4. CASE s \notin {"failed", "blocked", "passed", "inconclusive", "cancelled"}
  BY <1>1, <1>4 DEF ExitCodeForStatus
<1>5. QED BY <1>2, <1>3, <1>4

\* The command ends, if it does, with a code that is right of the status.
LEMMA ClientStepInv ==
  ASSUME IInv, ClientStep
  PROVE  IInv'
<1>1. ASSUME UNCHANGED vars, Exit(ExitCodes.error, TRUE)
      PROVE  IInv'
  <2>1. ExitTellsStatus'
    BY <1>1 DEF Exit, ExitCodes, ExitTellsStatus
  <2>2. QED BY <1>1, <2>1, OnlyLooks
<1>2. ASSUME UNCHANGED vars, Exit(ExitCodeForStatus(status), TRUE)
      PROVE  IInv'
  <2>1. status' = status /\ cli' = [phase |-> "exited", waited |-> TRUE,
                                     code |-> ExitCodeForStatus(status)]
    BY <1>2 DEF vars, Exit
  <2>2. cli'.waited = TRUE /\ cli'.code = ExitCodeForStatus(status)
    BY <2>1
  <2>3. ExitTellsStatus'
    BY <2>1, <2>2, CodeTellsStatus DEF ExitTellsStatus
  <2>4. QED BY <1>2, <2>3, OnlyLooks
<1>3. ASSUME NEW line, NEW d \in Workflow, Trigger(line, d)
      PROVE  IInv'
  <2>1. phase = "idle" /\ RunWorkflow(d)
    BY <1>3 DEF Trigger
  <2>2. ExecInv' /\ OriginInv' /\ status' = "pending"
    BY <2>1, CreateInv DEF Create, IInv
  <2>3. origin' = "workflow"
    BY <2>1 DEF RunWorkflow
  <2>4. StatusInv'
    <3>1. phase' = "main"
      BY <2>1, CreateInv DEF Create, IInv
    <3>2. QED BY <2>2, <3>1 DEF StatusInv
  <2>5. \/ cli' = [phase |-> "polling", waited |-> TRUE, code |-> 0]
        \/ Exit(ExitCodes.passed, FALSE)
        \/ Exit(ExitCodes.error, TRUE)
    BY <1>3 DEF Trigger
  <2>6. ExitTellsStatus'
    BY <2>3, <2>5 DEF Exit, ExitCodes, ExitTellsStatus
  <2>7. QED BY <2>2, <2>4, <2>6 DEF IInv
<1>4. CASE PollEnds
  BY <1>1, <1>2, <1>4 DEF PollEnds
<1>5. ASSUME NEW line, Misused(line) \/ Show(line) \/ RequestFails(line)
      PROVE  IInv'
  BY <1>1, <1>2, <1>5 DEF Misused, Show, RequestFails
<1>6. QED
  BY <1>3, <1>4, <1>5 DEF ClientStep

\* A status that another runner reports comes instead of the verdict.
LEMMA ReportOtherInv ==
  ASSUME IInv, NEW s \in {"cancelled", "lost", "blocked"}, ReportOther(s)
  PROVE  IInv'
<1>1. phase = "done" /\ status = "pending" /\ status' = s /\ cli' = cli
      /\ UNCHANGED <<execVars, source, origin>>
  BY DEF ReportOther
<1>2. ExecInv' /\ OriginInv'
  BY <1>1, ExecStutters DEF IInv
<1>3. phase' = "done" /\ origin' = origin
  BY <1>1 DEF execVars
<1>4. StatusInv' /\ ExitTellsStatus'
  BY <1>1, <1>3 DEF IInv, StatusInv, ExitTellsStatus
<1>5. QED BY <1>2, <1>4 DEF IInv

\* At first there is nothing of all this.
LEMMA InitInv ==
  ASSUME ClientInit
  PROVE  IInv
<1>1. plan = NoPlan /\ phase = "idle" /\ at = 0 /\ attempt = 0 /\ poll = 0
      /\ store = [n \in Name |-> "unset"]
      /\ passed = 0 /\ failed = 0 /\ skipped = 0 /\ log = <<>>
      /\ source = NoSource /\ origin = "none" /\ status = "none"
      /\ cli = [phase |-> "none", waited |-> FALSE, code |-> 0]
  BY DEF ClientInit, Init, ExecInit
<1>2. NoPlan \in ExecutionPlan
  BY DEF NoPlan, ExecutionPlan
<1>3. ExecTypeOK
  BY <1>1, <1>2 DEF ExecTypeOK, Phase, Value
<1>4. DOMAIN log = {} /\ plan.steps = <<>> /\ plan.teardown = <<>>
  BY <1>1 DEF NoPlan
<1>5. PlaceInv /\ VerdictInv
  BY <1>1 DEF PlaceInv, VerdictInv, InMain, InTeardown
<1>6. SentInv
  BY <1>1, <1>4 DEF SentInv, SentOnce, InMain
<1>7. CleanInv /\ MissingInv(log) /\ LatestInv(log)
  BY <1>1, <1>4 DEF CleanInv, MainComesFirst, InTeardown, MissingInv, LatestInv
<1>8. OriginInv /\ StatusInv /\ ExitTellsStatus
  BY <1>1 DEF OriginInv, StatusInv, ExitTellsStatus
<1>9. QED BY <1>3, <1>5, <1>6, <1>7, <1>8 DEF ExecInv, IInv

-----------------------------------------------------------------------------
(* What holds of every run.                                                *)

\* The invariant holds whatever is run, and whatever a command asks of it.
THEOREM Invariance == ClientSpec => []IInv
<1>1. ClientInit => IInv
  BY InitInv
<1>2. IInv /\ [ClientNext]_clientVars => IInv'
  <2>1. SUFFICES ASSUME IInv, [ClientNext]_clientVars
                 PROVE  IInv'
    OBVIOUS
  <2>2. CASE UNCHANGED clientVars
    <3>1. UNCHANGED vars /\ cli' = cli /\ status' = status /\ origin' = origin
      BY <2>2 DEF clientVars, vars
    <3>2. ExitTellsStatus'
      BY <2>1, <3>1 DEF IInv, ExitTellsStatus
    <3>3. QED BY <2>1, <3>1, <3>2, OnlyLooks
  <2>3. QED BY <2>1, <2>2, NextInv, ClientStepInv, ReportOtherInv DEF ClientNext
<1>3. QED BY <1>1, <1>2, PTL DEF ClientSpec

\* Of executePlan: plan, position, attempts, variables and events are what
\* they are meant to be.
THEOREM ExecutorTypeCorrect == ClientSpec => []ExecTypeOK
<1>1. IInv => ExecTypeOK
  BY DEF IInv, ExecInv
<1>2. QED BY <1>1, Invariance, PTL

\* Of executeStep and its callers: a step is not sent more often than its
\* retries allow, nor once an answer to it was judged, and none after one that
\* stopped the run.
THEOREM NothingIsSentAgainAlways == ClientSpec => []NothingIsSentAgain
<1>1. IInv => NothingIsSentAgain
  BY EventsAreOfTheLog
    DEF IInv, ExecInv, SentInv, SentOnce, Starts, Answers, HasFailed, NothingIsSentAgain
<1>2. QED BY <1>1, Invariance, PTL

\* Of executePlan: whatever the main steps came to, every enabled teardown
\* step has passed or has had all its attempts when the run is over.
THEOREM TeardownIsExhaustedAlways == ClientSpec => []TeardownIsExhausted
<1>1. IInv => TeardownIsExhausted
  <2>1. SUFFICES ASSUME IInv, phase = "done",
                        NEW i \in DOMAIN plan.teardown, plan.teardown[i].enabled
                 PROVE  LET starts == Events("teardown", i, "step.started")
                        IN  /\ starts # {}
                            /\ \/ Outcome("teardown", i) = "passed"
                               \/ Cardinality(starts) = plan.teardown[i].retries + 1
                            /\ \A k \in starts, l \in DOMAIN log :
                                 log[l].part = "main" => l < k
    BY DEF TeardownIsExhausted
  <2>2. Exhausted(log, i) /\ MainComesFirst(log)
    BY <2>1 DEF IInv, ExecInv, CleanInv
  <2>3. \A k \in Starts(log, "teardown", i) : k \in DOMAIN log /\ log[k].part = "teardown"
    BY DEF Starts, EventsOf
  <2>4. QED BY <2>2, <2>3, EventsAreOfTheLog DEF Exhausted, MainComesFirst, Starts
<1>2. QED BY <1>1, Invariance, PTL

\* Of executePlan: the verdict is passed only when every enabled step was
\* executed and passed in the end, but for the excused ones, and failed only
\* for a step that did not.
THEOREM VerdictIsDeservedAlways == ClientSpec => []VerdictIsDeserved
<1>1. IInv => VerdictIsDeserved
  <2>1. SUFFICES ASSUME IInv, phase = "done"
                 PROVE  VerdictIsDeserved
    BY DEF VerdictIsDeserved
  <2>2. Done = DOMAIN plan.steps
    BY <2>1 DEF Done, InMain
  <2>3. failed \in Nat
    BY <2>1 DEF IInv, ExecInv, ExecTypeOK
  <2>4. /\ failed = 0 => \A i \in DOMAIN plan.steps : IsGood(log, i)
        /\ failed > 0 => \E i \in DOMAIN plan.steps : IsBad(log, i)
    BY <2>1, <2>2 DEF IInv, ExecInv, VerdictInv
  <2>5. /\ Verdict = "passed" => \A i \in DOMAIN plan.steps : IsGood(log, i)
        /\ Verdict = "failed" => \E i \in DOMAIN plan.steps : IsBad(log, i)
    BY <2>3, <2>4 DEF Verdict
  <2>6. QED BY <2>5, EventsAreOfTheLog
            DEF VerdictIsDeserved, IsGood, IsBad, HasFailed, WasExcused
<1>2. QED BY <1>1, Invariance, PTL

\* Of the command line: its exit code tells the status of the run, and the
\* status, when it is a verdict, is the one of the execution.
THEOREM ExitTellsStatusAlways == ClientSpec => [](StatusInv /\ ExitTellsStatus)
<1>1. IInv => StatusInv /\ ExitTellsStatus
  BY DEF IInv
<1>2. QED BY <1>1, Invariance, PTL

\* The step that a reference waits for is one before it.
LEMMA ProducerIsBefore ==
  ASSUME NEW d \in Workflow, ~Rejected(d, Tests), NEW i \in DOMAIN d.steps,
         NEW ref \in OwnRefs(d.steps[i]), ref.kind = "var", ref \notin Unproduced(d.steps)
  PROVE  \E j \in 1..(i - 1) : j \in DOMAIN d.steps /\ ref.name \in OwnExtract(d.steps[j])
<1> DEFINE S == {j \in DOMAIN d.steps : ref.name \in OwnExtract(d.steps[j])}
           p == ProducerOf(d.steps, ref)
<1>1. d.steps \in Seq(StepDef)
  BY InputsAreValid DEF Definition
<1>2. Len(d.steps) \in Nat /\ DOMAIN d.steps = 1..Len(d.steps) /\ S \in SUBSET (1..Len(d.steps))
  BY <1>1
<1>3. p = LastOf(S)
  BY DEF ProducerOf
<1>4. ref \in UNION {OwnRefs(d.steps[j]) : j \in DOMAIN d.steps}
  OBVIOUS
<1>5. p # 0
  BY <1>4 DEF Unproduced
<1> HIDE DEF S, p
<1>6. S # {}
  BY <1>3, <1>5 DEF LastOf
<1>7. p \in S
  BY <1>2, <1>3, <1>6, LastIsOne
<1>8. ~(p > i)
  BY DEF Rejected, ForwardReference, p
<1>9. p # i
  <2>1. ~HasCycle(d.steps)
    BY DEF Rejected
  <2>2. SUFFICES ASSUME p = i
                 PROVE  HasCycle(d.steps)
    BY <2>1
  <2>3. {i} \in SUBSET DOMAIN d.steps /\ {i} # {}
    OBVIOUS
  <2>4. \A j \in {i} : \E r \in OwnRefs(d.steps[j]) : ProducerOf(d.steps, r) \in {i}
    BY <2>2 DEF p
  <2>5. QED BY <2>3, <2>4 DEF HasCycle
<1>10. i \in 1..Len(d.steps) /\ p \in 1..Len(d.steps)
  BY <1>2, <1>7
<1>11. p \in 1..(i - 1)
  BY <1>2, <1>8, <1>9, <1>10
<1>12. QED BY <1>7, <1>11 DEF S

\* Of the compiler, the binding and the executor together: a reference that is
\* left in a request was to be produced by a step before it, or came with a
\* test; a schedule leaves none to the environment, and a single test none.
THEOREM UnresolvedIsExcusedAlways == ClientSpec => []UnresolvedIsExcused
<1>1. IInv => UnresolvedIsExcused
  <2>1. SUFFICES ASSUME IInv, NEW k \in DOMAIN log, log[k].type = "step.started",
                        log[k].part = "main", NEW ref \in log[k].missing
                 PROVE  /\ origin # "test"
                        /\ origin = "schedule" => ref.kind # "env"
                        /\ /\ source # NoSource
                           /\ ref.kind = "var"
                           /\ ref \in OwnRefs(source.steps[log[k].at]) \ Unproduced(source.steps)
                           => \E j \in 1..(log[k].at - 1) : ref.name \in plan.steps[j].extracts
    BY DEF UnresolvedIsExcused
  <2> DEFINE i == log[k].at
  <2>2. i \in DOMAIN plan.steps /\ ref \in plan.steps[i].uses
    BY <2>1 DEF IInv, ExecInv, MissingInv
  <2> HIDE DEF i
  <2>3. origin # "test"
    BY <2>1, <2>2 DEF IInv, OriginInv
  <2>4. origin = "schedule" => ref.kind # "env"
    BY <2>1, <2>2 DEF IInv, OriginInv, EnvRefs
  <2>5. ASSUME source # NoSource, ref.kind = "var",
               ref \in OwnRefs(source.steps[i]) \ Unproduced(source.steps)
        PROVE  \E j \in 1..(i - 1) : ref.name \in plan.steps[j].extracts
    <3>1. source \in Workflow /\ ~Rejected(source, Tests) /\ i \in DOMAIN source.steps
      BY <2>1, <2>2, <2>5 DEF IInv, OriginInv
    <3>2. PICK j \in 1..(i - 1) : j \in DOMAIN source.steps
                                  /\ ref.name \in OwnExtract(source.steps[j])
      BY <2>5, <3>1, ProducerIsBefore
    <3>3. j \in DOMAIN plan.steps
      <4>1. plan.steps \in Seq(FrozenStep)
        BY <2>1 DEF IInv, ExecInv, ExecTypeOK, ExecutionPlan
      <4>2. i \in 1..Len(plan.steps) /\ Len(plan.steps) \in Nat
            /\ DOMAIN plan.steps = 1..Len(plan.steps)
        BY <2>2, <4>1
      <4>3. QED BY <3>2, <4>2
    <3>4. plan.steps[j].extracts = ResolvedExtract(source.steps[j], Tests)
      BY <2>1, <2>5, <3>3 DEF IInv, OriginInv
    <3>5. ResolvedExtract(source.steps[j], Tests) = OwnExtract(source.steps[j])
      BY <3>2 DEF ResolvedExtract, OwnExtract, Own
    <3>6. QED BY <3>2, <3>4, <3>5
  <2>6. QED BY <2>3, <2>4, <2>5 DEF i
<1>2. QED BY <1>1, Invariance, PTL

=============================================================================
