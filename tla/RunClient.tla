------------------------------ MODULE RunClient ------------------------------
(***************************************************************************)
(* What is seen of a run: the report that is made of its evidence, and the *)
(* command line that a pipeline starts it with, waits with and judges it   *)
(* by.  One command is given, before the run or while it is under way; a   *)
(* runner of another kind may also report a status of its own.             *)
(***************************************************************************)
EXTENDS WorkflowRun, SequencesExt

CONSTANT CommandLine  \* sequences of words and flags

VARIABLE cli  \* the process: [phase, waited, code]

clientVars == <<vars, cli>>

-----------------------------------------------------------------------------
(* getRunReport.                                                           *)

\* Events of the run itself are set apart.  The marker of the teardown is not:
\* no event has the type teardown.started.
IsOfRun(row) == row.event.type \in {"run.started", "run.finished"}

\* Mutant of InferStepStatus: the first attempt counts.
InferStepStatusFirst(events) ==
  LET ends == SelectSeq(events, LAMBDA e : e.type = "step.finished")
  IN  IF ends = <<>> THEN "unknown" ELSE Head(ends).result

InferStepStatus(events) ==
  LET ends == SelectSeq(events, LAMBDA e : e.type = "step.finished")
  IN  IF ends = <<>> THEN "unknown" ELSE Last(ends).result

\* The events of a step are those with its id, in the runner's sequence.
ReportEvents(p, read, index) ==
  LET own == SelectSeq(read, LAMBDA r : ~IsOfRun(r) /\ IndexOf(p, r.event.id) = index)
      sorted == SortSeq(own, LAMBDA r, s : r.sequence < s.sequence)
  IN  [k \in DOMAIN sorted |-> sorted[k].event]

\* The rows are read in the order of their time of creation, which the rows
\* of one upload share.  Every planned step is shown, with events or without.
RunReport(p, read) ==
  [i \in DOMAIN PlanIds(p) |->
     LET events == ReportEvents(p, read, i - 1)
     IN  [phase |-> IF i > Len(p.steps) THEN "teardown" ELSE "main",
          events |-> events,
          assertions |-> SelectSeq(events, LAMBDA e : e.type = "assertion.evaluated"),
          status |-> IF events = <<>> THEN "not_run" ELSE InferStepStatus(events)]]

-----------------------------------------------------------------------------
(* The command line.                                                       *)

Word(w) == [kind |-> "word", text |-> w]
Flag(name) == [kind |-> "flag", text |-> name]
Assigned(name) == [kind |-> "assigned", text |-> name]

\* parseArgs: a flag takes the next word, whatever the flag is; without one
\* it is switched on, or off when its name begins with no-.  main waits
\* unless that last made wait false: a text, given with = or taken, does not.
ParseArgs(argv) ==
  LET TakesNext(i) == argv[i].kind = "flag" /\ i < Len(argv) /\ argv[i + 1].kind = "word"
      Taken(i) == i > 1 /\ TakesNext(i - 1)
      Free == {i \in DOMAIN argv : argv[i].kind = "word" /\ ~Taken(i)}
      Switches == {i \in DOMAIN argv : \/ argv[i] \in {Flag("wait"), Assigned("wait")}
                                       \/ argv[i] = Flag("no-wait") /\ ~TakesNext(i)}
  IN  [words |-> [k \in 1..Cardinality(Free) |->
                    argv[CHOOSE i \in Free : Cardinality({j \in Free : j <= i}) = k].text],
       wait |-> Switches = {} \/ argv[LastOf(Switches)] # Flag("no-wait")]

ExitCodes == [passed |-> 0, failed |-> 1, inconclusive |-> 2, error |-> 3, cancelled |-> 4]

\* Mutant of ExitCodeForStatus: what is not a failure is a success.
ExitCodeUnlessFailed(s) ==
  CASE s \in {"failed", "blocked"} -> ExitCodes.failed
    [] s \in {"inconclusive", "cancelled"} -> ExitCodes[s]
    [] OTHER -> ExitCodes.passed

ExitCodeForStatus(s) ==
  CASE s \in {"failed", "blocked"} -> ExitCodes.failed
    [] s \in {"passed", "inconclusive", "cancelled"} -> ExitCodes[s]
    [] OTHER -> ExitCodes.error

TerminalStates == {"passed", "failed", "inconclusive", "cancelled", "lost"}

Exit(code, waited) == cli' = [phase |-> "exited", waited |-> waited, code |-> code]
Running == cli.phase = "none"

\* Bound: a command that only looks at a run does so before the execution or
\* after it, with and without the verdict.
Quiet == Running /\ phase \in {"idle", "done"}

\* main: without a command it knows, or the id that it needs, it ends.
Understood(line) ==
  /\ Len(line.words) >= 2
  /\ line.words[1] \in {"run", "run-workflow", "status", "report"}

Misused(line) ==
  /\ Quiet /\ ~Understood(line)
  /\ Exit(ExitCodes.error, TRUE)
  /\ UNCHANGED vars

\* handleRun, handleRunWorkflow: POST /api/runs/from-workflow, and the answer
\* arrives or does not.
Trigger(line, d) ==
  /\ Running /\ Understood(line)
  /\ line.words[1] \in {"run", "run-workflow"} /\ line.words[2] = "version"
  /\ phase = "idle" /\ RunWorkflow(d)
  /\ \/ line.wait /\ cli' = [phase |-> "polling", waited |-> TRUE, code |-> 0]
     \/ ~line.wait /\ Exit(ExitCodes.passed, FALSE)
     \/ Exit(ExitCodes.error, TRUE)

\* handleStatus, handleReport: one request.
Show(line) ==
  /\ Quiet /\ Understood(line)
  /\ line.words[1] \in {"status", "report"} /\ line.words[2] = "run"
  /\ status # "none"
  /\ Exit(ExitCodeForStatus(status), TRUE)
  /\ UNCHANGED vars

\* The id is not known, or the network breaks.
RequestFails(line) ==
  /\ Quiet /\ Understood(line)
  /\ Exit(ExitCodes.error, TRUE)
  /\ UNCHANGED vars

\* pollRun: a poll, its failure, or the end of the time.
PollEnds ==
  /\ cli.phase = "polling"
  /\ \/ status \in TerminalStates /\ Exit(ExitCodeForStatus(status), TRUE)
     \/ Exit(ExitCodes.error, TRUE)
  /\ UNCHANGED vars

\* printReportGitHub: how a step is marked, and the assertions it reports as
\* errors, whatever their severity.
Mark(step) ==
  CASE step.status = "failed" -> "error"
    [] step.status = "passed" -> "notice"
    [] OTHER -> "warning"
ErrorsShown(step) == {k \in DOMAIN step.assertions : step.assertions[k].result = "failed"}

\* updateRunStatus stores any status that is reported; this project's runner
\* reports a verdict only.
ReportOther(s) ==
  /\ phase = "done" /\ status = "pending"
  /\ status' = s
  /\ UNCHANGED <<execVars, source, origin, rows, cli>>

-----------------------------------------------------------------------------
ClientStep ==
  \/ \E argv \in CommandLine : LET line == ParseArgs(argv) IN
       \/ Misused(line) \/ Show(line) \/ RequestFails(line)
       \/ \E d \in Workflow : Trigger(line, d)
  \/ PollEnds

ClientInit == Init /\ cli = [phase |-> "none", waited |-> FALSE, code |-> 0]

ClientNext ==
  \/ Next /\ UNCHANGED cli
  \/ ClientStep
  \/ \E s \in {"cancelled", "lost", "blocked"} : ReportOther(s)

ClientSpec == ClientInit /\ [][ClientNext]_clientVars

\* The runner goes on, a request ends (its timer aborts it), and the process
\* looks at its clock after every poll.
FairClientSpec ==
  /\ ClientSpec
  /\ WF_clientVars(~(phase = "idle") /\ Next /\ UNCHANGED cli)
  /\ WF_clientVars(PollEnds)

-----------------------------------------------------------------------------
IsOver == status \notin {"none", "pending"}

\* The report of a run that has its verdict tells of every step, main and
\* teardown alike, what the runner logged of it, in the runner's order
\* however the rows are read, and the outcome of its last attempt; a step
\* that was never begun was not run (when no two steps have one id).  But a
\* step with the id teardown is shown to have the marker of the teardown, and
\* its status is unknown when it has nothing else.
ReportTellsTheRun ==
  LET ids == PlanIds(plan)
      main == Len(plan.steps)
      Marker(e, id) == e = TeardownEvent /\ id = TeardownMark
      Logged(part, i, id) ==
        SelectSeq(log, LAMBDA e : (e.part = part /\ e.at = i) \/ Marker(e, id))
      Unrun(id) == IF \E k \in DOMAIN log : Marker(log[k], id) THEN "unknown" ELSE "not_run"
      Tells(step, part, i, id) ==
        /\ step.phase = part
        /\ step.events = Logged(part, i, id)
        /\ step.status = IF Outcome(part, i) = "none" THEN Unrun(id) ELSE Outcome(part, i)
  IN  status \in {"passed", "failed"} /\ Cardinality({ids[i] : i \in DOMAIN ids}) = Len(ids) =>
        \A read \in {rows, Reverse(rows)} :
          LET report == RunReport(plan, read)
          IN  \A i \in DOMAIN ids : IF i <= main THEN Tells(report[i], "main", i, ids[i])
                                    ELSE Tells(report[i], "teardown", i - main, ids[i])

\* What is stored of a step is what was logged of it, and so is what is shown.
EvidenceIsTold == EvidenceIsOfItsStep /\ ReportTellsTheRun

\* A pipeline can rely on the exit code: a command that waited, or asked,
\* ends with success only for a run that passed, and stays passed, whose
\* report marks no main step as an error and reports no failed assertion of
\* one as an error but warnings; with failure or cancellation only for a run
\* that ended so; and one that was told not to wait ends with success only
\* when the run exists.
ExitIsVerdict ==
  cli.phase = "exited" =>
    /\ cli.code = 0 /\ ~cli.waited => origin = "workflow"
    /\ cli.code = 0 /\ cli.waited =>
         /\ status = "passed"
         /\ \A i \in DOMAIN plan.steps :
              LET step == RunReport(plan, rows)[i]
              IN  /\ Mark(step) # "error"
                  /\ \A k \in ErrorsShown(step) : step.assertions[k].severity = "warn"
    /\ cli.code = 1 => status \in {"failed", "blocked"}
    /\ cli.code = 4 => status = "cancelled"

\* The verdict is what the evidence says, no warning fails a step, and the
\* pipeline is told the verdict.
VerdictIsTold == VerdictIsDeserved /\ BlockingDecides /\ ExitIsVerdict

\* Every run that is created ends: retries, polls and teardown steps are
\* finite, and the timer ends a request that hangs.  And a process that waits
\* for one ends.
RunEnds ==
  /\ (phase # "idle") ~> IsOver
  /\ (cli.phase = "polling") ~> (cli.phase = "exited")
=============================================================================
