----------------------------- MODULE PlanReview -----------------------------
(***************************************************************************)
(* The review of one generated plan: its row in ai_plan_jobs once the job  *)
(* has completed, the transactions that save, publish and adjust it, and   *)
(* the screens (AiPlanWorkbench) on which several users edit it at a time. *)
(*                                                                         *)
(* A screen polls the list every 4 s and shows what the answer says, and   *)
(* an answer may be overtaken by the answer to a save.  A draft is         *)
(* published against an inventory that others keep changing: tests are     *)
(* read by one SELECT, workflows by a later one, and each is compared with *)
(* the version that the plan's task names.  An asset that was published    *)
(* again, or deleted, never has that version again.                        *)
(***************************************************************************)
EXTENDS Naturals, FiniteSets

CONSTANTS
  User,        \* users with the plan on their screen
  Test,        \* published test cases in the task's snapshot
  Workflow,    \* published workflows in it
  Proposal,    \* the member sets users choose among
  Generated,   \* the one the worker proposed
  MaxRevision  \* bound: no save or publication beyond this revision

Asset == Test \cup Workflow

ASSUME ProposalsAreMembers == Generated \in Proposal /\ Proposal \subseteq SUBSET Asset
ASSUME RevisionsAreNat == MaxRevision \in Nat \ {0}

VARIABLES
  row,      \* the columns of the plan's row
  view,     \* view[u]: the row as u's screen has it
  draft,    \* draft[u]: what the editor shows
  base,     \* base[u]: the revision the edits started from (history)
  dirty,    \* dirty[u]: 'there are unsaved changes'
  dialog,   \* dialog[u]: the confirmation dialog is open
  call,     \* call[u]: the request u's screen waits for
  poll      \* poll[u]: the answer to a poll that is on its way

vars == <<row, view, draft, base, dirty, dialog, call, poll>>

-----------------------------------------------------------------------------
Revision == 0..MaxRevision
Row == [revision : Revision, proposal : Proposal, saved : BOOLEAN, suite : BOOLEAN]

\* A request: what the screen sent and, as history, the proposal it showed and
\* the revision that one was made from; of a publication under way, the assets
\* that were current when it began and read the tests.
Step == {"none", "save", "saveAndAdjust", "adjust", "publish", "publishing",
         "saved", "savedAndAdjust", "leaving"}
Call == [step : Step, revision : Revision, proposal : Proposal \cup {{}},
         from : Revision, fresh : SUBSET Asset]

NoAnswer == [revision |-> 0]

TypeOK ==
  /\ row \in Row
  /\ view \in [User -> Row]
  /\ draft \in [User -> Proposal]
  /\ base \in [User -> Revision]
  /\ dirty \in [User -> BOOLEAN] /\ dialog \in [User -> BOOLEAN]
  /\ call \in [User -> Call]
  /\ poll \in [User -> Row \cup {NoAnswer}]

Answered(step) == [step |-> step, revision |-> 0, proposal |-> {}, from |-> 0,
                   fresh |-> {}]
Ready(u) == call[u].step = "none"

\* The worker has completed the job: revision 1, proposed but never saved.
Init ==
  /\ row = [revision |-> 1, proposal |-> Generated, saved |-> FALSE, suite |-> FALSE]
  /\ view = [u \in User |-> row]
  /\ draft = [u \in User |-> Generated]
  /\ base = [u \in User |-> 1]
  /\ dirty = [u \in User |-> FALSE] /\ dialog = [u \in User |-> FALSE]
  /\ call = [u \in User |-> Answered("none")]
  /\ poll = [u \in User |-> NoAnswer]

-----------------------------------------------------------------------------
(* The screen.                                                             *)

\* Mutant of Show: the editor is reset for another job only.
ShowKeepingDraft(u, r) ==
  /\ view' = [view EXCEPT ![u] = r]
  /\ UNCHANGED <<draft, base>>

\* setJobs, and the effect on [job.id, job.revision] that resets the editor.
Show(u, r) ==
  /\ view' = [view EXCEPT ![u] = r]
  /\ IF r.revision # view[u].revision
     THEN /\ draft' = [draft EXCEPT ![u] = r.proposal]
          /\ base' = [base EXCEPT ![u] = r.revision]
     ELSE UNCHANGED <<draft, base>>

\* The fields are disabled by a suite only, not by a request under way.
Edit(u) ==
  /\ ~view[u].suite /\ ~dialog[u]
  /\ \E p \in Proposal \ {draft[u]} : draft' = [draft EXCEPT ![u] = p]
  /\ dirty' = [dirty EXCEPT ![u] = TRUE]
  /\ UNCHANGED <<row, view, base, dialog, call, poll>>

\* The server reads the row.  Bound: one answer on its way, to any screen.
AskList(u) ==
  /\ \A v \in User : poll[v] = NoAnswer
  /\ poll' = [poll EXCEPT ![u] = row]
  /\ UNCHANGED <<row, view, draft, base, dirty, dialog, call>>

ListArrives(u) ==
  /\ poll[u] # NoAnswer
  /\ poll' = [poll EXCEPT ![u] = NoAnswer]
  /\ Show(u, poll[u])
  /\ dirty' = [dirty EXCEPT ![u] = @ /\ poll[u].revision = view[u].revision]
  /\ UNCHANGED <<row, dialog, call>>

Send(u, step) ==
  call' = [call EXCEPT ![u] =
    [Answered(step) EXCEPT !.revision = view[u].revision,
                           !.proposal = IF step = "adjust" THEN {} ELSE draft[u],
                           !.from = IF step \in {"save", "saveAndAdjust"}
                                    THEN base[u] ELSE 0]]

ClickSave(u) ==
  /\ Ready(u) /\ ~dialog[u] /\ ~view[u].suite
  /\ Send(u, "save")
  /\ UNCHANGED <<row, view, draft, base, dirty, dialog, poll>>

\* generate: a dirty draft is saved first.
ClickAdjust(u) ==
  /\ Ready(u) /\ ~dialog[u]
  /\ Send(u, IF dirty[u] THEN "saveAndAdjust" ELSE "adjust")
  /\ UNCHANGED <<row, view, draft, base, dirty, dialog, poll>>

OpenDialog(u) ==
  /\ Ready(u) /\ ~dialog[u]
  /\ view[u].saved /\ ~dirty[u] /\ ~view[u].suite /\ draft[u] # {}
  /\ dialog' = [dialog EXCEPT ![u] = TRUE]
  /\ UNCHANGED <<row, view, draft, base, dirty, call, poll>>

Cancel(u) ==
  /\ dialog[u] /\ Ready(u)
  /\ dialog' = [dialog EXCEPT ![u] = FALSE]
  /\ UNCHANGED <<row, view, draft, base, dirty, call, poll>>

\* The dialog has been open for a while: what it confirms is on the screen now.
Confirm(u) ==
  /\ dialog[u] /\ Ready(u)
  /\ Send(u, "publish")
  /\ UNCHANGED <<row, view, draft, base, dirty, dialog, poll>>

-----------------------------------------------------------------------------
(* The transactions.  Each begins by locking the row.                      *)

RowFree == \A u \in User : call[u].step # "publishing"
Answer(u, step) == call' = [call EXCEPT ![u] = Answered(step)]
screenVars == <<view, draft, base, dirty, poll>>

\* Refused with 4xx, or failed and rolled back: the screen shows an error and
\* is ready again.
Refuse(u) ==
  /\ Answer(u, "none")
  /\ dialog' = [dialog EXCEPT ![u] = FALSE]

\* Mutant of MayBeSaved: nothing is compared.
MayBeSavedAnyway(u) == TRUE

MayBeSaved(u) == row.revision = call[u].revision /\ ~row.suite
MayBeAdjusted(u) == row.revision = call[u].revision

\* savePlanDraft.
ServeSave(u) ==
  /\ call[u].step \in {"save", "saveAndAdjust"} /\ RowFree
  /\ row.revision < MaxRevision
  /\ \/ /\ MayBeSaved(u)
        /\ row' = [row EXCEPT !.revision = @ + 1, !.proposal = call[u].proposal,
                              !.saved = TRUE]
        /\ call' = [call EXCEPT
             ![u].step = IF @ = "save" THEN "saved" ELSE "savedAndAdjust",
             ![u].revision = row'.revision, ![u].from = 0]
        /\ UNCHANGED dialog
     \/ ~MayBeSaved(u) /\ Refuse(u) /\ UNCHANGED row
  /\ UNCHANGED screenVars

\* enqueuePlan with a parent: the new task's 'previous' is the parent's
\* proposal.  It may be refused for lack of a worker or of a place, too.
ServeAdjust(u) ==
  /\ call[u].step = "adjust" /\ RowFree
  /\ \/ MayBeAdjusted(u) /\ Answer(u, "leaving") /\ UNCHANGED dialog
     \/ Refuse(u)
  /\ UNCHANGED <<row, screenVars>>

\* Mutant of MayBePublished: the revision is not compared.
MayBePublishedAnyway(u) == row.saved /\ row.proposal # {}

MayBePublished(u) ==
  row.saved /\ row.revision = call[u].revision /\ row.proposal # {}

\* publishPlan up to the first SELECT of the inventory.  What has a suite is
\* answered with it, whatever the request says.
BeginPublish(u) ==
  /\ call[u].step = "publish" /\ RowFree
  /\ row.revision < MaxRevision
  /\ \/ row.suite /\ Answer(u, "leaving") /\ UNCHANGED dialog
     \/ ~row.suite /\ ~MayBePublished(u) /\ Refuse(u)
     \/ /\ ~row.suite /\ MayBePublished(u)
        /\ \E current \in SUBSET Asset :
             call' = [call EXCEPT ![u].step = "publishing", ![u].fresh = current]
        /\ UNCHANGED dialog
  /\ UNCHANGED <<row, screenVars>>

\* Every member is in the inventory, with the version in the task.
StillCurrent(u, workflows) ==
  row.proposal \subseteq (Test \cap call[u].fresh) \cup workflows

\* The workflows are read, those that are still current since the tests were,
\* the members compared, and the suite inserted.
FinishPublish(u) ==
  /\ call[u].step = "publishing"
  /\ \/ /\ \E workflows \in SUBSET (Workflow \cap call[u].fresh) :
             StillCurrent(u, workflows)
        /\ row' = [row EXCEPT !.revision = @ + 1, !.suite = TRUE]
        /\ Answer(u, "leaving") /\ UNCHANGED dialog
     \/ Refuse(u) /\ UNCHANGED row
  /\ UNCHANGED screenVars

-----------------------------------------------------------------------------
(* Answers and the world.                                                  *)

\* The answer to a save is shown, and the draft counts as saved.
SavedArrives(u) ==
  /\ call[u].step = "saved"
  /\ Show(u, [revision |-> call[u].revision, proposal |-> call[u].proposal,
              saved |-> TRUE, suite |-> FALSE])
  /\ dirty' = [dirty EXCEPT ![u] = FALSE]
  /\ Answer(u, "none")
  /\ UNCHANGED <<row, dialog, poll>>

\* generate goes on from the saved revision; the list is not updated.
GoOnAdjusting(u) ==
  /\ call[u].step = "savedAndAdjust"
  /\ call' = [call EXCEPT ![u].step = "adjust", ![u].proposal = {}]
  /\ UNCHANGED <<row, screenVars, dialog>>

\* The request, or its answer, was lost: the screen does not know whether it
\* was served.
Fails(u) ==
  /\ call[u].step \notin {"none", "publishing"}
  /\ Refuse(u)
  /\ UNCHANGED <<row, screenVars>>

\* The screen leaves for the new job, or for the list of plans, and is built
\* anew when its user returns.
Leave(u) ==
  /\ call[u].step = "leaving"
  /\ view' = [view EXCEPT ![u] = row]
  /\ draft' = [draft EXCEPT ![u] = row.proposal]
  /\ base' = [base EXCEPT ![u] = row.revision]
  /\ dirty' = [dirty EXCEPT ![u] = FALSE]
  /\ dialog' = [dialog EXCEPT ![u] = FALSE]
  /\ Answer(u, "none")
  /\ poll' = [poll EXCEPT ![u] = NoAnswer]
  /\ UNCHANGED row

\* Somebody deletes the suite: ON DELETE SET NULL.
DeleteSuite ==
  /\ row.suite /\ RowFree
  /\ row' = [row EXCEPT !.suite = FALSE]
  /\ UNCHANGED <<screenVars, dialog, call>>

-----------------------------------------------------------------------------
UserStep(u) ==
  \/ Edit(u) \/ ClickSave(u) \/ ClickAdjust(u)
  \/ OpenDialog(u) \/ Cancel(u) \/ Confirm(u)

ScreenStep(u) ==
  \/ AskList(u) \/ ListArrives(u)
  \/ SavedArrives(u) \/ GoOnAdjusting(u) \/ Fails(u) \/ Leave(u)

ServerStep(u) ==
  ServeSave(u) \/ ServeAdjust(u) \/ BeginPublish(u) \/ FinishPublish(u)

Next ==
  \/ \E u \in User : UserStep(u) \/ ScreenStep(u) \/ ServerStep(u)
  \/ DeleteSuite

Spec == Init /\ [][Next]_vars

-----------------------------------------------------------------------------
(* Properties.                                                             *)

\* A save replaces a proposal its author was looking at: what the edits were
\* made from is the revision they replace.  (The revision the request names
\* comes from the list, the edits from the editor: they agree because every
\* answer that changes the one resets the other.)
NoLostUpdate ==
  [][\A u \in User : ServeSave(u) /\ row' # row =>
       call[u].from = row.revision]_vars

\* A suite is made of the proposal at the revision its publisher confirmed,
\* and of members none of which was republished or deleted before the
\* publication began, although row, tests and workflows are read one after
\* another.
SuiteIsConfirmed ==
  [][\A u \in User : FinishPublish(u) /\ row'.suite =>
       /\ call[u].revision = row.revision
       /\ row.proposal # {}
       /\ row.proposal \subseteq call[u].fresh]_vars

\* While a plan has its suite nobody saves another draft over what was
\* published, and no second suite is made.
PublishedStays ==
  [][row.suite /\ row'.suite => row' = row]_vars

\* The suite consists of the members that were on the publisher's screen.
\* AiPlanWorkbench says so; see the README for how the code fails to.
SuiteIsWhatWasShown ==
  [][\A u \in User : FinishPublish(u) /\ row'.suite =>
       row.proposal = call[u].proposal]_vars
=============================================================================
