--------------------------- MODULE PlanReview_proofs ---------------------------
(***************************************************************************)
(* Proofs about PlanReview, for any users, assets, proposals and number of *)
(* revisions.  The server compares revisions; that this protects proposals *)
(* rests on the screen, where the revision a request names and the draft   *)
(* it carries are kept in two places and must change together.             *)
(***************************************************************************)
EXTENDS PlanReview, TLAPS

\* What the editor shows was made from the revision that the list shows.
EditorInv == \A u \in User : base[u] = view[u].revision

\* A save carries a proposal that was made from the revision it names.
SaveInv ==
  \A u \in User :
    /\ call[u].step \in {"save", "saveAndAdjust"} => call[u].from = call[u].revision
    /\ call[u].step \in {"save", "saveAndAdjust", "saved", "savedAndAdjust"} =>
         call[u].proposal \in Proposal

\* One publication is under way at a time, and has the row as it found it.
PublishInv ==
  \A u \in User : call[u].step = "publishing" =>
    /\ row.revision < MaxRevision /\ ~row.suite
    /\ row.revision = call[u].revision /\ row.proposal # {}
    /\ \A v \in User : call[v].step = "publishing" => v = u

IInv == TypeOK /\ EditorInv /\ SaveInv /\ PublishInv

-----------------------------------------------------------------------------
\* No answer is a row: the poll tells the two apart.
LEMMA NoAnswerIsNoRow == NoAnswer \notin Row
<1>1. SUFFICES ASSUME NoAnswer \in Row PROVE FALSE
  OBVIOUS
<1>2. "saved" \in DOMAIN NoAnswer
  BY <1>1 DEF Row
<1>3. QED BY <1>2 DEF NoAnswer

\* A request without contents, and the one that a screen sends.
LEMMA AnsweredType ==
  ASSUME NEW s \in Step
  PROVE  Answered(s) \in Call
BY RevisionsAreNat DEF Answered, Call, Revision

LEMMA SendType ==
  ASSUME IInv, NEW u \in User, NEW s \in {"save", "saveAndAdjust", "adjust", "publish"},
         Send(u, s)
  PROVE  /\ call' \in [User -> Call]
         /\ SaveInv'
         /\ \A v \in User : call'[v].step = "publishing" => call'[v] = call[v]
<1>1. view[u].revision \in Revision /\ base[u] \in Revision /\ draft[u] \in Proposal
  BY DEF IInv, TypeOK, Row
<1> DEFINE sent == [Answered(s) EXCEPT !.revision = view[u].revision,
                      !.proposal = IF s = "adjust" THEN {} ELSE draft[u],
                      !.from = IF s \in {"save", "saveAndAdjust"} THEN base[u] ELSE 0]
<1>2. sent \in Call /\ sent.step = s /\ sent.revision = view[u].revision
      /\ (s # "adjust" => sent.proposal = draft[u])
      /\ (s \in {"save", "saveAndAdjust"} => sent.from = base[u])
  <2> DEFINE p == IF s = "adjust" THEN {} ELSE draft[u]
             f == IF s \in {"save", "saveAndAdjust"} THEN base[u] ELSE 0
  <2>2. p \in Proposal \cup {{}} /\ f \in Revision /\ s \in Step
    BY <1>1, RevisionsAreNat DEF Step, Revision
  <2>3. (s # "adjust" => p = draft[u]) /\ (s \in {"save", "saveAndAdjust"} => f = base[u])
    OBVIOUS
  <2> DEFINE a == Answered(s)
  <2>4. a \in Call /\ a.step = s
    BY <2>2, AnsweredType DEF Answered
  <2>5. sent = [a EXCEPT !.revision = view[u].revision, !.proposal = p, !.from = f]
    OBVIOUS
  <2> HIDE DEF p, f, a, sent
  <2>6. sent \in Call
    BY <1>1, <2>2, <2>4, <2>5 DEF Call
  <2>7. sent.step = s /\ sent.revision = view[u].revision /\ sent.proposal = p /\ sent.from = f
    BY <2>4, <2>5 DEF Call
  <2>8. QED BY <2>3, <2>6, <2>7
<1>3. call' = [call EXCEPT ![u] = sent]
  BY DEF Send
<1> HIDE DEF sent
<1>4. call' \in [User -> Call]
  BY <1>2, <1>3 DEF IInv, TypeOK
<1>5. SaveInv'
  BY <1>2, <1>3 DEF IInv, TypeOK, SaveInv, EditorInv
<1>6. \A v \in User : call'[v].step = "publishing" => call'[v] = call[v]
  BY <1>2, <1>3 DEF IInv, TypeOK
<1>7. QED BY <1>4, <1>5, <1>6

\* Requests and answers keep the calls in order while the row stays.
LEMMA CallsKept ==
  ASSUME IInv, NEW u \in User, NEW s \in {"none", "adjust", "leaving"}, Answer(u, s)
  PROVE  /\ call' \in [User -> Call]
         /\ SaveInv'
         /\ \A v \in User : call'[v].step = "publishing" => v # u /\ call'[v] = call[v]
<1>1. Answered(s) \in Call /\ Answered(s).step = s
  BY AnsweredType DEF Answered, Step
<1>2. call' = [call EXCEPT ![u] = Answered(s)]
  BY DEF Answer
<1>3. s \notin {"save", "saveAndAdjust", "publishing"}
  OBVIOUS
<1>4. call' \in [User -> Call] /\ call'[u].step = s /\ call'[u].proposal = {}
      /\ \A v \in User \ {u} : call'[v] = call[v]
  BY <1>1, <1>2 DEF IInv, TypeOK, Answered
<1>5. s \notin {"saved", "savedAndAdjust"}
  OBVIOUS
<1>6. SaveInv'
  BY <1>3, <1>4, <1>5 DEF IInv, SaveInv
<1>7. QED BY <1>3, <1>4, <1>6

\* An editor that shows a row shows its revision.
LEMMA ShowKeeps ==
  ASSUME IInv, NEW u \in User, NEW r \in Row, Show(u, r)
  PROVE  /\ view' \in [User -> Row] /\ draft' \in [User -> Proposal]
         /\ base' \in [User -> Revision]
         /\ EditorInv'
<1>1. r.revision \in Revision /\ r.proposal \in Proposal
  BY DEF Row
<1>2. view' = [view EXCEPT ![u] = r]
  BY DEF Show
<1>3. CASE r.revision # view[u].revision
  BY <1>1, <1>2, <1>3 DEF IInv, TypeOK, EditorInv, Show
<1>4. CASE r.revision = view[u].revision
  BY <1>1, <1>2, <1>4 DEF IInv, TypeOK, EditorInv, Show
<1>5. QED BY <1>3, <1>4

-----------------------------------------------------------------------------
\* What users do on their screens.
LEMMA UserStepInv ==
  ASSUME IInv, NEW u \in User, UserStep(u)
  PROVE  IInv'
<1>1. ASSUME Edit(u) PROVE IInv'
  <2>1. TypeOK'
    BY <1>1 DEF IInv, TypeOK, Edit
  <2>2. EditorInv' /\ SaveInv' /\ PublishInv'
    BY <1>1 DEF IInv, EditorInv, SaveInv, PublishInv, Edit
  <2>3. QED BY <2>1, <2>2 DEF IInv
<1>2. ASSUME NEW s \in {"save", "saveAndAdjust", "adjust", "publish"}, Send(u, s),
             UNCHANGED <<row, view, draft, base, dirty, dialog, poll>>
      PROVE  IInv'
  <2>1. TypeOK' /\ SaveInv'
    BY <1>2, SendType DEF IInv, TypeOK
  <2>2. EditorInv'
    BY <1>2 DEF IInv, EditorInv
  <2>3. PublishInv'
    BY <1>2, SendType DEF IInv, PublishInv
  <2>4. QED BY <2>1, <2>2, <2>3 DEF IInv
<1>3. ASSUME OpenDialog(u) \/ Cancel(u) PROVE IInv'
  <2>1. TypeOK'
    BY <1>3 DEF IInv, TypeOK, OpenDialog, Cancel
  <2>2. EditorInv' /\ SaveInv' /\ PublishInv'
    BY <1>3 DEF IInv, EditorInv, SaveInv, PublishInv, OpenDialog, Cancel
  <2>3. QED BY <2>1, <2>2 DEF IInv
<1>4. ClickSave(u) \/ ClickAdjust(u) \/ Confirm(u) => IInv'
  BY <1>2 DEF ClickSave, ClickAdjust, Confirm
<1>5. QED BY <1>1, <1>3, <1>4 DEF UserStep

\* Polls, answers and errors, as the screens take them.
LEMMA ScreenStepInv ==
  ASSUME IInv, NEW u \in User, ScreenStep(u)
  PROVE  IInv'
<1>1. ASSUME AskList(u) PROVE IInv'
  <2>1. TypeOK'
    BY <1>1 DEF IInv, TypeOK, AskList
  <2>2. EditorInv' /\ SaveInv' /\ PublishInv'
    BY <1>1 DEF IInv, EditorInv, SaveInv, PublishInv, AskList
  <2>3. QED BY <2>1, <2>2 DEF IInv
<1>2. ASSUME ListArrives(u) PROVE IInv'
  <2>1. poll[u] \in Row
    BY <1>2 DEF IInv, TypeOK, ListArrives
  <2>2. view' \in [User -> Row] /\ draft' \in [User -> Proposal]
        /\ base' \in [User -> Revision] /\ EditorInv'
    BY <1>2, <2>1, ShowKeeps DEF ListArrives
  <2>3. TypeOK'
    BY <1>2, <2>2 DEF IInv, TypeOK, ListArrives
  <2>4. SaveInv' /\ PublishInv'
    BY <1>2 DEF IInv, SaveInv, PublishInv, ListArrives
  <2>5. QED BY <2>2, <2>3, <2>4 DEF IInv
<1>3. ASSUME SavedArrives(u) PROVE IInv'
  <2> DEFINE r == [revision |-> call[u].revision, proposal |-> call[u].proposal,
                   saved |-> TRUE, suite |-> FALSE]
  <2>1. r \in Row
    BY <1>3 DEF IInv, TypeOK, SaveInv, Call, Row, SavedArrives
  <2>2. view' \in [User -> Row] /\ draft' \in [User -> Proposal]
        /\ base' \in [User -> Revision] /\ EditorInv'
    BY <1>3, <2>1, ShowKeeps DEF SavedArrives
  <2>3. /\ call' \in [User -> Call] /\ SaveInv'
        /\ \A v \in User : call'[v].step = "publishing" => call'[v] = call[v]
    BY <1>3, CallsKept DEF SavedArrives, Step
  <2>4. TypeOK'
    BY <1>3, <2>2, <2>3 DEF IInv, TypeOK, SavedArrives
  <2>5. PublishInv'
    BY <1>3, <2>3 DEF IInv, PublishInv, SavedArrives
  <2>6. QED BY <2>2, <2>3, <2>4, <2>5 DEF IInv
<1>4. ASSUME GoOnAdjusting(u) PROVE IInv'
  <2>1. TypeOK'
    <3> DEFINE c == [call[u] EXCEPT !.step = "adjust", !.proposal = {}]
    <3>1. c \in Call
      BY DEF IInv, TypeOK, Call, Step
    <3>2. call' = [call EXCEPT ![u] = c]
      BY <1>4 DEF GoOnAdjusting, IInv, TypeOK
    <3>3. QED BY <1>4, <3>1, <3>2 DEF IInv, TypeOK, GoOnAdjusting, screenVars
  <2>2. EditorInv' /\ SaveInv' /\ PublishInv'
    BY <1>4 DEF IInv, TypeOK, EditorInv, SaveInv, PublishInv, GoOnAdjusting, screenVars
  <2>3. QED BY <2>1, <2>2 DEF IInv
<1>5. ASSUME Fails(u) PROVE IInv'
  <2>1. /\ call' \in [User -> Call] /\ SaveInv'
        /\ \A v \in User : call'[v].step = "publishing" => call'[v] = call[v]
    BY <1>5, CallsKept DEF Fails, Refuse, Step
  <2>2. TypeOK'
    BY <1>5, <2>1 DEF IInv, TypeOK, Fails, Refuse, screenVars
  <2>3. EditorInv' /\ PublishInv'
    BY <1>5, <2>1 DEF IInv, EditorInv, PublishInv, Fails, Refuse, screenVars
  <2>4. QED BY <2>1, <2>2, <2>3 DEF IInv
<1>6. ASSUME Leave(u) PROVE IInv'
  <2>1. /\ call' \in [User -> Call] /\ SaveInv'
        /\ \A v \in User : call'[v].step = "publishing" => call'[v] = call[v]
    BY <1>6, CallsKept DEF Leave, Step
  <2>2. TypeOK'
    BY <1>6, <2>1 DEF IInv, TypeOK, Row, Leave
  <2>3. EditorInv'
    BY <1>6 DEF IInv, TypeOK, EditorInv, Leave
  <2>4. PublishInv'
    BY <1>6, <2>1 DEF IInv, PublishInv, Leave
  <2>5. QED BY <2>1, <2>2, <2>3, <2>4 DEF IInv
<1>7. QED BY <1>1, <1>2, <1>3, <1>4, <1>5, <1>6 DEF ScreenStep

\* The transactions.
LEMMA ServerStepInv ==
  ASSUME IInv, NEW u \in User, ServerStep(u)
  PROVE  IInv'
<1>1. ASSUME NEW s \in {"none", "leaving"}, Answer(u, s),
             dialog' \in [User -> BOOLEAN], UNCHANGED <<row, screenVars>>
      PROVE  IInv'
  <2>1. /\ call' \in [User -> Call] /\ SaveInv'
        /\ \A v \in User : call'[v].step = "publishing" => call'[v] = call[v]
    BY <1>1, CallsKept
  <2>2. TypeOK'
    BY <1>1, <2>1 DEF IInv, TypeOK, screenVars
  <2>3. EditorInv' /\ PublishInv'
    BY <1>1, <2>1 DEF IInv, EditorInv, PublishInv, screenVars
  <2>4. QED BY <2>1, <2>2, <2>3 DEF IInv
<1>2. ASSUME Refuse(u), UNCHANGED <<row, screenVars>> PROVE IInv'
  BY <1>1, <1>2 DEF IInv, TypeOK, Refuse, Step
<1>3. ASSUME ServeSave(u), UNCHANGED row PROVE IInv'
  <2>1. row.revision \in Nat /\ row.revision + 1 # row.revision
    BY DEF IInv, TypeOK, Row, Revision
  <2>3. [row EXCEPT !.revision = @ + 1, !.proposal = call[u].proposal, !.saved = TRUE].revision
          = row.revision + 1
    BY DEF IInv, TypeOK, Row
  <2>2. QED BY <1>2, <1>3, <2>1, <2>3 DEF ServeSave
<1>4. ASSUME ServeSave(u), row' # row PROVE IInv'
  <2>1. /\ call[u].step \in {"save", "saveAndAdjust"} /\ RowFree
        /\ row' = [row EXCEPT !.revision = @ + 1, !.proposal = call[u].proposal,
                              !.saved = TRUE]
        /\ row.revision < MaxRevision
        /\ UNCHANGED <<dialog, screenVars>>
    BY <1>4 DEF ServeSave
  <2>2. row' \in Row /\ row'.revision \in Revision
    <3>1. row.revision + 1 \in Revision /\ call[u].proposal \in Proposal
      BY <2>1, RevisionsAreNat DEF IInv, TypeOK, SaveInv, Row, Revision
    <3>2. QED BY <2>1, <3>1 DEF IInv, TypeOK, Row
  <2>3. PICK s \in {"saved", "savedAndAdjust"} :
          call' = [call EXCEPT ![u] = [@ EXCEPT !.step = s, !.revision = row'.revision,
                                                !.from = 0]]
    BY <1>4 DEF ServeSave, IInv, TypeOK
  <2>4. call' \in [User -> Call] /\ SaveInv'
        /\ \A v \in User : call'[v].step # "publishing"
    <3> DEFINE c == [call[u] EXCEPT !.step = s, !.revision = row'.revision, !.from = 0]
    <3>1. c \in Call /\ c.step = s /\ c.proposal = call[u].proposal
      <4>1. s \in Step /\ 0 \in Revision /\ call[u] \in Call
        BY RevisionsAreNat DEF IInv, TypeOK, Step, Revision
      <4>2. QED BY <2>2, <4>1 DEF Call
    <3>2. call' = [call EXCEPT ![u] = c]
      BY <2>3
    <3> HIDE DEF c
    <3>3. call' \in [User -> Call] /\ call'[u] = c
          /\ \A v \in User \ {u} : call'[v] = call[v]
      BY <3>1, <3>2 DEF IInv, TypeOK
    <3>4. QED BY <2>1, <3>1, <3>3 DEF IInv, SaveInv, RowFree
  <2>5. TypeOK'
    BY <2>1, <2>2, <2>4 DEF IInv, TypeOK, screenVars
  <2>6. EditorInv' /\ PublishInv'
    BY <2>1, <2>4 DEF IInv, EditorInv, PublishInv, screenVars
  <2>7. QED BY <2>4, <2>5, <2>6 DEF IInv
<1>5. ASSUME ServeAdjust(u) PROVE IInv'
  BY <1>1, <1>2, <1>5 DEF ServeAdjust, IInv, TypeOK, Step
<1>6. ASSUME BeginPublish(u), NEW current \in SUBSET Asset, ~row.suite,
             MayBePublished(u), UNCHANGED dialog,
             call' = [call EXCEPT ![u].step = "publishing", ![u].fresh = current]
      PROVE  IInv'
  <2>1. RowFree /\ row.revision < MaxRevision /\ UNCHANGED <<row, screenVars>>
    BY <1>6 DEF BeginPublish
  <2>2. call' \in [User -> Call] /\ SaveInv'
    <3> DEFINE c == [call[u] EXCEPT !.step = "publishing", !.fresh = current]
    <3>1. c \in Call /\ c.step = "publishing"
      BY DEF IInv, TypeOK, Call, Step
    <3>2. call' = [call EXCEPT ![u] = c]
      BY <1>6 DEF IInv, TypeOK
    <3> HIDE DEF c
    <3>3. QED BY <3>1, <3>2 DEF IInv, TypeOK, SaveInv
  <2>3. TypeOK'
    BY <1>6, <2>1, <2>2 DEF IInv, TypeOK, screenVars
  <2>4. EditorInv'
    BY <2>1 DEF IInv, EditorInv, screenVars
  <2>5. PublishInv'
    BY <1>6, <2>1 DEF IInv, TypeOK, PublishInv, RowFree, MayBePublished, Call
  <2>6. QED BY <2>2, <2>3, <2>4, <2>5 DEF IInv
<1>7. ASSUME BeginPublish(u) PROVE IInv'
  BY <1>1, <1>2, <1>6, <1>7 DEF BeginPublish, IInv, TypeOK, Step
<1>8. ASSUME FinishPublish(u), UNCHANGED row PROVE IInv'
  <2>1. row.revision + 1 # row.revision
    BY DEF IInv, TypeOK, Row, Revision
  <2>2. Refuse(u)
    BY <1>8, <2>1 DEF FinishPublish, IInv, TypeOK, Row
  <2>3. QED BY <1>2, <1>8, <2>2 DEF FinishPublish
<1>9. ASSUME FinishPublish(u), row' # row PROVE IInv'
  <2>1. /\ row' = [row EXCEPT !.revision = @ + 1, !.suite = TRUE]
        /\ Answer(u, "leaving") /\ UNCHANGED <<dialog, screenVars>>
        /\ call[u].step = "publishing"
    BY <1>9 DEF FinishPublish
  <2>2. row' \in Row
    <3>1. row.revision + 1 \in Revision
      BY <2>1, RevisionsAreNat DEF IInv, TypeOK, PublishInv, Row, Revision
    <3>2. QED BY <2>1, <3>1 DEF IInv, TypeOK, Row
  <2>3. call' \in [User -> Call] /\ SaveInv'
        /\ \A v \in User : call'[v].step # "publishing"
    BY <2>1, CallsKept DEF IInv, PublishInv, Step
  <2>4. TypeOK'
    BY <2>1, <2>2, <2>3 DEF IInv, TypeOK, screenVars
  <2>5. EditorInv' /\ PublishInv'
    BY <2>1, <2>3 DEF IInv, EditorInv, PublishInv, screenVars
  <2>6. QED BY <2>3, <2>4, <2>5 DEF IInv
<1>10. QED BY <1>3, <1>4, <1>5, <1>7, <1>8, <1>9 DEF ServerStep

LEMMA DeleteSuiteInv ==
  ASSUME IInv, DeleteSuite
  PROVE  IInv'
<1>1. TypeOK'
  BY DEF IInv, TypeOK, Row, DeleteSuite, screenVars
<1>2. EditorInv' /\ SaveInv' /\ PublishInv'
  BY DEF IInv, EditorInv, SaveInv, PublishInv, RowFree, DeleteSuite, screenVars
<1>3. QED BY <1>1, <1>2 DEF IInv

-----------------------------------------------------------------------------
LEMMA InitInv == Init => IInv
<1> SUFFICES ASSUME Init PROVE IInv
  OBVIOUS
<1>1. row \in Row /\ Answered("none") \in Call
  BY ProposalsAreMembers, RevisionsAreNat, AnsweredType DEF Init, Row, Revision, Step
<1>2. 1 \in Revision /\ Generated \in Proposal
  BY ProposalsAreMembers, RevisionsAreNat DEF Revision
<1>5. TypeOK
  BY <1>1, <1>2 DEF Init, TypeOK
<1>3. EditorInv /\ SaveInv /\ PublishInv
  BY DEF Init, EditorInv, SaveInv, PublishInv, Answered
<1>4. QED BY <1>5, <1>3 DEF IInv

LEMMA NextInv ==
  ASSUME IInv, [Next]_vars
  PROVE  IInv'
<1>1. ASSUME NEW u \in User, UserStep(u) \/ ScreenStep(u) \/ ServerStep(u) PROVE IInv'
  BY <1>1, UserStepInv, ScreenStepInv, ServerStepInv
<1>2. CASE UNCHANGED vars
  BY <1>2 DEF IInv, TypeOK, EditorInv, SaveInv, PublishInv, vars
<1>3. QED BY <1>1, <1>2, DeleteSuiteInv DEF Next

\* The row, the screens and the requests stay as the invariant says, whatever
\* users click and in whatever order answers arrive (AiPlanWorkbench.tsx,
\* savePlanDraft, publishPlan).
THEOREM Invariance == Spec => []IInv
<1>1. QED BY InitInv, NextInv, PTL DEF Spec

\* The columns and the state of the screens stay of their types.
THEOREM TypeCorrect == Spec => []TypeOK
<1>1. IInv => TypeOK
  BY DEF IInv
<1>2. QED BY <1>1, Invariance, PTL

\* savePlanDraft compares revisions, and so no save replaces a proposal other
\* than the one its author's edits were made from.
THEOREM NoLostUpdateAlways == Spec => NoLostUpdate
<1>1. ASSUME IInv, NEW u \in User, ServeSave(u), row' # row
      PROVE  call[u].from = row.revision
  <2>1. MayBeSaved(u) /\ call[u].step \in {"save", "saveAndAdjust"}
    BY <1>1 DEF ServeSave
  <2>2. QED BY <1>1, <2>1 DEF IInv, SaveInv, MayBeSaved
<1>2. IInv => [\A u \in User : ServeSave(u) /\ row' # row =>
                 call[u].from = row.revision]_vars
  BY <1>1
<1>3. QED BY <1>2, Invariance, PTL DEF NoLostUpdate

\* publishPlan makes the suite of the confirmed revision, and only of members
\* that were current when it began, although row, tests and workflows are read
\* by one statement after another.
THEOREM SuiteIsConfirmedAlways == Spec => SuiteIsConfirmed
<1>1. ASSUME IInv, NEW u \in User, FinishPublish(u), row'.suite
      PROVE  /\ call[u].revision = row.revision /\ row.proposal # {}
             /\ row.proposal \subseteq call[u].fresh
  <2>1. ~row.suite /\ call[u].revision = row.revision /\ row.proposal # {}
    BY <1>1 DEF IInv, PublishInv, FinishPublish
  <2>2. PICK workflows \in SUBSET (Workflow \cap call[u].fresh) : StillCurrent(u, workflows)
    BY <1>1, <2>1 DEF FinishPublish
  <2>3. QED BY <2>1, <2>2 DEF StillCurrent
<1>2. IInv => [\A u \in User : FinishPublish(u) /\ row'.suite =>
                 /\ call[u].revision = row.revision
                 /\ row.proposal # {}
                 /\ row.proposal \subseteq call[u].fresh]_vars
  BY <1>1
<1>3. QED BY <1>2, Invariance, PTL DEF SuiteIsConfirmed

\* What has been published is not saved over, and gets no second suite
\* (savePlanDraft and publishPlan check suite_id under the row lock).
THEOREM PublishedStaysAlways == Spec => PublishedStays
<1>1. ASSUME IInv, [Next]_vars, row.suite, row'.suite
      PROVE  row' = row
  <2>1. ASSUME NEW u \in User, UserStep(u) PROVE row' = row
    BY <2>1 DEF UserStep, Edit, ClickSave, ClickAdjust, OpenDialog, Cancel, Confirm
  <2>2. ASSUME NEW u \in User, ScreenStep(u) PROVE row' = row
    BY <2>2 DEF ScreenStep, AskList, ListArrives, SavedArrives, GoOnAdjusting, Fails, Leave
  <2>3. ASSUME NEW u \in User, ServeSave(u) PROVE row' = row
    BY <1>1, <2>3 DEF ServeSave, MayBeSaved
  <2>4. ASSUME NEW u \in User, ServeAdjust(u) \/ BeginPublish(u) PROVE row' = row
    BY <2>4 DEF ServeAdjust, BeginPublish
  <2>5. ASSUME NEW u \in User, FinishPublish(u) PROVE row' = row
    BY <1>1, <2>5 DEF FinishPublish, IInv, PublishInv
  <2>6. CASE DeleteSuite
    BY <1>1, <2>6 DEF DeleteSuite, IInv, TypeOK, Row
  <2>7. CASE UNCHANGED vars
    BY <2>7 DEF vars
  <2>8. QED BY <1>1, <2>1, <2>2, <2>3, <2>4, <2>5, <2>6, <2>7 DEF Next, ServerStep
<1>2. IInv /\ [Next]_vars => [row.suite /\ row'.suite => row' = row]_vars
  BY <1>1
<1>3. QED BY <1>2, Invariance, PTL DEF PublishedStays, Spec
=============================================================================
