--------------------------- MODULE TestAuthoring ---------------------------
(***************************************************************************)
(* Test cases and their versions (modules/test-authoring) and the drafts   *)
(* that the rule-driven generator writes and reviewers turn into cases     *)
(* (modules/generation/generation.service.ts).  A step is one statement or *)
(* one transaction; test_case_versions is unique in (case, version), and   *)
(* versions and drafts refer to their case by foreign keys.                *)
(***************************************************************************)
EXTENDS Integers, FiniteSets

CONSTANTS
  Case,         \* ids of test cases
  Draft, Job,   \* generated drafts, and the jobs that write them
  JobOf,        \* Draft -> Job
  Editor,       \* people who edit a case and save it
  Reviewer,     \* requests that accept or reject a draft
  Deleter,      \* requests that delete a case
  MaxSaves,     \* bound: versions that are ever inserted
  MaxWipes,     \* bound: deletions that are begun
  Null          \* NULL, and no case or draft

ASSUME AuthoringBoundsAreNat == MaxSaves \in Nat /\ MaxWipes \in Nat

ASSUME NullIsNoId == Null \notin Case \cup Draft

VARIABLES
  cases,      \* rows of test_cases
  used,       \* ids that were ever drawn
  versions,   \* rows of test_case_versions of each case
  saves,      \* number of version ids drawn
  wipes,      \* how often the versions of a case were deleted
  edit,       \* what each editor does ("absent": does not come)
  job,        \* generation_jobs.status
  alive,      \* jobs whose runGeneration is executing
  status,     \* generated_drafts.status, "absent" before the INSERT
  caseOf,     \* generated_drafts.test_case_id
  born,       \* the draft a case was made from
  review,     \* draft whose row a review has locked
  deleting    \* case whose versions a request has deleted

caseVars == <<cases, used, versions, saves, wipes>>
draftVars == <<job, alive, status, caseOf, born, review>>
authoringVars == <<caseVars, edit, draftVars, deleting>>

\* What somebody who edits has in hand, and where the request to save it is.
Hand == [at : {"absent", "away", "editing", "found", "numbered"},
         case : Case \cup {Null}, base : 0..MaxSaves, revision : 0..MaxSaves,
         checked : BOOLEAN, version : 0..(MaxSaves + 1)]
Row == [id : 1..MaxSaves, version : 1..MaxSaves, published : BOOLEAN]
Idle == [at |-> "away", case |-> Null, base |-> 0, revision |-> 0,
         checked |-> FALSE, version |-> 0]
Absent == [Idle EXCEPT !.at = "absent"]

\* What ORDER BY version DESC LIMIT 1 finds, a row of zeros if nothing.
Latest(c) ==
  IF versions[c] = {} THEN [id |-> 0, version |-> 0, published |-> FALSE]
  ELSE CHOOSE v \in versions[c] : \A w \in versions[c] : w.version <= v.version

Reviewed == {"accepted", "modified"}

\* Types, and the foreign keys.
AuthoringTypeOK ==
  /\ cases \subseteq used /\ used \subseteq Case
  /\ \A c \in Case : versions[c] # {} => c \in cases
  /\ versions \in [Case -> SUBSET Row]
  /\ saves \in 0..MaxSaves
  /\ wipes \in [Case -> 0..MaxWipes]
  /\ edit \in [Editor -> Hand]
  /\ job \in [Job -> {"absent", "pending", "running", "completed", "failed"}]
  /\ alive \subseteq Job
  /\ status \in [Draft ->
       {"absent", "pending", "accepted", "modified", "rejected"}]
  /\ caseOf \in [Draft -> cases \cup {Null}]
  /\ born \in [Case -> Draft \cup {Null}]
  /\ review \in [Reviewer -> Draft \cup {Null}]
  /\ deleting \in [Deleter -> Case \cup {Null}]

\* Some of the editors come, and some of the jobs failed before.
AuthoringInit ==
  /\ edit \in [Editor -> {Idle, Absent}]
  /\ job \in [Job -> {"absent", "failed"}]
  /\ cases = {} /\ used = {}
  /\ versions = [c \in Case |-> {}]
  /\ saves = 0
  /\ wipes = [c \in Case |-> 0]
  /\ alive = {}
  /\ status = [d \in Draft |-> "absent"]
  /\ caseOf = [d \in Draft |-> Null]
  /\ born = [c \in Case |-> Null]
  /\ review = [r \in Reviewer |-> Null]
  /\ deleting = [x \in Deleter |-> Null]

(* Editing.                                                                *)

CreateTestCase(c) ==
  /\ c \notin used
  /\ cases' = cases \cup {c} /\ used' = used \cup {c}
  /\ UNCHANGED <<versions, saves, wipes, edit, draftVars, deleting>>

\* GET /api/test-cases/:id: somebody looks at the latest version.
Open(e, c) ==
  /\ edit[e].at = "away" /\ c \in cases
  /\ edit' = [edit EXCEPT ![e] = [Idle EXCEPT
       !.at = "editing", !.case = c,
       !.base = Latest(c).id, !.revision = Latest(c).version]]
  /\ UNCHANGED <<caseVars, draftVars, deleting>>

\* POST .../versions, with expectedRevision or (base and revision forgotten)
\* without: 404, or go on.
FindCase(e, checked) ==
  /\ edit[e].at = "editing"
  /\ edit' = [edit EXCEPT ![e] =
       IF @.case \notin cases THEN Idle
       ELSE IF checked THEN [@ EXCEPT !.at = "found", !.checked = TRUE]
       ELSE [@ EXCEPT !.at = "found", !.base = 0, !.revision = 0]]
  /\ UNCHANGED <<caseVars, draftVars, deleting>>

\* SELECT MAX(version); a revision that is not the expected one is a 409.
NumberDraft(e) ==
  /\ edit[e].at = "found"
  /\ LET max == Latest(edit[e].case).version IN
     edit' = [edit EXCEPT ![e] =
       IF @.checked /\ @.revision # max THEN Idle
       ELSE [@ EXCEPT !.at = "numbered", !.version = max + 1, !.revision = 0]]
  /\ UNCHANGED <<caseVars, draftVars, deleting>>

\* Mutant of Fits: no UNIQUE (test_case_id, version).
FitsAnyNumber(c, n) == c \in cases

\* The foreign key and the unique constraint of test_case_versions.
Fits(c, n) == c \in cases /\ \A v \in versions[c] : v.version # n

NewRow(n) == [id |-> saves + 1, version |-> n, published |-> FALSE]

\* INSERT of the number that was computed, or a constraint violation.
InsertVersion(e) ==
  /\ edit[e].at = "numbered" /\ saves < MaxSaves
  /\ LET c == edit[e].case
         n == edit[e].version
     IN IF Fits(c, n)
        THEN /\ versions' = [versions EXCEPT ![c] = @ \cup {NewRow(n)}]
             /\ saves' = saves + 1
        ELSE UNCHANGED <<versions, saves>>
  /\ edit' = [edit EXCEPT ![e] = Idle]
  /\ UNCHANGED <<cases, used, wipes, draftVars, deleting>>

\* UPDATE ... WHERE published_by IS NULL: the first publication counts.
PublishVersion(c, v) ==
  /\ v \in versions[c] /\ ~v.published
  /\ versions' = [versions EXCEPT ![c] =
       (@ \ {v}) \cup {[v EXCEPT !.published = TRUE]}]
  /\ UNCHANGED <<cases, used, saves, wipes, edit, draftVars, deleting>>

\* deleteTestCase, first statement.
DeleteVersions(x, c) ==
  /\ deleting[x] = Null /\ c \in cases /\ wipes[c] < MaxWipes
  /\ versions' = [versions EXCEPT ![c] = {}]
  /\ wipes' = [wipes EXCEPT ![c] = @ + 1]
  /\ deleting' = [deleting EXCEPT ![x] = c]
  /\ UNCHANGED <<cases, used, saves, edit, draftVars>>

Referenced(c) == versions[c] # {} \/ \E d \in Draft : caseOf[d] = c

\* Second statement, refused while a version or a draft refers to the case;
\* or the request dies between the two.
DeleteCase(x) ==
  /\ deleting[x] # Null
  /\ \/ UNCHANGED cases
     \/ /\ ~Referenced(deleting[x])
        /\ cases' = cases \ {deleting[x]}
  /\ deleting' = [deleting EXCEPT ![x] = Null]
  /\ UNCHANGED <<used, versions, saves, wipes, edit, draftVars>>

(* Generation.                                                             *)

\* generateTests: the job is a row, and runGeneration is left running.
GenerateTests(j) ==
  /\ job[j] = "absent"
  /\ job' = [job EXCEPT ![j] = "pending"]
  /\ alive' = alive \cup {j}
  /\ UNCHANGED <<caseVars, edit, status, caseOf, born, review, deleting>>

BeginGeneration(j) ==
  /\ j \in alive /\ job[j] = "pending"
  /\ job' = [job EXCEPT ![j] = "running"]
  /\ UNCHANGED <<caseVars, edit, alive, status, caseOf, born, review, deleting>>

\* One autocommitted INSERT: reviewers see it at once.
InsertDraft(d) ==
  /\ JobOf[d] \in alive /\ job[JobOf[d]] = "running" /\ status[d] = "absent"
  /\ status' = [status EXCEPT ![d] = "pending"]
  /\ UNCHANGED <<caseVars, edit, job, alive, caseOf, born, review, deleting>>

Written(j) == \A d \in Draft : JobOf[d] = j => status[d] # "absent"

CompleteGeneration(j) ==
  /\ j \in alive /\ job[j] = "running" /\ Written(j)
  /\ job' = [job EXCEPT ![j] = "completed"]
  /\ alive' = alive \ {j}
  /\ UNCHANGED <<caseVars, edit, status, caseOf, born, review, deleting>>

\* An exception, or an API version that is gone; the UPDATE may fail as well,
\* and a process that dies leaves the job as it is.
EndGeneration(j) ==
  /\ j \in alive
  /\ \/ job' = [job EXCEPT ![j] = "failed"]
     \/ UNCHANGED job
  /\ alive' = alive \ {j}
  /\ UNCHANGED <<caseVars, edit, status, caseOf, born, review, deleting>>

(* Review.                                                                 *)

\* Mutant of LockDraft: SELECT without FOR UPDATE.
LockDraftShared(r, d) ==
  /\ review[r] = Null /\ status[d] = "pending"
  /\ review' = [review EXCEPT ![r] = d]
  /\ UNCHANGED <<caseVars, edit, job, alive, status, caseOf, born, deleting>>

\* SELECT ... FOR UPDATE of a draft; one that was reviewed is a 409.
LockDraft(r, d) ==
  /\ review[r] = Null /\ status[d] = "pending"
  /\ \A s \in Reviewer : review[s] # d
  /\ review' = [review EXCEPT ![r] = d]
  /\ UNCHANGED <<caseVars, edit, job, alive, status, caseOf, born, deleting>>

\* A case, its version 1 and the review are committed together.
AcceptDraft(r, c, verdict) ==
  /\ review[r] # Null /\ c \notin used /\ saves < MaxSaves
  /\ cases' = cases \cup {c} /\ used' = used \cup {c}
  /\ versions' = [versions EXCEPT ![c] = {NewRow(1)}]
  /\ saves' = saves + 1
  /\ status' = [status EXCEPT ![review[r]] = verdict]
  /\ caseOf' = [caseOf EXCEPT ![review[r]] = c]
  /\ born' = [born EXCEPT ![c] = review[r]]
  /\ review' = [review EXCEPT ![r] = Null]
  /\ UNCHANGED <<wipes, edit, job, alive, deleting>>

RejectDraft(r) ==
  /\ review[r] # Null
  /\ status' = [status EXCEPT ![review[r]] = "rejected"]
  /\ review' = [review EXCEPT ![r] = Null]
  /\ UNCHANGED <<caseVars, edit, job, alive, caseOf, born, deleting>>

\* A definition that is refused, a statement that fails: ROLLBACK.
RollBackReview(r) ==
  /\ review[r] # Null
  /\ review' = [review EXCEPT ![r] = Null]
  /\ UNCHANGED <<caseVars, edit, job, alive, status, caseOf, born, deleting>>

(* The requests of test-authoring.routes and generation.routes.            *)

\* POST /api/test-cases, and publication.
CaseStep(c) ==
  \/ CreateTestCase(c)
  \/ \E v \in versions[c] : PublishVersion(c, v)

\* DELETE /api/test-cases/:id.
DeletionStep(x) == DeleteCase(x) \/ \E c \in Case : DeleteVersions(x, c)

\* GET /api/test-cases/:id, then POST /api/test-cases/:id/versions.
EditorStep(e) ==
  \/ \E c \in Case : Open(e, c)
  \/ \E checked \in BOOLEAN : FindCase(e, checked)
  \/ NumberDraft(e) \/ InsertVersion(e)

\* POST /api/generation-jobs, and what it leaves running.
GenerationStep(j) ==
  \/ GenerateTests(j) \/ BeginGeneration(j)
  \/ \E d \in Draft : JobOf[d] = j /\ InsertDraft(d)
  \/ CompleteGeneration(j) \/ EndGeneration(j)

\* POST /api/drafts/:id/accept, /reject.
ReviewStep(r) ==
  \/ \E d \in Draft : LockDraft(r, d)
  \/ \E c \in Case, verdict \in Reviewed : AcceptDraft(r, c, verdict)
  \/ RejectDraft(r) \/ RollBackReview(r)

AuthoringNext ==
  \/ \E c \in Case : CaseStep(c)
  \/ \E x \in Deleter : DeletionStep(x)
  \/ \E e \in Editor : EditorStep(e)
  \/ \E j \in Job : GenerationStep(j)
  \/ \E r \in Reviewer : ReviewStep(r)

AuthoringSpec == AuthoringInit /\ [][AuthoringNext]_authoringVars

\* A save that names the revision it was made from is stored directly on top
\* of the very version its author had opened, not only of one with the same
\* number, whatever was saved between the check and the INSERT.  A case whose
\* deletion was begun and refused is excepted: its numbers start again, and a
\* save that was numbered before leaves a gap (saveDraft, expectedRevision).
EditBuildsOnRead ==
  [][\A e \in Editor :
       (/\ edit[e].at = "numbered" /\ edit'[e].at = "away" /\ saves' > saves
        /\ edit[e].checked /\ wipes[edit[e].case] = 0)
       => Latest(edit[e].case).id = edit[e].base]_authoringVars

\* A draft that was accepted is the origin of one test case, which cannot be
\* deleted any more, and no other draft is, however many reviews raced; a
\* completed job has written all its drafts (acceptDraft, runGeneration).
DraftsAreAccountedFor ==
  /\ \A d \in Draft :
       Cardinality({c \in cases : born[c] = d}) = IF status[d] \in Reviewed THEN 1 ELSE 0
  /\ \A j \in Job : job[j] = "completed" =>
       \A d \in Draft : JobOf[d] = j => status[d] # "absent"
=============================================================================
