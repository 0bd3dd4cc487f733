-------------------------- MODULE VersionedAssets --------------------------
(***************************************************************************)
(* Environments, workflows, datasets and test suites of the control plane: *)
(* a row, and versions numbered under it (modules/environment, workflow,   *)
(* dataset, test-suite, and the schedules that refer to them).  A step is  *)
(* one statement, or one transaction.  A version refers to its row by a    *)
(* foreign key and (row, number) is unique; what members_json names is not *)
(* protected by any key.  Members that are test cases are checked like the *)
(* workflows, see TestAuthoring for their versions.                        *)
(***************************************************************************)
EXTENDS Integers, FiniteSets

CONSTANTS
  Environment, Workflow, Dataset, Suite,  \* ids of the rows of each table
  Request,       \* HTTP requests that are served at the same time
  MaxVersions,   \* bound: versions a row has at a time
  MaxDeletions,  \* bound: deletions of the versions of a row
  NoAsset

VARIABLES
  assets,     \* rows of environments, workflows, datasets and test_suites
  inserted,   \* ids that were ever inserted
  stored,     \* of each row, number -> what the version holds
  saved,      \* versions inserted since the last deletion
  deletions,  \* deletions of the versions of a row
  schedules,  \* schedule_configs, as pairs (suite, environment)
  saving      \* what each request does

assetVars == <<assets, inserted, stored, saved, deletions, schedules, saving>>

Asset == Environment \cup Workflow \cup Dataset \cup Suite
AssetVersion == [plan : BOOLEAN, members : SUBSET Workflow]
NoSave == [at |-> "idle", asset |-> NoAsset, number |-> 0, deletions |-> 0, members |-> {}]
EmptyVersion == [plan |-> FALSE, members |-> {}]

\* The tables are different ones, and no id is the absent one.
ASSUME TablesAreApart ==
  /\ Environment \cap Workflow = {} /\ Environment \cap Dataset = {}
  /\ Environment \cap Suite = {} /\ Workflow \cap Dataset = {}
  /\ Workflow \cap Suite = {} /\ Dataset \cap Suite = {}
  /\ NoAsset \notin Asset

ASSUME AssetBounds == MaxVersions \in Nat \ {0} /\ MaxDeletions \in Nat

\* A workflow with a version whose compiled_plan is stored.
Published(w) == w \in assets /\ \E n \in DOMAIN stored[w] : stored[w][n].plan

\* MAX(version) + 1, or 1.
NextNumber(a) ==
  CHOOSE n \in 1..MaxVersions + 1 :
    /\ DOMAIN stored[a] \subseteq 1..n - 1
    /\ n > 1 => n - 1 \in DOMAIN stored[a]

\* The foreign key to the row, and UNIQUE(row, version).
VersionFitsAnyNumber(a, n) == a \in assets
VersionFits(a, n) == a \in assets /\ n \notin DOMAIN stored[a]

\* Every workflow of a suite's new version has a published version.
MembersArePublished(ws) == \A w \in ws : Published(w)

Save ==
  [at : {"idle", "asked", "found", "checked", "numbered", "compiled", "wiped"},
   asset : Asset \cup {NoAsset}, number : 0..MaxVersions, deletions : 0..MaxDeletions,
   members : SUBSET Workflow]

RowsTypeOK ==
  /\ assets \subseteq inserted /\ inserted \subseteq Asset
  /\ DOMAIN stored = Asset
  /\ \A a \in Asset :
       /\ DOMAIN stored[a] \subseteq 1..MaxVersions
       /\ \A n \in DOMAIN stored[a] : stored[a][n] \in AssetVersion
       /\ a \notin assets => DOMAIN stored[a] = {}
  /\ saved \in [Asset -> 0..MaxVersions] /\ deletions \in [Asset -> 0..MaxDeletions]
  /\ schedules \subseteq (Suite \cap assets) \X ((Environment \cap assets) \cup {NoAsset})

AssetsTypeOK == RowsTypeOK /\ saving \in [Request -> Save]

AssetsInit ==
  /\ assets = {} /\ inserted = {}
  /\ stored = [a \in Asset |-> <<>>]
  /\ saved = [a \in Asset |-> 0] /\ deletions = [a \in Asset |-> 0]
  /\ schedules = {}
  /\ saving = [q \in Request |-> NoSave]

----------------------------------------------------------------------------
(* Rows.                                                                   *)

InsertRows(as) == assets' = assets \cup as /\ inserted' = inserted \cup as

WithFirst(as) ==
  /\ InsertRows(as)
  /\ stored' = [a \in Asset |-> IF a \in as THEN <<EmptyVersion>> ELSE stored[a]]
  /\ saved' = [a \in Asset |-> IF a \in as THEN 1 ELSE saved[a]]

\* The row and version 1 in one transaction.
CreateEnvironment(e) ==
  /\ e \in Environment \ inserted
  /\ WithFirst({e})
  /\ UNCHANGED <<deletions, schedules, saving>>

\* The row alone.
CreateAsset(a) ==
  /\ a \notin inserted
  /\ InsertRows({a})
  /\ UNCHANGED <<stored, saved, deletions, schedules, saving>>

CreateWorkflow(w) == w \in Workflow /\ CreateAsset(w)
CreateDataset(d) == d \in Dataset /\ CreateAsset(d)
CreateTestSuite(s) == s \in Suite /\ CreateAsset(s)

\* Every workflow of the document, with its version 1, in one transaction.
ImportArazzo(ws) ==
  /\ ws # {} /\ ws \subseteq Workflow \ inserted
  /\ WithFirst(ws)
  /\ UNCHANGED <<deletions, schedules, saving>>

\* importDatasetFromJson, importDatasetFromCsv: the row, and then a save.
ImportDataset(q, a) ==
  /\ saving[q] = NoSave /\ a \in Dataset \ inserted
  /\ InsertRows({a})
  /\ saving' = [saving EXCEPT ![q].at = "asked", ![q].asset = a]
  /\ UNCHANGED <<stored, saved, deletions, schedules>>

----------------------------------------------------------------------------
(* Saving a version: four statements.                                      *)

BeginSave(q, a, ws) ==
  /\ saving[q] = NoSave
  /\ saving' = [saving EXCEPT
       ![q].at = "asked", ![q].asset = a, ![q].members = ws]
  /\ UNCHANGED <<assets, inserted, stored, saved, deletions, schedules>>

CreateEnvironmentVersion(q, e) == e \in Environment /\ BeginSave(q, e, {})
SaveDraft(q, w) == w \in Workflow /\ BeginSave(q, w, {})
CreateDatasetVersion(q, d) == d \in Dataset /\ BeginSave(q, d, {})

\* A suite has members.
CreateTestSuiteVersion(q, s, ws) == s \in Suite /\ ws # {} /\ BeginSave(q, s, ws)

AnswerSave(q) == saving' = [saving EXCEPT ![q] = NoSave]

\* getEnvironment, getWorkflow, getDataset, getTestSuite: 404 without a row.
FindAsset(q) ==
  /\ saving[q].at = "asked"
  /\ IF saving[q].asset \in assets
     THEN saving' = [saving EXCEPT ![q].at = "found"] ELSE AnswerSave(q)
  /\ UNCHANGED <<assets, inserted, stored, saved, deletions, schedules>>

\* The count of members with a published version: 422 if one has none.
CheckMembers(q) ==
  /\ saving[q].at = "found" /\ saving[q].asset \in Suite
  /\ IF MembersArePublished(saving[q].members)
     THEN saving' = [saving EXCEPT ![q].at = "checked"] ELSE AnswerSave(q)
  /\ UNCHANGED <<assets, inserted, stored, saved, deletions, schedules>>

NumberVersion(q) ==
  /\ saving[q].at = IF saving[q].asset \in Suite THEN "checked" ELSE "found"
  /\ NextNumber(saving[q].asset) \in 1..MaxVersions
  /\ saving' = [saving EXCEPT
       ![q].at = "numbered", ![q].number = NextNumber(saving[q].asset)]
  /\ UNCHANGED <<assets, inserted, stored, saved, deletions, schedules>>

\* INSERT INTO ..._versions, or 409 or 500 if a key refuses it.
InsertAssetVersion(q) ==
  LET a == saving[q].asset  n == saving[q].number IN
  /\ saving[q].at = "numbered"
  /\ IF VersionFits(a, n)
     THEN /\ stored' = [stored EXCEPT ![a] =
               [m \in DOMAIN @ \cup {n} |->
                  IF m = n THEN [EmptyVersion EXCEPT !.members = saving[q].members]
                  ELSE @[m]]]
          /\ saved' = [saved EXCEPT ![a] = IF @ < MaxVersions THEN @ + 1 ELSE @]
     ELSE UNCHANGED <<stored, saved>>
  /\ AnswerSave(q)
  /\ UNCHANGED <<assets, inserted, deletions, schedules>>

----------------------------------------------------------------------------
(* Publishing a version of a workflow.                                     *)

\* publishVersion reads the version and compiles its definition; one that
\* does not compile changes nothing.
CompileVersion(q, w, n) ==
  /\ saving[q] = NoSave /\ w \in Workflow /\ n \in DOMAIN stored[w]
  /\ saving' = [saving EXCEPT ![q] =
       [NoSave EXCEPT !.at = "compiled", !.asset = w, !.number = n,
                      !.deletions = deletions[w]]]
  /\ UNCHANGED <<assets, inserted, stored, saved, deletions, schedules>>

\* UPDATE ... WHERE id: a version deleted meanwhile is not there any more,
\* and the answer says "published" all the same.
StorePlan(q) ==
  LET w == saving[q].asset  n == saving[q].number IN
  /\ saving[q].at = "compiled"
  /\ stored' = IF n \in DOMAIN stored[w] /\ saving[q].deletions = deletions[w]
               THEN [stored EXCEPT ![w][n].plan = TRUE] ELSE stored
  /\ AnswerSave(q)
  /\ UNCHANGED <<assets, inserted, saved, deletions, schedules>>

----------------------------------------------------------------------------
(* Deletions.                                                              *)

\* Whether a foreign key or a count keeps a row from being deleted.
Referred(a) ==
  DOMAIN stored[a] # {} \/ \E s \in schedules : a \in {s[1], s[2]}

DeleteUnlessReferred(a) == assets' = IF Referred(a) THEN assets ELSE assets \ {a}

Wiped(a) ==
  /\ stored' = [stored EXCEPT ![a] = <<>>]
  /\ saved' = [saved EXCEPT ![a] = 0]
  /\ deletions' = [deletions EXCEPT ![a] = @ + 1]

\* 409 while a schedule names it, 500 while it has versions, and it always has.
DeleteEnvironment(e) ==
  /\ e \in Environment \cap assets
  /\ DeleteUnlessReferred(e)
  /\ UNCHANGED <<inserted, stored, saved, deletions, schedules, saving>>

\* The versions, and in a second statement the row.
DeleteAssetVersions(q, a) ==
  /\ saving[q] = NoSave /\ a \in assets
  /\ deletions[a] < MaxDeletions
  /\ Wiped(a)
  /\ saving' = [saving EXCEPT ![q].at = "wiped", ![q].asset = a]
  /\ UNCHANGED <<assets, inserted, schedules>>

DeleteWorkflow(q, w) == w \in Workflow /\ DeleteAssetVersions(q, w)
DeleteDataset(q, d) == d \in Dataset /\ DeleteAssetVersions(q, d)

\* The row, unless a version was saved between the statements.
DeleteAssetRow(q) ==
  /\ saving[q].at = "wiped"
  /\ DeleteUnlessReferred(saving[q].asset)
  /\ AnswerSave(q)
  /\ UNCHANGED <<inserted, stored, saved, deletions, schedules>>

\* One statement deletes both unless a schedule refers: 409 then.
DeleteUnscheduled(s) ==
  /\ \A c \in schedules : c[1] # s
  /\ Wiped(s) /\ assets' = assets \ {s}

DeleteTestSuite(s) ==
  /\ s \in Suite \cap assets /\ deletions[s] < MaxDeletions
  /\ DeleteUnscheduled(s)
  /\ UNCHANGED <<inserted, schedules, saving>>

----------------------------------------------------------------------------
(* Schedules.                                                              *)

\* createSchedule, and updateSchedule for its environment: INSERT ... SELECT
\* finds the suite and the environment, the foreign keys keep them.
CreateSchedule(s, e) ==
  /\ s \in Suite \cap assets /\ e \in (Environment \cap assets) \cup {NoAsset}
  /\ schedules' = schedules \cup {<<s, e>>}
  /\ UNCHANGED <<assets, inserted, stored, saved, deletions, saving>>

UpdateSchedule(c, e) ==
  /\ c \in schedules /\ e \in (Environment \cap assets) \cup {NoAsset}
  /\ schedules' = (schedules \ {c}) \cup {<<c[1], e>>}
  /\ UNCHANGED <<assets, inserted, stored, saved, deletions, saving>>

DeleteSchedule(c) ==
  /\ c \in schedules
  /\ schedules' = schedules \ {c}
  /\ UNCHANGED <<assets, inserted, stored, saved, deletions, saving>>

\* The process or its connection dies between two statements.
AbandonSave(q) ==
  /\ saving[q] # NoSave
  /\ AnswerSave(q)
  /\ UNCHANGED <<assets, inserted, stored, saved, deletions, schedules>>

AssetsNext ==
  \/ \E a \in Asset : \/ CreateEnvironment(a) \/ CreateWorkflow(a)
                      \/ CreateDataset(a) \/ CreateTestSuite(a)
                      \/ DeleteEnvironment(a) \/ DeleteTestSuite(a)
  \/ \E ws \in SUBSET Workflow : ImportArazzo(ws)
  \/ \E q \in Request :
       \/ \E a \in Asset :
            \/ ImportDataset(q, a)
            \/ CreateEnvironmentVersion(q, a) \/ SaveDraft(q, a)
            \/ CreateDatasetVersion(q, a)
            \/ \E ws \in SUBSET Workflow : CreateTestSuiteVersion(q, a, ws)
            \/ \E n \in 1..MaxVersions : CompileVersion(q, a, n)
            \/ DeleteWorkflow(q, a) \/ DeleteDataset(q, a)
       \/ FindAsset(q) \/ CheckMembers(q) \/ NumberVersion(q) \/ InsertAssetVersion(q)
       \/ StorePlan(q) \/ DeleteAssetRow(q) \/ AbandonSave(q)
  \/ \E s \in Asset, e \in Asset \cup {NoAsset} : CreateSchedule(s, e)
  \/ \E c \in schedules :
       DeleteSchedule(c) \/ \E e \in Asset \cup {NoAsset} : UpdateSchedule(c, e)

AssetsSpec == AssetsInit /\ [][AssetsNext]_assetVars

----------------------------------------------------------------------------

\* Whatever is saved, published and deleted at the same time: the versions of
\* a row that nobody deletes are all those that were saved, numbered without a
\* gap; a suite's versions go only with the suite; an environment always has a
\* version, which a due schedule reads; and a member of a suite is published,
\* unless somebody deleted that workflow afterwards.
VersionsAreKept ==
  /\ \A a \in assets : deletions[a] = 0 => DOMAIN stored[a] = 1..saved[a]
  /\ \A s \in Suite \cap assets : deletions[s] = 0
  /\ \A e \in Environment \cap assets : DOMAIN stored[e] # {}
  /\ \A s \in Suite : \A n \in DOMAIN stored[s] :
       \A w \in stored[s][n].members : deletions[w] = 0 => Published(w)
=============================================================================
