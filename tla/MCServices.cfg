\* Startup: two instances of three releases, two callers.  TestAuthoring: two
\* cases, two editors, one draft and two reviewers.  The editors are also the
\* instances, the clients, the handlers and the requests of other parts.
CONSTANTS
  c1 = c1 c2 = c2 k1 = k1 k2 = k2
  e1 = e1 e2 = e2 r1 = r1 r2 = r2
  Instance = {e1, e2}
  Caller = {c1, c2}
  Release <- ThreeReleases
  Newest = 2
  Case = {k1, k2}
  Draft = {d1}
  Job = {j1}
  JobOf <- OneJob
  Editor = {e1, e2}
  Reviewer = {r1, r2}
  Deleter = {x1}
  MaxSaves = 2
  MaxWipes = 1
  None = None
  Null = Null
  AllowedHosts = {"here"}
  MaxRedirects = 3
  n1 = n1 w1 = w1 w2 = w2 t1 = t1 s1 = s1
  Environment = {n1}
  Workflow = {w1, w2}
  Dataset = {t1}
  Suite = {s1}
  Request = {e1, e2}
  NoAsset = NoAsset
  MaxVersions = 2
  MaxDeletions = 1
  Readers = 2
  MaxFiles = 4
  MaxFileSize = 2
  MaxTotalSize = 4
  Workspace = {"w1", "w2"}
  Email = {"a", "b"}
  sa = sa
  Account = {sa}
  OwnedRow <- RowsOf
  Client = {e1, e2}
  GivenRoles = {"owner", "viewer"}
  Guest <- GuestOf
  GuestWorkspace = "w1"
  FirstUsers <- FirstUsersOf
  FirstRows <- FirstRowsOf
  MaxRequests = 3
  Nobody = Nobody
  Runner = {"r"}
  Secret = {"s", "t"}
  Handler = {e1, e2}
  WorkspaceOf <- WorkspacesOf
  MaxWrites = 3
  NoItem = NoItem
\* A generator or an import that is done, and an authoring that used up its bounds, stop.
CHECK_DEADLOCK FALSE
SPECIFICATION ServicesSpec
SYMMETRY Symmetry
INVARIANTS
  StartsOnce
  DraftsAreAccountedFor
  DraftsAreTrue
  ImportIsFaithful
  VersionsAreKept
  FormatsAreFaithful
  RepositoryIsFaithful
  RoleIsCurrent
  RunnersAreKnown
  JudgementsAreRight
  AcceptedIsDue
  EditorIsFaithful
PROPERTY EditBuildsOnRead
