----------------------------- MODULE Services_proofs -----------------------------
(***************************************************************************)
(* Proofs about Startup, Access, RunnerRegistry and VersionedAssets, each  *)
(* for any instances, clients, handlers and requests, and for any values   *)
(* of its bounds.  In each a process keeps, between two of its statements, *)
(* what it read in the first: the invariants say how much of that is still *)
(* so whatever the others did meanwhile, and the locks, keys and           *)
(* conditions of the second statement do the rest.                         *)
(***************************************************************************)
EXTENDS Startup, Access, RunnerRegistry, VersionedAssets, TLAPS

-----------------------------------------------------------------------------
(* Startup.  An instance trusts, across a crash of any other, what it has  *)
(* read once of schema_migrations: the advisory lock makes its copy agree  *)
(* with the table in all that is still to be done.                         *)

\* An instance between reading the table and its last commit.
Migrating(i) == pc[i] \in {"migrating", "applied"}

\* Only the holder of the schema lock reads and migrates.
LockInv ==
  \A i \in Instance : pc[i] \in {"reading", "migrating", "applied"} => lock = i

\* Of its release, a migrating instance has done what is before "next", and
\* its copy of the table is right from there on.
ProgressInv ==
  \A i \in Instance : Migrating(i) =>
    /\ \A v \in Version : v < next[i] =>
         v \in DOMAIN release[i] /\ record[v] = release[i][v]
    /\ \A v \in Version : v >= next[i] => seen[i][v] = record[v]
    /\ pc[i] = "applied" => next[i] \in DOMAIN release[i] /\ seen[i][next[i]] = None

\* The table and what has taken effect.
TableInv ==
  /\ \A v \in Version : effects[v] = IF record[v] = None THEN 0 ELSE 1
  /\ \A v, w \in Version : v < w /\ record[w] # None => record[v] # None

ListenInv ==
  \A i \in Instance : pc[i] = "listening" =>
    \A v \in DOMAIN release[i] : record[v] = release[i][v]

\* Only the holder of the bootstrap lock acts on having seen no workspace.
BootstrapInv ==
  /\ \A c \in Caller : asked[c] \in {"locked", "absent"} => bootstrap = c
  /\ \A c \in Caller : asked[c] = "absent" => workspaces = {}

StartupInv ==
  /\ TypeOK
  /\ LockInv /\ ProgressInv /\ TableInv /\ ListenInv
  /\ BootstrapInv /\ OneFirstWorkspace

-----------------------------------------------------------------------------
\* A release has its migrations numbered from 1, and each has a checksum.
LEMMA ReleaseIsList ==
  ASSUME NEW r \in Release
  PROVE  /\ DOMAIN r \subseteq Version
         /\ \A v \in DOMAIN r : r[v] \in Checksum /\ r[v] # None
         /\ \A v \in Version, w \in DOMAIN r : v < w => v \in DOMAIN r
         /\ 1 \in 1..(Newest + 1) /\ Newest \in Nat
<1>1. PICK n \in 0..Newest : DOMAIN r = 1..n /\ \A v \in 1..n : r[v] # None
  BY ReleasesAreLists
<1>2. \A v \in DOMAIN r : r[v] \in Checksum
  BY DEF Checksum
<1>3. QED BY <1>1, <1>2, ReleasesAreLists DEF Version

\* A migrating instance is within its release.
LEMMA NextInRelease ==
  ASSUME StartupInv, NEW i \in Instance, Migrating(i), next[i] \in DOMAIN release[i]
  PROVE  /\ next[i] \in Version /\ next[i] + 1 \in 1..(Newest + 1)
         /\ record[next[i]] = seen[i][next[i]]
         /\ release[i][next[i]] \in Checksum /\ release[i][next[i]] # None
<1>1. release[i] \in Release
  BY DEF StartupInv, TypeOK
<1>2. next[i] \in Version /\ release[i][next[i]] \in Checksum /\ release[i][next[i]] # None
  BY <1>1, ReleaseIsList
<1>3. next[i] + 1 \in 1..(Newest + 1)
  BY <1>2, ReleasesAreLists DEF Version
<1>4. record[next[i]] = seen[i][next[i]]
  BY <1>2 DEF StartupInv, ProgressInv, Version
<1>5. QED BY <1>2, <1>3, <1>4

\* Two instances do not migrate at once.
LEMMA OneMigrates ==
  ASSUME StartupInv, NEW i \in Instance, NEW j \in Instance,
         pc[i] \in {"reading", "migrating", "applied"},
         pc[j] \in {"reading", "migrating", "applied"}
  PROVE  i = j
BY DEF StartupInv, LockInv

-----------------------------------------------------------------------------
\* Steps of one instance that leave table and requests as they are.
LEMMA BeforeMigrating ==
  ASSUME StartupInv, NEW i \in Instance,
         (\E r \in Release : Start(i, r)) \/ LockSchema(i) \/ ReadApplied(i)
  PROVE  StartupInv'
<1>1. ASSUME NEW r \in Release, Start(i, r) PROVE StartupInv'
  <2>1. TypeOK'
    BY <1>1 DEF StartupInv, TypeOK, Start, requestVars
  <2>2. LockInv' /\ ProgressInv' /\ ListenInv'
    BY <1>1 DEF StartupInv, TypeOK, LockInv, ProgressInv, ListenInv, Migrating, Start, requestVars
  <2>3. TableInv' /\ BootstrapInv' /\ OneFirstWorkspace'
    BY <1>1 DEF StartupInv, TableInv, BootstrapInv, OneFirstWorkspace, Anonymous, Start, requestVars
  <2>4. QED BY <2>1, <2>2, <2>3 DEF StartupInv
<1>2. ASSUME LockSchema(i) PROVE StartupInv'
  <2>1. TypeOK'
    BY <1>2 DEF StartupInv, TypeOK, LockSchema, requestVars
  <2>2. LockInv'
    BY <1>2, NoneIsNobody DEF StartupInv, TypeOK, LockInv, LockSchema
  <2>3. ProgressInv' /\ ListenInv'
    BY <1>2 DEF StartupInv, TypeOK, ProgressInv, ListenInv, Migrating, LockSchema
  <2>4. TableInv' /\ BootstrapInv' /\ OneFirstWorkspace'
    BY <1>2 DEF StartupInv, TableInv, BootstrapInv, OneFirstWorkspace, Anonymous, LockSchema, requestVars
  <2>5. QED BY <2>1, <2>2, <2>3, <2>4 DEF StartupInv
<1>3. ASSUME ReadApplied(i) PROVE StartupInv'
  <2>1. TypeOK'
    BY <1>3, ReleasesAreLists DEF StartupInv, TypeOK, ReadApplied, requestVars
  <2>2. LockInv' /\ ListenInv'
    BY <1>3 DEF StartupInv, TypeOK, LockInv, ListenInv, ReadApplied
  <2>3. ProgressInv'
    BY <1>3 DEF StartupInv, TypeOK, ProgressInv, Migrating, ReadApplied, Version
  <2>4. TableInv' /\ BootstrapInv' /\ OneFirstWorkspace'
    BY <1>3 DEF StartupInv, TableInv, BootstrapInv, OneFirstWorkspace, Anonymous, ReadApplied, requestVars
  <2>5. QED BY <2>1, <2>2, <2>3, <2>4 DEF StartupInv
<1>4. QED BY <1>1, <1>2, <1>3

\* A version that is passed over was recorded as this release has it.
LEMMA SkipInv ==
  ASSUME StartupInv, NEW i \in Instance, SkipApplied(i)
  PROVE  StartupInv'
<1>1. Migrating(i) /\ next[i] \in DOMAIN release[i]
  BY DEF SkipApplied, Migrating
<1>2. next[i] \in Version /\ next[i] + 1 \in 1..(Newest + 1)
      /\ record[next[i]] = release[i][next[i]]
  BY <1>1, NextInRelease DEF SkipApplied
<1>3. TypeOK'
  BY <1>2 DEF StartupInv, TypeOK, SkipApplied, requestVars
<1>4. ProgressInv'
  <2>1. \A v \in Version : v < next[i] + 1 =>
          v \in DOMAIN release[i] /\ record[v] = release[i][v]
    BY <1>1, <1>2 DEF StartupInv, ProgressInv, Version
  <2>2. \A v \in Version : v >= next[i] + 1 => seen[i][v] = record[v]
    BY <1>1, <1>2 DEF StartupInv, ProgressInv, Version
  <2>3. QED
    BY <2>1, <2>2 DEF StartupInv, TypeOK, ProgressInv, Migrating, SkipApplied
<1>5. LockInv' /\ ListenInv'
  BY DEF StartupInv, LockInv, ListenInv, SkipApplied
<1>6. TableInv' /\ BootstrapInv' /\ OneFirstWorkspace'
  BY DEF StartupInv, TableInv, BootstrapInv, OneFirstWorkspace, Anonymous, SkipApplied, requestVars
<1>7. QED BY <1>3, <1>4, <1>5, <1>6 DEF StartupInv

\* Statements of a version run only where it is not recorded ...
LEMMA UpInv ==
  ASSUME StartupInv, NEW i \in Instance, Up(i)
  PROVE  StartupInv'
<1>1. TypeOK'
  BY DEF StartupInv, TypeOK, Up, requestVars
<1>2. LockInv' /\ ListenInv'
  BY DEF StartupInv, TypeOK, LockInv, ListenInv, Up
<1>3. ProgressInv'
  BY DEF StartupInv, TypeOK, ProgressInv, Migrating, Up
<1>4. TableInv' /\ BootstrapInv' /\ OneFirstWorkspace'
  BY DEF StartupInv, TableInv, BootstrapInv, OneFirstWorkspace, Anonymous, Up, requestVars
<1>5. QED BY <1>1, <1>2, <1>3, <1>4 DEF StartupInv

\* ... and take effect with its record, after all before it.
LEMMA CommitVersionInv ==
  ASSUME StartupInv, NEW i \in Instance, CommitVersion(i)
  PROVE  StartupInv'
<1> DEFINE n == next[i]
<1>1. Migrating(i) /\ n \in DOMAIN release[i] /\ record[n] = None
  BY DEF StartupInv, ProgressInv, Migrating, CommitVersion
<1>2. n \in Version /\ n + 1 \in 1..(Newest + 1)
      /\ release[i][n] \in Checksum /\ release[i][n] # None
  BY <1>1, NextInRelease
<1>3. record' = [record EXCEPT ![n] = release[i][n]]
      /\ effects' = [effects EXCEPT ![n] = @ + 1] /\ next' = [next EXCEPT ![i] = n + 1]
      /\ pc' = [pc EXCEPT ![i] = "migrating"]
      /\ UNCHANGED <<release, lock, seen, requestVars>>
  BY DEF CommitVersion
<1> HIDE DEF n
<1>4. record' \in Records /\ effects' \in [Version -> Nat]
  BY <1>2, <1>3 DEF StartupInv, TypeOK, Records
<1>5. TypeOK'
  BY <1>2, <1>3, <1>4 DEF StartupInv, TypeOK, requestVars
<1>6. \A v \in Version : v # n => record'[v] = record[v] /\ effects'[v] = effects[v]
  BY <1>3, <1>4 DEF StartupInv, TypeOK, Records
<1>7. record'[n] = release[i][n] /\ effects'[n] = 1
  BY <1>1, <1>2, <1>3 DEF StartupInv, TypeOK, Records, TableInv
<1>8. LockInv'
  BY <1>1, <1>3 DEF StartupInv, TypeOK, LockInv, Migrating
<1>9. ProgressInv'
  <2>1. \A v \in Version : v < n + 1 => v \in DOMAIN release[i] /\ record'[v] = release[i][v]
    BY <1>1, <1>2, <1>6, <1>7 DEF StartupInv, ProgressInv, Version, n
  <2>2. \A v \in Version : v >= n + 1 => seen[i][v] = record'[v]
    BY <1>1, <1>2, <1>6 DEF StartupInv, ProgressInv, Version, n
  <2>3. next'[i] = n + 1 /\ pc'[i] = "migrating"
    BY <1>3 DEF StartupInv, TypeOK
  <2>4. \A j \in Instance : Migrating(j)' => j = i
    BY <1>1, <1>3, OneMigrates DEF StartupInv, TypeOK, Migrating
  <2>5. QED BY <1>3, <2>1, <2>2, <2>3, <2>4 DEF ProgressInv
<1>10. TableInv'
  <2>1. \A v \in Version : v < n => record[v] # None
    <3>1. SUFFICES ASSUME NEW v \in Version, v < n PROVE record[v] # None
      OBVIOUS
    <3>2. v \in DOMAIN release[i] /\ record[v] = release[i][v]
      BY <1>1, <3>1 DEF StartupInv, ProgressInv, n
    <3>3. QED BY <3>2, ReleaseIsList DEF StartupInv, TypeOK
  <2>2. \A v, w \in Version : v < w /\ record'[w] # None => record'[v] # None
    BY <1>2, <1>6, <1>7, <2>1 DEF StartupInv, TableInv
  <2>3. QED BY <1>2, <1>6, <1>7, <2>2 DEF StartupInv, TableInv
<1>11. ListenInv'
  <2>1. ASSUME NEW j \in Instance, pc'[j] = "listening", NEW v \in DOMAIN release[j]
        PROVE  record'[v] = release[j][v]
    <3>1. pc[j] = "listening" /\ record[v] = release[j][v]
      BY <1>3, <2>1 DEF StartupInv, TypeOK, ListenInv
    <3>2. v \in Version /\ release[j][v] # None
      BY ReleaseIsList DEF StartupInv, TypeOK
    <3>3. QED BY <1>1, <1>6, <3>1, <3>2
  <2>2. QED BY <1>3, <2>1 DEF ListenInv
<1>12. BootstrapInv' /\ OneFirstWorkspace'
  BY <1>3 DEF StartupInv, BootstrapInv, OneFirstWorkspace, Anonymous, requestVars
<1>13. QED BY <1>5, <1>8, <1>9, <1>10, <1>11, <1>12 DEF StartupInv

\* An instance that has got through its release listens on it.
LEMMA ListenKeeps ==
  ASSUME StartupInv, NEW i \in Instance, Listen(i)
  PROVE  StartupInv'
<1>1. Migrating(i) /\ next[i] \notin DOMAIN release[i]
  BY DEF Listen, Migrating
<1>2. \A v \in DOMAIN release[i] : record[v] = release[i][v]
  <2>1. PICK n \in 0..Newest : DOMAIN release[i] = 1..n
    BY ReleasesAreLists DEF StartupInv, TypeOK
  <2>2. next[i] > n
    BY <1>1, <2>1, ReleasesAreLists DEF StartupInv, TypeOK
  <2>3. QED
    BY <1>1, <2>1, <2>2, ReleasesAreLists DEF StartupInv, TypeOK, ProgressInv, Version
<1>3. TypeOK'
  BY DEF StartupInv, TypeOK, Listen, requestVars
<1>4. LockInv'
  BY <1>1, OneMigrates DEF StartupInv, TypeOK, LockInv, Migrating, Listen
<1>5. ProgressInv' /\ ListenInv'
  BY <1>2 DEF StartupInv, TypeOK, ProgressInv, ListenInv, Migrating, Listen
<1>6. TableInv' /\ BootstrapInv' /\ OneFirstWorkspace'
  BY DEF StartupInv, TableInv, BootstrapInv, OneFirstWorkspace, Anonymous, Listen, requestVars
<1>7. QED BY <1>3, <1>4, <1>5, <1>6 DEF StartupInv

\* An instance that ends, of itself or not, releases what its sessions hold.
LEMMA EndingInv ==
  ASSUME StartupInv, NEW i \in Instance, RefuseApplied(i) \/ Stop(i)
  PROVE  StartupInv'
<1>1. /\ pc' = [pc EXCEPT ![i] = "down"]
      /\ lock' = IF lock = i THEN None ELSE lock
      /\ UNCHANGED <<release, seen, next, record, effects, workspaces>>
  BY DEF RefuseApplied, Stop, requestVars
<1>2. TypeOK'
  <2>1. CASE RefuseApplied(i)
    BY <1>1, <2>1 DEF StartupInv, TypeOK, RefuseApplied, requestVars
  <2>2. CASE Stop(i)
    BY <1>1, <2>2 DEF StartupInv, TypeOK, Stop
  <2>3. QED BY <2>1, <2>2
<1>3. LockInv'
  BY <1>1 DEF StartupInv, TypeOK, LockInv
<1>4. ProgressInv' /\ ListenInv'
  BY <1>1 DEF StartupInv, TypeOK, ProgressInv, ListenInv, Migrating
<1>5. TableInv' /\ OneFirstWorkspace'
  BY <1>1 DEF StartupInv, TableInv, OneFirstWorkspace, Anonymous
<1>6. BootstrapInv'
  <2>1. CASE RefuseApplied(i)
    BY <2>1 DEF StartupInv, BootstrapInv, RefuseApplied, requestVars
  <2>2. CASE Stop(i)
    BY <2>2, NoneIsNobody DEF StartupInv, TypeOK, BootstrapInv, Stop
  <2>3. QED BY <2>1, <2>2
<1>7. QED BY <1>2, <1>3, <1>4, <1>5, <1>6 DEF StartupInv

-----------------------------------------------------------------------------
\* Requests.
LEMMA RequestInv ==
  ASSUME StartupInv, NEW c \in Caller,
         \/ \E i \in Instance : Ask(c, i) \/ CreateWorkspace(c, i)
         \/ LockBootstrap(c) \/ SeeWorkspaces(c) \/ CommitWorkspace(c)
  PROVE  StartupInv'
<1>1. UNCHANGED migrationVars
  BY DEF Ask, CreateWorkspace, LockBootstrap, SeeWorkspaces, CommitWorkspace
<1>2. LockInv' /\ ProgressInv' /\ TableInv' /\ ListenInv'
  BY <1>1 DEF StartupInv, LockInv, ProgressInv, TableInv, ListenInv, Migrating, migrationVars
<1>3. ASSUME NEW i \in Instance, Ask(c, i)
      PROVE  TypeOK' /\ BootstrapInv' /\ OneFirstWorkspace'
  BY <1>1, <1>3
    DEF StartupInv, TypeOK, BootstrapInv, OneFirstWorkspace, Anonymous, Ask, migrationVars
<1>4. ASSUME LockBootstrap(c)
      PROVE  TypeOK' /\ BootstrapInv' /\ OneFirstWorkspace'
  BY <1>1, <1>4, NoneIsNobody
    DEF StartupInv, TypeOK, BootstrapInv, OneFirstWorkspace, Anonymous, LockBootstrap, migrationVars
<1>5. ASSUME SeeWorkspaces(c)
      PROVE  TypeOK' /\ BootstrapInv' /\ OneFirstWorkspace'
  BY <1>1, <1>5
    DEF StartupInv, TypeOK, BootstrapInv, OneFirstWorkspace, Anonymous, SeeWorkspaces, migrationVars
<1>6. ASSUME CommitWorkspace(c)
      PROVE  TypeOK' /\ BootstrapInv' /\ OneFirstWorkspace'
  <2>1. workspaces = {} /\ workspaces' = {[by |-> c, anonymous |-> TRUE]}
    BY <1>6 DEF StartupInv, BootstrapInv, CommitWorkspace
  <2>2. OneFirstWorkspace'
    <3> DEFINE first == [by |-> c, anonymous |-> TRUE]
    <3>1. first.anonymous = TRUE
      OBVIOUS
    <3>2. workspaces' = {first}
      BY <2>1
    <3> HIDE DEF first
    <3>3. Anonymous' = {first}
      BY <3>1, <3>2 DEF Anonymous
    <3>4. QED BY <3>3 DEF OneFirstWorkspace
  <2>3. TypeOK'
    BY <1>1, <1>6, <2>1 DEF StartupInv, TypeOK, CommitWorkspace, migrationVars
  <2>4. BootstrapInv'
    BY <1>6 DEF StartupInv, TypeOK, BootstrapInv, CommitWorkspace
  <2>5. QED BY <2>2, <2>3, <2>4
<1>7. ASSUME NEW i \in Instance, CreateWorkspace(c, i)
      PROVE  TypeOK' /\ BootstrapInv' /\ OneFirstWorkspace'
  <2>1. workspaces' \subseteq [by : Caller, anonymous : BOOLEAN]
    <3>1. [by |-> c, anonymous |-> FALSE] \in [by : Caller, anonymous : BOOLEAN]
      OBVIOUS
    <3>2. QED BY <1>7, <3>1 DEF StartupInv, TypeOK, CreateWorkspace
  <2>2. TypeOK'
    BY <1>1, <1>7, <2>1 DEF StartupInv, TypeOK, CreateWorkspace, migrationVars
  <2>3. BootstrapInv'
    BY <1>1, <1>7 DEF StartupInv, TypeOK, BootstrapInv, CreateWorkspace, migrationVars
  <2>4. Anonymous' = Anonymous
    BY <1>7 DEF Anonymous, CreateWorkspace
  <2>5. QED BY <1>7, <2>2, <2>3, <2>4 DEF StartupInv, OneFirstWorkspace, CreateWorkspace
<1>8. QED BY <1>2, <1>3, <1>4, <1>5, <1>6, <1>7 DEF StartupInv

-----------------------------------------------------------------------------
LEMMA StartupInitInv == Init => StartupInv
<1> SUFFICES ASSUME Init PROVE StartupInv
  OBVIOUS
<1>1. TypeOK
  BY ReleasesAreLists DEF Init, TypeOK, Records
<1>2. QED
  BY <1>1 DEF Init, StartupInv, LockInv, ProgressInv, TableInv, ListenInv, BootstrapInv,
     OneFirstWorkspace, Anonymous, Migrating

LEMMA StartupNextInv ==
  ASSUME StartupInv, [Next]_vars
  PROVE  StartupInv'
<1>1. ASSUME NEW i \in Instance,
             \/ \E r \in Release : Start(i, r)
             \/ LockSchema(i) \/ ReadApplied(i) \/ SkipApplied(i) \/ RefuseApplied(i)
             \/ Up(i) \/ CommitVersion(i) \/ Listen(i) \/ Stop(i)
      PROVE  StartupInv'
  BY <1>1, BeforeMigrating, SkipInv, UpInv, CommitVersionInv, ListenKeeps, EndingInv
<1>2. CASE UNCHANGED vars
  BY <1>2 DEF StartupInv, TypeOK, LockInv, ProgressInv, TableInv, ListenInv, BootstrapInv,
     OneFirstWorkspace, Anonymous, Migrating, vars, migrationVars, requestVars
<1>3. QED BY <1>1, <1>2, RequestInv DEF Next

\* The locks are held and the tables agree, whatever dies (db.ts runMigrations,
\* iam.service.ts createWorkspace).
THEOREM StartupInvariance == Spec => []StartupInv
<1>1. QED BY StartupInitInv, StartupNextInv, PTL DEF Spec

\* Every variable stays of its type.
THEOREM StartupTypeCorrect == Spec => []TypeOK
<1>1. StartupInv => TypeOK
  BY DEF StartupInv
<1>2. QED BY <1>1, StartupInvariance, PTL

\* Each migration takes effect once, in order and with its record, and an
\* instance listens on the schema of its release; and among any number of
\* requests on a fresh deployment one makes its first workspace.
THEOREM StartsOnceAlways == Spec => []StartsOnce
<1>1. ASSUME StartupInv PROVE StartsOnce
  <2>1. \A i \in Instance : pc[i] = "applied" =>
          record[next[i]] = None /\ \A j \in Instance : pc[j] = "applied" => i = j
    <3>1. SUFFICES ASSUME NEW i \in Instance, pc[i] = "applied"
                   PROVE  record[next[i]] = None /\ \A j \in Instance : pc[j] = "applied" => i = j
      OBVIOUS
    <3>2. next[i] \in DOMAIN release[i] /\ seen[i][next[i]] = None
      BY <1>1, <3>1 DEF StartupInv, ProgressInv, Migrating
    <3>3. record[next[i]] = None
      BY <1>1, <3>1, <3>2, NextInRelease DEF Migrating
    <3>4. QED BY <1>1, <3>1, <3>3, OneMigrates
  <2>2. MigratedOnce
    BY <1>1, <2>1 DEF StartupInv, TableInv, ListenInv, MigratedOnce
  <2>3. QED BY <1>1, <2>2 DEF StartupInv, StartsOnce
<1>2. QED BY <1>1, StartupInvariance, PTL

-----------------------------------------------------------------------------
(* Access.  A request keeps its user, its role and what it was let through *)
(* for.                                                                    *)

\* What a request that was let through is about is of its user's workspace, and
\* stays so until its statement and after it.
HasAccount(c) ==
  request[c].id \in DOMAIN accounts /\ accounts[request[c].id].workspace = request[c].user[1]
Owned(c) ==
  LET r == request[c] IN
  /\ r.route \in {"removeRunner", "removeCase", "readCase"} => FirstRows[r.id] = r.user[1]
  /\ r.route = "revokeAccount" => HasAccount(c)
  /\ r.route = "setRole" => r.id \in DOMAIN users
  /\ r.route \in {"addUser", "setRole", "listUsers"} => r.id[1] = r.user[1]

\* A request knows every role that its user has had since it came, and the one
\* it is judged by is one of them.
ClientInv(c) ==
  LET r == request[c] IN
  /\ r.phase # "idle" => r.user \in DOMAIN users
  /\ r.phase = "verified" => r.role \in Roles
  /\ r.phase \in {"arrived", "known", "authorized", "served"} =>
       /\ r.route \in DOMAIN Routes \ PublicRoutes
       /\ r.id \in IdsOf(r.route) /\ r.given \in Roles
  /\ r.phase = "arrived" => users[r.user].role \in r.held
  /\ r.phase = "known" => r.role \in r.held
  /\ r.phase \in {"authorized", "served"} =>
       /\ \E role \in r.held : RoleLevel[role] >= RoleLevel[MinimumRole(r.route)]
       /\ Owned(c)
  /\ r.phase = "authorized" /\ r.route = "addAccount" => r.named \subseteq {r.user[1]}
  /\ r.phase = "served" /\ r.route = "addAccount" => HasAccount(c)

AccessInv == AccessTypeOK /\ \A c \in Client : ClientInv(c)

\* What the ownership rules of the routes look up.
LEMMA RouteFacts ==
  /\ DOMAIN Routes \ PublicRoutes =
       {"addUser", "setRole", "me", "listUsers", "addAccount", "revokeAccount",
        "removeRunner", "removeCase", "readCase"}
  /\ \A name \in {"removeRunner", "removeCase", "readCase"} :
       Routes[name].table = "rows" /\ Routes[name].area \in {"runners", "test-cases"}
  /\ \A name \in {"addUser", "me", "listUsers", "addAccount"} : Routes[name].table = Nobody
  /\ Routes["setRole"].table = "users" /\ Routes["revokeAccount"].table = "accounts"
  /\ \A name \in {"addAccount", "revokeAccount"} : Routes[name].area = "service-accounts"
  /\ \A name \in {"addUser", "listUsers"} : Routes[name].area = "workspaces"
  /\ Routes["setRole"].area = "users/role" /\ Routes["me"].area = "auth"
BY DEF Routes, Route, PublicRoutes

LEMMA RolesAre == Roles = {"viewer", "editor", "maintainer", "owner"}
BY DEF Roles, RoleLevel

\* Where a request's row is looked up, and what its id is an id of.
LEMMA WhereItIs ==
  ASSUME NEW r, r.route \in DOMAIN Routes \ PublicRoutes
  PROVE  /\ r.route \in {"removeRunner", "removeCase", "readCase"} =>
              /\ WorkspaceOfRequest(r) = FirstRows[r.id] /\ IdsOf(r.route) = OwnedRow
              /\ ResourceWorkspaceId(r.route, r.id) =
                   IF r.id \in DOMAIN rows THEN rows[r.id] ELSE Nobody
         /\ r.route \in {"addAccount", "revokeAccount"} =>
              WorkspaceOfRequest(r) = accounts[r.id].workspace /\ IdsOf(r.route) = Account
         /\ r.route = "revokeAccount" =>
              ResourceWorkspaceId(r.route, r.id) =
                IF r.id \in DOMAIN accounts THEN accounts[r.id].workspace ELSE Nobody
         /\ r.route \in {"addUser", "setRole", "listUsers", "me"} =>
              WorkspaceOfRequest(r) = r.id[1] /\ IdsOf(r.route) = User
         /\ r.route = "setRole" =>
              ResourceWorkspaceId(r.route, r.id) =
                IF r.id \in DOMAIN users THEN r.id[1] ELSE Nobody
<1>1. CASE r.route \in {"removeRunner", "removeCase", "readCase"}
  BY <1>1, RouteFacts, FirstRowsAreRows DEF WorkspaceOfRequest, IdsOf, ResourceWorkspaceId
<1>2. CASE r.route = "revokeAccount"
  BY <1>2, RouteFacts, FirstRowsAreRows DEF WorkspaceOfRequest, IdsOf, ResourceWorkspaceId
<1>3. CASE r.route = "addAccount"
  BY <1>3, RouteFacts, FirstRowsAreRows DEF WorkspaceOfRequest, IdsOf
<1>4. CASE r.route = "setRole"
  BY <1>4, RouteFacts, FirstRowsAreRows DEF WorkspaceOfRequest, IdsOf, ResourceWorkspaceId
<1>5. CASE r.route \in {"addUser", "listUsers", "me"}
  BY <1>5, RouteFacts, FirstRowsAreRows DEF WorkspaceOfRequest, IdsOf
<1>6. QED BY <1>1, <1>2, <1>3, <1>4, <1>5, RouteFacts

-----------------------------------------------------------------------------
LEMMA AccessInitInv == AccessInit => AccessInv
<1> SUFFICES ASSUME AccessInit PROVE AccessInv
  OBVIOUS
<1>1. NoRequest \in RequestState /\ NoRequest.phase = "idle"
  BY DEF NoRequest, RequestState
<1>2. request \in [Client -> RequestState] /\ \A c \in Client : request[c].phase = "idle"
  BY <1>1 DEF AccessInit
<1>3. AccessTypeOK
  BY <1>2, FirstRowsAreRows, RolesAre DEF AccessInit, AccessTypeOK
<1>4. QED BY <1>2, <1>3 DEF AccessInv, ClientInv

\* One request takes a step, and the others may be told a role.
LEMMA OneSteps ==
  ASSUME AccessInv, NEW c \in Client, NEW r \in RequestState, request' = [request EXCEPT ![c] = r]
  PROVE  /\ request' \in [Client -> RequestState] /\ request'[c] = r
         /\ \A x \in Client \ {c} : request'[x] = request[x]
BY DEF AccessInv, AccessTypeOK

LEMMA WasServed ==
  ASSUME AccessInv, NEW c \in Client, NEW user, NEW role \in Roles \cup {Nobody},
         Served(c, user, role)
  PROVE  /\ request' \in [Client -> RequestState]
         /\ request'[c] = [request[c] EXCEPT !.phase = "served"]
         /\ \A x \in Client \ {c} :
              \/ request'[x] = request[x]
              \/ request'[x] = [request[x] EXCEPT !.held = request[x].held \cup {role}]
         /\ \A x \in Client \ {c} :
              request[x].user = user /\ request[x].phase = "arrived" => role \in request'[x].held
<1>1. \A x \in Client : request[x] \in RequestState
  BY DEF AccessInv, AccessTypeOK
<1>2. [request[c] EXCEPT !.phase = "served"] \in RequestState
  BY <1>1 DEF RequestState
<1>3. ASSUME NEW x \in Client
      PROVE  /\ [request[x] EXCEPT !.held = request[x].held \cup {role}] \in RequestState
             /\ role \in [request[x] EXCEPT !.held = request[x].held \cup {role}].held
  <2>1. request[x].held \cup {role} \in SUBSET (Roles \cup {Nobody})
    BY <1>1 DEF RequestState
  <2>2. QED BY <1>1, <2>1 DEF RequestState
<1>4. request'[c] = [request[c] EXCEPT !.phase = "served"]
  BY DEF Served
<1>5. \A x \in Client \ {c} :
        request'[x] = IF request[x].user = user /\ request[x].phase \in {"arrived", "known", "authorized"}
                      THEN [request[x] EXCEPT !.held = request[x].held \cup {role}] ELSE request[x]
  BY DEF Served
<1>6. request' \in [Client -> RequestState]
  BY <1>1, <1>2, <1>3, <1>4, <1>5 DEF Served
<1>7. QED BY <1>3, <1>4, <1>5, <1>6

\* A request stays right while users and accounts are added, and roles change
\* that it is told.
LEMMA OthersRight ==
  ASSUME AccessInv, NEW x \in Client, NEW role \in Roles \cup {Nobody},
         \/ request'[x] = request[x]
         \/ request'[x] = [request[x] EXCEPT !.held = request[x].held \cup {role}],
         DOMAIN users \subseteq DOMAIN users',
         request[x].phase = "arrived" =>
           users'[request[x].user].role \in request'[x].held,
         \A a \in DOMAIN accounts :
           a \in DOMAIN accounts' /\ accounts'[a].workspace = accounts[a].workspace
  PROVE  ClientInv(x)'
<1> DEFINE r == request[x]
           s == request'[x]
<1>1. r \in RequestState /\ ClientInv(x)
  BY DEF AccessInv, AccessTypeOK
<1>2. /\ s.phase = r.phase /\ s.route = r.route /\ s.user = r.user /\ s.id = r.id
      /\ s.named = r.named /\ s.given = r.given /\ s.role = r.role /\ r.held \subseteq s.held
  BY <1>1 DEF RequestState
<1>3. Owned(x) => Owned(x)'
  BY <1>2 DEF Owned, HasAccount
<1>4. HasAccount(x) => HasAccount(x)'
  BY <1>2 DEF HasAccount
<1>5. s.phase # "idle" => s.user \in DOMAIN users'
  BY <1>1, <1>2 DEF ClientInv
<1>6. (s.phase = "verified" => s.role \in Roles) /\ (s.phase = "known" => s.role \in s.held)
  BY <1>1, <1>2 DEF ClientInv
<1>7. s.phase \in {"arrived", "known", "authorized", "served"} =>
        s.route \in DOMAIN Routes \ PublicRoutes /\ s.id \in IdsOf(s.route) /\ s.given \in Roles
  BY <1>1, <1>2 DEF ClientInv
<1>8. s.phase = "arrived" => users'[s.user].role \in s.held
  BY <1>2
<1>9. s.phase \in {"authorized", "served"} =>
        /\ \E held \in s.held : RoleLevel[held] >= RoleLevel[MinimumRole(s.route)]
        /\ Owned(x)'
  BY <1>1, <1>2, <1>3 DEF ClientInv
<1>10. /\ s.phase = "authorized" /\ s.route = "addAccount" => s.named \subseteq {s.user[1]}
       /\ s.phase = "served" /\ s.route = "addAccount" => HasAccount(x)'
  BY <1>1, <1>2, <1>4 DEF ClientInv
<1>11. QED
  BY <1>5, <1>6, <1>7, <1>8, <1>9, <1>10 DEF ClientInv

\* What no step takes back: users and accounts are never removed, and the
\* accounts keep their workspace.
Lasting ==
  /\ DOMAIN users \subseteq DOMAIN users'
  /\ \A a \in DOMAIN accounts :
       a \in DOMAIN accounts' /\ accounts'[a].workspace = accounts[a].workspace

\* So it is enough to look at the tables and at the request that takes the step.
LEMMA StepRight ==
  ASSUME AccessInv, NEW c \in Client, NEW r \in RequestState, request' = [request EXCEPT ![c] = r],
         AccessTypeOK', Lasting, \A u \in DOMAIN users : users'[u].role = users[u].role,
         ClientInv(c)'
  PROVE  AccessInv'
<1>1. ASSUME NEW x \in Client, x # c PROVE ClientInv(x)'
  <2>1. request'[x] = request[x]
    BY <1>1, OneSteps
  <2>2. request[x].phase = "arrived" => users'[request[x].user].role \in request'[x].held
    BY <2>1 DEF AccessInv, ClientInv
  <2>3. QED BY <2>1, <2>2, OthersRight DEF Lasting
<1>2. QED BY <1>1 DEF AccessInv

LEMMA Refused ==
  ASSUME AccessInv, NEW c \in Client, Refuse(c), Lasting,
         \A u \in DOMAIN users : users'[u].role = users[u].role,
         request' \in [Client -> RequestState] => AccessTypeOK'
  PROVE  AccessInv'
<1>1. NoRequest \in RequestState /\ NoRequest.phase = "idle"
  BY DEF NoRequest, RequestState
<1>2. request' \in [Client -> RequestState] /\ request'[c].phase = "idle"
  BY <1>1, OneSteps DEF Refuse
<1>3. ClientInv(c)'
  BY <1>2 DEF ClientInv
<1>4. QED BY <1>1, <1>2, <1>3, StepRight DEF Refuse

\* A step of requests alone.
LEMMA TablesStay ==
  ASSUME AccessInv, UNCHANGED <<users, accounts, rows, tokens>>, sent' \in Nat
  PROVE  /\ Lasting /\ \A u \in DOMAIN users : users'[u].role = users[u].role
         /\ request' \in [Client -> RequestState] => AccessTypeOK'
BY DEF AccessInv, AccessTypeOK, Lasting

-----------------------------------------------------------------------------
LEMMA SendInv ==
  ASSUME AccessInv, NEW c \in Client, Send(c)
  PROVE  AccessInv'
<1>1. PICK token \in tokens, name \in DOMAIN Routes \ PublicRoutes :
        \E id \in IdsOf(name), named \in NamedBy(name), given \in RolesGivenBy(name) :
          request' = [request EXCEPT ![c] =
            [phase |-> "arrived", route |-> name, user |-> token.user, id |-> id,
             named |-> named, given |-> given, role |-> token.role,
             held |-> {users[token.user].role}]]
  BY DEF Send
<1>2. PICK id \in IdsOf(name), named \in NamedBy(name), given \in RolesGivenBy(name) :
        request' = [request EXCEPT ![c] =
            [phase |-> "arrived", route |-> name, user |-> token.user, id |-> id,
             named |-> named, given |-> given, role |-> token.role,
             held |-> {users[token.user].role}]]
  BY <1>1
<1> DEFINE r == [phase |-> "arrived", route |-> name, user |-> token.user, id |-> id,
                 named |-> named, given |-> given, role |-> token.role,
                 held |-> {users[token.user].role}]
<1>3. token.user \in DOMAIN users /\ token.user \in User /\ token.role \in Roles
  BY DEF AccessInv, AccessTypeOK
<1>4. users[token.user].role \in Roles
  BY <1>3 DEF AccessInv, AccessTypeOK
<1>5. id \in User \cup Account \cup OwnedRow /\ named \in SUBSET Workspace
  BY DEF IdsOf, NamedBy
<1>6. given \in Roles
  BY FirstRowsAreRows, RolesAre DEF RolesGivenBy
<1>7. r \in RequestState
  BY <1>3, <1>4, <1>5, <1>6 DEF RequestState
<1>8. request'[c] = r
  BY <1>2, <1>7, OneSteps
<1>9. UNCHANGED <<users, accounts, rows, tokens>> /\ sent' \in Nat
  BY DEF Send, AccessInv, AccessTypeOK
<1>10. /\ r.phase = "arrived" /\ r.user = token.user /\ r.route = name /\ r.id = id
       /\ r.given = given /\ r.held = {users[token.user].role}
  OBVIOUS
<1>11. ClientInv(c)'
  BY <1>3, <1>6, <1>8, <1>9, <1>10 DEF ClientInv
<1>12. QED BY <1>2, <1>7, <1>9, <1>11, TablesStay, StepRight, OneSteps

LEMMA AuthenticateInv ==
  ASSUME AccessInv, NEW c \in Client, AuthenticateUser(c)
  PROVE  AccessInv'
<1> DEFINE u == request[c].user
           r == [request[c] EXCEPT !.phase = "known", !.role = users[u].role]
<1>1. UNCHANGED <<users, accounts, rows, tokens>> /\ sent' \in Nat
  BY DEF AuthenticateUser, AccessInv, AccessTypeOK
<1>2. request[c] \in RequestState /\ ClientInv(c) /\ request[c].phase = "arrived"
  BY DEF AuthenticateUser, AccessInv, AccessTypeOK
<1>3. u \in DOMAIN users /\ users[u].role \in request[c].held
  BY <1>2 DEF ClientInv
<1>4. users[u].role \in Roles
  BY <1>3 DEF AccessInv, AccessTypeOK
<1>5. /\ r \in RequestState /\ r.phase = "known" /\ r.user = u /\ r.role = users[u].role
      /\ r.held = request[c].held /\ r.route = request[c].route /\ r.id = request[c].id
      /\ r.given = request[c].given
  BY <1>2, <1>4 DEF RequestState
<1>6. request' = [request EXCEPT ![c] = r]
  BY <1>3 DEF AuthenticateUser, AccessInv, AccessTypeOK
<1>7. request'[c] = r
  BY <1>5, <1>6, OneSteps
<1>8. ClientInv(c)'
  BY <1>1, <1>2, <1>3, <1>5, <1>7 DEF ClientInv
<1>9. QED BY <1>1, <1>5, <1>6, <1>8, TablesStay, StepRight, OneSteps

\* A request that passes the boundary is about something of its user's
\* workspace: nothing that does not exist is.
LEMMA AuthorizeInv ==
  ASSUME AccessInv, NEW c \in Client, Authorize(c)
  PROVE  AccessInv'
<1> DEFINE q == request[c]
           owned == ResourceWorkspaceId(q.route, q.id)
           r == [q EXCEPT !.phase = "authorized"]
           Passes == /\ RoleLevel[q.role] >= RoleLevel[MinimumRole(q.route)]
                     /\ CollectExplicitWorkspaceIds(q) \subseteq {q.user[1]}
                     /\ owned \in {"any", q.user[1]}
<1>1. UNCHANGED <<users, accounts, rows, tokens>> /\ sent' \in Nat
  BY DEF Authorize, AccessInv, AccessTypeOK
<1>2. q \in RequestState /\ ClientInv(c) /\ q.phase = "known"
  BY DEF Authorize, AccessInv, AccessTypeOK
<1>3. CASE ~Passes
  BY <1>1, <1>3, TablesStay, Refused DEF Authorize
<1>4. CASE Passes
  <2>1. /\ q.user \in DOMAIN users /\ q.user \in User /\ q.user[1] \in Workspace
        /\ q.route \in DOMAIN Routes \ PublicRoutes /\ q.role \in q.held
        /\ q.id \in IdsOf(q.route) /\ q.given \in Roles
    BY <1>2 DEF ClientInv, AccessInv, AccessTypeOK, User
  <2>2. q.route \in {"removeRunner", "removeCase", "readCase"} => FirstRows[q.id] = q.user[1]
    <3>1. SUFFICES ASSUME q.route \in {"removeRunner", "removeCase", "readCase"}
                   PROVE  FirstRows[q.id] = q.user[1]
      OBVIOUS
    <3>2. owned = IF q.id \in DOMAIN rows THEN rows[q.id] ELSE Nobody
      BY <2>1, <3>1, WhereItIs
    <3>3. q.id \in DOMAIN rows
      BY <1>4, <2>1, <3>2, FirstRowsAreRows
    <3>4. rows[q.id] = FirstRows[q.id] /\ FirstRows[q.id] \in Workspace
      BY <3>3, FirstRowsAreRows DEF AccessInv, AccessTypeOK
    <3>5. QED BY <1>4, <3>2, <3>3, <3>4, FirstRowsAreRows
  <2>3. q.route = "revokeAccount" => HasAccount(c)
    <3>1. SUFFICES ASSUME q.route = "revokeAccount" PROVE HasAccount(c)
      OBVIOUS
    <3>2. owned = IF q.id \in DOMAIN accounts THEN accounts[q.id].workspace ELSE Nobody
      BY <2>1, <3>1, WhereItIs
    <3>3. q.id \in DOMAIN accounts
      BY <1>4, <2>1, <3>2, FirstRowsAreRows
    <3>4. accounts[q.id].workspace \in Workspace
      BY <3>3 DEF AccessInv, AccessTypeOK
    <3>5. QED BY <1>4, <3>2, <3>3, <3>4, FirstRowsAreRows DEF HasAccount
  <2>4. q.route = "setRole" => q.id \in DOMAIN users /\ q.id[1] = q.user[1]
    <3>1. SUFFICES ASSUME q.route = "setRole"
                   PROVE  q.id \in DOMAIN users /\ q.id[1] = q.user[1]
      OBVIOUS
    <3>2. owned = IF q.id \in DOMAIN users THEN q.id[1] ELSE Nobody
      BY <2>1, <3>1, WhereItIs
    <3>3. q.id \in DOMAIN users
      BY <1>4, <2>1, <3>2, FirstRowsAreRows
    <3>4. q.id[1] \in Workspace
      BY <3>3 DEF AccessInv, AccessTypeOK, User
    <3>5. QED BY <1>4, <3>2, <3>3, <3>4, FirstRowsAreRows
  <2>5. q.route \in {"addUser", "listUsers"} => q.id[1] = q.user[1]
    BY <1>4, RouteFacts DEF CollectExplicitWorkspaceIds
  <2>6. q.named \subseteq {q.user[1]}
    BY <1>4 DEF CollectExplicitWorkspaceIds
  <2>7. /\ r \in RequestState /\ r.phase = "authorized" /\ r.user = q.user /\ r.role = q.role
        /\ r.held = q.held /\ r.route = q.route /\ r.id = q.id /\ r.given = q.given
        /\ r.named = q.named
    BY <1>2 DEF RequestState
  <2>8. request' = [request EXCEPT ![c] = r]
    BY <1>4 DEF Authorize, AccessInv, AccessTypeOK
  <2>9. request'[c] = r
    BY <2>7, <2>8, OneSteps
  <2>10. Owned(c)'
    BY <1>1, <2>2, <2>3, <2>4, <2>5, <2>7, <2>9 DEF Owned, HasAccount
  <2>11. \E role \in r.held : RoleLevel[role] >= RoleLevel[MinimumRole(r.route)]
    BY <1>4, <2>1, <2>7
  <2>12. ClientInv(c)'
    BY <1>1, <2>1, <2>6, <2>7, <2>9, <2>10, <2>11 DEF ClientInv
  <2>13. QED BY <1>1, <2>7, <2>8, <2>12, TablesStay, StepRight, OneSteps
<1>5. QED BY <1>3, <1>4

-----------------------------------------------------------------------------
(* The handlers.  A request that is served was authorized for what it did.  *)

\* After its statement a request is about the same, and knows no less.
LEMMA ServedInv ==
  ASSUME AccessInv, NEW c \in Client, NEW user, NEW role \in Roles \cup {Nobody},
         request[c].phase = "authorized", Served(c, user, role), Lasting,
         \A u \in DOMAIN users :
           users'[u].role \in {users[u].role, IF u = user THEN role ELSE users[u].role},
         request' \in [Client -> RequestState] => AccessTypeOK',
         request[c].route = "addAccount" =>
           /\ request[c].id \in DOMAIN accounts'
           /\ accounts'[request[c].id].workspace = request[c].user[1]
  PROVE  AccessInv'
<1> DEFINE q == request[c]
           r == [q EXCEPT !.phase = "served"]
<1>1. q \in RequestState /\ ClientInv(c)
  BY DEF AccessInv, AccessTypeOK
<1>2. /\ r.phase = "served" /\ r.user = q.user /\ r.held = q.held /\ r.route = q.route
      /\ r.id = q.id /\ r.given = q.given
  BY <1>1 DEF RequestState
<1>3. /\ request' \in [Client -> RequestState] /\ request'[c] = r
      /\ \A x \in Client \ {c} :
           \/ request'[x] = request[x]
           \/ request'[x] = [request[x] EXCEPT !.held = request[x].held \cup {role}]
      /\ \A x \in Client \ {c} :
           request[x].user = user /\ request[x].phase = "arrived" => role \in request'[x].held
  BY WasServed
<1>4. ASSUME NEW x \in Client, x # c PROVE ClientInv(x)'
  <2>1. /\ request[x] \in RequestState /\ request[x].held \subseteq request'[x].held
        /\ request[x].phase = "arrived" =>
             /\ request[x].user \in DOMAIN users
             /\ users[request[x].user].role \in request[x].held
    <3>1. request[x] \in RequestState /\ ClientInv(x)
      BY DEF AccessInv, AccessTypeOK
    <3>2. request[x].held \subseteq request'[x].held
      BY <1>3, <1>4, <3>1 DEF RequestState
    <3>3. QED BY <3>1, <3>2 DEF ClientInv
  <2>2. request[x].phase = "arrived" => users'[request[x].user].role \in request'[x].held
    BY <1>3, <1>4, <2>1
  <2>3. QED BY <1>3, <1>4, <2>2, OthersRight DEF Lasting
<1>5. Owned(c)'
  BY <1>1, <1>2, <1>3 DEF ClientInv, Owned, HasAccount, Lasting
<1>6. q.route = "addAccount" => HasAccount(c)'
  BY <1>2, <1>3 DEF HasAccount
<1>7. q.user \in DOMAIN users' /\ q.route \in DOMAIN Routes \ PublicRoutes
      /\ q.id \in IdsOf(q.route) /\ q.given \in Roles
  BY <1>1 DEF ClientInv, Lasting
<1>8. \E held \in q.held : RoleLevel[held] >= RoleLevel[MinimumRole(q.route)]
  BY <1>1 DEF ClientInv
<1>9. ClientInv(c)'
  BY <1>2, <1>3, <1>5, <1>6, <1>7, <1>8 DEF ClientInv
<1>10. QED BY <1>3, <1>4, <1>9 DEF AccessInv

LEMMA AddUserInv ==
  ASSUME AccessInv, NEW c \in Client, AddUser(c)
  PROVE  AccessInv'
<1> DEFINE q == request[c]
<1>1. UNCHANGED <<accounts, rows, tokens, sent>>
  BY DEF AddUser
<1>2. CASE q.id \in DOMAIN users
  BY <1>1, <1>2, TablesStay, Refused DEF AddUser, AccessInv, AccessTypeOK
<1>3. CASE q.id \notin DOMAIN users
  <2>1. q.id \in User /\ q.given \in Roles /\ q.phase = "authorized" /\ q.route = "addUser"
    <3>1. ClientInv(c) /\ q.phase = "authorized" /\ q.route = "addUser"
      BY DEF AddUser, AccessInv
    <3>2. q.id \in IdsOf("addUser") /\ q.given \in Roles
      BY <3>1 DEF ClientInv
    <3>3. IdsOf("addUser") = User
      BY RouteFacts, FirstRowsAreRows DEF IdsOf
    <3>4. QED BY <3>1, <3>2, <3>3
  <2>2. users' = WithRow(users, q.id, [role |-> q.given, legacy |-> FALSE])
    BY <1>3 DEF AddUser, CreateUser
  <2>3. /\ DOMAIN users' = DOMAIN users \cup {q.id}
        /\ users'[q.id] = [role |-> q.given, legacy |-> FALSE]
        /\ \A u \in DOMAIN users : users'[u] = users[u]
    BY <1>3, <2>2 DEF WithRow
  <2>4. users'[q.id] \in [role : Roles, legacy : BOOLEAN]
    BY <2>1, <2>3
  <2>5. request' \in [Client -> RequestState] => AccessTypeOK'
    BY <1>1, <2>1, <2>3, <2>4 DEF AccessInv, AccessTypeOK
  <2>6. Lasting /\ \A u \in DOMAIN users : users'[u].role = users[u].role
    BY <1>1, <2>3 DEF Lasting
  <2>7. Served(c, Nobody, Nobody)
    BY <1>3 DEF AddUser
  <2>8. QED BY <2>1, <2>5, <2>6, <2>7, ServedInv
<1>4. QED BY <1>2, <1>3

LEMMA SetRoleInv ==
  ASSUME AccessInv, NEW c \in Client, SetRole(c)
  PROVE  AccessInv'
<1> DEFINE q == request[c]
<1>1. /\ UNCHANGED <<accounts, rows, tokens, sent>> /\ Served(c, q.id, q.given)
      /\ q.phase = "authorized" /\ q.route = "setRole"
      /\ users' = [users EXCEPT ![q.id].role = q.given]
  BY DEF SetRole, UpdateUserRole
<1>2. q.id \in DOMAIN users /\ q.given \in Roles
  BY <1>1 DEF AccessInv, ClientInv, Owned
<1>3. users[q.id] \in [role : Roles, legacy : BOOLEAN]
  BY <1>2 DEF AccessInv, AccessTypeOK
<1>4. /\ DOMAIN users' = DOMAIN users /\ users'[q.id] = [users[q.id] EXCEPT !.role = q.given]
      /\ \A u \in DOMAIN users : u # q.id => users'[u] = users[u]
  BY <1>1, <1>2
<1>5. users'[q.id] \in [role : Roles, legacy : BOOLEAN] /\ users'[q.id].role = q.given
  BY <1>2, <1>3, <1>4
<1>6. request' \in [Client -> RequestState] => AccessTypeOK'
  BY <1>1, <1>4, <1>5 DEF AccessInv, AccessTypeOK
<1>7. Lasting
  BY <1>1, <1>4 DEF Lasting
<1>8. \A u \in DOMAIN users :
        users'[u].role \in {users[u].role, IF u = q.id THEN q.given ELSE users[u].role}
  BY <1>4, <1>5
<1>9. QED BY <1>1, <1>2, <1>6, <1>7, <1>8, ServedInv

LEMMA AccountInv ==
  ASSUME AccessInv, NEW c \in Client, AddAccount(c) \/ RevokeAccount(c)
  PROVE  AccessInv'
<1> DEFINE q == request[c]
<1>1. UNCHANGED <<users, rows, tokens, sent>> /\ q.phase = "authorized"
  BY DEF AddAccount, RevokeAccount
<1>2. ClientInv(c) /\ q \in RequestState
  BY DEF AccessInv, AccessTypeOK
<1>3. CASE AddAccount(c)
  <2>1. CASE q.named = {} \/ q.id \in DOMAIN accounts
    BY <1>1, <1>3, <2>1, TablesStay, Refused DEF AddAccount, AccessInv, AccessTypeOK
  <2>2. CASE ~(q.named = {} \/ q.id \in DOMAIN accounts)
    <3>1. PICK workspace \in q.named :
            accounts' = WithRow(accounts, q.id, [workspace |-> workspace, revoked |-> FALSE])
      BY <1>3, <2>2 DEF AddAccount, CreateServiceAccount
    <3>2. q.route = "addAccount" /\ Served(c, Nobody, Nobody)
      BY <1>3, <2>2 DEF AddAccount
    <3>3. workspace = q.user[1] /\ workspace \in Workspace
      BY <1>1, <1>2, <3>1, <3>2 DEF ClientInv, RequestState
    <3>4. q.id \in Account
      <4>1. q.id \in IdsOf("addAccount")
        BY <1>1, <1>2, <3>2 DEF ClientInv
      <4>2. IdsOf("addAccount") = Account
        BY RouteFacts, FirstRowsAreRows DEF IdsOf
      <4>3. QED BY <4>1, <4>2
    <3>5. /\ DOMAIN accounts' = DOMAIN accounts \cup {q.id}
          /\ accounts'[q.id] = [workspace |-> workspace, revoked |-> FALSE]
          /\ \A a \in DOMAIN accounts : accounts'[a] = accounts[a]
      BY <2>2, <3>1 DEF WithRow
    <3>6. accounts'[q.id] \in [workspace : Workspace, revoked : BOOLEAN]
          /\ accounts'[q.id].workspace = q.user[1]
      BY <3>3, <3>5
    <3>7. request' \in [Client -> RequestState] => AccessTypeOK'
      BY <1>1, <3>4, <3>5, <3>6 DEF AccessInv, AccessTypeOK
    <3>8. Lasting
      BY <1>1, <3>5 DEF Lasting
    <3>9. QED BY <1>1, <3>2, <3>5, <3>6, <3>7, <3>8, ServedInv
  <2>3. QED BY <2>1, <2>2
<1>4. CASE RevokeAccount(c)
  <2>1. /\ accounts' = [accounts EXCEPT ![q.id].revoked = TRUE] /\ q.route = "revokeAccount"
        /\ Served(c, Nobody, Nobody)
    BY <1>4 DEF RevokeAccount, RevokeServiceAccount
  <2>2. q.id \in DOMAIN accounts
    BY <1>1, <1>2, <2>1 DEF ClientInv, Owned, HasAccount
  <2>3. accounts[q.id] \in [workspace : Workspace, revoked : BOOLEAN]
    BY <2>2 DEF AccessInv, AccessTypeOK
  <2>4. /\ DOMAIN accounts' = DOMAIN accounts
        /\ accounts'[q.id] = [accounts[q.id] EXCEPT !.revoked = TRUE]
        /\ \A a \in DOMAIN accounts : a # q.id => accounts'[a] = accounts[a]
    BY <2>1, <2>2
  <2>5. accounts'[q.id] \in [workspace : Workspace, revoked : BOOLEAN]
        /\ accounts'[q.id].workspace = accounts[q.id].workspace
    BY <2>3, <2>4
  <2>6. request' \in [Client -> RequestState] => AccessTypeOK'
    BY <1>1, <2>4, <2>5 DEF AccessInv, AccessTypeOK
  <2>7. Lasting
    BY <1>1, <2>4, <2>5 DEF Lasting
  <2>8. QED BY <1>1, <2>1, <2>6, <2>7, ServedInv
<1>5. QED BY <1>3, <1>4

LEMMA RowInv ==
  ASSUME AccessInv, NEW c \in Client, RemoveRow(c) \/ ReadRow(c) \/ Me(c) \/ ListUsers(c)
  PROVE  AccessInv'
<1>1. /\ UNCHANGED <<users, accounts, tokens, sent>> /\ Served(c, Nobody, Nobody)
      /\ request[c].phase = "authorized" /\ request[c].route # "addAccount"
  BY DEF RemoveRow, ReadRow, Me, ListUsers
<1>2. DOMAIN rows' \subseteq DOMAIN rows /\ \A x \in DOMAIN rows' : rows'[x] = rows[x]
  BY DEF RemoveRow, ReadRow, Me, ListUsers
<1>3. request' \in [Client -> RequestState] => AccessTypeOK'
  BY <1>1, <1>2 DEF AccessInv, AccessTypeOK
<1>4. Lasting
  BY <1>1 DEF Lasting
<1>5. QED BY <1>1, <1>3, <1>4, ServedInv

\* Logins and tokens.
LEMMA LoginInv ==
  ASSUME AccessInv, NEW c \in Client, Login(c) \/ EnterAsGuest(c)
  PROVE  AccessInv'
<1>1. PICK u \in DOMAIN users, route \in {"login", "guest"} :
        request' = [request EXCEPT ![c] =
          [NoRequest EXCEPT !.phase = "verified", !.route = route, !.user = u,
                            !.role = users[u].role]]
  BY DEF Login, EnterAsGuest, GetUserByEmail
<1> DEFINE r == [NoRequest EXCEPT !.phase = "verified", !.route = route, !.user = u,
                                  !.role = users[u].role]
<1>2. users[u].role \in Roles /\ u \in User
  BY DEF AccessInv, AccessTypeOK
<1>3. route \in DOMAIN Routes
  BY DEF Routes
<1>4. r \in RequestState /\ r.phase = "verified" /\ r.user = u /\ r.role = users[u].role
  BY <1>2, <1>3 DEF NoRequest, RequestState
<1>5. UNCHANGED <<users, accounts, rows, tokens>> /\ sent' \in Nat
  <2>1. UNCHANGED <<users, accounts, rows, tokens>> /\ sent' = sent + 1
    BY DEF Login, EnterAsGuest
  <2>2. QED BY <2>1 DEF AccessInv, AccessTypeOK
<1>6. request'[c] = r
  BY <1>1, <1>4, OneSteps
<1>7. ClientInv(c)'
  BY <1>2, <1>4, <1>5, <1>6 DEF ClientInv
<1>8. QED BY <1>1, <1>4, <1>5, <1>7, TablesStay, StepRight, OneSteps

LEMMA SignInv ==
  ASSUME AccessInv, NEW c \in Client, Sign(c)
  PROVE  AccessInv'
<1> DEFINE q == request[c]
<1>1. /\ UNCHANGED <<accounts, rows, sent>> /\ Refuse(c)
      /\ tokens' = tokens \cup {[user |-> q.user, role |-> q.role]}
  BY DEF Sign, SignJwt
<1>2. q.user \in DOMAIN users /\ q.role \in Roles
  BY DEF Sign, AccessInv, ClientInv
<1>3. /\ DOMAIN users' = DOMAIN users
      /\ \A u \in DOMAIN users :
           users'[u] \in [role : Roles, legacy : BOOLEAN] /\ users'[u].role = users[u].role
  <2>1. \A u \in DOMAIN users : users[u] \in [role : Roles, legacy : BOOLEAN]
    BY DEF AccessInv, AccessTypeOK
  <2>2. CASE UNCHANGED users
    BY <2>1, <2>2
  <2>3. CASE users' = [users EXCEPT ![q.user].legacy = FALSE]
    <3>1. /\ DOMAIN users' = DOMAIN users
          /\ users'[q.user] = [users[q.user] EXCEPT !.legacy = FALSE]
          /\ \A u \in DOMAIN users : u # q.user => users'[u] = users[u]
      BY <1>2, <2>3
    <3>2. users'[q.user] \in [role : Roles, legacy : BOOLEAN]
          /\ users'[q.user].role = users[q.user].role
      BY <1>2, <2>1, <3>1
    <3>3. QED BY <2>1, <3>1, <3>2
  <2>4. QED BY <2>2, <2>3 DEF Sign, UpgradePasswordHash
<1>4. request' \in [Client -> RequestState] => AccessTypeOK'
  BY <1>1, <1>2, <1>3 DEF AccessInv, AccessTypeOK
<1>5. Lasting
  BY <1>1, <1>3 DEF Lasting
<1>6. QED BY <1>1, <1>3, <1>4, <1>5, Refused

LEMMA EndInv ==
  ASSUME AccessInv, (\E c \in Client : Receive(c)) \/ Expire
  PROVE  AccessInv'
<1>1. ASSUME NEW c \in Client, Receive(c) PROVE AccessInv'
  BY <1>1, TablesStay, Refused DEF Receive, AccessInv, AccessTypeOK
<1>2. CASE Expire
  <2>1. UNCHANGED <<users, accounts, rows, request, sent>> /\ tokens' \subseteq tokens
    BY <1>2 DEF Expire
  <2>2. AccessTypeOK'
    BY <2>1 DEF AccessInv, AccessTypeOK
  <2>3. \A x \in Client : ClientInv(x)'
    BY <2>1 DEF AccessInv, ClientInv, Owned, HasAccount
  <2>4. QED BY <2>2, <2>3 DEF AccessInv
<1>3. QED BY <1>1, <1>2

\* What a request that is under way has been told and let through for holds,
\* whatever the others change (auth.middleware.ts, iam.service.ts, jwt.ts).
THEOREM AccessInvariance == AccessSpec => []AccessInv
<1>1. AccessInv /\ [AccessNext]_accessVars => AccessInv'
  <2>1. ASSUME AccessInv, UNCHANGED accessVars PROVE AccessInv'
    <3>1. AccessTypeOK'
      BY <2>1 DEF AccessInv, AccessTypeOK, accessVars
    <3>2. \A x \in Client : ClientInv(x)'
      BY <2>1 DEF AccessInv, ClientInv, Owned, HasAccount, accessVars
    <3>3. QED BY <3>1, <3>2 DEF AccessInv
  <2>2. ASSUME AccessInv, AccessNext PROVE AccessInv'
    BY <2>2, SendInv, AuthenticateInv, AuthorizeInv, AddUserInv, SetRoleInv, AccountInv,
       RowInv, LoginInv, SignInv, EndInv DEF AccessNext
  <2>3. QED BY <2>1, <2>2
<1>2. QED BY <1>1, AccessInitInv, PTL DEF AccessSpec

\* Every variable of the boundary stays of its type.
THEOREM AccessTypeCorrect == AccessSpec => []AccessTypeOK
<1>1. AccessInv => AccessTypeOK
  BY DEF AccessInv
<1>2. QED BY <1>1, AccessInvariance, PTL

\* A request is served for a role that its user has had since the request came,
\* and for what is of its user's workspace, whatever its token says.
THEOREM RoleIsCurrentAlways == AccessSpec => []RoleIsCurrent
<1>1. ASSUME AccessInv PROVE RoleIsCurrent
  <2>1. SUFFICES ASSUME NEW c \in Client, request[c].phase = "served"
                 PROVE  /\ \E role \in request[c].held :
                             RoleLevel[role] >= RoleLevel[MinimumRole(request[c].route)]
                        /\ request[c].route # "me" =>
                             WorkspaceOfRequest(request[c]) = request[c].user[1]
    BY DEF RoleIsCurrent
  <2>2. ClientInv(c)
    BY <1>1 DEF AccessInv
  <2>3. Owned(c) /\ request[c].route \in DOMAIN Routes \ PublicRoutes
        /\ (request[c].route = "addAccount" => HasAccount(c))
        /\ \E role \in request[c].held :
             RoleLevel[role] >= RoleLevel[MinimumRole(request[c].route)]
    BY <2>1, <2>2 DEF ClientInv
  <2>4. request[c].route # "me" => WorkspaceOfRequest(request[c]) = request[c].user[1]
    BY <2>3, WhereItIs, RouteFacts DEF Owned, HasAccount
  <2>5. QED BY <2>3, <2>4
<1>2. QED BY <1>1, AccessInvariance, PTL

-----------------------------------------------------------------------------
(* RunnerRegistry.  A request keeps its runner and the value of a secret.  *)

\* A request knows the value that its secret has, until it reads it; what it
\* read is a value that it knows of a secret of its runner's workspace; and it
\* is sent only when it is logged.  What is deleted was drawn.
Informed(h) ==
  /\ op[h].at = "asked" /\ op[h].secret \in DOMAIN secrets =>
       secrets[op[h].secret] \in op[h].seen
  /\ op[h].at \in {"decrypted", "sent"} =>
       /\ op[h].value \in op[h].seen
       /\ WorkspaceOf[op[h].secret] = WorkspaceOf[op[h].runner]
  /\ op[h].at = "sent" => h \in audited
  /\ op[h].at \in {"deleting", "tokens deleted", "beats deleted"} => op[h].runner \in drawn

SecretInv == \A h \in Handler : Informed(h)

RegistryInv == RegistryTypeOK /\ DeletedIsGone /\ SecretInv

LEMMA RegistryInitInv == RegistryInit => RegistryInv
<1> SUFFICES ASSUME RegistryInit PROVE RegistryInv
  OBVIOUS
<1>1. NoOp \in Operation /\ NoOp.at = "idle"
  BY DEF NoOp, Operation
<1>2. op \in [Handler -> Operation] /\ \A h \in Handler : op[h].at = "idle"
  BY <1>1 DEF RegistryInit
<1>3. RegistryTypeOK /\ DeletedIsGone
  BY <1>2 DEF RegistryInit, RegistryTypeOK, DeletedIsGone
<1>4. QED BY <1>2, <1>3 DEF RegistryInv, SecretInv, Informed

\* A request that goes on, or is answered, and the others as they were.
LEMMA OneMoves ==
  ASSUME RegistryInv, NEW h \in Handler, NEW o \in Operation, op' = [op EXCEPT ![h] = o]
  PROVE  /\ op' \in [Handler -> Operation] /\ op'[h] = o
         /\ \A g \in Handler \ {h} : op'[g] = op[g]
BY DEF RegistryInv, RegistryTypeOK

LEMMA Replied ==
  ASSUME RegistryInv, NEW h \in Handler, Reply(h)
  PROVE  /\ op' \in [Handler -> Operation] /\ op'[h].at = "idle"
         /\ \A g \in Handler \ {h} : op'[g] = op[g]
<1>1. NoOp \in Operation /\ NoOp.at = "idle"
  BY DEF NoOp, Operation
<1>2. QED BY <1>1, OneMoves DEF Reply

LEMMA Moved ==
  ASSUME RegistryInv, NEW h \in Handler,
         NEW at \in {"online", "tokens deleted", "beats deleted", "sent"}, To(h, at)
  PROVE  /\ op' \in [Handler -> Operation] /\ op'[h].at = at
         /\ op'[h] = [op[h] EXCEPT !.at = at] /\ op'[h].runner = op[h].runner
         /\ \A g \in Handler \ {h} : op'[g] = op[g]
<1>1. op[h] \in Operation
  BY DEF RegistryInv, RegistryTypeOK
<1>2. /\ [op[h] EXCEPT !.at = at] \in Operation /\ [op[h] EXCEPT !.at = at].at = at
      /\ [op[h] EXCEPT !.at = at].runner = op[h].runner
  BY <1>1 DEF Operation
<1>3. QED BY <1>2, OneMoves DEF To

LEMMA Took ==
  ASSUME RegistryInv, NEW h \in Handler, NEW r \in Runner,
         NEW at \in {"registered", "verified", "deleting"},
         op' = [op EXCEPT ![h].at = at, ![h].runner = r]
  PROVE  /\ op' \in [Handler -> Operation] /\ op'[h].at = at /\ op'[h].runner = r
         /\ \A g \in Handler \ {h} : op'[g] = op[g]
<1> DEFINE o == [op[h] EXCEPT !.at = at, !.runner = r]
<1>1. op[h] \in Operation
  BY DEF RegistryInv, RegistryTypeOK
<1>2. o \in Operation /\ o.at = at /\ o.runner = r
  BY <1>1 DEF Operation
<1>3. op' = [op EXCEPT ![h] = o]
  BY DEF RegistryInv, RegistryTypeOK
<1>4. QED BY <1>2, <1>3, OneMoves

\* What a request knows is not changed by a step of another one.
LEMMA OthersInformed ==
  ASSUME RegistryInv, NEW h \in Handler, UNCHANGED secrets, drawn \subseteq drawn',
         \A g \in Handler \ {h} : op'[g] = op[g] /\ (g \in audited => g \in audited'),
         Informed(h)'
  PROVE  SecretInv'
BY DEF RegistryInv, SecretInv, Informed

\* One that is about a runner knows nothing of a secret.
LEMMA RunnerMoves ==
  ASSUME RegistryInv, NEW h \in Handler, UNCHANGED secretVars, drawn \subseteq drawn',
         \A g \in Handler \ {h} : op'[g] = op[g],
         \/ op'[h].at \in {"idle", "registered", "verified", "online"}
         \/ /\ op'[h].at \in {"deleting", "tokens deleted", "beats deleted"}
            /\ op'[h].runner \in drawn
  PROVE  SecretInv'
BY OthersInformed DEF Informed, secretVars

-----------------------------------------------------------------------------
\* Registrations and heartbeats: what is stored refers to a row that is there.
LEMMA RegistrationInv ==
  ASSUME RegistryInv, NEW h \in Handler, RegisterRunner(h) \/ StoreToken(h)
  PROVE  RegistryInv'
<1>1. ASSUME NEW r \in Runner \ drawn, drawn' = drawn \cup {r},
             runners' = Inserting(runners, r, "offline"),
             op' = [op EXCEPT ![h].at = "registered", ![h].runner = r],
             UNCHANGED <<runnerTokens, beats, gone, secretVars>>
      PROVE  RegistryInv'
  <2>1. /\ op' \in [Handler -> Operation] /\ op'[h].at = "registered"
        /\ \A g \in Handler \ {h} : op'[g] = op[g]
    BY <1>1, Took
  <2>2. /\ DOMAIN runners' = DOMAIN runners \cup {r} /\ runners'[r] = "offline"
        /\ \A x \in DOMAIN runners : x # r => runners'[x] = runners[x]
    BY <1>1 DEF Inserting
  <2>3. RegistryTypeOK'
    BY <1>1, <2>1, <2>2 DEF RegistryInv, RegistryTypeOK, secretVars
  <2>4. DeletedIsGone'
    BY <1>1, <2>2 DEF RegistryInv, RegistryTypeOK, DeletedIsGone
  <2>5. SecretInv'
    BY <1>1, <2>1, RunnerMoves
  <2>6. QED BY <2>3, <2>4, <2>5 DEF RegistryInv
<1>2. CASE StoreToken(h)
  <2>1. /\ op' \in [Handler -> Operation] /\ op'[h].at = "idle"
        /\ \A g \in Handler \ {h} : op'[g] = op[g]
    BY <1>2, Replied DEF StoreToken
  <2>2. RegistryTypeOK' /\ DeletedIsGone'
    BY <1>2, <2>1 DEF StoreToken, RunnerExists, RegistryInv, RegistryTypeOK, DeletedIsGone, secretVars
  <2>3. SecretInv'
    BY <1>2, <2>1, RunnerMoves DEF StoreToken
  <2>4. QED BY <2>2, <2>3 DEF RegistryInv
<1>3. QED BY <1>1, <1>2 DEF RegisterRunner

LEMMA HeartbeatInv ==
  ASSUME RegistryInv, NEW h \in Handler,
         Heartbeat(h) \/ RecordHeartbeat(h) \/ StoreHeartbeat(h)
  PROVE  RegistryInv'
<1>1. CASE Heartbeat(h)
  <2>1. /\ op' \in [Handler -> Operation] /\ op'[h].at = "verified"
        /\ \A g \in Handler \ {h} : op'[g] = op[g]
    BY <1>1, Took DEF Heartbeat, RegistryInv, RegistryTypeOK
  <2>2. RegistryTypeOK' /\ DeletedIsGone'
    BY <1>1, <2>1 DEF Heartbeat, RegistryInv, RegistryTypeOK, DeletedIsGone, secretVars, runnerVars
  <2>3. SecretInv'
    BY <1>1, <2>1, RunnerMoves DEF Heartbeat, runnerVars
  <2>4. QED BY <2>2, <2>3 DEF RegistryInv
<1>2. CASE RecordHeartbeat(h)
  <2>1. /\ op' \in [Handler -> Operation] /\ op'[h].at = "online"
        /\ \A g \in Handler \ {h} : op'[g] = op[g]
    BY <1>2, Moved DEF RecordHeartbeat
  <2>3. RegistryTypeOK' /\ DeletedIsGone'
    BY <1>2, <2>1 DEF RecordHeartbeat, RegistryInv, RegistryTypeOK, DeletedIsGone, secretVars
  <2>4. SecretInv'
    BY <1>2, <2>1, RunnerMoves DEF RecordHeartbeat
  <2>5. QED BY <2>3, <2>4 DEF RegistryInv
<1>3. CASE StoreHeartbeat(h)
  <2>1. /\ op' \in [Handler -> Operation] /\ op'[h].at = "idle"
        /\ \A g \in Handler \ {h} : op'[g] = op[g]
    BY <1>3, Replied DEF StoreHeartbeat
  <2>2. RegistryTypeOK' /\ DeletedIsGone'
    BY <1>3, <2>1 DEF StoreHeartbeat, RunnerExists, RegistryInv, RegistryTypeOK, DeletedIsGone,
       secretVars
  <2>3. SecretInv'
    BY <1>3, <2>1, RunnerMoves DEF StoreHeartbeat
  <2>4. QED BY <2>2, <2>3 DEF RegistryInv
<1>4. QED BY <1>1, <1>2, <1>3

\* Deletions: nothing refers to a row that goes.
LEMMA DeletionInv ==
  ASSUME RegistryInv, NEW h \in Handler,
         DeleteRunner(h) \/ DeleteTokens(h) \/ DeleteHeartbeats(h) \/ DeleteRunnerRow(h)
  PROVE  RegistryInv'
<1>1. CASE DeleteRunner(h)
  <2>1. /\ op' \in [Handler -> Operation] /\ op'[h].at = "deleting" /\ op'[h].runner \in drawn
        /\ \A g \in Handler \ {h} : op'[g] = op[g]
    <3>1. PICK r \in DOMAIN runners : op' = [op EXCEPT ![h].at = "deleting", ![h].runner = r]
      BY <1>1 DEF DeleteRunner
    <3>2. r \in drawn /\ r \in Runner
      BY <3>1 DEF RegistryInv, RegistryTypeOK
    <3>3. QED BY <3>1, <3>2, Took
  <2>2. RegistryTypeOK' /\ DeletedIsGone'
    BY <1>1, <2>1 DEF DeleteRunner, RegistryInv, RegistryTypeOK, DeletedIsGone, secretVars,
       runnerVars
  <2>3. SecretInv'
    BY <1>1, <2>1, RunnerMoves DEF DeleteRunner, runnerVars
  <2>4. QED BY <2>2, <2>3 DEF RegistryInv
<1>2. CASE DeleteTokens(h) \/ DeleteHeartbeats(h)
  <2>1. PICK at \in {"tokens deleted", "beats deleted"} : To(h, at)
    BY <1>2 DEF DeleteTokens, DeleteHeartbeats
  <2>2. /\ op' \in [Handler -> Operation] /\ op'[h].at = at /\ op'[h].runner = op[h].runner
        /\ \A g \in Handler \ {h} : op'[g] = op[g]
    BY <2>1, Moved
  <2>3. op[h].runner \in drawn
    BY <1>2 DEF DeleteTokens, DeleteHeartbeats, RegistryInv, SecretInv, Informed
  <2>4. RegistryTypeOK' /\ DeletedIsGone'
    BY <1>2, <2>2 DEF DeleteTokens, DeleteHeartbeats, RegistryInv, RegistryTypeOK, DeletedIsGone,
       secretVars
  <2>5. SecretInv'
    BY <1>2, <2>2, <2>3, RunnerMoves DEF DeleteTokens, DeleteHeartbeats
  <2>6. QED BY <2>4, <2>5 DEF RegistryInv
<1>3. CASE DeleteRunnerRow(h)
  <2>1. /\ op' \in [Handler -> Operation] /\ op'[h].at = "idle"
        /\ \A g \in Handler \ {h} : op'[g] = op[g]
    BY <1>3, Replied DEF DeleteRunnerRow
  <2>2. /\ DOMAIN runners' \subseteq DOMAIN runners
        /\ \A x \in DOMAIN runners' : runners'[x] = runners[x]
    BY <1>3 DEF DeleteRunnerRow
  <2>3. op[h].runner \in drawn
    BY <1>3 DEF DeleteRunnerRow, RegistryInv, SecretInv, Informed
  <2>4. RegistryTypeOK' /\ DeletedIsGone'
    <3>1. CASE op[h].runner \in beats
      BY <1>3, <2>1, <3>1 DEF DeleteRunnerRow, RegistryInv, RegistryTypeOK, DeletedIsGone, secretVars
    <3>2. CASE op[h].runner \notin beats
      <4>1. /\ DOMAIN runners' = DOMAIN runners \ {op[h].runner}
            /\ runnerTokens' = runnerTokens \ {op[h].runner} /\ gone' = gone \cup {op[h].runner}
            /\ UNCHANGED <<drawn, beats, secrets, writes, audited>>
        BY <1>3, <3>2 DEF DeleteRunnerRow, secretVars
      <4>2. QED
        BY <2>1, <2>2, <2>3, <3>2, <4>1 DEF RegistryInv, RegistryTypeOK, DeletedIsGone
    <3>3. QED BY <3>1, <3>2
  <2>5. SecretInv'
    BY <1>3, <2>1, RunnerMoves DEF DeleteRunnerRow
  <2>6. QED BY <2>4, <2>5 DEF RegistryInv
<1>4. QED BY <1>1, <1>2, <1>3

-----------------------------------------------------------------------------
\* A runner is given a secret: the value it reads is one that it knows.
LEMMA AskInv ==
  ASSUME RegistryInv, NEW h \in Handler, AskSecret(h)
  PROVE  RegistryInv'
<1>1. PICK r \in drawn, s \in Secret :
        op' = [op EXCEPT ![h] =
          [at |-> "asked", runner |-> r, secret |-> s, value |-> NoItem,
           seen |-> IF s \in DOMAIN secrets THEN {secrets[s]} ELSE {}]]
  BY DEF AskSecret
<1> DEFINE known == IF s \in DOMAIN secrets THEN {secrets[s]} ELSE {}
           o == [at |-> "asked", runner |-> r, secret |-> s, value |-> NoItem, seen |-> known]
<1>2. known \in SUBSET Nat
  BY DEF RegistryInv, RegistryTypeOK
<1>3. o \in Operation
  BY <1>2 DEF Operation, RegistryInv, RegistryTypeOK
<1>4. /\ op' \in [Handler -> Operation] /\ op'[h] = o
      /\ \A g \in Handler \ {h} : op'[g] = op[g]
  BY <1>1, <1>3, OneMoves
<1>5. RegistryTypeOK' /\ DeletedIsGone'
  BY <1>4 DEF AskSecret, RegistryInv, RegistryTypeOK, DeletedIsGone, runnerVars
<1>6. o.at = "asked" /\ o.secret = s /\ o.seen = known
  OBVIOUS
<1>7. UNCHANGED secrets /\ UNCHANGED drawn
      /\ \A g \in Handler \ {h} : g \in audited => g \in audited'
  BY DEF AskSecret, runnerVars
<1>8. Informed(h)'
  BY <1>4, <1>6, <1>7 DEF Informed
<1>9. QED BY <1>4, <1>5, <1>7, <1>8, OthersInformed DEF RegistryInv

LEMMA GetInv ==
  ASSUME RegistryInv, NEW h \in Handler, GetSecret(h)
  PROVE  RegistryInv'
<1> DEFINE s == op[h].secret
<1>1. RegistryTypeOK /\ Informed(h) /\ op[h] \in Operation
  BY DEF RegistryInv, RegistryTypeOK, SecretInv
<1>2. UNCHANGED <<secrets, drawn, audited>>
  BY DEF GetSecret, runnerVars, secretVars
<1>3. CASE s \in DOMAIN secrets /\ WorkspaceOf[s] = WorkspaceOf[op[h].runner]
  <2> DEFINE o == [op[h] EXCEPT !.at = "decrypted", !.value = secrets[s]]
  <2>1. secrets[s] \in Nat /\ secrets[s] \in op[h].seen
    BY <1>1, <1>3 DEF RegistryTypeOK, Informed, GetSecret
  <2>2. /\ o \in Operation /\ o.at = "decrypted" /\ o.value = secrets[s]
        /\ o.seen = op[h].seen /\ o.secret = s /\ o.runner = op[h].runner
    BY <1>1, <2>1 DEF Operation
  <2>3. op' = [op EXCEPT ![h] = o]
    BY <1>1, <1>3 DEF GetSecret, RegistryTypeOK
  <2>4. /\ op' \in [Handler -> Operation] /\ op'[h] = o
        /\ \A g \in Handler \ {h} : op'[g] = op[g]
    BY <2>2, <2>3, OneMoves
  <2>5. RegistryTypeOK' /\ DeletedIsGone'
    BY <2>4 DEF GetSecret, RegistryInv, RegistryTypeOK, DeletedIsGone, runnerVars, secretVars
  <2>6. Informed(h)'
    BY <1>3, <2>1, <2>2, <2>4 DEF Informed
  <2>7. QED BY <1>2, <2>4, <2>5, <2>6, OthersInformed DEF RegistryInv
<1>4. CASE ~(s \in DOMAIN secrets /\ WorkspaceOf[s] = WorkspaceOf[op[h].runner])
  <2>1. /\ op' \in [Handler -> Operation] /\ op'[h].at = "idle"
        /\ \A g \in Handler \ {h} : op'[g] = op[g]
    BY <1>4, Replied DEF GetSecret
  <2>2. RegistryTypeOK' /\ DeletedIsGone'
    BY <2>1 DEF GetSecret, RegistryInv, RegistryTypeOK, DeletedIsGone, runnerVars, secretVars
  <2>3. SecretInv'
    BY <2>1, <1>2, RunnerMoves DEF GetSecret
  <2>4. QED BY <2>2, <2>3 DEF RegistryInv
<1>5. QED BY <1>3, <1>4

LEMMA AuditInv ==
  ASSUME RegistryInv, NEW h \in Handler,
         RecordAuditEvent(h) \/ ReceiveSecret(h) \/ Crash(h)
  PROVE  RegistryInv'
<1>1. ASSUME Reply(h), UNCHANGED <<runnerVars, secretVars>> PROVE RegistryInv'
  <2>1. /\ op' \in [Handler -> Operation] /\ op'[h].at = "idle"
        /\ \A g \in Handler \ {h} : op'[g] = op[g]
    BY <1>1, Replied
  <2>2. RegistryTypeOK' /\ DeletedIsGone'
    BY <1>1, <2>1 DEF RegistryInv, RegistryTypeOK, DeletedIsGone, runnerVars, secretVars
  <2>3. SecretInv'
    BY <1>1, <2>1, RunnerMoves DEF runnerVars
  <2>4. QED BY <2>2, <2>3 DEF RegistryInv
<1>2. ASSUME op[h].at = "decrypted", audited' = audited \cup {h}, To(h, "sent"),
             UNCHANGED <<runnerVars, secrets, writes>>
      PROVE  RegistryInv'
  <2>1. /\ op' \in [Handler -> Operation] /\ op'[h] = [op[h] EXCEPT !.at = "sent"]
        /\ \A g \in Handler \ {h} : op'[g] = op[g]
    BY <1>2, Moved
  <2>2. /\ op'[h].at = "sent" /\ op'[h].secret = op[h].secret /\ op'[h].runner = op[h].runner
        /\ op'[h].value = op[h].value /\ op'[h].seen = op[h].seen
    <3>1. op[h] \in Operation
      BY DEF RegistryInv, RegistryTypeOK
    <3>2. QED BY <2>1, <3>1 DEF Operation
  <2>3. RegistryTypeOK' /\ DeletedIsGone'
    BY <1>2, <2>1 DEF RegistryInv, RegistryTypeOK, DeletedIsGone, runnerVars
  <2>4. Informed(h)'
    BY <1>2, <2>2 DEF RegistryInv, SecretInv, Informed
  <2>5. QED BY <1>2, <2>1, <2>3, <2>4, OthersInformed DEF RegistryInv, runnerVars
<1>3. QED
  BY <1>1, <1>2 DEF RecordAuditEvent, ReceiveSecret, Crash, secretVars

\* A value that is written is known to the requests that wait for its secret.
LEMMA WriteInv ==
  ASSUME RegistryInv, NEW s \in Secret,
         See(s, writes + 1), writes' = writes + 1, UNCHANGED <<runnerVars, audited>>,
         DOMAIN secrets' = DOMAIN secrets \cup {s}, secrets'[s] = writes + 1,
         \A t \in DOMAIN secrets \ {s} : secrets'[t] = secrets[t]
  PROVE  RegistryInv'
<1>1. ASSUME NEW h \in Handler
      PROVE  /\ op'[h] \in Operation
             /\ op'[h].at = op[h].at /\ op'[h].runner = op[h].runner
             /\ op'[h].secret = op[h].secret /\ op'[h].value = op[h].value
             /\ op[h].seen \subseteq op'[h].seen
             /\ op[h].secret = s => writes + 1 \in op'[h].seen
  <2>1. op[h] \in Operation /\ writes + 1 \in Nat
    BY DEF RegistryInv, RegistryTypeOK
  <2>2. op'[h] = IF op[h].secret = s THEN [op[h] EXCEPT !.seen = @ \cup {writes + 1}] ELSE op[h]
    BY DEF See
  <2>3. CASE op[h].secret = s
    <3>1. op[h].seen \cup {writes + 1} \in SUBSET Nat
      BY <2>1 DEF Operation
    <3>2. op'[h] = [op[h] EXCEPT !.seen = op[h].seen \cup {writes + 1}]
      BY <2>2, <2>3
    <3>3. QED BY <2>1, <2>3, <3>1, <3>2 DEF Operation
  <2>4. CASE op[h].secret # s
    BY <2>1, <2>2, <2>4
  <2>5. QED BY <2>3, <2>4
<1>2. op' \in [Handler -> Operation]
  BY <1>1 DEF See
<1>3. \A t \in DOMAIN secrets' : secrets'[t] \in 1..writes'
  BY DEF RegistryInv, RegistryTypeOK
<1>4. RegistryTypeOK' /\ DeletedIsGone'
  BY <1>2, <1>3 DEF RegistryInv, RegistryTypeOK, DeletedIsGone, runnerVars
<1>5. SecretInv'
  <2>1. SUFFICES ASSUME NEW h \in Handler PROVE Informed(h)'
    BY DEF SecretInv
  <2>2. Informed(h) /\ UNCHANGED <<drawn, audited>>
    BY DEF RegistryInv, SecretInv, runnerVars
  <2>3. ASSUME op'[h].at = "asked", op'[h].secret \in DOMAIN secrets'
        PROVE  secrets'[op'[h].secret] \in op'[h].seen
    <3>1. op[h].at = "asked" /\ op'[h].secret = op[h].secret
      BY <1>1, <2>3
    <3>2. CASE op[h].secret = s
      BY <1>1, <3>1, <3>2
    <3>3. CASE op[h].secret # s
      <4>1. op[h].secret \in DOMAIN secrets \ {s}
        BY <2>3, <3>1, <3>3
      <4>2. secrets'[op[h].secret] = secrets[op[h].secret] /\ secrets[op[h].secret] \in op[h].seen
        BY <2>2, <3>1, <4>1 DEF Informed
      <4>3. QED BY <1>1, <3>1, <4>2
    <3>4. QED BY <3>2, <3>3
  <2>4. QED BY <1>1, <2>2, <2>3 DEF Informed
<1>6. QED BY <1>4, <1>5 DEF RegistryInv

LEMMA SecretStepInv ==
  ASSUME RegistryInv, CreateSecret \/ UpdateSecret \/ DeleteSecret \/ UpdateRunnerStatus
  PROVE  RegistryInv'
<1>1. CASE CreateSecret
  <2>1. PICK s \in Secret \ DOMAIN secrets :
          secrets' = Inserting(secrets, s, writes + 1) /\ See(s, writes + 1)
    BY <1>1 DEF CreateSecret
  <2>2. /\ DOMAIN secrets' = DOMAIN secrets \cup {s} /\ secrets'[s] = writes + 1
        /\ \A t \in DOMAIN secrets \ {s} : secrets'[t] = secrets[t]
    BY <2>1 DEF Inserting
  <2>3. QED BY <1>1, <2>1, <2>2, WriteInv DEF CreateSecret
<1>2. CASE UpdateSecret
  <2>1. PICK s \in DOMAIN secrets :
          secrets' = [secrets EXCEPT ![s] = writes + 1] /\ See(s, writes + 1)
    BY <1>2 DEF UpdateSecret
  <2>2. /\ DOMAIN secrets' = DOMAIN secrets \cup {s} /\ secrets'[s] = writes + 1
        /\ \A t \in DOMAIN secrets \ {s} : secrets'[t] = secrets[t]
    BY <2>1
  <2>3. s \in Secret
    BY DEF RegistryInv, RegistryTypeOK
  <2>4. QED BY <1>2, <2>1, <2>2, <2>3, WriteInv DEF UpdateSecret
<1>3. CASE DeleteSecret
  <2>1. PICK s \in DOMAIN secrets : secrets' = [x \in DOMAIN secrets \ {s} |-> secrets[x]]
    BY <1>3 DEF DeleteSecret
  <2>2. DOMAIN secrets' \subseteq DOMAIN secrets /\ \A x \in DOMAIN secrets' : secrets'[x] = secrets[x]
    BY <2>1
  <2>3. UNCHANGED <<runnerVars, writes, audited, op>>
    BY <1>3 DEF DeleteSecret
  <2>4. RegistryTypeOK' /\ DeletedIsGone' /\ SecretInv'
    BY <2>2, <2>3 DEF RegistryInv, RegistryTypeOK, DeletedIsGone, SecretInv, Informed, runnerVars
  <2>5. QED BY <2>4 DEF RegistryInv
<1>4. CASE UpdateRunnerStatus
  <2>1. RegistryTypeOK' /\ DeletedIsGone'
    BY <1>4 DEF UpdateRunnerStatus, RegistryInv, RegistryTypeOK, DeletedIsGone, secretVars
  <2>2. SecretInv'
    BY <1>4 DEF UpdateRunnerStatus, RegistryInv, SecretInv, Informed, secretVars
  <2>3. QED BY <2>1, <2>2 DEF RegistryInv
<1>5. QED BY <1>1, <1>2, <1>3, <1>4

\* Rows, tokens, heartbeats and secrets agree, whatever is under way
\* (runner-registry.service.ts, environment.routes.ts secrets/:id/value).
THEOREM RegistryInvariance == RegistrySpec => []RegistryInv
<1>1. RegistryInv /\ [RegistryNext]_registryVars => RegistryInv'
  <2>1. CASE UNCHANGED registryVars
    BY <2>1 DEF RegistryInv, RegistryTypeOK, DeletedIsGone, SecretInv, Informed, registryVars
  <2>2. QED BY <2>1, RegistrationInv, HeartbeatInv, DeletionInv, AskInv, GetInv, AuditInv,
               SecretStepInv DEF RegistryNext
<1>2. QED BY <1>1, RegistryInitInv, PTL DEF RegistrySpec

\* Every variable of the registry stays of its type.
THEOREM RegistryTypeCorrect == RegistrySpec => []RegistryTypeOK
<1>1. RegistryInv => RegistryTypeOK
  BY DEF RegistryInv
<1>2. QED BY <1>1, RegistryInvariance, PTL

\* A deleted runner is gone for good, and what a runner is sent is a value that
\* its secret had after the question, of its own workspace, and logged.
THEOREM RunnersAreKnownAlways == RegistrySpec => []RunnersAreKnown
<1>1. RegistryInv => RunnersAreKnown
  BY DEF RegistryInv, SecretInv, Informed, RunnersAreKnown, PlaintextIsAudited
<1>2. QED BY <1>1, RegistryInvariance, PTL

-----------------------------------------------------------------------------
(* VersionedAssets.  A request keeps its row, the next number, the members *)
(* that it found published and the version that it compiled.               *)

\* The rows: what was never inserted is as in the beginning; unless they are
\* deleted, the versions are those that were saved; only workflows and
\* datasets lose their versions and stay; and the members of suites are
\* published until somebody deletes the versions of the workflow.
RowsInv ==
  /\ RowsTypeOK
  /\ \A a \in Asset \ inserted : saved[a] = 0 /\ deletions[a] = 0
  /\ VersionsAreKept

\* A request that found its row, that counted the versions, that looked at the
\* members, that compiled a version, that deleted the versions.
SaveInv(q) ==
  LET a == saving[q].asset IN
  /\ saving[q].at \in {"found", "checked", "numbered"} => a \in inserted
  /\ saving[q].at = "numbered" =>
       /\ saving[q].number >= 1
       /\ a \in assets /\ deletions[a] = 0 => saving[q].number <= saved[a] + 1
  /\ saving[q].at \in {"checked", "numbered"} /\ a \in Suite =>
       \A w \in saving[q].members : deletions[w] = 0 => Published(w)
  /\ saving[q].at = "compiled" => a \in Workflow
  /\ saving[q].at = "wiped" => a \in Workflow \cup Dataset /\ deletions[a] > 0

AssetsInv ==
  /\ RowsInv
  /\ saving \in [Request -> Save]
  /\ \A q \in Request : SaveInv(q)

\* What no step takes back: no row is inserted twice, the versions that nobody
\* deletes stay, and what is published stays published.
Forward ==
  /\ inserted \subseteq inserted'
  /\ \A a \in inserted : a \in assets' => a \in assets
  /\ \A a \in Asset : deletions[a] <= deletions'[a]
  /\ \A a \in inserted : deletions'[a] = 0 => saved[a] <= saved'[a]
  /\ \A w \in Workflow : Published(w) /\ deletions'[w] = 0 => Published(w)'

LEMMA AssetsInitInv == AssetsInit => AssetsInv
<1> SUFFICES ASSUME AssetsInit PROVE AssetsInv
  OBVIOUS
<1>1. NoSave \in Save /\ NoSave.at = "idle"
  BY AssetBounds DEF NoSave, Save
<1>2. saving \in [Request -> Save] /\ \A q \in Request : saving[q].at = "idle"
  BY <1>1 DEF AssetsInit
<1>3. RowsTypeOK
  BY AssetBounds DEF AssetsInit, RowsTypeOK
<1>4. RowsInv
  <2>1. assets = {} /\ \A a \in Asset : DOMAIN stored[a] = {} /\ saved[a] = 0 /\ deletions[a] = 0
    BY DEF AssetsInit
  <2>2. QED BY <1>3, <2>1 DEF RowsInv, VersionsAreKept, Asset
<1>5. QED BY <1>2, <1>4 DEF AssetsInv, SaveInv

-----------------------------------------------------------------------------
\* Requests: one takes a step, the others are as they were.
LEMMA OneSaves ==
  ASSUME AssetsInv, NEW q \in Request, NEW r \in Save, saving' = [saving EXCEPT ![q] = r]
  PROVE  /\ saving' \in [Request -> Save] /\ saving'[q] = r
         /\ \A p \in Request \ {q} : saving'[p] = saving[p]
BY DEF AssetsInv

\* What a request knows stays true whatever the others do.
LEMMA OthersKept ==
  ASSUME AssetsInv, RowsInv', Forward, NEW p \in Request, saving'[p] = saving[p]
  PROVE  SaveInv(p)'
<1>1. saving[p] \in Save /\ SaveInv(p)
  BY DEF AssetsInv
<1> DEFINE a == saving[p].asset
<1>2. saving[p].at \in {"found", "checked", "numbered"} => a \in inserted /\ a \in inserted' /\ a \in Asset
  BY <1>1 DEF SaveInv, Forward, AssetsInv, RowsInv, RowsTypeOK
<1>3. ASSUME saving[p].at = "numbered", a \in assets', deletions'[a] = 0
      PROVE  saving[p].number <= saved'[a] + 1
  <2>1. a \in assets /\ deletions[a] = 0 /\ saved[a] <= saved'[a]
    BY <1>2, <1>3 DEF Forward, AssetsInv, RowsInv, RowsTypeOK
  <2>2. saved[a] \in Nat /\ saved'[a] \in Nat /\ saving[p].number \in Nat
    BY <1>1, <1>2, <1>3, AssetBounds DEF AssetsInv, RowsInv, RowsTypeOK, Save
  <2>3. QED BY <1>1, <1>3, <2>1, <2>2 DEF SaveInv
<1>4. ASSUME saving[p].at \in {"checked", "numbered"}, a \in Suite,
             NEW w \in saving[p].members, deletions'[w] = 0
      PROVE  Published(w)'
  <2>1. w \in Workflow /\ w \in Asset
    BY <1>1, <1>4 DEF Save, Asset
  <2>2. deletions[w] = 0
    BY <1>4, <2>1 DEF Forward, AssetsInv, RowsInv, RowsTypeOK
  <2>3. QED BY <1>1, <1>4, <2>1, <2>2 DEF SaveInv, Forward
<1>5. ASSUME saving[p].at = "wiped" PROVE a \in Workflow \cup Dataset /\ deletions'[a] > 0
  <2>1. a \in Asset /\ deletions[a] > 0 /\ a \in Workflow \cup Dataset
    BY <1>1, <1>5 DEF SaveInv, Asset
  <2>2. QED BY <2>1 DEF Forward, AssetsInv, RowsInv, RowsTypeOK
<1>6. QED BY <1>1, <1>2, <1>3, <1>4, <1>5 DEF SaveInv

\* So it is enough to look at the rows and at the request that takes the step.
LEMMA StepKept ==
  ASSUME AssetsInv, RowsInv', Forward, NEW q \in Request, NEW r \in Save,
         saving' = [saving EXCEPT ![q] = r], SaveInv(q)'
  PROVE  AssetsInv' /\ Forward
BY OneSaves, OthersKept DEF AssetsInv

LEMMA RowStepKept ==
  ASSUME AssetsInv, RowsInv', Forward, UNCHANGED saving
  PROVE  AssetsInv' /\ Forward
BY OthersKept DEF AssetsInv

\* A step of requests alone.
LEMMA Still ==
  ASSUME AssetsInv, UNCHANGED <<assets, inserted, stored, saved, deletions, schedules>>
  PROVE  RowsInv' /\ Forward
<1>1. RowsInv'
  BY DEF AssetsInv, RowsInv, RowsTypeOK, VersionsAreKept, Published
<1>2. Forward
  BY DEF AssetsInv, RowsInv, RowsTypeOK, Forward, Published
<1>3. QED BY <1>1, <1>2

\* A request that is answered, or has nothing to remember yet.
LEMMA Answered ==
  ASSUME AssetsInv, RowsInv', Forward, NEW q \in Request, AnswerSave(q)
  PROVE  AssetsInv' /\ Forward
<1>1. NoSave \in Save /\ NoSave.at = "idle"
  BY AssetBounds DEF NoSave, Save
<1>2. saving' = [saving EXCEPT ![q] = NoSave]
  BY DEF AnswerSave
<1>3. saving'[q].at = "idle"
  BY <1>1, <1>2, OneSaves
<1>4. QED BY <1>1, <1>2, <1>3, StepKept DEF SaveInv

-----------------------------------------------------------------------------
\* Rows come with nothing, or with version 1.
LEMMA Inserted ==
  ASSUME AssetsInv, NEW as \in SUBSET (Asset \ inserted), InsertRows(as),
         UNCHANGED <<deletions, schedules>>,
         \/ UNCHANGED <<stored, saved>> /\ as \cap Environment = {}
         \/ /\ stored' = [a \in Asset |-> IF a \in as THEN <<EmptyVersion>> ELSE stored[a]]
            /\ saved' = [a \in Asset |-> IF a \in as THEN 1 ELSE saved[a]]
  PROVE  RowsInv' /\ Forward
<1>1. /\ assets' = assets \cup as /\ inserted' = inserted \cup as
      /\ assets \subseteq inserted /\ as \cap inserted = {} /\ as \cap assets = {}
  BY DEF InsertRows, AssetsInv, RowsInv, RowsTypeOK
<1>2. \A a \in Asset \ as : stored'[a] = stored[a] /\ saved'[a] = saved[a]
  OBVIOUS
<1>3. \A a \in as : /\ DOMAIN stored[a] = {} /\ saved[a] = 0 /\ deletions[a] = 0
                    /\ DOMAIN stored'[a] = 1..saved'[a] /\ saved'[a] \in {0, 1}
                    /\ a \in Environment => DOMAIN stored'[a] # {}
                    /\ \A n \in DOMAIN stored'[a] : stored'[a][n] = EmptyVersion
  <2>1. SUFFICES ASSUME NEW a \in as
                 PROVE  /\ DOMAIN stored[a] = {} /\ saved[a] = 0 /\ deletions[a] = 0
                        /\ DOMAIN stored'[a] = 1..saved'[a] /\ saved'[a] \in {0, 1}
                        /\ a \in Environment => DOMAIN stored'[a] # {}
                        /\ \A n \in DOMAIN stored'[a] : stored'[a][n] = EmptyVersion
    OBVIOUS
  <2>2. DOMAIN stored[a] = {} /\ saved[a] = 0 /\ deletions[a] = 0
    BY <1>1 DEF AssetsInv, RowsInv, RowsTypeOK
  <2>3. CASE UNCHANGED <<stored, saved>> /\ as \cap Environment = {}
    <3>1. stored'[a] = stored[a] /\ saved'[a] = 0 /\ a \notin Environment
      BY <2>2, <2>3, Zenon
    <3>2. 1..0 = {}
      OBVIOUS
    <3>3. QED BY <2>2, <3>1, <3>2
  <2>4. CASE stored'[a] = <<EmptyVersion>> /\ saved'[a] = 1
    BY <2>2, <2>4
  <2>5. QED BY <2>3, <2>4
<1>4. EmptyVersion \in AssetVersion /\ EmptyVersion.members = {}
  BY DEF EmptyVersion, AssetVersion
<1>5. RowsTypeOK'
  <2>1. DOMAIN stored' = Asset /\ saved' \in [Asset -> 0..MaxVersions]
    <3>1. DOMAIN stored = Asset /\ saved \in [Asset -> 0..MaxVersions] /\ 1 \in 0..MaxVersions
      BY AssetBounds DEF AssetsInv, RowsInv, RowsTypeOK
    <3>2. QED BY <3>1
  <2>2. \A a \in Asset :
          /\ DOMAIN stored'[a] \subseteq 1..MaxVersions
          /\ \A n \in DOMAIN stored'[a] : stored'[a][n] \in AssetVersion
          /\ a \notin assets' => DOMAIN stored'[a] = {}
    <3>1. SUFFICES ASSUME NEW a \in Asset
                   PROVE  /\ DOMAIN stored'[a] \subseteq 1..MaxVersions
                          /\ \A n \in DOMAIN stored'[a] : stored'[a][n] \in AssetVersion
                          /\ a \notin assets' => DOMAIN stored'[a] = {}
      OBVIOUS
    <3>2. CASE a \in as
      <4>1. a \in assets' /\ 1..saved'[a] \subseteq 1..MaxVersions
        <5>1. saved'[a] \in {0, 1} /\ a \in assets'
          BY <1>1, <1>3, <3>2
        <5>2. QED BY <5>1, AssetBounds
      <4>2. \A n \in DOMAIN stored'[a] : stored'[a][n] \in AssetVersion
        BY <1>3, <1>4, <3>2
      <4>3. DOMAIN stored'[a] \subseteq 1..MaxVersions
        BY <1>3, <3>2, <4>1
      <4>4. QED BY <4>1, <4>2, <4>3
    <3>3. CASE a \notin as
      BY <1>1, <1>2, <3>3 DEF AssetsInv, RowsInv, RowsTypeOK
    <3>4. QED BY <3>2, <3>3
  <2>3. QED BY <1>1, <2>1, <2>2 DEF AssetsInv, RowsInv, RowsTypeOK
<1>6. \A w \in Workflow : Published(w) => Published(w)'
  BY <1>1, <1>2 DEF Published, Asset
<1>7. Forward
  <2>1. \A a \in inserted : a \in Asset \ as /\ (a \in assets' => a \in assets)
    BY <1>1 DEF AssetsInv, RowsInv, RowsTypeOK
  <2>2. \A a \in Asset : saved[a] \in Nat /\ deletions[a] \in Nat
    BY AssetBounds DEF AssetsInv, RowsInv, RowsTypeOK
  <2>3. \A a \in Asset : deletions[a] <= deletions'[a]
    BY <2>2
  <2>4. \A a \in inserted : saved[a] <= saved'[a]
    <3>1. SUFFICES ASSUME NEW a \in inserted PROVE saved[a] <= saved'[a]
      OBVIOUS
    <3>2. saved'[a] = saved[a] /\ saved[a] \in Nat
      BY <1>2, <2>1, <2>2
    <3>3. QED BY <3>2
  <2>5. QED BY <1>1, <1>6, <2>1, <2>3, <2>4 DEF Forward
<1>8. VersionsAreKept'
  <2>1. \A a \in assets' : deletions'[a] = 0 => DOMAIN stored'[a] = 1..saved'[a]
    BY <1>1, <1>2, <1>3 DEF AssetsInv, RowsInv, RowsTypeOK, VersionsAreKept
  <2>2. \A s \in Suite \cap assets' : deletions'[s] = 0
    BY <1>1, <1>3 DEF AssetsInv, RowsInv, VersionsAreKept
  <2>3. \A e \in Environment \cap assets' : DOMAIN stored'[e] # {}
    <3>1. SUFFICES ASSUME NEW e \in Environment \cap assets' PROVE DOMAIN stored'[e] # {}
      OBVIOUS
    <3>2. CASE e \in as
      BY <1>3, <3>2
    <3>3. CASE e \notin as
      BY <1>1, <1>2, <3>3 DEF AssetsInv, RowsInv, VersionsAreKept, Asset
    <3>4. QED BY <3>2, <3>3
  <2>4. \A s \in Suite : \A n \in DOMAIN stored'[s] :
          \A w \in stored'[s][n].members : deletions'[w] = 0 => Published(w)'
    <3>1. SUFFICES ASSUME NEW s \in Suite, NEW n \in DOMAIN stored'[s],
                          NEW w \in stored'[s][n].members, deletions'[w] = 0
                   PROVE  Published(w)'
      OBVIOUS
    <3>2. s \notin as
      BY <1>3, <1>4, <3>1
    <3>3. w \in stored[s][n].members /\ n \in DOMAIN stored[s] /\ s \in Asset
      BY <1>2, <3>1, <3>2 DEF Asset
    <3>4. w \in Workflow
      BY <3>3 DEF AssetsInv, RowsInv, RowsTypeOK, AssetVersion
    <3>5. QED BY <1>6, <3>1, <3>3, <3>4 DEF AssetsInv, RowsInv, VersionsAreKept
  <2>5. QED BY <2>1, <2>2, <2>3, <2>4 DEF VersionsAreKept
<1>9. QED BY <1>1, <1>3, <1>5, <1>7, <1>8 DEF AssetsInv, RowsInv

\* Creations and imports.
LEMMA CreationInv ==
  ASSUME AssetsInv,
         \/ \E a \in Asset : \/ CreateEnvironment(a) \/ CreateWorkflow(a)
                             \/ CreateDataset(a) \/ CreateTestSuite(a)
         \/ \E ws \in SUBSET Workflow : ImportArazzo(ws)
  PROVE  AssetsInv' /\ Forward
<1>1. PICK as \in SUBSET (Asset \ inserted) :
        /\ InsertRows(as) /\ UNCHANGED <<deletions, schedules, saving>>
        /\ \/ UNCHANGED <<stored, saved>> /\ as \cap Environment = {}
           \/ /\ stored' = [a \in Asset |-> IF a \in as THEN <<EmptyVersion>> ELSE stored[a]]
              /\ saved' = [a \in Asset |-> IF a \in as THEN 1 ELSE saved[a]]
  <2>1. ASSUME NEW a \in Asset, CreateEnvironment(a)
        PROVE  {a} \in SUBSET (Asset \ inserted) /\ WithFirst({a})
               /\ UNCHANGED <<deletions, schedules, saving>>
    BY <2>1 DEF CreateEnvironment, AssetsInv, RowsInv, RowsTypeOK
  <2>2. ASSUME NEW a \in Asset, CreateWorkflow(a) \/ CreateDataset(a) \/ CreateTestSuite(a)
        PROVE  /\ {a} \in SUBSET (Asset \ inserted) /\ {a} \cap Environment = {}
               /\ InsertRows({a}) /\ UNCHANGED <<stored, saved, deletions, schedules, saving>>
    BY <2>2, TablesAreApart DEF CreateWorkflow, CreateDataset, CreateTestSuite, CreateAsset
  <2>3. ASSUME NEW ws \in SUBSET Workflow, ImportArazzo(ws)
        PROVE  ws \in SUBSET (Asset \ inserted) /\ WithFirst(ws)
               /\ UNCHANGED <<deletions, schedules, saving>>
    BY <2>3 DEF ImportArazzo, Asset
  <2>4. QED BY <2>1, <2>2, <2>3 DEF WithFirst
<1>2. RowsInv' /\ Forward
  BY <1>1, Inserted
<1>3. QED BY <1>1, <1>2, RowStepKept

LEMMA ImportInv ==
  ASSUME AssetsInv, NEW q \in Request, NEW d \in Asset, ImportDataset(q, d)
  PROVE  AssetsInv' /\ Forward
<1>1. /\ {d} \in SUBSET (Asset \ inserted) /\ {d} \cap Environment = {}
      /\ InsertRows({d}) /\ UNCHANGED <<stored, saved, deletions, schedules>>
  BY TablesAreApart DEF ImportDataset
<1>2. RowsInv' /\ Forward
  BY <1>1, Inserted
<1> DEFINE r == [saving[q] EXCEPT !.at = "asked", !.asset = d]
<1>3. saving[q] \in Save
  BY DEF AssetsInv
<1>4. r \in Save /\ r.at = "asked"
  BY <1>3 DEF Save
<1>5. saving' = [saving EXCEPT ![q] = r]
  BY DEF ImportDataset, AssetsInv
<1>6. SaveInv(q)'
  BY <1>4, <1>5, OneSaves DEF SaveInv
<1>7. QED BY <1>2, <1>4, <1>5, <1>6, StepKept

-----------------------------------------------------------------------------
\* A request on its way to a new version.
LEMMA AskedInv ==
  ASSUME AssetsInv, NEW q \in Request, NEW a \in Asset, NEW ws \in SUBSET Workflow,
         BeginSave(q, a, ws)
  PROVE  AssetsInv' /\ Forward
<1> DEFINE r == [saving[q] EXCEPT !.at = "asked", !.asset = a, !.members = ws]
<1>1. saving[q] \in Save
  BY DEF AssetsInv
<1>2. r \in Save /\ r.at = "asked"
  BY <1>1 DEF Save
<1>3. saving' = [saving EXCEPT ![q] = r]
  BY DEF BeginSave, AssetsInv
<1>4. SaveInv(q)'
  BY <1>2, <1>3, OneSaves DEF SaveInv
<1>5. QED BY <1>2, <1>3, <1>4, Still, StepKept DEF BeginSave

LEMMA FoundInv ==
  ASSUME AssetsInv, NEW q \in Request, FindAsset(q)
  PROVE  AssetsInv' /\ Forward
<1> DEFINE r == [saving[q] EXCEPT !.at = "found"]
<1>1. RowsInv' /\ Forward
  BY Still DEF FindAsset
<1>2. CASE saving[q].asset \in assets
  <2>1. saving[q] \in Save
    BY DEF AssetsInv
  <2>2. r \in Save /\ r.at = "found" /\ r.asset = saving[q].asset
    BY <2>1 DEF Save
  <2>3. saving' = [saving EXCEPT ![q] = r]
    BY <1>2 DEF FindAsset, AssetsInv
  <2>4. saving[q].asset \in inserted'
    BY <1>2 DEF FindAsset, AssetsInv, RowsInv, RowsTypeOK
  <2>5. SaveInv(q)'
    BY <2>2, <2>3, <2>4, OneSaves DEF SaveInv
  <2>6. QED BY <1>1, <2>2, <2>3, <2>5, StepKept
<1>3. CASE saving[q].asset \notin assets
  BY <1>1, <1>3, Answered DEF FindAsset
<1>4. QED BY <1>2, <1>3

LEMMA CheckedInv ==
  ASSUME AssetsInv, NEW q \in Request, CheckMembers(q)
  PROVE  AssetsInv' /\ Forward
<1> DEFINE r == [saving[q] EXCEPT !.at = "checked"]
<1>1. RowsInv' /\ Forward
  BY Still DEF CheckMembers
<1>2. CASE MembersArePublished(saving[q].members)
  <2>1. saving[q] \in Save /\ saving[q].asset \in inserted
    BY DEF CheckMembers, AssetsInv, SaveInv
  <2>2. /\ r \in Save /\ r.at = "checked" /\ r.asset = saving[q].asset
        /\ r.members = saving[q].members
    BY <2>1 DEF Save
  <2>3. saving' = [saving EXCEPT ![q] = r]
    BY <1>2 DEF CheckMembers, AssetsInv
  <2>4. saving'[q] = r
    BY <2>2, <2>3, OneSaves
  <2>5. \A w \in r.members : Published(w)'
    BY <1>2, <2>2 DEF MembersArePublished, Published, CheckMembers
  <2>6. saving[q].asset \in inserted'
    BY <2>1 DEF CheckMembers
  <2>7. SaveInv(q)'
    BY <2>2, <2>4, <2>5, <2>6 DEF SaveInv
  <2>8. QED BY <1>1, <2>2, <2>3, <2>7, StepKept
<1>3. CASE ~MembersArePublished(saving[q].members)
  BY <1>1, <1>3, Answered DEF CheckMembers
<1>4. QED BY <1>2, <1>3

\* The next number of a row whose versions are all there is the next one.
LEMMA NextIsNew ==
  ASSUME AssetsInv, NEW a \in assets, deletions[a] = 0, NextNumber(a) \in 1..MaxVersions
  PROVE  NextNumber(a) <= saved[a] + 1
<1> DEFINE P(n) == DOMAIN stored[a] \subseteq 1..n - 1 /\ (n > 1 => n - 1 \in DOMAIN stored[a])
<1>1. DOMAIN stored[a] = 1..saved[a] /\ saved[a] \in 0..MaxVersions
  BY DEF AssetsInv, RowsInv, RowsTypeOK, VersionsAreKept
<1>2. saved[a] + 1 \in 1..MaxVersions + 1 /\ P(saved[a] + 1)
  BY <1>1, AssetBounds
<1>3. P(NextNumber(a))
  BY <1>2 DEF NextNumber
<1>4. QED BY <1>1, <1>3, AssetBounds

LEMMA NumberedInv ==
  ASSUME AssetsInv, NEW q \in Request, NumberVersion(q)
  PROVE  AssetsInv' /\ Forward
<1> DEFINE a == saving[q].asset
           n == NextNumber(a)
           r == [saving[q] EXCEPT !.at = "numbered", !.number = n]
<1>1. RowsInv' /\ Forward
  BY Still DEF NumberVersion
<1>2. saving[q] \in Save /\ SaveInv(q) /\ n \in 1..MaxVersions /\ a \in inserted
  BY DEF NumberVersion, AssetsInv, SaveInv
<1>3. n \in 0..MaxVersions
  BY <1>2, AssetBounds
<1>4. /\ r \in Save /\ r.at = "numbered" /\ r.asset = a /\ r.number = n
      /\ r.members = saving[q].members
  BY <1>2, <1>3 DEF Save
<1>5. saving' = [saving EXCEPT ![q] = r]
  BY DEF NumberVersion, AssetsInv
<1>6. saving'[q] = r
  BY <1>4, <1>5, OneSaves
<1>7. UNCHANGED <<assets, inserted, stored, saved, deletions>>
  BY DEF NumberVersion
<1>8. n >= 1 /\ (a \in assets /\ deletions[a] = 0 => n <= saved[a] + 1)
  BY <1>2, NextIsNew, AssetBounds
<1>9. a \in Suite => \A w \in r.members : deletions[w] = 0 => Published(w)
  BY <1>2, <1>4 DEF SaveInv, NumberVersion
<1>10. SaveInv(q)'
  BY <1>2, <1>4, <1>6, <1>7, <1>8, <1>9 DEF SaveInv, Published
<1>11. QED BY <1>1, <1>4, <1>5, <1>10, StepKept

LEMMA CompiledInv ==
  ASSUME AssetsInv, NEW q \in Request, NEW w \in Asset, NEW n \in 1..MaxVersions,
         CompileVersion(q, w, n)
  PROVE  AssetsInv' /\ Forward
<1> DEFINE r == [NoSave EXCEPT !.at = "compiled", !.asset = w, !.number = n,
                               !.deletions = deletions[w]]
<1>1. n \in 0..MaxVersions /\ deletions[w] \in 0..MaxDeletions /\ NoSave \in Save
  BY AssetBounds DEF AssetsInv, RowsInv, RowsTypeOK, NoSave, Save
<1>2. r \in Save /\ r.at = "compiled" /\ r.asset = w
  BY <1>1 DEF Save
<1>3. saving' = [saving EXCEPT ![q] = r] /\ w \in Workflow
  BY DEF CompileVersion
<1>4. SaveInv(q)'
  BY <1>2, <1>3, OneSaves DEF SaveInv
<1>5. QED BY <1>2, <1>3, <1>4, Still, StepKept DEF CompileVersion

-----------------------------------------------------------------------------
\* The version is inserted: its number is the next one, or already there.
LEMMA InsertionInv ==
  ASSUME AssetsInv, NEW q \in Request, InsertAssetVersion(q)
  PROVE  AssetsInv' /\ Forward
<1> DEFINE a == saving[q].asset
           n == saving[q].number
           v == [EmptyVersion EXCEPT !.members = saving[q].members]
<1>1. /\ saving[q] \in Save /\ SaveInv(q) /\ saving[q].at = "numbered"
      /\ UNCHANGED <<assets, inserted, deletions, schedules>>
  BY DEF InsertAssetVersion, AssetsInv
<1>2. CASE ~VersionFits(a, n)
  <2>1. UNCHANGED <<stored, saved>> /\ AnswerSave(q)
    BY <1>2 DEF InsertAssetVersion
  <2>2. QED BY <1>1, <2>1, Still, Answered
<1>3. CASE VersionFits(a, n)
  <2>1. /\ a \in assets /\ a \in Asset /\ n \notin DOMAIN stored[a]
        /\ n \in Nat /\ n >= 1 /\ n <= MaxVersions /\ saved[a] \in 0..MaxVersions
    BY <1>1, <1>3, AssetBounds DEF VersionFits, SaveInv, Save, AssetsInv, RowsInv, RowsTypeOK
  <2>2. /\ stored' = [stored EXCEPT ![a] =
             [m \in DOMAIN stored[a] \cup {n} |-> IF m = n THEN v ELSE stored[a][m]]]
        /\ saved' = [saved EXCEPT ![a] = IF saved[a] < MaxVersions THEN saved[a] + 1 ELSE saved[a]]
    BY <1>3 DEF InsertAssetVersion, AssetsInv, RowsInv, RowsTypeOK
  <2>3. /\ DOMAIN stored' = Asset /\ DOMAIN stored'[a] = DOMAIN stored[a] \cup {n}
        /\ stored'[a][n] = v
        /\ \A m \in DOMAIN stored[a] : stored'[a][m] = stored[a][m]
        /\ \A b \in Asset \ {a} : stored'[b] = stored[b] /\ saved'[b] = saved[b]
    BY <2>1, <2>2 DEF AssetsInv, RowsInv, RowsTypeOK
  <2>4. saved' \in [Asset -> 0..MaxVersions] /\ saved[a] <= saved'[a]
    BY <2>1, <2>2, AssetBounds DEF AssetsInv, RowsInv, RowsTypeOK
  <2>5. deletions[a] = 0 => n = saved[a] + 1 /\ saved'[a] = saved[a] + 1
    <3>1. ASSUME deletions[a] = 0 PROVE n = saved[a] + 1
      <4>1. DOMAIN stored[a] = 1..saved[a] /\ n <= saved[a] + 1
        BY <1>1, <2>1, <3>1 DEF SaveInv, AssetsInv, RowsInv, VersionsAreKept
      <4>2. QED BY <2>1, <4>1
    <3>2. ASSUME n = saved[a] + 1 PROVE saved'[a] = saved[a] + 1
      BY <2>1, <2>2, <3>2, AssetBounds DEF AssetsInv, RowsInv, RowsTypeOK
    <3>3. QED BY <3>1, <3>2
  <2>6. v \in AssetVersion /\ v.members = saving[q].members
    BY <1>1 DEF EmptyVersion, AssetVersion, Save
  <2>7. RowsTypeOK'
    BY <1>1, <2>1, <2>3, <2>4, <2>6 DEF AssetsInv, RowsInv, RowsTypeOK
  <2>8. \A w \in Workflow : Published(w) => Published(w)'
    BY <1>1, <2>3 DEF Published, Asset
  <2>9. Forward
    <3>1. \A b \in Asset : saved[b] <= saved'[b] /\ deletions[b] <= deletions'[b]
      BY <1>1, <2>3, <2>4, AssetBounds DEF AssetsInv, RowsInv, RowsTypeOK
    <3>2. QED BY <1>1, <2>8, <3>1 DEF Forward, AssetsInv, RowsInv, RowsTypeOK
  <2>10. \A b \in assets' : deletions'[b] = 0 => DOMAIN stored'[b] = 1..saved'[b]
    <3>1. SUFFICES ASSUME NEW b \in assets', deletions'[b] = 0
                   PROVE  DOMAIN stored'[b] = 1..saved'[b]
      OBVIOUS
    <3>2. b \in Asset /\ DOMAIN stored[b] = 1..saved[b]
      BY <1>1, <3>1 DEF AssetsInv, RowsInv, RowsTypeOK, VersionsAreKept
    <3>3. CASE b = a
      <4>1. DOMAIN stored'[a] = 1..saved[a] \cup {saved[a] + 1} /\ saved'[a] = saved[a] + 1
        BY <1>1, <2>3, <2>5, <3>1, <3>2, <3>3
      <4>2. saved[a] \in Nat
        BY <2>1, AssetBounds
      <4>3. 1..saved[a] \cup {saved[a] + 1} = 1..saved[a] + 1
        BY <4>2
      <4>4. QED BY <3>3, <4>1, <4>3
    <3>4. CASE b # a
      BY <2>3, <3>2, <3>4
    <3>5. QED BY <3>3, <3>4
  <2>11. \A e \in Environment \cap assets' : DOMAIN stored'[e] # {}
    BY <1>1, <2>3 DEF AssetsInv, RowsInv, VersionsAreKept, Asset
  <2>12. ASSUME NEW s \in Suite, NEW m \in DOMAIN stored'[s],
                NEW w \in stored'[s][m].members, deletions'[w] = 0
         PROVE  Published(w)'
    <3>1. CASE s = a /\ m = n
      <4>1. w \in saving[q].members /\ deletions[w] = 0
        BY <1>1, <2>3, <2>6, <2>12, <3>1
      <4>2. w \in Workflow
        BY <1>1, <4>1 DEF Save
      <4>3. QED BY <1>1, <2>8, <3>1, <4>1, <4>2 DEF SaveInv
    <3>2. CASE ~(s = a /\ m = n)
      <4>1. m \in DOMAIN stored[s] /\ stored'[s][m] = stored[s][m] /\ s \in Asset
        BY <2>3, <2>12, <3>2 DEF Asset
      <4>2. w \in Workflow /\ deletions[w] = 0
        BY <1>1, <2>12, <4>1 DEF AssetsInv, RowsInv, RowsTypeOK, AssetVersion
      <4>3. QED BY <2>8, <2>12, <4>1, <4>2 DEF AssetsInv, RowsInv, VersionsAreKept
    <3>3. QED BY <3>1, <3>2
  <2>13. VersionsAreKept'
    BY <1>1, <2>10, <2>11, <2>12 DEF AssetsInv, RowsInv, VersionsAreKept
  <2>14. \A b \in Asset \ inserted' : saved'[b] = 0 /\ deletions'[b] = 0
    BY <1>1, <2>1, <2>3 DEF AssetsInv, RowsInv, RowsTypeOK
  <2>15. AnswerSave(q)
    BY DEF InsertAssetVersion
  <2>16. QED BY <2>7, <2>9, <2>13, <2>14, <2>15, Answered DEF RowsInv
<1>4. QED BY <1>2, <1>3

-----------------------------------------------------------------------------
\* A plan is stored in a version that is there, or nothing is.
LEMMA PlanInv ==
  ASSUME AssetsInv, NEW q \in Request, StorePlan(q)
  PROVE  AssetsInv' /\ Forward
<1> DEFINE w == saving[q].asset
           n == saving[q].number
<1>1. /\ w \in Workflow /\ w \in Asset /\ w \notin Suite /\ AnswerSave(q)
      /\ UNCHANGED <<assets, inserted, saved, deletions, schedules>>
  BY TablesAreApart DEF StorePlan, AssetsInv, SaveInv, Asset
<1>2. CASE ~(n \in DOMAIN stored[w] /\ saving[q].deletions = deletions[w])
  BY <1>1, <1>2, Still, Answered DEF StorePlan
<1>3. CASE n \in DOMAIN stored[w] /\ saving[q].deletions = deletions[w]
  <2>1. stored' = [stored EXCEPT ![w][n].plan = TRUE]
    BY <1>3 DEF StorePlan
  <2>2. /\ DOMAIN stored' = Asset /\ \A b \in Asset : DOMAIN stored'[b] = DOMAIN stored[b]
        /\ \A b \in Asset \ {w} : stored'[b] = stored[b]
        /\ \A m \in DOMAIN stored[w] : m # n => stored'[w][m] = stored[w][m]
        /\ stored'[w][n] = [stored[w][n] EXCEPT !.plan = TRUE]
    BY <1>1, <1>3, <2>1 DEF AssetsInv, RowsInv, RowsTypeOK
  <2>3. stored'[w][n] \in AssetVersion /\ stored'[w][n].plan
    BY <1>1, <1>3, <2>2 DEF AssetsInv, RowsInv, RowsTypeOK, AssetVersion
  <2>4. RowsTypeOK'
    BY <1>1, <2>2, <2>3 DEF AssetsInv, RowsInv, RowsTypeOK
  <2>5. \A x \in Workflow : Published(x) => Published(x)'
    BY <1>1, <1>3, <2>2, <2>3 DEF Published, Asset
  <2>6. Forward
    BY <1>1, <2>5, AssetBounds DEF Forward, AssetsInv, RowsInv, RowsTypeOK
  <2>7. ASSUME NEW s \in Suite, NEW m \in DOMAIN stored'[s],
               NEW x \in stored'[s][m].members, deletions'[x] = 0
        PROVE  Published(x)'
    <3>1. s \in Asset /\ m \in DOMAIN stored[s] /\ stored'[s] = stored[s]
      BY <1>1, <2>2, <2>7 DEF Asset
    <3>2. x \in Workflow /\ deletions[x] = 0
      BY <1>1, <2>7, <3>1 DEF AssetsInv, RowsInv, RowsTypeOK, AssetVersion
    <3>3. QED BY <2>5, <2>7, <3>1, <3>2 DEF AssetsInv, RowsInv, VersionsAreKept
  <2>8. VersionsAreKept'
    BY <1>1, <2>2, <2>7 DEF AssetsInv, RowsInv, RowsTypeOK, VersionsAreKept
  <2>9. \A b \in Asset \ inserted' : saved'[b] = 0 /\ deletions'[b] = 0
    BY <1>1 DEF AssetsInv, RowsInv
  <2>10. QED BY <1>1, <2>4, <2>6, <2>8, <2>9, Answered DEF RowsInv
<1>4. QED BY <1>2, <1>3

-----------------------------------------------------------------------------
\* Rows go when nothing refers to them; of workflows, after their versions.
LEMMA RowGoes ==
  ASSUME AssetsInv, NEW a \in Asset, DeleteUnlessReferred(a), a \in Workflow => deletions[a] > 0,
         UNCHANGED <<inserted, stored, saved, deletions, schedules>>
  PROVE  RowsInv' /\ Forward
<1>1. assets' \subseteq assets /\ \A b \in assets \ assets' : b = a /\ ~Referred(a)
  BY DEF DeleteUnlessReferred
<1>2. \A b \in assets \ assets' : DOMAIN stored[b] = {} /\ \A s \in schedules : b \notin {s[1], s[2]}
  BY <1>1 DEF Referred
<1>3. schedules \subseteq (Suite \cap assets') \X ((Environment \cap assets') \cup {NoAsset})
  BY <1>1, <1>2 DEF AssetsInv, RowsInv, RowsTypeOK
<1>4. RowsTypeOK'
  BY <1>1, <1>2, <1>3 DEF AssetsInv, RowsInv, RowsTypeOK
<1>5. \A w \in Workflow : Published(w) /\ deletions[w] = 0 => Published(w)'
  <2>1. SUFFICES ASSUME NEW w \in Workflow, Published(w), deletions[w] = 0 PROVE w \in assets'
    BY DEF Published
  <2>2. QED BY <1>1, <2>1 DEF Published
<1>6. Forward
  BY <1>1, <1>5, AssetBounds DEF Forward, AssetsInv, RowsInv, RowsTypeOK
<1>7. ASSUME NEW s \in Suite, NEW n \in DOMAIN stored[s], NEW w \in stored[s][n].members,
             deletions[w] = 0
      PROVE  Published(w)'
  <2>1. s \in Asset /\ w \in Workflow /\ Published(w)
    BY <1>7 DEF Asset, AssetsInv, RowsInv, RowsTypeOK, AssetVersion, VersionsAreKept
  <2>2. QED BY <1>5, <1>7, <2>1
<1>8. VersionsAreKept'
  BY <1>1, <1>7 DEF AssetsInv, RowsInv, VersionsAreKept
<1>9. QED BY <1>4, <1>6, <1>8 DEF AssetsInv, RowsInv

\* The versions of a workflow or a dataset go, and those of a suite with it.
LEMMA VersionsGo ==
  ASSUME AssetsInv, NEW a \in assets, a \notin Environment, deletions[a] < MaxDeletions,
         Wiped(a), UNCHANGED <<inserted, schedules>>,
         \/ a \notin Suite /\ UNCHANGED assets
         \/ a \in Suite /\ assets' = assets \ {a} /\ \A c \in schedules : c[1] # a
  PROVE  RowsInv' /\ Forward
<1>1. a \in Asset /\ a \in inserted /\ deletions[a] \in Nat /\ deletions[a] + 1 \in 0..MaxDeletions
  BY AssetBounds DEF AssetsInv, RowsInv, RowsTypeOK
<1>2. /\ DOMAIN stored' = Asset /\ stored'[a] = <<>> /\ DOMAIN stored'[a] = {}
      /\ \A b \in Asset \ {a} : /\ stored'[b] = stored[b] /\ saved'[b] = saved[b]
                               /\ deletions'[b] = deletions[b]
      /\ deletions'[a] = deletions[a] + 1 /\ deletions'[a] # 0
  BY <1>1 DEF Wiped, AssetsInv, RowsInv, RowsTypeOK
<1>3. saved' \in [Asset -> 0..MaxVersions] /\ deletions' \in [Asset -> 0..MaxDeletions]
  BY <1>1, AssetBounds DEF Wiped, AssetsInv, RowsInv, RowsTypeOK
<1>4. schedules \subseteq (Suite \cap assets') \X ((Environment \cap assets') \cup {NoAsset})
  BY DEF AssetsInv, RowsInv, RowsTypeOK
<1>5. assets' \subseteq assets /\ \A b \in assets \ assets' : b = a /\ a \in Suite
  OBVIOUS
<1>6. RowsTypeOK'
  BY <1>1, <1>2, <1>3, <1>4, <1>5 DEF AssetsInv, RowsInv, RowsTypeOK
<1>7. \A w \in Workflow : Published(w) /\ deletions'[w] = 0 => Published(w)'
  <2>1. SUFFICES ASSUME NEW w \in Workflow, Published(w), deletions'[w] = 0 PROVE Published(w)'
    OBVIOUS
  <2>2. w # a /\ w \in Asset /\ w \notin Suite
    BY <1>2, <2>1, TablesAreApart DEF Asset
  <2>3. QED BY <1>2, <1>5, <2>1, <2>2 DEF Published
<1>8. \A b \in Asset : deletions[b] <= deletions'[b] /\ (deletions'[b] = 0 => saved[b] <= saved'[b])
  BY <1>1, <1>2, AssetBounds DEF AssetsInv, RowsInv, RowsTypeOK
<1>9. Forward
  BY <1>1, <1>5, <1>7, <1>8 DEF Forward, AssetsInv, RowsInv, RowsTypeOK
<1>10. ASSUME NEW s \in Suite, NEW n \in DOMAIN stored'[s], NEW w \in stored'[s][n].members,
              deletions'[w] = 0
       PROVE  Published(w)'
  <2>1. s # a /\ s \in Asset /\ stored'[s] = stored[s]
    BY <1>2, <1>10 DEF Asset
  <2>2. w \in Workflow /\ w \in Asset
    BY <1>10, <2>1 DEF Asset, AssetsInv, RowsInv, RowsTypeOK, AssetVersion
  <2>3. deletions[w] = 0
    BY <1>2, <1>10, <2>2
  <2>4. QED BY <1>7, <1>10, <2>1, <2>2, <2>3 DEF AssetsInv, RowsInv, VersionsAreKept
<1>11. \A b \in assets' : deletions'[b] = 0 => DOMAIN stored'[b] = 1..saved'[b]
  BY <1>2, <1>5 DEF AssetsInv, RowsInv, RowsTypeOK, VersionsAreKept
<1>12. \A s \in Suite \cap assets' : deletions'[s] = 0
  BY <1>2, <1>5 DEF AssetsInv, RowsInv, RowsTypeOK, VersionsAreKept
<1>13. \A e \in Environment \cap assets' : DOMAIN stored'[e] # {}
  BY <1>2, <1>5 DEF AssetsInv, RowsInv, RowsTypeOK, VersionsAreKept
<1>14. VersionsAreKept'
  BY <1>10, <1>11, <1>12, <1>13 DEF VersionsAreKept
<1>15. \A b \in Asset \ inserted' : saved'[b] = 0 /\ deletions'[b] = 0
  BY <1>1, <1>2 DEF AssetsInv, RowsInv
<1>16. QED BY <1>6, <1>9, <1>14, <1>15 DEF RowsInv

LEMMA DeletionsInv ==
  ASSUME AssetsInv,
         \/ \E a \in Asset : DeleteEnvironment(a) \/ DeleteTestSuite(a)
         \/ \E q \in Request : \/ \E a \in Asset : DeleteWorkflow(q, a) \/ DeleteDataset(q, a)
                               \/ DeleteAssetRow(q)
  PROVE  AssetsInv' /\ Forward
<1>1. ASSUME NEW a \in Asset, DeleteEnvironment(a) PROVE AssetsInv' /\ Forward
  <2>1. a \notin Workflow
    BY <1>1, TablesAreApart DEF DeleteEnvironment
  <2>2. QED BY <1>1, <2>1, RowGoes, RowStepKept DEF DeleteEnvironment
<1>2. ASSUME NEW a \in Asset, DeleteTestSuite(a) PROVE AssetsInv' /\ Forward
  <2>1. a \notin Environment
    BY <1>2, TablesAreApart DEF DeleteTestSuite
  <2>2. QED BY <1>2, <2>1, VersionsGo, RowStepKept DEF DeleteTestSuite, DeleteUnscheduled
<1>3. ASSUME NEW q \in Request, NEW a \in Workflow \cup Dataset, DeleteAssetVersions(q, a)
      PROVE  AssetsInv' /\ Forward
  <2> DEFINE r == [saving[q] EXCEPT !.at = "wiped", !.asset = a]
  <2>1. a \notin Environment /\ a \notin Suite /\ a \in Asset
    BY <1>3, TablesAreApart DEF Asset
  <2>2. RowsInv' /\ Forward
    BY <1>3, <2>1, VersionsGo DEF DeleteAssetVersions
  <2>3. deletions'[a] > 0
    BY <1>3, <2>1 DEF DeleteAssetVersions, Wiped, AssetsInv, RowsInv, RowsTypeOK
  <2>4. saving[q] \in Save
    BY DEF AssetsInv
  <2>5. r \in Save /\ r.at = "wiped" /\ r.asset = a
    BY <2>1, <2>4 DEF Save
  <2>6. saving' = [saving EXCEPT ![q] = r]
    BY <1>3 DEF DeleteAssetVersions, AssetsInv
  <2>7. SaveInv(q)'
    BY <2>3, <2>5, <2>6, OneSaves DEF SaveInv
  <2>8. QED BY <2>2, <2>5, <2>6, <2>7, StepKept
<1>4. ASSUME NEW q \in Request, DeleteAssetRow(q) PROVE AssetsInv' /\ Forward
  <2>1. saving[q].asset \in Asset /\ deletions[saving[q].asset] > 0
    BY <1>4 DEF DeleteAssetRow, AssetsInv, SaveInv, Asset
  <2>2. RowsInv' /\ Forward
    BY <1>4, <2>1, RowGoes DEF DeleteAssetRow
  <2>3. QED BY <1>4, <2>2, Answered DEF DeleteAssetRow
<1>5. QED BY <1>1, <1>2, <1>3, <1>4 DEF DeleteWorkflow, DeleteDataset

-----------------------------------------------------------------------------
LEMMA SchedulesInv ==
  ASSUME AssetsInv,
         \/ \E s \in Asset, e \in Asset \cup {NoAsset} : CreateSchedule(s, e)
         \/ \E c \in schedules :
              DeleteSchedule(c) \/ \E e \in Asset \cup {NoAsset} : UpdateSchedule(c, e)
  PROVE  AssetsInv' /\ Forward
<1>1. UNCHANGED <<assets, inserted, stored, saved, deletions, saving>>
  BY DEF CreateSchedule, DeleteSchedule, UpdateSchedule
<1>2. schedules' \subseteq (Suite \cap assets) \X ((Environment \cap assets) \cup {NoAsset})
  BY DEF CreateSchedule, DeleteSchedule, UpdateSchedule, AssetsInv, RowsInv, RowsTypeOK
<1>3. RowsInv'
  BY <1>1, <1>2 DEF AssetsInv, RowsInv, RowsTypeOK, VersionsAreKept, Published
<1>4. Forward
  BY <1>1, AssetBounds DEF AssetsInv, RowsInv, RowsTypeOK, Forward, Published
<1>5. QED BY <1>1, <1>3, <1>4, RowStepKept

LEMMA SavingInv ==
  ASSUME AssetsInv, NEW q \in Request,
         \/ \E a \in Asset :
              \/ ImportDataset(q, a)
              \/ CreateEnvironmentVersion(q, a) \/ SaveDraft(q, a)
              \/ CreateDatasetVersion(q, a)
              \/ \E ws \in SUBSET Workflow : CreateTestSuiteVersion(q, a, ws)
              \/ \E n \in 1..MaxVersions : CompileVersion(q, a, n)
         \/ FindAsset(q) \/ CheckMembers(q) \/ NumberVersion(q) \/ InsertAssetVersion(q)
         \/ StorePlan(q) \/ AbandonSave(q)
  PROVE  AssetsInv' /\ Forward
<1>1. CASE AbandonSave(q)
  BY <1>1, Still, Answered DEF AbandonSave
<1>2. ASSUME NEW a \in Asset,
             \/ CreateEnvironmentVersion(q, a) \/ SaveDraft(q, a) \/ CreateDatasetVersion(q, a)
             \/ \E ws \in SUBSET Workflow : CreateTestSuiteVersion(q, a, ws)
      PROVE  AssetsInv' /\ Forward
  BY <1>2, AskedInv DEF CreateEnvironmentVersion, SaveDraft, CreateDatasetVersion,
     CreateTestSuiteVersion
<1>3. QED
  BY <1>1, <1>2, ImportInv, CompiledInv, FoundInv, CheckedInv, NumberedInv, InsertionInv, PlanInv

\* Rows, versions and what requests know of them agree, whatever is saved,
\* published and deleted at the same time.
THEOREM AssetsInvariance == AssetsSpec => []AssetsInv
<1>1. AssetsInv /\ [AssetsNext]_assetVars => AssetsInv'
  <2>1. ASSUME AssetsInv, UNCHANGED assetVars PROVE AssetsInv'
    BY <2>1, Still, RowStepKept DEF assetVars
  <2>2. ASSUME AssetsInv, AssetsNext PROVE AssetsInv'
    BY <2>2, CreationInv, SavingInv, DeletionsInv, SchedulesInv DEF AssetsNext
  <2>3. QED BY <2>1, <2>2
<1>2. QED BY <1>1, AssetsInitInv, PTL DEF AssetsSpec

\* Every variable of the assets stays of its type.
THEOREM AssetsTypeCorrect == AssetsSpec => []AssetsTypeOK
<1>1. AssetsInv => AssetsTypeOK
  BY DEF AssetsInv, RowsInv, AssetsTypeOK
<1>2. QED BY <1>1, AssetsInvariance, PTL

\* No saved version is lost, overwritten or skipped by a concurrent save, an
\* environment has a version, and the members of a suite are published until
\* somebody deletes them (workflow, dataset, environment, test-suite services).
THEOREM VersionsAreKeptAlways == AssetsSpec => []VersionsAreKept
<1>1. AssetsInv => VersionsAreKept
  BY DEF AssetsInv, RowsInv
<1>2. QED BY <1>1, AssetsInvariance, PTL

\* No step takes back what was saved or published, nor inserts a row twice.
THEOREM NothingIsTakenBack == AssetsSpec => [][Forward]_assetVars
<1>1. AssetsInv /\ [AssetsNext]_assetVars => [Forward]_assetVars
  BY CreationInv, SavingInv, DeletionsInv, SchedulesInv DEF AssetsNext
<1>2. QED BY <1>1, AssetsInvariance, PTL DEF AssetsSpec
=============================================================================
