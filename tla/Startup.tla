------------------------------ MODULE Startup ------------------------------
(***************************************************************************)
(* What an instance of the control plane does before and just after it     *)
(* listens: main applies the schema migrations of its release under an     *)
(* advisory lock (db/db.ts), and the first request of a fresh deployment   *)
(* creates a workspace without being authenticated (modules/iam).  Several *)
(* instances, of releases that may differ, start, die and start again.     *)
(***************************************************************************)
EXTENDS Integers, FiniteSets

CONSTANTS
  Instance,   \* processes of the control plane
  Caller,     \* requests for POST /api/workspaces
  Release,    \* MIGRATIONS arrays that are deployed: version -> checksum
  Newest,     \* number of migrations of the longest of them
  None

\* Versions are numbered from 1, and no checksum is None.
ASSUME ReleasesAreLists ==
  /\ Newest \in Nat
  /\ \A r \in Release :
       \E n \in 0..Newest : DOMAIN r = 1..n /\ \A v \in 1..n : r[v] # None

ASSUME NoneIsNobody == None \notin Instance \cup Caller

VARIABLES
  pc,         \* where main is in each instance
  release,    \* the MIGRATIONS array it was started with
  lock,       \* holder of sketchtest-schema-migrations
  seen,       \* its copy of schema_migrations
  next,       \* the migration it is at
  record,     \* schema_migrations: version -> checksum
  effects,    \* how often the statements of a version took effect
  asked,      \* where each request for a workspace is
  server,     \* the instance that serves it
  bootstrap,  \* holder of sketchtest-workspace-bootstrap
  workspaces  \* rows of workspaces: who made them, and how

migrationVars == <<pc, release, lock, seen, next, record, effects>>
requestVars == <<asked, server, bootstrap, workspaces>>
vars == <<migrationVars, requestVars>>

Version == 1..Newest
Checksum == UNION {{r[v] : v \in DOMAIN r} : r \in Release}
Records == [Version -> Checksum \cup {None}]
Anonymous == {w \in workspaces : w.anonymous}

TypeOK ==
  /\ pc \in [Instance ->
       {"down", "waiting", "reading", "migrating", "applied", "listening"}]
  /\ release \in [Instance -> Release]
  /\ lock \in Instance \cup {None}
  /\ seen \in [Instance -> Records]
  /\ next \in [Instance -> 1..(Newest + 1)]
  /\ record \in Records
  /\ effects \in [Version -> Nat]
  /\ asked \in [Caller -> {"new", "allowed", "locked", "absent", "answered"}]
  /\ server \in [Caller -> Instance \cup {None}]
  /\ bootstrap \in Caller \cup {None}
  /\ workspaces \subseteq [by : Caller, anonymous : BOOLEAN]

Init ==
  /\ pc = [i \in Instance |-> "down"]
  /\ release \in [Instance -> Release]
  /\ lock = None
  /\ seen = [i \in Instance |-> [v \in Version |-> None]]
  /\ next = [i \in Instance |-> 1]
  /\ record = [v \in Version |-> None]
  /\ effects = [v \in Version |-> 0]
  /\ asked = [c \in Caller |-> "new"]
  /\ server = [c \in Caller |-> None]
  /\ bootstrap = None
  /\ workspaces = {}

(* Migrations.                                                             *)

\* A process of some release is started and asks for the advisory lock.
Start(i, r) ==
  /\ pc[i] = "down"
  /\ pc' = [pc EXCEPT ![i] = "waiting"]
  /\ release' = [release EXCEPT ![i] = r]
  /\ UNCHANGED <<lock, seen, next, record, effects, requestVars>>

\* pg_advisory_lock waits for the session that holds it.
LockSchema(i) ==
  /\ pc[i] = "waiting" /\ lock = None
  /\ lock' = i
  /\ pc' = [pc EXCEPT ![i] = "reading"]
  /\ UNCHANGED <<release, seen, next, record, effects, requestVars>>

\* The table is created if it is not there, and read once.
ReadApplied(i) ==
  /\ pc[i] = "reading"
  /\ seen' = [seen EXCEPT ![i] = record]
  /\ next' = [next EXCEPT ![i] = 1]
  /\ pc' = [pc EXCEPT ![i] = "migrating"]
  /\ UNCHANGED <<release, lock, record, effects, requestVars>>

\* A version that was recorded with this checksum is passed over.
SkipApplied(i) ==
  /\ pc[i] = "migrating" /\ next[i] \in DOMAIN release[i]
  /\ seen[i][next[i]] = release[i][next[i]]
  /\ next' = [next EXCEPT ![i] = @ + 1]
  /\ UNCHANGED <<pc, release, lock, seen, record, effects, requestVars>>

\* Recorded with another checksum: main throws and the process ends.
RefuseApplied(i) ==
  /\ pc[i] = "migrating" /\ next[i] \in DOMAIN release[i]
  /\ seen[i][next[i]] \notin {None, release[i][next[i]]}
  /\ pc' = [pc EXCEPT ![i] = "down"]
  /\ lock' = IF lock = i THEN None ELSE lock
  /\ UNCHANGED <<release, seen, next, record, effects, requestVars>>

\* BEGIN and the statements of the version, which nobody else sees yet.
Up(i) ==
  /\ pc[i] = "migrating" /\ next[i] \in DOMAIN release[i]
  /\ seen[i][next[i]] = None
  /\ pc' = [pc EXCEPT ![i] = "applied"]
  /\ UNCHANGED <<release, lock, seen, next, record, effects, requestVars>>

\* INSERT of the record, whose version is the primary key, and COMMIT.
CommitVersion(i) ==
  /\ pc[i] = "applied" /\ record[next[i]] = None
  /\ record' = [record EXCEPT ![next[i]] = release[i][next[i]]]
  /\ effects' = [effects EXCEPT ![next[i]] = @ + 1]
  /\ next' = [next EXCEPT ![i] = @ + 1]
  /\ pc' = [pc EXCEPT ![i] = "migrating"]
  /\ UNCHANGED <<release, lock, seen, requestVars>>

\* The lock is given back, and the server starts to listen.
Listen(i) ==
  /\ pc[i] = "migrating" /\ next[i] \notin DOMAIN release[i]
  /\ pc' = [pc EXCEPT ![i] = "listening"]
  /\ lock' = IF lock = i THEN None ELSE lock
  /\ UNCHANGED <<release, seen, next, record, effects, requestVars>>

\* A statement fails or the process dies: PostgreSQL rolls back what was not
\* committed and releases the locks of the sessions, requests included.
Stop(i) ==
  /\ pc[i] # "down"
  /\ pc' = [pc EXCEPT ![i] = "down"]
  /\ lock' = IF lock = i THEN None ELSE lock
  /\ asked' = [c \in Caller |->
       IF server[c] = i THEN "answered" ELSE asked[c]]
  /\ server' = [c \in Caller |-> IF server[c] = i THEN None ELSE server[c]]
  /\ bootstrap' = IF bootstrap # None /\ server[bootstrap] = i
                  THEN None ELSE bootstrap
  /\ UNCHANGED <<release, seen, next, record, effects, workspaces>>

(* The first workspace.                                                    *)

\* authorizeControlPlaneRequest lets a request without credentials pass while
\* there is no workspace, and sends it away otherwise.
Ask(c, i) ==
  /\ asked[c] = "new" /\ pc[i] = "listening"
  /\ IF workspaces = {}
     THEN /\ asked' = [asked EXCEPT ![c] = "allowed"]
          /\ server' = [server EXCEPT ![c] = i]
     ELSE /\ asked' = [asked EXCEPT ![c] = "answered"]
          /\ UNCHANGED server
  /\ UNCHANGED <<migrationVars, bootstrap, workspaces>>

\* BEGIN and pg_advisory_xact_lock, held until the transaction ends.
LockBootstrap(c) ==
  /\ asked[c] = "allowed" /\ bootstrap = None
  /\ bootstrap' = c
  /\ asked' = [asked EXCEPT ![c] = "locked"]
  /\ UNCHANGED <<migrationVars, server, workspaces>>

\* Mutant of SeeWorkspaces: the middleware's answer is relied upon.
SeeWorkspacesStale(c) ==
  /\ asked[c] = "locked"
  /\ asked' = [asked EXCEPT ![c] = "absent"]
  /\ UNCHANGED <<migrationVars, server, bootstrap, workspaces>>

\* Under the lock it is asked once more; the second request rolls back.
SeeWorkspaces(c) ==
  /\ asked[c] = "locked"
  /\ IF workspaces = {}
     THEN /\ asked' = [asked EXCEPT ![c] = "absent"]
          /\ UNCHANGED <<server, bootstrap>>
     ELSE /\ asked' = [asked EXCEPT ![c] = "answered"]
          /\ server' = [server EXCEPT ![c] = None]
          /\ bootstrap' = None
  /\ UNCHANGED <<migrationVars, workspaces>>

\* Workspace and owner are inserted, COMMIT.
CommitWorkspace(c) ==
  /\ asked[c] = "absent"
  /\ workspaces' = workspaces \cup {[by |-> c, anonymous |-> TRUE]}
  /\ asked' = [asked EXCEPT ![c] = "answered"]
  /\ server' = [server EXCEPT ![c] = None]
  /\ bootstrap' = None
  /\ UNCHANGED migrationVars

\* An owner creates another workspace: authenticated, and without the lock.
CreateWorkspace(c, i) ==
  /\ asked[c] = "new" /\ pc[i] = "listening" /\ workspaces # {}
  /\ workspaces' = workspaces \cup {[by |-> c, anonymous |-> FALSE]}
  /\ asked' = [asked EXCEPT ![c] = "answered"]
  /\ UNCHANGED <<migrationVars, server, bootstrap>>

Next ==
  \/ \E i \in Instance :
       \/ \E r \in Release : Start(i, r)
       \/ LockSchema(i) \/ ReadApplied(i)
       \/ SkipApplied(i) \/ RefuseApplied(i)
       \/ Up(i) \/ CommitVersion(i) \/ Listen(i)
       \/ Stop(i)
       \/ \E c \in Caller : Ask(c, i) \/ CreateWorkspace(c, i)
  \/ \E c \in Caller :
       LockBootstrap(c) \/ SeeWorkspaces(c) \/ CommitWorkspace(c)

Spec == Init /\ [][Next]_vars

\* Whatever dies in between, the statements of a version take effect exactly
\* when it is recorded, once and after its predecessors; two instances never
\* migrate at once, or only for one of them to fail; and an instance that
\* listens does so on the schema of its own release, whichever release
\* migrated it (runMigrations).
MigratedOnce ==
  /\ \A v \in Version : effects[v] = IF record[v] = None THEN 0 ELSE 1
  /\ \A v, w \in Version : v < w /\ record[w] # None => record[v] # None
  /\ \A i \in Instance : pc[i] = "applied" =>
       record[next[i]] = None /\ \A j \in Instance : pc[j] = "applied" => i = j
  /\ \A i \in Instance : pc[i] = "listening" =>
       \A v \in DOMAIN release[i] : record[v] = release[i][v]

\* Of all requests that were let in without credentials one makes a workspace,
\* and every other workspace is made by somebody who was authenticated
\* (createWorkspace, allowInitialWorkspaceBootstrap).
OneFirstWorkspace ==
  /\ \A v, w \in Anonymous : v = w
  /\ workspaces # {} => Anonymous # {}

\* A deployment is set up once, however many instances start and callers race.
StartsOnce == MigratedOnce /\ OneFirstWorkspace
=============================================================================
