------------------------------- MODULE Access -------------------------------
(***************************************************************************)
(* Users, their tokens and the boundary every request crosses              *)
(* (modules/iam, shared/jwt.ts).  A request is judged in three statements  *)
(* that others interleave with: the row of its user, the row it names and  *)
(* then the statement of its handler.                                      *)
(*                                                                         *)
(* A user is <<workspace, email>>, which is unique; a token is [user, role] *)
(* with the role of the moment it was signed.  A service account is a row  *)
(* of its workspace whose token no route accepts; the other rows stand for *)
(* the tables of the ownership rules.                                      *)
(***************************************************************************)
EXTENDS Integers, FiniteSets

CONSTANTS
  Workspace, Email,
  Account,             \* service accounts that may be created
  OwnedRow,            \* rows of the other tables
  Client,              \* the senders of requests
  GivenRoles,          \* the roles that are given to users
  Guest, GuestWorkspace, \* the configured guest, Nobody when access is disabled
  FirstUsers, FirstRows, \* the users and the rows there are in the beginning
  MaxRequests,         \* bound: requests in all
  Nobody

User == Workspace \X Email

VARIABLES
  users,     \* the rows of users: [role, legacy], legacy an old password hash
  accounts,  \* the rows of service_accounts: [workspace, revoked]
  rows,      \* the other rows, each with its workspace
  tokens,    \* the tokens that are valid
  request,   \* per client, the request it waits for
  sent       \* how many requests were sent

accessVars == <<users, accounts, rows, tokens, request, sent>>

\* The first users and rows are of the tables, and the guest is a user or not.
ASSUME FirstRowsAreRows ==
  /\ DOMAIN FirstUsers \subseteq User
  /\ \A u \in DOMAIN FirstUsers :
       FirstUsers[u] \in [role : {"viewer", "editor", "maintainer", "owner"}, legacy : BOOLEAN]
  /\ DOMAIN FirstRows \subseteq OwnedRow
  /\ \A r \in DOMAIN FirstRows : FirstRows[r] \in Workspace
  /\ GivenRoles \subseteq {"viewer", "editor", "maintainer", "owner"} /\ GivenRoles # {}
  /\ Nobody \notin Workspace /\ Nobody \notin {"any", "users", "accounts", "rows"}
  /\ "any" \notin Workspace
  /\ MaxRequests \in Nat

RoleLevel == [viewer |-> 0, editor |-> 1, maintainer |-> 2, owner |-> 3]
Roles == DOMAIN RoleLevel

(* Routes: "table" says what the ownership rule of the route looks up.      *)

Route(method, area, table) == [method |-> method, area |-> area, table |-> table]

Routes ==
  [login |-> Route("POST", "auth", Nobody),
   guest |-> Route("POST", "auth", Nobody),
   addUser |-> Route("POST", "workspaces", Nobody),
   setRole |-> Route("PATCH", "users/role", "users"),
   me |-> Route("GET", "auth", Nobody),
   listUsers |-> Route("GET", "workspaces", Nobody),
   addAccount |-> Route("POST", "service-accounts", Nobody),
   revokeAccount |-> Route("POST", "service-accounts", "accounts"),
   removeRunner |-> Route("DELETE", "runners", "rows"),
   removeCase |-> Route("DELETE", "test-cases", "rows"),
   readCase |-> Route("GET", "test-cases", "rows")]

PublicRoutes == {"login", "guest"}
OwnerMutations == {"workspaces", "users/role", "service-accounts"}
MaintainerMutations ==
  {"environments", "environment-versions", "secrets", "policies", "schedules", "runners"}

MinimumRole(name) ==
  LET route == Routes[name] IN
  CASE route.method = "GET" -> "viewer"
    [] route.method # "GET" /\ route.area \in OwnerMutations -> "owner"
    [] route.method # "GET" /\ route.area \in MaintainerMutations -> "maintainer"
    [] OTHER -> "editor"

\* The workspaces that the path, the query and the body name.
CollectExplicitWorkspaceIds(r) ==
  r.named \cup (IF Routes[r.route].area = "workspaces" THEN {r.id[1]} ELSE {})

\* resourceWorkspaceId: "any" without a rule, Nobody when there is no such row.
ResourceWorkspaceId(name, id) ==
  CASE Routes[name].table = "users" -> IF id \in DOMAIN users THEN id[1] ELSE Nobody
    [] Routes[name].table = "accounts" ->
         IF id \in DOMAIN accounts THEN accounts[id].workspace ELSE Nobody
    [] Routes[name].table = "rows" -> IF id \in DOMAIN rows THEN rows[id] ELSE Nobody
    [] OTHER -> "any"

NoRequest == [phase |-> "idle", route |-> Nobody, user |-> Nobody, id |-> Nobody,
              named |-> {}, given |-> Nobody, role |-> Nobody, held |-> {}]

RequestState ==
  [phase : {"idle", "verified", "arrived", "known", "authorized", "served"},
   route : DOMAIN Routes \cup {Nobody}, user : User \cup {Nobody},
   id : User \cup Account \cup OwnedRow \cup {Nobody}, named : SUBSET Workspace,
   given : Roles \cup {Nobody}, role : Roles \cup {Nobody}, held : SUBSET (Roles \cup {Nobody})]

AccessTypeOK ==
  /\ DOMAIN users \subseteq User
  /\ \A u \in DOMAIN users : users[u] \in [role : Roles, legacy : BOOLEAN]
  /\ DOMAIN accounts \subseteq Account
  /\ \A a \in DOMAIN accounts : accounts[a] \in [workspace : Workspace, revoked : BOOLEAN]
  /\ DOMAIN rows \subseteq DOMAIN FirstRows
  /\ \A r \in DOMAIN rows : rows[r] = FirstRows[r]
  /\ tokens \subseteq [user : DOMAIN users, role : Roles]
  /\ request \in [Client -> RequestState] /\ sent \in Nat

Refuse(c) == request' = [request EXCEPT ![c] = NoRequest]

\* signJwt and verifyJwt: a token says what it was signed for until it expires.
SignJwt(user, role) == tokens' = tokens \cup {[user |-> user, role |-> role]}
VerifyJwt(token) == token \in tokens

\* What a route takes as its id: a user stands for its workspace too.
IdsOf(name) ==
  CASE Routes[name].table = "rows" -> OwnedRow
    [] Routes[name].area = "service-accounts" -> Account
    [] OTHER -> User

\* A reader may name a workspace, the body of an account should.
NamedBy(name) ==
  IF name \in {"readCase", "addAccount"} THEN {{}} \cup {{w} : w \in Workspace} ELSE {{}}

RolesGivenBy(name) ==
  IF name \in {"addUser", "setRole"} THEN GivenRoles ELSE {CHOOSE r \in GivenRoles : TRUE}

\* A request is sent; a token that is missing or not valid is refused here.
Send(c) ==
  /\ request[c].phase = "idle" /\ sent < MaxRequests
  /\ sent' = sent + 1
  /\ \E token \in tokens, name \in DOMAIN Routes \ PublicRoutes :
       \E id \in IdsOf(name), named \in NamedBy(name), given \in RolesGivenBy(name) :
         /\ VerifyJwt(token)
         /\ request' = [request EXCEPT ![c] =
              [phase |-> "arrived", route |-> name, user |-> token.user, id |-> id,
               named |-> named, given |-> given, role |-> token.role,
               held |-> {users[token.user].role}]]
  /\ UNCHANGED <<users, accounts, rows, tokens>>

\* Mutant of AuthenticateUser: the role is the one of the token.
AuthenticateByToken(c) ==
  /\ request[c].phase = "arrived"
  /\ IF request[c].user \in DOMAIN users
     THEN request' = [request EXCEPT ![c].phase = "known"]
     ELSE Refuse(c)
  /\ UNCHANGED <<users, accounts, rows, tokens, sent>>

\* The row of the user is read: its role takes the place of the token's.
AuthenticateUser(c) ==
  /\ request[c].phase = "arrived"
  /\ IF request[c].user \in DOMAIN users
     THEN request' = [request EXCEPT ![c].phase = "known",
                                     ![c].role = users[request[c].user].role]
     ELSE Refuse(c)
  /\ UNCHANGED <<users, accounts, rows, tokens, sent>>

\* The role and the named workspaces are compared, then the row is looked up.
Authorize(c) ==
  LET r == request[c] owned == ResourceWorkspaceId(r.route, r.id) IN
  /\ r.phase = "known"
  /\ IF /\ RoleLevel[r.role] >= RoleLevel[MinimumRole(r.route)]
        /\ CollectExplicitWorkspaceIds(r) \subseteq {r.user[1]}
        /\ owned \in {"any", r.user[1]}
     THEN request' = [request EXCEPT ![c].phase = "authorized"]
     ELSE Refuse(c)
  /\ UNCHANGED <<users, accounts, rows, tokens, sent>>

\* Requests under way are told what roles their user had meanwhile.
Served(c, user, role) ==
  request' = [x \in Client |->
    IF x = c THEN [request[c] EXCEPT !.phase = "served"]
    ELSE IF request[x].user = user /\ request[x].phase \in {"arrived", "known", "authorized"}
    THEN [request[x] EXCEPT !.held = @ \cup {role}] ELSE request[x]]

\* The statements of the service, each of which is atomic.
WithRow(table, id, row) ==
  [x \in DOMAIN table \cup {id} |-> IF x = id THEN row ELSE table[x]]

CreateUser(id, role) == users' = WithRow(users, id, [role |-> role, legacy |-> FALSE])
UpdateUserRole(id, role) == users' = [users EXCEPT ![id].role = role]
CreateServiceAccount(id, workspace) ==
  accounts' = WithRow(accounts, id, [workspace |-> workspace, revoked |-> FALSE])
RevokeServiceAccount(id) == accounts' = [accounts EXCEPT ![id].revoked = TRUE]
UpgradePasswordHash(id) == users' = [users EXCEPT ![id].legacy = FALSE]

\* An email that the workspace has already is a conflict.
AddUser(c) ==
  LET r == request[c] IN
  /\ r.phase = "authorized" /\ r.route = "addUser"
  /\ IF r.id \in DOMAIN users
     THEN Refuse(c) /\ UNCHANGED users
     ELSE /\ CreateUser(r.id, r.given)
          /\ Served(c, Nobody, Nobody)
  /\ UNCHANGED <<accounts, rows, tokens, sent>>

SetRole(c) ==
  LET r == request[c] IN
  /\ r.phase = "authorized" /\ r.route = "setRole"
  /\ UpdateUserRole(r.id, r.given)
  /\ Served(c, r.id, r.given)
  /\ UNCHANGED <<accounts, rows, tokens, sent>>

\* Without a workspace the foreign key refuses the row.  Its id is a new one.
AddAccount(c) ==
  LET r == request[c] IN
  /\ r.phase = "authorized" /\ r.route = "addAccount"
  /\ IF r.named = {} \/ r.id \in DOMAIN accounts
     THEN Refuse(c) /\ UNCHANGED accounts
     ELSE /\ \E workspace \in r.named : CreateServiceAccount(r.id, workspace)
          /\ Served(c, Nobody, Nobody)
  /\ UNCHANGED <<users, rows, tokens, sent>>

RevokeAccount(c) ==
  /\ request[c].phase = "authorized" /\ request[c].route = "revokeAccount"
  /\ RevokeServiceAccount(request[c].id)
  /\ Served(c, Nobody, Nobody)
  /\ UNCHANGED <<users, rows, tokens, sent>>

\* The caller is told who it is, and a workspace's users are listed.
Me(c) ==
  /\ request[c].phase = "authorized" /\ request[c].route = "me"
  /\ Served(c, Nobody, Nobody)
  /\ UNCHANGED <<users, accounts, rows, tokens, sent>>

ListUsers(c) ==
  /\ request[c].phase = "authorized" /\ request[c].route = "listUsers"
  /\ Served(c, Nobody, Nobody)
  /\ UNCHANGED <<users, accounts, rows, tokens, sent>>

\* The handlers of the other tables, as far as rows go.
RemoveRow(c) ==
  LET r == request[c] IN
  /\ r.phase = "authorized" /\ r.route \in {"removeRunner", "removeCase"}
  /\ rows' = [x \in DOMAIN rows \ {r.id} |-> rows[x]]
  /\ Served(c, Nobody, Nobody)
  /\ UNCHANGED <<users, accounts, tokens, sent>>

ReadRow(c) ==
  /\ request[c].phase = "authorized" /\ request[c].route = "readCase"
  /\ Served(c, Nobody, Nobody)
  /\ UNCHANGED <<users, accounts, rows, tokens, sent>>

\* The answer is received.
Receive(c) ==
  /\ request[c].phase = "served"
  /\ Refuse(c)
  /\ UNCHANGED <<users, accounts, rows, tokens, sent>>

\* The user of an email of a workspace: emails are unique only within one.
GetUserByEmail(workspace, email) == {<<workspace, email>>} \cap DOMAIN users

\* verifyPassword succeeds: what is read here is signed later.
Login(c) ==
  /\ request[c].phase = "idle" /\ sent < MaxRequests
  /\ sent' = sent + 1
  /\ \E w \in Workspace, email \in Email : \E u \in GetUserByEmail(w, email) :
       request' = [request EXCEPT ![c] =
         [NoRequest EXCEPT !.phase = "verified", !.route = "login", !.user = u,
                      !.role = users[u].role]]
  /\ UNCHANGED <<users, accounts, rows, tokens>>

\* An old password hash is replaced at a login; the role signed was read before.
Sign(c) ==
  LET r == request[c] IN
  /\ r.phase = "verified"
  /\ SignJwt(r.user, r.role)
  /\ IF r.route = "login" THEN UpgradePasswordHash(r.user) ELSE UNCHANGED users
  /\ Refuse(c)
  /\ UNCHANGED <<accounts, rows, sent>>

\* The guest gets a token like everyone else, when it is a user of the
\* configured workspace.
EnterAsGuest(c) ==
  /\ request[c].phase = "idle" /\ sent < MaxRequests
  /\ Guest \in DOMAIN users /\ Guest[1] = GuestWorkspace
  /\ sent' = sent + 1
  /\ request' = [request EXCEPT ![c] =
       [NoRequest EXCEPT !.phase = "verified", !.route = "guest", !.user = Guest,
                    !.role = users[Guest].role]]
  /\ UNCHANGED <<users, accounts, rows, tokens>>

\* A token lives for a day.
Expire ==
  /\ \E token \in tokens : tokens' = tokens \ {token}
  /\ UNCHANGED <<users, accounts, rows, request, sent>>

AccessInit ==
  /\ users = FirstUsers /\ accounts = <<>> /\ rows = FirstRows /\ tokens = {}
  /\ request = [c \in Client |-> NoRequest]
  /\ sent = 0

AccessNext ==
  \/ \E c \in Client :
       \/ Send(c) \/ AuthenticateUser(c) \/ Authorize(c)
       \/ AddUser(c) \/ SetRole(c) \/ AddAccount(c) \/ RevokeAccount(c)
       \/ Me(c) \/ ListUsers(c) \/ RemoveRow(c) \/ ReadRow(c) \/ Receive(c)
       \/ Login(c) \/ Sign(c) \/ EnterAsGuest(c)
  \/ Expire

AccessSpec == AccessInit /\ [][AccessNext]_accessVars

\* Where the row, the account or the user of a request is.
WorkspaceOfRequest(r) ==
  CASE Routes[r.route].table = "rows" -> FirstRows[r.id]
    [] Routes[r.route].area = "service-accounts" -> accounts[r.id].workspace
    [] OTHER -> r.id[1]

(* A request is served for a role that its user had while it was under way, *)
(* whatever its token says, and for a row, a user or a service account of its *)
(* user's workspace: a token signed before a change of roles is judged by the *)
(* new role.                                                               *)
RoleIsCurrent ==
  \A c \in Client :
    LET r == request[c] IN
    r.phase = "served" =>
      /\ \E role \in r.held : RoleLevel[role] >= RoleLevel[MinimumRole(r.route)]
      /\ r.route # "me" => WorkspaceOfRequest(r) = r.user[1]
=============================================================================
