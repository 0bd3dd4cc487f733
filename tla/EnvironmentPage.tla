--------------------------- MODULE EnvironmentPage ---------------------------
(***************************************************************************)
(* The page of environments in a browser (apps/web, environmentStore and   *)
(* pages/Environments) on the environments of the server: a list that is   *)
(* fetched in two requests, a dialog that creates an environment or edits  *)
(* one by saving a new version of it, and other people who save versions   *)
(* meanwhile.  Requests fail before or after the server has acted.         *)
(*                                                                         *)
(* A version is [url, variables, labels, approval]: "refers" stands for    *)
(* variables with a reference to a secret, "masked" for the placeholder    *)
(* that is shown for it.  A dialog shows url and variables only.           *)
(***************************************************************************)
EXTENDS Integers, SequencesExt

CONSTANTS
  Env,          \* ids of environments
  FirstVersion, \* what the environment that exists has, beside version 1
  Elsewhere,    \* versions that other people save
  Typed,        \* [url, variables]: what is typed into the dialog
  MaxVersions,  \* bound: versions of all environments
  None

VARIABLES
  server,  \* environment -> its versions, in their order
  page,    \* the store: [environments, versions, before], before the rollback
           \* of a deletion under way
  fetch,   \* fetchFromServer under way: [at, found]
  dialog,  \* [open, mode, environment, form, base, created]
  call     \* handleSave under way: [at, id, version, base, mode]

pageVars == <<server, page, fetch, dialog, call>>

First == [url |-> "", variables |-> "none", labels |-> "any", approval |-> FALSE]
Form(version) == [url |-> version.url, variables |-> version.variables]

-----------------------------------------------------------------------------
(* The server.                                                             *)

\* resolveSecretRefs.
Resolved(version) ==
  [version EXCEPT !.variables = IF @ = "refers" THEN "masked" ELSE @]

\* Mutant of ListVersions: as the service's header has it.
ListVersionsResolved(e) == [n \in DOMAIN server[e] |-> Resolved(server[e][n])]

\* listEnvironmentVersions.
ListVersions(e) == server[e]

\* createEnvironment: with version 1, in one transaction.
CreateEnvironment(e) ==
  /\ e \notin DOMAIN server
  /\ server' = [f \in DOMAIN server \cup {e} |-> IF f = e THEN <<First>> ELSE server[f]]

\* createEnvironmentVersion.
CreateVersion(e, version) ==
  /\ e \in DOMAIN server
  /\ server' = [server EXCEPT ![e] = Append(@, version)]

Stored == Cardinality(UNION {{e} \X DOMAIN server[e] : e \in DOMAIN server})

SaveElsewhere(e, version) ==
  /\ e \in DOMAIN server /\ Stored < MaxVersions
  /\ CreateVersion(e, version)
  /\ UNCHANGED <<page, fetch, dialog, call>>

-----------------------------------------------------------------------------
(* The list.                                                               *)

\* versions[environment.id]?.[0]: the newest that the page knows.
Latest(shown, e) ==
  IF e \in DOMAIN shown.versions THEN shown.versions[e][Len(shown.versions[e])] ELSE First

\* The effect of the dialog, on opening and closing: the form is filled again,
\* and no creation is continued.
Refilled(d, shown) ==
  LET latest == IF d.environment = None THEN First ELSE Latest(shown, d.environment)
  IN  [d EXCEPT !.form = Form(latest), !.base = latest, !.created = None]

\* Mutant of RefilledFromList: the effect does not depend on the versions.
RefilledByHand(d, shown) == d

\* The same with every new list, whatever was typed.
RefilledFromList(d, shown) == Refilled(d, shown)

Idle == [at |-> "none", found |-> {}]
NoCall == [at |-> "none", id |-> None, mode |-> "create", base |-> First, version |-> First]

\* What a closed dialog holds is filled again when it is opened.
Closed == [open |-> FALSE, mode |-> "create", environment |-> None,
           form |-> Form(First), base |-> First, created |-> None]

\* The page is opened, or another try is made of a fetch that failed: behind
\* no dialog.  Bound: not while a closed dialog still saves.
FetchFromServer ==
  /\ ~dialog.open /\ fetch.at = "none" /\ call.at = "none"
  /\ fetch' = [at |-> "listing", found |-> {}]
  /\ UNCHANGED <<server, page, dialog, call>>

ListEnvironments ==
  /\ fetch.at = "listing"
  /\ fetch' = [at |-> "versions", found |-> DOMAIN server]
  /\ UNCHANGED <<server, page, dialog, call>>

\* The versions of all that were listed have arrived.
Fetched ==
  /\ fetch.at = "versions"
  /\ page' = [page EXCEPT !.environments = fetch.found,
                           !.versions = [e \in fetch.found |-> ListVersions(e)]]
  /\ dialog' = IF dialog.open /\ call.at # "refresh" THEN RefilledFromList(dialog, page') ELSE Closed
  /\ fetch' = Idle
  /\ call' = IF call.at = "refresh" THEN NoCall ELSE call
  /\ UNCHANGED server

\* The error is kept in the store; the dialog that waits for it closes.
FetchFails ==
  /\ fetch.at # "none"
  /\ fetch' = Idle
  /\ IF call.at = "refresh"
     THEN dialog' = Closed /\ call' = NoCall
     ELSE UNCHANGED <<dialog, call>>
  /\ UNCHANGED <<server, page>>

\* deleteEnvironment: the card is taken away at once.
DeleteEnvironment(e) ==
  /\ ~dialog.open /\ page.before = None /\ e \in page.environments
  /\ page' = [page EXCEPT !.before = page.environments, !.environments = @ \ {e}]
  /\ UNCHANGED <<server, fetch, dialog, call>>

\* Version 1 refers to the row: the server refuses, and all the cards of that
\* moment come back.
DeleteRefused ==
  /\ page.before # None
  /\ page' = [page EXCEPT !.before = None, !.environments = page.before]
  /\ UNCHANGED <<server, fetch, dialog, call>>

-----------------------------------------------------------------------------
(* The dialog.                                                             *)

OpenDialog(mode, e) ==
  /\ ~dialog.open
  /\ (mode = "edit") = (e # None)
  /\ dialog' = Refilled([Closed EXCEPT !.open = TRUE, !.mode = mode, !.environment = e], page)
  /\ UNCHANGED <<server, page, fetch, call>>

\* Beside the dialog, also while it saves.
CloseDialog ==
  /\ dialog.open
  /\ dialog' = Closed
  /\ UNCHANGED <<server, page, fetch, call>>

Type(typed) ==
  /\ dialog.open /\ dialog.form # typed
  /\ dialog' = [dialog EXCEPT !.form = typed]
  /\ UNCHANGED <<server, page, fetch, call>>

\* handleSave, of a valid form: what it sends is fixed here; an environment
\* that a failed save has created is used again.
HandleSave ==
  /\ dialog.open /\ call.at = "none"
  /\ dialog.form.url # ""
  /\ LET id == IF dialog.mode = "edit" THEN dialog.environment ELSE dialog.created
         previous == IF id = None THEN First ELSE Latest(page, id)
     IN  call' = [at |-> IF id = None THEN "create"
                         ELSE IF dialog.mode = "edit" THEN "update" ELSE "version",
                  id |-> id, mode |-> dialog.mode, base |-> dialog.base,
                  version |-> [previous EXCEPT !.url = dialog.form.url,
                                               !.variables = dialog.form.variables]]
  /\ UNCHANGED <<server, page, fetch, dialog>>

\* createEnvironment of the store: the card is added at once.
Created(e) ==
  /\ call.at = "create"
  /\ CreateEnvironment(e)
  /\ \/ /\ page' = [page EXCEPT !.environments = @ \cup {e}]
        /\ dialog' = [dialog EXCEPT !.created = IF dialog.open THEN e ELSE None]
        /\ call' = [call EXCEPT !.at = "version", !.id = e]
     \/ /\ call' = NoCall
        /\ UNCHANGED <<page, dialog>>
  /\ UNCHANGED fetch

\* updateEnvironment: name and description, which no property tells apart.
Updated ==
  /\ call.at = "update"
  /\ call' = [call EXCEPT !.at = "version"]
  /\ UNCHANGED <<server, page, fetch, dialog>>

\* The version is stored, and the list fetched, or the answer is lost.  Bound:
\* one list is fetched at a time.
VersionCreated ==
  /\ fetch.at = "none"
  /\ call.at = "version" /\ Stored < MaxVersions
  /\ CreateVersion(call.id, call.version)
  /\ \/ /\ fetch' = [at |-> "listing", found |-> {}]
        /\ call' = [call EXCEPT !.at = "refresh"]
     \/ /\ call' = NoCall
        /\ UNCHANGED fetch
  /\ UNCHANGED <<page, dialog>>

\* A request that the server does not act on: the dialog says so.
SaveFails ==
  /\ call.at \in {"create", "update", "version"}
  /\ call' = NoCall
  /\ UNCHANGED <<server, page, fetch, dialog>>

-----------------------------------------------------------------------------
Init ==
  /\ server \in [{CHOOSE e \in Env : TRUE} -> {<<First, FirstVersion>>}]
  /\ page = [environments |-> {}, versions |-> <<>>, before |-> None]
  /\ fetch = [at |-> "listing", found |-> {}]
  /\ dialog = Closed /\ call = NoCall

Next ==
  \/ \E e \in Env :
       \/ Created(e) \/ DeleteEnvironment(e)
       \/ \E version \in Elsewhere : SaveElsewhere(e, version)
  \/ DeleteRefused
  \/ FetchFromServer \/ ListEnvironments \/ Fetched \/ FetchFails
  \/ OpenDialog("create", None) \/ (\E e \in page.environments : OpenDialog("edit", e))
  \/ CloseDialog \/ (\E typed \in Typed : Type(typed)) \/ HandleSave
  \/ Updated \/ VersionCreated \/ SaveFails

Spec == Init /\ [][Next]_pageVars

-----------------------------------------------------------------------------
\* What is shown is on the server: every card, and the versions of each in
\* their order, up to those saved since (fetchFromServer, createEnvironment).
PageIsTrue ==
  /\ page.environments \subseteq DOMAIN server
  /\ \A e \in DOMAIN page.versions :
       e \in DOMAIN server /\ IsPrefix(page.versions[e], server[e])

(* A version that is saved from an edit is the version the form was filled  *)
(* from, its labels and its approval, with what was typed: never a mixture  *)
(* of an older form and the labels of a newer version, although lists       *)
(* arrive while the dialog is open and others save.  And a placeholder is   *)
(* never stored in place of a reference to a secret (EnvironmentDialog).    *)
SavedIsShown ==
  /\ call.at # "none" /\ call.mode = "edit" =>
       call.version.labels = call.base.labels /\ call.version.approval = call.base.approval
  /\ \A e \in DOMAIN server, n \in 1..MaxVersions :
       n \in DOMAIN server[e] => server[e][n].variables # "masked"

PageIsFaithful == PageIsTrue /\ SavedIsShown
=============================================================================
