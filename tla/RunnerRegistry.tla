--------------------------- MODULE RunnerRegistry ---------------------------
(***************************************************************************)
(* The registry of runners and the secrets that runners are given          *)
(* (modules/runner-registry, the secrets of modules/environment,           *)
(* modules/audit).  No handler uses a transaction: each of its statements  *)
(* commits on its own, others run between them, and the process may stop   *)
(* after any of them.  The rows of tokens and heartbeats refer to their    *)
(* runner; the deletion of a runner cascades to its tokens only.           *)
(***************************************************************************)
EXTENDS Integers, FiniteSets

CONSTANTS
  Runner, Secret,
  Handler,           \* requests that the instances handle at one time
  WorkspaceOf,       \* the workspace of every runner and secret
  MaxWrites,         \* bound: values that are written to secrets
  NoItem

VARIABLES
  runners,    \* the rows, each with its status
  drawn,       \* the ids that were drawn
  runnerTokens,     \* the runners that have a token
  beats,      \* the runners that have heartbeats
  secrets,    \* the rows, each with the number of its value
  writes,     \* how many values were written
  audited,    \* the handlers whose request is in the audit log
  op,         \* per handler, the request it is in
  gone        \* the runners whose deletion was answered

registryVars == <<runners, drawn, runnerTokens, beats, secrets, writes, audited, op, gone>>
runnerVars == <<runners, drawn, runnerTokens, beats, gone>>
secretVars == <<secrets, writes, audited>>

NoOp == [at |-> "idle", runner |-> NoItem, secret |-> NoItem, value |-> NoItem, seen |-> {}]

Operation ==
  [at : {"idle", "registered", "verified", "online", "deleting", "tokens deleted",
         "beats deleted", "asked", "decrypted", "sent"},
   runner : Runner \cup {NoItem}, secret : Secret \cup {NoItem},
   value : Nat \cup {NoItem}, seen : SUBSET Nat]

RegistryTypeOK ==
  /\ drawn \subseteq Runner /\ DOMAIN runners \subseteq drawn
  /\ \A r \in DOMAIN runners : runners[r] \in {"online", "offline", "draining"}
  /\ runnerTokens \subseteq drawn /\ beats \subseteq drawn /\ gone \subseteq drawn
  /\ writes \in Nat /\ DOMAIN secrets \subseteq Secret
  /\ \A s \in DOMAIN secrets : secrets[s] \in 1..writes
  /\ audited \subseteq Handler
  /\ op \in [Handler -> Operation]

To(h, at) == op' = [op EXCEPT ![h].at = at]
Reply(h) == op' = [op EXCEPT ![h] = NoOp]

\* INSERT of a row that is not there.
Inserting(table, id, row) ==
  [x \in DOMAIN table \cup {id} |-> IF x = id THEN row ELSE table[x]]

\* Inserting a row that refers to a runner fails without it.
RunnerExists(r) == r \in DOMAIN runners

(* Registration: the row and then its token.                                *)

RegisterRunner(h) ==
  /\ op[h].at = "idle"
  /\ \E r \in Runner \ drawn :
       /\ drawn' = drawn \cup {r}
       /\ runners' = Inserting(runners, r, "offline")
       /\ op' = [op EXCEPT ![h].at = "registered", ![h].runner = r]
  /\ UNCHANGED <<runnerTokens, beats, gone, secretVars>>

StoreToken(h) ==
  /\ op[h].at = "registered"
  /\ runnerTokens' = IF RunnerExists(op[h].runner) THEN runnerTokens \cup {op[h].runner} ELSE runnerTokens
  /\ Reply(h)
  /\ UNCHANGED <<runners, drawn, beats, gone, secretVars>>

(* Heartbeats: the token is verified, the status set, the heartbeat stored. *)

\* The token was given out when it was stored; it is known for ever.
VerifyRunnerToken(r) == r \in runnerTokens

Heartbeat(h) ==
  /\ op[h].at = "idle"
  /\ \E r \in drawn :
       /\ VerifyRunnerToken(r)
       /\ op' = [op EXCEPT ![h].at = "verified", ![h].runner = r]
  /\ UNCHANGED <<runnerVars, secretVars>>

RecordHeartbeat(h) ==
  /\ op[h].at = "verified"
  /\ runners' = [r \in DOMAIN runners |-> IF r = op[h].runner THEN "online" ELSE runners[r]]
  /\ To(h, "online")
  /\ UNCHANGED <<drawn, runnerTokens, beats, gone, secretVars>>

StoreHeartbeat(h) ==
  /\ op[h].at = "online"
  /\ beats' = IF RunnerExists(op[h].runner) THEN beats \cup {op[h].runner} ELSE beats
  /\ Reply(h)
  /\ UNCHANGED <<runners, drawn, runnerTokens, gone, secretVars>>

UpdateRunnerStatus ==
  /\ \E r \in DOMAIN runners, status \in {"online", "offline", "draining"} :
       runners' = [runners EXCEPT ![r] = status]
  /\ UNCHANGED <<drawn, runnerTokens, beats, gone, secretVars, op>>

(* Deletion: tokens, heartbeats and the row, which fails when a heartbeat   *)
(* was stored meanwhile.                                                    *)

DeleteRunner(h) ==
  /\ op[h].at = "idle"
  /\ \E r \in DOMAIN runners :
       op' = [op EXCEPT ![h].at = "deleting", ![h].runner = r]
  /\ UNCHANGED <<runnerVars, secretVars>>

DeleteTokens(h) ==
  /\ op[h].at = "deleting"
  /\ runnerTokens' = runnerTokens \ {op[h].runner}
  /\ To(h, "tokens deleted")
  /\ UNCHANGED <<runners, drawn, beats, gone, secretVars>>

DeleteHeartbeats(h) ==
  /\ op[h].at = "tokens deleted"
  /\ beats' = beats \ {op[h].runner}
  /\ To(h, "beats deleted")
  /\ UNCHANGED <<runners, drawn, runnerTokens, gone, secretVars>>

DeleteRunnerRow(h) ==
  LET r == op[h].runner IN
  /\ op[h].at = "beats deleted"
  /\ IF r \in beats
     THEN UNCHANGED <<runners, runnerTokens, gone>>
     ELSE /\ runners' = [x \in DOMAIN runners \ {r} |-> runners[x]]
          /\ runnerTokens' = runnerTokens \ {r}
          /\ gone' = gone \cup {r}
  /\ Reply(h)
  /\ UNCHANGED <<drawn, beats, secretVars>>

(* Secrets.                                                                 *)

\* Requests that wait for a secret may be given any value it has meanwhile.
See(s, value) ==
  op' = [h \in Handler |->
    IF op[h].secret = s THEN [op[h] EXCEPT !.seen = @ \cup {value}] ELSE op[h]]

CreateSecret ==
  /\ writes < MaxWrites
  /\ \E s \in Secret \ DOMAIN secrets :
       secrets' = Inserting(secrets, s, writes + 1) /\ See(s, writes + 1)
  /\ writes' = writes + 1
  /\ UNCHANGED <<runnerVars, audited>>

UpdateSecret ==
  /\ writes < MaxWrites
  /\ \E s \in DOMAIN secrets :
       secrets' = [secrets EXCEPT ![s] = writes + 1] /\ See(s, writes + 1)
  /\ writes' = writes + 1
  /\ UNCHANGED <<runnerVars, audited>>

DeleteSecret ==
  /\ \E s \in DOMAIN secrets :
       secrets' = [x \in DOMAIN secrets \ {s} |-> secrets[x]]
  /\ UNCHANGED <<runnerVars, writes, audited, op>>

\* A runner asks for the value of a secret.
AskSecret(h) ==
  /\ op[h].at = "idle"
  /\ \E r \in drawn, s \in Secret :
       /\ VerifyRunnerToken(r)
       /\ op' = [op EXCEPT ![h] =
            [at |-> "asked", runner |-> r, secret |-> s, value |-> NoItem,
             seen |-> IF s \in DOMAIN secrets THEN {secrets[s]} ELSE {}]]
  /\ audited' = audited \ {h}
  /\ UNCHANGED <<runnerVars, secrets, writes>>

\* getSecret and the comparison of the workspaces.
GetSecret(h) ==
  LET s == op[h].secret IN
  /\ op[h].at = "asked"
  /\ IF s \in DOMAIN secrets /\ WorkspaceOf[s] = WorkspaceOf[op[h].runner]
     THEN op' = [op EXCEPT ![h].at = "decrypted", ![h].value = secrets[s]]
     ELSE Reply(h)
  /\ UNCHANGED <<runnerVars, secretVars>>

\* Mutant of RecordAuditEvent: the value is sent though the log failed.
RecordAuditEventIfPossible(h) ==
  /\ op[h].at = "decrypted"
  /\ audited' \in {audited, audited \cup {h}}
  /\ To(h, "sent")
  /\ UNCHANGED <<runnerVars, secrets, writes>>

\* The audit row is inserted before the answer, and without it there is none.
RecordAuditEvent(h) ==
  /\ op[h].at = "decrypted"
  /\ \/ audited' = audited \cup {h} /\ To(h, "sent")
     \/ Reply(h) /\ UNCHANGED audited
  /\ UNCHANGED <<runnerVars, secrets, writes>>

ReceiveSecret(h) ==
  /\ op[h].at = "sent"
  /\ Reply(h)
  /\ UNCHANGED <<runnerVars, secretVars>>

\* The instance stops between two statements.
Crash(h) ==
  /\ op[h].at # "idle"
  /\ Reply(h)
  /\ UNCHANGED <<runnerVars, secretVars>>

RegistryInit ==
  /\ runners = <<>> /\ drawn = {} /\ runnerTokens = {} /\ beats = {} /\ gone = {}
  /\ secrets = <<>> /\ writes = 0 /\ audited = {}
  /\ op = [h \in Handler |-> NoOp]

RegistryNext ==
  \/ \E h \in Handler :
       \/ RegisterRunner(h) \/ StoreToken(h)
       \/ Heartbeat(h) \/ RecordHeartbeat(h) \/ StoreHeartbeat(h)
       \/ DeleteRunner(h) \/ DeleteTokens(h) \/ DeleteHeartbeats(h) \/ DeleteRunnerRow(h)
       \/ AskSecret(h) \/ GetSecret(h) \/ RecordAuditEvent(h) \/ ReceiveSecret(h)
       \/ Crash(h)
  \/ UpdateRunnerStatus
  \/ CreateSecret \/ UpdateSecret \/ DeleteSecret

RegistrySpec == RegistryInit /\ [][RegistryNext]_registryVars

(* A runner whose deletion was answered has no row, token or heartbeat, and *)
(* gets none from a registration or a heartbeat that was under way.         *)
DeletedIsGone ==
  /\ gone \cap (DOMAIN runners \cup runnerTokens \cup beats) = {}
  /\ runnerTokens \cup beats \subseteq DOMAIN runners

(* A runner is sent the value of a secret of its workspace that the secret  *)
(* had after the request came, once the request is in the audit log.        *)
PlaintextIsAudited ==
  \A h \in Handler :
    op[h].at = "sent" =>
      /\ h \in audited
      /\ op[h].value \in op[h].seen
      /\ WorkspaceOf[op[h].secret] = WorkspaceOf[op[h].runner]

RunnersAreKnown == DeletedIsGone /\ PlaintextIsAudited
=============================================================================
