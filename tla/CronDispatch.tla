---------------------------- MODULE CronDispatch ----------------------------
(***************************************************************************)
(* What scheduling promises: a schedule fires at most once for a minute,   *)
(* in one instant at which its row exists, is enabled and names that       *)
(* minute, and for the environment the row names at that instant.  No      *)
(* instances, polls, transactions or clocks.                               *)
(***************************************************************************)
EXTENDS Naturals

CONSTANTS
  Schedule,  \* ids of schedules
  Minute,    \* UTC minutes
  Config     \* contents of a schedule's row

VARIABLES
  rows,      \* the schedules that exist
  config,    \* their contents
  fired      \* the batches of runs created by the clock

vars == <<rows, config, fired>>

Init ==
  /\ rows = {}
  /\ config \in [Schedule -> Config]
  /\ fired = {}

Edit(s) ==
  /\ \E c \in Config : config' = [config EXCEPT ![s] = c]
  /\ rows' \in {rows \cup {s}, rows}
  /\ UNCHANGED fired

Delete(s) ==
  /\ rows' = rows \ {s}
  /\ UNCHANGED <<config, fired>>

Fire(s, m) ==
  /\ s \in rows /\ config[s].enabled /\ m \in config[s].due
  /\ ~\E f \in fired : f.schedule = s /\ f.at = m
  /\ fired' = fired \cup {[schedule |-> s, at |-> m, env |-> config[s].env, nth |-> 0]}
  /\ UNCHANGED <<rows, config>>

Next ==
  \E s \in Schedule : Edit(s) \/ Delete(s) \/ \E m \in Minute : Fire(s, m)

Spec == Init /\ [][Next]_vars
=============================================================================
