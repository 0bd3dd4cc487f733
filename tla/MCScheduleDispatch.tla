------------------------- MODULE MCScheduleDispatch -------------------------
(* Instances of ScheduleDispatch for TLC. *)
EXTENDS ScheduleDispatch, TLC

\* "Every minute", and "the last minute only".
EveryMinuteOrLast == {1..Horizon, {Horizon}}

Symmetry ==
  Permutations(Schedule) \cup Permutations(Instance) \cup Permutations(Request)
=============================================================================
