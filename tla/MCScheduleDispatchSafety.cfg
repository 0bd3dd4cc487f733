\* One schedule, two instances that race for it, one trigger-now.
CONSTANTS
  i1 = i1 i2 = i2
  Schedule = {s1}
  Instance = {i1, i2}
  Request = {q1}
  Env = {e1}
  Cron <- EveryMinuteOrLast
  Horizon = 2
  MaxVersion = 2
  MaxEdits = 2
  MaxFaults = 1
  None = None
SPECIFICATION Spec
SYMMETRY Symmetry
INVARIANTS
  OncePerMinute
  ClaimedMeansRun
PROPERTY ImplementsCronDispatch
