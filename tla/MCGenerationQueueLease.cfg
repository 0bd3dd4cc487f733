\* One job, two workers, retried once, two claims per opening.
CONSTANTS
  j1 = j1 w1 = w1 w2 = w2
  Job = {j1}
  Worker = {w1, w2}
  Model = {pi}
  ModelOf <- OneModel
  Limit = 1
  LeaseBudget = 2
  SubmitTries = 2
  MaxAttempt = 1
  None = None
\* When every job has completed only polls that find nothing are left.
CHECK_DEADLOCK FALSE
SPECIFICATION Spec
SYMMETRY Symmetry
INVARIANTS
  DraftsOnce
  DraftsOfLastLease
