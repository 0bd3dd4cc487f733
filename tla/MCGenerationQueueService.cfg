\* Two jobs for a queue of one, one worker; every kind of loss.
CONSTANTS
  Job = {j1, j2}
  Worker = {w1}
  Model = {pi}
  ModelOf <- OneModel
  Limit = 1
  LeaseBudget = 1
  SubmitTries = 1
  MaxAttempt = 0
  None = None
\* When every job has completed only polls that find nothing are left.
CHECK_DEADLOCK FALSE
SPECIFICATION FairSpec
PROPERTIES
  ImplementsJobQueue
  ActiveEnds
