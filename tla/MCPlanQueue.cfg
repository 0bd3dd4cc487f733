\* Two workers and a user race for two jobs in a queue of one.
CONSTANTS
  j1 = j1 j2 = j2 w1 = w1 w2 = w2
  Job = {j1, j2}
  Worker = {w1, w2}
  User = {u1}
  Limit = 1
  LeaseBudget = 2
  MaxAssets = 2
  None = None
\* When no id is left only polls that find nothing are left.
CHECK_DEADLOCK FALSE
SPECIFICATION Spec
SYMMETRY Symmetry
INVARIANTS
  LastLeaseOnly
PROPERTIES
  SuggestionIsDue
  ImplementsJobQueue
