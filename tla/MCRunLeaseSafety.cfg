\* Two daemons compete for two runs over two polls; any two faults.
\* Once all tokens are deleted and all runs created, nothing moves: no
\* deadlock check.
CONSTANTS
  r1 = r1 r2 = r2 d1 = d1 d2 = d2 h1 = h1 h2 = h2
  Run = {r1, r2}
  Daemon = {d1, d2}
  Client = {}
  Poll = {h1, h2}
  None = None
  MaxBatch = 1
  MaxFaults = 2
SPECIFICATION Spec
SYMMETRY Symmetry
CHECK_DEADLOCK FALSE
INVARIANTS
  OneHolder
  FreshExecution
  PassedHasEvidence
  ManifestComplete
PROPERTIES
  VerdictIsFinal
  ImplementsDispatch
