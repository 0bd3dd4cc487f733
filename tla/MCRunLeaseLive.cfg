\* A daemon and a runner driven through the API compete for two runs over two
\* polls; one crash, lost message, failed statement or deleted runner.
CONSTANTS
  Run = {r1, r2}
  Daemon = {d1}
  Client = {c1}
  Poll = {h1, h2}
  None = None
  MaxBatch = 2
  MaxFaults = 1
SPECIFICATION FairSpec
PROPERTIES
  PendingEnds
