\* Workflows of two steps and a teardown step, tests, and plans with
\* conditions and polls.
CONSTANTS
  a = a b = b c = c x = x t1 = t1 t2 = t2
  run = run teardown = teardown
  Id = {a, b, c, run, teardown}
  RunMark = run
  TeardownMark = teardown
  Name = {x}
  None = None
  TestId = {t1, t2}
  MaxSteps = 2
  MaxTeardown = 1
  Workflow <- TwoSteps
  Posted <- PostedSteps
  Given <- Conditional
  Tests <- TwoTests
  EnvNames = {x}
  CommandLine <- Commands
\* A run that has its verdict is over.
CHECK_DEADLOCK FALSE
SPECIFICATION FairClientSpec
INVARIANTS
  VerdictIsTold
  NothingIsSentAgain
  TeardownIsExhausted
  UnresolvedIsExcused
  EvidenceIsTold
PROPERTY RunEnds
