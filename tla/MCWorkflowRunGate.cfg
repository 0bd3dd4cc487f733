\* One workflow of two steps: PassedRunPassesGate is refuted.
CONSTANTS
  a = a b = b c = c x = x t1 = t1 t2 = t2
  run = run teardown = teardown
  Id = {a, b, c, run, teardown}
  RunMark = run
  TeardownMark = teardown
  Name = {x}
  None = None
  TestId = {t1, t2}
  MaxSteps = 2
  MaxTeardown = 1
  Workflow <- TwoSteps
  Posted <- PostedSteps
  Given <- Conditional
  Tests <- TwoTests
  EnvNames = {x}
  CommandLine <- Commands
CHECK_DEADLOCK FALSE
SPECIFICATION ClientSpec
INVARIANT PassedRunPassesGate
