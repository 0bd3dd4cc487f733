\* Two schedules in the poll of one instance, either of which may be broken.
CONSTANTS
  Schedule = {s1, s2}
  Instance = {i1}
  Request = {}
  Env = {e1}
  Cron <- EveryMinuteOrLast
  Horizon = 2
  MaxVersion = 1
  MaxEdits = 1
  MaxFaults = 1
  None = None
SPECIFICATION FairSpec
PROPERTY DueIsDispatched
