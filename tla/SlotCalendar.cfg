\* A day of three hours of three ticks (20 minutes), from 05:00 into the next
\* day: one stop, crash or new configuration and one failed write.
SPECIFICATION Spec
CONSTANTS
  PrewarmJob = {"default"}
  Quota = "quota-refresh"
  Candidates <- MCCandidates
  Hour = 3
  DayStart = 1
  LastHour = 2
  DayLength = 9
  MaxJitter = 1
  MaxLate = 4
  LateInLastHour = 2
  MaxAge = 6
  SkipLimit = 1
  FirstStart = 3
  MaxTime = 13
  MaxUpsets = 1
  MaxFailures = 1
INVARIANTS
  OneQueryPerBase
  EveryBaseIsServed
PROPERTIES
  SlotRunsOnce
CHECK_DEADLOCK FALSE
