\* The digest before the quiet hours, almost two days: a failed write, a crash
\* and a reload.
SPECIFICATION Spec
CONSTANTS
  Account = {a1}
  DayLength = 6
  DigestTime = {4}
  FirstDigest = 4
  QuietStart = 5
  QuietEnd = 1
  Threshold = 2
  MaxTries = 2
  RetryInterval = 1
  KeepTime = 6
  MaxTime = 11
  MaxRounds = 2
  MaxFailures = 1
  MaxCrashes = 1
  MaxReloads = 1
INVARIANTS TypeOK AlertedOncePerWindow DigestDeliveredOnce
PROPERTIES QueuedFailuresAreSent RoundsAreReported
CHECK_DEADLOCK FALSE
