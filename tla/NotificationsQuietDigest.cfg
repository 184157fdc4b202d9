\* A digest in the quiet hours; nothing fails.
SPECIFICATION Spec
CONSTANTS
  Account = {a1}
  DayLength = 6
  DigestTime = {5}
  FirstDigest = 5
  QuietStart = 4
  QuietEnd = 1
  Threshold = 2
  MaxTries = 2
  RetryInterval = 1
  KeepTime = 12
  MaxTime = 7
  MaxRounds = 2
  MaxFailures = 0
  MaxCrashes = 0
  MaxReloads = 0
PROPERTIES QueuedFailuresAreSent
CHECK_DEADLOCK FALSE
