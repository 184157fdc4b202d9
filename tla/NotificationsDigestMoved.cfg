\* One reload that changes digest_time; nothing fails.
SPECIFICATION Spec
CONSTANTS
  Account = {a1}
  DayLength = 6
  DigestTime = {2, 4}
  FirstDigest = 4
  QuietStart = 5
  QuietEnd = 1
  Threshold = 2
  MaxTries = 2
  RetryInterval = 1
  KeepTime = 12
  MaxTime = 7
  MaxRounds = 2
  MaxFailures = 0
  MaxCrashes = 0
  MaxReloads = 1
PROPERTIES RoundsAreReported
CHECK_DEADLOCK FALSE
