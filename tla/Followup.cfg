\* Two successive reset points: a stop, a failed write and a crash.
SPECIFICATION Spec
CONSTANTS
  Kind = {"five_hour"}
  ResetPoint = {2, 4}
  Delay = 1
  RetryDelay <- MCRetryDelay
  MaxRetries = 2
  MaxTime = 6
  MaxStops = 1
  MaxFailures = 1
  MaxCrashes = 1
INVARIANTS TypeOK ClaimsComeAfterReset NoFollowupLost OneFollowupPerReset RetriesAreBounded
CHECK_DEADLOCK FALSE
