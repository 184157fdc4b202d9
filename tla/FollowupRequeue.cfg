\* A stop while a later reset point is being planned.
SPECIFICATION Spec
CONSTANTS
  Kind = {"five_hour"}
  ResetPoint = {2, 4}
  Delay = 1
  RetryDelay <- MCRetryDelay
  MaxRetries = 2
  MaxTime = 5
  MaxStops = 1
  MaxFailures = 0
  MaxCrashes = 0
INVARIANTS PlansComeAfterReset
CHECK_DEADLOCK FALSE
