\* Both kinds of follow-up, nothing stops or fails.
SPECIFICATION Spec
CONSTANTS
  Kind = {"five_hour", "weekly"}
  ResetPoint = {2, 3}
  Delay = 1
  RetryDelay <- MCRetryDelay
  MaxRetries = 2
  MaxTime = 4
  MaxStops = 0
  MaxFailures = 0
  MaxCrashes = 0
PROPERTIES DroppedFollowupIsAsked
CHECK_DEADLOCK FALSE
