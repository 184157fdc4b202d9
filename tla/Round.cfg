\* Two accounts, the second used by others too, one place in the semaphore.
SPECIFICATION FairSpec
CONSTANTS
  Account = {1, 2}
  Shared = {2}
  Expected = 0
  MaxFetches = 1
  Spacing = 2
  MaxAge = 1
  ConfirmWait = 1
  Tolerance = 0
  MinDelta = 0
  MaxDelta = 3
  Slack = 6
  MaxTime = 5
INVARIANTS TypeOK ConfirmedWasIdle CutShortIsPutBack SuccessIsHonest
PROPERTIES NoQueryAfterStop IdleIsConfirmed StopEndsRound
CHECK_DEADLOCK FALSE
