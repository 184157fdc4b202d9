\* Two files, one call beside those of version 0.4.
SPECIFICATION Spec
CONSTANTS
  Path = {p1, p2}
  DefaultPath = p1
  MaxCalls = 1
  MaxDamages = 1
  MaxFailures = 1
  MaxCrashes = 1
INVARIANTS TypeOK CallsAreStored CallsAreRemembered DisplayAsConfirmed HealthyKeepsRunning
CHECK_DEADLOCK FALSE
