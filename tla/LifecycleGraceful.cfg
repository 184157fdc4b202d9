\* No crash and no failed write, three operations: what a stop may not lose,
\* and that everything it waits for ends.
SPECIFICATION FairSpec
CONSTANTS
  Slot = {s1, s2}
  NoSlot = NoSlot
  Worker = {w1}
  MaxOps = 3
  MaxManual = 1
  MaxFailures = 0
  MaxCrashes = 0
PROPERTIES OperationsReturn ClaimsAreServed
CHECK_DEADLOCK FALSE
