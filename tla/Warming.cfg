\* The limits of the code (five calls a window, one retry, two models) for one
\* account: crashes, failed writes and stops at every step, every sequence of
\* answers, and time enough for a window to pass.
SPECIFICATION FairSpec
CONSTANTS
  Account = {a1}
  NoAccount = NoAccount
  Limit = 5
  Window = 3
  Cooldown = 2
  RetryCount = 1
  ModelCount = 2
  MaxTime = 3
  MaxSerial = 7
INVARIANTS TypeOK CallsArePrepaid RollingLimit PrewarmsAreSpaced CallsPerPrewarm
PROPERTIES NothingAfterFinalAnswer ImplementsBudget StopEndsRound
CHECK_DEADLOCK FALSE
