SPECIFICATION FairSpec
CONSTANTS
  dex = dex
  Jobs = {dex}
  JobOf <- MCJobOf
  Runs = {r1, r2}
  Reapers = {p1}
  NoRun = NoRun
  StaleAfter = 2
  MaxRun = 4
  Attempts = 2
  LogMayFail = TRUE
  MaxClock = 6
INVARIANTS InterruptedAtMostOnce
PROPERTIES RowTakenOnlyFromOverOrStale DeadLockGoesAway
CHECK_DEADLOCK FALSE
