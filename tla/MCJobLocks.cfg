SPECIFICATION Spec
CONSTANTS
  dex = dex
  Jobs = {dex}
  JobOf <- MCJobOf
  Runs = {r1, r2, r3}
  Reapers = {p1}
  NoRun = NoRun
  StaleAfter = 2
  MaxRun = 2
  Attempts = 2
  LogMayFail = TRUE
  MaxClock = 6
SYMMETRY Symmetry
INVARIANTS TypeOK BodyHoldsTheRow InterruptedOnlyWhenOver
PROPERTIES FlightSpec
CHECK_DEADLOCK FALSE
