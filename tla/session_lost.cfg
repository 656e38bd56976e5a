CONSTANTS
  Sessions = {s1, s2}
  Calls = {k1, k2}
  Exchanges = {e1, e2}
  Life = 2
  RefreshLife = 4
  MaxTime = 3
  Onward = TRUE
  Faults = FALSE
  Elsewhere = Elsewhere
  Nothing = Nothing
SPECIFICATION Spec
INVARIANTS ParallelRefusalsKeepTheSession
SYMMETRY Interchangeable
CHECK_DEADLOCK FALSE
