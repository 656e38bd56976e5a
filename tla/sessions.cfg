CONSTANTS
  Sessions = {s1, s2}
  Calls = {k1, k2}
  Exchanges = {e1, e2}
  Life = 1
  RefreshLife = 2
  MaxTime = 3
  Onward = FALSE
  Faults = TRUE
  Elsewhere = Elsewhere
  Nothing = Nothing
SPECIFICATION Spec
INVARIANTS KeepsItsSession LogoutEnds WaitersAreHeard
PROPERTIES EndsOnlyAsTold
SYMMETRY Interchangeable
CHECK_DEADLOCK FALSE
