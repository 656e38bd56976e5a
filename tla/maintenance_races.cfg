CONSTANTS
  Tickets = {t1}
  Technicians = {w1, w2}
  Requests = {r1, r2, r3}
  Spaces = {s1}
  Edits <- Corrections
  Statuses = {"IN_PROGRESS", "RESOLVED", "CLOSED"}
  Staff = Staff
  None = None
  Same = Same
SPECIFICATION Spec
INVARIANTS ClosedWasResolved
PROPERTIES HolderRespected EndedStaysEnded
SYMMETRY Interchangeable
CHECK_DEADLOCK FALSE
