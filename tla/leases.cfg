CONSTANTS
  Contracts = {c1, c2}
  Tenants = {t1}
  Requests = {r1, r2}
  Days = {1}
  LastDay = 2
  Created = {"DRAFT"}
  Edits = {"EXPIRED", "ACTIVE"}
  MaxStops = 1
  Configured = TRUE
  Nobody = Nobody
SPECIFICATION FairSpec
INVARIANTS SignedMeansOnboarded MailedOnce
PROPERTIES EndedStaysEnded DripCompletes
CHECK_DEADLOCK FALSE
