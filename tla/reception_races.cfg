CONSTANTS
  Requests = {r1, r2}
  Endpoints <- Reviewed
  Bookings = {b1, b2}
  Spaces = {s1}
  Slots <- OneSlot
  Applications = {a1, a2}
  Applicants = {p1}
  MaxDocuments = 1
  MaxInvoices = 1
  FreeStatuses = {}
  SpaceEdits = {}
  PublishEdits = {}
  Fragile = {}
  None = None
SPECIFICATION FairSpec
INVARIANTS ApplicationsAgree HeldUntilReleased
PROPERTIES BilledEventually
CHECK_DEADLOCK FALSE
