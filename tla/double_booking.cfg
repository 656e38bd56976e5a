CONSTANTS
  Requests = {r1, r2}
  Endpoints <- Desk
  Bookings = {b1, b2}
  Spaces = {s1}
  Slots <- TouchingSlots
  Applications = {}
  Applicants = {}
  MaxDocuments = 1
  MaxInvoices = 1
  FreeStatuses = {"PENDING_APPROVAL", "NO_SHOW"}
  SpaceEdits = {}
  PublishEdits = {}
  Fragile = {}
  None = None
SPECIFICATION Spec
PROPERTIES CreatedOnFreeSlot
CHECK_DEADLOCK FALSE
