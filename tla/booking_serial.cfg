CONSTANTS
  Requests = {r1}
  Endpoints <- EndpointNames
  Bookings = {b1, b2}
  Spaces = {s1}
  Slots <- TouchingSlots
  Applications = {a1}
  Applicants = {p1}
  MaxDocuments = 1
  MaxInvoices = 2
  FreeStatuses = {"PENDING_APPROVAL"}
  SpaceEdits = {}
  PublishEdits = {FALSE}
  Fragile = {"finalize", "addDocument", "cancel", "checkIn", "refuse", "confirmPhone"}
  None = None
SPECIFICATION Spec
INVARIANTS ActiveIsOffTheMap DocumentsBounded
PROPERTIES LifecycleFollowed StagesFollowed CreatedOnFreeSlot InvoicedOnce
SYMMETRY Interchangeable
CHECK_DEADLOCK FALSE
