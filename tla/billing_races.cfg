CONSTANTS
  Invoices = {i1}
  Payments = {p1, p2}
  Lines = {l1}
  Requests = {r1, r2}
  Totals = {2}
  Charges = {1}
  Amounts = {1}
  Edits <- FormEdits
  None = None
  Same = Same
SPECIFICATION Spec
INVARIANTS PaidAgrees PendingBounded
PROPERTIES FreshKeepsPaid
SYMMETRY Interchangeable
CHECK_DEADLOCK FALSE
