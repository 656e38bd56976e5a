CONSTANTS
  a1 = a1
  a2 = a2
  p1 = p1
  p2 = p2
  p3 = p3
  e1 = e1
  Applications = {a1, a2}
  Responses = {p1, p2, p3}
  Emails = {e1}
  Calls = {k1, k2}
  Tokens = {n1}
  MaxSlug = 2
  Administered = {"SUSPENDED"}
  InquiryOf <- Inquiry
  EmailOf <- Email
  None = None
  Elsewhere = Elsewhere
SPECIFICATION Spec
SYMMETRY Symmetric
INVARIANTS DecisionsAgree NoOrphans ApprovedCanEnter TokenUsedOnce
PROPERTIES DecidedOnce
CHECK_DEADLOCK FALSE
