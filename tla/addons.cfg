CONSTANTS
  Services = {x, y}
  Spaces = {s1}
  Landlords = {l1, l2}
  Applications = {a1}
  Bookings = {b1}
  Calls = {k1, k2}
  Edits <- PublishOrGive
  Floors = {l1, l2}
  Selections <- AtMostOne
  Baskets <- All
  ByHand = {x, y}
  Same = Same
  None = None
SPECIFICATION Spec
SYMMETRY Interchangeable
INVARIANTS OffersOwn SelectableEverywhere
PROPERTIES QuotedIsBilled ActiveUsageKept
CHECK_DEADLOCK FALSE
