CONSTANTS
  s1 = s1
  i1 = i1
  Spaces = {s1}
  Bookings = {b1, b2}
  MaxListing = 2
  Hours = {1}
  Periods <- OnePeriod
  Inquiries <- OneInquiry
  Deliveries = {d1, d2}
  MaxFaults = 1
  None = None
SPECIFICATION FairSpec
INVARIANTS NoStrayListing StoredIsUp
PROPERTIES InquiryBookedOnce CalendarCatchesUp DelistedComesDown
CHECK_DEADLOCK FALSE
