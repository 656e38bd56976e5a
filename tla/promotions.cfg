CONSTANTS
  Promos = {p1}
  Requests = {r1, r2, r3}
  Patchers = {r1}
  Bodies <- CampaignsAndEdits
  UseBound = 3
  Same = Same
  Unlimited = Unlimited
SPECIFICATION PromoSpec
INVARIANTS UsesWithinLimits EveryUseCounted DiscountSane
SYMMETRY Interchangeable
CHECK_DEADLOCK FALSE
