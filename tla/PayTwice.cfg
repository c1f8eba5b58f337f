\* A webhook and the buyer's check of one payment at once.
CONSTANTS
  a1 = a1
  p1 = p1
  p2 = p2
  r1 = r1
  r2 = r2
  Purchases = {p1}
  Ads = {a1}
  AdOf <- TwoForOneAd
  Services <- BumpAndBundle
  Duration <- OneDay
  Requests = {r1, r2}
  MaxDay = 2
  MaxCrashes = 0
  null = null
SPECIFICATION Spec
INVARIANTS
  CreditedOnce
\* Purchases are used up and the clock is bounded: the system may stop.
CHECK_DEADLOCK FALSE
