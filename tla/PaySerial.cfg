\* Two purchases for one ad, one request at a time: the promise is
\* kept, and what must eventually happen does.
CONSTANTS
  a1 = a1
  p1 = p1
  p2 = p2
  r1 = r1
  r2 = r2
  Purchases = {p1, p2}
  Ads = {a1}
  AdOf <- TwoForOneAd
  Services <- BumpAndBundle
  Duration <- TwoDays
  Requests = {r1}
  MaxDay = 3
  MaxCrashes = 1
  null = null
SPECIFICATION FairSpec
PROPERTIES
  KeepsPromise
  PaidIsCredited
  ActiveAdIsBumped
\* Purchases are used up and the clock is bounded: the system may stop.
CHECK_DEADLOCK FALSE
