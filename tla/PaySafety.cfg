\* One purchase for the ad and one for the account, two requests at once.
\* Beside it: a list of three items in pages of two; trees of three
\* categories with two names.
CONSTANTS
  a1 = a1
  p1 = p1
  p2 = p2
  r1 = r1
  r2 = r2
  Purchases = {p1, p2}
  Ads = {a1}
  AdOf <- AdAndAccount
  Services <- BumpAndPremium
  Duration <- OneDay
  Requests = {r1, r2}
  MaxDay = 2
  MaxCrashes = 1
  i1 = i1
  i2 = i2
  i3 = i3
  a = a
  b = b
  Items = {i1, i2, i3}
  Limit = 2
  MaxTime = 3
  Ids = {i1, i2, i3}
  Names = {a, b}
  MaxNodes = 3
  MaxDepth = 2
  Releases <- MCReleases
  null = null
SPECIFICATION MCSpec
SYMMETRY MCPartsSymmetry
INVARIANTS
  CreditedWasPaid
  PayableIsRecognised
  NoHangingPending
  NothingSkipped
  ImportsEverything
\* Purchases are used up and the clock is bounded: the system may stop.
CHECK_DEADLOCK FALSE
