\* The counters leave out past days that are not rolled up yet.
CONSTANTS
  a1 = a1
  a2 = a2
  v1 = v1
  v2 = v2
  Ads = {a1, a2}
  Viewers = {v1, v2}
  MaxDay = 2
  null = null
SPECIFICATION Spec
INVARIANTS
  TotalIsOfAllTime
\* Every ad may be removed and the clock is bounded: the system may stop.
CHECK_DEADLOCK FALSE
