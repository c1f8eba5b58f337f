\* Two visitors, three days, crashes and skipped nights.
CONSTANTS
  a1 = a1
  a2 = a2
  v1 = v1
  v2 = v2
  Ads = {a1}
  Viewers = {v1, v2}
  MaxDay = 3
  null = null
SPECIFICATION FairSpec
INVARIANTS
  CountsEveryVisitorOnce
  TodayIsExact
PROPERTIES
  EventuallyRolledUp
\* Every ad may be removed and the clock is bounded: the system may stop.
CHECK_DEADLOCK FALSE
