\* One ad, two requests handled at once, both workers, account deletion and
\* crashes; three days with a lifetime and a retention of one.
\* Beside it: an ad of a category or its child, with slugs that are renamed;
\* two categories with a description each, in two chunks; three terms cached
\* and two results; three calls with a token that lives 5, is kept 3 and
\* travels 1 at most.
CONSTANTS
  a1 = a1
  u1 = u1
  c1 = c1
  c2 = c2
  r1 = r1
  r2 = r2
  i1 = i1
  i2 = i2
  Ads = {a1}
  Users = {u1}
  Owner <- MCOwner
  moderator = moderator
  Requests = {r1, r2}
  Images = {}
  Contents = {c1, c2}
  Lifetime = 1
  Retention = 1
  MaxDay = 2
  Crashes = TRUE
  grain = grain
  wheat = wheat
  tools = tools
  s1 = s1
  s2 = s2
  editor = editor
  a = a
  b = b
  space = space
  Categories = {grain, wheat}
  Parent <- MCParent
  Preorder <- MCPreorder
  Slugs = {s1, s2}
  Editors = {editor}
  Scripts = {r1, r2}
  Order <- MCOrder
  Leaves = {c1, c2}
  MaxTexts = 1
  Chunks = 2
  Runs = {r1, r2}
  Searched = {grain, wheat, tools}
  Terms <- MCTerms
  Queries <- MCQueries
  Likeness <- MCLikeness
  CacheSize = 3
  Unit = 6
  Limit = 2
  Calls = {grain, wheat, tools}
  TokenLifetime = 5
  Assumed = 3
  Delay = 1
  MaxTime = 12
  Small = TRUE
  null = null
SPECIFICATION MCSpec
SYMMETRY AllSymmetry
INVARIANTS
  TypesOK
  PublishedForOneLifetime
  ReasonStaysOutOfCatalogue
  PathOfItsCategory
  BackfillRepairs
  ForceRepairs
  AnswerIsTheTop
  NeverTooLate
PROPERTY EditNeverGoesLive
\* An answer and the last tick end a history beside the ad's.
CHECK_DEADLOCK FALSE
