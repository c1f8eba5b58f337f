\* Leaving the archive by republish, publish or saveDraft.
CONSTANTS
  a1 = a1
  u1 = u1
  c1 = c1
  c2 = c2
  r1 = r1
  r2 = r2
  i1 = i1
  i2 = i2
  Ads = {a1}
  Users = {u1}
  Owner <- MCOwner
  moderator = moderator
  Requests = {r1}
  Images = {}
  Contents = {c1}
  Lifetime = 1
  Retention = 1
  MaxDay = 2
  Crashes = FALSE
  null = null
SPECIFICATION Spec
INVARIANT ArchivedAtOnlyInArchive
