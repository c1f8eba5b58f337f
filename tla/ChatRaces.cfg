\* Two users, one ad, two requests at once and crashes; and, apart from that,
\* three messages of a dialog in pages of one, two requests at once.
CONSTANTS
  u1 = u1
  u2 = u2
  a1 = a1
  c1 = c1
  c2 = c2
  r1 = r1
  r2 = r2
  t1 = t1
  t2 = t2
  m1 = m1
  m2 = m2
  m3 = m3
  Users = {u1, u2}
  Ads = {a1}
  SellerOf <- MCSeller
  Conversations = {c1, c2}
  Requests = {r1, r2}
  Crashes = TRUE
  Talkers = {t1, t2}
  Messages = {m1, m2, m3}
  Limit = 1
  MaxTime = 3
  null = null
SPECIFICATION MCSpec
SYMMETRY MCSymmetry
\* Every account may be deleted, and every message be sent: the system may stop.
CHECK_DEADLOCK FALSE
INVARIANTS
  TypesOK
  OneDialogPerBuyer
  ChatOneByOne
  HistoryIsWhole
PROPERTIES
  LivingKeepTheirDialogs
  BlockHolds
