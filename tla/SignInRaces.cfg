\* Two requests at once.  Registration with the second factor or a change of
\* address, and a new password with either;
\* one browser, two accounts and one address for a provider; three avatars;
\* one ad of somebody else's and one of the account's own.
CONSTANTS
  u1 = u1
  u2 = u2
  e1 = e1
  e2 = e2
  t1 = t1
  t2 = t2
  r1 = r1
  r2 = r2
  a1 = a1
  a2 = a2
  i1 = i1
  b1 = b1
  s1 = s1
  f1 = f1
  f2 = f2
  f3 = f3
  n1 = n1
  n2 = n2
  Users = {u1, u2}
  Emails = {e1, e2}
  Tokens = {t1, t2}
  Requests = {r1, r2}
  Kinds <- MCKinds
  MailOf <- MCMailOf
  People = {u1, u2}
  Mails = {e1}
  Ids = {i1}
  Browsers = {b1}
  States = {s1}
  Files = {f1, f2, f3}
  external = external
  Ads = {a1, a2}
  OwnAds = {a2}
  Notices = {n1, n2}
  null = null
SPECIFICATION MCSpec
SYMMETRY MCSymmetry
INVARIANTS
  TypesOK
  CodeOpensOneSession
  VerifiedWasProven
  AccountsOneByOne
  SignInSticks
  PictureExists
PROPERTY SameAccountAgain
\* Accounts may be deleted and tokens are used up: the system may stop.
CHECK_DEADLOCK FALSE
