\* An account with two numbers and one without, two requests at once; and,
\* apart from that, two accounts to come, a number that may pass on and two
\* calls.
CONSTANTS
  u1 = u1
  u2 = u2
  n1 = n1
  n2 = n2
  n3 = n3
  t1 = t1
  t2 = t2
  r1 = r1
  r2 = r2
  v1 = v1
  v2 = v2
  p1 = p1
  p2 = p2
  Users = {u1, u2}
  Numbers = {n1, n2, n3}
  Tokens = {t1, t2}
  Requests = {r1, r2}
  InitialOwner <- MCOwner
  InitialPrimary = {n1}
  Comers = {v1, v2}
  Lines = {p1, p2}
  null = null
SPECIFICATION MCSpec
SYMMETRY MCSymmetry
INVARIANTS
  SomePrimary
  PhonesOneByOne
  SignedUpByCall
PROPERTY AttachedByCall
\* Accounts may be deleted and tokens are used up: the system may stop.
CHECK_DEADLOCK FALSE
