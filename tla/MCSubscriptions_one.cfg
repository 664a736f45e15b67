SPECIFICATION Spec
CONSTANTS
  r1 = r1
  r2 = r2
  s1 = s1
  s2 = s2
  u1 = u1
  u2 = u2
  w1 = w1
  w2 = w2
  c0 = c0
  None = None
  Requests = {r1, r2}
  Subs = {s1, s2}
  Users = {u1}
  Customer0 = c0
  Workers = {w1}
  Parties = {"donor"}
  Initiatives <- MCPublished
  Input <- MCTwoClicks
  PageSize = 1
  MaxInvoices = 1
INVARIANTS OneLiveSubPerUser
CHECK_DEADLOCK FALSE
