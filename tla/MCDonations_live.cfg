SPECIFICATION FairSpec
CONSTANTS
  r1 = r1
  r2 = r2
  r3 = r3
  p1 = p1
  p2 = p2
  p3 = p3
  u1 = u1
  u2 = u2
  w1 = w1
  w2 = w2
  None = None
  Requests = {r1, r3}
  Intents = {p1, p2}
  LegacyIntents = {}
  Users = {u1, u2}
  StubUsers = {u2}
  Workers = {w1}
  SFIDs = {s1}
  s1 = s1
  s2 = s2
  Initiatives <- MCOpenClose
  Input <- MCTwoDonors
  RaceWindow = TRUE
  MaxReceipts = 1
INVARIANTS LedgerMatchesRow
PROPERTIES ChallengeSettles
CHECK_DEADLOCK FALSE
