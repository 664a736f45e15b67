SPECIFICATION Spec
CONSTANTS
  r1 = r1
  r2 = r2
  r3 = r3
  p1 = p1
  p2 = p2
  p3 = p3
  u1 = u1
  u2 = u2
  w1 = w1
  w2 = w2
  None = None
  Requests = {r1, r2}
  Intents = {p1, p3}
  LegacyIntents = {p3}
  Users = {u1}
  StubUsers = {}
  Workers = {w1, w2}
  SFIDs = {s1, s2}
  s1 = s1
  s2 = s2
  Initiatives <- MCOpen
  Input <- MCReplayInput
  RaceWindow = FALSE
  MaxReceipts = 2
SYMMETRY WorkerSymmetry
INVARIANTS TypeOK OneRowPerIntent SettledTruthfully LedgerMatchesRow ReceiptNotRepeated AckedSuccessHasRow AckedVerdictRecorded
PROPERTIES RowNeverRewritten ImplementsBook
CHECK_DEADLOCK FALSE
