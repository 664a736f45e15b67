SPECIFICATION Spec
CONSTANTS
  Callers = {c1, c2}
  Lives = {4, 8}
  Timeout = 1
  Margin = 3
  TokenTime = 9
  NoToken = NoToken
  Nobody = Nobody
  MaxVersion = 3
  Users = {alice, bob}
  Strangers = {eve}
  Reports = {report}
  Anonymous = Anonymous
  Requests = {q1, q2}
  Cards = {k1}
  MaxCustomers = 2
  NoCard = NoCard
  Programs = {p1, p2}
  SourceStatuses = {"published", "hide", "bogus"}
  MaxChanges = 2
  Initiatives = {i1, i2}
  Sponsors = {s1, s2}
  MaxPostings = 2
  NoStats = NoStats
  Subs = {u1}
  Dons = {d1}
  SFIDs = {x}
  MaxStops = 1
  NoSFID = NoSFID
  Donors = {m1, m2}
  Limit = 2
  MaxRows = 3
  Everyone = Everyone
  People = {ann, ben}
  Author = ann
  Approvers = {ben}
  Entities = {project}
  Personal = Personal
  MaxVisits = 1
  Life = 1
  Wait = 1
  Editors = {e1, e2}
  Drives = {v1, v2}
  CreatorOf <- MCCreatorOf
  Notices = {n1}
  MaxEdits = 1
  Hosts = {host}
  NoHost = NoHost
  NoDrive = NoDrive
INVARIANTS ServicesTypeOK SentUnexpired DoneSyncStays ActedByApprover CardOfCustomer SlugsUnique StatsHonest RowBehindStripe PagesComplete HiddenSoonGone ManageToldTruth NoticeOfManaged
PROPERTIES TokenKeptWhileGood AccountKept SyncPreserves ProgramsArrive StatsCatchUp RowsFilled
CHECK_DEADLOCK FALSE
