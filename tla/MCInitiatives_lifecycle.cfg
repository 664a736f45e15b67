SPECIFICATION FairSpec
CONSTANTS
  o1 = o1
  o2 = o2
  project = project
  None = None
  Ops = {o1, o2}
  Targets = {}
INVARIANTS TypeOK NothingPublicBeforeApproval
PROPERTIES AccessConverges
CHECK_DEADLOCK FALSE
