SPECIFICATION Spec
CONSTANTS
  o1 = o1
  o2 = o2
  project = project
  None = None
  Ops = {o1, o2}
  Targets = {project}
PROPERTIES PublishedNotReattributed
CHECK_DEADLOCK FALSE
