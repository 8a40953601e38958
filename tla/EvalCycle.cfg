SPECIFICATION Spec
CONSTANTS
  Clients = {c1, c2}
  Cycles <- SomeCycles
  Projects = {p1, p2}
  Orgs = {o1, o2}
  OrgOf <- TwoOrgs
  Default = o1
  p1 = p1
  p2 = p2
  o1 = o1
  o2 = o2
  MaxImports = 1
  None = None
CHECK_DEADLOCK FALSE
INVARIANTS ComparisonsAreComparable OutcomesAreTrue
PROPERTIES CycleEnds SnapshotsAreCurrent
