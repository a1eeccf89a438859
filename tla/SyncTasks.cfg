\* A task edited on two of three nodes, at once or one after the other.
SPECIFICATION FairSpec
CONSTANTS
  n1 = n1
  n2 = n2
  n3 = n3
  d1 = d1
  d2 = d2
  d3 = d3
  k1 = k1
  e1 = e1
  e2 = e2
  Nodes = {n1, n2, n3}
  Docs = {}
  NewTasks = {k1}
  TaskEdits = {e1, e2}
  NodeOf <- Spread
  NameOf <- OneName
  TargetOf <- SameTask
  MaxTime = 3
PROPERTIES
  EventuallyConsistent
