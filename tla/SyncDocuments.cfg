\* Three writes of documents on two nodes, all of one name.
SPECIFICATION Spec
CONSTANTS
  n1 = n1
  n2 = n2
  n3 = n3
  d1 = d1
  d2 = d2
  d3 = d3
  k1 = k1
  e1 = e1
  e2 = e2
  Nodes = {n1, n2}
  Docs = {d1, d2, d3}
  NewTasks = {}
  TaskEdits = {}
  NodeOf <- Spread
  NameOf <- OneName
  TargetOf <- SameTask
  MaxTime = 3
INVARIANTS
  NothingInvented
  Converged
PROPERTIES
  SyncKeepsNewest
