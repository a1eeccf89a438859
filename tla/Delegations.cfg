\* One session on each of two gateways and a prompt without a session; an agent that
\* calls itself and its peers on three gateways, one of which may crash.
SPECIFICATION FairSpec
CONSTANTS
  n1 = n1
  n2 = n2
  n3 = n3
  a = a
  b = b
  s = s
  r1 = r1
  r2 = r2
  r3 = r3
  NoTurn = NoTurn
  Nodes = {n1, n2, n3}
  Agents = {a}
  Roots = {r1, r2, r3}
  Stateless = {r3}
  RootNode <- OnNodes
  RootAgent <- AllToA
  RootSession <- OneSession
  Turns = {1, 2, 3, 4}
  MaxCrashes = 1
INVARIANTS
  NoCircularWait
  SessionsStayApart
  CallersAreAnswered
PROPERTIES
  EveryTurnEnds
