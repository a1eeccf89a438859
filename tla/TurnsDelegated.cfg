\* Compacted histories that are pruned too, delegations beside a message, and an operator who
\* resets a session; every turn ends.
SPECIFICATION FairSpec
CONSTANTS
  s1 = s1
  s2 = s2
  m1 = m1
  m2 = m2
  m3 = m3
  d1 = d1
  d2 = d2
  NoTask = NoTask
  Sessions = {s1, s2}
  Inbound = {m1}
  Inner = {d1, d2}
  WebChat = {}
  SessionOf <- ByKind
  Threshold = 3
  KeepRecent = 2
  MaxMessages = 2
  MaxBlocks = 1
  MaxResets = 1
INVARIANTS
  HistoryIsFaithful
  PromptIsFaithful
PROPERTIES
  EveryTurnEnds
