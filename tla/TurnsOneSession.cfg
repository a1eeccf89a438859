\* Three messages on one session, the last from a WebChat peer; compaction comes
\* before pruning, as in the defaults (threshold 40, keep 20, max 200).
SPECIFICATION Spec
CONSTANTS
  s1 = s1
  s2 = s2
  m1 = m1
  m2 = m2
  m3 = m3
  d1 = d1
  d2 = d2
  NoTask = NoTask
  Sessions = {s1, s2}
  Inbound = {m1, m2, m3}
  Inner = {}
  WebChat = {m3}
  SessionOf <- ByKind
  Threshold = 3
  KeepRecent = 1
  MaxMessages = 6
  MaxBlocks = 2
  MaxResets = 0
INVARIANTS
  SerializedTurns
  ServedInOrder
  SessionStartsOnce
  DeliveredInOrder
  InboundSeesEarlierMemories
  PromptIsBounded
PROPERTY
  HoldsConversations
