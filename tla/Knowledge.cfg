\* A file of two chunks, edits, a peer's export pulled meanwhile and a restart.
SPECIFICATION FairIndexSpec
CONSTANTS
  f1 = f1
  f2 = f2
  v1 = v1
  v2 = v2
  Absent = Absent
  Empty = Empty
  Files = {f1}
  Versions = {v1, v2}
  NChunks = 2
  MaxEvents = 3
INVARIANTS
  IndexIsFresh
  NoMixture
  OneTextPerRow
PROPERTY
  EventuallyQuiet
