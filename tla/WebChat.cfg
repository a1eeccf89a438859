\* Two sockets, two frames, two profiles, two calls of the model in a turn.
SPECIFICATION FairSpec
CONSTANTS
  s1 = s1
  s2 = s2
  Sockets = {s1, s2}
  Profiles = {1, 2}
  Tools = {"write_file", "browser_fetch"}
  Handled = {"write_file", "browser_fetch"}
  Checked = {"browser_fetch"}
  Allow = {"*"}
  All = "*"
  Deny = {"write_file"}
  MaxFrames = 2
  MaxCalls = 2
  MaxUses = 2
  MaxChunks = 1
INVARIANTS
  OneEndPerQuestion
  StreamedIsStored
  RequestsAreWhole
PROPERTIES
  EveryQuestionEnds
