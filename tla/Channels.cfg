\* Each channel under each policy, two direct chats and two groups, with a restart.
SPECIFICATION FairSpec
CONSTANTS
  ana = ana
  bob = bob
  team = team
  hall = hall
  any = any
  Kinds = {"telegram", "discord", "slack", "matrix", "signal"}
  Policies = {"open", "allowlist", "pairing"}
  Dms = {ana, bob}
  Groups = {team, hall}
  Unlisted = {bob, hall}
  Allowed = {ana}
  HomeOf <- Writer
  Bindings <- SomeBindings
  Any = any
  Fallback = "main"
  Texts <- SomeTexts
  Askers = {ana}
  MaxMessages = 2
  MaxCodes = 1
  MaxStarts = 2
INVARIANTS
  TakenOnceInOrder
  AnsweredWhereAsked
  PairedAreServed
PROPERTIES
  EveryQuestionIsTaken
