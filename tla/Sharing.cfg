\* Three calls of two agents, one change of permission between them.
SPECIFICATION Spec
CONSTANTS
  ana = ana
  bob = bob
  Agents = {ana, bob}
  Nobody = Nobody
  Names = {"plan"}
  MaxCalls = 3
  MaxShares = 1
SYMMETRY Alike
INVARIANTS
  AccessIsGranted
  TwinsOverlapped
