SPECIFICATION Spec
CONSTANTS
  NoKey = NoKey
  GroupBits = 3
  Width = 7
  Party = {1, 3}
  MaxBundles = 2
  MaxInvites = 1
  MaxInitiations = 2
INVARIANTS TypeOK ParsedIsAuthentic Agreement SentIsTaken
CONSTRAINT AcceptedWhileInitiating
