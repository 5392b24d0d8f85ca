SPECIFICATION Spec
CONSTANTS
  Tabs = {t1, t2}
  NoSession = NoSession
  NoRead = NoRead
  MaxDocs = 2
  MaxKills = 1
  MaxIds = 2
  MaxQueue = 2
SYMMETRY Symmetry
INVARIANTS
  SessionsAreSound
  StorageFollowsMemory
  LoadedPageIsReachable
PROPERTIES
  IdIsKept
CHECK_DEADLOCK FALSE
