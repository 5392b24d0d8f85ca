SPECIFICATION Spec
CONSTANTS
  Tabs = {t1, t2}
  Sessions = {s1, s2, s3}
  NoSession = NoSession
  Sockets = {w1, w2}
  NoSocket = NoSocket
  NoTab = NoTab
  NoEntry = NoEntry
  NoResult = NoResult
  NoFocus = NoFocus
  MaxRetired = 2
  MaxRev = 2
  MaxTs = 1
SYMMETRY Symmetry
INVARIANTS
  WellFormed
  DeadGenerationsStayOut
  AnswersAgree
PROPERTIES
  FocusMovesToLiveGenerations
  ImplementsPromise
