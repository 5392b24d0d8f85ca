SPECIFICATION Spec
CONSTANTS
  Commands = {c1}
  Locals = {l1}
  Tabs = {t1, t2}
  NoTab = NoTab
  NoEntry = NoEntry
  NoPending = NoPending
  NoVerdict = NoVerdict
  Bus = {"admits", "denies"}
  MaxNavs = 1
  MaxLinks = 2
  MaxPushes = 1
SYMMETRY Symmetry
INVARIANTS
  CommandsAreKept
  VerdictIsOfItsPage
  LocalIsAnswered
PROPERTIES
  EndedSessionIsSilent
CHECK_DEADLOCK FALSE
