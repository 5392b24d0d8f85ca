SPECIFICATION Spec
CONSTANTS
  Ops = {o1, o2}
  Absent = Absent
  NoJournal = NoJournal
  NoTimer = NoTimer
  MaxTakeBacks = 1
  MaxPanels = 2
  MaxKills = 0
  TabMayClose = FALSE
  StorageMayFail = FALSE
PROPERTIES
  EchoesDieOut
CHECK_DEADLOCK FALSE
