SPECIFICATION Spec
CONSTANTS
  Ops = {o1, o2}
  Absent = Absent
  NoJournal = NoJournal
  NoTimer = NoTimer
  MaxTakeBacks = 1
  MaxPanels = 1
  MaxKills = 0
  TabMayClose = FALSE
  StorageMayFail = FALSE
SYMMETRY Symmetry
PROPERTIES
  UndoIsNotLost
CHECK_DEADLOCK FALSE
