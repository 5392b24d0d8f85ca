SPECIFICATION Spec
CONSTANTS
  Ops = {o1, o2}
  Absent = Absent
  NoJournal = NoJournal
  NoTimer = NoTimer
  MaxTakeBacks = 1
  MaxPanels = 2
  MaxKills = 1
  TabMayClose = TRUE
  StorageMayFail = TRUE
SYMMETRY Symmetry
INVARIANTS
  EveryCopyIsSound
  MemoryMatchesStorage
CHECK_DEADLOCK FALSE
