SPECIFICATION Spec
CONSTANTS
  Commands = {c1}
  Locals = {}
  Tabs = {t1, t2}
  NoTab = NoTab
  NoEntry = NoEntry
  NoPending = NoPending
  NoVerdict = NoVerdict
  Bus = {"denies"}
  MaxNavs = 0
  MaxLinks = 1
  MaxPushes = 1
INVARIANTS
  VerificationIsProjected
CHECK_DEADLOCK FALSE
