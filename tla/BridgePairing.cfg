SPECIFICATION Spec
CONSTANTS
  MaxGen = 3
  MaxKills = 1
  MaxDrops = 1
  NoClient = NoClient
  StorageMayFail = TRUE
  UncheckedInput = TRUE
INVARIANTS
  EndsAgree
  UnpairIsFinal
  UnpairedButForFailures
PROPERTIES
  StaleClientIsSilent
  AttemptsEnd
CHECK_DEADLOCK FALSE
