SPECIFICATION Spec
CHECK_DEADLOCK FALSE
INVARIANTS
  ShownIsDone
  ResizeIsAsShown
  IntentsAreReal
  OperationsCompose
  VerdictsAreReal
  ContextIsSafe
  PanelIsTrue
  OriginsAreRead
