SPECIFICATION Spec
CONSTANTS
  Els = {e1, e2}
  Props = {p1}
  NoOp = NoOp
  NoGesture = NoGesture
  MaxOps = 4
  MaxRenders = 1
SYMMETRY Symmetry
INVARIANTS
  OverridesAreSound
  NothingIsLeftBehind
  NoStrayPreview
CHECK_DEADLOCK FALSE
