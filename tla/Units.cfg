SPECIFICATION Spec
CONSTANTS
  Elements = {e1, e2}
  Pointers = {1, 2}
  Nobody = Nobody
  Items = {"one", "two", "deep"}
  Context <- ContextOf
  Chain <- ChainOf
  NoGroup = NoGroup
  Boxes = {"b1", "b2"}
  Parents = {"ul", "ol"}
  Fingers = {1, 2}
  MaxMoves = 1
  Tags = {a, b}
  Root = b
  NoTag = NoTag
  MaxRevision = 2
  MaxDocuments = 2
  Contexts = {"item", "block"}
  Handles = {"e", "n", "ne", "w"}
  Touches = {t1, t2}
  Route <- RouteOf
  NoOne = NoOne
  Nodes = {10, 11}
  Offers <- OffersOf
  Unshown = 99
  Origins <- OriginList
  AllSites = "all"
  Loopback = "localhost"
  Sidebars = {p, q}
  MaxWishes = 2
  MaxWakes = 1
  Pages = {"t1", "t2"}
  FramesOf <- FramesIn
  Loading = {"t1"}
  PageModes = {"Move"}
  Editors = {"style"}
  NoMode = "none"
  StepsOf <- ActsOf
  OpenedTabs = {1, 2}
  MaxChanges = 1
  MaxGenerations = 2
  MaxLinks = 2
  MaxWire = 1
  MaxTasks = 1
  MaxRestarts = 1
  Ops = {o1, o2, o3, o4}
  Absent = Absent
INVARIANTS
  StacksInOrder
  ServedIsCurrent
  MessagesArrive
  HostsAreGranted
  GesturesLeaveNothing
  SelectionAgrees
PROPERTIES
  ImplementsHistory
  RecordedIsReal
CHECK_DEADLOCK FALSE
