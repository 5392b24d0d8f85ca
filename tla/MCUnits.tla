------------------------------ MODULE MCUnits ------------------------------
(***************************************************************************)
(* Components whose state machines are small, each on its own: the first   *)
(* state chooses the one that a behaviour is about, the others stand still.*)
(***************************************************************************)
EXTENDS InteractionMachine, GroupSelection, MoveDrag, OverlaySelection, ResizeHandles, PropertyInspector, HostAccess,
        MessageRouting, SnapshotPush, ChangeJournal

VARIABLE unit  \* the machine that this behaviour is about

\* Two elements of one document and one in a shadow tree.
ContextOf(e) == IF e = "deep" THEN "open-shadow-root" ELSE "light-dom"
ChainOf(e) == IF e = "deep" THEN <<"html", "host">> ELSE <<"html", "list">>

\* A flex item between two others, with a corner; and a block.
RouteOf(c, h) ==
  IF c = "block" THEN "not-flex"
  ELSE CASE h = "e" -> "pair" [] h = "n" -> "cross-axis" [] h = "ne" -> "corner-disabled" [] h = "w" -> "rejected"

\* An element with a class, and a container of two children.
OffersOf(n) == IF n = 10 THEN {"color", "text", "class"} ELSE {"length", "gap", "padding-top"}

OriginList == <<"all", "localhost", "h1", "h2">>

\* The tab we look at, with a frame in its page, and another whose panel hears the same
\* broadcasts.
FramesIn(t) == IF t = "t1" THEN {0, 1} ELSE {0}
ActsOf(t) == IF t = "t1" THEN 2 ELSE 0

allVars == <<unit, machineVars, groupVars, dragVars, selectionVars, resizeVars, inspectorVars, hostVars, routingVars, snapshotVars, journal>>

Init ==
  /\ unit \in {"machine", "group", "drag", "selection", "resize", "inspector", "hosts", "messages", "snapshots", "journal"}
  /\ MachineInit /\ GroupInit /\ DragInit /\ SelectionInit /\ ResizeInit /\ InspectorInit /\ HostInit /\ RoutingInit /\ SnapshotInit /\ JournalInit
  /\ unit # "drag" => kids["ul"] = <<"b1", "b2">>
  /\ IF unit = "hosts" THEN stored = <<"h1">> ELSE stored = <<>> /\ granted = {AllSites}
  /\ unit # "messages" => due["t1"] = {}

Next ==
  \/ unit = "machine" /\ MachineNext /\ UNCHANGED <<unit, groupVars, dragVars, selectionVars, resizeVars, inspectorVars, hostVars, routingVars, snapshotVars, journal>>
  \/ unit = "group" /\ GroupNext /\ UNCHANGED <<unit, machineVars, dragVars, selectionVars, resizeVars, inspectorVars, hostVars, routingVars, snapshotVars, journal>>
  \/ unit = "drag" /\ DragNext /\ UNCHANGED <<unit, machineVars, groupVars, selectionVars, resizeVars, inspectorVars, hostVars, routingVars, snapshotVars, journal>>
  \/ unit = "selection" /\ SelectionNext /\ UNCHANGED <<unit, machineVars, groupVars, dragVars, resizeVars, inspectorVars, hostVars, routingVars, snapshotVars, journal>>
  \/ unit = "resize" /\ ResizeNext /\ UNCHANGED <<unit, machineVars, groupVars, dragVars, selectionVars, inspectorVars, hostVars, routingVars, snapshotVars, journal>>
  \/ unit = "inspector" /\ InspectorNext /\ UNCHANGED <<unit, machineVars, groupVars, dragVars, selectionVars, resizeVars, hostVars, routingVars, snapshotVars, journal>>
  \/ unit = "hosts" /\ HostNext /\ UNCHANGED <<unit, machineVars, groupVars, dragVars, selectionVars, resizeVars, inspectorVars, routingVars, snapshotVars, journal>>
  \/ unit = "messages" /\ RoutingNext /\ UNCHANGED <<unit, machineVars, groupVars, dragVars, selectionVars, resizeVars, inspectorVars, hostVars, snapshotVars, journal>>
  \/ unit = "snapshots" /\ SnapshotNext /\ UNCHANGED <<unit, machineVars, groupVars, dragVars, selectionVars, resizeVars, inspectorVars, hostVars, routingVars, journal>>
  \/ unit = "journal" /\ JournalNext /\ UNCHANGED <<unit, machineVars, groupVars, dragVars, selectionVars, resizeVars, inspectorVars, hostVars, routingVars, snapshotVars>>

Spec == Init /\ [][Next]_allVars

------------------------------------------------------------------------------
(* What is asked of the interaction layer as a whole.                      *)

\* Whatever ends a gesture (release, cancel, Escape, a mode change, a lost
\* capture, a new selection), nothing of it stays: each begun gesture is ended
\* once in the machine, a drag leaves no capture, ghost or listener, and a
\* property that is not being dragged has the value the page has.
GesturesLeaveNothing == GesturesAreBalanced /\ NothingOutlivesTheGesture /\ PreviousIsOnThePage

\* The panel, the overlay and the handles are about one selection: the panel
\* shows the group the page has, the summary that the page published last, and
\* the handles are attached to what is selected.
SelectionAgrees == PanelShowsTheGroup /\ SelectionIsShown /\ HandlesAreOfTheSelection

\* What a gesture records is what the user has seen done, on the element that
\* was shown when it was made: by a drop, a resize or a property's handle.
RecordedIsReal == RecordedIsDone /\ RecordedIsAttached /\ EditsAreOfTheShown
=============================================================================
