---------------------------- MODULE UnitsProofs ----------------------------
(***************************************************************************)
(* What is proved of the machines of MCUnits: of the gestures that begin   *)
(* and end (InteractionMachine, MoveDrag, PropertyInspector), of the one   *)
(* selection (GroupSelection, OverlaySelection, ResizeHandles), of what    *)
(* is recorded, of ChangeJournal, of HostAccess, SnapshotPush and          *)
(* MessageRouting.  Each machine has a lemma for its own step, under the   *)
(* invariant that it keeps; a step of the whole is a step of one of them.  *)
(***************************************************************************)
EXTENDS MCUnits, JournalOpsProofs

\* A step of the whole is a step of one machine; the others stand still.
LEMMA EachOnItsOwn ==
  ASSUME [Next]_allVars
  PROVE  /\ [MachineNext]_machineVars /\ [GroupNext]_groupVars /\ [DragNext]_dragVars
         /\ [SelectionNext]_selectionVars /\ [ResizeNext]_resizeVars /\ [InspectorNext]_inspectorVars
         /\ [HostNext]_hostVars /\ [RoutingNext]_routingVars /\ [SnapshotNext]_snapshotVars
         /\ [JournalNext]_journal
<1>1. CASE Next
  BY <1>1 DEF Next
<1>2. CASE UNCHANGED allVars
  BY <1>2 DEF allVars
<1>3. QED BY <1>1, <1>2

MachineType ==
  [value : InteractionStates, selection : Elements \cup {Nobody}, pending : Elements \cup {Nobody}, owner : Owners,
   target : Elements \cup {Nobody}, resizing : BOOLEAN, preview : Previews \cup {"none"}]

\* A gesture that ends leaves the pointer free, and its own part of the context empty.
LEMMA GestureEnds ==
  ASSUME MachineTypeOK, NEW kind \in {"drag", "resize"}, NEW ended, endGesture(kind, ended)
  PROVE  /\ machine' \in MachineType
         /\ machine'.value = "selected" /\ machine'.owner = NoOwner
         /\ machine'.target = (IF kind = "drag" THEN Nobody ELSE machine.target)
         /\ machine'.preview = (IF kind = "drag" THEN "none" ELSE machine.preview)
         /\ machine'.resizing = (IF kind = "drag" THEN machine.resizing ELSE FALSE)
         /\ begun' = begun \ ended /\ left' = left
<1> USE DEF MachineTypeOK, MachineType, endGesture, Becomes, NoOwner, Owners
<1>1. machine \in MachineType
  BY DEF MachineType
<1>2. "selected" \in InteractionStates
  BY DEF InteractionStates, SelectedStates
<1>3. CASE kind = "drag"
  BY <1>1, <1>2, <1>3, Zenon
<1>4. CASE kind = "resize"
  BY <1>1, <1>2, <1>4, Zenon
<1>5. QED BY <1>3, <1>4

\* What is left is at rest if the gesture that ends is all that was going on.
LEMMA GestureEndsBalanced ==
  ASSUME GesturesAreBalanced, NEW kind \in {"drag", "resize"}, NEW ended, endGesture(kind, ended),
         begun \ ended \subseteq {"outline", "inspector"},
         kind = "drag" => ~machine.resizing,
         kind = "resize" => machine.target = Nobody /\ machine.preview = "none"
  PROVE  GesturesAreBalanced'
<1>1. MachineTypeOK
  BY DEF GesturesAreBalanced
<1>2. /\ machine' \in MachineType
      /\ machine'.value = "selected" /\ machine'.owner = NoOwner
      /\ machine'.target = (IF kind = "drag" THEN Nobody ELSE machine.target)
      /\ machine'.preview = (IF kind = "drag" THEN "none" ELSE machine.preview)
      /\ machine'.resizing = (IF kind = "drag" THEN machine.resizing ELSE FALSE)
      /\ begun' = begun \ ended /\ left' = left
  BY <1>1, GestureEnds, Zenon
<1>3. MachineTypeOK'
  BY <1>1, <1>2 DEF MachineTypeOK, MachineType
<1>4. machine'.target = Nobody /\ machine'.preview = "none"
  BY <1>2
<1>5. ~machine'.resizing
  BY <1>2
<1>6. /\ "drag" \notin begun' /\ "resize" \notin begun' /\ "marquee" \notin begun'
      /\ "preview" \notin begun' /\ "verify" \notin begun'
  BY <1>2
<1>7. /\ ~At(DraggingStates \cup {"preparing-drag"})' /\ ~At({"resizing"})' /\ ~At({"marquee-selecting"})'
      /\ ~At(PreviewStates)' /\ ~At({"verifying"})' /\ ~At(PointerOwningStates)'
  BY <1>2 DEF At, DraggingStates, PreviewStates, PointerOwningStates
<1>8. QED BY <1>2, <1>3, <1>4, <1>5, <1>6, <1>7 DEF GesturesAreBalanced

\* Every event that the machine applies begins and ends what the value says goes on.
LEMMA MachineStep ==
  ASSUME GesturesAreBalanced, [MachineNext]_machineVars
  PROVE  GesturesAreBalanced'
<1> DEFINE Rest == {"outline", "inspector"}
<1> USE MachineAssumption
<1>a. /\ MachineTypeOK /\ begun \subseteq {"outline", "drag", "resize", "marquee", "preview", "verify", "inspector"}
      /\ machine \in MachineType
  BY DEF GesturesAreBalanced, MachineTypeOK, MachineType
<1>b. ASSUME At(PreviewStates) PROVE ~machine.resizing /\ begun \ {"preview", "drag"} \subseteq Rest
  BY <1>a, <1>b DEF GesturesAreBalanced, At, PreviewStates, DraggingStates, InteractionStates, SelectedStates, PointerOwningStates
<1>c. ASSUME At({"dragging", "preparing-drag"}) PROVE ~machine.resizing /\ begun \ {"drag"} \subseteq Rest
  BY <1>a, <1>c DEF GesturesAreBalanced, At, PreviewStates, DraggingStates, InteractionStates, SelectedStates, PointerOwningStates
<1>d. ASSUME At({"resizing"})
      PROVE  machine.target = Nobody /\ machine.preview = "none" /\ begun \ {"resize"} \subseteq Rest
  BY <1>a, <1>d DEF GesturesAreBalanced, At, PreviewStates, DraggingStates, InteractionStates, SelectedStates, PointerOwningStates
<1>e. ASSUME At({"marquee-selecting"}) PROVE ~machine.resizing /\ begun \ {"marquee"} \subseteq Rest
  BY <1>a, <1>e DEF GesturesAreBalanced, At, PreviewStates, DraggingStates, InteractionStates, SelectedStates, PointerOwningStates
<1>1. CASE At(PreviewStates) /\ endGesture("drag", {"preview", "drag"})
  BY <1>1, <1>b, GestureEndsBalanced
<1>2. CASE At({"dragging", "preparing-drag"}) /\ endGesture("drag", {"drag"})
  BY <1>2, <1>c, GestureEndsBalanced
<1>3. CASE At({"resizing"}) /\ endGesture("resize", {"resize"})
  BY <1>3, <1>d, GestureEndsBalanced
<1>4. CASE At({"marquee-selecting"}) /\ endGesture("drag", {"marquee"})
  BY <1>4, <1>e, GestureEndsBalanced
<1> USE DEF GesturesAreBalanced, MachineTypeOK, At, Becomes, Goes, InitialMachine, NoOwner, Owners,
            Previews, PreviewStates, DraggingStates, PointerOwningStates, SelectedStates, InteractionStates
<1>5. CASE PageReload
  BY <1>5, Zenon DEF PageReload
<1>6. CASE Disconnect
  BY <1>6 DEF Disconnect
<1>7. CASE Reconnect
  BY <1>7 DEF Reconnect
<1>8. CASE fromVerifying
  BY <1>8 DEF fromVerifying
<1>9. CASE At({"preparing-drag"}) /\ Goes("dragging", {}, {})
  BY <1>9
<1>10. CASE fromEditing
  BY <1>10 DEF fromEditing
<1>11. CASE fromDragging
  <2>1. CASE \E k \in Previews :
          Becomes([machine EXCEPT !.value = previewLeafOf(k), !.preview = k], {}, {"preview"})
    <3>1. PICK k \in Previews : Becomes([machine EXCEPT !.value = previewLeafOf(k), !.preview = k], {}, {"preview"})
      BY <2>1, Zenon
    <3>2. previewLeafOf(k) \in PreviewStates /\ k # "none"
      BY DEF previewLeafOf
    <3>3. QED BY <3>1, <3>2, <1>11, Zenon DEF fromDragging
  <2>2. QED BY <2>1, <1>2, <1>11 DEF fromDragging
<1>12. CASE fromPreview
  <2>1. CASE Becomes([machine EXCEPT !.value = "dragging", !.preview = "none"], {"preview"}, {})
    BY <2>1, <1>12, Zenon DEF fromPreview
  <2>2. QED BY <2>1, <1>1, <1>12 DEF fromPreview
<1>13. CASE \E e \in Elements : fromIdle(e) \/ fromHovering(e) \/ fromAwaitingCommit(e)
  <2>1. PICK e \in Elements : fromIdle(e) \/ fromHovering(e) \/ fromAwaitingCommit(e)
    BY <1>13
  <2>2. CASE fromIdle(e)
    <3>1. CASE Goes("hovering", {}, {})
      BY <2>2, <3>1 DEF fromIdle
    <3>2. CASE Becomes([machine EXCEPT !.value = "awaiting-commit", !.pending = e], {}, {"outline"})
      BY <2>2, <3>2, Zenon DEF fromIdle
    <3>3. QED BY <2>2, <3>1, <3>2 DEF fromIdle
  <2>3. CASE fromHovering(e)
    <3>1. CASE Goes("idle", {}, {})
      BY <2>3, <3>1 DEF fromHovering
    <3>2. CASE Becomes([machine EXCEPT !.value = "awaiting-commit", !.pending = e], {}, {"outline"})
      BY <2>3, <3>2, Zenon DEF fromHovering
    <3>3. QED BY <2>3, <3>1, <3>2 DEF fromHovering
  <2>4. CASE fromAwaitingCommit(e)
    <3>1. CASE /\ machine.pending # Nobody
               /\ Becomes([machine EXCEPT !.value = "selected", !.selection = machine.pending, !.pending = Nobody],
                          {}, {"inspector"})
      BY <2>4, <3>1, Zenon DEF fromAwaitingCommit
    <3>2. CASE Becomes([machine EXCEPT !.pending = e], {}, {"outline"})
      BY <2>4, <3>2 DEF fromAwaitingCommit
    <3>3. CASE Becomes([machine EXCEPT !.value = "idle", !.selection = Nobody, !.pending = Nobody], {"outline"}, {})
      BY <2>4, <3>3, Zenon DEF fromAwaitingCommit
    <3>4. QED BY <2>4, <3>1, <3>2, <3>3 DEF fromAwaitingCommit
  <2>5. QED BY <2>1, <2>2, <2>3, <2>4
<1>14. CASE \E e \in Elements, p \in Pointers : fromSelectedRest(e, p)
  <2>1. PICK e \in Elements, p \in Pointers : fromSelectedRest(e, p)
    BY <1>14
  <2>2. CASE startDrag(p, e)
    BY <2>1, <2>2, Zenon DEF startDrag, Acquire, fromSelectedRest
  <2>3. CASE startResize(p)
    BY <2>1, <2>3, Zenon DEF startResize, Acquire, fromSelectedRest
  <2>4. CASE startMarquee(p)
    BY <2>1, <2>4, Zenon DEF startMarquee, Acquire, fromSelectedRest
  <2>5. CASE \E v \in {"editing-text", "editing-style"} : Goes(v, {}, {})
    BY <2>1, <2>5 DEF fromSelectedRest
  <2>6. CASE Goes("verifying", {}, {"verify"})
    BY <2>1, <2>6 DEF fromSelectedRest
  <2>7. CASE Becomes([machine EXCEPT !.value = "idle", !.selection = Nobody, !.pending = Nobody], {"inspector", "outline"}, {})
    BY <2>1, <2>7, Zenon DEF fromSelectedRest
  <2>8. CASE Becomes([machine EXCEPT !.value = "awaiting-commit", !.selection = e, !.pending = Nobody], {"inspector"}, {"outline"})
    BY <2>1, <2>8, Zenon DEF fromSelectedRest
  <2>9. QED BY <2>1, <2>2, <2>3, <2>4, <2>5, <2>6, <2>7, <2>8 DEF fromSelectedRest
<1>15. CASE UNCHANGED machineVars
  BY <1>15 DEF machineVars
<1>16. QED
  BY <1>1, <1>2, <1>3, <1>4, <1>5, <1>6, <1>7, <1>8, <1>9, <1>10, <1>11, <1>12, <1>13, <1>14, <1>15
     DEF MachineNext, cancelActiveGesture, fromPreparingDrag, fromResizing, fromMarqueeSelecting

\* The one place where a gesture ends lets go of all that it holds.
LEMMA ClearLeavesNothing ==
  ASSUME NothingOutlivesTheGesture, clear
  PROVE  NothingOutlivesTheGesture'
<1>1. gesture'.kind # "dragging" /\ shows' = Nothing
  BY DEF clear, None
<1>2. captured' = {}
  BY DEF clear, NothingOutlivesTheGesture
<1>3. QED BY <1>1, <1>2 DEF NothingOutlivesTheGesture

\* So does a release: the browser takes back every capture of the finger.
LEMMA ReleaseLeavesNothing ==
  ASSUME NothingOutlivesTheGesture, NEW f, gesture.finger = f, Ends, Release(f)
  PROVE  NothingOutlivesTheGesture'
<1>1. gesture'.kind # "dragging" /\ shows' = Nothing
  BY DEF Ends, None
<1>2. captured' = {}
  BY DEF Release, NothingOutlivesTheGesture
<1>3. QED BY <1>1, <1>2 DEF NothingOutlivesTheGesture

\* A drag that goes on keeps at most the capture it began with.
LEMMA DragStep ==
  ASSUME NothingOutlivesTheGesture, [DragNext]_dragVars
  PROVE  NothingOutlivesTheGesture'
<1>1. ASSUME Tracks, gesture.kind = "dragging" PROVE NothingOutlivesTheGesture'
  BY <1>1, ClearLeavesNothing DEF Tracks, cancel, NothingOutlivesTheGesture
<1>2. ASSUME NEW f \in Fingers, DragBegins(f) PROVE NothingOutlivesTheGesture'
  <2>1. captured = {} /\ shows = Nothing
    BY <1>2 DEF DragBegins, NothingOutlivesTheGesture
  <2>2. CASE gesture' = None /\ UNCHANGED <<captured, shows>>
    BY <2>1, <2>2 DEF None, NothingOutlivesTheGesture
  <2>3. CASE \E p \in ParentOf(gesture.selected), r \in Resolutions(gesture.selected) :
               beginActive(f, gesture.selected, p) /\ update(r)
    BY <2>1, <2>3 DEF beginActive, Dragging, NothingOutlivesTheGesture
  <2>4. QED BY <1>2, <2>2, <2>3 DEF DragBegins
<1>3. ASSUME NEW f \in Fingers,
             onPointerUp(f) \/ onPointerCancel(f) \/ onLostPointerCapture(f)
      PROVE  NothingOutlivesTheGesture'
  BY <1>3, ReleaseLeavesNothing DEF onPointerUp, onPointerCancel, onLostPointerCapture
<1>4. ASSUME NEW f \in Fingers, onPointerMove(f) PROVE NothingOutlivesTheGesture'
  BY <1>1, <1>4 DEF onPointerMove
<1>5. ASSUME NEW f \in Fingers, NEW e \in Boxes, onPointerDown(f, e) PROVE NothingOutlivesTheGesture'
  BY <1>5 DEF onPointerDown, Armed, None, NothingOutlivesTheGesture
<1>6. CASE ScrollFrame
  <2>1. CASE Tracks
    BY <1>1, <1>6, <2>1 DEF ScrollFrame
  <2>2. QED BY <2>1, <1>6 DEF ScrollFrame, NothingOutlivesTheGesture
<1>7. CASE \/ onKeyDownOrBlur \/ detach \/ setSelection({}) \/ \E e \in Boxes : setSelection({e})
  BY <1>7, ClearLeavesNothing DEF onKeyDownOrBlur, detach, setSelection, cancel
<1>8. CASE onClick \/ attach \/ \E e \in Boxes : PageChanges(e)
  BY <1>8 DEF onClick, attach, PageChanges, NothingOutlivesTheGesture
<1>9. CASE UNCHANGED dragVars
  BY <1>9 DEF dragVars, NothingOutlivesTheGesture
<1>10. QED BY <1>2, <1>3, <1>4, <1>5, <1>6, <1>7, <1>8, <1>9 DEF DragNext

Values == 0..Unread

InspectorTyped ==
  /\ site \in [Nodes -> [Inputs -> Values]]
  /\ previous \in [Inputs -> Values] /\ boxes \in [Inputs -> Values]
  /\ latestGap \in Values /\ drag \in Values \cup {Unshown}
  /\ current \in Nodes \cup {Unshown}

\* The inspector has values for every input, and its claims hold.
InspectorSound == InspectorTyped /\ PreviousIsOnThePage

\* An edit sets its own value of its own element, and nothing else.
LEMMA EmittedIs ==
  ASSUME InspectorTyped, NEW edits, \A e \in edits : e.to \in Values
  PROVE  /\ Emitted(edits) \in [Nodes -> [Inputs -> Values]]
         /\ \A n \in Nodes, i \in Inputs :
              (\A e \in edits : ~(e.of = n /\ e.input = i)) => Emitted(edits)[n][i] = site[n][i]
         /\ \A n \in Nodes, i \in Inputs : \A from, to :
              edits = {Edit(n, i, from, to)} => Emitted(edits)[n][i] = to
<1> DEFINE Set(n, i) == IF \E e \in edits : e.of = n /\ e.input = i
                        THEN (CHOOSE e \in edits : e.of = n /\ e.input = i).to ELSE site[n][i]
<1>1. Emitted(edits) = [n \in Nodes |-> [i \in Inputs |-> Set(n, i)]]
  BY DEF Emitted
<1>2. ASSUME NEW n \in Nodes, NEW i \in Inputs PROVE Set(n, i) \in Values
  <2>1. site[n][i] \in Values
    BY DEF InspectorTyped
  <2>2. QED BY <2>1
<1>3. ASSUME NEW n \in Nodes, NEW i \in Inputs, NEW from, NEW to, edits = {Edit(n, i, from, to)}
      PROVE  Set(n, i) = to
  <2>1. Edit(n, i, from, to) \in edits /\ \A e \in edits : e = Edit(n, i, from, to)
    BY <1>3
  <2>2. Edit(n, i, from, to).of = n /\ Edit(n, i, from, to).input = i /\ Edit(n, i, from, to).to = to
    BY DEF Edit
  <2>3. (CHOOSE e \in edits : e.of = n /\ e.input = i) \in edits
    BY <2>1, <2>2
  <2>4. QED BY <2>1, <2>2, <2>3
<1>4. ASSUME NEW n \in Nodes, NEW i \in Inputs, \A e \in edits : ~(e.of = n /\ e.input = i)
      PROVE  Set(n, i) = site[n][i]
  BY <1>4
<1> HIDE DEF Set
<1>5. Emitted(edits) \in [Nodes -> [Inputs -> Values]]
  BY <1>1, <1>2
<1>6. \A n \in Nodes, i \in Inputs : Emitted(edits)[n][i] = Set(n, i)
  BY <1>1
<1>7. QED BY <1>3, <1>4, <1>5, <1>6

\* Whatever ends a drag sets the gap of what is shown, and no other value.
LEMMA DragEditsAre ==
  ASSUME InspectorTyped
  PROVE  \A e \in DragEdits : e.to \in Values /\ e.input = "gap"
BY DEF InspectorTyped, DragEdits, Edit

\* Every step of the inspector keeps its values and what it takes for the previous ones.
LEMMA InspectorStep ==
  ASSUME InspectorSound, [InspectorNext]_inspectorVars
  PROVE  InspectorSound'
<1> USE InspectorAssumption
<1>a. InspectorTyped /\ PreviousIsOnThePage
  BY DEF InspectorSound
<1>b. /\ Lengths \subseteq Values /\ Unread \in Values /\ 0 \in Values /\ 1 \in Values
      /\ {"color", "length", "text", "class", "gap", "padding-top"} \subseteq Inputs
      /\ Seeded = {"gap", "padding-top"} /\ Sides = {"padding-top"}
  BY DEF Lengths, Values, Unread, Inputs, Seeded, Sides
<1>1. ASSUME NEW n \in Nodes, showFor(n) PROVE InspectorSound'
  <2>1. site' \in [Nodes -> [Inputs -> Values]]
    BY <1>a, <1>1, EmittedIs, DragEditsAre DEF showFor, emit
  <2>2. previous' = site'[n] /\ previous' \in [Inputs -> Values] /\ latestGap' \in Values
    BY <1>1, <2>1, <1>b DEF showFor, Read
  <2>3. boxes' \in [Inputs -> Values] /\ boxes'["class"] = site'[n]["class"]
    <3>1. \A i \in Inputs : InputFor(i, site'[n][i]) \in Values
      BY <2>1, <1>b DEF InputFor
    <3>2. boxes' = [i \in Inputs |-> InputFor(i, site'[n][i])]
      BY <1>1 DEF showFor, Read
    <3>3. InputFor("class", site'[n]["class"]) = site'[n]["class"]
      BY DEF InputFor
    <3>4. QED BY <3>1, <3>2, <3>3, <1>b
  <2>4. drag' = Unshown /\ held' = Unshown /\ current' = n
    BY <1>1 DEF showFor
  <2>5. InspectorTyped'
    BY <2>1, <2>2, <2>3, <2>4 DEF InspectorTyped
  <2>6. PreviousIsOnThePage'
    BY <2>2, <2>3, <2>4 DEF PreviousIsOnThePage
  <2>7. QED BY <2>5, <2>6 DEF InspectorSound
<1>2. CASE hide
  <2>1. site' \in [Nodes -> [Inputs -> Values]]
    BY <1>a, <1>2, EmittedIs, DragEditsAre DEF hide, emit
  <2>2. QED BY <2>1, <1>2, <1>b DEF hide, Empty, InspectorSound, InspectorTyped, PreviousIsOnThePage
<1>3. ASSUME NEW i \in {"color", "length", "text"}, NEW next \in Lengths, Changed(i, next)
      PROVE  InspectorSound'
  <2> DEFINE edits == IF next = previous[i] THEN {} ELSE {Edit(current, i, previous[i], next)}
  <2>1. current \in Nodes /\ i \in Inputs /\ i \notin Seeded /\ i # "class" /\ next \in Values
    BY <1>a, <1>b, <1>3 DEF Changed, InspectorTyped
  <2>2. \A e \in edits : e.to = next /\ e.of = current /\ e.input = i
    BY DEF Edit
  <2>3. site' = Emitted(edits)
    BY <1>3 DEF Changed, emit
  <2>4. next # previous[i] => edits = {Edit(current, i, previous[i], next)}
    OBVIOUS
  <2>5. next = previous[i] => \A e \in edits : ~(e.of = current /\ e.input = i)
    OBVIOUS
  <2> HIDE DEF edits
  <2>6. site' \in [Nodes -> [Inputs -> Values]]
    BY <1>a, <2>1, <2>2, <2>3, EmittedIs
  <2>7. \A j \in Inputs : j # i => site'[current][j] = site[current][j]
    BY <1>a, <2>1, <2>2, <2>3, EmittedIs
  <2>8. i \notin behind => site'[current][i] = next
    <3>1. CASE next # previous[i]
      BY <1>a, <2>1, <2>2, <2>3, <2>4, <3>1, EmittedIs
    <3>2. CASE next = previous[i]
      <4>1. site'[current][i] = site[current][i]
        BY <1>a, <2>1, <2>2, <2>3, <2>5, <3>2, EmittedIs
      <4>2. QED BY <4>1, <3>2, <2>1, <1>a DEF PreviousIsOnThePage, InspectorTyped
    <3>3. QED BY <3>1, <3>2
  <2>9. /\ boxes' = [boxes EXCEPT ![i] = next] /\ previous' = [previous EXCEPT ![i] = next]
        /\ UNCHANGED <<current, drag, latestGap, held, behind>>
    BY <1>3 DEF Changed
  <2>10. InspectorTyped'
    BY <1>a, <2>1, <2>6, <2>9 DEF InspectorTyped
  <2>11. PreviousIsOnThePage'
    <3>1. ASSUME NEW j \in Inputs \ (Seeded \cup behind)
          PROVE  previous'[j] = site'[current][j] /\ (j = "class" => boxes'[j] = site'[current][j])
      <4>1. CASE j = i
        BY <1>a, <2>1, <2>8, <2>9, <3>1, <4>1 DEF InspectorTyped
      <4>2. CASE j # i
        <5>1. previous'[j] = previous[j] /\ boxes'[j] = boxes[j]
          BY <1>a, <2>9, <4>2 DEF InspectorTyped
        <5>2. previous[j] = site[current][j] /\ (j = "class" => boxes[j] = site[current][j])
          BY <1>a, <2>1, <3>1, <1>3 DEF PreviousIsOnThePage, Changed
        <5>3. QED BY <5>1, <5>2, <2>7, <3>1, <4>2
      <4>3. QED BY <4>1, <4>2
    <3>2. held' # Unshown => current' = held' /\ drag' # Unshown
      BY <1>a, <2>9 DEF PreviousIsOnThePage
    <3>3. QED BY <3>1, <3>2, <2>9 DEF PreviousIsOnThePage
  <2>12. QED BY <2>10, <2>11 DEF InspectorSound
<1>4. ASSUME NEW present \in {0, 1}, ClassChange(present) PROVE InspectorSound'
  <2> DEFINE edits == {Edit(current, "class", Unread, present)}
  <2>1. current \in Nodes /\ "class" \in Inputs /\ "class" \notin Seeded /\ present \in Values
    BY <1>a, <1>b, <1>4 DEF ClassChange, InspectorTyped
  <2>2. \A e \in edits : e.to = present /\ e.of = current /\ e.input = "class"
    BY DEF Edit
  <2>3. site' = Emitted(edits) /\ edits = {Edit(current, "class", Unread, present)}
    BY <1>4 DEF ClassChange, emit
  <2> HIDE DEF edits
  <2>4. site' \in [Nodes -> [Inputs -> Values]]
    BY <1>a, <2>1, <2>2, <2>3, EmittedIs
  <2>5. \A j \in Inputs : j # "class" => site'[current][j] = site[current][j]
    BY <1>a, <2>1, <2>2, <2>3, EmittedIs
  <2>6. site'[current]["class"] = present
    BY <1>a, <2>1, <2>2, <2>3, EmittedIs
  <2>7. /\ boxes' = [boxes EXCEPT !["class"] = present] /\ previous' = [previous EXCEPT !["class"] = present]
        /\ UNCHANGED <<current, drag, latestGap, held>> /\ behind' = behind \ {"class"} /\ current # Unshown
    BY <1>4 DEF ClassChange
  <2>8. InspectorTyped'
    BY <1>a, <2>1, <2>4, <2>7 DEF InspectorTyped
  <2>9. PreviousIsOnThePage'
    <3>1. ASSUME NEW j \in Inputs \ (Seeded \cup behind')
          PROVE  previous'[j] = site'[current][j] /\ (j = "class" => boxes'[j] = site'[current][j])
      <4>1. CASE j = "class"
        BY <1>a, <2>1, <2>6, <2>7, <4>1 DEF InspectorTyped
      <4>2. CASE j # "class"
        <5>1. previous'[j] = previous[j]
          BY <1>a, <2>7, <4>2 DEF InspectorTyped
        <5>2. previous[j] = site[current][j]
          BY <1>a, <2>7, <3>1, <4>2 DEF PreviousIsOnThePage
        <5>3. QED BY <5>1, <5>2, <2>5, <3>1, <4>2
      <4>3. QED BY <4>1, <4>2
    <3>2. held' # Unshown => current' = held' /\ drag' # Unshown
      BY <1>a, <2>7 DEF PreviousIsOnThePage
    <3>3. QED BY <3>1, <3>2, <2>7 DEF PreviousIsOnThePage
  <2>10. QED BY <2>8, <2>9 DEF InspectorSound
<1>5. ASSUME NEW those \in SUBSET Seeded, NEW value \in Lengths, applyCommand(those, value)
      PROVE  InspectorSound'
  <2> DEFINE edits == {Edit(current, i, previous[i], value) : i \in those}
  <2>1. current \in Nodes /\ value \in Values
    BY <1>a, <1>b, <1>5 DEF applyCommand, InspectorTyped
  <2>2. \A e \in edits : e.to = value /\ e.input \in Seeded
    BY DEF Edit
  <2>3. site' = Emitted(edits)
    BY <1>5 DEF applyCommand, emit
  <2> HIDE DEF edits
  <2>4. site' \in [Nodes -> [Inputs -> Values]]
    BY <1>a, <2>1, <2>2, <2>3, EmittedIs
  <2>5. \A j \in Inputs : j \notin Seeded => site'[current][j] = site[current][j]
    BY <1>a, <2>1, <2>2, <2>3, EmittedIs
  <2>6. /\ boxes' = [i \in Inputs |-> IF i \in those THEN value ELSE boxes[i]]
        /\ UNCHANGED <<current, previous, drag, latestGap, held, behind>> /\ current # Unshown
    BY <1>5 DEF applyCommand
  <2>7. InspectorTyped'
    BY <1>a, <2>1, <2>4, <2>6 DEF InspectorTyped
  <2>8. PreviousIsOnThePage'
    BY <1>a, <2>5, <2>6 DEF PreviousIsOnThePage
  <2>9. QED BY <2>7, <2>8 DEF InspectorSound
<1>6. CASE GapDown
  BY <1>a, <1>6 DEF GapDown, Values, InspectorSound, InspectorTyped, PreviousIsOnThePage
<1>7. ASSUME NEW gap \in Lengths, GapMoves(gap) PROVE InspectorSound'
  <2>1. InspectorTyped'
    BY <1>a, <1>b, <1>7 DEF GapMoves, InspectorTyped
  <2>2. boxes'["class"] = boxes["class"]
    BY <1>a, <1>7 DEF GapMoves, InspectorTyped
  <2>3. drag' # Unshown
    BY <1>b, <1>7 DEF GapMoves, Values
  <2>4. PreviousIsOnThePage'
    BY <1>a, <1>7, <2>2, <2>3 DEF GapMoves, PreviousIsOnThePage
  <2>5. QED BY <2>1, <2>4 DEF InspectorSound
<1>8. CASE GapUp
  <2>1. site' = Emitted(DragEdits) /\ \A e \in DragEdits : e.to \in Values /\ e.input = "gap"
    BY <1>a, <1>8, DragEditsAre DEF GapUp, emit
  <2>2. site' \in [Nodes -> [Inputs -> Values]]
    BY <1>a, <2>1, EmittedIs
  <2>3. \A n \in Nodes, j \in Inputs : j # "gap" => site'[n][j] = site[n][j]
    BY <1>a, <2>1, EmittedIs
  <2>4. InspectorTyped'
    BY <1>a, <1>8, <2>2, Zenon DEF GapUp, InspectorTyped
  <2>5. boxes'["class"] = boxes["class"]
    BY <1>a, <1>8 DEF GapUp, InspectorTyped
  <2>6. PreviousIsOnThePage'
    <3>1. \A j \in Inputs \ Seeded : current # Unshown => site'[current][j] = site[current][j]
      BY <1>a, <1>b, <2>3 DEF InspectorTyped
    <3>2. QED BY <1>a, <1>8, <2>5, <3>1 DEF GapUp, PreviousIsOnThePage
  <2>7. QED BY <2>4, <2>6 DEF InspectorSound
<1>9. ASSUME NEW n \in Nodes, NEW v \in 0..1, NEW i \in Offers(n) \cap {"length", "class"}, SomethingElse(n, i, v)
      PROVE  InspectorSound'
  <2>1. i \in Inputs /\ v \in Values
    BY <1>b DEF Values, Unread
  <2>2. InspectorTyped'
    BY <1>a, <1>9, <2>1 DEF SomethingElse, InspectorTyped
  <2>3. PreviousIsOnThePage'
    <3>1. \A j \in Inputs : (n # current \/ j # i) /\ current \in Nodes => site'[current][j] = site[current][j]
      BY <1>a, <1>9, <2>1 DEF SomethingElse, InspectorTyped
    <3>2. current # Unshown => current \in Nodes
      BY <1>a DEF InspectorTyped
    <3>3. behind \subseteq behind' /\ (n = current => i \in behind')
      BY <1>9 DEF SomethingElse
    <3>4. UNCHANGED <<current, boxes, previous, drag, latestGap, held>>
      BY <1>9 DEF SomethingElse
    <3>5. ASSUME NEW j \in Inputs \ (Seeded \cup behind'), current # Unshown
          PROVE  previous[j] = site'[current][j] /\ (j = "class" => boxes[j] = site'[current][j])
      BY <1>a, <3>1, <3>2, <3>3, <3>5 DEF PreviousIsOnThePage
    <3>6. QED BY <1>a, <3>4, <3>5 DEF PreviousIsOnThePage
  <2>4. QED BY <2>2, <2>3 DEF InspectorSound
<1>10. CASE UNCHANGED inspectorVars
  BY <1>a, <1>10 DEF inspectorVars, InspectorSound, InspectorTyped, PreviousIsOnThePage
<1>11. CASE InspectorNext
  <2>1. CASE \E n \in Nodes : showFor(n)
    BY <1>1, <2>1
  <2>2. CASE \E next \in Lengths : TextChange(next) \/ \E i \in Inputs : applyStyleChange(i, next)
    BY <1>3, <2>2 DEF TextChange, applyStyleChange
  <2>3. CASE ClassAdd \/ ClassRemove
    BY <1>4, <2>3 DEF ClassAdd, ClassRemove
  <2>4. CASE \E value \in Lengths : GapApplies(value) \/ \E sides \in SUBSET Sides : PaddingApplies(sides, value)
    BY <1>5, <1>b, <2>4 DEF GapApplies, PaddingApplies
  <2>5. CASE \E gap \in Lengths : GapMoves(gap)
    BY <1>7, <2>5
  <2>6. CASE \E n \in Nodes, v \in 0..1 : \E i \in Offers(n) \cap {"length", "class"} : SomethingElse(n, i, v)
    BY <1>9, <2>6
  <2>7. QED BY <1>11, <1>2, <1>6, <1>8, <2>1, <2>2, <2>3, <2>4, <2>5, <2>6 DEF InspectorNext
<1>12. QED BY <1>10, <1>11

\* Before anything is done nothing is held.
LEMMA GesturesInit ==
  ASSUME MachineInit, DragInit, InspectorInit
  PROVE  GesturesAreBalanced /\ NothingOutlivesTheGesture /\ InspectorSound
<1>1. GesturesAreBalanced
  BY MachineAssumption
     DEF MachineInit, GesturesAreBalanced, MachineTypeOK, MachineType, At, InitialMachine, NoOwner, Owners, Previews,
         PreviewStates, DraggingStates, PointerOwningStates, SelectedStates, InteractionStates
<1>2. NothingOutlivesTheGesture
  BY DEF DragInit, None, NothingOutlivesTheGesture
<1>3. InspectorSound
  <2>1. [i \in Inputs |-> IF i = "length" THEN Unread ELSE 1] \in [Inputs -> 0..Unread]
    BY DEF Unread
  <2>2. Empty \in [Inputs -> 0..Unread]
    BY DEF Empty, Unread
  <2>3. InspectorTyped
    <3>1. /\ 0 \in 0..Unread /\ current = Unshown /\ drag = Unshown /\ latestGap = 0
          /\ boxes \in [Inputs -> 0..Unread] /\ previous \in [Inputs -> 0..Unread]
      BY <2>2 DEF InspectorInit, Unread
    <3>2. site \in [Nodes -> [Inputs -> 0..Unread]]
      BY <2>1 DEF InspectorInit
    <3>3. QED BY <3>1, <3>2 DEF InspectorTyped, Values
  <2>4. QED BY <2>3 DEF InspectorInit, InspectorSound, PreviousIsOnThePage
<1>4. QED BY <1>1, <1>2, <1>3

\* Whatever ends a gesture, in the machine, in a drag or in the inspector, and whatever
\* else happens meanwhile, nothing of it stays.
THEOREM NothingStays == Spec => []GesturesLeaveNothing
<1> DEFINE Inv == GesturesAreBalanced /\ NothingOutlivesTheGesture /\ InspectorSound
<1>1. Init => Inv
  BY GesturesInit DEF Init
<1>2. Inv /\ [Next]_allVars => Inv'
  BY EachOnItsOwn, MachineStep, DragStep, InspectorStep
<1>3. Inv => GesturesLeaveNothing
  BY DEF InspectorSound, GesturesLeaveNothing
<1>4. QED BY <1>1, <1>2, <1>3, PTL DEF Spec

------------------------------------------------------------------------------
(* The group of several elements.                                          *)

\* Some number of a few is the largest.
LEMMA LargestIs ==
  ASSUME NEW D \in SUBSET (1..10), D # {}
  PROVE  \E d \in D : \A k \in D : k <= d
<1>1. CASE 10 \in D \/ 9 \in D \/ 8 \in D
  BY <1>1
<1>2. CASE D \subseteq 1..7 /\ (7 \in D \/ 6 \in D \/ 5 \in D)
  BY <1>2
<1>3. CASE D \subseteq 1..4 /\ (4 \in D \/ 3 \in D)
  BY <1>3
<1>4. CASE D \subseteq 1..2
  <2>1. PICK d \in D : d \in 1..10
    BY Zenon
  <2>2. CASE 2 \in D
    BY <1>4, <2>2
  <2>3. CASE 2 \notin D
    <3>1. d = 1 /\ \A k \in D : k = 1
      BY <1>4, <2>1, <2>3
    <3>2. QED BY <2>1, <3>1
  <2>4. QED BY <2>2, <2>3
<1>5. QED BY <1>1, <1>2, <1>3, <1>4

\* The parent of a group is an ancestor of each member.
LEMMA ParentIsShared ==
  ASSUME NEW s \in Seq(Items), s # <<>>,
         NEW parent, parent = computeCommonParent({Chain(e) : e \in ToSet(s)})
  PROVE  /\ parent \in Ancestors \cup {NoGroup}
         /\ parent # NoGroup => \A e \in ToSet(s) : parent \in ToSet(Chain(e))
<1> DEFINE chains == {Chain(e) : e \in ToSet(s)}
           Agree(d) == \A c \in chains : Len(c) >= d /\ \A b \in chains : b[d] = c[d]
           depths == {d \in 1..10 : \A k \in 1..d : Agree(k)}
           deepest == CHOOSE d \in depths : \A k \in depths : k <= d
           chain == CHOOSE c \in chains : TRUE
<1>1. parent = IF depths = {} THEN NoGroup ELSE chain[deepest]
  BY DEF computeCommonParent
<1>2. s[1] \in ToSet(s) /\ \A e \in ToSet(s) : e \in Items
  BY DEF ToSet
<1>3. chain \in chains
  BY <1>2
<1>4. \A c \in chains : c \in Seq(Ancestors)
  BY <1>2, GroupAssumption
<1>5. ASSUME depths # {} PROVE deepest \in 1..10 /\ Agree(deepest)
  <2>1. deepest \in depths
    <3>1. depths \in SUBSET (1..10)
      OBVIOUS
    <3>2. \E d \in depths : \A k \in depths : k <= d
      BY <1>5, <3>1, LargestIs, Zenon
    <3>3. QED BY <3>2, Zenon
  <2> HIDE DEF deepest
  <2>2. QED BY <2>1
<1> HIDE DEF chains, depths, deepest, chain
<1>6. ASSUME depths # {} PROVE \A c \in chains : deepest \in 1..Len(c) /\ c[deepest] = chain[deepest]
  BY <1>3, <1>4, <1>5, <1>6
<1>7. ASSUME depths # {}, NEW e \in ToSet(s) PROVE chain[deepest] \in ToSet(Chain(e))
  BY <1>2, <1>4, <1>6, <1>7, GroupAssumption DEF chains, ToSet
<1>8. depths # {} => chain[deepest] \in Ancestors
  BY <1>3, <1>4, <1>6
<1>9. QED BY <1>1, <1>7, <1>8, Zenon

\* A group that fits is one: it is not null, and it has its members and a parent they share.
LEMMA GroupIs ==
  ASSUME NEW s \in Seq(Items), evaluateGroupConstraints(s)
  PROVE  /\ createMultiSelectGroup(s) # NoGroup
         /\ createMultiSelectGroup(s).members = s
         /\ \A e, f \in ToSet(s) : Context(e) = Context(f)
         /\ createMultiSelectGroup(s).parent # NoGroup =>
              \A e \in ToSet(s) : createMultiSelectGroup(s).parent \in ToSet(Chain(e))
<1> DEFINE parent == computeCommonParent({Chain(e) : e \in ToSet(s)})
<1>1. createMultiSelectGroup(s) = [members |-> s, parent |-> parent]
  BY DEF createMultiSelectGroup
<1> HIDE DEF parent
<1>2. s # <<>>
  BY DEF evaluateGroupConstraints
<1>3. /\ parent \in Ancestors \cup {NoGroup}
      /\ parent # NoGroup => \A e \in ToSet(s) : parent \in ToSet(Chain(e))
  BY <1>2, ParentIsShared, Zenon DEF parent
<1>4. [members |-> s, parent |-> parent] \in [members : Seq(Items), parent : Ancestors \cup {NoGroup}]
  BY <1>3
<1>5. \A e, f \in ToSet(s) : Context(e) = Context(f)
  BY DEF evaluateGroupConstraints, ToSet
<1>6. QED BY <1>1, <1>3, <1>4, <1>5, GroupAssumption

\* A click, and a marquee, select elements of the page.
LEMMA ToggledIs ==
  ASSUME NEW s \in Seq(Items), NEW e \in Items
  PROVE  Toggled(s, e) \in Seq(Items)
<1>1. CASE e \in ToSet(s)
  <2> DEFINE p == CHOOSE i \in DOMAIN s : s[i] = e
  <2>1. p \in 1..Len(s)
    BY <1>1 DEF ToSet
  <2> HIDE DEF p
  <2>2. RemoveAt(s, p) \in Seq(Items)
    BY <2>1 DEF RemoveAt
  <2>3. QED BY <1>1, <2>2 DEF Toggled, p
<1>2. CASE e \notin ToSet(s)
  BY <1>2 DEF Toggled
<1>3. QED BY <1>1, <1>2

\* The selection, the group that was published for it, the reducer's and the moved one.
GroupSound == picked \in Seq(Items) /\ members \in Seq(Items) /\ PanelShowsTheGroup

PublishedSound(s, published) ==
  /\ published # NoGroup <=> Len(s) >= 2
  /\ published # NoGroup =>
       /\ published.members = s
       /\ \A e, f \in ToSet(s) : Context(e) = Context(f)
       /\ published.parent # NoGroup => \A e \in ToSet(s) : published.parent \in ToSet(Chain(e))

MoveSound(m) ==
  m.kind \in {"pending", "committed"} => Len(m.group.members) >= 2 /\ m.group = createMultiSelectGroup(m.group.members)

\* What is published of a selection is its group, or nothing when it is too small.
LEMMA PublishedIs ==
  ASSUME NEW s \in Seq(Items), groupAcceptable(s), NEW published,
         published = IF Len(s) < 2 THEN NoGroup ELSE createMultiSelectGroup(s)
  PROVE  PublishedSound(s, published)
<1>1. CASE Len(s) < 2
  BY <1>1 DEF PublishedSound
<1>2. CASE Len(s) >= 2
  <2>1. evaluateGroupConstraints(s) /\ published = createMultiSelectGroup(s)
    BY <1>2 DEF groupAcceptable
  <2>2. QED BY <1>2, <2>1, GroupIs DEF PublishedSound
<1>3. QED BY <1>1, <1>2

\* What the panel is asked to show, said in parts, now and after a step.
LEMMA GroupInParts ==
  /\ PanelShowsTheGroup <=> /\ PublishedSound(picked, shown)
                            /\ group # NoGroup => group = createMultiSelectGroup(members) /\ Len(members) >= 2
                            /\ MoveSound(move)
  /\ PanelShowsTheGroup' <=> /\ PublishedSound(picked', shown')
                             /\ group' # NoGroup => group' = createMultiSelectGroup(members') /\ Len(members') >= 2
                             /\ MoveSound(move')
BY DEF PanelShowsTheGroup, PublishedSound, MoveSound

\* Every step of the selection shows, makes and moves the group that is selected.
LEMMA GroupStep ==
  ASSUME GroupSound, [GroupNext]_groupVars
  PROVE  GroupSound'
<1>a. /\ picked \in Seq(Items) /\ members \in Seq(Items) /\ PublishedSound(picked, shown) /\ MoveSound(move)
      /\ group # NoGroup => group = createMultiSelectGroup(members) /\ Len(members) >= 2
  BY GroupInParts DEF GroupSound
<1>b. \A s \in Distinct : s \in Seq(Items)
  BY DEF Distinct, SeqOf
<1>1. ASSUME NEW s \in Seq(Items), groupAcceptable(s), picked' = s, publish(s), UNCHANGED <<members, group, move>>
      PROVE  GroupSound'
  <2>1. PublishedSound(picked', shown')
    BY <1>1, PublishedIs DEF publish
  <2>2. QED BY <1>a, <1>1, <2>1, GroupInParts DEF GroupSound
<1>2. ASSUME NEW s \in Seq(Items), rebuild(s) PROVE GroupSound'
  <2>1. members' \in Seq(Items) /\ UNCHANGED <<picked, shown, move>>
    BY <1>2 DEF rebuild
  <2>2. group' # NoGroup => group' = createMultiSelectGroup(members') /\ Len(members') >= 2
    BY <1>2 DEF rebuild
  <2>3. QED BY <1>a, <2>1, <2>2, GroupInParts DEF GroupSound
<1>3. ASSUME NEW m, MoveSound(m), Moves(m) PROVE GroupSound'
  BY <1>a, <1>3, GroupInParts DEF Moves, GroupSound
<1>4. MoveSound([kind |-> "rejected", group |-> NoGroup])
  BY DEF MoveSound
<1>5. ASSUME NEW e \in Items, toggle(e) \/ shiftClick(e) PROVE GroupSound'
  BY <1>a, <1>1, <1>2, <1>5, ToggledIs DEF toggle, shiftClick
<1>6. ASSUME NEW s \in Distinct, setFromMarquee(s) \/ marqueeSelect(s) PROVE GroupSound'
  BY <1>1, <1>2, <1>b, <1>6 DEF setFromMarquee, marqueeSelect
<1>7. ASSUME move.kind = "pending" PROVE MoveSound([kind |-> "committed", group |-> move.group])
  BY <1>a, <1>7 DEF MoveSound
<1>8. ASSUME NEW s \in Distinct, reparent(s) PROVE GroupSound'
  BY <1>3, <1>4, <1>7, <1>8 DEF reparent
<1>9. ASSUME NEW e \in Items, NEW s \in Distinct, reorder(e, s) PROVE GroupSound'
  BY <1>3, <1>4, <1>7, <1>9 DEF reorder
<1>10. CASE begin
  <2>1. MoveSound([kind |-> "pending", group |-> group])
    <3>1. group = createMultiSelectGroup(members) /\ Len(members) >= 2
      BY <1>a, <1>10 DEF begin
    <3>2. group.members = members
      BY <3>1 DEF createMultiSelectGroup
    <3>3. QED BY <3>1, <3>2 DEF MoveSound
  <2>2. QED BY <1>3, <1>10, <2>1 DEF begin
<1>11. CASE cancelGroupMove
  BY <1>3, <1>4, <1>11 DEF cancelGroupMove
<1>12. CASE groupClear
  <2>1. <<>> \in Seq(Items)
    OBVIOUS
  <2>2. QED BY <1>2, <1>12, <2>1, Zenon DEF groupClear
<1>13. CASE reset
  <2>1. <<>> \in Seq(Items) /\ Len(<<>>) = 0
    OBVIOUS
  <2>2. PublishedSound(<<>>, NoGroup)
    BY <2>1 DEF PublishedSound
  <2>3. QED BY <1>a, <1>13, <2>1, <2>2, GroupInParts DEF reset, GroupSound
<1>14. CASE UNCHANGED groupVars
  BY <1>14, <1>a, GroupInParts DEF groupVars, GroupSound
<1>15. QED BY <1>5, <1>6, <1>8, <1>9, <1>10, <1>11, <1>12, <1>13, <1>14 DEF GroupNext

------------------------------------------------------------------------------
(* The handles.                                                            *)

Singles == [touch : Touches, of : Contexts]
Pairs == [touch : Touches, of : Contexts, phase : {"dragging", "validating"}, shown : BOOLEAN]
Feedbacks == [kind : {"none", "valid", "active", "blocked", "disabled-edge"}, handle : Handles \cup {NoOne}]

\* What the overlay can say of a selection or of a handle.
LEMMA FeedbackIs ==
  /\ \A c : OfSelection(c) \in Feedbacks /\ OfSelection(c).kind # "active"
  /\ \A h \in Handles : \A c : /\ OfHandle(c, h) \in Feedbacks
                               /\ OfHandle(c, h).kind = "active" => Route(c, h) = "pair"
  /\ Silent \in Feedbacks /\ Silent.kind # "active"
  /\ \A h \in Handles \cup {NoOne} : Says("blocked", h) \in Feedbacks /\ Says("blocked", h).kind # "active"
<1>1. \A k \in {"none", "valid", "active", "blocked", "disabled-edge"}, h \in Handles \cup {NoOne} :
        Says(k, h) \in Feedbacks /\ Says(k, h).kind = k
  BY DEF Says, Feedbacks
<1>2. \A c : OfSelection(c) \in Feedbacks /\ OfSelection(c).kind # "active"
  BY <1>1 DEF OfSelection, Silent
<1>3. ASSUME NEW h \in Handles, NEW c
      PROVE  /\ OfHandle(c, h) \in Feedbacks
             /\ OfHandle(c, h).kind = "active" => Route(c, h) = "pair"
  <2>1. CASE Route(c, h) \notin {"pair", "rejected", "corner-disabled"}
    BY <1>1, <2>1 DEF OfHandle, Silent
  <2>2. CASE Route(c, h) \in {"pair", "rejected", "corner-disabled"}
    BY <1>1, <2>2 DEF OfHandle
  <2>3. QED BY <2>1, <2>2
<1>4. QED BY <1>1, <1>2, <1>3 DEF Silent

\* What the gestures of the handles are, said in parts.
GestureSound ==
  /\ attached \in Contexts \cup {NoOne} /\ live \in BOOLEAN /\ restore \in BOOLEAN
  /\ pairHandle \in Handles \cup {NoOne} /\ owed \subseteq Touches /\ recorded \in Contexts \cup {NoOne}
  /\ attached = NoOne => ~live

SingleSound == single # NoOne => single \in Singles /\ live /\ single.of = attached

PairSound ==
  pair # NoOne =>
    /\ pair \in Pairs /\ live /\ pair.of = attached
    /\ single # NoOne /\ pair.phase = "dragging" => single.touch # pair.touch

FeedbackSound ==
  /\ feedback \in Feedbacks
  /\ attached = NoOne => feedback = Silent
  /\ feedback.kind = "active" => \E h \in Handles : Route(attached, h) = "pair"

\* What is asked of the handles, said in parts, now and after a step.
LEMMA HandlesInParts ==
  /\ HandlesAreOfTheSelection <=> GestureSound /\ SingleSound /\ PairSound /\ FeedbackSound
  /\ HandlesAreOfTheSelection' <=> (GestureSound /\ SingleSound /\ PairSound /\ FeedbackSound)'
BY DEF HandlesAreOfTheSelection, ResizeTypeOK, GestureSound, SingleSound, PairSound, FeedbackSound, Singles, Pairs, Feedbacks

\* Every step of the handles keeps their gestures on what is attached, and records for it.
LEMMA ResizeStep ==
  ASSUME HandlesAreOfTheSelection, [ResizeNext]_resizeVars
  PROVE  /\ HandlesAreOfTheSelection'
         /\ recorded' # recorded => recorded' = attached /\ attached' = attached
<1> DEFINE Goal == /\ (GestureSound /\ SingleSound /\ PairSound /\ FeedbackSound)'
                   /\ recorded' # recorded => recorded' = attached /\ attached' = attached
<1>a. GestureSound /\ SingleSound /\ PairSound /\ FeedbackSound
  BY HandlesInParts
<1> SUFFICES Goal
  BY HandlesInParts
<1>b. Captured \subseteq Touches
  BY <1>a DEF Captured, SingleSound, PairSound, Singles, Pairs
<1>1. CASE attached # NoOne /\ detachHandles
  <2>1. GestureSound'
    BY <1>1, <1>a, <1>b, Zenon DEF detachHandles, GestureSound
  <2>2. QED BY <2>1, <1>1, FeedbackIs DEF detachHandles, SingleSound, PairSound, FeedbackSound
<1>2. ASSUME NEW c \in Contexts, NEW supported \in BOOLEAN, attachHandles(c, supported)
      PROVE  Goal
  BY <1>2, <1>a, <1>b, FeedbackIs, NoOneAssumption DEF attachHandles, GestureSound, SingleSound, PairSound, FeedbackSound
<1>3. ASSUME NEW h \in Handles, NEW t \in Touches \ Captured, NEW startable \in BOOLEAN, HandleDown(h, t, startable)
      PROVE  Goal
  <2>1. attached \in Contexts /\ attached # NoOne /\ live
    BY <1>3, <1>a DEF HandleDown, GestureSound
  <2>2. GestureSound'
    <3>1. restore' \in BOOLEAN
      BY <1>3 DEF HandleDown
    <3>2. UNCHANGED <<attached, live, recorded>> /\ pairHandle' \in {h, pairHandle} /\ owed' \subseteq owed
      BY <1>3 DEF HandleDown
    <3>3. QED BY <1>a, <2>1, <3>1, <3>2 DEF GestureSound
  <2>3. SingleSound'
    BY <1>3, <1>a, <2>1 DEF HandleDown, SingleSound, Singles
  <2>4. PairSound'
    <3>1. CASE single' = single
      BY <1>3, <1>a, <2>1, <3>1 DEF HandleDown, PairSound, Pairs, Captured
    <3>2. CASE single' # single
      BY <1>3, <1>a, <2>1, <3>2 DEF HandleDown, PairSound, Pairs, Captured
    <3>3. QED BY <3>1, <3>2
  <2>5. FeedbackSound'
    BY <1>3, <2>1, FeedbackIs DEF HandleDown, FeedbackSound
  <2>6. QED BY <1>3, <2>2, <2>3, <2>4, <2>5 DEF HandleDown
<1>4. ASSUME NEW visible \in BOOLEAN, NEW refused \in BOOLEAN, PairFrame(visible, refused)
      PROVE  Goal
  <2>1. pair \in Pairs /\ live /\ attached # NoOne
    BY <1>4, <1>a DEF PairFrame, PairSound, GestureSound
  <2>2. UNCHANGED <<attached, live, single, pairHandle, owed, recorded>> /\ restore' \in BOOLEAN
    BY <1>4 DEF PairFrame
  <2>3. pair' \in Pairs /\ pair'.of = pair.of /\ pair'.touch = pair.touch /\ pair'.phase = pair.phase
    BY <1>4, <2>1 DEF PairFrame, Pairs
  <2>4. FeedbackSound'
    BY <1>4, <1>a, <2>1, <2>2, FeedbackIs DEF PairFrame, FeedbackSound, GestureSound
  <2>5. QED BY <1>4, <1>a, <2>1, <2>2, <2>3, <2>4 DEF PairFrame, GestureSound, SingleSound, PairSound
<1>5. ASSUME NEW t \in Touches, NEW visible \in BOOLEAN, NEW refused \in BOOLEAN, HandleUp(t, visible, refused)
      PROVE  Goal
  <2>1. live /\ attached # NoOne /\ UNCHANGED <<attached, live, pairHandle>>
    BY <1>5, <1>a DEF HandleUp, GestureSound
  <2>2. GestureSound' /\ (recorded' # recorded => recorded' = attached)
    <3>1. restore' \in BOOLEAN
      BY <1>5 DEF HandleUp
    <3>2. owed' \subseteq Touches /\ recorded' \in {recorded, attached}
      BY <1>5, <1>a DEF HandleUp, GestureSound, SingleSound
    <3>3. QED BY <1>a, <2>1, <3>1, <3>2 DEF GestureSound
  <2>3. single' \in {single, NoOne}
    BY <1>5 DEF HandleUp
  <2>4. pair' \in {pair, NoOne} \/ (pair # NoOne /\ pair' = [pair EXCEPT !.phase = "validating", !.shown = TRUE])
    BY <1>5 DEF HandleUp
  <2>5. SingleSound'
    BY <1>a, <2>1, <2>3 DEF SingleSound
  <2>6. PairSound'
    <3>1. CASE pair' \in {pair, NoOne}
      BY <1>a, <2>1, <2>3, <3>1 DEF PairSound
    <3>2. CASE pair # NoOne /\ pair' = [pair EXCEPT !.phase = "validating", !.shown = TRUE]
      <4>1. pair' \in Pairs /\ pair'.of = pair.of /\ pair'.phase = "validating"
        BY <1>a, <3>2, Zenon DEF PairSound, Pairs
      <4>2. QED BY <1>a, <2>1, <3>2, <4>1 DEF PairSound
    <3>3. QED BY <2>4, <3>1, <3>2
  <2>7. FeedbackSound'
    <3>1. feedback' \in {feedback, OfSelection(attached), Says("blocked", pairHandle)}
      BY <1>5 DEF HandleUp
    <3>2. QED BY <1>a, <2>1, <3>1, FeedbackIs DEF FeedbackSound, GestureSound
  <2>8. QED BY <2>1, <2>2, <2>5, <2>6, <2>7
<1>6. ASSUME NEW t \in Touches, HandleCancel(t) \/ HandleLosesCapture(t)
      PROVE  Goal
  <2>1. /\ UNCHANGED <<attached, live, restore, recorded>> /\ owed' \subseteq owed \cup {t}
        /\ pairHandle' \in {pairHandle, NoOne} /\ single' \in {single, NoOne} /\ pair' \in {pair, NoOne}
    BY <1>6 DEF HandleCancel, HandleLosesCapture
  <2>2. \/ live /\ feedback' \in {feedback, OfSelection(attached)}
        \/ feedback' = feedback
    BY <1>6 DEF HandleCancel, HandleLosesCapture, Restored
  <2>3. FeedbackSound'
    BY <1>a, <2>1, <2>2, FeedbackIs DEF FeedbackSound, GestureSound
  <2>4. SingleSound' /\ PairSound' /\ GestureSound'
    BY <1>a, <2>1 DEF SingleSound, PairSound, GestureSound
  <2>5. QED BY <2>1, <2>3, <2>4
<1>7. ASSUME NEW ok \in BOOLEAN, finishValidation(ok)
      PROVE  Goal
  <2>1. pair \in Pairs /\ pair.of = attached /\ live /\ attached # NoOne
    BY <1>7, <1>a DEF finishValidation, PairSound, GestureSound
  <2>2. /\ UNCHANGED <<attached, live, single, owed>> /\ pair' = NoOne
        /\ pairHandle' \in {pairHandle, NoOne} /\ recorded' \in {recorded, pair.of}
        /\ feedback' \in {feedback, Says("blocked", pairHandle)}
    BY <1>7 DEF finishValidation
  <2>3. restore' \in BOOLEAN
    BY <1>7, <1>a, Zenon DEF finishValidation, GestureSound
  <2>4. FeedbackSound'
    BY <1>a, <2>1, <2>2, FeedbackIs DEF FeedbackSound, GestureSound
  <2>5. GestureSound' /\ SingleSound' /\ PairSound'
    BY <1>a, <2>1, <2>2, <2>3 DEF GestureSound, SingleSound, PairSound
  <2>6. QED BY <2>1, <2>2, <2>4, <2>5
<1>8. CASE UNCHANGED resizeVars
  BY <1>8, <1>a DEF resizeVars, GestureSound, SingleSound, PairSound, FeedbackSound
<1>9. QED BY <1>1, <1>2, <1>3, <1>4, <1>5, <1>6, <1>7, <1>8 DEF ResizeNext

------------------------------------------------------------------------------
(* The selection of a page p, what is under way from it in w, and the      *)
(* panel q that hears of it.                                               *)

\* Summaries and clears decide what the panel shows; after revision r of the thing x
\* they may come in this order only.
Tells(m) == m.kind \in {"summary", "clear"}
Admits(r, x, m) == Tells(m) => r <= m.revision /\ (m.kind = "summary" /\ m.revision = r => m.of = x)

\* No clear is under way between two places.
Unbroken(w, j, k) == \A i \in 1..Len(w) : j < i /\ i < k => w[i].kind # "clear"

\* Revision r of x is of the document that is loaded, and the newest is of what is selected.
Newest(p, r, x) ==
  /\ x[1] = p.document
  /\ r <= p.revision
  /\ r = p.revision => p.selected # NoTag /\ x = <<p.document, p.selected>>

Messages ==
  [kind : {"summary", "origins"}, revision : Nat \ {0}, of : Nat \X Tags] \cup [kind : {"clear"}, revision : Nat \ {0}]

PageType == [document : Nat, inspector : {"idle", "inspect", "selected"}, selected : Tags \cup {NoTag},
         hovered : Tags \cup {NoTag}, inspects : BOOLEAN, moves : BOOLEAN, handles : Tags \cup {NoTag},
         local : Tags \cup {NoTag}, mode : Modes \cup {"none"}, revision : Nat,
         resolving : SUBSET ((Nat \ {0}) \X Tags), summary : Tags \cup {NoTag}]

PanelType == [summary : (Nat \X Tags) \cup {NoTag}, revision : Nat,
          origin : [status : {"idle"}] \cup [status : {"pending", "ready"}, of : Nat \X Tags]]

SelectionTyped ==
  /\ page \in PageType /\ wire \in Seq(Messages) /\ panel \in PanelType
  /\ page.summary = page.selected /\ (page.selected # NoTag => page.revision # 0)

\* Whatever was lost: what a document says comes in its order, and what it says last
\* is how it is.
SaidInOrder(p, w) ==
  /\ \A j \in 1..Len(w) : w[j].kind = "summary" =>
       /\ w[j].of[1] <= p.document
       /\ w[j].of[1] = p.document =>
            /\ Newest(p, w[j].revision, w[j].of)
            /\ \A k \in 1..Len(w) : j < k => Admits(w[j].revision, w[j].of, w[k])
  /\ \A k \in 1..Len(w) : (\A i \in 1..Len(w) : k < i => ~Tells(w[i])) =>
       /\ w[k].kind = "clear" => p.selected = NoTag
       /\ w[k].kind = "summary" /\ w[k].of[1] = p.document => w[k].of = <<p.document, p.selected>>

\* Unless something was lost: nothing under way is refused, and what the panel shows in
\* the end is what is selected.
ComesInOrder(p, w, j, r, x) ==
  /\ Unbroken(w, j, Len(w) + 1) => Newest(p, r, x)
  /\ \A k \in 1..Len(w) : j < k /\ Unbroken(w, j, k) => Admits(r, x, w[k])

HeardInOrder(p, w, q, blank) ==
  /\ \A j \in 1..Len(w) : w[j].kind = "summary" => ComesInOrder(p, w, j, w[j].revision, w[j].of)
  /\ q.revision # 0 => ComesInOrder(p, w, 0, q.revision, q.summary)
  /\ (\A i \in 1..Len(w) : ~Tells(w[i])) =>
       \/ q.summary = NoTag /\ (p.selected = NoTag \/ blank)
       \/ q.summary = <<p.document, p.selected>>

OriginIsOfTheShown ==
  /\ panel.origin.status # "idle" => panel.origin.of = panel.summary
  /\ panel.revision # 0 => panel.summary \in Nat \X Tags

LocalSound(p) ==
  /\ p.selected = NoTag => p.local = NoTag /\ p.handles = NoTag
  /\ p.moves <=> p.mode = "Move"
  /\ p.inspects <=> p.mode = "Inspect"
  /\ p.handles \in {NoTag, p.local}
  /\ p.inspector = "selected" => p.selected # NoTag

SelectionSound ==
  /\ SelectionTyped /\ LocalSound(page) /\ OriginIsOfTheShown
  /\ SaidInOrder(page, wire)
  /\ ~missed => HeardInOrder(page, wire, panel, wiped)

\* A message m is added to w, which becomes v.
LEMMA AppendedIs ==
  ASSUME NEW w \in Seq(Messages), NEW m \in Messages, NEW v, v = Append(w, m)
  PROVE  /\ v \in Seq(Messages) /\ Len(w) \in Nat /\ Len(v) = Len(w) + 1
         /\ \A i \in 1..Len(w) : v[i] = w[i] /\ w[i] \in Messages
         /\ v[Len(w) + 1] = m
OBVIOUS

\* What is unbroken then was unbroken before, and the message did not break it.
LEMMA UnbrokenAppended ==
  ASSUME NEW w \in Seq(Messages), NEW m \in Messages, NEW v, v = Append(w, m), NEW j \in Nat, j <= Len(w)
  PROVE  /\ \A k \in 1..(Len(w) + 1) : Unbroken(v, j, k) => Unbroken(w, j, k)
         /\ Unbroken(v, j, Len(v) + 1) => m.kind # "clear" /\ Unbroken(w, j, Len(w) + 1)
<1>1. /\ Len(w) \in Nat /\ Len(v) = Len(w) + 1
      /\ \A i \in 1..Len(w) : v[i] = w[i]
      /\ v[Len(w) + 1] = m
  BY AppendedIs
<1>2. \A k \in 1..(Len(w) + 1) : Unbroken(v, j, k) => Unbroken(w, j, k)
  BY <1>1 DEF Unbroken
<1>3. ASSUME Unbroken(v, j, Len(v) + 1) PROVE m.kind # "clear" /\ Unbroken(w, j, Len(w) + 1)
  <2>1. m.kind # "clear"
    BY <1>1, <1>3 DEF Unbroken
  <2>2. Unbroken(w, j, Len(w) + 1)
    BY <1>1, <1>3 DEF Unbroken
  <2>3. QED BY <2>1, <2>2
<1>4. QED BY <1>2, <1>3

\* A page that says how it is, in its order, keeps what was said.
LEMMA SaidMore ==
  ASSUME NEW p \in PageType, NEW p2 \in PageType, NEW w \in Seq(Messages), NEW m \in Messages,
         NEW v, v = Append(w, m), SaidInOrder(p, w), p2.document = p.document,
         \A r \in Nat, x \in Nat \X Tags : Newest(p, r, x) => Newest(p2, r, x) /\ Admits(r, x, m),
         m.kind = "summary" => Newest(p2, m.revision, m.of) /\ m.of = <<p2.document, p2.selected>>,
         m.kind = "clear" => p2.selected = NoTag,
         m.kind = "origins" => p2.selected = p.selected
  PROVE  SaidInOrder(p2, v)
<1>1. /\ v \in Seq(Messages) /\ Len(w) \in Nat /\ Len(v) = Len(w) + 1
      /\ \A i \in 1..Len(w) : v[i] = w[i] /\ w[i] \in Messages
      /\ v[Len(w) + 1] = m
  BY AppendedIs
<1>2. p.document \in Nat
  BY DEF PageType
<1>3. ASSUME NEW j \in 1..Len(v), v[j].kind = "summary"
      PROVE  /\ v[j].of[1] <= p2.document
             /\ v[j].of[1] = p2.document =>
                  /\ Newest(p2, v[j].revision, v[j].of)
                  /\ \A k \in 1..Len(v) : j < k => Admits(v[j].revision, v[j].of, v[k])
  <2>1. CASE j = Len(w) + 1
    <3>1. Newest(p2, v[j].revision, v[j].of)
      BY <1>1, <1>3, <2>1
    <3>2. v[j].of[1] = p2.document
      BY <3>1 DEF Newest
    <3>3. ~ \E k \in 1..Len(v) : j < k
      BY <1>1, <2>1
    <3>4. v[j].of[1] <= p2.document
      BY <3>2, <1>2
    <3>5. QED BY <3>1, <3>3, <3>4
  <2>2. CASE j \in 1..Len(w)
    <3> DEFINE r == w[j].revision
               x == w[j].of
    <3>1. w[j].kind = "summary" /\ r \in Nat /\ x \in Nat \X Tags /\ v[j].revision = r /\ v[j].of = x
      <4>1. w[j] \in Messages /\ v[j] = w[j]
        BY <1>1, <2>2
      <4>2. QED BY <4>1, <1>3 DEF Messages
    <3>2. /\ x[1] <= p.document
          /\ x[1] = p.document =>
               /\ Newest(p, r, x)
               /\ \A k \in 1..Len(w) : j < k => Admits(r, x, w[k])
      BY <2>2, <3>1 DEF SaidInOrder
    <3> HIDE DEF r, x
    <3>3. ASSUME x[1] = p.document
          PROVE  /\ Newest(p2, r, x)
                 /\ \A k \in 1..Len(v) : j < k => Admits(r, x, v[k])
      <4>1. Newest(p2, r, x) /\ Admits(r, x, m)
        BY <3>1, <3>2, <3>3
      <4>2. ASSUME NEW k \in 1..Len(v), j < k PROVE Admits(r, x, v[k])
        <5>1. CASE k = Len(w) + 1
          BY <1>1, <4>1, <5>1
        <5>2. CASE k \in 1..Len(w)
          BY <1>1, <3>2, <3>3, <4>2, <5>2
        <5>3. QED BY <1>1, <5>1, <5>2
      <4>3. QED BY <4>1, <4>2
    <3>4. QED BY <3>1, <3>2, <3>3, Zenon
  <2>3. QED BY <1>1, <2>1, <2>2
<1>4. ASSUME NEW k \in 1..Len(v), \A i \in 1..Len(v) : k < i => ~Tells(v[i])
      PROVE  /\ v[k].kind = "clear" => p2.selected = NoTag
             /\ v[k].kind = "summary" /\ v[k].of[1] = p2.document => v[k].of = <<p2.document, p2.selected>>
  <2>1. CASE k = Len(w) + 1
    BY <1>1, <2>1
  <2>2. CASE k \in 1..Len(w)
    <3>1. ~Tells(m)
      BY <1>1, <1>4, <2>2
    <3>2. p2.selected = p.selected
      BY <3>1 DEF Tells, Messages
    <3>3. \A i \in 1..Len(w) : k < i => ~Tells(w[i])
      BY <1>1, <1>4
    <3>4. /\ w[k].kind = "clear" => p.selected = NoTag
          /\ w[k].kind = "summary" /\ w[k].of[1] = p.document => w[k].of = <<p.document, p.selected>>
      BY <2>2, <3>3 DEF SaidInOrder
    <3>5. QED BY <1>1, <2>2, <3>2, <3>4
  <2>3. QED BY <1>1, <2>1, <2>2
<1>5. QED BY <1>3, <1>4, Zenon DEF SaidInOrder

\* ... and the panel will hear it so.
LEMMA HeardMore ==
  ASSUME NEW p \in PageType, NEW p2 \in PageType, NEW w \in Seq(Messages), NEW m \in Messages,
         NEW v, v = Append(w, m), NEW q \in PanelType, NEW blank, HeardInOrder(p, w, q, blank),
         q.revision # 0 => q.summary \in Nat \X Tags,
         \A r \in Nat, x \in Nat \X Tags :
           Newest(p, r, x) => /\ m.kind # "clear" => Newest(p2, r, x)
                              /\ Admits(r, x, m),
         m.kind = "summary" => Newest(p2, m.revision, m.of),
         m.kind = "origins" => p2.selected = p.selected /\ p2.document = p.document
  PROVE  HeardInOrder(p2, v, q, blank)
<1>1. /\ v \in Seq(Messages) /\ Len(w) \in Nat /\ Len(v) = Len(w) + 1
      /\ \A i \in 1..Len(w) : v[i] = w[i] /\ w[i] \in Messages
      /\ v[Len(w) + 1] = m
  BY AppendedIs
<1>2. ASSUME NEW j \in Nat, j <= Len(w), NEW r \in Nat, NEW x \in Nat \X Tags, ComesInOrder(p, w, j, r, x)
      PROVE  ComesInOrder(p2, v, j, r, x)
  <2>1. /\ \A k \in 1..(Len(w) + 1) : Unbroken(v, j, k) => Unbroken(w, j, k)
        /\ Unbroken(v, j, Len(v) + 1) => m.kind # "clear" /\ Unbroken(w, j, Len(w) + 1)
    BY <1>2, UnbrokenAppended, Zenon
  <2>2. /\ Unbroken(w, j, Len(w) + 1) => Newest(p, r, x)
        /\ \A k \in 1..Len(w) : j < k /\ Unbroken(w, j, k) => Admits(r, x, w[k])
    BY <1>2 DEF ComesInOrder
  <2>3. Unbroken(v, j, Len(v) + 1) => Newest(p2, r, x)
    BY <1>2, <2>1, <2>2
  <2>4. ASSUME NEW k \in 1..Len(v), j < k, Unbroken(v, j, k) PROVE Admits(r, x, v[k])
    <3>1. CASE k = Len(w) + 1
      BY <1>1, <1>2, <2>1, <2>2, <2>4, <3>1
    <3>2. CASE k \in 1..Len(w)
      BY <1>1, <2>1, <2>2, <2>4, <3>2
    <3>3. QED BY <1>1, <3>1, <3>2
  <2>5. QED BY <2>3, <2>4 DEF ComesInOrder
<1>3. ASSUME NEW j \in 1..Len(v), v[j].kind = "summary"
      PROVE  ComesInOrder(p2, v, j, v[j].revision, v[j].of)
  <2>1. CASE j = Len(w) + 1
    <3>1. Newest(p2, v[j].revision, v[j].of)
      BY <1>1, <1>3, <2>1
    <3>2. ~ \E k \in 1..Len(v) : j < k
      BY <1>1, <2>1
    <3>3. QED BY <3>1, <3>2 DEF ComesInOrder
  <2>2. CASE j \in 1..Len(w)
    <3>1. w[j] \in Messages /\ v[j] = w[j] /\ w[j].kind = "summary"
      BY <1>1, <1>3, <2>2
    <3>2. w[j].revision \in Nat /\ w[j].of \in Nat \X Tags
      BY <3>1 DEF Messages
    <3>3. ComesInOrder(p, w, j, w[j].revision, w[j].of)
      BY <2>2, <3>1 DEF HeardInOrder
    <3>4. ComesInOrder(p2, v, j, w[j].revision, w[j].of)
      BY <1>1, <1>2, <2>2, <3>2, <3>3
    <3>5. QED BY <3>1, <3>4
  <2>3. QED BY <1>1, <2>1, <2>2
<1>4. ASSUME q.revision # 0 PROVE ComesInOrder(p2, v, 0, q.revision, q.summary)
  <2>1. ComesInOrder(p, w, 0, q.revision, q.summary)
    BY <1>4 DEF HeardInOrder
  <2>2. q.revision \in Nat
    BY DEF PanelType
  <2>3. QED BY <1>1, <1>2, <1>4, <2>1, <2>2
<1>5. ASSUME \A i \in 1..Len(v) : ~Tells(v[i])
      PROVE  \/ q.summary = NoTag /\ (p2.selected = NoTag \/ blank)
             \/ q.summary = <<p2.document, p2.selected>>
  <2>1. ~Tells(m) /\ \A i \in 1..Len(w) : ~Tells(w[i])
    BY <1>1, <1>5
  <2>2. p2.selected = p.selected /\ p2.document = p.document
    BY <2>1 DEF Tells, Messages
  <2>3. \/ q.summary = NoTag /\ (p.selected = NoTag \/ blank)
        \/ q.summary = <<p.document, p.selected>>
    BY <2>1 DEF HeardInOrder
  <2>4. QED BY <2>2, <2>3
<1>6. QED BY <1>3, <1>4, <1>5 DEF HeardInOrder

\* The first message is taken: the others move up.
LEMMA TakenIs ==
  ASSUME NEW w \in Seq(Messages), w # <<>>, NEW v, v = Tail(w)
  PROVE  /\ v \in Seq(Messages) /\ Len(w) \in Nat /\ Len(v) = Len(w) - 1 /\ Len(w) >= 1
         /\ \A i \in 1..Len(v) : v[i] = w[i + 1]
         /\ w[1] = Head(w) /\ w[1] \in Messages
         /\ \A j, k \in Nat : Unbroken(v, j, k) => Unbroken(w, j + 1, k + 1)
         /\ w[1].kind # "clear" => \A k \in Nat : Unbroken(v, 0, k) => Unbroken(w, 0, k + 1)
<1>1. /\ v \in Seq(Messages) /\ Len(w) \in Nat /\ Len(v) = Len(w) - 1 /\ Len(w) >= 1
      /\ \A i \in 1..Len(v) : v[i] = w[i + 1]
      /\ w[1] = Head(w) /\ w[1] \in Messages
  OBVIOUS
<1>2. ASSUME NEW j \in Nat, NEW k \in Nat, Unbroken(v, j, k) PROVE Unbroken(w, j + 1, k + 1)
  <2>1. ASSUME NEW i \in 1..Len(w), j + 1 < i, i < k + 1 PROVE w[i].kind # "clear"
    <3>1. i - 1 \in 1..Len(v) /\ j < i - 1 /\ i - 1 < k /\ v[i - 1] = w[i]
      BY <1>1, <2>1
    <3>2. QED BY <1>2, <3>1, Zenon DEF Unbroken
  <2>2. QED BY <2>1 DEF Unbroken
<1>3. ASSUME w[1].kind # "clear", NEW k \in Nat, Unbroken(v, 0, k) PROVE Unbroken(w, 0, k + 1)
  <2>1. Unbroken(w, 1, k + 1)
    BY <1>2, <1>3
  <2>2. QED BY <1>3, <2>1 DEF Unbroken
<1>4. QED BY <1>1, <1>2, <1>3

\* What comes in its order from a place comes so from the place before it.
LEMMA ComesWhenTaken ==
  ASSUME NEW p, NEW w \in Seq(Messages), w # <<>>, NEW v, v = Tail(w), NEW j \in Nat, j <= Len(v),
         NEW r, NEW x, \/ ComesInOrder(p, w, j + 1, r, x)
                       \/ j = 0 /\ ComesInOrder(p, w, 0, r, x) /\ w[1].kind # "clear"
  PROVE  ComesInOrder(p, v, j, r, x)
<1>1. /\ v \in Seq(Messages) /\ Len(w) \in Nat /\ Len(v) = Len(w) - 1 /\ Len(w) >= 1
      /\ \A i \in 1..Len(v) : v[i] = w[i + 1]
      /\ \A i, k \in Nat : Unbroken(v, i, k) => Unbroken(w, i + 1, k + 1)
      /\ w[1].kind # "clear" => \A k \in Nat : Unbroken(v, 0, k) => Unbroken(w, 0, k + 1)
  BY TakenIs, Zenon
<1>2. PICK n \in Nat : /\ n = j + 1 \/ (n = 0 /\ j = 0 /\ w[1].kind # "clear")
                       /\ ComesInOrder(p, w, n, r, x)
  OBVIOUS
<1>3. \A k \in Nat : Unbroken(v, j, k) => Unbroken(w, n, k + 1)
  BY <1>1, <1>2
<1>4. ASSUME Unbroken(v, j, Len(v) + 1) PROVE Newest(p, r, x)
  <2>1. Unbroken(w, n, Len(v) + 2)
    <3>1. Len(v) + 1 \in Nat /\ (Len(v) + 1) + 1 = Len(v) + 2
      BY <1>1
    <3>2. QED BY <1>3, <1>4, <3>1
  <2>2. Len(v) + 2 = Len(w) + 1
    BY <1>1
  <2>3. QED BY <1>2, <2>1, <2>2 DEF ComesInOrder
<1>5. ASSUME NEW k \in 1..Len(v), j < k, Unbroken(v, j, k) PROVE Admits(r, x, v[k])
  <2>1. k \in Nat /\ k + 1 \in 1..Len(w) /\ n < k + 1 /\ v[k] = w[k + 1]
    BY <1>1, <1>2, <1>5
  <2>2. Unbroken(w, n, k + 1)
    BY <1>3, <1>5, <2>1
  <2>3. QED BY <1>2, <2>1, <2>2 DEF ComesInOrder
<1>6. QED BY <1>4, <1>5 DEF ComesInOrder

\* What a page said stays so while it is heard.
LEMMA SaidWhenTaken ==
  ASSUME NEW p, NEW w \in Seq(Messages), w # <<>>, SaidInOrder(p, w)
  PROVE  SaidInOrder(p, Tail(w))
<1> DEFINE v == Tail(w)
<1>1. /\ v \in Seq(Messages) /\ Len(w) \in Nat /\ Len(v) = Len(w) - 1 /\ Len(w) >= 1
      /\ \A i \in 1..Len(v) : v[i] = w[i + 1]
  BY TakenIs
<1> HIDE DEF v
<1>2. \A i \in 1..Len(v) : i + 1 \in 1..Len(w)
  BY <1>1
<1>3. ASSUME NEW j \in 1..Len(v), v[j].kind = "summary"
      PROVE  /\ v[j].of[1] <= p.document
             /\ v[j].of[1] = p.document =>
                  /\ Newest(p, v[j].revision, v[j].of)
                  /\ \A k \in 1..Len(v) : j < k => Admits(v[j].revision, v[j].of, v[k])
  <2>1. v[j] = w[j + 1] /\ j + 1 \in 1..Len(w)
    BY <1>1, <1>2
  <2>2. /\ v[j].of[1] <= p.document
        /\ v[j].of[1] = p.document =>
             /\ Newest(p, v[j].revision, v[j].of)
             /\ \A k \in 1..Len(w) : j + 1 < k => Admits(v[j].revision, v[j].of, w[k])
    BY <1>3, <2>1 DEF SaidInOrder
  <2>3. \A k \in 1..Len(v) : j < k => k + 1 \in 1..Len(w) /\ j + 1 < k + 1 /\ v[k] = w[k + 1]
    BY <1>1
  <2>4. QED BY <2>2, <2>3
<1>4. ASSUME NEW k \in 1..Len(v), \A i \in 1..Len(v) : k < i => ~Tells(v[i])
      PROVE  /\ v[k].kind = "clear" => p.selected = NoTag
             /\ v[k].kind = "summary" /\ v[k].of[1] = p.document => v[k].of = <<p.document, p.selected>>
  <2>1. v[k] = w[k + 1] /\ k + 1 \in 1..Len(w)
    BY <1>1, <1>2
  <2>2. ASSUME NEW i \in 1..Len(w), k + 1 < i PROVE ~Tells(w[i])
    <3>1. i - 1 \in 1..Len(v) /\ k < i - 1 /\ (i - 1) + 1 = i
      BY <1>1, <2>2
    <3>2. QED BY <1>1, <1>4, <3>1, Zenon
  <2>3. QED BY <2>1, <2>2 DEF SaidInOrder
<1>5. QED BY <1>3, <1>4 DEF SaidInOrder, v

\* The panel becomes q2 when it hears the first message: it takes a summary and a clear,
\* and origins change nothing that it shows.
Heard(q, m, q2) ==
  /\ m.kind = "summary" => q2.revision = m.revision /\ q2.summary = m.of
  /\ m.kind = "clear" => q2.revision = 0 /\ q2.summary = NoTag
  /\ m.kind = "origins" => q2.revision = q.revision /\ q2.summary = q.summary

\* The panel hears the first of what is under way, and the rest stays in order.
LEMMA HeardWhenTaken ==
  ASSUME NEW p, NEW w \in Seq(Messages), w # <<>>, NEW q, NEW q2, Heard(q, w[1], q2), NEW blank, NEW blank2,
         w[1].kind = "origins" => blank2 = blank, SaidInOrder(p, w), HeardInOrder(p, w, q, blank)
  PROVE  HeardInOrder(p, Tail(w), q2, blank2)
<1> DEFINE v == Tail(w)
<1>1. /\ v \in Seq(Messages) /\ Len(w) \in Nat /\ Len(v) = Len(w) - 1 /\ Len(w) >= 1
      /\ \A i \in 1..Len(v) : v[i] = w[i + 1]
      /\ w[1] \in Messages
  BY TakenIs
<1>2. /\ \A j \in 1..Len(w) : w[j].kind = "summary" => ComesInOrder(p, w, j, w[j].revision, w[j].of)
      /\ q.revision # 0 => ComesInOrder(p, w, 0, q.revision, q.summary)
  BY DEF HeardInOrder
<1> HIDE DEF v
<1>3. ASSUME NEW j \in 1..Len(v), v[j].kind = "summary" PROVE ComesInOrder(p, v, j, v[j].revision, v[j].of)
  <2>1. j + 1 \in 1..Len(w) /\ w[j + 1] = v[j]
    BY <1>1
  <2>2. ComesInOrder(p, w, j + 1, v[j].revision, v[j].of)
    BY <1>2, <1>3, <2>1
  <2>3. j \in Nat /\ j <= Len(v)
    BY <1>1
  <2>4. QED BY <2>2, <2>3, ComesWhenTaken, Zenon DEF v
<1>4. ASSUME q2.revision # 0 PROVE ComesInOrder(p, v, 0, q2.revision, q2.summary)
  <2>1. CASE w[1].kind = "summary"
    <3>1. ComesInOrder(p, w, 0 + 1, q2.revision, q2.summary)
      BY <1>1, <1>2, <2>1 DEF Heard
    <3>2. 0 \in Nat /\ 0 <= Len(v)
      BY <1>1
    <3>3. QED BY <3>1, <3>2, ComesWhenTaken, Zenon DEF v
  <2>2. CASE w[1].kind = "origins"
    <3>1. ComesInOrder(p, w, 0, q2.revision, q2.summary)
      BY <1>2, <1>4, <2>2 DEF Heard
    <3>2. 0 \in Nat /\ 0 <= Len(v)
      BY <1>1
    <3>3. QED BY <2>2, <3>1, <3>2, ComesWhenTaken, Zenon DEF v
  <2>3. QED BY <1>1, <1>4, <2>1, <2>2 DEF Messages, Heard
<1>5. ASSUME \A i \in 1..Len(v) : ~Tells(v[i])
      PROVE  \/ q2.summary = NoTag /\ (p.selected = NoTag \/ blank2)
             \/ q2.summary = <<p.document, p.selected>>
  <2>1. ASSUME NEW i \in 1..Len(w), 1 < i PROVE ~Tells(w[i]) /\ w[i].kind # "clear"
    <3>1. i - 1 \in 1..Len(v) /\ (i - 1) + 1 = i
      BY <1>1, <2>1
    <3>2. QED BY <1>1, <1>5, <2>1, <3>1 DEF Tells
  <2>2. /\ w[1].kind = "clear" => p.selected = NoTag
        /\ w[1].kind = "summary" /\ w[1].of[1] = p.document => w[1].of = <<p.document, p.selected>>
    BY <1>1, <2>1 DEF SaidInOrder
  <2>3. CASE w[1].kind = "clear"
    BY <2>2, <2>3 DEF Heard
  <2>4. CASE w[1].kind = "summary"
    <3>1. Unbroken(w, 1, Len(w) + 1)
      BY <2>1 DEF Unbroken
    <3>2. Newest(p, w[1].revision, w[1].of)
      BY <1>1, <1>2, <2>4, <3>1 DEF ComesInOrder
    <3>3. QED BY <2>2, <2>4, <3>2 DEF Newest, Heard
  <2>5. CASE w[1].kind = "origins"
    <3>1. \A i \in 1..Len(w) : ~Tells(w[i])
      BY <1>1, <2>1, <2>5 DEF Tells
    <3>2. QED BY <2>5, <3>1 DEF HeardInOrder, Heard
  <2>6. QED BY <1>1, <2>3, <2>4, <2>5 DEF Messages
<1>6. QED BY <1>3, <1>4, <1>5 DEF HeardInOrder, v

\* Nothing that comes in its order is refused.
LEMMA DeliverHears ==
  ASSUME SelectionTyped, OriginIsOfTheShown, Deliver
  PROVE  /\ wire # <<>> /\ wire' = Tail(wire) /\ UNCHANGED <<page, missed>>
         /\ panel' \in PanelType /\ OriginIsOfTheShown'
         /\ wire[1].kind = "origins" => wiped' = wiped
         /\ HeardInOrder(page, wire, panel, wiped) => Heard(panel, wire[1], panel')
<1> DEFINE m == wire[1]
<1>1. /\ wire # <<>> /\ wire' = Tail(wire) /\ UNCHANGED <<page, missed>> /\ m = Head(wire) /\ m \in Messages
  BY DEF Deliver, SelectionTyped
<1>2. \/ m.kind = "summary" /\ onSummary(m)
      \/ m.kind = "clear" /\ onClear(m)
      \/ m.kind = "origins" /\ onOrigins(m) /\ wiped' = wiped
  BY <1>1 DEF Deliver
<1>3. ASSUME HeardInOrder(page, wire, panel, wiped), panel.revision # 0 PROVE Admits(panel.revision, panel.summary, m)
  <2>1. ComesInOrder(page, wire, 0, panel.revision, panel.summary) /\ 1 \in 1..Len(wire) /\ 0 < 1
    BY <1>1, <1>3 DEF HeardInOrder, SelectionTyped
  <2>2. Unbroken(wire, 0, 1)
    BY DEF Unbroken
  <2>3. QED BY <2>1, <2>2 DEF ComesInOrder
<1>4. panel \in PanelType
  BY DEF SelectionTyped
<1> HIDE DEF m
<1>5. CASE m.kind = "summary" /\ onSummary(m)
  <2>1. m.revision \in Nat \ {0} /\ m.of \in Nat \X Tags /\ Tells(m)
    BY <1>1, <1>5 DEF Messages, Tells
  <2>2. CASE /\ panel' = panel
             /\ \/ Old(m)
                \/ m.revision = panel.revision /\ panel.origin.status # "idle" /\ panel.origin.of # m.of
    <3>1. HeardInOrder(page, wire, panel, wiped) => Heard(panel, m, panel')
      <4>1. panel.revision # 0 /\ panel.revision \in Nat
        BY <1>4, <2>1, <2>2 DEF Old, PanelType
      <4>2. ~Admits(panel.revision, panel.summary, m)
        BY <1>5, <2>1, <2>2, <4>1 DEF Old, Admits, OriginIsOfTheShown
      <4>3. QED BY <1>3, <4>1, <4>2
    <3>2. QED BY <1>1, <1>4, <1>5, <2>2, <3>1 DEF m, OriginIsOfTheShown
  <2>3. CASE panel' = [panel EXCEPT !.summary = m.of] /\ (panel.origin.status = "idle" \/ panel.origin.of = m.of)
             /\ m.revision = panel.revision
    <3>1. panel' \in PanelType /\ panel'.summary = m.of /\ panel'.revision = m.revision /\ panel'.origin = panel.origin
      BY <1>4, <2>1, <2>3 DEF PanelType
    <3>2. QED BY <1>1, <1>5, <2>1, <2>3, <3>1 DEF Heard, OriginIsOfTheShown, m
  <2>4. CASE panel' = [summary |-> m.of, revision |-> m.revision, origin |-> [status |-> "pending", of |-> m.of]]
    <3>1. panel' \in PanelType /\ panel'.summary = m.of /\ panel'.revision = m.revision /\ panel'.origin.of = m.of
      BY <1>4, <2>1, <2>4 DEF PanelType
    <3>2. QED BY <1>1, <1>5, <2>1, <3>1 DEF Heard, OriginIsOfTheShown, m
  <2>5. QED BY <1>5, <2>2, <2>3, <2>4 DEF onSummary
<1>6. CASE m.kind = "clear" /\ onClear(m)
  <2>1. m.revision \in Nat /\ Tells(m)
    BY <1>1, <1>6 DEF Messages, Tells
  <2>2. CASE panel' = InitialSelection
    <3>1. panel' \in PanelType /\ panel'.summary = NoTag /\ panel'.revision = 0 /\ panel'.origin.status = "idle"
      BY <2>2 DEF InitialSelection, Idle, PanelType
    <3>2. QED BY <1>1, <1>6, <3>1 DEF Heard, OriginIsOfTheShown, m
  <2>3. CASE panel' = panel /\ Old(m)
    <3>1. ~HeardInOrder(page, wire, panel, wiped)
      BY <1>3, <1>4, <2>1, <2>3 DEF Old, Admits, PanelType
    <3>2. QED BY <1>1, <1>4, <1>6, <2>3, <3>1 DEF OriginIsOfTheShown, m
  <2>4. QED BY <1>6, <2>2, <2>3 DEF onClear
<1>7. CASE m.kind = "origins" /\ onOrigins(m) /\ wiped' = wiped
  <2>1. m.of \in Nat \X Tags
    BY <1>1, <1>7 DEF Messages
  <2>2. CASE panel' = panel
    BY <1>1, <1>4, <1>7, <2>2 DEF Heard, OriginIsOfTheShown, m
  <2>3. CASE /\ panel' = [panel EXCEPT !.origin = [status |-> "ready", of |-> m.of]]
             /\ panel.origin.status # "idle" /\ panel.origin.of = m.of
    <3>1. /\ panel' \in PanelType /\ panel'.summary = panel.summary /\ panel'.revision = panel.revision
          /\ panel'.origin.of = m.of
      BY <1>4, <2>1, <2>3 DEF PanelType
    <3>2. QED BY <1>1, <1>7, <2>3, <3>1 DEF Heard, OriginIsOfTheShown, m
  <2>4. QED BY <1>7, <2>2, <2>3 DEF onOrigins
<1>8. QED BY <1>2, <1>5, <1>6, <1>7

\* What is said and heard is of the document, its revision and its selection.
LEMMA SeenAlike ==
  ASSUME NEW p, NEW p2, p2.document = p.document, p2.selected = p.selected, p2.revision = p.revision, NEW w
  PROVE  /\ \A r, x : Newest(p, r, x) <=> Newest(p2, r, x)
         /\ SaidInOrder(p, w) => SaidInOrder(p2, w)
         /\ \A q, blank : HeardInOrder(p, w, q, blank) => HeardInOrder(p2, w, q, blank)
<1>1. \A r, x : Newest(p, r, x) <=> Newest(p2, r, x)
  BY DEF Newest
<1>2. SaidInOrder(p, w) => SaidInOrder(p2, w)
  BY <1>1 DEF SaidInOrder
<1>3. \A j, r, x : ComesInOrder(p, w, j, r, x) => ComesInOrder(p2, w, j, r, x)
  BY <1>1 DEF ComesInOrder
<1>4. \A q, blank : HeardInOrder(p, w, q, blank) => HeardInOrder(p2, w, q, blank)
  BY <1>3 DEF HeardInOrder
<1>5. QED BY <1>1, <1>2, <1>4

\* A document that says the next revision says it in its order.
LEMMA NextIsSaid ==
  ASSUME SelectionTyped, OriginIsOfTheShown, SaidInOrder(page, wire),
         ~missed => HeardInOrder(page, wire, panel, wiped),
         page' \in PageType, page'.document = page.document, page'.revision = page.revision + 1,
         NEW m \in Messages, m.revision = page.revision + 1, m.kind \in {"summary", "clear"},
         m.kind = "summary" => m.of = <<page'.document, page'.selected>> /\ page'.selected \in Tags,
         m.kind = "clear" => page'.selected = NoTag,
         wire' = Append(wire, m), UNCHANGED <<panel, missed, wiped>>
  PROVE  /\ SaidInOrder(page', wire')
         /\ ~missed' => HeardInOrder(page', wire', panel', wiped')
<1>1. /\ page \in PageType /\ wire \in Seq(Messages) /\ panel \in PanelType
      /\ panel.revision # 0 => panel.summary \in Nat \X Tags
  BY DEF SelectionTyped, OriginIsOfTheShown
<1>2. page.revision \in Nat
  BY <1>1 DEF PageType
<1>3. ASSUME NEW r \in Nat, NEW x \in Nat \X Tags, Newest(page, r, x) PROVE Newest(page', r, x) /\ Admits(r, x, m)
  BY <1>2, <1>3 DEF Newest, Admits
<1>4. m.kind = "summary" => Newest(page', m.revision, m.of)
  BY <1>2, TagAssumption DEF Newest
<1>5. SaidInOrder(page', wire')
  BY <1>1, <1>3, <1>4, SaidMore, Zenon
<1>6. ASSUME ~missed PROVE HeardInOrder(page', wire', panel, wiped)
  BY <1>1, <1>3, <1>4, <1>6, HeardMore, Zenon
<1>7. QED BY <1>5, <1>6

\* A summary or origins of the newest revision change nothing of it.
LEMMA AgainIsSaid ==
  ASSUME SelectionTyped, OriginIsOfTheShown, SaidInOrder(page, wire),
         ~missed => HeardInOrder(page, wire, panel, wiped),
         page' \in PageType, page'.document = page.document, page'.revision = page.revision,
         page'.selected = page.selected,
         NEW m \in Messages, m.kind \in {"summary", "origins"},
         m.kind = "summary" => /\ m.of = <<page.document, page.selected>> /\ page.selected \in Tags
                               /\ m.revision = page.revision,
         wire' = Append(wire, m), UNCHANGED <<panel, missed, wiped>>
  PROVE  /\ SaidInOrder(page', wire')
         /\ ~missed' => HeardInOrder(page', wire', panel', wiped')
<1>1. /\ page \in PageType /\ wire \in Seq(Messages) /\ panel \in PanelType
      /\ panel.revision # 0 => panel.summary \in Nat \X Tags
  BY DEF SelectionTyped, OriginIsOfTheShown
<1>2. page.revision \in Nat
  BY <1>1 DEF PageType
<1>3. ASSUME NEW r \in Nat, NEW x \in Nat \X Tags, Newest(page, r, x) PROVE Newest(page', r, x) /\ Admits(r, x, m)
  BY <1>2, <1>3 DEF Newest, Admits, Tells
<1>4. m.kind = "summary" => Newest(page', m.revision, m.of)
  BY <1>2, TagAssumption DEF Newest
<1>5. SaidInOrder(page', wire')
  BY <1>1, <1>3, <1>4, SaidMore, Zenon
<1>6. ASSUME ~missed PROVE HeardInOrder(page', wire', panel, wiped)
  BY <1>1, <1>3, <1>4, <1>6, HeardMore, Zenon
<1>7. QED BY <1>5, <1>6

\* The document goes: its last clear resets the panel, or is lost.
LEMMA NavigateSaid ==
  ASSUME SelectionTyped, OriginIsOfTheShown, SaidInOrder(page, wire),
         ~missed => HeardInOrder(page, wire, panel, wiped),
         NEW told \in BOOLEAN, NEW elsewhere \in BOOLEAN, Navigate(told, elsewhere)
  PROVE  /\ page' \in PageType /\ wire' \in Seq(Messages)
         /\ SaidInOrder(page', wire')
         /\ ~missed' => HeardInOrder(page', wire', panel', wiped')
<1> DEFINE m == [kind |-> "clear", revision |-> page.revision + 1]
<1>1. /\ page \in PageType /\ wire \in Seq(Messages) /\ panel \in PanelType
      /\ panel.revision # 0 => panel.summary \in Nat \X Tags
  BY DEF SelectionTyped, OriginIsOfTheShown
<1>2. page.revision \in Nat /\ page.document \in Nat /\ m \in Messages /\ m.kind = "clear"
  BY <1>1 DEF PageType, Messages
<1>3. page' = Fresh(page.document + 1) /\ UNCHANGED <<panel, wiped>> /\ missed' = (missed \/ ~told)
      /\ wire' = IF told THEN Append(wire, m) ELSE wire
  BY DEF Navigate
<1>4. page' \in PageType /\ page'.document = page.document + 1 /\ page'.selected = NoTag
  BY <1>2, <1>3 DEF Fresh, PageType
<1>5. \A r \in Nat, x \in Nat \X Tags : Newest(page, r, x) => Admits(r, x, m)
  BY <1>2 DEF Newest, Admits
<1>6. wire' \in Seq(Messages)
  BY <1>1, <1>2, <1>3
<1> HIDE DEF m
<1>7. \A j \in 1..Len(wire) : wire[j].kind = "summary" => wire[j].of[1] <= page.document /\ wire[j].of[1] \in Nat
  <2>1. \A j \in 1..Len(wire) : wire[j] \in Messages
    BY <1>1
  <2>2. QED BY <2>1 DEF SaidInOrder, Messages
<1>8. \A j \in 1..Len(wire') : wire'[j].kind = "summary" =>
        wire'[j].of[1] <= page'.document /\ wire'[j].of[1] # page'.document
  <2>1. ASSUME NEW j \in 1..Len(wire'), wire'[j].kind = "summary" PROVE j \in 1..Len(wire) /\ wire'[j] = wire[j]
    <3>1. CASE told
      BY <1>1, <1>2, <1>3, <2>1, <3>1, AppendedIs
    <3>2. CASE ~told
      BY <1>3, <3>2
    <3>3. QED BY <3>1, <3>2
  <2>2. QED BY <1>2, <1>4, <1>7, <2>1
<1>9. SaidInOrder(page', wire')
  BY <1>4, <1>8 DEF SaidInOrder
<1>10. ASSUME ~missed' PROVE HeardInOrder(page', wire', panel', wiped')
  <2>1. told /\ ~missed /\ HeardInOrder(page, wire, panel, wiped) /\ wire' = Append(wire, m)
    BY <1>3, <1>10, Zenon
  <2>2. \A r \in Nat, x \in Nat \X Tags : Newest(page, r, x) => (m.kind # "clear" => Newest(page', r, x)) /\ Admits(r, x, m)
    BY <1>2, <1>5
  <2>3. HeardInOrder(page', wire', panel, wiped)
    BY <1>1, <1>2, <1>4, <2>1, <2>2, HeardMore, Zenon
  <2>4. QED BY <1>3, <2>3
<1>11. QED BY <1>4, <1>6, <1>9, <1>10

\* A panel that is reset has nothing to refuse.
LEMMA ResetHears ==
  ASSUME SelectionTyped, SaidInOrder(page, wire), ~missed => HeardInOrder(page, wire, panel, wiped), resetSelection
  PROVE  ~missed' => HeardInOrder(page', wire', panel', wiped')
<1>1. panel'.revision = 0 /\ panel'.summary = NoTag /\ wiped' /\ UNCHANGED <<page, wire>>
  BY DEF resetSelection, InitialSelection
<1>2. ASSUME ~missed' PROVE \A j \in 1..Len(wire) : wire[j].kind = "summary" => ComesInOrder(page, wire, j, wire[j].revision, wire[j].of)
  <2>1. CASE ~missed
    BY <2>1 DEF HeardInOrder
  <2>2. CASE missed
    <3>1. \A j \in 1..Len(wire) : wire[j].kind = "summary" => wire[j].of[1] = page.document
      <4>1. ~ \E i \in DOMAIN wire : wire[i].kind = "summary" /\ wire[i].of[1] # page.document
        BY <1>2, <2>2, Zenon DEF resetSelection
      <4>2. DOMAIN wire = 1..Len(wire)
        BY DEF SelectionTyped
      <4>3. QED BY <4>1, <4>2
    <3>2. QED BY <3>1 DEF SaidInOrder, ComesInOrder
  <2>3. QED BY <2>1, <2>2
<1>3. QED BY <1>1, <1>2 DEF HeardInOrder

\* The page becomes p as it says the next revision.
LEMMA PublishStep ==
  ASSUME SelectionSound, NEW p \in PageType, p.document = page.document, LocalSound(p), Here,
         \/ \E e \in Tags : p.selected = e /\ publishSummary(p, e)
         \/ p.selected = NoTag /\ publishClear(p)
  PROVE  SelectionSound'
<1>1. /\ SelectionTyped /\ OriginIsOfTheShown /\ SaidInOrder(page, wire)
      /\ ~missed => HeardInOrder(page, wire, panel, wiped)
  BY DEF SelectionSound
<1>2. page.revision \in Nat /\ page.document \in Nat /\ UNCHANGED <<panel, missed, wiped>> /\ wire \in Seq(Messages)
  BY <1>1 DEF SelectionTyped, PageType, Here
<1>3. CASE \E e \in Tags : p.selected = e /\ publishSummary(p, e)
  <2>1. PICK e \in Tags : p.selected = e /\ publishSummary(p, e)
    BY <1>3
  <2> DEFINE m == [kind |-> "summary", revision |-> page.revision + 1, of |-> Id(e)]
  <2>2. m \in Messages /\ wire' = Append(wire, m) /\ m.of = <<page.document, e>>
    <3>1. page.revision + 1 \in Nat \ {0}
      BY <1>2
    <3>2. Id(e) \in Nat \X Tags
      BY <1>2 DEF Id
    <3>3. QED BY <2>1, <3>1, <3>2, Zenon DEF publishSummary, Messages, Id
  <2>3. /\ page' \in PageType /\ page'.document = page.document /\ page'.selected = e /\ page'.summary = e
        /\ page'.revision = page.revision + 1 /\ page'.local = p.local /\ page'.handles = p.handles
        /\ page'.moves = p.moves /\ page'.inspects = p.inspects /\ page'.mode = p.mode /\ page'.inspector = p.inspector
    <3>1. p.resolving \cup {<<page.revision + 1, e>>} \in SUBSET ((Nat \ {0}) \X Tags)
      BY <1>2 DEF PageType
    <3>2. page' = [p EXCEPT !.revision = page.revision + 1, !.summary = e,
                            !.resolving = p.resolving \cup {<<page.revision + 1, e>>}]
      BY <2>1, Zenon DEF publishSummary, PageType
    <3>3. QED BY <1>2, <2>1, <3>1, <3>2, Zenon DEF PageType
  <2>4. m.revision = page.revision + 1 /\ m.kind = "summary"
    OBVIOUS
  <2> HIDE DEF m
  <2>5. SaidInOrder(page', wire') /\ (~missed' => HeardInOrder(page', wire', panel', wiped'))
    BY <1>1, <1>2, <2>2, <2>3, <2>4, NextIsSaid
  <2>6. LocalSound(page')
    BY <2>1, <2>3 DEF LocalSound
  <2>7. OriginIsOfTheShown' /\ SelectionTyped'
    BY <1>1, <1>2, <2>2, <2>3 DEF OriginIsOfTheShown, SelectionTyped
  <2>8. QED BY <2>5, <2>6, <2>7 DEF SelectionSound
<1>4. CASE p.selected = NoTag /\ publishClear(p)
  <2> DEFINE m == [kind |-> "clear", revision |-> page.revision + 1]
  <2>1. m \in Messages /\ wire' = Append(wire, m)
    BY <1>2, <1>4 DEF publishClear, Messages
  <2>2. /\ page' \in PageType /\ page'.document = page.document /\ page'.selected = NoTag /\ page'.summary = NoTag
        /\ page'.revision = page.revision + 1 /\ page'.local = p.local /\ page'.handles = p.handles
        /\ page'.moves = p.moves /\ page'.inspects = p.inspects /\ page'.mode = p.mode /\ page'.inspector = p.inspector
    <3>1. page' = [p EXCEPT !.revision = page.revision + 1, !.summary = NoTag] /\ page.revision + 1 \in Nat
      BY <1>2, <1>4 DEF publishClear
    <3>2. QED BY <1>4, <3>1, Zenon DEF PageType
  <2>3. m.revision = page.revision + 1 /\ m.kind = "clear"
    OBVIOUS
  <2> HIDE DEF m
  <2>4. SaidInOrder(page', wire') /\ (~missed' => HeardInOrder(page', wire', panel', wiped'))
    BY <1>1, <1>2, <2>1, <2>2, <2>3, NextIsSaid
  <2>5. LocalSound(page')
    BY <1>4, <2>2 DEF LocalSound
  <2>6. OriginIsOfTheShown' /\ SelectionTyped'
    BY <1>1, <1>2, <2>1, <2>2 DEF OriginIsOfTheShown, SelectionTyped
  <2>7. QED BY <2>4, <2>5, <2>6 DEF SelectionSound
<1>5. QED BY <1>3, <1>4

\* The page changes otherwise: what it says, if anything, is of the newest revision.
LEMMA AgainStep ==
  ASSUME SelectionSound, Here, page' \in PageType, page'.document = page.document, page'.revision = page.revision,
         page'.selected = page.selected, page'.summary = page.summary, LocalSound(page'),
         \/ wire' = wire
         \/ \E m \in Messages :
              /\ m.kind \in {"summary", "origins"} /\ wire' = Append(wire, m)
              /\ m.kind = "summary" => /\ m.of = <<page.document, page.selected>> /\ page.selected \in Tags
                                       /\ m.revision = page.revision
  PROVE  SelectionSound'
<1>1. /\ SelectionTyped /\ OriginIsOfTheShown /\ SaidInOrder(page, wire)
      /\ ~missed => HeardInOrder(page, wire, panel, wiped)
  BY DEF SelectionSound
<1>2. UNCHANGED <<panel, missed, wiped>> /\ wire \in Seq(Messages)
  BY <1>1 DEF SelectionTyped, Here
<1>3. SaidInOrder(page', wire') /\ (~missed' => HeardInOrder(page', wire', panel', wiped'))
  <2>1. CASE wire' = wire
    BY <1>1, <1>2, <2>1, SeenAlike
  <2>2. CASE wire' # wire
    BY <1>1, <1>2, <2>2, AgainIsSaid
  <2>3. QED BY <2>1, <2>2
<1>4. OriginIsOfTheShown' /\ SelectionTyped'
  BY <1>1, <1>2 DEF OriginIsOfTheShown, SelectionTyped
<1>5. QED BY <1>3, <1>4 DEF SelectionSound

\* Every step of the page, the panel and what is under way keeps them in order.
LEMMA SelectionStep ==
  ASSUME SelectionSound, [SelectionNext]_selectionVars
  PROVE  SelectionSound'
<1> USE TagAssumption
<1>1. /\ SelectionTyped /\ LocalSound(page) /\ OriginIsOfTheShown /\ SaidInOrder(page, wire)
      /\ ~missed => HeardInOrder(page, wire, panel, wiped)
  BY DEF SelectionSound
<1>2. page \in PageType /\ wire \in Seq(Messages)
  BY <1>1 DEF SelectionTyped
<1>3. CASE Deliver
  <2>1. /\ wire # <<>> /\ wire' = Tail(wire) /\ UNCHANGED <<page, missed>>
        /\ panel' \in PanelType /\ OriginIsOfTheShown'
        /\ wire[1].kind = "origins" => wiped' = wiped
        /\ HeardInOrder(page, wire, panel, wiped) => Heard(panel, wire[1], panel')
    BY <1>1, <1>3, DeliverHears
  <2>2. SaidInOrder(page', wire')
    BY <1>1, <1>2, <2>1, SaidWhenTaken
  <2>3. ~missed' => HeardInOrder(page', wire', panel', wiped')
    BY <1>1, <1>2, <2>1, HeardWhenTaken
  <2>4. SelectionTyped'
    BY <1>1, <1>2, <2>1 DEF SelectionTyped
  <2>5. QED BY <1>1, <2>1, <2>2, <2>3, <2>4 DEF SelectionSound
<1>4. CASE resetSelection
  <2>1. ~missed' => HeardInOrder(page', wire', panel', wiped')
    BY <1>1, <1>4, ResetHears
  <2>2. UNCHANGED <<page, wire>> /\ panel' = InitialSelection
    BY <1>4 DEF resetSelection
  <2>3. panel' \in PanelType /\ panel'.revision = 0 /\ panel'.origin.status = "idle"
    BY <2>2 DEF InitialSelection, Idle, PanelType
  <2>4. SelectionTyped' /\ OriginIsOfTheShown'
    BY <1>1, <2>2, <2>3 DEF SelectionTyped, OriginIsOfTheShown
  <2>5. QED BY <1>1, <2>1, <2>2, <2>4 DEF SelectionSound
<1>5. ASSUME NEW told \in BOOLEAN, NEW elsewhere \in BOOLEAN, Navigate(told, elsewhere) PROVE SelectionSound'
  <2>1. /\ page' \in PageType /\ wire' \in Seq(Messages)
        /\ SaidInOrder(page', wire')
        /\ ~missed' => HeardInOrder(page', wire', panel', wiped')
    BY <1>1, <1>5, NavigateSaid
  <2>2. page' = Fresh(page.document + 1) /\ UNCHANGED panel
    BY <1>5 DEF Navigate
  <2>3. LocalSound(page') /\ page'.summary = page'.selected /\ page'.selected = NoTag
    BY <2>2 DEF LocalSound, Fresh
  <2>4. SelectionTyped' /\ OriginIsOfTheShown'
    BY <1>1, <2>1, <2>2, <2>3 DEF SelectionTyped, OriginIsOfTheShown
  <2>5. QED BY <2>1, <2>3, <2>4 DEF SelectionSound
<1>6. \A e \in Tags : /\ Selected(e) \in PageType /\ Selected(e).document = page.document /\ Selected(e).selected = e
                      /\ Selected(e).local = page.local /\ Selected(e).handles = page.handles
                      /\ LocalSound(Selected(e))
  <2>1. ASSUME NEW e \in Tags
        PROVE  /\ Selected(e) \in PageType /\ Selected(e).document = page.document /\ Selected(e).selected = e
               /\ Selected(e).local = page.local /\ Selected(e).handles = page.handles
               /\ Selected(e).moves = page.moves /\ Selected(e).inspects = page.inspects /\ Selected(e).mode = page.mode
    BY <1>2, Zenon DEF Selected, PageType
  <2>2. QED BY <1>1, <2>1 DEF LocalSound
<1>7. ASSUME NEW e \in Tags, select(e) PROVE SelectionSound'
  <2> DEFINE p == Notified(Selected(e), e)
             context == IF e = Root THEN NoTag ELSE e
  <2>1. p = [Selected(e) EXCEPT !.local = context, !.handles = context]
    BY DEF Notified
  <2>2. context \in Tags \cup {NoTag}
    OBVIOUS
  <2>3. Selected(e) \in PageType /\ Selected(e).document = page.document /\ Selected(e).selected = e /\ LocalSound(Selected(e))
    BY <1>6
  <2> HIDE DEF p, context
  <2>4. /\ p \in PageType /\ p.document = page.document /\ p.selected = e /\ p.local = context /\ p.handles = context
        /\ p.moves = Selected(e).moves /\ p.inspects = Selected(e).inspects /\ p.mode = Selected(e).mode
    BY <2>1, <2>2, <2>3, Zenon DEF PageType
  <2>5. LocalSound(p)
    BY <2>3, <2>4 DEF LocalSound
  <2>6. publishSummary(p, e) /\ Here
    BY <1>7 DEF select, p
  <2>7. QED BY <2>4, <2>5, <2>6, PublishStep
<1>8. ASSUME NEW e \in Tags, cycle(e) PROVE SelectionSound'
  BY <1>6, <1>8, PublishStep DEF cycle
<1>9. CASE deselect
  <2>1. /\ Deselected \in PageType /\ Deselected.document = page.document /\ Deselected.selected = NoTag
        /\ Deselected.local = NoTag /\ Deselected.handles = NoTag /\ Deselected.inspector # "selected"
        /\ Deselected.moves = page.moves /\ Deselected.inspects = page.inspects /\ Deselected.mode = page.mode
    BY <1>2, Zenon DEF Deselected, PageType
  <2>2. LocalSound(Deselected)
    BY <1>1, <2>1 DEF LocalSound
  <2>3. publishClear(Deselected) /\ Here
    BY <1>9 DEF deselect
  <2>4. QED BY <2>1, <2>2, <2>3, PublishStep
<1>10. ASSUME NEW e \in Tags, hover(e) PROVE SelectionSound'
  <2>1. /\ page' \in PageType /\ page'.document = page.document /\ page'.revision = page.revision
        /\ page'.selected = page.selected /\ page'.summary = page.summary
        /\ page'.local = page.local /\ page'.handles = page.handles /\ page'.inspector = page.inspector
        /\ page'.moves = page.moves /\ page'.inspects = page.inspects /\ page'.mode = page.mode
    BY <1>2, <1>10, Zenon DEF hover, PageType
  <2>2. LocalSound(page')
    BY <1>1, <2>1 DEF LocalSound
  <2>3. QED BY <1>10, <2>1, <2>2, AgainStep DEF hover
<1>11. ASSUME NEW mode \in Modes \cup {"none"}, setInteractionMode(mode) PROVE SelectionSound'
  <2>1. /\ page' \in PageType /\ page'.document = page.document /\ page'.revision = page.revision
        /\ page'.selected = page.selected /\ page'.summary = page.summary /\ page'.local = page.local
    <3> DEFINE handles == IF mode \in {"Move", "Resize"} THEN page.handles ELSE NoTag
               inspector == IF mode = "Inspect" THEN "inspect"
                            ELSE IF page.inspector = "inspect" THEN "idle" ELSE page.inspector
               p == [page EXCEPT !.mode = mode, !.handles = handles, !.inspector = inspector]
    <3>1. PICK inspects \in BOOLEAN, moves \in BOOLEAN : page' = [p EXCEPT !.inspects = inspects, !.moves = moves]
      <4>1. page' = [p EXCEPT !.inspects = (mode = "Inspect"), !.moves = (mode = "Move")]
        BY <1>2, <1>11, Zenon DEF setInteractionMode, PageType
      <4>2. (mode = "Inspect") \in BOOLEAN /\ (mode = "Move") \in BOOLEAN
        OBVIOUS
      <4> HIDE DEF p
      <4>3. QED BY <4>1, <4>2, Zenon
    <3>2. handles \in Tags \cup {NoTag} /\ inspector \in {"idle", "inspect", "selected"} /\ mode \in Modes \cup {"none"}
      BY <1>2 DEF PageType
    <3> HIDE DEF handles, inspector
    <3>3. /\ p \in PageType /\ p.document = page.document /\ p.revision = page.revision
          /\ p.selected = page.selected /\ p.summary = page.summary /\ p.local = page.local
      BY <1>2, <3>2, Zenon DEF PageType
    <3> HIDE DEF p
    <3>4. page' \in PageType
      BY <3>1, <3>3, Zenon DEF PageType
    <3>5. QED BY <3>1, <3>3, <3>4 DEF PageType
  <2>2. /\ page'.handles \in {page.handles, NoTag} /\ page'.mode = mode
        /\ page'.inspector = "selected" => page.inspector = "selected"
    BY <1>2, <1>11 DEF setInteractionMode, PageType
  <2>3. (page'.inspects <=> mode = "Inspect") /\ (page'.moves <=> mode = "Move")
    BY <1>2, <1>11, Zenon DEF setInteractionMode, PageType
  <2>4. LocalSound(page')
    BY <1>1, <2>1, <2>2, <2>3 DEF LocalSound
  <2>5. QED BY <1>11, <2>1, <2>4, AgainStep DEF setInteractionMode
<1>12. ASSUME NEW r \in page.resolving, OriginsResolve(r) PROVE SelectionSound'
  <2>1. /\ page' \in PageType /\ page'.document = page.document /\ page'.revision = page.revision
        /\ page'.selected = page.selected /\ page'.summary = page.summary
        /\ page'.local = page.local /\ page'.handles = page.handles /\ page'.inspector = page.inspector
        /\ page'.moves = page.moves /\ page'.inspects = page.inspects /\ page'.mode = page.mode
    BY <1>2, <1>12, Zenon DEF OriginsResolve, PageType
  <2>2. LocalSound(page')
    BY <1>1, <2>1 DEF LocalSound
  <2> DEFINE m == [kind |-> "origins", revision |-> r[1], of |-> Id(r[2])]
  <2>3. m \in Messages /\ m.kind = "origins"
    <3>1. r \in (Nat \ {0}) \X Tags /\ page.document \in Nat
      BY <1>2 DEF PageType
    <3>2. QED BY <3>1 DEF Messages, Id
  <2>4. wire' = wire \/ wire' = Append(wire, m)
    BY <1>12 DEF OriginsResolve
  <2> HIDE DEF m
  <2>5. QED BY <1>12, <2>1, <2>2, <2>3, <2>4, AgainStep DEF OriginsResolve
<1>13. CASE republishResolvedBreakpoint
  <2> DEFINE m == [kind |-> "summary", revision |-> page.revision, of |-> Id(page.summary)]
  <2>1. page.summary \in Tags /\ page.selected = page.summary /\ page.revision \in Nat \ {0} /\ page.document \in Nat
    BY <1>1, <1>13 DEF republishResolvedBreakpoint, SelectionTyped, PageType
  <2>2. /\ m \in Messages /\ m.kind = "summary" /\ m.of = <<page.document, page.selected>> /\ m.revision = page.revision
        /\ wire' = Append(wire, m)
    BY <1>13, <2>1 DEF republishResolvedBreakpoint, Messages, Id
  <2> HIDE DEF m
  <2>3. page' = page /\ Here
    BY <1>13 DEF republishResolvedBreakpoint
  <2>4. page' \in PageType /\ LocalSound(page')
    BY <1>1, <1>2, <2>3
  <2>5. QED BY <2>1, <2>2, <2>3, <2>4, AgainStep
<1>14. CASE UNCHANGED selectionVars
  <2>1. UNCHANGED <<page, wire, panel, missed, wiped>>
    BY <1>14 DEF selectionVars
  <2>2. SelectionTyped' /\ OriginIsOfTheShown'
    BY <1>1, <2>1 DEF SelectionTyped, OriginIsOfTheShown
  <2>3. QED BY <1>1, <2>1, <2>2 DEF SelectionSound
<1>15. QED
  BY <1>3, <1>4, <1>5, <1>7, <1>8, <1>9, <1>10, <1>11, <1>12, <1>13, <1>14 DEF SelectionNext, onClickCapture

\* What is kept in order is what the panel shows in the end.
LEMMA SelectionSoundShows ==
  ASSUME SelectionSound
  PROVE  SelectionIsShown
<1>1. PanelShowsTheSelection
  <2>1. ASSUME wire = <<>>, ~missed
        PROVE  \/ panel.summary = NoTag /\ (page.selected = NoTag \/ wiped)
               \/ panel.summary = Id(page.selected)
    <3>1. \A i \in 1..Len(wire) : ~Tells(wire[i])
      BY <2>1
    <3>2. QED BY <2>1, <3>1 DEF SelectionSound, HeardInOrder, Id
  <2>2. QED BY <2>1 DEF PanelShowsTheSelection, SelectionSound, OriginIsOfTheShown
<1>2. NothingLocalIsLeft
  BY DEF NothingLocalIsLeft, SelectionSound, LocalSound
<1>3. QED BY <1>1, <1>2 DEF SelectionIsShown

\* Before anything is selected the handles are of nothing.
LEMMA HandlesInit ==
  ASSUME ResizeInit
  PROVE  HandlesAreOfTheSelection
<1>1. GestureSound /\ SingleSound /\ PairSound
  BY Zenon DEF ResizeInit, GestureSound, SingleSound, PairSound
<1>2. FeedbackSound
  BY DEF ResizeInit, FeedbackSound, Feedbacks, Silent, Says
<1>3. QED BY <1>1, <1>2, HandlesInParts

\* Before anything is selected nothing is under way and the panel shows nothing.
LEMMA SelectionInitIsSound ==
  ASSUME SelectionInit
  PROVE  SelectionSound
<1>1. /\ page \in PageType /\ page.selected = NoTag /\ page.summary = NoTag /\ LocalSound(page)
  BY DEF SelectionInit, Fresh, PageType, LocalSound
<1>2. /\ panel \in PanelType /\ panel.summary = NoTag /\ panel.revision = 0 /\ panel.origin.status = "idle"
  BY DEF SelectionInit, InitialSelection, Idle, PanelType
<1>3. wire = <<>> /\ wire \in Seq(Messages) /\ Len(wire) = 0
  BY DEF SelectionInit
<1>4. SaidInOrder(page, wire)
  BY <1>3 DEF SaidInOrder
<1>5. HeardInOrder(page, wire, panel, wiped)
  BY <1>1, <1>2, <1>3 DEF HeardInOrder
<1>6. QED BY <1>1, <1>2, <1>3, <1>4, <1>5 DEF SelectionSound, SelectionTyped, OriginIsOfTheShown

\* Whatever the user selects in the page or in the panel, and whatever is published late
\* or lost, the panel, the overlay and the handles are about one selection.
THEOREM SelectionsAgree == Spec => []SelectionAgrees
<1> DEFINE Inv == GroupSound /\ SelectionSound /\ HandlesAreOfTheSelection
<1>1. Init => Inv
  <2>1. GroupInit => GroupSound
    BY DEF GroupInit, GroupSound, PanelShowsTheGroup
  <2>2. QED BY <2>1, SelectionInitIsSound, HandlesInit DEF Init
<1>2. Inv /\ [Next]_allVars => Inv'
  BY EachOnItsOwn, GroupStep, SelectionStep, ResizeStep
<1>3. Inv => SelectionAgrees
  BY SelectionSoundShows DEF GroupSound, SelectionAgrees
<1>4. QED BY <1>1, <1>2, <1>3, PTL DEF Spec

------------------------------------------------------------------------------
(* The moves that are recorded.                                            *)

\* A list of children without one of them: its two parts, joined.
LEMMA CutIs ==
  ASSUME NEW X, NEW s \in Seq(X), NEW i \in 1..Len(s)
  PROVE  LET g == SubSeq(s, 1, i - 1) \o SubSeq(s, i + 1, Len(s)) IN
         /\ g \in Seq(X) /\ Len(g) = Len(s) - 1
         /\ \A k \in 1..(Len(s) - 1) : g[k] = IF k < i THEN s[k] ELSE s[k + 1]
<1> DEFINE a == SubSeq(s, 1, i - 1)  b == SubSeq(s, i + 1, Len(s))  g == a \o b
<1>1. /\ a \in Seq(X) /\ Len(a) = i - 1 /\ \A k \in 1..(i - 1) : a[k] = s[k]
  <2>1. \A k \in 1..(i - 1) : s[k] \in X
    OBVIOUS
  <2>2. Len(a) = (IF 1 <= i - 1 THEN i - 1 - 1 + 1 ELSE 0) /\ a \in Seq(X)
    BY <2>1, SubSeqProperties
  <2>3. \A k \in 1..(i - 1 - 1 + 1) : a[k] = s[1 + k - 1]
    BY <2>1, SubSeqProperties
  <2> HIDE DEF a
  <2>4. QED BY <2>2, <2>3
<1>2. /\ b \in Seq(X) /\ Len(b) = Len(s) - i /\ \A k \in 1..(Len(s) - i) : b[k] = s[i + k]
  <2>1. \A k \in (i + 1)..Len(s) : s[k] \in X
    OBVIOUS
  <2>2. Len(b) = (IF i + 1 <= Len(s) THEN Len(s) - (i + 1) + 1 ELSE 0) /\ b \in Seq(X)
    BY <2>1, SubSeqProperties
  <2>3. \A k \in 1..(Len(s) - (i + 1) + 1) : b[k] = s[i + 1 + k - 1]
    BY <2>1, SubSeqProperties
  <2> HIDE DEF b
  <2>4. QED BY <2>2, <2>3
<1> HIDE DEF a, b
<1>3. /\ g \in Seq(X) /\ Len(g) = Len(a) + Len(b)
      /\ \A k \in 1..(Len(a) + Len(b)) : g[k] = IF k <= Len(a) THEN a[k] ELSE b[k - Len(a)]
  BY <1>1, <1>2, ConcatProperties, Zenon
<1> HIDE DEF g
<1>4. ASSUME NEW k \in 1..(Len(s) - 1) PROVE g[k] = IF k < i THEN s[k] ELSE s[k + 1]
  <2>0. k \in 1..(Len(a) + Len(b))
    BY <1>1, <1>2
  <2>1. CASE k < i
    <3>1. k <= Len(a) /\ k \in 1..(i - 1)
      BY <2>1, <1>1
    <3>2. g[k] = a[k]
      BY <2>0, <3>1, <1>3
    <3>3. QED BY <2>1, <3>1, <3>2, <1>1
  <2>2. CASE ~(k < i)
    <3>0. ~(k <= Len(a))
      BY <2>2, <1>1
    <3>1. g[k] = b[k - Len(a)]
      BY <2>0, <3>0, <1>3
    <3>2. k - Len(a) \in 1..(Len(s) - i)
      BY <2>2, <1>1
    <3>3. b[k - Len(a)] = s[i + (k - Len(a))]
      BY <1>2, <3>2, Zenon
    <3>4. i + (k - Len(a)) = k + 1
      BY <1>1
    <3>5. QED BY <2>2, <3>1, <3>3, <3>4
  <2>3. QED BY <2>1, <2>2
<1>5. g \in Seq(X) /\ Len(g) = Len(s) - 1
  BY <1>1, <1>2, <1>3
<1>6. QED BY <1>4, <1>5, Zenon DEF g, a, b

\* A list of children with another at place i.
LEMMA InsertedIs ==
  ASSUME NEW X, NEW t \in Seq(X), NEW e \in X, NEW i \in 1..(Len(t) + 1)
  PROVE  LET s == InsertAt(t, i, e) IN
         /\ s \in Seq(X) /\ Len(s) = Len(t) + 1 /\ s[i] = e
         /\ \A k \in 1..(Len(t) + 1) : k # i => s[k] = IF k < i THEN t[k] ELSE t[k - 1]
<1> DEFINE a == SubSeq(t, 1, i - 1)  b == SubSeq(t, i, Len(t))  c == a \o <<e>>  s == c \o b
<1>1. /\ a \in Seq(X) /\ Len(a) = i - 1 /\ \A k \in 1..(i - 1) : a[k] = t[k]
  <2>1. \A k \in 1..(i - 1) : t[k] \in X
    OBVIOUS
  <2>2. Len(a) = (IF 1 <= i - 1 THEN i - 1 - 1 + 1 ELSE 0) /\ a \in Seq(X)
    BY <2>1, SubSeqProperties
  <2>3. \A k \in 1..(i - 1 - 1 + 1) : a[k] = t[1 + k - 1]
    BY <2>1, SubSeqProperties
  <2> HIDE DEF a
  <2>4. QED BY <2>2, <2>3
<1>2. /\ b \in Seq(X) /\ Len(b) = Len(t) - i + 1 /\ \A k \in 1..(Len(t) - i + 1) : b[k] = t[i + k - 1]
  <2>1. \A k \in i..Len(t) : t[k] \in X
    OBVIOUS
  <2>2. Len(b) = (IF i <= Len(t) THEN Len(t) - i + 1 ELSE 0) /\ b \in Seq(X)
    BY <2>1, SubSeqProperties
  <2>3. \A k \in 1..(Len(t) - i + 1) : b[k] = t[i + k - 1]
    BY <2>1, SubSeqProperties
  <2> HIDE DEF b
  <2>4. QED BY <2>2, <2>3
<1> HIDE DEF a, b
<1>3. /\ c \in Seq(X) /\ Len(c) = i /\ c[i] = e /\ \A k \in 1..(i - 1) : c[k] = t[k]
  BY <1>1
<1> HIDE DEF c
<1>4. /\ s \in Seq(X) /\ Len(s) = Len(c) + Len(b)
      /\ \A k \in 1..(Len(c) + Len(b)) : s[k] = IF k <= Len(c) THEN c[k] ELSE b[k - Len(c)]
  BY <1>2, <1>3, ConcatProperties
<1> HIDE DEF s
<1>5. s[i] = e
  <2>1. i \in 1..(Len(c) + Len(b)) /\ i <= Len(c)
    BY <1>2, <1>3
  <2>2. QED BY <2>1, <1>3, <1>4
<1>6. ASSUME NEW k \in 1..(Len(t) + 1), k # i PROVE s[k] = IF k < i THEN t[k] ELSE t[k - 1]
  <2>1. CASE k < i
    <3>1. s[k] = c[k]
      BY <2>1, <1>2, <1>3, <1>4
    <3>2. c[k] = t[k]
      BY <2>1, <1>3
    <3>3. QED BY <2>1, <3>1, <3>2
  <2>2. CASE ~(k < i)
    <3>1. s[k] = b[k - Len(c)]
      BY <2>2, <1>2, <1>3, <1>4, <1>6
    <3>2. k - Len(c) \in 1..(Len(t) - i + 1)
      BY <2>2, <1>3, <1>6
    <3>3. b[k - Len(c)] = t[i + (k - Len(c)) - 1]
      BY <1>2, <3>2
    <3>4. i + (k - Len(c)) - 1 = k - 1
      BY <1>3
    <3>5. QED BY <2>2, <3>1, <3>3, <3>4
  <2>3. QED BY <2>1, <2>2
<1>7. s \in Seq(X) /\ Len(s) = Len(t) + 1
  BY <1>2, <1>3, <1>4
<1>8. s = InsertAt(t, i, e)
  BY DEF InsertAt, s, c, a, b
<1>9. QED BY <1>5, <1>6, <1>7, <1>8

\* An element that is taken from its place and put there again.
LEMMA GoneIs ==
  ASSUME NEW X, NEW s \in Seq(X), NEW e \in X, NEW i \in 1..Len(s), s[i] = e,
         \A j, k \in 1..Len(s) : s[j] = s[k] => j = k
  PROVE  /\ Gone(s, e) \in Seq(X) /\ Len(Gone(s, e)) = Len(s) - 1
         /\ \A k \in 1..(Len(s) - 1) : Gone(s, e)[k] = IF k < i THEN s[k] ELSE s[k + 1]
         /\ e \notin ToSet(Gone(s, e))
         /\ InsertAt(Gone(s, e), i, e) = s
<1> DEFINE g == Gone(s, e)
<1>1. e \in ToSet(s)
  BY DEF ToSet
<1>2. (CHOOSE k \in DOMAIN s : s[k] = e) = i
  OBVIOUS
<1>3. g = SubSeq(s, 1, i - 1) \o SubSeq(s, i + 1, Len(s))
  BY <1>1, <1>2, Zenon DEF Gone, RemoveAt
<1> HIDE DEF g
<1>4. /\ g \in Seq(X) /\ Len(g) = Len(s) - 1
      /\ \A k \in 1..(Len(s) - 1) : g[k] = IF k < i THEN s[k] ELSE s[k + 1]
  BY <1>3, CutIs, Zenon
<1>5. ASSUME NEW k \in 1..Len(g), g[k] = e PROVE FALSE
  <2>1. k \in 1..(Len(s) - 1)
    BY <1>4
  <2>2. CASE k < i
    BY <1>4, <1>5, <2>1, <2>2
  <2>3. CASE ~(k < i)
    BY <1>4, <1>5, <2>1, <2>3
  <2>4. QED BY <2>2, <2>3
<1>6. e \notin ToSet(g)
  BY <1>4, <1>5 DEF ToSet
<1>7. InsertAt(g, i, e) = s
  <2> DEFINE t == InsertAt(g, i, e)
  <2>1. /\ t \in Seq(X) /\ Len(t) = Len(s) /\ t[i] = e
        /\ \A k \in 1..Len(s) : k # i => t[k] = IF k < i THEN g[k] ELSE g[k - 1]
    <3>1. i \in 1..(Len(g) + 1) /\ Len(g) + 1 = Len(s) /\ g \in Seq(X)
      BY <1>4
    <3>2. /\ t \in Seq(X) /\ Len(t) = Len(g) + 1 /\ t[i] = e
          /\ \A k \in 1..(Len(g) + 1) : k # i => t[k] = IF k < i THEN g[k] ELSE g[k - 1]
      BY <3>1, InsertedIs
    <3> HIDE DEF t
    <3>3. QED BY <3>1, <3>2
  <2> HIDE DEF t
  <2>2. ASSUME NEW k \in 1..Len(s) PROVE t[k] = s[k]
    <3>1. CASE k = i
      BY <3>1, <2>1
    <3>2. CASE k < i
      <4>1. k \in 1..(Len(s) - 1)
        BY <3>2
      <4>2. QED BY <3>2, <2>1, <1>4, <4>1
    <3>3. CASE k > i
      <4>1. k - 1 \in 1..(Len(s) - 1) /\ ~(k - 1 < i) /\ k - 1 + 1 = k
        BY <3>3
      <4>2. g[k - 1] = s[k]
        BY <1>4, <4>1
      <4>3. QED BY <3>3, <2>1, <4>2
    <3>4. QED BY <3>1, <3>2, <3>3
  <2>3. QED BY <2>1, <2>2 DEF t
<1>8. QED BY <1>4, <1>6, <1>7 DEF g

\* An element that is put at a place and taken away again.
LEMMA PutAndTaken ==
  ASSUME NEW X, NEW t \in Seq(X), NEW e \in X, e \notin ToSet(t), NEW i \in 1..(Len(t) + 1)
  PROVE  Gone(InsertAt(t, i, e), e) = t
<1> DEFINE s == InsertAt(t, i, e)
<1>1. /\ s \in Seq(X) /\ Len(s) = Len(t) + 1 /\ s[i] = e
      /\ \A k \in 1..(Len(t) + 1) : k # i => s[k] = IF k < i THEN t[k] ELSE t[k - 1]
  BY InsertedIs
<1> HIDE DEF s
<1>2. \A k \in 1..Len(t) : t[k] # e
  BY DEF ToSet
<1>3. ASSUME NEW k \in 1..Len(s), s[k] = e, k # i PROVE FALSE
  <2>1. CASE k < i
    <3>1. k \in 1..Len(t) /\ s[k] = t[k]
      BY <1>1, <1>3, <2>1
    <3>2. QED BY <1>2, <1>3, <3>1
  <2>2. CASE ~(k < i)
    <3>1. k - 1 \in 1..Len(t) /\ s[k] = t[k - 1]
      BY <1>1, <1>3, <2>2
    <3>2. QED BY <1>2, <1>3, <3>1
  <2>3. QED BY <2>1, <2>2
<1>4. Gone(s, e) = SubSeq(s, 1, i - 1) \o SubSeq(s, i + 1, Len(s))
  <2>1. e \in ToSet(s)
    BY <1>1 DEF ToSet
  <2>2. (CHOOSE k \in DOMAIN s : s[k] = e) = i
    BY <1>1, <1>3
  <2>3. QED BY <2>1, <2>2, Zenon DEF Gone, RemoveAt
<1> DEFINE g == Gone(s, e)
<1>5. /\ g \in Seq(X) /\ Len(g) = Len(s) - 1
      /\ \A k \in 1..(Len(s) - 1) : g[k] = IF k < i THEN s[k] ELSE s[k + 1]
  <2> HIDE DEF g
  <2>1. i \in 1..Len(s)
    BY <1>1
  <2>2. g = SubSeq(s, 1, i - 1) \o SubSeq(s, i + 1, Len(s))
    BY <1>4 DEF g
  <2>3. QED BY <1>1, <2>1, <2>2, CutIs, Zenon
<1> HIDE DEF g
<1>6. ASSUME NEW k \in 1..Len(t) PROVE g[k] = t[k]
  <2>1. k \in 1..(Len(s) - 1) /\ k \in 1..(Len(t) + 1)
    BY <1>1
  <2>2. CASE k < i
    BY <1>1, <1>5, <2>1, <2>2
  <2>3. CASE ~(k < i)
    <3>1. g[k] = s[k + 1]
      BY <1>5, <2>1, <2>3
    <3>2. k + 1 \in 1..(Len(t) + 1) /\ k + 1 # i /\ ~(k + 1 < i) /\ k + 1 - 1 = k
      BY <2>3
    <3>3. s[k + 1] = t[k]
      BY <1>1, <3>2
    <3>4. QED BY <3>1, <3>3
  <2>4. QED BY <2>2, <2>3
<1>7. Len(g) = Len(t)
  BY <1>1, <1>5
<1>8. g = t
  BY <1>5, <1>6, <1>7
<1>9. QED BY <1>8 DEF g, s

\* No child twice.
Once(s) == \A j, k \in 1..Len(s) : s[j] = s[k] => j = k

\* What is left of a list without an element.
LEMMA GoneKeeps ==
  ASSUME NEW X, NEW s \in Seq(X), NEW e \in X, Once(s)
  PROVE  /\ Gone(s, e) \in Seq(X) /\ e \notin ToSet(Gone(s, e)) /\ Once(Gone(s, e))
         /\ \A k \in 1..Len(Gone(s, e)) : \E m \in 1..Len(s) : Gone(s, e)[k] = s[m]
<1>1. CASE e \notin ToSet(s)
  BY <1>1 DEF Gone
<1>2. CASE e \in ToSet(s)
  <2>1. PICK i \in 1..Len(s) : s[i] = e
    BY <1>2 DEF ToSet
  <2> DEFINE g == Gone(s, e)
  <2>2. /\ g \in Seq(X) /\ Len(g) = Len(s) - 1 /\ e \notin ToSet(g)
        /\ \A k \in 1..(Len(s) - 1) : g[k] = IF k < i THEN s[k] ELSE s[k + 1]
    BY <2>1, GoneIs DEF Once
  <2> HIDE DEF g
  <2>3. ASSUME NEW k \in 1..Len(g) PROVE \E m \in 1..Len(s) : g[k] = s[m]
    <3>1. CASE k < i
      BY <3>1, <2>2
    <3>2. CASE ~(k < i)
      BY <3>2, <2>2
    <3>3. QED BY <3>1, <3>2
  <2>4. ASSUME NEW j \in 1..Len(g), NEW k \in 1..Len(g), g[j] = g[k] PROVE j = k
    <3>1. PICK m \in 1..Len(s) : g[j] = s[m] /\ m = IF j < i THEN j ELSE j + 1
      BY <2>2
    <3>2. PICK n \in 1..Len(s) : g[k] = s[n] /\ n = IF k < i THEN k ELSE k + 1
      BY <2>2
    <3>3. m = n
      BY <3>1, <3>2, <2>4 DEF Once
    <3>4. QED BY <3>1, <3>2, <3>3
  <2>5. QED BY <2>2, <2>3, <2>4 DEF g, Once
<1>3. QED BY <1>1, <1>2

\* A list with an element put into it: every other was there, and still once.
LEMMA InsertedKeeps ==
  ASSUME NEW X, NEW t \in Seq(X), NEW e \in X, e \notin ToSet(t), Once(t), NEW i \in 1..(Len(t) + 1)
  PROVE  /\ InsertAt(t, i, e) \in Seq(X) /\ Once(InsertAt(t, i, e))
         /\ \A k \in 1..Len(InsertAt(t, i, e)) :
              InsertAt(t, i, e)[k] = e \/ \E m \in 1..Len(t) : InsertAt(t, i, e)[k] = t[m]
<1> DEFINE s == InsertAt(t, i, e)
<1>1. /\ s \in Seq(X) /\ Len(s) = Len(t) + 1 /\ s[i] = e
      /\ \A k \in 1..(Len(t) + 1) : k # i => s[k] = IF k < i THEN t[k] ELSE t[k - 1]
  BY InsertedIs
<1> HIDE DEF s
<1>2. \A k \in 1..Len(t) : t[k] # e
  BY DEF ToSet
<1>3. ASSUME NEW k \in 1..Len(s), k # i
      PROVE  \E m \in 1..Len(t) : s[k] = t[m] /\ m = IF k < i THEN k ELSE k - 1
  <2>1. CASE k < i
    <3>1. k \in 1..Len(t) /\ s[k] = t[k]
      BY <2>1, <1>1, <1>3
    <3>2. QED BY <2>1, <3>1
  <2>2. CASE ~(k < i)
    <3>1. k - 1 \in 1..Len(t) /\ s[k] = t[k - 1]
      BY <2>2, <1>1, <1>3
    <3>2. QED BY <2>2, <3>1
  <2>3. QED BY <2>1, <2>2
<1>4. ASSUME NEW j \in 1..Len(s), NEW k \in 1..Len(s), s[j] = s[k] PROVE j = k
  <2>1. CASE j = i /\ k = i
    BY <2>1
  <2>2. CASE j = i /\ k # i
    BY <2>2, <1>1, <1>2, <1>3, <1>4
  <2>3. CASE j # i /\ k = i
    BY <2>3, <1>1, <1>2, <1>3, <1>4, Zenon
  <2>4. CASE j # i /\ k # i
    <3>1. PICK m \in 1..Len(t) : s[j] = t[m] /\ m = IF j < i THEN j ELSE j - 1
      BY <2>4, <1>3
    <3>2. PICK n \in 1..Len(t) : s[k] = t[n] /\ n = IF k < i THEN k ELSE k - 1
      BY <2>4, <1>3
    <3>3. m = n
      BY <3>1, <3>2, <1>4, Zenon DEF Once
    <3>4. QED BY <3>1, <3>2, <3>3, <2>4
  <2>5. QED BY <2>1, <2>2, <2>3, <2>4
<1>5. ASSUME NEW k \in 1..Len(s) PROVE s[k] = e \/ \E m \in 1..Len(t) : s[k] = t[m]
  BY <1>1, <1>3
<1>6. QED BY <1>1, <1>4, <1>5 DEF s, Once

\* Every element has one place in the page.
Tidy(pg) ==
  /\ pg \in [Parents -> Seq(Boxes)]
  /\ \A p, q \in Parents : \A i \in 1..Len(pg[p]), j \in 1..Len(pg[q]) :
       pg[p][i] = pg[q][j] => p = q /\ i = j

\* The page without an element.
LEMMA PageWithoutIs ==
  ASSUME NEW pg, Tidy(pg), NEW e \in Boxes
  PROVE  /\ Tidy(Without(pg, e)) /\ DOMAIN Without(pg, e) = Parents
         /\ \A p \in Parents : e \notin ToSet(Without(pg, e)[p])
<1> DEFINE w == Without(pg, e)
<1>1. w = [p \in Parents |-> Gone(pg[p], e)]
  BY DEF Without, Tidy
<1> HIDE DEF w
<1>2. ASSUME NEW p \in Parents
      PROVE  /\ w[p] \in Seq(Boxes) /\ e \notin ToSet(w[p]) /\ Once(w[p])
             /\ \A k \in 1..Len(w[p]) : \E m \in 1..Len(pg[p]) : w[p][k] = pg[p][m]
  <2>1. pg[p] \in Seq(Boxes) /\ Once(pg[p])
    BY DEF Tidy, Once
  <2>2. w[p] = Gone(pg[p], e)
    BY <1>1
  <2> DEFINE s == pg[p]
  <2>3. /\ Gone(s, e) \in Seq(Boxes) /\ e \notin ToSet(Gone(s, e)) /\ Once(Gone(s, e))
        /\ \A k \in 1..Len(Gone(s, e)) : \E m \in 1..Len(s) : Gone(s, e)[k] = s[m]
    <3> HIDE DEF s
    <3>1. s \in Seq(Boxes) /\ Once(s)
      BY <2>1 DEF s
    <3>2. QED BY <3>1, GoneKeeps
  <2>4. QED BY <2>2, <2>3
<1>3. w \in [Parents -> Seq(Boxes)]
  BY <1>1, <1>2
<1>4. ASSUME NEW p \in Parents, NEW q \in Parents, NEW i \in 1..Len(w[p]), NEW j \in 1..Len(w[q]), w[p][i] = w[q][j]
      PROVE  p = q /\ i = j
  <2>1. PICK m \in 1..Len(pg[p]) : w[p][i] = pg[p][m]
    BY <1>2
  <2>2. PICK n \in 1..Len(pg[q]) : w[q][j] = pg[q][n]
    BY <1>2
  <2>3. p = q
    BY <2>1, <2>2, <1>4, Zenon DEF Tidy
  <2>4. QED BY <2>3, <1>2, <1>4 DEF Once
<1>5. QED BY <1>1, <1>2, <1>3, <1>4 DEF w, Tidy

\* The page with an element put at a place, and without it again.
LEMMA PlacedIs ==
  ASSUME NEW pg, Tidy(pg), NEW e \in Boxes, NEW p \in Parents, NEW i \in 1..(Len(Without(pg, e)[p]) + 1)
  PROVE  Tidy(Placed(pg, e, p, i)) /\ Without(Placed(pg, e, p, i), e) = Without(pg, e)
<1> DEFINE w == Without(pg, e)  s == InsertAt(w[p], i, e)  z == Placed(pg, e, p, i)
<1>1. /\ Tidy(w) /\ DOMAIN w = Parents
      /\ \A q \in Parents : e \notin ToSet(w[q])
  BY PageWithoutIs
<1>2. z = [w EXCEPT ![p] = s]
  BY <1>1 DEF Placed
<1>3. i \in 1..(Len(w[p]) + 1)
  OBVIOUS
<1> HIDE DEF w, z
<1>4. w[p] \in Seq(Boxes) /\ e \notin ToSet(w[p]) /\ Once(w[p])
  BY <1>1 DEF Tidy, Once
<1>5. /\ s \in Seq(Boxes) /\ Once(s)
      /\ \A k \in 1..Len(s) : s[k] = e \/ \E m \in 1..Len(w[p]) : s[k] = w[p][m]
  BY <1>3, <1>4, InsertedKeeps
<1>6. Gone(s, e) = w[p]
  BY <1>3, <1>4, PutAndTaken
<1> HIDE DEF s
<1>7. /\ z \in [Parents -> Seq(Boxes)] /\ z[p] = s
      /\ \A q \in Parents : q # p => z[q] = w[q]
  BY <1>1, <1>2, <1>5 DEF Tidy
<1>8. \A q \in Parents : \A k \in 1..Len(w[q]) : w[q][k] # e
  BY <1>1 DEF Tidy, ToSet
<1>9. ASSUME NEW q \in Parents, NEW r \in Parents, NEW j \in 1..Len(z[q]), NEW k \in 1..Len(z[r]), z[q][j] = z[r][k]
      PROVE  q = r /\ j = k
  <2>1. CASE q = p /\ r = p
    BY <2>1, <1>5, <1>7, <1>9 DEF Once
  <2>2. CASE q = p /\ r # p
    <3>1. z[r] = w[r] /\ z[q] = s
      BY <2>2, <1>7
    <3>2. w[r][k] # e
      BY <3>1, <1>8
    <3>3. PICK m \in 1..Len(w[p]) : s[j] = w[p][m]
      BY <3>1, <3>2, <1>5, <1>9
    <3>4. p = r
      BY <3>1, <3>3, <1>1, <1>9 DEF Tidy
    <3>5. QED BY <2>2, <3>4
  <2>3. CASE q # p /\ r = p
    <3>1. z[q] = w[q] /\ z[r] = s
      BY <2>3, <1>7
    <3>2. w[q][j] # e
      BY <3>1, <1>8
    <3>3. PICK m \in 1..Len(w[p]) : s[k] = w[p][m]
      BY <3>1, <3>2, <1>5, <1>9
    <3>4. p = q
      BY <3>1, <3>3, <1>1, <1>9 DEF Tidy
    <3>5. QED BY <2>3, <3>4
  <2>4. CASE q # p /\ r # p
    <3>1. z[r] = w[r] /\ z[q] = w[q]
      BY <2>4, <1>7
    <3>2. QED BY <3>1, <1>1, <1>9 DEF Tidy
  <2>5. QED BY <2>1, <2>2, <2>3, <2>4
<1>10. Tidy(z)
  BY <1>7, <1>9 DEF Tidy
<1>11. Without(z, e) = w
  <2>1. Without(z, e) = [q \in Parents |-> Gone(z[q], e)]
    BY <1>7 DEF Without
  <2>2. ASSUME NEW q \in Parents, q # p PROVE Gone(z[q], e) = w[q]
    BY <2>2, <1>1, <1>7 DEF Gone
  <2>3. w = [q \in Parents |-> w[q]]
    BY <1>1 DEF Tidy
  <2>4. QED BY <2>1, <2>2, <2>3, <1>6, <1>7
<1>12. QED BY <1>10, <1>11 DEF z, w

\* An element that is put back where it was.
LEMMA PutBack ==
  ASSUME NEW pg, Tidy(pg), NEW later, NEW e \in Boxes, Without(later, e) = Without(pg, e),
         NEW p \in Parents, NEW i \in 1..Len(pg[p]), pg[p][i] = e
  PROVE  Placed(later, e, p, i) = pg
<1> DEFINE w == Without(pg, e)
<1>1. w = [q \in Parents |-> Gone(pg[q], e)]
  BY DEF Without, Tidy
<1>2. pg[p] \in Seq(Boxes) /\ \A j, k \in 1..Len(pg[p]) : pg[p][j] = pg[p][k] => j = k
  BY DEF Tidy
<1>3. InsertAt(Gone(pg[p], e), i, e) = pg[p]
  BY <1>2, GoneIs
<1>4. ASSUME NEW q \in Parents, q # p PROVE Gone(pg[q], e) = pg[q]
  <2>1. e \notin ToSet(pg[q])
    BY <1>4 DEF Tidy, ToSet
  <2>2. QED BY <2>1 DEF Gone
<1>5. Placed(later, e, p, i) = [w EXCEPT ![p] = InsertAt(@, i, e)]
  BY DEF Placed
<1> HIDE DEF w
<1>6. [w EXCEPT ![p] = InsertAt(@, i, e)] = [q \in Parents |-> pg[q]]
  BY <1>1, <1>3, <1>4
<1>7. pg = [q \in Parents |-> pg[q]]
  BY DEF Tidy
<1>8. QED BY <1>5, <1>6, <1>7

\* What a drop records.
MoveRecords == [element : Boxes, from : Parents, fromIndex : Nat, to : Parents, index : Nat]

PageSound == Tidy(kids) /\ moved \in Seq(MoveRecords)

\* One step of what RecordedIsDone says.
DoneInOneStep ==
  /\ kids' # kids /\ moved' = moved => gesture' = gesture
  /\ moved' # moved =>
       LET op == Last(moved') IN
       /\ kids[op.from][op.fromIndex] = op.element
       /\ kids' = Placed(kids, op.element, op.to, op.index)
       /\ Placed(kids', op.element, op.from, op.fromIndex) = kids

\* A release: the operation names the place that the element leaves.
LEMMA DropIs ==
  ASSUME PageSound, sourceRemains, NEW r \in Resolutions(gesture.selected), NEW kept \in BOOLEAN,
         Operation(r) # <<>>, Drop(Operation(r)[1], kept)
  PROVE  PageSound' /\ DoneInOneStep
<1> DEFINE e == gesture.selected  p == gesture.parent  i == gesture.index
           op == [element |-> e, from |-> p, fromIndex |-> i, to |-> r.parent, index |-> r.index]
<1>1. CASE ~kept
  <2>1. kids' = kids /\ moved' = moved
    BY <1>1 DEF Drop
  <2>2. QED BY <2>1 DEF PageSound, DoneInOneStep, Tidy
<1>2. CASE kept
  <2>1. r.kind = "valid" /\ Operation(r) = <<op>>
    BY DEF Operation
  <2>2. Operation(r)[1] = op
    BY <2>1
  <2>3. r.parent \in Parents /\ r.index \in 1..Len(Without(kids, e)[r.parent]) + 1
    BY <2>1 DEF Resolutions
  <2>4. p \in Parents /\ e \in ToSet(kids[p])
    BY DEF sourceRemains, ParentOf
  <2>5. kids[p] \in Seq(Boxes) /\ e \in Boxes
    BY <2>4 DEF PageSound, Tidy, ToSet
  <2>6. i \in 1..Len(kids[p]) /\ kids[p][i] = e
    <3>1. PICK k \in DOMAIN kids[p] : kids[p][k] = e
      BY <2>4 DEF ToSet
    <3>2. IndexIn(p, e) \in DOMAIN kids[p] /\ kids[p][IndexIn(p, e)] = e
      BY <3>1 DEF IndexIn
    <3>3. QED BY <3>2, <2>5 DEF sourceRemains
  <2>7. kids' = Placed(kids, op.element, op.to, op.index) /\ moved' = Append(moved, op)
    BY <1>2, <2>2 DEF Drop
  <2>8. kids' = Placed(kids, e, r.parent, r.index)
    BY <2>7
  <2>9. Tidy(kids)' /\ Without(kids', e) = Without(kids, e)
    <3>1. Tidy(Placed(kids, e, r.parent, r.index)) /\ Without(Placed(kids, e, r.parent, r.index), e) = Without(kids, e)
      BY <2>3, <2>5, PlacedIs DEF PageSound
    <3>2. QED BY <3>1, <2>8 DEF Tidy
  <2>10. Placed(kids', e, p, i) = kids
    BY <2>4, <2>5, <2>6, <2>9, PutBack DEF PageSound
  <2>11. op \in MoveRecords
    <3>1. r.index \in Nat /\ i \in Nat
      BY <2>3, <2>6
    <3>2. QED BY <3>1, <2>3, <2>4, <2>5 DEF MoveRecords
  <2> HIDE DEF op
  <2>12. moved' \in Seq(MoveRecords) /\ Last(moved') = op
    BY <2>7, <2>11 DEF PageSound, Last
  <2>13. /\ op.element = e /\ op.from = p /\ op.fromIndex = i
         /\ moved' # moved
    <3>1. op.element = e /\ op.from = p /\ op.fromIndex = i
      BY DEF op
    <3>2. Len(moved') # Len(moved)
      BY <2>7, <2>11 DEF PageSound
    <3>3. QED BY <3>1, <3>2
  <2>14. DoneInOneStep
    BY <2>6, <2>7, <2>10, <2>12, <2>13 DEF DoneInOneStep
  <2>15. QED BY <2>9, <2>12, <2>14 DEF PageSound
<1>3. QED BY <1>1, <1>2

\* The application's changes keep every element at one place.
LEMMA PageChangesIs ==
  ASSUME PageSound, NEW e \in Boxes, PageChanges(e)
  PROVE  PageSound' /\ DoneInOneStep
<1>1. Tidy(kids)'
  <2>1. CASE kids' = Without(kids, e)
    <3>1. Tidy(Without(kids, e))
      BY PageWithoutIs DEF PageSound
    <3>2. QED BY <2>1, <3>1 DEF Tidy
  <2>2. ASSUME NEW p \in Parents, NEW i \in 1..Len(Without(kids, e)[p]) + 1, kids' = Placed(kids, e, p, i)
        PROVE  Tidy(kids)'
    <3>1. Tidy(Placed(kids, e, p, i))
      BY PlacedIs DEF PageSound
    <3>2. QED BY <2>2, <3>1 DEF Tidy
  <2>3. QED BY <2>1, <2>2 DEF PageChanges
<1>2. moved' = moved /\ gesture' = gesture
  BY DEF PageChanges
<1>3. QED BY <1>1, <1>2 DEF PageSound, DoneInOneStep

\* One step of the drag keeps the page tidy and records what it does.
LEMMA MoveStep ==
  ASSUME PageSound, [DragNext]_dragVars
  PROVE  PageSound' /\ DoneInOneStep
<1> DEFINE Still == UNCHANGED <<kids, moved>>
<1>1. ASSUME Still PROVE PageSound' /\ DoneInOneStep
  BY <1>1 DEF PageSound, DoneInOneStep, Tidy
<1>2. CASE UNCHANGED dragVars
  BY <1>1, <1>2 DEF dragVars
<1>3. ASSUME NEW f \in Fingers, onPointerUp(f) PROVE PageSound' /\ DoneInOneStep
  <2>1. CASE UNCHANGED Page
    BY <2>1, <1>1 DEF Page
  <2>2. CASE ~UNCHANGED Page
    <3>1. PICK r \in Resolutions(gesture.selected), done \in BOOLEAN :
            /\ sourceRemains /\ Operation(r) # <<>> /\ Drop(Operation(r)[1], done)
      BY <1>3, <2>2 DEF onPointerUp
    <3>2. QED BY <3>1, DropIs
  <2>3. QED BY <2>1, <2>2
<1>4. ASSUME NEW f \in Fingers,
             \/ DragBegins(f) \/ onPointerMove(f) \/ onPointerCancel(f) \/ onLostPointerCapture(f)
             \/ \E e \in Boxes : onPointerDown(f, e)
      PROVE  Still
  BY <1>4 DEF DragBegins, onPointerMove, Tracks, cancel, onPointerCancel, onLostPointerCapture, onPointerDown, Page
<1>5. ASSUME \/ ScrollFrame \/ onKeyDownOrBlur \/ onClick \/ attach \/ detach
             \/ setSelection({}) \/ \E e \in Boxes : setSelection({e})
      PROVE  Still
  BY <1>5 DEF ScrollFrame, Tracks, cancel, onKeyDownOrBlur, onClick, attach, detach, setSelection, Page
<1>6. ASSUME NEW e \in Boxes, PageChanges(e) PROVE PageSound' /\ DoneInOneStep
  BY <1>6, PageChangesIs
<1>7. QED BY <1>1, <1>2, <1>3, <1>4, <1>5, <1>6 DEF DragNext

\* The page in which a behaviour begins has every element at one place.
LEMMA PageInit ==
  ASSUME DragInit
  PROVE  PageSound
<1>1. kids \in [Parents -> Seq(Boxes)]
  <2>1. Cardinality(Boxes) \in Nat
    BY BoxAssumption, FS_CardinalityType
  <2>2. SeqOf(Boxes, Cardinality(Boxes)) \subseteq Seq(Boxes)
    BY <2>1 DEF SeqOf
  <2>3. QED BY <2>2 DEF DragInit
<1>2. ASSUME NEW p \in Parents, NEW q \in Parents, NEW i \in 1..Len(kids[p]), NEW j \in 1..Len(kids[q]),
             kids[p][i] = kids[q][j]
      PROVE  p = q /\ i = j
  <2>1. i \in DOMAIN kids[p] /\ j \in DOMAIN kids[q]
    BY <1>1
  <2>2. <<p, i>> = <<q, j>>
    BY <1>2, <2>1 DEF DragInit
  <2>3. QED BY <2>2
<1>3. Tidy(kids)
  BY <1>1, <1>2 DEF Tidy
<1>4. QED BY <1>3 DEF DragInit, PageSound

\* An edit is of the element that is shown, and changes something unless it may not.
IsOfTheShown(e) == e.of = current /\ (e.input \in Seeded \cup {"class"} \/ e.from # e.to)

\* Whatever sends edits sends those of the element that is shown.
LEMMA EditsStep ==
  ASSUME [InspectorNext]_inspectorVars
  PROVE  \A e \in sent' \ sent : IsOfTheShown(e)
<1>1. ASSUME NEW edits, emit(edits), \A e \in edits : IsOfTheShown(e)
      PROVE  \A e \in sent' \ sent : IsOfTheShown(e)
  BY <1>1 DEF emit
<1>2. \A e \in DragEdits : IsOfTheShown(e)
  BY DEF DragEdits, Edit, Seeded, IsOfTheShown
<1>3. CASE (\E n \in Nodes : showFor(n)) \/ hide \/ GapUp
  BY <1>1, <1>2, <1>3 DEF showFor, hide, GapUp
<1>4. ASSUME NEW i, NEW next, Changed(i, next)
      PROVE  \A e \in sent' \ sent : IsOfTheShown(e)
  <2> DEFINE es == IF next = previous[i] THEN {} ELSE {Edit(current, i, previous[i], next)}
  <2>1. \A e \in es : IsOfTheShown(e)
    BY DEF Edit, IsOfTheShown
  <2>2. emit(es)
    BY <1>4 DEF Changed
  <2> HIDE DEF es
  <2>3. QED BY <1>1, <2>1, <2>2
<1>5. ASSUME NEW present, ClassChange(present)
      PROVE  \A e \in sent' \ sent : IsOfTheShown(e)
  <2> DEFINE es == {Edit(current, "class", Unread, present)}
  <2>1. \A e \in es : IsOfTheShown(e)
    BY DEF Edit, IsOfTheShown
  <2>2. emit(es)
    BY <1>5 DEF ClassChange
  <2> HIDE DEF es
  <2>3. QED BY <1>1, <2>1, <2>2
<1>6. ASSUME NEW those \in SUBSET Seeded, NEW value, applyCommand(those, value)
      PROVE  \A e \in sent' \ sent : IsOfTheShown(e)
  <2> DEFINE es == {Edit(current, i, previous[i], value) : i \in those}
  <2>1. \A e \in es : IsOfTheShown(e)
    BY DEF Edit, IsOfTheShown
  <2>2. emit(es)
    BY <1>6 DEF applyCommand
  <2> HIDE DEF es
  <2>3. QED BY <1>1, <2>1, <2>2
<1>7. CASE \/ GapDown \/ \E gap \in Lengths : GapMoves(gap)
           \/ \E n \in Nodes, v \in 0..1 : \E i \in Offers(n) \cap {"length", "class"} : SomethingElse(n, i, v)
           \/ UNCHANGED inspectorVars
  <2>1. sent' = sent
    BY <1>7 DEF GapDown, GapMoves, SomethingElse, inspectorVars
  <2>2. QED BY <2>1
<1>8. CASE \E next \in Lengths : TextChange(next) \/ \E i \in Inputs : applyStyleChange(i, next)
  BY <1>8, <1>4 DEF TextChange, applyStyleChange
<1>9. CASE ClassAdd \/ ClassRemove
  BY <1>9, <1>5 DEF ClassAdd, ClassRemove
<1>10. CASE \E value \in Lengths : GapApplies(value) \/ \E sides \in SUBSET Sides : PaddingApplies(sides, value)
  BY <1>10, <1>6 DEF GapApplies, PaddingApplies, Seeded
<1>11. QED BY <1>3, <1>7, <1>8, <1>9, <1>10 DEF InspectorNext

\* What a drop, a resize or a property's handle records is what it has done, to the
\* element that was shown, and can be put back.
THEOREM RecordedIsWhatWasDone == Spec => RecordedIsReal
<1> DEFINE Inv == PageSound /\ HandlesAreOfTheSelection
           Attached == recorded' # recorded => recorded' = attached /\ attached' = attached
           Edits == \A e \in sent' \ sent : /\ e.of = current
                                            /\ e.input \in Seeded \cup {"class"} \/ e.from # e.to
<1>1. Init => Inv
  BY PageInit, HandlesInit DEF Init
<1>2. Inv /\ [Next]_allVars => Inv' /\ [DoneInOneStep]_dragVars /\ [Attached]_resizeVars /\ [Edits]_inspectorVars
  BY EachOnItsOwn, MoveStep, ResizeStep, EditsStep DEF IsOfTheShown
<1>3. [][DoneInOneStep]_dragVars => RecordedIsDone
  BY PTL DEF RecordedIsDone, DoneInOneStep
<1>4. [][Attached]_resizeVars => RecordedIsAttached
  BY PTL DEF RecordedIsAttached
<1>5. [][Edits]_inspectorVars => EditsAreOfTheShown
  BY PTL DEF EditsAreOfTheShown
<1>6. QED BY <1>1, <1>2, <1>3, <1>4, <1>5, PTL DEF Spec, RecordedIsReal

------------------------------------------------------------------------------
(* The stacks.                                                             *)

\* Every operation keeps the order of the stacks.
LEMMA JournalStep ==
  ASSUME Ordered(journal), [JournalNext]_journal
  PROVE  Ordered(journal')
<1>1. CASE \E o \in Ops : Record(o) \/ Commit(o) \/ RollBack(o) \/ Supersede(o)
  <2>1. PICK o \in Ops : Record(o) \/ Commit(o) \/ RollBack(o) \/ Supersede(o)
    BY <1>1
  <2>2. CASE Record(o)
    BY <2>2, appendEntryIsSound DEF Record
  <2>3. CASE Commit(o)
    BY <2>3, markEntryCommittedIsSound DEF Commit
  <2>4. CASE RollBack(o)
    BY <2>4, markEntryRevertedIsSound DEF RollBack
  <2>5. CASE Supersede(o)
    BY <2>5, markEntrySupersededIsSound DEF Supersede
  <2>6. QED BY <2>1, <2>2, <2>3, <2>4, <2>5
<1>2. CASE Undo
  BY <1>2, undoIsSound DEF Undo
<1>3. CASE Redo
  BY <1>3, redoIsSound DEF Redo
<1>4. CASE Clear
  BY <1>4, createJournalIsSound DEF Clear, Sound
<1>5. QED BY <1>1, <1>2, <1>3, <1>4 DEF JournalNext

\* Every operation leaves both stacks standing.
LEMMA StandingStep ==
  ASSUME Ordered(journal), BothStand(journal), [JournalNext]_journal
  PROVE  BothStand(journal')
<1>1. PICK j : j = journal
  OBVIOUS
<1>2. /\ Typed(j) /\ BothStand(j) /\ j.undo \in Seq(Ops) /\ j.redo \in Seq(Ops)
      /\ Standing(j.undo, j) /\ Standing(j.redo, j)
  BY <1>1 DEF Ordered, Typed, BothStand
<1>3. {"committed", "reverted"} \subseteq Status \ {"superseded"}
  BY DEF Status
<1>4. ASSUME NEW o \in Ops, NEW st \in {"committed", "reverted"}, NEW k,
             k.undo = j.undo, k.redo = j.redo, k.status = [j.status EXCEPT ![o] = st]
      PROVE  BothStand(k)
  <2>1. Standing(j.undo, k) /\ Standing(j.redo, k)
    BY <1>2, <1>3, <1>4, StandingStays
  <2>2. QED BY <2>1, <1>4 DEF BothStand
<1>5. ASSUME NEW o \in Ops, Commit(o) \/ RollBack(o) PROVE BothStand(journal')
  <2> DEFINE c == markEntryCommitted(j, o)
             r == markEntryReverted(j, o)
  <2>1. /\ c.undo = j.undo /\ c.redo = j.redo /\ c.status = [j.status EXCEPT ![o] = "committed"]
        /\ r.undo = j.undo /\ r.redo = j.redo /\ r.status = [j.status EXCEPT ![o] = "reverted"]
    BY DEF markEntryCommitted, markEntryReverted
  <2> HIDE DEF c, r
  <2>2. BothStand(c) /\ BothStand(r)
    BY <2>1, <1>4
  <2>3. QED BY <1>1, <1>5, <2>2 DEF Commit, RollBack, c, r
<1>6. CASE Undo
  <2> DEFINE k == undo(j)
  <2>1. /\ k.undo = Front(j.undo) /\ k.redo = Append(j.redo, Last(j.undo))
        /\ k.status = [j.status EXCEPT ![Last(j.undo)] = "reverted"]
    BY DEF undo, peekUndo
  <2>2. j.undo # <<>>
    BY <1>1, <1>6 DEF Undo, canUndo
  <2> HIDE DEF k
  <2>3. Standing(Front(j.undo), k) /\ Standing(Append(j.redo, Last(j.undo)), k)
    BY <1>2, <1>3, <2>1, <2>2, StandingMoves
  <2>4. BothStand(k)
    BY <2>1, <2>3 DEF BothStand
  <2>5. QED BY <1>1, <1>6, <2>4 DEF Undo, k
<1>7. CASE Redo
  <2> DEFINE k == redo(j)
  <2>1. /\ k.redo = Front(j.redo) /\ k.undo = Append(j.undo, Last(j.redo))
        /\ k.status = [j.status EXCEPT ![Last(j.redo)] = "committed"]
    BY DEF redo, peekRedo
  <2>2. j.redo # <<>>
    BY <1>1, <1>7 DEF Redo, canRedo
  <2> HIDE DEF k
  <2>3. Standing(Front(j.redo), k) /\ Standing(Append(j.undo, Last(j.redo)), k)
    BY <1>2, <1>3, <2>1, <2>2, StandingMoves
  <2>4. BothStand(k)
    BY <2>1, <2>3 DEF BothStand
  <2>5. QED BY <1>1, <1>7, <2>4 DEF Redo, k
<1>8. ASSUME NEW o \in Ops, Record(o) \/ Supersede(o) PROVE BothStand(journal')
  <2>1. \A s \in {"preview", "committed"} : BothStand(appendEntry(j, o, s))
    BY <1>2, StandingGrows
  <2>2. BothStand(markEntrySuperseded(j, o))
    BY <1>2, StandingShrinks
  <2>3. QED BY <1>1, <1>8, <2>1, <2>2 DEF Record, Supersede
<1>9. CASE Clear
  BY <1>9 DEF Clear, createJournal, BothStand, Standing
<1>10. CASE UNCHANGED journal
  BY <1>10
<1>11. QED BY <1>5, <1>6, <1>7, <1>8, <1>9, <1>10 DEF JournalNext

\* The stacks are in order however edits, undos, redos, commits, rollbacks and
\* supersedes follow each other.
THEOREM JournalIsOrdered == JournalSpec => []Ordered(journal)
<1>1. JournalInit => Ordered(journal)
  BY createJournalIsSound DEF JournalInit, Sound
<1>2. Ordered(journal) /\ [JournalNext]_journal => Ordered(journal)'
  BY JournalStep
<1>3. QED BY <1>1, <1>2, PTL DEF JournalSpec

\* The stacks hold distinct recorded entries in the order they were recorded, and
\* nothing that another edit superseded, whatever is undone, redone or committed.
THEOREM JournalStacksInOrder == JournalSpec => []StacksInOrder
<1>1. JournalInit => BothStand(journal)
  BY DEF JournalInit, createJournal, BothStand, Standing
<1>2. Ordered(journal) /\ BothStand(journal) /\ [JournalNext]_journal => BothStand(journal)'
  BY StandingStep
<1>3. Ordered(journal) /\ BothStand(journal) => StacksInOrder
  BY OrderedIsChecked, LineStands DEF StacksInOrder, Ordered
<1>4. QED BY <1>1, <1>2, <1>3, JournalIsOrdered, PTL DEF JournalSpec

------------------------------------------------------------------------------
(* The line of edits.                                                      *)

\* A filter that drops at most the element at place p moves the later ones down.
LEMMA KeptAt ==
  ASSUME NEW X, NEW s \in Seq(X), NEW S, NEW p \in 1..(Len(s) + 1),
         \A i \in 1..Len(s) : s[i] \in S <=> i # p
  PROVE  /\ Kept(s, S) \in Seq(X)
         /\ Len(Kept(s, S)) = IF p <= Len(s) THEN Len(s) - 1 ELSE Len(s)
         /\ \A i \in 1..Len(Kept(s, S)) : Kept(s, S)[i] = IF i < p THEN s[i] ELSE s[i + 1]
<1> DEFINE f == KeptUpTo(s, S)
           Good(n) == /\ f[n] \in Seq(X) /\ Len(f[n]) = IF p <= n THEN n - 1 ELSE n
                      /\ \A i \in 1..Len(f[n]) : f[n][i] = IF i < p THEN s[i] ELSE s[i + 1]
           Bad == {n \in 0..Len(s) : ~Good(n)}
<1>1. Len(s) \in Nat
  OBVIOUS
<1>2. IsKept(f, s, S, Len(s))
  BY KeptUpToIsKept
<1> HIDE DEF f
<1>3. Good(0)
  <2>1. f[0] = <<>>
    BY <1>1, <1>2 DEF IsKept
  <2>2. QED BY <2>1, <1>1
<1>4. ASSUME NEW n \in 1..Len(s), Good(n - 1) PROVE Good(n)
  <2>1. f[n] = IF s[n] \in S THEN Append(f[n - 1], s[n]) ELSE f[n - 1]
    BY <1>1, <1>2 DEF IsKept
  <2>2. s[n] \in X /\ (s[n] \in S <=> n # p)
    BY <1>1
  <2>3. PICK r \in Seq(X) : r = f[n - 1]
    BY <1>4
  <2>4. /\ Len(r) = (IF p <= n - 1 THEN n - 2 ELSE n - 1)
        /\ \A i \in 1..Len(r) : r[i] = IF i < p THEN s[i] ELSE s[i + 1]
    BY <2>3, <1>4, <1>1
  <2>5. CASE n = p
    BY <2>1, <2>2, <2>3, <2>4, <2>5, <1>1
  <2>6. CASE n # p
    <3> DEFINE q == Append(r, s[n])
    <3>1. /\ q \in Seq(X) /\ Len(r) \in Nat /\ Len(q) = Len(r) + 1 /\ q[Len(r) + 1] = s[n]
          /\ \A i \in 1..Len(r) : q[i] = r[i]
      BY <2>2
    <3> HIDE DEF q
    <3>2. f[n] = q
      BY <2>1, <2>2, <2>3, <2>6 DEF q
    <3>3. Len(q) = IF p <= n THEN n - 1 ELSE n
      BY <3>1, <2>4, <2>6, <1>1
    <3>4. ASSUME NEW i \in 1..Len(q) PROVE q[i] = IF i < p THEN s[i] ELSE s[i + 1]
      <4>1. CASE i \in 1..Len(r)
        BY <4>1, <3>1, <2>4
      <4>2. CASE i \notin 1..Len(r)
        <5>1. i = Len(r) + 1 /\ q[i] = s[n]
          BY <4>2, <3>1
        <5>2. IF i < p THEN i = n ELSE i + 1 = n
          BY <5>1, <2>4, <2>6, <1>1
        <5>3. QED BY <5>1, <5>2
      <4>3. QED BY <4>1, <4>2
    <3>5. QED BY <3>1, <3>2, <3>3, <3>4, Zenon
  <2>7. QED BY <2>5, <2>6
<1>5. ASSUME Bad # {} PROVE FALSE
  <2> HIDE DEF Good
  <2>1. Bad \in SUBSET Nat
    BY <1>1
  <2> HIDE DEF Bad
  <2>2. PICK n \in Bad : \A k \in Bad : n <= k
    BY <1>5, <2>1, LeastExists
  <2>3. n \in 0..Len(s) /\ ~Good(n)
    BY DEF Bad
  <2>4. n \in 1..Len(s) /\ n - 1 \in 0..Len(s) /\ ~(n <= n - 1)
    BY <2>3, <1>3, <1>1
  <2>5. Good(n - 1)
    BY <2>2, <2>4 DEF Bad
  <2>6. QED BY <1>4, <2>3, <2>4, <2>5
<1>6. Good(Len(s))
  BY <1>1, <1>5
<1>7. QED BY <1>6 DEF f, Kept

\* The line without its i-th edit.
LEMMA WithoutIs ==
  ASSUME NEW X, NEW l \in Seq(X), NEW i \in 1..Len(l), NEW r \in Seq(X),
         Len(r) = Len(l) - 1,
         \A k \in 1..Len(r) : r[k] = IF k < i THEN l[k] ELSE l[k + 1]
  PROVE  r = SubSeq(l, 1, i - 1) \o SubSeq(l, i + 1, Len(l))
<1> DEFINE a == SubSeq(l, 1, i - 1)
           b == SubSeq(l, i + 1, Len(l))
<1>1. Len(l) \in Nat
  OBVIOUS
<1>2. a \in Seq(X) /\ Len(a) = i - 1 /\ \A k \in 1..(i - 1) : a[k] = l[k]
  BY <1>1
<1>3. b \in Seq(X) /\ Len(b) = Len(l) - i /\ \A k \in 1..(Len(l) - i) : b[k] = l[i + k]
  BY <1>1
<1> HIDE DEF a, b
<1>4. /\ a \o b \in Seq(X) /\ Len(a \o b) = Len(l) - 1
      /\ \A k \in 1..(i - 1) : (a \o b)[k] = a[k]
      /\ \A k \in 1..(Len(l) - i) : (a \o b)[(i - 1) + k] = b[k]
  <2>1. /\ a \o b \in Seq(X) /\ Len(a \o b) = Len(a) + Len(b)
        /\ \A k \in 1..(Len(a) + Len(b)) : (a \o b)[k] = IF k <= Len(a) THEN a[k] ELSE b[k - Len(a)]
    BY <1>2, <1>3, ConcatProperties, Zenon
  <2> DEFINE c == a \o b
  <2> HIDE DEF c
  <2>2. /\ c \in Seq(X) /\ Len(c) = (i - 1) + (Len(l) - i)
        /\ \A k \in 1..((i - 1) + (Len(l) - i)) : c[k] = IF k <= i - 1 THEN a[k] ELSE b[k - (i - 1)]
    BY <2>1, <1>2, <1>3, Zenon DEF c
  <2>3. Len(c) = Len(l) - 1 /\ \A k \in 1..(i - 1) : c[k] = a[k]
    BY <2>2, <1>1
  <2>4. ASSUME NEW k \in 1..(Len(l) - i) PROVE c[(i - 1) + k] = b[k]
    <3>1. (i - 1) + k \in 1..((i - 1) + (Len(l) - i)) /\ ~((i - 1) + k <= i - 1)
          /\ ((i - 1) + k) - (i - 1) = k
      BY <1>1
    <3>2. QED BY <3>1, <2>2, Zenon
  <2>5. QED BY <2>2, <2>3, <2>4, Zenon DEF c
<1>5. ASSUME NEW k \in 1..Len(r) PROVE r[k] = (a \o b)[k]
  <2>1. CASE k < i
    <3>1. k \in 1..(i - 1)
      BY <2>1, <1>1
    <3>2. (a \o b)[k] = a[k] /\ a[k] = l[k]
      BY <3>1, <1>2, <1>4, Zenon
    <3>3. r[k] = l[k]
      BY <2>1, Zenon
    <3>4. QED BY <3>2, <3>3
  <2>2. CASE ~(k < i)
    <3>1. k - (i - 1) \in 1..(Len(l) - i) /\ (i - 1) + (k - (i - 1)) = k /\ i + (k - (i - 1)) = k + 1
      BY <2>2, <1>1
    <3>2. (a \o b)[k] = b[k - (i - 1)] /\ b[k - (i - 1)] = l[k + 1]
      BY <3>1, <1>3, <1>4
    <3>3. QED BY <2>2, <3>2
  <2>3. QED BY <2>1, <2>2, Zenon
<1>6. r = a \o b
  <2> DEFINE c == a \o b
  <2>1. c \in Seq(X) /\ Len(c) = Len(r) /\ \A k \in 1..Len(r) : r[k] = c[k]
    BY <1>4, <1>5
  <2> HIDE DEF c
  <2>2. r = c
    BY <2>1, SeqEqual
  <2>3. QED BY <2>2 DEF c
<1>7. QED BY <1>6 DEF a, b

\* At most one place of a sequence without repetition holds o.
LEMMA PlaceOf ==
  ASSUME NEW s \in Seq(Ops), NoRepeat(s), NEW o
  PROVE  \E p \in 1..(Len(s) + 1) :
           /\ \A i \in 1..Len(s) : s[i] \in Ops \ {o} <=> i # p
           /\ p <= Len(s) => Holds(s, o)
<1>1. Len(s) \in Nat /\ \A i \in 1..Len(s) : s[i] \in Ops
  OBVIOUS
<1>2. CASE Holds(s, o)
  <2>1. PICK p \in 1..Len(s) : s[p] = o
    BY <1>2 DEF Holds
  <2>2. \A i \in 1..Len(s) : s[i] = o => i = p
    <3>1. \A i \in 1..Len(s) : i < p \/ p < i \/ i = p
      BY <1>1
    <3>2. QED BY <3>1, <2>1 DEF NoRepeat
  <2>3. \A i \in 1..Len(s) : s[i] \in Ops \ {o} <=> i # p
    BY <2>1, <2>2, <1>1
  <2>4. p \in 1..(Len(s) + 1)
    BY <1>1
  <2>5. QED BY <2>3, <2>4, <1>2
<1>3. CASE ~Holds(s, o)
  <2>1. Len(s) + 1 \in 1..(Len(s) + 1) /\ ~(Len(s) + 1 <= Len(s))
    BY <1>1
  <2>2. \A i \in 1..Len(s) : s[i] # o /\ i # Len(s) + 1
    BY <1>1, <1>3 DEF Holds
  <2>3. QED BY <2>1, <2>2, <1>1
<1>4. QED BY <1>2, <1>3

\* A superseded edit leaves the line, wherever it was, and the others keep their
\* places; one that is on no stack changes nothing of the line.
LEMMA SupersededLine ==
  ASSUME NEW j, Ordered(j), NEW o \in Ops, Recorded(j, o), NEW k, k = markEntrySuperseded(j, o)
  PROVE  \/ Line(k) = Line(j) /\ Len(k.undo) = Len(j.undo)
         \/ \E i \in 1..Len(Line(j)) :
              /\ Line(k) = SubSeq(Line(j), 1, i - 1) \o SubSeq(Line(j), i + 1, Len(Line(j)))
              /\ Len(k.undo) = IF i <= Len(j.undo) THEN Len(j.undo) - 1 ELSE Len(j.undo)
<1> DEFINE S == Ops \ {o}
<1>1. k.undo = Kept(j.undo, S) /\ k.redo = Kept(j.redo, S)
  BY DEF markEntrySuperseded
<1>2. Typed(j) /\ Typed(k) /\ BothFollow(j.order, j.undo, j.redo) /\ j.order \in Seq(Ops)
  BY markEntrySupersededIsSound DEF Ordered, Typed, Laid
<1>3. PICK u \in Seq(Ops), r \in Seq(Ops) : u = j.undo /\ r = j.redo
  BY <1>2 DEF Typed
<1>4. PICK ku \in Seq(Ops), kr \in Seq(Ops) : ku = k.undo /\ kr = k.redo
  BY <1>2 DEF Typed
<1>5. /\ \A i, m \in 1..Len(u) : i < m => Before(j.order, u[i], u[m])
      /\ \A i, m \in 1..Len(r) : i < m => Before(j.order, r[m], r[i])
      /\ \A i \in 1..Len(u) : \A m \in 1..Len(r) : Before(j.order, u[i], r[m])
      /\ \A x, y : Before(j.order, x, y) => x # y
  <2>1. \A x, y : Before(j.order, x, y) => x # y
    BY <1>2, BeforeIsStrict DEF BothFollow
  <2>2. QED BY <2>1, <1>2, <1>3 DEF BothFollow, Follows
<1>6. NoRepeat(u) /\ NoRepeat(r) /\ ~(Holds(u, o) /\ Holds(r, o))
  <2>1. NoRepeat(u)
    BY <1>5 DEF NoRepeat
  <2>2. NoRepeat(r)
    <3>1. \A i, m \in 1..Len(r) : i < m => r[m] # r[i]
      BY <1>5, Zenon
    <3>2. QED BY <3>1 DEF NoRepeat
  <2>3. QED BY <2>1, <2>2, <1>5 DEF Holds
<1>7. PICK p \in 1..(Len(u) + 1) :
        (\A i \in 1..Len(u) : u[i] \in S <=> i # p) /\ (p <= Len(u) => Holds(u, o))
  BY <1>6, PlaceOf, Zenon
<1>8. PICK q \in 1..(Len(r) + 1) :
        (\A i \in 1..Len(r) : r[i] \in S <=> i # q) /\ (q <= Len(r) => Holds(r, o))
  BY <1>6, PlaceOf
<1>9. PICK nu \in Nat, nr \in Nat : nu = Len(u) /\ nr = Len(r)
  OBVIOUS
<1>10. ~(p <= nu /\ q <= nr) /\ p \in 1..(nu + 1) /\ q \in 1..(nr + 1)
  BY <1>6, <1>7, <1>8, <1>9
<1>11. /\ Len(ku) = IF p <= nu THEN nu - 1 ELSE nu
       /\ \A i \in 1..Len(ku) : ku[i] = IF i < p THEN u[i] ELSE u[i + 1]
  <2>1. ku = Kept(u, S)
    BY <1>1, <1>3, <1>4
  <2>2. /\ Len(Kept(u, S)) = IF p <= Len(u) THEN Len(u) - 1 ELSE Len(u)
        /\ \A i \in 1..Len(Kept(u, S)) : Kept(u, S)[i] = IF i < p THEN u[i] ELSE u[i + 1]
    <3> HIDE DEF S
    <3>1. QED BY <1>7, KeptAt
  <2>3. QED BY <2>1, <2>2, <1>9, Zenon
<1>12. /\ Len(kr) = IF q <= nr THEN nr - 1 ELSE nr
       /\ \A i \in 1..Len(kr) : kr[i] = IF i < q THEN r[i] ELSE r[i + 1]
  <2>1. kr = Kept(r, S)
    BY <1>1, <1>3, <1>4
  <2>2. /\ Len(Kept(r, S)) = IF q <= Len(r) THEN Len(r) - 1 ELSE Len(r)
        /\ \A i \in 1..Len(Kept(r, S)) : Kept(r, S)[i] = IF i < q THEN r[i] ELSE r[i + 1]
    <3> HIDE DEF S
    <3>1. QED BY <1>8, KeptAt
  <2>3. QED BY <2>1, <2>2, <1>9, Zenon
<1>13. PICK l \in Seq(Ops) :
         /\ l = Line(j) /\ Len(l) = nu + nr
         /\ \A i \in 1..nu : l[i] = u[i]
         /\ \A i \in 1..nr : l[nu + i] = r[(nr - i) + 1]
  <2> DEFINE d == Line(j)
  <2>1. /\ d \in Seq(Ops)
        /\ Len(d) = Len(j.undo) + Len(j.redo)
        /\ \A i \in 1..Len(j.undo) : d[i] = j.undo[i]
        /\ \A i \in 1..Len(j.redo) : d[Len(j.undo) + i] = j.redo[(Len(j.redo) - i) + 1]
    BY <1>2, LineIs, Zenon
  <2>2. d = Line(j)
    OBVIOUS
  <2> HIDE DEF d
  <2>3. /\ Len(d) = nu + nr
        /\ \A i \in 1..nu : d[i] = u[i]
        /\ \A i \in 1..nr : d[nu + i] = r[(nr - i) + 1]
    BY <2>1, <1>3, <1>9, Zenon
  <2>4. QED BY <2>1, <2>2, <2>3, Zenon
<1>14. PICK kl \in Seq(Ops) :
         /\ kl = Line(k) /\ Len(kl) = Len(ku) + Len(kr)
         /\ \A i \in 1..Len(ku) : kl[i] = ku[i]
         /\ \A i \in 1..Len(kr) : kl[Len(ku) + i] = kr[(Len(kr) - i) + 1]
  <2> DEFINE d == Line(k)
  <2>1. /\ d \in Seq(Ops)
        /\ Len(d) = Len(k.undo) + Len(k.redo)
        /\ \A i \in 1..Len(k.undo) : d[i] = k.undo[i]
        /\ \A i \in 1..Len(k.redo) : d[Len(k.undo) + i] = k.redo[(Len(k.redo) - i) + 1]
    <3>1. Typed(k)
      BY <1>2
    <3>2. QED BY <3>1, LineIs, Zenon
  <2>2. d = Line(k)
    OBVIOUS
  <2> HIDE DEF d
  <2>3. /\ Len(d) = Len(ku) + Len(kr)
        /\ \A i \in 1..Len(ku) : d[i] = ku[i]
        /\ \A i \in 1..Len(kr) : d[Len(ku) + i] = kr[(Len(kr) - i) + 1]
    BY <2>1, <1>4, Zenon
  <2>4. QED BY <2>1, <2>2, <2>3, Zenon
<1>15. CASE p = nu + 1 /\ q = nr + 1
  <2>1. ku = u
    <3>1. Len(ku) = Len(u) /\ \A i \in 1..Len(ku) : ku[i] = u[i]
      BY <1>9, <1>11, <1>15
    <3>2. QED BY <3>1, SeqEqual, Zenon
  <2>2. kr = r
    <3>1. Len(kr) = Len(r) /\ \A i \in 1..Len(kr) : kr[i] = r[i]
      BY <1>9, <1>12, <1>15
    <3>2. QED BY <3>1, SeqEqual, Zenon
  <2>3. QED BY <2>1, <2>2, <1>3, <1>4, Zenon DEF Line
<1>16. CASE p <= nu /\ q = nr + 1
  <2>1. Len(kl) = (nu + nr) - 1 /\ Len(ku) = nu - 1 /\ Len(kr) = nr
    BY <1>9, <1>10, <1>11, <1>12, <1>14, <1>16
  <2>2. ASSUME NEW i \in 1..Len(kl) PROVE kl[i] = IF i < p THEN l[i] ELSE l[i + 1]
    <3>1. CASE i <= nu - 1
      <4>1. i \in 1..Len(ku) /\ i \in 1..nu /\ i + 1 \in 1..nu
        BY <3>1, <2>1, <1>9
      <4>2. QED BY <4>1, <1>11, <1>13, <1>14, Zenon
    <3>2. CASE ~(i <= nu - 1)
      <4>1. PICK m \in 1..nr : i = (nu - 1) + m
        <5>1. i - (nu - 1) \in 1..nr /\ i = (nu - 1) + (i - (nu - 1))
          BY <3>2, <2>1, <1>9
        <5>2. QED BY <5>1
      <4>2. kl[i] = kr[(nr - m) + 1]
        BY <4>1, <2>1, <1>14
      <4>3. (nr - m) + 1 \in 1..Len(kr) /\ (nr - m) + 1 < q
        BY <2>1, <1>16
      <4>4. kl[i] = r[(nr - m) + 1]
        BY <4>2, <4>3, <1>12, Zenon
      <4>5. i + 1 = nu + m /\ ~(i < p)
        BY <4>1, <1>10, <1>16
      <4>6. l[nu + m] = r[(nr - m) + 1]
        BY <1>13
      <4>7. QED BY <4>4, <4>5, <4>6
    <3>3. QED BY <3>1, <3>2
  <2>3. p \in 1..Len(l)
    BY <1>10, <1>13, <1>16
  <2>4. kl = SubSeq(l, 1, p - 1) \o SubSeq(l, p + 1, Len(l))
    BY <2>1, <2>2, <2>3, <1>13, WithoutIs, Zenon
  <2>5. QED BY <2>1, <2>3, <2>4, <1>3, <1>4, <1>9, <1>13, <1>14, <1>16, Zenon
<1>17. CASE p = nu + 1 /\ q <= nr
  <2>0. PICK d \in Nat : d = (nu + (nr - q)) + 1
    BY <1>10, <1>17
  <2>1. Len(kl) = (nu + nr) - 1 /\ Len(ku) = nu /\ Len(kr) = nr - 1 /\ d \in 1..(nu + nr) /\ d > nu
    BY <2>0, <1>9, <1>10, <1>11, <1>12, <1>14, <1>17
  <2>2. ASSUME NEW i \in 1..Len(kl) PROVE kl[i] = IF i < d THEN l[i] ELSE l[i + 1]
    <3>1. CASE i <= nu
      <4>1. i \in 1..Len(ku) /\ i \in 1..nu /\ i < d /\ i < p
        BY <3>1, <2>1, <1>9, <1>17
      <4>2. QED BY <4>1, <1>11, <1>13, <1>14, Zenon
    <3>2. CASE ~(i <= nu)
      <4>1. PICK m \in 1..(nr - 1) : i = nu + m
        <5>1. i - nu \in 1..(nr - 1) /\ i = nu + (i - nu)
          BY <3>2, <2>1, <1>9
        <5>2. QED BY <5>1
      <4>2. kl[i] = kr[((nr - 1) - m) + 1]
        BY <4>1, <2>1, <1>14
      <4>3. ((nr - 1) - m) + 1 = nr - m /\ nr - m \in 1..Len(kr)
        BY <2>1
      <4>4. kl[i] = IF nr - m < q THEN r[nr - m] ELSE r[(nr - m) + 1]
        BY <4>2, <4>3, <1>12
      <4>5. m \in 1..nr /\ m + 1 \in 1..nr
        OBVIOUS
      <4>6. l[nu + m] = r[(nr - m) + 1] /\ l[nu + (m + 1)] = r[(nr - (m + 1)) + 1]
        BY <4>5, <1>13, Zenon
      <4>7. i + 1 = nu + (m + 1) /\ (nr - (m + 1)) + 1 = nr - m /\ (nr - m < q <=> ~(i < d))
        BY <2>0, <4>1, <1>10
      <4>8. QED BY <4>1, <4>4, <4>6, <4>7, Zenon
    <3>3. QED BY <3>1, <3>2
  <2>3. d \in 1..Len(l) /\ ~(d <= nu)
    BY <2>1, <1>13, <1>9
  <2>4. kl = SubSeq(l, 1, d - 1) \o SubSeq(l, d + 1, Len(l))
    <3>1. Len(kl) = Len(l) - 1 /\ d \in 1..Len(l)
      BY <2>1, <2>3, <1>13
    <3>2. QED BY <3>1, <2>2, WithoutIs, Zenon
  <2>5. QED BY <2>1, <2>3, <2>4, <1>3, <1>4, <1>9, <1>13, <1>14, Zenon
<1>18. (p = nu + 1 /\ q = nr + 1) \/ (p <= nu /\ q = nr + 1) \/ (p = nu + 1 /\ q <= nr)
  BY <1>10
<1>19. QED BY <1>15, <1>16, <1>17, <1>18, Zenon

\* c holds the elements of s followed by those of t from the last to the first.
IsJoined(c, s, t) ==
  /\ c = s \o Reverse(t) /\ Len(c) = Len(s) + Len(t)
  /\ \A i \in 1..Len(s) : c[i] = s[i]
  /\ \A i \in 1..Len(t) : c[Len(s) + i] = t[(Len(t) - i) + 1]

\* A line is joined from its stacks.
LEMMA JoinedAt ==
  ASSUME NEW X, NEW s \in Seq(X), NEW t \in Seq(X)
  PROVE  \E c \in Seq(X) : IsJoined(c, s, t)
<1> DEFINE d == s \o Reverse(t)
<1>1. /\ d \in Seq(X) /\ Len(d) = Len(s) + Len(t)
      /\ \A i \in 1..Len(s) : d[i] = s[i]
      /\ \A i \in 1..Len(t) : d[Len(s) + i] = t[(Len(t) - i) + 1]
  BY ConcatReverse
<1>2. d = s \o Reverse(t)
  OBVIOUS
<1> HIDE DEF d
<1>3. IsJoined(d, s, t)
  BY <1>1, <1>2 DEF IsJoined
<1>4. QED BY <1>1, <1>3

\* An appended element, by a name.
LEMMA AppendedAt ==
  ASSUME NEW X, NEW s \in Seq(X), NEW x \in X, NEW q, q = Append(s, x),
         NEW m \in Nat, m = Len(s)
  PROVE  /\ q \in Seq(X) /\ Len(q) = m + 1 /\ q[m + 1] = x
         /\ \A i \in 1..m : q[i] = s[i]
<1> DEFINE d == Append(s, x)
<1>1. /\ d \in Seq(X) /\ Len(d) = Len(s) + 1 /\ d[Len(s) + 1] = x
      /\ \A i \in 1..Len(s) : d[i] = s[i]
  BY AppendProperties
<1> HIDE DEF d
<1>2. q = d
  BY DEF d
<1>3. QED BY <1>1, <1>2

\* A sequence without its last element, by a name.
LEMMA FrontAt ==
  ASSUME NEW X, NEW s \in Seq(X), s # <<>>, NEW v, v = Front(s), NEW x, x = Last(s),
         NEW n \in Nat, n = Len(s)
  PROVE  /\ v \in Seq(X) /\ x \in X /\ n \in 1..n /\ x = s[n] /\ Len(v) = n - 1
         /\ \A i \in 1..(n - 1) : v[i] = s[i]
<1> DEFINE f == Front(s)
           y == Last(s)
<1>1. /\ Len(s) \in 1..Len(s) /\ y = s[Len(s)] /\ y \in X
      /\ f \in Seq(X) /\ Len(f) = Len(s) - 1
      /\ \A i \in 1..(Len(s) - 1) : f[i] = s[i]
  BY FrontAndLast
<1> HIDE DEF f, y
<1>2. v = f /\ x = y
  BY DEF f, y
<1>3. QED BY <1>1, <1>2

\* The top of one stack moved to the other stays where it is in the line.
LEMMA MovedOver ==
  ASSUME NEW X, NEW u \in Seq(X), u # <<>>, NEW r \in Seq(X)
  PROVE  Front(u) \o Reverse(Append(r, Last(u))) = u \o Reverse(r)
<1>1. PICK v, x : v = Front(u) /\ x = Last(u)
  OBVIOUS
<1>2. PICK n \in Nat, m \in Nat : n = Len(u) /\ m = Len(r)
  OBVIOUS
<1>3. v \in Seq(X) /\ x \in X /\ n \in 1..n /\ x = u[n] /\ Len(v) = n - 1 /\ \A i \in 1..(n - 1) : v[i] = u[i]
  BY <1>1, <1>2, FrontAt
<1>4. PICK q : q = Append(r, x)
  BY Zenon
<1>5. q \in Seq(X) /\ Len(q) = m + 1 /\ q[m + 1] = x /\ \A i \in 1..m : q[i] = r[i]
  BY <1>2, <1>3, <1>4, AppendedAt
<1>6. PICK k \in Nat, h \in Nat : k = n - 1 /\ h = m + 1
  BY <1>3
<1>7. PICK a \in Seq(X) : IsJoined(a, v, q)
  BY <1>3, <1>5, JoinedAt
<1>8. /\ Len(a) = k + h
      /\ \A i \in 1..k : a[i] = v[i]
      /\ \A i \in 1..h : a[k + i] = q[(h - i) + 1]
  BY <1>3, <1>5, <1>6, <1>7, Zenon DEF IsJoined
<1>9. PICK b \in Seq(X) : IsJoined(b, u, r)
  BY JoinedAt
<1>10. /\ Len(b) = n + m
       /\ \A i \in 1..n : b[i] = u[i]
       /\ \A i \in 1..m : b[n + i] = r[(m - i) + 1]
  BY <1>2, <1>9, Zenon DEF IsJoined
<1>11. Len(a) = Len(b)
  BY <1>6, <1>8, <1>10
<1>12. ASSUME NEW i \in 1..Len(a) PROVE a[i] = b[i]
  <2>1. CASE i <= k
    <3>1. i \in 1..k /\ i \in 1..n /\ i \in 1..(n - 1)
      BY <2>1, <1>6, <1>8
    <3>2. QED BY <3>1, <1>3, <1>8, <1>10
  <2>2. CASE i = n
    <3>1. 1 \in 1..h /\ k + 1 = n /\ (h - 1) + 1 = m + 1
      BY <1>3, <1>6
    <3>2. a[n] = q[m + 1]
      BY <3>1, <1>8, Zenon
    <3>3. QED BY <2>2, <3>2, <1>3, <1>5, <1>10
  <2>3. CASE i > n
    <3>1. PICK g \in 1..m : i = n + g
      <4>1. i - n \in 1..m /\ i = n + (i - n)
        BY <2>3, <1>6, <1>8
      <4>2. QED BY <4>1
    <3>2. /\ g + 1 \in 1..h /\ k + (g + 1) = i /\ (h - (g + 1)) + 1 = (m - g) + 1
          /\ (m - g) + 1 \in 1..m
      BY <3>1, <1>6
    <3>3. a[i] = q[(m - g) + 1]
      BY <3>2, <1>8, Zenon
    <3>4. q[(m - g) + 1] = r[(m - g) + 1]
      BY <3>2, <1>5
    <3>5. b[n + g] = r[(m - g) + 1]
      BY <1>10, Zenon
    <3>6. QED BY <3>1, <3>3, <3>4, <3>5
  <2>4. i <= k \/ i = n \/ i > n
    BY <1>6
  <2>5. QED BY <2>1, <2>2, <2>3, <2>4
<1>13. a = b
  BY <1>8, <1>10, <1>11, <1>12, SeqEqual
<1>14. QED BY <1>1, <1>4, <1>7, <1>9, <1>13 DEF IsJoined

\* Taking the last element off a sequence that it was appended to.
LEMMA FrontOfAppend ==
  ASSUME NEW X, NEW s \in Seq(X), NEW x \in X
  PROVE  Front(Append(s, x)) = s /\ Last(Append(s, x)) = x
<1>1. PICK m \in Nat : m = Len(s)
  OBVIOUS
<1>2. PICK q : q = Append(s, x)
  BY Zenon
<1>3. q \in Seq(X) /\ Len(q) = m + 1 /\ q[m + 1] = x /\ \A i \in 1..m : q[i] = s[i]
  BY <1>1, <1>2, AppendedAt
<1>4. PICK n \in Nat : n = m + 1
  OBVIOUS
<1>5. PICK v, y : v = Front(q) /\ y = Last(q)
  OBVIOUS
<1>6. n = Len(q) /\ q # <<>>
  BY <1>3, <1>4
<1>7. v \in Seq(X) /\ y = q[n] /\ Len(v) = n - 1 /\ \A i \in 1..(n - 1) : v[i] = q[i]
  BY <1>3, <1>5, <1>6, FrontAt
<1>8. Len(v) = Len(s) /\ \A i \in 1..Len(v) : v[i] = s[i]
  <2>1. n - 1 = m
    BY <1>4
  <2>2. QED BY <2>1, <1>1, <1>3, <1>7
<1>9. v = s
  BY <1>7, <1>8, SeqEqual
<1>10. y = x
  BY <1>3, <1>4, <1>7
<1>11. QED BY <1>2, <1>5, <1>9, <1>10

\* Putting the last element back.
LEMMA AppendOfFront ==
  ASSUME NEW X, NEW s \in Seq(X), s # <<>>
  PROVE  Append(Front(s), Last(s)) = s
<1>1. PICK v, y : v = Front(s) /\ y = Last(s)
  OBVIOUS
<1>2. PICK n \in Nat : n = Len(s)
  OBVIOUS
<1>3. v \in Seq(X) /\ y \in X /\ n \in 1..n /\ y = s[n] /\ Len(v) = n - 1 /\ \A i \in 1..(n - 1) : v[i] = s[i]
  BY <1>1, <1>2, FrontAt
<1>4. PICK g : g = Append(v, y)
  BY Zenon
<1>5. PICK m \in Nat : m = n - 1
  BY <1>3
<1>6. g \in Seq(X) /\ Len(g) = m + 1 /\ g[m + 1] = y /\ \A i \in 1..m : g[i] = v[i]
  <2>1. m = Len(v)
    BY <1>3, <1>5
  <2>2. QED BY <2>1, <1>3, <1>4, AppendedAt
<1>7. m + 1 = n
  BY <1>3, <1>5
<1>8. ASSUME NEW i \in 1..Len(g) PROVE g[i] = s[i]
  <2>1. CASE i <= m
    <3>1. i \in 1..m /\ i \in 1..(n - 1)
      BY <2>1, <1>5, <1>6
    <3>2. QED BY <3>1, <1>3, <1>6
  <2>2. CASE i = m + 1
    BY <2>2, <1>3, <1>6, <1>7
  <2>3. i <= m \/ i = m + 1
    BY <1>6
  <2>4. QED BY <2>1, <2>2, <2>3
<1>9. g = s
  <2>1. Len(g) = Len(s)
    BY <1>2, <1>6, <1>7
  <2>2. QED BY <2>1, <1>6, <1>8, SeqEqual, Zenon
<1>10. QED BY <1>1, <1>4, <1>9

\* What each operation does to the line and its cursor.
LEMMA LineSteps ==
  ASSUME Ordered(journal), [JournalNext]_journal
  PROVE  [History!Next]_(History!vars)
<1> DEFINE l == Line(journal)
           u == journal.undo
           r == journal.redo
<1>1. /\ u \in Seq(Ops) /\ r \in Seq(Ops) /\ l \in Seq(Ops)
      /\ Typed(journal) /\ Laid(journal) /\ Ordered(journal')
      /\ Len(l) = Len(u) + Len(r) /\ Len(u) \in Nat /\ Len(r) \in Nat
      /\ \A i \in 1..Len(u) : l[i] = u[i]
      /\ \A i \in 1..Len(r) : l[Len(u) + i] = r[(Len(r) - i) + 1]
  <2>1. Typed(journal) /\ Laid(journal) /\ Ordered(journal')
    BY JournalStep DEF Ordered
  <2>2. /\ Line(journal) \in Seq(Ops)
        /\ Len(Line(journal)) = Len(journal.undo) + Len(journal.redo)
        /\ \A i \in 1..Len(journal.undo) : Line(journal)[i] = journal.undo[i]
        /\ \A i \in 1..Len(journal.redo) :
             Line(journal)[Len(journal.undo) + i] = journal.redo[(Len(journal.redo) - i) + 1]
    BY <2>1, LineIs, Zenon
  <2>3. u \in Seq(Ops) /\ r \in Seq(Ops) /\ Len(u) \in Nat /\ Len(r) \in Nat
    BY <2>1 DEF Typed
  <2>4. QED BY <2>1, <2>2, <2>3, Zenon
<1>2. ASSUME NEW o \in Ops, Record(o)
      PROVE  History!Make(o)
  <2>1. PICK s \in {"preview", "committed"} : journal' = appendEntry(journal, o, s)
    BY <1>2 DEF Record
  <2>2. journal'.undo = Append(u, o) /\ journal'.redo = <<>>
    BY <2>1 DEF appendEntry
  <2>3. ~Holds(journal.order, o)
    BY <1>1, <1>2 DEF Record, Laid
  <2>4. \A i \in DOMAIN l : l[i] # o
    <3>1. \A i \in 1..Len(l) : Holds(journal.order, l[i])
      BY <1>1, LineFollows, Zenon
    <3>2. DOMAIN l = 1..Len(l)
      BY <1>1
    <3>3. QED BY <3>1, <3>2, <2>3
  <2>5. SubSeq(l, 1, Len(u)) = u
    <3>1. PICK a \in Seq(Ops), b \in Seq(Ops) : a = l /\ b = u
      BY <1>1
    <3>2. Len(b) <= Len(a) /\ \A i \in 1..Len(b) : a[i] = b[i]
      <4>1. Len(a) = Len(b) + Len(r) /\ Len(b) \in Nat /\ Len(r) \in Nat
        BY <1>1, <3>1, Zenon
      <4>2. \A i \in 1..Len(b) : a[i] = b[i]
        BY <1>1, <3>1, Zenon
      <4>3. QED BY <4>1, <4>2
    <3> DEFINE c == SubSeq(a, 1, Len(b))
    <3>3. c \in Seq(Ops) /\ Len(c) = Len(b) /\ \A i \in 1..Len(c) : c[i] = b[i]
      BY <3>2
    <3> HIDE DEF c
    <3>4. c = b
      BY <3>3, SeqEqual
    <3>5. QED BY <3>1, <3>4 DEF c
  <2>6. Line(journal') = Append(u, o)
    <3>1. Reverse(<<>>) = <<>>
      BY DEF Reverse
    <3>2. Append(u, o) \o <<>> = Append(u, o)
      BY <1>1, ConcatEmptySeq
    <3>3. QED BY <2>2, <3>1, <3>2 DEF Line
  <2>7. Len(journal'.undo) = Len(u) + 1
    BY <2>2, <1>1
  <2>8. QED BY <2>4, <2>5, <2>6, <2>7 DEF History!Make
<1>3. ASSUME Undo PROVE History!Back
  <2>1. journal'.undo = Front(u) /\ journal'.redo = Append(r, Last(u)) /\ u # <<>>
    BY <1>3 DEF Undo, undo, canUndo, peekUndo
  <2>2. Line(journal') = l
    <3>1. Front(u) \o Reverse(Append(r, Last(u))) = u \o Reverse(r)
      BY <1>1, <2>1, MovedOver, Zenon
    <3>2. QED BY <2>1, <3>1 DEF Line
  <2>3. PICK a \in Seq(Ops) : a = u
    BY <1>1
  <2>4. PICK n \in Nat : n = Len(a)
    OBVIOUS
  <2>5. Len(Front(a)) = n - 1 /\ n \in 1..n
    BY <2>1, <2>3, <2>4, FrontAt
  <2>6. Len(journal'.undo) = Len(u) - 1 /\ Len(u) > 0
    BY <2>1, <2>3, <2>4, <2>5
  <2>7. QED BY <2>2, <2>6 DEF History!Back
<1>4. ASSUME Redo PROVE History!Forward
  <2>1. journal'.undo = Append(u, Last(r)) /\ journal'.redo = Front(r) /\ r # <<>>
    BY <1>4 DEF Redo, redo, canRedo, peekRedo
  <2>2. PICK c \in Seq(Ops), t \in Seq(Ops) : c = u /\ t = r
    BY <1>1
  <2>3. PICK n \in Nat, m \in Nat : n = Len(c) /\ m = Len(t)
    OBVIOUS
  <2>4. PICK a, b, x : a = Append(c, x) /\ b = Front(t) /\ x = Last(t)
    BY Zenon
  <2>5. b \in Seq(Ops) /\ x \in Ops /\ m \in 1..m
    BY <2>1, <2>2, <2>3, <2>4, FrontAt
  <2>6. a \in Seq(Ops) /\ Len(a) = n + 1
    BY <2>2, <2>3, <2>4, <2>5, AppendedAt
  <2>7. Line(journal') = l
    <3>1. Front(a) = c /\ Last(a) = x
      BY <2>4, <2>5, FrontOfAppend
    <3>2. Append(b, x) = t
      BY <2>1, <2>2, <2>4, AppendOfFront
    <3>3. a # <<>>
      BY <2>3, <2>6
    <3>4. Front(a) \o Reverse(Append(b, Last(a))) = a \o Reverse(b)
      BY <2>5, <2>6, <3>3, MovedOver, Zenon
    <3>5. c \o Reverse(t) = a \o Reverse(b)
      BY <3>1, <3>2, <3>4, Zenon
    <3>6. QED BY <2>1, <2>2, <2>4, <3>5, Zenon DEF Line
  <2>8. Len(journal'.undo) = Len(u) + 1
    BY <2>1, <2>2, <2>3, <2>4, <2>6
  <2>9. Len(u) < Len(l)
    <3>1. Len(l) = n + m
      BY <1>1, <2>2, <2>3
    <3>2. n < n + m
      BY <2>5
    <3>3. QED BY <3>1, <3>2, <2>2, <2>3, Zenon
  <2>10. QED BY <2>7, <2>8, <2>9 DEF History!Forward
<1>5. ASSUME NEW o \in Ops, Commit(o) \/ RollBack(o)
      PROVE  UNCHANGED (History!vars)
  <2>1. journal'.undo = u /\ journal'.redo = r
    <3>1. CASE Commit(o)
      <4>1. journal' = markEntryCommitted(journal, o)
        BY <3>1 DEF Commit
      <4>2. QED BY <4>1 DEF markEntryCommitted
    <3>2. CASE RollBack(o)
      <4>1. journal' = markEntryReverted(journal, o)
        BY <3>2 DEF RollBack
      <4>2. QED BY <4>1 DEF markEntryReverted
    <3>3. QED BY <3>1, <3>2, <1>5
  <2>2. QED BY <2>1 DEF Line, History!vars
<1>6. ASSUME NEW o \in Ops, Supersede(o)
      PROVE  UNCHANGED (History!vars) \/ \E i \in DOMAIN l : History!Drop(i)
  <2>1. PICK k : k = journal'
    OBVIOUS
  <2>2. k = markEntrySuperseded(journal, o) /\ Recorded(journal, o)
    BY <2>1, <1>6 DEF Supersede
  <2>3. \/ Line(k) = Line(journal) /\ Len(k.undo) = Len(journal.undo)
        \/ \E i \in 1..Len(Line(journal)) :
             /\ Line(k) = SubSeq(Line(journal), 1, i - 1) \o SubSeq(Line(journal), i + 1, Len(Line(journal)))
             /\ Len(k.undo) = IF i <= Len(journal.undo) THEN Len(journal.undo) - 1 ELSE Len(journal.undo)
    BY <2>2, SupersededLine, Zenon
  <2>4. DOMAIN l = 1..Len(l)
    BY <1>1
  <2>5. QED BY <2>1, <2>3, <2>4, Zenon DEF History!vars, History!Drop
<1>7. ASSUME Clear PROVE History!Reset
  <2>1. journal' = createJournal
    BY <1>7 DEF Clear
  <2>2. Line(journal') = <<>> /\ Len(journal'.undo) = 0
    BY <2>1 DEF createJournal, Line, Reverse
  <2>3. QED BY <2>2 DEF History!Reset, History!Init
<1>8. QED
  BY <1>2, <1>3, <1>4, <1>5, <1>6, <1>7 DEF JournalNext, History!Next, History!vars

\* The two stacks of ids implement one line of edits with a cursor: undo and redo
\* move the cursor, a new edit cuts the line, a superseded one leaves it.
THEOREM JournalImplementsHistory == JournalSpec => ImplementsHistory
<1>1. JournalInit => History!Init
  BY DEF JournalInit, History!Init, createJournal, Line, Reverse
<1>2. Ordered(journal) /\ [JournalNext]_journal => [History!Next]_(History!vars)
  BY LineSteps
<1>3. QED BY <1>1, <1>2, JournalIsOrdered, PTL DEF JournalSpec, ImplementsHistory, History!Spec

------------------------------------------------------------------------------
(* The hosts: what the worker and the browser have yet to tell each other. *)

\* Lists of hosts, none of them twice.
HostLists == {s \in Seq(Hosts) : IsInjective(s)}

Calls == [type : {"get", "getAll"}] \cup [type : {"set"}, hosts : HostLists]

News ==
  [type : {"refresh"}] \cup [type : {"list", "written"}, hosts : HostLists]
  \cup [type : {"grants"}, grants : SUBSET ToSet(Origins)]

Jobs == [kind : {"none"}] \cup [kind : {"allow", "remove", "write"}, host : Hosts, list : HostLists]

\* The list says what is granted by g.
Right(list, g) == ToSet(list) = g \cap Hosts

\* Something of this type is under way.
Awaits(s, type) == \E i \in 1..Len(s) : s[i].type = type

\* An answer about the grants is old only if news of the change come after it.
GrantsAreFollowed(n, g) ==
  \A i \in 1..Len(n) : n[i].type = "grants" /\ n[i].grants # g =>
    \E j \in 1..Len(n) : i < j /\ n[j].type = "refresh"

\* A list to be stored is wrong only if the worker asks for the grants again.
SetsAreFollowed(w, n, g) ==
  \A i \in 1..Len(w) : w[i].type = "set" /\ ~Right(w[i].hosts, g) =>
    \/ \E j \in 1..Len(w) : i < j /\ w[j].type = "getAll"
    \/ Awaits(n, "refresh")

\* A list that was stored is wrong only if an answer is to come after it.
WritesAreFollowed(w, n, g) ==
  \A i \in 1..Len(n) : n[i].type = "written" /\ ~Right(n[i].hosts, g) =>
    \/ Awaits(w, "getAll") \/ Awaits(n, "refresh")
    \/ \E j \in 1..Len(n) : i < j /\ n[j].type = "grants" /\ n[j].grants = g

\* The worker's list is wrong only while something under way will set it right.
CacheIsFollowed(w, n, g, list) ==
  \/ Right(list, g)
  \/ Awaits(w, "get") \/ Awaits(w, "getAll") \/ Awaits(n, "refresh") \/ Awaits(n, "list")
  \/ \E i \in 1..Len(n) : n[i].type = "grants" /\ n[i].grants = g
  \/ \E i \in 1..Len(w) : w[i].type = "set" /\ Right(w[i].hosts, g)
  \/ \E i \in 1..Len(n) : n[i].type = "written" /\ Right(n[i].hosts, g)

Followed(w, n, g, list) ==
  /\ GrantsAreFollowed(n, g) /\ SetsAreFollowed(w, n, g) /\ WritesAreFollowed(w, n, g)
  /\ CacheIsFollowed(w, n, g, list)

\* The list that was read or written last is the one that is stored.
Carries(m) == m.type \in {"list", "written"}
LastIsStored(n, list, s) ==
  /\ \A i \in 1..Len(n) :
       Carries(n[i]) /\ (\A j \in 1..Len(n) : i < j => ~Carries(n[j])) => n[i].hosts = s
  /\ (\A i \in 1..Len(n) : ~Carries(n[i])) => list = s

\* The stored list is read before anything else is done.
ReadsFirst(w) == \A i \in 1..Len(w) : w[i].type = "get" => i = 1

HostsTyped ==
  /\ granted \subseteq ToSet(Origins) /\ stored \in HostLists /\ cache \in HostLists
  /\ lists \in [Sidebars -> HostLists] /\ jobs \in [Sidebars -> Jobs]
  /\ calls \in Seq(Calls) /\ inbox \in Seq(News)

HostsSound ==
  /\ HostsTyped
  /\ Followed(calls, inbox, granted, cache)
  /\ ReadsFirst(calls)
  /\ ~edited /\ ~Awaits(calls, "get") => LastIsStored(inbox, cache, stored)

\* The filter is the one of the journal's entries.
LEMMA filterIs ==
  ASSUME NEW X, NEW list \in Seq(X), IsInjective(list), NEW S
  PROVE  /\ filter(list, S) \in Seq(X) /\ IsInjective(filter(list, S))
         /\ ToSet(filter(list, S)) = ToSet(list) \cap S
<1> DEFINE r == filter(list, S)
<1>1. r = Kept(list, S)
  BY DEF filter, Kept, KeptUpTo
<1> HIDE DEF r
<1>2. KeptSoFar(r, list, S, X, Len(list))
  BY <1>1, KeptProperties
<1>3. r \in Seq(X)
  BY <1>2 DEF KeptSoFar
<1>4. ToSet(r) = ToSet(list) \cap S
  <2>1. ASSUME NEW x \in ToSet(r) PROVE x \in ToSet(list) \cap S
    <3>1. PICK i \in 1..Len(r) : r[i] = x
      BY <1>3 DEF ToSet
    <3>2. r[i] \in S /\ \E p \in 1..Len(list) : list[p] = r[i]
      BY <1>2 DEF KeptSoFar
    <3>3. QED BY <3>1, <3>2 DEF ToSet
  <2>2. ASSUME NEW x \in ToSet(list) \cap S PROVE x \in ToSet(r)
    <3>1. PICK p \in 1..Len(list) : list[p] = x
      BY DEF ToSet
    <3>2. \E i \in 1..Len(r) : r[i] = list[p]
      BY <1>2, <3>1, Zenon DEF KeptSoFar
    <3>3. QED BY <1>3, <3>1, <3>2 DEF ToSet
  <2>3. QED BY <2>1, <2>2
<1>5. ASSUME NEW i \in 1..Len(r), NEW k \in 1..Len(r), i < k PROVE r[i] # r[k]
  <2>1. PICK p \in 1..Len(list), q \in 1..Len(list) : p < q /\ list[p] = r[i] /\ list[q] = r[k]
    BY <1>2, <1>5 DEF KeptSoFar
  <2>2. list[p] # list[q]
    BY <2>1 DEF IsInjective
  <2>3. QED BY <2>1, <2>2
<1>6. IsInjective(r)
  <2>1. ASSUME NEW i \in 1..Len(r), NEW k \in 1..Len(r), r[i] = r[k] PROVE i = k
    BY <1>5, <2>1
  <2>2. DOMAIN r = 1..Len(r)
    BY <1>3
  <2>3. QED BY <2>1, <2>2 DEF IsInjective
<1>7. QED BY <1>3, <1>4, <1>6 DEF r

\* Two lists that share nothing, one after the other.
LEMMA JoinedIs ==
  ASSUME NEW a \in HostLists, NEW b \in HostLists, ToSet(a) \cap ToSet(b) = {}
  PROVE  a \o b \in HostLists /\ ToSet(a \o b) = ToSet(a) \cup ToSet(b)
<1> DEFINE c == a \o b
<1>1. a \in Seq(Hosts) /\ b \in Seq(Hosts)
  BY DEF HostLists
<1>2. /\ c \in Seq(Hosts) /\ Len(c) = Len(a) + Len(b) /\ Len(a) \in Nat /\ Len(b) \in Nat
      /\ \A i \in 1..Len(a) + Len(b) : c[i] = IF i <= Len(a) THEN a[i] ELSE b[i - Len(a)]
  BY <1>1, ConcatProperties
<1> HIDE DEF c
<1>3. ASSUME NEW i \in 1..Len(c)
      PROVE  \/ i \in 1..Len(a) /\ c[i] = a[i]
             \/ i - Len(a) \in 1..Len(b) /\ c[i] = b[i - Len(a)] /\ ~(i <= Len(a))
  BY <1>2
<1>4. ASSUME NEW i \in 1..Len(c), NEW k \in 1..Len(c), c[i] = c[k] PROVE i = k
  <2>1. \A x, y : x \in 1..Len(a) /\ y \in 1..Len(b) => a[x] # b[y]
    BY DEF ToSet, HostLists
  <2>2. \A x, y \in 1..Len(a) : a[x] = a[y] => x = y
    BY DEF HostLists, IsInjective
  <2>3. \A x, y \in 1..Len(b) : b[x] = b[y] => x = y
    BY DEF HostLists, IsInjective
  <2>4. CASE i \in 1..Len(a) /\ k \in 1..Len(a)
    BY <2>2, <2>4, <1>2, <1>4
  <2>5. CASE i \in 1..Len(a) /\ k \notin 1..Len(a)
    <3>1. k - Len(a) \in 1..Len(b) /\ c[k] = b[k - Len(a)] /\ c[i] = a[i]
      BY <2>5, <1>2, <1>3
    <3>2. QED BY <3>1, <2>1, <2>5, <1>4, Zenon
  <2>6. CASE i \notin 1..Len(a) /\ k \in 1..Len(a)
    <3>1. i - Len(a) \in 1..Len(b) /\ c[i] = b[i - Len(a)] /\ c[k] = a[k]
      BY <2>6, <1>2, <1>3
    <3>2. QED BY <3>1, <2>1, <2>6, <1>4, Zenon
  <2>7. CASE i \notin 1..Len(a) /\ k \notin 1..Len(a)
    <3>1. i - Len(a) = k - Len(a)
      BY <2>3, <2>7, <1>3, <1>4, Zenon
    <3>2. QED BY <3>1, <1>2
  <2>8. QED BY <2>4, <2>5, <2>6, <2>7
<1>5. IsInjective(c)
  BY <1>2, <1>4 DEF IsInjective
<1>6. ASSUME NEW i \in 1..Len(c) PROVE c[i] \in ToSet(a) \cup ToSet(b)
  BY <1>1, <1>3 DEF ToSet
<1>7. ASSUME NEW i \in 1..Len(a) PROVE a[i] \in ToSet(c)
  <2>1. i \in 1..Len(c) /\ c[i] = a[i]
    BY <1>2
  <2>2. QED BY <1>2, <2>1 DEF ToSet
<1>8. ASSUME NEW i \in 1..Len(b) PROVE b[i] \in ToSet(c)
  <2>1. i + Len(a) \in 1..Len(c) /\ ~(i + Len(a) <= Len(a)) /\ i + Len(a) - Len(a) = i
    BY <1>2
  <2>2. c[i + Len(a)] = b[i]
    BY <1>2, <2>1
  <2>3. QED BY <1>2, <2>1, <2>2 DEF ToSet
<1>9. ToSet(c) = ToSet(a) \cup ToSet(b)
  <2>1. ToSet(c) \subseteq ToSet(a) \cup ToSet(b)
    <3>1. ASSUME NEW x \in ToSet(c) PROVE x \in ToSet(a) \cup ToSet(b)
      <4>1. PICK i \in 1..Len(c) : c[i] = x
        BY <1>2 DEF ToSet
      <4>2. QED BY <4>1, <1>6
    <3>2. QED BY <3>1
  <2>2. ASSUME NEW x \in ToSet(a) PROVE x \in ToSet(c)
    <3>1. PICK i \in 1..Len(a) : a[i] = x
      BY <1>1 DEF ToSet
    <3>2. QED BY <3>1, <1>7
  <2>3. ASSUME NEW x \in ToSet(b) PROVE x \in ToSet(c)
    <3>1. PICK i \in 1..Len(b) : b[i] = x
      BY <1>1 DEF ToSet
    <3>2. QED BY <3>1, <1>8
  <2>4. QED BY <2>1, <2>2, <2>3
<1>10. QED BY <1>2, <1>5, <1>9 DEF c, HostLists

\* A list that is reconciled with grants says them.
LEMMA ReconciledIs ==
  ASSUME NEW list \in HostLists, NEW grants
  PROVE  Reconciled(list, grants) \in HostLists /\ Right(Reconciled(list, grants), grants)
<1> DEFINE kept == filter(list, grants)
           all == hostsFromGrantedOrigins(grants)
           rest == filter(all, Hosts \ ToSet(kept))
<1>1. list \in Seq(Hosts) /\ IsInjective(list) /\ ToSet(list) \subseteq Hosts
  BY DEF HostLists, ToSet
<1>2. kept \in HostLists /\ ToSet(kept) = ToSet(list) \cap grants
  BY <1>1, filterIs DEF HostLists
<1>3. all \in Seq(ToSet(Origins)) /\ IsInjective(all) /\ ToSet(all) = ToSet(Origins) \cap (grants \cap Hosts)
  BY OriginAssumption, filterIs DEF hostsFromGrantedOrigins
<1>4. ToSet(all) = grants \cap Hosts
  BY <1>3 DEF Hosts
<1> HIDE DEF all, kept
<1>5. rest \in Seq(ToSet(Origins)) /\ IsInjective(rest) /\ ToSet(rest) = ToSet(all) \cap (Hosts \ ToSet(kept))
  BY <1>3, filterIs
<1> HIDE DEF rest
<1>6. rest \in Seq(Hosts)
  <2>1. \A i \in 1..Len(rest) : rest[i] \in Hosts
    BY <1>5 DEF ToSet
  <2>2. QED BY <1>5, <2>1
<1>7. rest \in HostLists
  BY <1>5, <1>6 DEF HostLists
<1>8. kept \o rest \in HostLists /\ ToSet(kept \o rest) = ToSet(kept) \cup ToSet(rest)
  BY <1>2, <1>5, <1>7, JoinedIs
<1>9. ToSet(kept \o rest) = grants \cap Hosts
  BY <1>1, <1>2, <1>4, <1>5, <1>8
<1>10. Reconciled(list, grants) = kept \o rest
  BY DEF Reconciled, kept, rest, all
<1>11. QED BY <1>8, <1>9, <1>10 DEF Right

\* What a panel works out from the list it shows is a list.
LEMMA WorkedOut ==
  ASSUME NEW list \in HostLists, NEW h \in Hosts
  PROVE  /\ filter(list, Hosts \ {h}) \in HostLists
         /\ h \notin ToSet(list) => Append(list, h) \in HostLists
<1>1. list \in Seq(Hosts) /\ IsInjective(list)
  BY DEF HostLists
<1>2. filter(list, Hosts \ {h}) \in HostLists
  BY <1>1, filterIs DEF HostLists
<1>3. ASSUME h \notin ToSet(list) PROVE Append(list, h) \in HostLists
  <2> DEFINE a == Append(list, h)
  <2>1. /\ a \in Seq(Hosts) /\ Len(a) = Len(list) + 1 /\ a[Len(list) + 1] = h /\ Len(list) \in Nat
        /\ \A i \in 1..Len(list) : a[i] = list[i]
    BY <1>1
  <2> HIDE DEF a
  <2>2. \A i \in 1..Len(list) : list[i] # h
    BY <1>1, <1>3 DEF ToSet
  <2>3. ASSUME NEW i \in 1..Len(a), NEW k \in 1..Len(a), a[i] = a[k] PROVE i = k
    <3>1. CASE i \in 1..Len(list) /\ k \in 1..Len(list)
      BY <3>1, <1>1, <2>1, <2>3 DEF IsInjective
    <3>2. CASE i = Len(list) + 1 \/ k = Len(list) + 1
      BY <3>2, <2>1, <2>2, <2>3
    <3>3. QED BY <3>1, <3>2, <2>1
  <2>4. IsInjective(a)
    <3>1. DOMAIN a = 1..Len(a)
      BY <2>1
    <3>2. QED BY <2>3, <3>1 DEF IsInjective
  <2>5. QED BY <2>1, <2>4 DEF a, HostLists
<1>4. QED BY <1>2, <1>3

\* v is s without its first, and s with x after it.
Shorter(v, s) == Len(s) \in Nat /\ 1 <= Len(s) /\ Len(v) = Len(s) - 1 /\ \A i \in 1..(Len(s) - 1) : v[i] = s[i + 1]
Longer(v, s, x) == Len(s) \in Nat /\ Len(v) = Len(s) + 1 /\ v[Len(s) + 1] = x /\ \A i \in 1..Len(s) : v[i] = s[i]

\* A queue of which the first has been taken.
LEMMA ShorterIs ==
  ASSUME NEW X, NEW s \in Seq(X), s # <<>>
  PROVE  Tail(s) \in Seq(X) /\ Shorter(Tail(s), s) /\ Head(s) = s[1] /\ Head(s) \in X
BY DEF Shorter

\* A queue to which one has been added.
LEMMA LongerIs ==
  ASSUME NEW X, NEW s \in Seq(X), NEW x \in X
  PROVE  Append(s, x) \in Seq(X) /\ Longer(Append(s, x), s, x)
BY DEF Longer

\* What still comes when the first has been heard, and when one more is sent.
LEMMA StillAwaits ==
  ASSUME NEW v, NEW s, NEW type
  PROVE  /\ Shorter(v, s) /\ Awaits(s, type) /\ s[1].type # type => Awaits(v, type)
         /\ \A x : Longer(v, s, x) => (Awaits(v, type) <=> Awaits(s, type) \/ x.type = type)
<1>1. ASSUME Shorter(v, s), Awaits(s, type), s[1].type # type PROVE Awaits(v, type)
  <2>1. PICK i \in 1..Len(s) : s[i].type = type
    BY <1>1 DEF Awaits
  <2>2. i # 1
    BY <1>1, <2>1
  <2>3. i - 1 \in 1..(Len(s) - 1) /\ i - 1 + 1 = i
    BY <1>1, <2>2 DEF Shorter
  <2>4. i - 1 \in 1..Len(v) /\ v[i - 1] = s[i]
    BY <1>1, <2>3 DEF Shorter
  <2>5. QED BY <2>1, <2>4 DEF Awaits
<1>2. ASSUME NEW x, Longer(v, s, x) PROVE Awaits(v, type) <=> Awaits(s, type) \/ x.type = type
  <2>1. \A i : i \in 1..Len(v) <=> i \in 1..Len(s) \/ i = Len(s) + 1
    BY <1>2 DEF Longer
  <2>2. QED BY <1>2, <2>1 DEF Longer, Awaits
<1>3. QED BY <1>1, <1>2

\* News that end in a refresh: everything is to be asked again.
LEMMA NewsOfChange ==
  ASSUME NEW w, NEW n, NEW v, NEW x, Longer(v, n, x), x.type = "refresh", NEW g, NEW list
  PROVE  Followed(w, v, g, list)
<1>1. Awaits(v, "refresh")
  BY StillAwaits
<1>2. GrantsAreFollowed(v, g)
  <2>1. ASSUME NEW i \in 1..Len(v), v[i].type = "grants"
        PROVE  \E j \in 1..Len(v) : i < j /\ v[j].type = "refresh"
    <3>1. i # Len(n) + 1
      BY <2>1 DEF Longer
    <3>2. Len(n) + 1 \in 1..Len(v) /\ i < Len(n) + 1
      BY <3>1 DEF Longer
    <3>3. QED BY <3>2 DEF Longer
  <2>2. QED BY <2>1 DEF GrantsAreFollowed
<1>3. QED BY <1>1, <1>2 DEF Followed, SetsAreFollowed, WritesAreFollowed, CacheIsFollowed

\* Old answers that are left are still followed.
LEMMA GrantsHeard ==
  ASSUME NEW n, NEW v, Shorter(v, n), NEW g, GrantsAreFollowed(n, g)
  PROVE  GrantsAreFollowed(v, g)
<1>1. ASSUME NEW i \in 1..Len(v), v[i].type = "grants", v[i].grants # g
      PROVE  \E j \in 1..Len(v) : i < j /\ v[j].type = "refresh"
  <2>1. i + 1 \in 1..Len(n) /\ n[i + 1] = v[i]
    BY DEF Shorter
  <2>2. PICK j \in 1..Len(n) : i + 1 < j /\ n[j].type = "refresh"
    BY <2>1, <1>1 DEF GrantsAreFollowed
  <2>3. j - 1 \in 1..Len(v) /\ i < j - 1 /\ j - 1 \in 1..(Len(n) - 1) /\ j - 1 + 1 = j
    BY <2>2 DEF Shorter
  <2>4. v[j - 1] = n[j]
    BY <2>3 DEF Shorter
  <2>5. QED BY <2>2, <2>3, <2>4, Zenon
<1>2. QED BY <1>1 DEF GrantsAreFollowed

\* So are they when a message that is no old answer comes after them.
LEMMA GrantsTold ==
  ASSUME NEW n, NEW v, NEW x, Longer(v, n, x), NEW g, GrantsAreFollowed(n, g), x.type = "grants" => x.grants = g
  PROVE  GrantsAreFollowed(v, g)
<1>1. ASSUME NEW i \in 1..Len(v), v[i].type = "grants", v[i].grants # g
      PROVE  \E j \in 1..Len(v) : i < j /\ v[j].type = "refresh"
  <2>1. i \in 1..Len(n) /\ v[i] = n[i]
    BY <1>1 DEF Longer
  <2>2. PICK j \in 1..Len(n) : i < j /\ n[j].type = "refresh"
    BY <2>1, <1>1 DEF GrantsAreFollowed
  <2>3. j \in 1..Len(v) /\ v[j] = n[j]
    BY <2>2 DEF Longer
  <2>4. QED BY <2>2, <2>3
<1>2. QED BY <1>1 DEF GrantsAreFollowed

\* The worker asks for the grants: after that no list is wrong for good.
LEMMA AsksAgain ==
  ASSUME NEW w, NEW u, NEW x, Longer(u, w, x), x.type = "getAll",
         NEW n, NEW v, Shorter(v, n), NEW g, GrantsAreFollowed(n, g), NEW list
  PROVE  Followed(u, v, g, list)
<1>1. Awaits(u, "getAll")
  BY StillAwaits, Zenon
<1>2. SetsAreFollowed(u, v, g)
  <2>1. ASSUME NEW i \in 1..Len(u), u[i].type = "set"
        PROVE  \E j \in 1..Len(u) : i < j /\ u[j].type = "getAll"
    <3>1. i # Len(w) + 1
      BY <2>1 DEF Longer
    <3>2. Len(w) + 1 \in 1..Len(u) /\ i < Len(w) + 1
      BY <3>1 DEF Longer
    <3>3. QED BY <3>2 DEF Longer
  <2>2. QED BY <2>1 DEF SetsAreFollowed
<1>3. QED BY <1>1, <1>2, GrantsHeard DEF Followed, WritesAreFollowed, CacheIsFollowed

\* What was written and is still to be heard is followed as before, when what is heard
\* is neither news nor an answer that is right.
LEMMA WritesHeard ==
  ASSUME NEW w, NEW u, Awaits(w, "getAll") => Awaits(u, "getAll"),
         NEW n, NEW v, Shorter(v, n), n[1].type # "refresh", NEW g, WritesAreFollowed(w, n, g)
  PROVE  WritesAreFollowed(u, v, g)
<1>1. ASSUME NEW i \in 1..Len(v), v[i].type = "written", ~Right(v[i].hosts, g)
      PROVE  \/ Awaits(u, "getAll") \/ Awaits(v, "refresh")
             \/ \E j \in 1..Len(v) : i < j /\ v[j].type = "grants" /\ v[j].grants = g
  <2>1. i + 1 \in 1..Len(n) /\ n[i + 1] = v[i]
    BY DEF Shorter
  <2>2. CASE Awaits(w, "getAll") \/ Awaits(n, "refresh")
    BY <2>2, StillAwaits
  <2>3. CASE \E j \in 1..Len(n) : i + 1 < j /\ n[j].type = "grants" /\ n[j].grants = g
    <3>1. PICK j \in 1..Len(n) : i + 1 < j /\ n[j].type = "grants" /\ n[j].grants = g
      BY <2>3
    <3>2. j - 1 \in 1..Len(v) /\ i < j - 1 /\ j - 1 \in 1..(Len(n) - 1) /\ j - 1 + 1 = j
      BY <3>1 DEF Shorter
    <3>3. v[j - 1] = n[j]
      BY <3>2, Zenon DEF Shorter
    <3>4. QED BY <3>1, <3>2, <3>3
  <2>4. QED BY <2>1, <2>2, <2>3, <1>1 DEF WritesAreFollowed
<1>2. QED BY <1>1 DEF WritesAreFollowed

\* The worker hears an answer, and stores what it makes of it if that is new.
LEMMA AnswerHeard ==
  ASSUME NEW w \in Seq(Calls), NEW u \in Seq(Calls), NEW n, NEW v, Shorter(v, n), n[1].type = "grants", NEW g, NEW list,
         Followed(w, n, g, list), NEW next, Right(next, n[1].grants),
         IF next = list THEN u = w ELSE Longer(u, w, [type |-> "set", hosts |-> next])
  PROVE  Followed(u, v, g, list)
<1> DEFINE x == [type |-> "set", hosts |-> next]
<1>0. Len(w) \in Nat /\ Len(u) \in Nat
  OBVIOUS
<1>1. n[1].grants # g => Awaits(v, "refresh")
  <2>1. 1 \in 1..Len(n)
    BY DEF Shorter
  <2>2. n[1].grants # g => \E j \in 1..Len(n) : n[j].type = "refresh"
    BY <2>1 DEF Followed, GrantsAreFollowed
  <2>3. n[1].grants # g => Awaits(n, "refresh")
    BY <2>2 DEF Awaits
  <2>4. QED BY <2>3, StillAwaits
<1>2. \A type \in {"get", "getAll"} : Awaits(w, type) => Awaits(u, type)
  BY StillAwaits
<1>3. \A type \in {"refresh", "list"} : Awaits(n, type) => Awaits(v, type)
  BY StillAwaits
<1>4. GrantsAreFollowed(v, g)
  BY GrantsHeard DEF Followed
<1>5. WritesAreFollowed(u, v, g)
  BY <1>2, WritesHeard, Zenon DEF Followed
<1>6. ASSUME NEW i \in 1..Len(w)
      PROVE  i \in 1..Len(u) /\ u[i] = w[i]
  BY <1>0 DEF Longer
<1>7. SetsAreFollowed(u, v, g)
  <2>1. ASSUME NEW i \in 1..Len(u), u[i].type = "set", ~Right(u[i].hosts, g), ~Awaits(v, "refresh")
        PROVE  \E j \in 1..Len(u) : i < j /\ u[j].type = "getAll"
    <3>1. CASE i \in 1..Len(w)
      <4>1. u[i] = w[i] /\ ~Awaits(n, "refresh")
        BY <1>3, <1>6, <2>1, <3>1
      <4>2. PICK j \in 1..Len(w) : i < j /\ w[j].type = "getAll"
        BY <4>1, <3>1, <2>1 DEF Followed, SetsAreFollowed
      <4>3. QED BY <4>2, <1>6
    <3>2. CASE i \notin 1..Len(w)
      <4>1. u[i] = x
        BY <1>0, <3>2 DEF Longer
      <4>2. Right(next, g)
        BY <1>1, <2>1
      <4>3. QED BY <2>1, <4>1, <4>2
    <3>3. QED BY <3>1, <3>2
  <2>2. QED BY <2>1 DEF SetsAreFollowed
<1>8. CacheIsFollowed(u, v, g, list)
  <2>1. CASE n[1].grants # g
    BY <1>1, <2>1 DEF CacheIsFollowed
  <2>2. CASE n[1].grants = g /\ next = list
    BY <2>2 DEF CacheIsFollowed
  <2>3. CASE n[1].grants = g /\ next # list
    <3>1. Len(w) + 1 \in 1..Len(u) /\ u[Len(w) + 1] = x
      BY <1>0, <2>3 DEF Longer
    <3>2. QED BY <2>3, <3>1 DEF CacheIsFollowed
  <2>4. QED BY <2>1, <2>2, <2>3
<1>9. QED BY <1>4, <1>5, <1>7, <1>8 DEF Followed

\* The worker hears that its list is stored.
LEMMA WriteHeard ==
  ASSUME NEW w, NEW n, NEW v, Shorter(v, n), n[1].type = "written", NEW g, NEW list, Followed(w, n, g, list)
  PROVE  Followed(w, v, g, n[1].hosts)
<1>0. 1 \in 1..Len(n) /\ Len(n) \in Nat
  BY DEF Shorter
<1>1. GrantsAreFollowed(v, g)
  BY GrantsHeard DEF Followed
<1>2. WritesAreFollowed(w, v, g)
  BY WritesHeard DEF Followed
<1>3. SetsAreFollowed(w, v, g)
  BY StillAwaits DEF Followed, SetsAreFollowed
<1>4. CacheIsFollowed(w, v, g, n[1].hosts)
  <2>1. CASE Right(n[1].hosts, g)
    BY <2>1 DEF CacheIsFollowed
  <2>2. CASE Awaits(w, "getAll") \/ Awaits(n, "refresh")
    BY <2>2, StillAwaits DEF CacheIsFollowed
  <2>3. CASE \E j \in 1..Len(n) : 1 < j /\ n[j].type = "grants" /\ n[j].grants = g
    <3>1. PICK j \in 1..Len(n) : 1 < j /\ n[j].type = "grants" /\ n[j].grants = g
      BY <2>3
    <3>2. j - 1 \in 1..Len(v) /\ j - 1 \in 1..(Len(n) - 1) /\ j - 1 + 1 = j
      BY <1>0, <3>1 DEF Shorter
    <3>3. v[j - 1] = n[j]
      BY <3>2 DEF Shorter
    <3>4. QED BY <3>1, <3>2, <3>3 DEF CacheIsFollowed
  <2>4. QED BY <1>0, <2>1, <2>2, <2>3 DEF Followed, WritesAreFollowed
<1>5. QED BY <1>1, <1>2, <1>3, <1>4 DEF Followed

\* The browser takes a call: the lists that are still to be stored are followed as before.
LEMMA SetsTaken ==
  ASSUME NEW w, NEW u, Shorter(u, w), NEW n, NEW v, Awaits(n, "refresh") => Awaits(v, "refresh"),
         NEW g, SetsAreFollowed(w, n, g)
  PROVE  SetsAreFollowed(u, v, g)
<1>1. ASSUME NEW i \in 1..Len(u), u[i].type = "set", ~Right(u[i].hosts, g), ~Awaits(v, "refresh")
      PROVE  \E j \in 1..Len(u) : i < j /\ u[j].type = "getAll"
  <2>1. i + 1 \in 1..Len(w) /\ w[i + 1] = u[i]
    BY DEF Shorter
  <2>2. PICK j \in 1..Len(w) : i + 1 < j /\ w[j].type = "getAll"
    BY <2>1, <1>1 DEF SetsAreFollowed
  <2>3. j - 1 \in 1..Len(u) /\ i < j - 1 /\ j - 1 \in 1..(Len(w) - 1) /\ j - 1 + 1 = j
    BY <2>2 DEF Shorter
  <2>4. u[j - 1] = w[j]
    BY <2>3 DEF Shorter
  <2>5. QED BY <2>2, <2>3, <2>4
<1>2. QED BY <1>1 DEF SetsAreFollowed

\* What was written is followed as before, with another message after it.
LEMMA WritesTold ==
  ASSUME NEW w, NEW u, NEW n, NEW v, NEW x, Longer(v, n, x), NEW g, WritesAreFollowed(w, n, g),
         \/ Awaits(w, "getAll") => Awaits(u, "getAll")
         \/ x.type = "grants" /\ x.grants = g,
         x.type = "written" => Right(x.hosts, g) \/ Awaits(u, "getAll") \/ Awaits(v, "refresh")
  PROVE  WritesAreFollowed(u, v, g)
<1>0. Len(n) \in Nat /\ Len(n) + 1 \in 1..Len(v) /\ v[Len(n) + 1] = x
  BY DEF Longer
<1>1. ASSUME NEW i \in 1..Len(v), v[i].type = "written", ~Right(v[i].hosts, g),
             ~Awaits(u, "getAll"), ~Awaits(v, "refresh")
      PROVE  \E j \in 1..Len(v) : i < j /\ v[j].type = "grants" /\ v[j].grants = g
  <2>1. CASE i = Len(n) + 1
    BY <1>0, <1>1, <2>1
  <2>2. CASE i \in 1..Len(n)
    <3>1. v[i] = n[i] /\ ~Awaits(n, "refresh")
      BY <1>1, <2>2, StillAwaits, Zenon DEF Longer
    <3>2. CASE x.type = "grants" /\ x.grants = g
      BY <1>0, <2>2, <3>2
    <3>3. CASE ~Awaits(w, "getAll")
      <4>1. PICK j \in 1..Len(n) : i < j /\ n[j].type = "grants" /\ n[j].grants = g
        BY <1>1, <2>2, <3>1, <3>3 DEF WritesAreFollowed
      <4>2. j \in 1..Len(v) /\ v[j] = n[j]
        BY <4>1 DEF Longer
      <4>3. QED BY <4>1, <4>2
    <3>4. QED BY <1>1, <3>2, <3>3
  <2>3. QED BY <2>1, <2>2 DEF Longer
<1>2. QED BY <1>1 DEF WritesAreFollowed

\* The browser answers what it grants.
LEMMA AnswerTaken ==
  ASSUME NEW w, NEW u, Shorter(u, w), NEW n, NEW v, NEW x, Longer(v, n, x), NEW g, NEW list, Followed(w, n, g, list),
         x.type = "grants", x.grants = g
  PROVE  Followed(u, v, g, list)
<1>1. GrantsAreFollowed(v, g)
  BY GrantsTold DEF Followed
<1>2. SetsAreFollowed(u, v, g)
  BY SetsTaken, StillAwaits, Zenon DEF Followed
<1>3. WritesAreFollowed(u, v, g)
  BY WritesTold, Zenon DEF Followed
<1>4. CacheIsFollowed(u, v, g, list)
  BY DEF Longer, CacheIsFollowed
<1>5. QED BY <1>1, <1>2, <1>3, <1>4 DEF Followed

\* The browser answers the list.
LEMMA ListTaken ==
  ASSUME NEW w, NEW u, Shorter(u, w), w[1].type = "get", NEW n, NEW v, NEW x, Longer(v, n, x),
         NEW g, NEW list, Followed(w, n, g, list), x.type = "list"
  PROVE  Followed(u, v, g, list)
<1>1. GrantsAreFollowed(v, g)
  BY GrantsTold DEF Followed
<1>2. SetsAreFollowed(u, v, g)
  BY SetsTaken, StillAwaits DEF Followed
<1>3. WritesAreFollowed(u, v, g)
  BY WritesTold, StillAwaits, Zenon DEF Followed
<1>4. CacheIsFollowed(u, v, g, list)
  BY StillAwaits, Zenon DEF CacheIsFollowed
<1>5. QED BY <1>1, <1>2, <1>3, <1>4 DEF Followed

\* The browser stores a list.
LEMMA SetTaken ==
  ASSUME NEW w, NEW u, Shorter(u, w), w[1].type = "set", NEW n, NEW v, NEW x, Longer(v, n, x),
         NEW g, NEW list, Followed(w, n, g, list), x.type = "written", x.hosts = w[1].hosts
  PROVE  Followed(u, v, g, list)
<1>0. 1 \in 1..Len(w)
  BY DEF Shorter
<1>1. GrantsAreFollowed(v, g)
  BY GrantsTold DEF Followed
<1>2. SetsAreFollowed(u, v, g)
  BY SetsTaken, StillAwaits, Zenon DEF Followed
<1>3. \A type \in {"get", "getAll"} : Awaits(w, type) => Awaits(u, type)
  BY StillAwaits
<1>4. Right(x.hosts, g) \/ Awaits(u, "getAll") \/ Awaits(v, "refresh")
  <2>1. CASE \E j \in 1..Len(w) : 1 < j /\ w[j].type = "getAll"
    <3>1. Awaits(w, "getAll")
      BY <2>1 DEF Awaits
    <3>2. QED BY <3>1, <1>3
  <2>2. CASE Awaits(n, "refresh")
    BY <2>2, StillAwaits
  <2>3. QED BY <1>0, <2>1, <2>2 DEF Followed, SetsAreFollowed
<1>5. WritesAreFollowed(u, v, g)
  BY <1>3, <1>4, WritesTold, Zenon DEF Followed
<1>6. CacheIsFollowed(u, v, g, list)
  <2>1. CASE \/ Right(list, g) \/ Awaits(w, "get") \/ Awaits(w, "getAll") \/ Awaits(n, "refresh") \/ Awaits(n, "list")
    BY <2>1, <1>3, StillAwaits DEF CacheIsFollowed
  <2>2. CASE \E i \in 1..Len(n) : n[i].type = "grants" /\ n[i].grants = g
    BY <2>2 DEF CacheIsFollowed, Longer
  <2>3. CASE \E i \in 1..Len(n) : n[i].type = "written" /\ Right(n[i].hosts, g)
    BY <2>3 DEF CacheIsFollowed, Longer
  <2>4. CASE \E i \in 1..Len(w) : w[i].type = "set" /\ Right(w[i].hosts, g)
    <3>1. PICK i \in 1..Len(w) : w[i].type = "set" /\ Right(w[i].hosts, g)
      BY <2>4
    <3>2. CASE i = 1
      <4>1. Len(n) + 1 \in 1..Len(v) /\ v[Len(n) + 1] = x
        BY DEF Longer
      <4>2. QED BY <3>1, <3>2, <4>1 DEF CacheIsFollowed
    <3>3. CASE i # 1
      <4>1. i - 1 \in 1..Len(u) /\ i - 1 \in 1..(Len(w) - 1) /\ i - 1 + 1 = i
        BY <3>3 DEF Shorter
      <4>2. u[i - 1] = w[i]
        BY <4>1 DEF Shorter
      <4>3. QED BY <3>1, <4>1, <4>2 DEF CacheIsFollowed
    <3>4. QED BY <3>2, <3>3
  <2>5. QED BY <2>1, <2>2, <2>3, <2>4 DEF Followed, CacheIsFollowed
<1>7. QED BY <1>1, <1>2, <1>5, <1>6 DEF Followed

\* The worker hears something: what it has of the list is what it hears of it.
LEMMA LastHeard ==
  ASSUME NEW n, NEW v, Shorter(v, n), NEW list, NEW s, LastIsStored(n, list, s),
         NEW now, now = IF Carries(n[1]) THEN n[1].hosts ELSE list
  PROVE  LastIsStored(v, now, s)
<1>0. 1 \in 1..Len(n) /\ Len(n) \in Nat
  BY DEF Shorter
<1>1. ASSUME NEW i \in 1..Len(v), Carries(v[i]), \A j \in 1..Len(v) : i < j => ~Carries(v[j])
      PROVE  v[i].hosts = s
  <2>1. i + 1 \in 1..Len(n) /\ n[i + 1] = v[i]
    BY DEF Shorter
  <2>2. ASSUME NEW j \in 1..Len(n), i + 1 < j PROVE ~Carries(n[j])
    <3>1. j - 1 \in 1..Len(v) /\ i < j - 1 /\ j - 1 \in 1..(Len(n) - 1) /\ j - 1 + 1 = j
      BY <2>2 DEF Shorter
    <3>2. v[j - 1] = n[j]
      BY <3>1 DEF Shorter
    <3>3. QED BY <3>1, <3>2, <1>1
  <2>3. QED BY <2>1, <2>2, <1>1 DEF LastIsStored
<1>2. ASSUME \A i \in 1..Len(v) : ~Carries(v[i]) PROVE now = s
  <2>1. ASSUME NEW j \in 1..Len(n), 1 < j PROVE ~Carries(n[j])
    <3>1. j - 1 \in 1..Len(v) /\ j - 1 \in 1..(Len(n) - 1) /\ j - 1 + 1 = j
      BY <2>1 DEF Shorter
    <3>2. v[j - 1] = n[j]
      BY <3>1 DEF Shorter
    <3>3. QED BY <3>1, <3>2, <1>2
  <2>2. CASE Carries(n[1])
    BY <1>0, <2>1, <2>2 DEF LastIsStored
  <2>3. CASE ~Carries(n[1])
    <3>1. \A j \in 1..Len(n) : ~Carries(n[j])
      <4>1. \A j \in 1..Len(n) : j = 1 \/ 1 < j
        BY <1>0
      <4>2. QED BY <4>1, <2>1, <2>3
    <3>2. QED BY <3>1, <2>3 DEF LastIsStored
  <2>4. QED BY <2>2, <2>3
<1>3. QED BY <1>1, <1>2 DEF LastIsStored

\* A message that says nothing of the list, and one that says the list that is stored.
LEMMA LastTold ==
  ASSUME NEW n, NEW v, NEW x, Longer(v, n, x), NEW list, NEW s,
         IF Carries(x) THEN x.hosts = s ELSE LastIsStored(n, list, s)
  PROVE  LastIsStored(v, list, s)
<1>0. /\ Len(n) \in Nat /\ Len(n) + 1 \in 1..Len(v) /\ v[Len(n) + 1] = x
      /\ \A i : i \in 1..Len(v) <=> i \in 1..Len(n) \/ i = Len(n) + 1
      /\ \A i \in 1..Len(n) : i < Len(n) + 1 /\ v[i] = n[i]
  BY DEF Longer
<1>1. CASE Carries(x)
  BY <1>0, <1>1, Zenon DEF LastIsStored
<1>2. CASE ~Carries(x)
  BY <1>0, <1>2, Zenon DEF LastIsStored
<1>3. QED BY <1>1, <1>2

\* Once the stored list has been asked for it is not asked for again.
LEMMA ReadOnce ==
  ASSUME NEW w, NEW u, ReadsFirst(w)
  PROVE  /\ Shorter(u, w) => ~Awaits(u, "get") /\ ReadsFirst(u)
         /\ \A x : Longer(u, w, x) /\ x.type # "get" => ReadsFirst(u)
<1>1. ASSUME Shorter(u, w), NEW i \in 1..Len(u) PROVE u[i].type # "get"
  <2>1. i + 1 \in 1..Len(w) /\ w[i + 1] = u[i] /\ i + 1 # 1
    BY <1>1 DEF Shorter
  <2>2. QED BY <2>1 DEF ReadsFirst
<1>2. ASSUME NEW x, Longer(u, w, x), x.type # "get" PROVE ReadsFirst(u)
  BY <1>2 DEF Longer, ReadsFirst
<1>3. QED BY <1>1, <1>2 DEF Awaits, ReadsFirst

\* Before the worker has read anything.
LEMMA HostsInit ==
  ASSUME HostInit
  PROVE  HostsSound
<1>1. <<>> \in HostLists /\ \A h \in Hosts : <<h>> \in HostLists
  <2>1. ASSUME NEW h \in Hosts PROVE <<h>> \in HostLists
    <3>1. <<h>> \in Seq(Hosts) /\ DOMAIN <<h>> = 1..1
      OBVIOUS
    <3>2. IsInjective(<<h>>)
      BY <3>1 DEF IsInjective
    <3>3. QED BY <3>1, <3>2 DEF HostLists
  <2>2. <<>> \in Seq(Hosts) /\ DOMAIN <<>> = 1..0
    OBVIOUS
  <2>3. IsInjective(<<>>)
    BY <2>2 DEF IsInjective
  <2>4. QED BY <2>1, <2>2, <2>3 DEF HostLists
<1>2. stored \in HostLists /\ cache = <<>> /\ cache \in HostLists
  BY <1>1 DEF HostInit
<1>3. granted \subseteq ToSet(Origins)
  <2>1. AllSites \in ToSet(Origins)
    BY OriginAssumption
  <2>2. ToSet(stored) \subseteq Hosts
    BY <1>2 DEF HostLists, ToSet
  <2>3. QED BY <2>1, <2>2 DEF HostInit, Hosts
<1>4. lists \in [Sidebars -> HostLists] /\ jobs \in [Sidebars -> Jobs]
  BY <1>1 DEF HostInit, NoJob, Jobs
<1>5. calls = <<[type |-> "get"]>> /\ calls \in Seq(Calls) /\ Len(calls) = 1 /\ inbox = <<>> /\ inbox \in Seq(News) /\ Len(inbox) = 0
  BY DEF HostInit, Calls
<1>6. HostsTyped
  BY <1>2, <1>3, <1>4, <1>5 DEF HostsTyped
<1>7. Awaits(calls, "get") /\ ReadsFirst(calls)
  BY <1>5 DEF Awaits, ReadsFirst
<1>8. Followed(calls, inbox, granted, cache)
  BY <1>5, <1>7 DEF Followed, GrantsAreFollowed, SetsAreFollowed, WritesAreFollowed, CacheIsFollowed
<1>9. QED BY <1>6, <1>7, <1>8 DEF HostsSound

\* The grants become others, or stay: whoever changes them, the worker hears of it.
LEMMA GrantsStep ==
  ASSUME HostsSound, NEW g \in SUBSET ToSet(Origins), GrantsBecome(g),
         UNCHANGED <<stored, cache, calls, lists, edited>>, jobs' \in [Sidebars -> Jobs]
  PROVE  HostsSound'
<1>1. CASE g = granted
  BY <1>1 DEF GrantsBecome, HostsSound, HostsTyped
<1>2. CASE g # granted
  <2>1. inbox \in Seq(News) /\ Refresh \in News /\ inbox' = Append(inbox, Refresh) /\ granted' = g
    BY <1>2 DEF GrantsBecome, HostsSound, HostsTyped, News, Refresh
  <2>2. inbox' \in Seq(News) /\ Longer(inbox', inbox, Refresh)
    BY <2>1, LongerIs
  <2>3. Followed(calls', inbox', granted', cache')
    BY <2>2, NewsOfChange DEF Refresh
  <2>4. LastIsStored(inbox, cache, stored) => LastIsStored(inbox', cache', stored')
    BY <2>2, LastTold DEF Carries, Refresh
  <2>5. QED BY <2>1, <2>2, <2>3, <2>4 DEF HostsSound, HostsTyped
<1>3. QED BY <1>1, <1>2

\* The worker hears of an answer or an event.
LEMMA HearsStep ==
  ASSUME HostsSound, reconcileHostsWithPermissions
  PROVE  HostsSound'
<1> DEFINE m == Head(inbox)
           next == Reconciled(cache, m.grants)
           ask == [type |-> "getAll"]
           set == [type |-> "set", hosts |-> next]
<1>0. /\ calls \in Seq(Calls) /\ inbox \in Seq(News) /\ inbox # <<>> /\ inbox' = Tail(inbox) /\ cache \in HostLists
      /\ UNCHANGED <<granted, stored, lists, jobs, edited>>
      /\ Followed(calls, inbox, granted, cache) /\ ReadsFirst(calls)
  BY DEF HostsSound, HostsTyped, reconcileHostsWithPermissions
<1>1. inbox' \in Seq(News) /\ Shorter(inbox', inbox) /\ m = inbox[1] /\ m \in News
  BY <1>0, ShorterIs
<1>2. m.type \in {"list", "refresh", "grants", "written"}
  BY <1>1 DEF News
<1> SUFFICES /\ calls' \in Seq(Calls) /\ cache' \in HostLists /\ ReadsFirst(calls')
             /\ Followed(calls', inbox', granted, cache')
             /\ cache' = IF Carries(m) THEN m.hosts ELSE cache
             /\ Awaits(calls, "get") => Awaits(calls', "get")
  <2>1. ASSUME ~edited', ~Awaits(calls', "get"), Awaits(calls, "get") => Awaits(calls', "get"),
               cache' = IF Carries(m) THEN m.hosts ELSE cache
        PROVE  LastIsStored(inbox', cache', stored')
    <3>1. LastIsStored(inbox, cache, stored)
      BY <1>0, <2>1 DEF HostsSound
    <3>2. LastIsStored(inbox', cache', stored)
      BY <1>1, <2>1, <3>1, LastHeard
    <3>3. QED BY <1>0, <3>2
  <2>2. QED BY <1>0, <1>1, <2>1 DEF HostsSound, HostsTyped
<1>3. ASSUME calls' = Append(calls, ask)
      PROVE  /\ calls' \in Seq(Calls) /\ ReadsFirst(calls') /\ (Awaits(calls, "get") => Awaits(calls', "get"))
             /\ \A list : Followed(calls', inbox', granted, list)
  <2>1. ask \in Calls
    BY DEF Calls
  <2>2. calls' \in Seq(Calls) /\ Longer(calls', calls, ask)
    BY <1>0, <1>3, <2>1, LongerIs
  <2>3. ReadsFirst(calls') /\ (Awaits(calls, "get") => Awaits(calls', "get"))
    BY <1>0, <2>2, ReadOnce, StillAwaits, Zenon
  <2>4. GrantsAreFollowed(inbox, granted)
    BY <1>0 DEF Followed
  <2>5. \A list : Followed(calls', inbox', granted, list)
    BY <1>1, <2>2, <2>4, AsksAgain
  <2>6. QED BY <2>2, <2>3, <2>5
<1>4. CASE m.type = "list"
  <2>1. cache' = m.hosts /\ calls' = Append(calls, ask)
    BY <1>4, Zenon DEF reconcileHostsWithPermissions
  <2>2. m.hosts \in HostLists /\ Carries(m)
    BY <1>1, <1>4 DEF News, Carries
  <2>3. calls' \in Seq(Calls) /\ ReadsFirst(calls') /\ (Awaits(calls, "get") => Awaits(calls', "get"))
    BY <1>3, <2>1
  <2>4. Followed(calls', inbox', granted, cache')
    BY <1>3, <2>1
  <2> HIDE DEF m
  <2>5. QED BY <2>1, <2>2, <2>3, <2>4
<1>5. CASE m.type = "refresh"
  <2>1. cache' = cache /\ calls' = Append(calls, ask) /\ ~Carries(m)
    BY <1>5, Zenon DEF reconcileHostsWithPermissions, Carries
  <2>2. calls' \in Seq(Calls) /\ ReadsFirst(calls') /\ (Awaits(calls, "get") => Awaits(calls', "get"))
    BY <1>3, <2>1
  <2>3. Followed(calls', inbox', granted, cache')
    BY <1>3, <2>1
  <2> HIDE DEF m
  <2>4. QED BY <1>0, <2>1, <2>2, <2>3
<1>6. CASE m.type = "grants"
  <2>1. /\ calls' = (IF next = cache THEN calls ELSE Append(calls, set))
        /\ cache' = cache /\ ~Carries(m)
    BY <1>6, Zenon DEF reconcileHostsWithPermissions, Carries
  <2>2. next \in HostLists /\ Right(next, m.grants)
    BY <1>0, ReconciledIs
  <2> HIDE DEF next
  <2>3. set \in Calls /\ set.type # "get"
    BY <2>2 DEF Calls
  <2>4. /\ calls' \in Seq(Calls)
        /\ IF next = cache THEN calls' = calls ELSE Longer(calls', calls, set)
    BY <1>0, <2>1, <2>3, LongerIs
  <2>5. ReadsFirst(calls') /\ (Awaits(calls, "get") => Awaits(calls', "get"))
    BY <1>0, <2>3, <2>4, ReadOnce, StillAwaits, Zenon
  <2>6. Followed(calls', inbox', granted, cache)
    BY <1>0, <1>1, <1>6, <2>2, <2>4, AnswerHeard
  <2>7. QED BY <1>0, <2>1, <2>4, <2>5, <2>6
<1>7. CASE m.type = "written"
  <2>1. cache' = m.hosts /\ calls' = calls
    BY <1>7, Zenon DEF reconcileHostsWithPermissions
  <2>2. m.hosts \in HostLists /\ Carries(m)
    BY <1>1, <1>7 DEF News, Carries
  <2>3. Followed(calls, inbox', granted, m.hosts)
    BY <1>0, <1>1, <1>7, WriteHeard
  <2>4. QED BY <1>0, <2>1, <2>2, <2>3
<1>8. QED BY <1>2, <1>4, <1>5, <1>6, <1>7

\* The browser takes the worker's next call.
LEMMA TakesStep ==
  ASSUME HostsSound, TakeCall
  PROVE  HostsSound'
<1> DEFINE c == Head(calls)
           reply == [type |-> "list", hosts |-> stored]
           answer == [type |-> "grants", grants |-> granted]
           done == [type |-> "written", hosts |-> c.hosts]
<1>0. /\ calls \in Seq(Calls) /\ inbox \in Seq(News) /\ calls # <<>> /\ calls' = Tail(calls)
      /\ cache \in HostLists /\ stored \in HostLists /\ granted \subseteq ToSet(Origins)
      /\ lists \in [Sidebars -> HostLists]
      /\ UNCHANGED <<granted, cache, jobs, edited>>
      /\ Followed(calls, inbox, granted, cache) /\ ReadsFirst(calls)
  BY DEF HostsSound, HostsTyped, TakeCall
<1>1. calls' \in Seq(Calls) /\ Shorter(calls', calls) /\ c = calls[1] /\ c \in Calls
  BY <1>0, ShorterIs
<1>2. ReadsFirst(calls') /\ ~Awaits(calls', "get")
  BY <1>0, <1>1, ReadOnce
<1> SUFFICES /\ inbox' \in Seq(News) /\ stored' \in HostLists /\ lists' \in [Sidebars -> HostLists]
             /\ Followed(calls', inbox', granted, cache)
             /\ ~edited => LastIsStored(inbox', cache, stored')
  BY <1>0, <1>1, <1>2 DEF HostsSound, HostsTyped
<1>3. c.type # "get" => ~Awaits(calls, "get")
  BY <1>0, <1>1 DEF ReadsFirst, Awaits
<1>4. CASE c.type = "get"
  <2>1. inbox' = Append(inbox, reply) /\ stored' = stored /\ lists' = lists
    BY <1>4 DEF TakeCall
  <2>2. reply \in News /\ Carries(reply)
    BY <1>0 DEF News, Carries
  <2>3. inbox' \in Seq(News) /\ Longer(inbox', inbox, reply)
    BY <1>0, <2>1, <2>2, LongerIs
  <2>4. Followed(calls', inbox', granted, cache)
    BY <1>0, <1>1, <1>4, <2>3, ListTaken
  <2>5. LastIsStored(inbox', cache, stored)
    BY <2>2, <2>3, LastTold
  <2>6. QED BY <1>0, <2>1, <2>3, <2>4, <2>5
<1>5. CASE c.type = "getAll"
  <2>1. inbox' = Append(inbox, answer) /\ stored' = stored /\ lists' = lists
    BY <1>5 DEF TakeCall
  <2>2. answer \in News /\ ~Carries(answer)
    BY <1>0 DEF News, Carries
  <2>3. inbox' \in Seq(News) /\ Longer(inbox', inbox, answer)
    BY <1>0, <2>1, <2>2, LongerIs
  <2>4. Followed(calls', inbox', granted, cache)
    <3>1. answer.type = "grants" /\ answer.grants = granted
      OBVIOUS
    <3> HIDE DEF answer
    <3>2. QED BY <1>0, <1>1, <2>3, <3>1, AnswerTaken, Zenon
  <2>5. ~edited => LastIsStored(inbox, cache, stored)
    BY <1>3, <1>5 DEF HostsSound
  <2>6. LastIsStored(inbox, cache, stored) => LastIsStored(inbox', cache, stored)
    BY <2>2, <2>3, LastTold
  <2>7. QED BY <1>0, <2>1, <2>3, <2>4, <2>5, <2>6
<1>6. CASE c.type = "set"
  <2>1. ChangeTo(c.hosts) /\ inbox' = (inbox \o Told(c.hosts)) \o <<done>> /\ c.hosts \in HostLists
    BY <1>1, <1>6 DEF TakeCall, Calls
  <2>2. stored' = c.hosts /\ lists' \in [Sidebars -> HostLists]
    BY <1>0, <2>1 DEF ChangeTo
  <2>3. done \in News /\ Carries(done) /\ Refresh \in News /\ Refresh.type = "refresh"
    BY <2>1 DEF News, Carries, Refresh
  <2> DEFINE n == inbox \o Told(c.hosts)
  <2>4. n \in Seq(News) /\ Followed(calls, n, granted, cache)
    <3>1. CASE Told(c.hosts) = <<>>
      <4>1. n = inbox
        BY <1>0, <3>1, ConcatEmptySeq
      <4> HIDE DEF n
      <4>2. QED BY <1>0, <4>1
    <3>2. CASE Told(c.hosts) = <<Refresh>>
      <4>1. n = Append(inbox, Refresh)
        <5>1. n = inbox \o <<Refresh>>
          BY <3>2, Zenon
        <5> HIDE DEF n
        <5>2. QED BY <1>0, <2>3, <5>1
      <4> HIDE DEF n
      <4>2. n \in Seq(News) /\ Longer(n, inbox, Refresh)
        BY <1>0, <2>3, <4>1, LongerIs
      <4>3. QED BY <2>3, <4>2, NewsOfChange
    <3>3. QED BY <3>1, <3>2 DEF Told
  <2> HIDE DEF n
  <2>5. inbox' = Append(n, done)
    BY <2>1, <2>3, <2>4 DEF n
  <2>6. inbox' \in Seq(News) /\ Longer(inbox', n, done)
    BY <2>3, <2>4, <2>5, LongerIs
  <2>7. Followed(calls', inbox', granted, cache)
    BY <1>1, <1>6, <2>4, <2>6, SetTaken
  <2>8. LastIsStored(inbox', cache, stored')
    BY <2>2, <2>3, <2>6, LastTold
  <2>9. QED BY <2>1, <2>2, <2>6, <2>7, <2>8
<1>7. QED BY <1>1, <1>4, <1>5, <1>6 DEF Calls

\* A panel stores its list, and says so.
LEMMA PersistStep ==
  ASSUME HostsSound, NEW p \in Sidebars, Persist(p)
  PROVE  HostsSound'
<1>0. /\ inbox \in Seq(News) /\ lists \in [Sidebars -> HostLists] /\ jobs \in [Sidebars -> Jobs]
      /\ jobs[p].kind = "write" /\ UNCHANGED <<granted, cache, calls>>
  BY DEF HostsSound, HostsTyped, Persist
<1>1. jobs[p].list \in HostLists /\ jobs' \in [Sidebars -> Jobs]
  BY <1>0 DEF Jobs, NoJob, Persist
<1>2. CASE UNCHANGED <<stored, lists, inbox, edited>>
  BY <1>0, <1>1, <1>2 DEF HostsSound, HostsTyped
<1>3. CASE ChangeTo(jobs[p].list) /\ inbox' = (inbox \o Told(jobs[p].list)) \o <<Refresh>> /\ edited' = TRUE
  <2>1. stored' = jobs[p].list /\ lists' \in [Sidebars -> HostLists]
    BY <1>0, <1>1, <1>3 DEF ChangeTo
  <2>2. Refresh \in News /\ Refresh.type = "refresh"
    BY DEF News, Refresh
  <2> DEFINE n == inbox \o Told(jobs[p].list)
  <2>3. n \in Seq(News)
    BY <1>0, <2>2 DEF Told
  <2>4. inbox' = n \o <<Refresh>>
    BY <1>3
  <2> HIDE DEF n
  <2>5. inbox' = Append(n, Refresh)
    BY <2>2, <2>3, <2>4
  <2>6. inbox' \in Seq(News) /\ Longer(inbox', n, Refresh)
    BY <2>2, <2>3, <2>5, LongerIs
  <2>7. Followed(calls', inbox', granted', cache')
    BY <2>2, <2>6, NewsOfChange
  <2>8. QED BY <1>0, <1>1, <1>3, <2>1, <2>6, <2>7 DEF HostsSound, HostsTyped
<1>4. QED BY <1>2, <1>3, Zenon DEF Persist

\* Every step of the hosts keeps what is under way enough to set the lists right.
LEMMA HostsStep ==
  ASSUME HostsSound, [HostNext]_hostVars
  PROVE  HostsSound'
<1>0. /\ granted \subseteq ToSet(Origins) /\ stored \in HostLists /\ cache \in HostLists
      /\ lists \in [Sidebars -> HostLists] /\ jobs \in [Sidebars -> Jobs]
  BY DEF HostsSound, HostsTyped
<1>1. CASE Restart
  <2>1. /\ calls' = <<[type |-> "get"]>> /\ calls' \in Seq(Calls) /\ Len(calls') = 1
        /\ inbox' = <<>> /\ inbox' \in Seq(News) /\ Len(inbox') = 0 /\ cache' = <<>>
    BY <1>1 DEF Restart, Calls
  <2>2. cache' \in HostLists
    <3>1. <<>> \in Seq(Hosts) /\ DOMAIN <<>> = 1..0
      OBVIOUS
    <3>2. IsInjective(<<>>)
      BY <3>1 DEF IsInjective
    <3>3. QED BY <2>1, <3>1, <3>2 DEF HostLists
  <2>3. Awaits(calls', "get") /\ ReadsFirst(calls')
    BY <2>1 DEF Awaits, ReadsFirst
  <2>4. Followed(calls', inbox', granted', cache')
    BY <2>1, <2>3 DEF Followed, GrantsAreFollowed, SetsAreFollowed, WritesAreFollowed, CacheIsFollowed
  <2>5. UNCHANGED <<granted, stored, lists, jobs>>
    BY <1>1 DEF Restart
  <2>6. QED BY <1>0, <2>1, <2>2, <2>3, <2>4, <2>5 DEF HostsSound, HostsTyped
<1>2. CASE ChangeGrants
  <2>1. UNCHANGED <<stored, cache, calls, lists, jobs, edited>>
    BY <1>2 DEF ChangeGrants
  <2>2. CASE inbox' = Append(inbox, Refresh) /\ granted' = granted
    <3>1. inbox \in Seq(News) /\ Refresh \in News /\ Refresh.type = "refresh"
      BY DEF HostsSound, HostsTyped, News, Refresh
    <3>2. inbox' \in Seq(News) /\ Longer(inbox', inbox, Refresh)
      BY <2>2, <3>1, LongerIs
    <3>3. Followed(calls', inbox', granted', cache')
      BY <3>1, <3>2, NewsOfChange
    <3>4. LastIsStored(inbox, cache, stored) => LastIsStored(inbox', cache', stored')
      BY <2>1, <3>1, <3>2, LastTold DEF Carries
    <3>5. QED BY <1>0, <2>1, <2>2, <3>2, <3>3, <3>4 DEF HostsSound, HostsTyped
  <2>3. ASSUME NEW o \in ToSet(Origins), GrantsBecome(IF o \in granted THEN granted \ {o} ELSE granted \cup {o})
        PROVE  HostsSound'
    <3>1. (IF o \in granted THEN granted \ {o} ELSE granted \cup {o}) \in SUBSET ToSet(Origins)
      BY <1>0
    <3>2. QED BY <1>0, <2>1, <2>3, <3>1, GrantsStep
  <2>4. QED BY <1>2, <2>2, <2>3, Zenon DEF ChangeGrants
<1>3. ASSUME NEW p \in Sidebars, readFromStorage(p) PROVE HostsSound'
  <2>1. lists' \in [Sidebars -> HostLists]
    BY <1>0, <1>3 DEF readFromStorage
  <2>2. UNCHANGED <<granted, stored, cache, calls, inbox, jobs, edited>>
    BY <1>3 DEF readFromStorage
  <2>3. QED BY <2>1, <2>2 DEF HostsSound, HostsTyped
<1>4. ASSUME NEW p \in Sidebars, NEW h \in Hosts, handleAllow(p, h) \/ handleRemove(p, h) PROVE HostsSound'
  <2>1. jobs' \in [Sidebars -> Jobs]
    <3>1. lists[p] \in HostLists
      BY <1>0
    <3>2. CASE handleAllow(p, h)
      <4>1. Append(lists[p], h) \in HostLists
        BY <3>1, <3>2, WorkedOut, Zenon DEF handleAllow
      <4>2. [kind |-> "allow", host |-> h, list |-> Append(lists[p], h)] \in Jobs
        BY <4>1 DEF Jobs
      <4>3. QED BY <1>0, <3>2, <4>2 DEF handleAllow
    <3>3. CASE handleRemove(p, h)
      <4>1. filter(lists[p], Hosts \ {h}) \in HostLists
        BY <3>1, WorkedOut
      <4>2. [kind |-> "remove", host |-> h, list |-> filter(lists[p], Hosts \ {h})] \in Jobs
        BY <4>1 DEF Jobs
      <4>3. QED BY <1>0, <3>3, <4>2 DEF handleRemove
    <3>4. QED BY <1>4, <3>2, <3>3
  <2>2. UNCHANGED <<granted, stored, cache, calls, inbox, lists, edited>>
    BY <1>4 DEF handleAllow, handleRemove
  <2>3. QED BY <2>1, <2>2 DEF HostsSound, HostsTyped
<1>5. ASSUME NEW p \in Sidebars, requestHostPermission(p) \/ revokeHostPermission(p) PROVE HostsSound'
  <2>1. UNCHANGED <<stored, cache, calls, lists, edited>>
    BY <1>5 DEF requestHostPermission, revokeHostPermission
  <2>2. jobs[p].kind \in {"allow", "remove"} /\ jobs[p] \in Jobs
    BY <1>0, <1>5 DEF requestHostPermission, revokeHostPermission
  <2>3. jobs[p].host \in Hosts /\ Hosts \subseteq ToSet(Origins) /\ jobs[p].list \in HostLists
    BY <2>2 DEF Jobs, Hosts
  <2>4. CASE jobs' = [jobs EXCEPT ![p] = NoJob] /\ UNCHANGED <<granted, inbox>>
    <3>1. jobs' \in [Sidebars -> Jobs]
      BY <1>0, <2>4 DEF Jobs, NoJob
    <3>2. QED BY <2>1, <2>4, <3>1 DEF HostsSound, HostsTyped
  <2>5. ASSUME jobs' = [jobs EXCEPT ![p].kind = "write"], NEW g \in SUBSET ToSet(Origins), GrantsBecome(g)
        PROVE  HostsSound'
    <3>1. [jobs[p] EXCEPT !.kind = "write"] \in Jobs
      BY <2>2, <2>3 DEF Jobs
    <3>2. jobs' \in [Sidebars -> Jobs]
      BY <1>0, <2>5, <3>1
    <3>3. QED BY <2>1, <2>5, <3>2, GrantsStep
  <2>6. /\ (IF AllSites \in granted THEN granted ELSE granted \cup {jobs[p].host}) \in SUBSET ToSet(Origins)
        /\ granted \ {jobs[p].host} \in SUBSET ToSet(Origins)
    BY <1>0, <2>3
  <2>7. QED BY <1>5, <2>4, <2>5, <2>6 DEF requestHostPermission, revokeHostPermission
<1>6. CASE UNCHANGED hostVars
  BY <1>6 DEF hostVars, HostsSound, HostsTyped
<1>7. QED BY <1>1, <1>2, <1>3, <1>4, <1>5, <1>6, HearsStep, TakesStep, PersistStep DEF HostNext

\* When nothing is under way the lists are right.
LEMMA HostsSoundAreGranted ==
  ASSUME HostsSound
  PROVE  HostsAreGranted
<1>1. ASSUME inbox = <<>>, calls = <<>>
      PROVE  ToSet(cache) = granted \cap Hosts /\ (edited \/ ToSet(stored) = granted \cap Hosts) /\ IsInjective(cache)
  <2>1. Len(inbox) = 0 /\ Len(calls) = 0
    BY <1>1
  <2>2. Right(cache, granted)
    BY <2>1 DEF HostsSound, Followed, CacheIsFollowed, Awaits
  <2>3. ~edited => cache = stored
    BY <2>1 DEF HostsSound, Awaits, LastIsStored
  <2>4. IsInjective(cache)
    BY DEF HostsSound, HostsTyped, HostLists
  <2>5. QED BY <2>2, <2>3, <2>4 DEF Right
<1>2. QED BY <1>1 DEF HostsAreGranted

\* However the panels, the browser and the worker's questions cross, the hosts that are
\* allowed end up as those that are granted.
THEOREM AllowedIsGranted == Spec => []HostsAreGranted
<1>1. Init => HostsSound
  BY HostsInit DEF Init
<1>2. HostsSound /\ [Next]_allVars => HostsSound'
  BY EachOnItsOwn, HostsStep
<1>3. QED BY <1>1, <1>2, HostsSoundAreGranted, PTL DEF Spec

------------------------------------------------------------------------------
(* The snapshots: what the worker knows, what is under way, what is shown. *)

Tasks ==
  [type : {"select", "replace", "remove"}, tab : OpenedTabs, value : Nat]
  \cup [type : {"ready"}, tab : {0}, value : {0}]
SentMessages ==
  [type : {"closed", "focused"}, tab : OpenedTabs, session : Nat]
  \cup [type : {"push"}, tab : OpenedTabs, session : Nat, rev : Nat, what : Nat \X Nat]
Holdings == [session : Nat, rev : Nat] \cup {Unseen}

\* The snapshots, and the closes, of tab t that are under way.
Pushes(ms, t) == {i \in 1..Len(ms) : ms[i].type = "push" /\ ms[i].tab = t}
Closings(ms, t) == {i \in 1..Len(ms) : ms[i].type = "closed" /\ ms[i].tab = t}

\* A snapshot of session s and revision r may follow what the server holds and has retired.
MayFollow(has, gone, s, r) ==
  /\ has # Unseen => has.rev <= r /\ (s # 0 => has.session <= s)
  /\ s # 0 => \A x \in gone : x < s

\* Sessions and revisions go up under way, above what the server has.
GoUp(ms, t, has, gone) ==
  /\ \A i \in Pushes(ms, t) : MayFollow(has, gone, ms[i].session, ms[i].rev)
  /\ \A i, j \in Pushes(ms, t) :
       i < j => ms[i].rev <= ms[j].rev /\ (ms[j].session # 0 => ms[i].session <= ms[j].session)

\* The worker's session and revision are above all of them.
StaysAbove(ms, t, has, gone, s, r) ==
  /\ MayFollow(has, gone, s, r)
  /\ \A i \in Pushes(ms, t) : ms[i].rev <= r /\ (s # 0 => ms[i].session <= s)

\* No session is above the last one that was given.
AtMost(ms, t, has, gone, n) ==
  /\ has # Unseen => has.session <= n
  /\ \A x \in gone : x <= n
  /\ \A i \in Pushes(ms, t) : ms[i].session <= n

\* The last snapshot of an open tab, under way or held, is of session p and says what.
LastIs(ms, t, has, said, p, what) ==
  /\ \A i \in Pushes(ms, t) :
       (\A j \in Pushes(ms, t) : j <= i) => ms[i].session = p /\ ms[i].what = what
  /\ Pushes(ms, t) = {} => has # Unseen /\ has.session = p /\ said = what

\* The close of a tab that was shown in session p follows its snapshots, or was heard.
CloseFollows(ms, t, has, p) ==
  /\ \A i \in Pushes(ms, t) :
       (\A j \in Pushes(ms, t) : j <= i) => ms[i].session = p
  /\ \A k \in Closings(ms, t) :
       /\ ms[k].session = p
       /\ \A i \in Pushes(ms, t) : i < k
       /\ \A j \in Closings(ms, t) : j = k
       /\ Pushes(ms, t) = {} => has # Unseen /\ has.session = p
  /\ Closings(ms, t) = {} => Pushes(ms, t) = {} /\ has = Unseen

\* What is known of a tab that is open, and of one that was shown when it was closed.
OpenTab(ms, t, has, gone, said, s, r, p, what, n) ==
  /\ AtMost(ms, t, has, gone, n)
  /\ GoUp(ms, t, has, gone)
  /\ StaysAbove(ms, t, has, gone, s, r)
  /\ Closings(ms, t) = {}
  /\ p # 0 => s = p /\ LastIs(ms, t, has, said, p, what)

ClosedTab(ms, t, has, gone, p) ==
  p # 0 => GoUp(ms, t, has, gone) /\ CloseFollows(ms, t, has, p)

WorkerTyped ==
  /\ openTabs \subseteq OpenedTabs /\ generations \in Nat /\ generations <= MaxGenerations
  /\ sessionOf \in [OpenedTabs -> Nat] /\ revOf \in [OpenedTabs -> Nat] /\ pushed \in [OpenedTabs -> Nat]
  /\ selected \in [OpenedTabs -> Nat] /\ journalOf \in [OpenedTabs -> Nat]
  /\ content \in [OpenedTabs -> Nat \X Nat]
  /\ tasks \in Seq(Tasks) /\ messages \in Seq(SentMessages)
  /\ pairedTabs \in Seq(OpenedTabs) /\ lastFocused \subseteq OpenedTabs
  /\ served \in [OpenedTabs -> Holdings] /\ retiredSessions \in [OpenedTabs -> SUBSET Nat]
  /\ changes \in Nat

\* A tab that is closed has no session, and only such a tab's journal is to be removed.
ClosedForGood ==
  /\ \A t \in OpenedTabs \ openTabs : sessionOf[t] = 0
  /\ \A i \in 1..Len(tasks) : tasks[i].type = "remove" => tasks[i].tab \notin openTabs
  /\ \A t \in OpenedTabs : sessionOf[t] <= generations /\ pushed[t] <= generations

\* Without a link nothing is under way and the server holds nothing.
UnlinkedIsEmpty ==
  /\ link \in {"none", "dialling", "connected"}
  /\ attachedTo = (IF link = "connected" THEN 1 ELSE 0)
  /\ link # "connected" =>
       /\ messages = <<>>
       /\ \A t \in OpenedTabs : pushed[t] = 0 /\ served[t] = Unseen /\ retiredSessions[t] = {}

TabSound(t) ==
  IF t \in openTabs
  THEN OpenTab(messages, t, served[t], retiredSessions[t], content[t], sessionOf[t], revOf[t], pushed[t],
               <<selected[t], journalOf[t]>>, generations)
  ELSE ClosedTab(messages, t, served[t], retiredSessions[t], pushed[t])

SnapshotsSound ==
  /\ WorkerTyped /\ ClosedForGood /\ UnlinkedIsEmpty
  /\ \A t \in OpenedTabs : TabSound(t)

\* One message more.
LEMMA OneMore ==
  ASSUME NEW ms \in Seq(SentMessages), NEW m \in SentMessages, NEW t
  PROVE  /\ Append(ms, m) \in Seq(SentMessages) /\ Len(ms) \in Nat
         /\ \A i \in 1..Len(ms) : Append(ms, m)[i] = ms[i]
         /\ Append(ms, m)[Len(ms) + 1] = m
         /\ m.type = "push" /\ m.tab = t => Pushes(Append(ms, m), t) = Pushes(ms, t) \cup {Len(ms) + 1}
         /\ ~(m.type = "push" /\ m.tab = t) => Pushes(Append(ms, m), t) = Pushes(ms, t)
         /\ m.type = "closed" /\ m.tab = t => Closings(Append(ms, m), t) = Closings(ms, t) \cup {Len(ms) + 1}
         /\ ~(m.type = "closed" /\ m.tab = t) => Closings(Append(ms, m), t) = Closings(ms, t)
<1> DEFINE new == Append(ms, m)
<1> DEFINE k == Len(ms) + 1
<1>1. new \in Seq(SentMessages) /\ Len(new) = k /\ Len(ms) \in Nat
  OBVIOUS
<1>2. \A i \in 1..Len(ms) : new[i] = ms[i]
  OBVIOUS
<1>3. new[k] = m
  OBVIOUS
<1>4. \A i : i \in 1..Len(new) <=> i \in 1..Len(ms) \/ i = k
  BY <1>1
<1>5. k \notin 1..Len(ms)
  BY <1>1
<1> HIDE DEF new, k
<1>6. /\ m.type = "push" /\ m.tab = t => Pushes(new, t) = Pushes(ms, t) \cup {k}
      /\ ~(m.type = "push" /\ m.tab = t) => Pushes(new, t) = Pushes(ms, t)
  BY <1>2, <1>3, <1>4, <1>5 DEF Pushes
<1>7. /\ m.type = "closed" /\ m.tab = t => Closings(new, t) = Closings(ms, t) \cup {k}
      /\ ~(m.type = "closed" /\ m.tab = t) => Closings(new, t) = Closings(ms, t)
  BY <1>2, <1>3, <1>4, <1>5 DEF Closings
<1>8. QED BY <1>1, <1>2, <1>3, <1>6, <1>7 DEF new, k

\* A snapshot of the tab more.
LEMMA OneSnapshotMore ==
  ASSUME NEW ms \in Seq(SentMessages), NEW m \in SentMessages, m.type = "push"
  PROVE  /\ Append(ms, m) \in Seq(SentMessages) /\ Len(ms) \in Nat
         /\ \A i \in 1..Len(ms) : Append(ms, m)[i] = ms[i]
         /\ Append(ms, m)[Len(ms) + 1] = m
         /\ Pushes(Append(ms, m), m.tab) = Pushes(ms, m.tab) \cup {Len(ms) + 1}
         /\ Closings(Append(ms, m), m.tab) = Closings(ms, m.tab)
<1> DEFINE t == m.tab
<1>1. ~(m.type = "closed" /\ m.tab = t) /\ m.type = "push" /\ m.tab = t
  OBVIOUS
<1> HIDE DEF t
<1>2. /\ Append(ms, m) \in Seq(SentMessages) /\ Len(ms) \in Nat
      /\ \A i \in 1..Len(ms) : Append(ms, m)[i] = ms[i]
      /\ Append(ms, m)[Len(ms) + 1] = m
  BY OneMore
<1>3. Pushes(Append(ms, m), t) = Pushes(ms, t) \cup {Len(ms) + 1}
  BY <1>1, OneMore
<1>4. Closings(Append(ms, m), t) = Closings(ms, t)
  BY <1>1, OneMore
<1>5. QED BY <1>2, <1>3, <1>4 DEF t

\* A close of the tab more.
LEMMA OneCloseMore ==
  ASSUME NEW ms \in Seq(SentMessages), NEW m \in SentMessages, m.type = "closed"
  PROVE  /\ Append(ms, m) \in Seq(SentMessages) /\ Len(ms) \in Nat
         /\ \A i \in 1..Len(ms) : Append(ms, m)[i] = ms[i]
         /\ Append(ms, m)[Len(ms) + 1] = m
         /\ Pushes(Append(ms, m), m.tab) = Pushes(ms, m.tab)
         /\ Closings(Append(ms, m), m.tab) = Closings(ms, m.tab) \cup {Len(ms) + 1}
<1> DEFINE t == m.tab
<1>1. ~(m.type = "push" /\ m.tab = t) /\ m.type = "closed" /\ m.tab = t
  OBVIOUS
<1> HIDE DEF t
<1>2. /\ Append(ms, m) \in Seq(SentMessages) /\ Len(ms) \in Nat
      /\ \A i \in 1..Len(ms) : Append(ms, m)[i] = ms[i]
      /\ Append(ms, m)[Len(ms) + 1] = m
  BY OneMore
<1>3. Closings(Append(ms, m), t) = Closings(ms, t) \cup {Len(ms) + 1}
  BY <1>1, OneMore
<1>4. Pushes(Append(ms, m), t) = Pushes(ms, t)
  BY <1>1, OneMore
<1>5. QED BY <1>2, <1>3, <1>4 DEF t

\* What is under way of a tab is all that is asked of it.
LEMMA SameUnderWay ==
  ASSUME NEW ms \in Seq(SentMessages), NEW new \in Seq(SentMessages), NEW t,
         Pushes(new, t) = Pushes(ms, t), Closings(new, t) = Closings(ms, t),
         \A i \in Pushes(ms, t) \cup Closings(ms, t) : new[i] = ms[i]
  PROVE  /\ \A has, gone, said, s, r, p, what, n :
              OpenTab(ms, t, has, gone, said, s, r, p, what, n) => OpenTab(new, t, has, gone, said, s, r, p, what, n)
         /\ \A has, gone, p : ClosedTab(ms, t, has, gone, p) => ClosedTab(new, t, has, gone, p)
<1>1. ASSUME NEW has, NEW gone, NEW n, AtMost(ms, t, has, gone, n)
      PROVE  AtMost(new, t, has, gone, n)
  BY <1>1 DEF AtMost
<1>2. ASSUME NEW has, NEW gone, GoUp(ms, t, has, gone)
      PROVE  GoUp(new, t, has, gone)
  BY <1>2 DEF GoUp
<1>3. ASSUME NEW has, NEW gone, NEW s, NEW r, StaysAbove(ms, t, has, gone, s, r)
      PROVE  StaysAbove(new, t, has, gone, s, r)
  BY <1>3 DEF StaysAbove
<1>4. ASSUME NEW has, NEW said, NEW p, NEW what, LastIs(ms, t, has, said, p, what)
      PROVE  LastIs(new, t, has, said, p, what)
  BY <1>4 DEF LastIs
<1>5. ASSUME NEW has, NEW p, CloseFollows(ms, t, has, p)
      PROVE  CloseFollows(new, t, has, p)
  BY <1>5 DEF CloseFollows
<1>6. ASSUME NEW has, NEW gone, NEW said, NEW s, NEW r, NEW p, NEW what, NEW n,
             OpenTab(ms, t, has, gone, said, s, r, p, what, n)
      PROVE  OpenTab(new, t, has, gone, said, s, r, p, what, n)
  BY <1>1, <1>2, <1>3, <1>4, <1>6 DEF OpenTab
<1>7. ASSUME NEW has, NEW gone, NEW p, ClosedTab(ms, t, has, gone, p)
      PROVE  ClosedTab(new, t, has, gone, p)
  BY <1>2, <1>5, <1>7 DEF ClosedTab
<1>8. QED BY <1>6, <1>7

\* A message that is no snapshot and no close of the tab changes nothing for it.
LEMMA OtherMessage ==
  ASSUME NEW ms \in Seq(SentMessages), NEW m \in SentMessages, NEW t,
         ~(m.type \in {"push", "closed"} /\ m.tab = t)
  PROVE  /\ \A has, gone, said, s, r, p, what, n :
              OpenTab(ms, t, has, gone, said, s, r, p, what, n)
              => OpenTab(Append(ms, m), t, has, gone, said, s, r, p, what, n)
         /\ \A has, gone, p : ClosedTab(ms, t, has, gone, p) => ClosedTab(Append(ms, m), t, has, gone, p)
<1> DEFINE new == Append(ms, m)
<1>1. /\ new \in Seq(SentMessages) /\ Pushes(new, t) = Pushes(ms, t) /\ Closings(new, t) = Closings(ms, t)
      /\ \A i \in 1..Len(ms) : new[i] = ms[i]
  BY OneMore
<1>2. Pushes(ms, t) \subseteq 1..Len(ms) /\ Closings(ms, t) \subseteq 1..Len(ms)
  BY DEF Pushes, Closings
<1>3. \A i \in Pushes(ms, t) \cup Closings(ms, t) : new[i] = ms[i]
  BY <1>1, <1>2
<1> HIDE DEF new
<1>4. QED BY <1>1, <1>3, SameUnderWay, Zenon DEF new

\* The worker pushes a snapshot of an open tab in its session, at the next revision.
LEMMA SnapshotPushed ==
  ASSUME NEW ms \in Seq(SentMessages), NEW t \in OpenedTabs, NEW has \in Holdings, NEW gone \in SUBSET Nat, NEW said,
         NEW s \in Nat, NEW r \in Nat, NEW p, NEW old, NEW what \in Nat \X Nat, NEW n \in Nat,
         OpenTab(ms, t, has, gone, said, s, r, p, old, n), s <= n
  PROVE  LET m == [type |-> "push", tab |-> t, session |-> s, rev |-> r + 1, what |-> what] IN
         OpenTab(Append(ms, m), t, has, gone, said, s, r + 1, s, what, n)
<1> DEFINE m == [type |-> "push", tab |-> t, session |-> s, rev |-> r + 1, what |-> what]
<1> DEFINE new == Append(ms, m)
<1> DEFINE k == Len(ms) + 1
<1>1. m \in SentMessages /\ m.type = "push" /\ m.tab = t /\ m.session = s /\ m.rev = r + 1 /\ m.what = what
  BY DEF SentMessages
<1> HIDE DEF m
<1>2. /\ new \in Seq(SentMessages) /\ Len(ms) \in Nat /\ k \in Nat
      /\ \A i \in 1..Len(ms) : new[i] = ms[i]
      /\ new[k] = m
      /\ Pushes(new, t) = Pushes(ms, t) \cup {k} /\ Closings(new, t) = Closings(ms, t)
  BY <1>1, OneSnapshotMore
<1>3. \A i \in Pushes(ms, t) : i \in Nat /\ i < k /\ new[i] = ms[i] /\ ms[i].session \in Nat /\ ms[i].rev \in Nat
  <2>1. \A i \in 1..Len(ms) : i \in Nat /\ i < k /\ new[i] = ms[i] /\ ms[i] \in SentMessages
    BY <1>2
  <2>2. \A x \in SentMessages : x.type = "push" => x.session \in Nat /\ x.rev \in Nat
    BY Zenon DEF SentMessages
  <2>3. QED BY <2>1, <2>2 DEF Pushes
<1>4. AtMost(ms, t, has, gone, n) /\ GoUp(ms, t, has, gone) /\ StaysAbove(ms, t, has, gone, s, r) /\ Closings(ms, t) = {}
  BY DEF OpenTab
<1>b. \A i \in Pushes(ms, t) : new[i].rev <= r + 1 /\ (s # 0 => new[i].session <= s)
  <2>1. \A i \in Pushes(ms, t) : ms[i].rev <= r /\ (s # 0 => ms[i].session <= s)
    BY <1>4 DEF StaysAbove
  <2>2. TAKE i \in Pushes(ms, t)
  <2>3. ms[i].rev <= r /\ (s # 0 => ms[i].session <= s) /\ ms[i].rev \in Nat /\ new[i] = ms[i]
    BY <2>1, <1>3, Zenon
  <2>4. QED BY <2>3
<1>5. has # Unseen => has.rev \in Nat /\ has.session \in Nat
  BY DEF Holdings, Unseen
<1> HIDE DEF new, k
<1>6. AtMost(new, t, has, gone, n)
  BY <1>1, <1>2, <1>3, <1>4, Zenon DEF AtMost
<1>7. MayFollow(has, gone, s, r + 1)
  BY <1>4, <1>5 DEF StaysAbove, MayFollow
<1>8. GoUp(new, t, has, gone)
  <2>1. \A i \in Pushes(new, t) : MayFollow(has, gone, new[i].session, new[i].rev)
    BY <1>1, <1>2, <1>3, <1>4, <1>7, Zenon DEF GoUp
  <2>2. ASSUME NEW i \in Pushes(new, t), NEW j \in Pushes(new, t), i < j
        PROVE  new[i].rev <= new[j].rev /\ (new[j].session # 0 => new[i].session <= new[j].session)
    <3>1. CASE j = k
      <4>1. i \in Pushes(ms, t)
        BY <2>2, <3>1, <1>2
      <4>2. QED BY <4>1, <3>1, <1>1, <1>2, <1>b, Zenon
    <3>2. CASE j # k
      <4>1. j \in Pushes(ms, t) /\ i \in Pushes(ms, t)
        BY <2>2, <3>2, <1>2, <1>3
      <4>2. QED BY <4>1, <2>2, <1>3, <1>4, Zenon DEF GoUp
    <3>3. QED BY <3>1, <3>2
  <2>3. QED BY <2>1, <2>2 DEF GoUp
<1>9. StaysAbove(new, t, has, gone, s, r + 1)
  <2>1. \A i \in Pushes(ms, t) : new[i].rev <= r + 1 /\ (s # 0 => new[i].session <= s)
    BY <1>b
  <2>2. new[k].rev <= r + 1 /\ new[k].session <= s
    BY <1>1, <1>2
  <2>3. QED BY <2>1, <2>2, <1>2, <1>7, Zenon DEF StaysAbove
<1>10. LastIs(new, t, has, said, s, what)
  <2>1. ASSUME NEW i \in Pushes(new, t), \A j \in Pushes(new, t) : j <= i
        PROVE  new[i].session = s /\ new[i].what = what
    <3>1. k <= i
      BY <2>1, <1>2
    <3>2. i = k
      BY <3>1, <1>2, <1>3
    <3>3. QED BY <3>2, <1>1, <1>2
  <2>2. Pushes(new, t) # {}
    BY <1>2
  <2>3. QED BY <2>1, <2>2 DEF LastIs
<1>11. OpenTab(new, t, has, gone, said, s, r + 1, s, what, n)
  BY <1>2, <1>4, <1>6, <1>8, <1>9, <1>10 DEF OpenTab
<1>12. QED BY <1>11 DEF new, m

\* The worker tells of the close of an open tab.
LEMMA CloseTold ==
  ASSUME NEW ms \in Seq(SentMessages), NEW t \in OpenedTabs, NEW has, NEW gone, NEW said,
         NEW s \in Nat, NEW r, NEW p, NEW what, NEW n, OpenTab(ms, t, has, gone, said, s, r, p, what, n)
  PROVE  ClosedTab(Append(ms, [type |-> "closed", tab |-> t, session |-> s]), t, has, gone, p)
<1> DEFINE m == [type |-> "closed", tab |-> t, session |-> s]
<1> DEFINE new == Append(ms, m)
<1> DEFINE k == Len(ms) + 1
<1>1. m \in SentMessages /\ m.type = "closed" /\ m.tab = t /\ m.session = s
  BY DEF SentMessages
<1> HIDE DEF m
<1>2. /\ new \in Seq(SentMessages) /\ Len(ms) \in Nat /\ k \in Nat
      /\ \A i \in 1..Len(ms) : new[i] = ms[i]
      /\ new[k] = m
      /\ Pushes(new, t) = Pushes(ms, t) /\ Closings(new, t) = Closings(ms, t) \cup {k}
  BY <1>1, OneCloseMore
<1>3. \A i \in Pushes(ms, t) : i \in Nat /\ i < k /\ new[i] = ms[i]
  BY <1>2 DEF Pushes
<1> HIDE DEF new, k
<1>4. SUFFICES ASSUME p # 0 PROVE GoUp(new, t, has, gone) /\ CloseFollows(new, t, has, p)
  BY DEF ClosedTab, new, m
<1>5. GoUp(ms, t, has, gone) /\ Closings(ms, t) = {} /\ s = p /\ LastIs(ms, t, has, said, p, what)
  BY <1>4 DEF OpenTab
<1>6. GoUp(new, t, has, gone)
  BY <1>2, <1>3, <1>5, Zenon DEF GoUp
<1>7. CloseFollows(new, t, has, p)
  <2>1. \A i \in Pushes(new, t) : (\A j \in Pushes(new, t) : j <= i) => new[i].session = p
    BY <1>2, <1>3, <1>5 DEF LastIs
  <2>2. Closings(new, t) = {k}
    BY <1>2, <1>5
  <2>3. Pushes(new, t) = {} => has # Unseen /\ has.session = p
    BY <1>2, <1>5 DEF LastIs
  <2>4. \A i \in Pushes(new, t) : i < k
    BY <1>2, <1>3
  <2>5. QED BY <2>1, <2>2, <2>3, <2>4, <1>1, <1>2, <1>5 DEF CloseFollows
<1>8. QED BY <1>6, <1>7

\* The first message is heard.
LEMMA FirstHeard ==
  ASSUME NEW ms \in Seq(SentMessages), ms # <<>>, NEW t
  PROVE  /\ Tail(ms) \in Seq(SentMessages) /\ ms[1] \in SentMessages /\ 1 \in 1..Len(ms)
         /\ \A i \in Pushes(Tail(ms), t) : i \in Nat /\ 1 < i + 1 /\ i + 1 \in Pushes(ms, t) /\ Tail(ms)[i] = ms[i + 1]
         /\ \A i \in Pushes(ms, t) : i \in Nat /\ (i # 1 => i - 1 \in Pushes(Tail(ms), t))
         /\ \A i \in Closings(Tail(ms), t) : i \in Nat /\ 1 < i + 1 /\ i + 1 \in Closings(ms, t) /\ Tail(ms)[i] = ms[i + 1]
         /\ \A i \in Closings(ms, t) : i \in Nat /\ (i # 1 => i - 1 \in Closings(Tail(ms), t))
<1> DEFINE new == Tail(ms)
<1>1. new \in Seq(SentMessages) /\ Len(new) = Len(ms) - 1 /\ Len(ms) \in Nat /\ Len(ms) >= 1
  OBVIOUS
<1>2. \A i \in 1..Len(new) : new[i] = ms[i + 1]
  OBVIOUS
<1>3. ms[1] \in SentMessages
  OBVIOUS
<1> HIDE DEF new
<1>4. \A i \in 1..Len(new) : i \in Nat /\ 1 < i + 1 /\ i + 1 \in 1..Len(ms)
  BY <1>1
<1>5. \A i \in 1..Len(ms) : i \in Nat /\ (i # 1 => i - 1 \in 1..Len(new) /\ new[i - 1] = ms[i])
  BY <1>1, <1>2
<1>6. 1 \in 1..Len(ms)
  BY <1>1
<1>7. /\ \A i \in Pushes(new, t) : i \in Nat /\ 1 < i + 1 /\ i + 1 \in Pushes(ms, t) /\ new[i] = ms[i + 1]
      /\ \A i \in Pushes(ms, t) : i \in Nat /\ (i # 1 => i - 1 \in Pushes(new, t))
  BY <1>2, <1>4, <1>5, Zenon DEF Pushes
<1>8. /\ \A i \in Closings(new, t) : i \in Nat /\ 1 < i + 1 /\ i + 1 \in Closings(ms, t) /\ new[i] = ms[i + 1]
      /\ \A i \in Closings(ms, t) : i \in Nat /\ (i # 1 => i - 1 \in Closings(new, t))
  BY <1>2, <1>4, <1>5, Zenon DEF Closings
<1>9. QED BY <1>1, <1>3, <1>6, <1>7, <1>8, Zenon DEF new

\* What remains under way stays in order.
LEMMA OrderStays ==
  ASSUME NEW ms \in Seq(SentMessages), ms # <<>>, NEW t, NEW has, NEW gone
  PROVE  /\ \A n : AtMost(ms, t, has, gone, n) => AtMost(Tail(ms), t, has, gone, n)
         /\ GoUp(ms, t, has, gone) => GoUp(Tail(ms), t, has, gone)
         /\ \A s, r : StaysAbove(ms, t, has, gone, s, r) => StaysAbove(Tail(ms), t, has, gone, s, r)
<1> DEFINE new == Tail(ms)
<1>1. \A i \in Pushes(new, t) : i \in Nat /\ i + 1 \in Pushes(ms, t) /\ new[i] = ms[i + 1]
  BY FirstHeard, Zenon
<1> HIDE DEF new
<1>2. ASSUME NEW n, AtMost(ms, t, has, gone, n) PROVE AtMost(new, t, has, gone, n)
  BY <1>1, <1>2 DEF AtMost
<1>3. ASSUME GoUp(ms, t, has, gone) PROVE GoUp(new, t, has, gone)
  <2>1. \A i \in Pushes(new, t) : MayFollow(has, gone, new[i].session, new[i].rev)
    BY <1>1, <1>3 DEF GoUp
  <2>2. ASSUME NEW i \in Pushes(new, t), NEW j \in Pushes(new, t), i < j
        PROVE  new[i].rev <= new[j].rev /\ (new[j].session # 0 => new[i].session <= new[j].session)
    <3>1. i + 1 < j + 1
      BY <2>2, <1>1
    <3>2. QED BY <3>1, <2>2, <1>1, <1>3 DEF GoUp
  <2>3. QED BY <2>1, <2>2 DEF GoUp
<1>4. ASSUME NEW s, NEW r, StaysAbove(ms, t, has, gone, s, r) PROVE StaysAbove(new, t, has, gone, s, r)
  BY <1>1, <1>4 DEF StaysAbove
<1>5. QED BY <1>2, <1>3, <1>4 DEF new

\* The last snapshot stays the last, unless it is the one that is heard.
LEMMA LastStays ==
  ASSUME NEW ms \in Seq(SentMessages), ms # <<>>, NEW t, NEW has,
         1 \in Pushes(ms, t) => Pushes(Tail(ms), t) # {}
  PROVE  /\ \A said, p, what : LastIs(ms, t, has, said, p, what) => LastIs(Tail(ms), t, has, said, p, what)
         /\ \A p : CloseFollows(ms, t, has, p) /\ 1 \notin Closings(ms, t) => CloseFollows(Tail(ms), t, has, p)
<1> DEFINE new == Tail(ms)
<1>1. /\ \A i \in Pushes(new, t) : i \in Nat /\ 1 < i + 1 /\ i + 1 \in Pushes(ms, t) /\ new[i] = ms[i + 1]
      /\ \A i \in Pushes(ms, t) : i \in Nat /\ (i # 1 => i - 1 \in Pushes(new, t))
  BY FirstHeard, Zenon
<1>2. /\ \A i \in Closings(new, t) : i \in Nat /\ 1 < i + 1 /\ i + 1 \in Closings(ms, t) /\ new[i] = ms[i + 1]
      /\ \A i \in Closings(ms, t) : i \in Nat /\ (i # 1 => i - 1 \in Closings(new, t))
  BY FirstHeard, Zenon
<1>3. 1 \in Pushes(ms, t) => Pushes(new, t) # {}
  OBVIOUS
<1> HIDE DEF new
<1>4. Pushes(new, t) = {} => Pushes(ms, t) = {}
  BY <1>1, <1>3
<1>5. ASSUME NEW i \in Pushes(new, t), \A j \in Pushes(new, t) : j <= i
      PROVE  \A j \in Pushes(ms, t) : j <= i + 1
  <2>1. TAKE j \in Pushes(ms, t)
  <2>2. CASE j = 1
    BY <2>2, <1>1, <1>5
  <2>3. CASE j # 1
    <3>1. j - 1 <= i /\ j \in Nat /\ i \in Nat
      BY <2>1, <2>3, <1>1, <1>5
    <3>2. QED BY <3>1
  <2>4. QED BY <2>2, <2>3
<1>6. ASSUME NEW said, NEW p, NEW what, LastIs(ms, t, has, said, p, what)
      PROVE  LastIs(new, t, has, said, p, what)
  <2>1. ASSUME NEW i \in Pushes(new, t), \A j \in Pushes(new, t) : j <= i
        PROVE  new[i].session = p /\ new[i].what = what
    <3>1. \A j \in Pushes(ms, t) : j <= i + 1
      BY <2>1, <1>5
    <3>2. QED BY <3>1, <2>1, <1>1, <1>6 DEF LastIs
  <2>2. QED BY <2>1, <1>4, <1>6 DEF LastIs
<1>7. ASSUME NEW p, CloseFollows(ms, t, has, p), 1 \notin Closings(ms, t)
      PROVE  CloseFollows(new, t, has, p)
  <2>1. ASSUME NEW i \in Pushes(new, t), \A j \in Pushes(new, t) : j <= i
        PROVE  new[i].session = p
    <3>1. \A j \in Pushes(ms, t) : j <= i + 1
      BY <2>1, <1>5
    <3>2. QED BY <3>1, <2>1, <1>1, <1>7 DEF CloseFollows
  <2>2. ASSUME NEW k \in Closings(new, t)
        PROVE  /\ new[k].session = p
               /\ \A i \in Pushes(new, t) : i < k
               /\ \A j \in Closings(new, t) : j = k
               /\ Pushes(new, t) = {} => has # Unseen /\ has.session = p
    <3>1. k \in Nat /\ k + 1 \in Closings(ms, t) /\ new[k] = ms[k + 1]
      BY <2>2, <1>2
    <3>2. /\ ms[k + 1].session = p
          /\ \A i \in Pushes(ms, t) : i < k + 1
          /\ \A j \in Closings(ms, t) : j = k + 1
          /\ Pushes(ms, t) = {} => has # Unseen /\ has.session = p
      BY <3>1, <1>7 DEF CloseFollows
    <3>3. \A i \in Pushes(new, t) : i < k
      <4>1. TAKE i \in Pushes(new, t)
      <4>2. i + 1 < k + 1 /\ i \in Nat
        BY <4>1, <3>2, <1>1
      <4>3. QED BY <4>2, <3>1
    <3>4. \A j \in Closings(new, t) : j = k
      <4>1. TAKE j \in Closings(new, t)
      <4>2. j + 1 = k + 1 /\ j \in Nat
        BY <4>1, <3>2, <1>2
      <4>3. QED BY <4>2, <3>1
    <3>5. QED BY <3>1, <3>2, <3>3, <3>4, <1>4
  <2>3. Closings(new, t) = {} => Closings(ms, t) = {}
    BY <1>2, <1>7
  <2>4. Pushes(ms, t) = {} => Pushes(new, t) = {}
    BY <1>1
  <2>5. Closings(new, t) = {} => Pushes(new, t) = {} /\ has = Unseen
    BY <2>3, <2>4, <1>7 DEF CloseFollows
  <2>6. QED BY <2>1, <2>2, <2>5 DEF CloseFollows
<1>8. QED BY <1>6, <1>7 DEF new

\* What is heard of another tab, or a focus, changes nothing for the tab.
LEMMA OtherHeard ==
  ASSUME NEW ms \in Seq(SentMessages), ms # <<>>, NEW t, 1 \notin Closings(ms, t), NEW has, NEW gone, NEW p,
         1 \in Pushes(ms, t) => Pushes(Tail(ms), t) # {} \/ p = 0
  PROVE  /\ \A said, s, r, what, n :
              OpenTab(ms, t, has, gone, said, s, r, p, what, n) => OpenTab(Tail(ms), t, has, gone, said, s, r, p, what, n)
         /\ ClosedTab(ms, t, has, gone, p) => ClosedTab(Tail(ms), t, has, gone, p)
<1>1. ASSUME NEW said, NEW s, NEW r, NEW what, NEW n, OpenTab(ms, t, has, gone, said, s, r, p, what, n)
      PROVE  OpenTab(Tail(ms), t, has, gone, said, s, r, p, what, n)
  <2>1. AtMost(Tail(ms), t, has, gone, n) /\ GoUp(Tail(ms), t, has, gone) /\ StaysAbove(Tail(ms), t, has, gone, s, r)
    BY <1>1, OrderStays DEF OpenTab
  <2>2. Closings(Tail(ms), t) = {}
    BY <1>1, FirstHeard DEF OpenTab
  <2>3. p # 0 => s = p /\ LastIs(Tail(ms), t, has, said, p, what)
    BY <1>1, LastStays, Zenon DEF OpenTab
  <2>4. QED BY <2>1, <2>2, <2>3 DEF OpenTab
<1>2. ASSUME ClosedTab(ms, t, has, gone, p) PROVE ClosedTab(Tail(ms), t, has, gone, p)
  <2>1. p # 0 => GoUp(Tail(ms), t, has, gone)
    BY <1>2, OrderStays DEF ClosedTab
  <2>2. p # 0 => CloseFollows(Tail(ms), t, has, p)
    BY <1>2, LastStays, Zenon DEF ClosedTab
  <2>3. QED BY <2>1, <2>2 DEF ClosedTab
<1>3. QED BY <1>1, <1>2

\* The close of a tab is heard: it is of what the server shows, and the tab is not shown
\* again.
LEMMA CloseHeard ==
  ASSUME NEW ms \in Seq(SentMessages), ms # <<>>, NEW t, 1 \in Closings(ms, t), NEW has, NEW gone, NEW p,
         p # 0, ClosedTab(ms, t, has, gone, p)
  PROVE  /\ has # Unseen /\ has.session = ms[1].session
         /\ \A retired : ClosedTab(Tail(ms), t, Unseen, retired, p)
<1>1. /\ ms[1].session = p
      /\ \A i \in Pushes(ms, t) : i < 1
      /\ \A j \in Closings(ms, t) : j = 1
      /\ Pushes(ms, t) = {} => has # Unseen /\ has.session = p
  BY DEF ClosedTab, CloseFollows
<1>2. \A i \in Pushes(ms, t) : i \in 1..Len(ms)
  BY DEF Pushes
<1>3. Pushes(ms, t) = {}
  <2>1. \A i \in 1..Len(ms) : ~(i < 1)
    OBVIOUS
  <2>2. QED BY <2>1, <1>1, <1>2
<1>4. Pushes(Tail(ms), t) = {}
  BY <1>3, FirstHeard
<1>5. Closings(Tail(ms), t) = {}
  <2>1. \A i \in Closings(Tail(ms), t) : 1 < i + 1 /\ i \in Nat /\ i + 1 = 1
    BY <1>1, FirstHeard
  <2>2. QED BY <2>1
<1>6. ASSUME NEW retired PROVE ClosedTab(Tail(ms), t, Unseen, retired, p)
  BY <1>4, <1>5 DEF ClosedTab, GoUp, CloseFollows
<1>7. QED BY <1>1, <1>3, <1>6

\* A snapshot that the server takes is what it shows now; the session that it replaced
\* is retired, and is below all that follow.
LEMMA SnapshotHeard ==
  ASSUME NEW ms \in Seq(SentMessages), ms # <<>>, NEW t, 1 \in Pushes(ms, t),
         NEW has \in Holdings, NEW gone \in SUBSET Nat, NEW new \in Holdings, new # Unseen,
         new.session = ms[1].session, new.rev = ms[1].rev, NEW retired \in SUBSET Nat,
         \A x \in retired : x \in gone \/ (has # Unseen /\ x = has.session /\ x # ms[1].session /\ ms[1].session # 0),
         GoUp(ms, t, has, gone)
  PROVE  /\ GoUp(Tail(ms), t, new, retired)
         /\ \A s, r \in Nat : StaysAbove(ms, t, has, gone, s, r) => StaysAbove(Tail(ms), t, new, retired, s, r)
         /\ \A n : AtMost(ms, t, has, gone, n) => AtMost(Tail(ms), t, new, retired, n)
         /\ \A said, p, what : LastIs(ms, t, has, said, p, what) => LastIs(Tail(ms), t, new, ms[1].what, p, what)
         /\ \A p : CloseFollows(ms, t, has, p) /\ 1 \notin Closings(ms, t) => CloseFollows(Tail(ms), t, new, p)
<1> DEFINE rest == Tail(ms)
<1> DEFINE m == ms[1]
<1>1. /\ \A i \in Pushes(rest, t) : i \in Nat /\ 1 < i + 1 /\ i + 1 \in Pushes(ms, t) /\ rest[i] = ms[i + 1]
      /\ \A i \in Pushes(ms, t) : i \in Nat /\ (i # 1 => i - 1 \in Pushes(rest, t))
  BY FirstHeard, Zenon
<1>2. \A i \in Pushes(ms, t) : ms[i].session \in Nat /\ ms[i].rev \in Nat
  <2>1. \A i \in 1..Len(ms) : ms[i] \in SentMessages
    OBVIOUS
  <2>2. \A x \in SentMessages : x.type = "push" => x.session \in Nat /\ x.rev \in Nat
    BY DEF SentMessages
  <2>3. QED BY <2>1, <2>2 DEF Pushes
<1>3. m.session \in Nat /\ m.rev \in Nat
  BY <1>2
<1>4. has # Unseen => has.session \in Nat /\ has.rev \in Nat
  BY DEF Holdings, Unseen
<1>5. MayFollow(has, gone, m.session, m.rev)
  BY DEF GoUp
<1>6. \A x \in retired : x \in gone \/ (has # Unseen /\ x = has.session /\ x < m.session /\ m.session # 0)
  BY <1>3, <1>4, <1>5 DEF MayFollow
<1>7. \A x \in retired : x \in Nat
  OBVIOUS
<1> HIDE DEF rest, m
<1>8. ASSUME NEW s \in Nat, NEW r \in Nat, MayFollow(has, gone, s, r), m.rev <= r, s # 0 => m.session <= s
      PROVE  MayFollow(new, retired, s, r)
  <2>1. new.rev <= r /\ (s # 0 => new.session <= s)
    BY <1>8 DEF m
  <2>2. ASSUME s # 0, NEW x \in retired PROVE x < s
    <3>1. CASE x \in gone
      BY <3>1, <2>2, <1>8 DEF MayFollow
    <3>2. CASE x < m.session
      BY <3>2, <2>2, <1>3, <1>7, <1>8
    <3>3. QED BY <3>1, <3>2, <2>2, <1>6
  <2>3. QED BY <2>1, <2>2 DEF MayFollow
<1>9. GoUp(rest, t, new, retired)
  <2>1. ASSUME NEW i \in Pushes(rest, t)
        PROVE  MayFollow(new, retired, rest[i].session, rest[i].rev)
    <3>1. i + 1 \in Pushes(ms, t) /\ 1 < i + 1 /\ rest[i] = ms[i + 1]
      BY <2>1, <1>1
    <3>2. MayFollow(has, gone, ms[i + 1].session, ms[i + 1].rev)
      BY <3>1 DEF GoUp
    <3>3. m.rev <= ms[i + 1].rev /\ (ms[i + 1].session # 0 => m.session <= ms[i + 1].session)
      BY <3>1 DEF GoUp, m
    <3>4. ms[i + 1].session \in Nat /\ ms[i + 1].rev \in Nat
      BY <3>1, <1>2
    <3>5. QED BY <3>1, <3>2, <3>3, <3>4, <1>8
  <2>2. GoUp(rest, t, has, gone)
    BY OrderStays DEF rest
  <2>3. QED BY <2>1, <2>2 DEF GoUp
<1>10. ASSUME NEW s \in Nat, NEW r \in Nat, StaysAbove(ms, t, has, gone, s, r)
       PROVE  StaysAbove(rest, t, new, retired, s, r)
  <2>1. StaysAbove(rest, t, has, gone, s, r)
    BY <1>10, OrderStays DEF rest
  <2>2. m.rev <= r /\ (s # 0 => m.session <= s)
    BY <1>10 DEF StaysAbove, m
  <2>3. MayFollow(new, retired, s, r)
    BY <2>2, <1>8, <1>10 DEF StaysAbove
  <2>4. QED BY <2>1, <2>3 DEF StaysAbove
<1>11. ASSUME NEW n, AtMost(ms, t, has, gone, n) PROVE AtMost(rest, t, new, retired, n)
  <2>1. AtMost(rest, t, has, gone, n)
    BY <1>11, OrderStays DEF rest
  <2>2. new.session <= n
    BY <1>11 DEF AtMost
  <2>3. \A x \in retired : x <= n
    BY <1>6, <1>11 DEF AtMost
  <2>4. QED BY <2>1, <2>2, <2>3 DEF AtMost
<1>12. ASSUME Pushes(rest, t) = {} PROVE \A j \in Pushes(ms, t) : j <= 1
  <2>1. \A j \in Pushes(ms, t) : j = 1
    BY <1>1, <1>12
  <2>2. QED BY <2>1
<1>13. ASSUME NEW said, NEW p, NEW what, LastIs(ms, t, has, said, p, what)
       PROVE  LastIs(rest, t, new, m.what, p, what)
  <2>1. CASE Pushes(rest, t) = {}
    <3>1. m.session = p /\ m.what = what
      BY <2>1, <1>12, <1>13 DEF LastIs, m
    <3>2. QED BY <3>1, <2>1 DEF LastIs, m
  <2>2. CASE Pushes(rest, t) # {}
    <3>1. LastIs(rest, t, has, said, p, what)
      BY <2>2, <1>13, LastStays, Zenon DEF rest
    <3>2. QED BY <3>1, <2>2 DEF LastIs
  <2>3. QED BY <2>1, <2>2
<1>14. ASSUME NEW p, CloseFollows(ms, t, has, p), 1 \notin Closings(ms, t)
       PROVE  CloseFollows(rest, t, new, p)
  <2>0. Closings(rest, t) # {}
    <3>1. Closings(ms, t) # {}
      BY <1>14 DEF CloseFollows
    <3>2. PICK k \in Closings(ms, t) : k # 1
      BY <3>1, <1>14
    <3>3. QED BY <3>2, FirstHeard DEF rest
  <2>1. CASE Pushes(rest, t) = {}
    <3>1. m.session = p
      BY <2>1, <1>12, <1>14 DEF CloseFollows, m
    <3>2. \A k \in Closings(rest, t) : k \in Nat /\ k + 1 \in Closings(ms, t) /\ rest[k] = ms[k + 1]
      BY FirstHeard, Zenon DEF rest
    <3>3. ASSUME NEW k \in Closings(rest, t)
          PROVE  rest[k].session = p /\ \A j \in Closings(rest, t) : j = k
      <4>1. ms[k + 1].session = p /\ \A j \in Closings(ms, t) : j = k + 1
        BY <3>2, <1>14 DEF CloseFollows
      <4>2. \A j \in Closings(rest, t) : j \in Nat /\ k \in Nat /\ j + 1 = k + 1
        BY <4>1, <3>2
      <4>3. \A j \in Closings(rest, t) : j = k
        BY <4>2
      <4>4. QED BY <4>1, <4>3, <3>2
    <3>4. QED BY <3>1, <3>3, <2>0, <2>1 DEF CloseFollows, m
  <2>2. CASE Pushes(rest, t) # {}
    <3>1. CloseFollows(rest, t, has, p)
      BY <2>2, <1>14, LastStays, Zenon DEF rest
    <3>2. QED BY <3>1, <2>0, <2>2 DEF CloseFollows
  <2>3. QED BY <2>1, <2>2
<1>15. QED BY <1>9, <1>10, <1>11, <1>13, <1>14 DEF rest, m

\* The same, of an open tab and of a closed one.
LEMMA SnapshotShown ==
  ASSUME NEW ms \in Seq(SentMessages), ms # <<>>, NEW t, 1 \in Pushes(ms, t),
         NEW has \in Holdings, NEW gone \in SUBSET Nat, NEW new \in Holdings, new # Unseen,
         new.session = ms[1].session, new.rev = ms[1].rev, NEW retired \in SUBSET Nat,
         \A x \in retired : x \in gone \/ (has # Unseen /\ x = has.session /\ x # ms[1].session /\ ms[1].session # 0)
  PROVE  /\ \A said, p, what, n : \A s, r \in Nat :
              OpenTab(ms, t, has, gone, said, s, r, p, what, n)
              => OpenTab(Tail(ms), t, new, retired, ms[1].what, s, r, p, what, n)
         /\ \A p : ClosedTab(ms, t, has, gone, p) => ClosedTab(Tail(ms), t, new, retired, p)
<1>1. 1 \notin Closings(ms, t)
  BY DEF Pushes, Closings
<1>2. ASSUME NEW said, NEW p, NEW what, NEW n, NEW s \in Nat, NEW r \in Nat,
             OpenTab(ms, t, has, gone, said, s, r, p, what, n)
      PROVE  OpenTab(Tail(ms), t, new, retired, ms[1].what, s, r, p, what, n)
  <2>1. GoUp(ms, t, has, gone)
    BY <1>2 DEF OpenTab
  <2>2. GoUp(Tail(ms), t, new, retired)
    BY <2>1, SnapshotHeard
  <2>3. StaysAbove(Tail(ms), t, new, retired, s, r)
    BY <2>1, <1>2, SnapshotHeard, Zenon DEF OpenTab
  <2>4. AtMost(Tail(ms), t, new, retired, n)
    BY <2>1, <1>2, SnapshotHeard, Zenon DEF OpenTab
  <2>5. p # 0 => s = p /\ LastIs(Tail(ms), t, new, ms[1].what, p, what)
    BY <2>1, <1>2, SnapshotHeard, Zenon DEF OpenTab
  <2>6. Closings(Tail(ms), t) = {}
    BY <1>2, FirstHeard DEF OpenTab
  <2>7. QED BY <2>2, <2>3, <2>4, <2>5, <2>6 DEF OpenTab
<1>3. ASSUME NEW p, ClosedTab(ms, t, has, gone, p) PROVE ClosedTab(Tail(ms), t, new, retired, p)
  <2>1. SUFFICES ASSUME p # 0 PROVE GoUp(Tail(ms), t, new, retired) /\ CloseFollows(Tail(ms), t, new, p)
    BY DEF ClosedTab
  <2>2. GoUp(ms, t, has, gone) /\ CloseFollows(ms, t, has, p)
    BY <2>1, <1>3 DEF ClosedTab
  <2>3. QED BY <2>2, <1>1, SnapshotHeard
<1>4. QED BY <1>2, <1>3

\* A snapshot above all that was retired finds room for one more to be retired.
LEMMA RoomToRetire ==
  ASSUME NEW s \in Nat, s <= MaxGenerations, NEW gone \in SUBSET Nat, \A x \in gone : x < s
  PROVE  s \notin gone /\ Cardinality(gone) < MaxGenerations + 1 /\ Cardinality(gone) \in Nat
<1>1. gone \subseteq 0..(s - 1)
  OBVIOUS
<1>2. IsFiniteSet(0..(s - 1)) /\ Cardinality(0..(s - 1)) = s
  <2>1. s - 1 \in Int /\ 0 \in Int
    OBVIOUS
  <2>2. CASE s = 0
    BY <2>1, <2>2, FS_Interval
  <2>3. CASE s # 0
    BY <2>1, <2>3, FS_Interval
  <2>4. QED BY <2>2, <2>3
<1>3. IsFiniteSet(gone) /\ Cardinality(gone) <= s
  BY <1>1, <1>2, FS_Subset, Zenon
<1>4. Cardinality(gone) \in Nat
  BY <1>3, FS_CardinalityType
<1>5. s \notin gone
  OBVIOUS
<1>6. QED BY <1>3, <1>4, <1>5, PushAssumption

\* The server counts what it retired as the worker does.
LEMMA SameCardinality ==
  ASSUME NEW S
  PROVE  Cache!Cardinality(S) = Cardinality(S)
BY DEF Cache!Cardinality, Cardinality

\* What the server may retire when it takes a snapshot or hears of a close.
LEMMA RetiresNoOther ==
  ASSUME NEW R \in SUBSET Nat, NEW s \in Nat
  PROVE  Cache!retireSession(R, s) \subseteq R \cup {s} /\ Cache!retireSession(R, s) \in SUBSET Nat
BY DEF Cache!retireSession

\* The server takes the snapshot that it hears.
LEMMA PushTaken ==
  ASSUME SnapshotsSound, messages # <<>>, link = "connected", UNCHANGED <<workerVars, changes, links, restarts, pushed>>,
         messages' = Tail(messages), messages[1].type = "push",
         Cache!ingest(messages[1].tab, messages[1].session, messages[1].rev),
         content' = [content EXCEPT ![messages[1].tab] = messages[1].what]
  PROVE  SnapshotsSound'
<1> DEFINE m == messages[1]
<1> DEFINE u == m.tab
<1>1. WorkerTyped /\ ClosedForGood /\ UnlinkedIsEmpty /\ \A t \in OpenedTabs : TabSound(t)
  BY DEF SnapshotsSound
<1>2. m \in SentMessages /\ messages' \in Seq(SentMessages)
  BY <1>1, FirstHeard DEF WorkerTyped
<1>3. u \in OpenedTabs /\ m.session \in Nat /\ m.rev \in Nat /\ m.what \in Nat \X Nat
  BY <1>2 DEF SentMessages
<1> DEFINE now == [session |-> m.session, rev |-> m.rev]
<1>4. now \in Holdings /\ now # Unseen /\ now.session = m.session /\ now.rev = m.rev
  BY <1>3, Zenon DEF Holdings, Unseen
<1>5. served' = [served EXCEPT ![u] = now] /\ UNCHANGED attachedTo
  BY DEF Cache!ingest
<1>6. /\ \A t \in OpenedTabs \ {u} : retiredSessions'[t] = retiredSessions[t]
      /\ retiredSessions' \in [OpenedTabs -> SUBSET Nat]
      /\ \A x \in retiredSessions'[u] :
           x \in retiredSessions[u] \/ (served[u] # Unseen /\ x = served[u].session /\ x # m.session /\ m.session # 0)
  <2>1. CASE UNCHANGED retiredSessions
    BY <2>1, <1>1, <1>3 DEF WorkerTyped
  <2>2. CASE Cache!IngestReplace(u, m.session)
    <3> DEFINE s == served[u].session
    <3>1. /\ served[u] # Unseen /\ s # m.session /\ m.session # 0
          /\ retiredSessions' = [retiredSessions EXCEPT ![u] = Cache!retireSession(retiredSessions[u], s)]
      BY <2>2 DEF Cache!IngestReplace, Cache!Projected, NoTabSession
    <3>2. s \in Nat
      BY <3>1, <1>1, <1>3 DEF WorkerTyped, Holdings
    <3> HIDE DEF s
    <3>4. retiredSessions \in [OpenedTabs -> SUBSET Nat]
      BY <1>1 DEF WorkerTyped
    <3>3. Cache!retireSession(retiredSessions[u], s) \subseteq retiredSessions[u] \cup {s}
      BY <3>2, <3>4, <1>3, RetiresNoOther
    <3>5. retiredSessions' \in [OpenedTabs -> SUBSET Nat]
      BY <3>1, <3>2, <3>3, <3>4, <1>3
    <3>6. retiredSessions'[u] \subseteq retiredSessions[u] \cup {s}
      BY <3>1, <3>3, <3>4, <1>3
    <3>7. \A t \in OpenedTabs \ {u} : retiredSessions'[t] = retiredSessions[t]
      BY <3>1, <3>4
    <3>8. QED BY <3>1, <3>5, <3>6, <3>7 DEF s
  <2>3. QED BY <2>1, <2>2 DEF Cache!ingest, Cache!IngestFirst, Cache!IngestSame
<1>7. WorkerTyped'
  <2>1. served' \in [OpenedTabs -> Holdings]
    BY <1>1, <1>3, <1>4, <1>5 DEF WorkerTyped
  <2>2. content' \in [OpenedTabs -> Nat \X Nat]
    BY <1>1, <1>3 DEF WorkerTyped
  <2>3. QED BY <2>1, <2>2, <1>1, <1>2, <1>6, Zenon DEF WorkerTyped, workerVars
<1>8. ClosedForGood'
  BY <1>1 DEF ClosedForGood, workerVars
<1>9. UnlinkedIsEmpty'
  BY <1>1, <1>5 DEF UnlinkedIsEmpty, workerVars
<1>10. messages \in Seq(SentMessages)
  BY <1>1 DEF WorkerTyped
<1>11. ASSUME NEW t \in OpenedTabs PROVE TabSound(t)'
  <2>1. CASE t = u
    <3>1. 1 \in Pushes(messages, t)
      BY <2>1, <1>10, FirstHeard DEF Pushes
    <3>2. served'[t] = now /\ content'[t] = m.what
      BY <2>1, <1>1, <1>3, <1>5 DEF WorkerTyped
    <3>3. /\ served[t] \in Holdings /\ retiredSessions[t] \in SUBSET Nat /\ sessionOf[t] \in Nat /\ revOf[t] \in Nat
          /\ retiredSessions'[t] \in SUBSET Nat
      BY <1>1, <1>6, <1>11, Zenon DEF WorkerTyped
    <3>4. \A x \in retiredSessions'[t] :
            x \in retiredSessions[t] \/ (served[t] # Unseen /\ x = served[t].session /\ x # m.session /\ m.session # 0)
      BY <2>1, <1>6
    <3> HIDE DEF now
    <3>5. /\ \A said, p, what, n : \A s, r \in Nat :
               OpenTab(messages, t, served[t], retiredSessions[t], said, s, r, p, what, n)
               => OpenTab(Tail(messages), t, now, retiredSessions'[t], m.what, s, r, p, what, n)
          /\ \A p : ClosedTab(messages, t, served[t], retiredSessions[t], p)
               => ClosedTab(Tail(messages), t, now, retiredSessions'[t], p)
      BY <3>1, <3>3, <3>4, <1>4, <1>10, SnapshotShown, Zenon
    <3>6. QED BY <3>2, <3>3, <3>5, <1>1 DEF TabSound, workerVars
  <2>2. CASE t # u
    <3>1. 1 \notin Pushes(messages, t) /\ 1 \notin Closings(messages, t)
      BY <2>2 DEF Pushes, Closings
    <3>2. served'[t] = served[t] /\ retiredSessions'[t] = retiredSessions[t] /\ content'[t] = content[t]
      BY <2>2, <1>1, <1>5, <1>6, <1>11, Zenon DEF WorkerTyped
    <3> HIDE DEF m
    <3>3. /\ \A said, s, r, what, n :
               OpenTab(messages, t, served[t], retiredSessions[t], said, s, r, pushed[t], what, n)
               => OpenTab(Tail(messages), t, served[t], retiredSessions[t], said, s, r, pushed[t], what, n)
          /\ ClosedTab(messages, t, served[t], retiredSessions[t], pushed[t])
             => ClosedTab(Tail(messages), t, served[t], retiredSessions[t], pushed[t])
      BY <3>1, <1>10, OtherHeard
    <3>4. QED BY <3>2, <3>3, <1>1 DEF TabSound, workerVars
  <2>3. QED BY <2>1, <2>2
<1>12. QED BY <1>7, <1>8, <1>9, <1>11 DEF SnapshotsSound

\* The server hears that a tab is closed.
LEMMA CloseTaken ==
  ASSUME SnapshotsSound, messages # <<>>, link = "connected", UNCHANGED <<workerVars, changes, links, restarts, pushed>>,
         messages' = Tail(messages), messages[1].type = "closed",
         Cache!clearTab(messages[1].tab, messages[1].session), UNCHANGED content
  PROVE  SnapshotsSound'
<1> DEFINE m == messages[1]
<1> DEFINE u == m.tab
<1>1. WorkerTyped /\ ClosedForGood /\ UnlinkedIsEmpty /\ \A t \in OpenedTabs : TabSound(t)
  BY DEF SnapshotsSound
<1>2. m \in SentMessages /\ messages' \in Seq(SentMessages) /\ messages \in Seq(SentMessages)
  BY <1>1, FirstHeard DEF WorkerTyped
<1>3. u \in OpenedTabs /\ m.session \in Nat
  BY <1>2 DEF SentMessages
<1>4. /\ served' = IF Cache!preservesReplacement(u, m.session) THEN served ELSE [served EXCEPT ![u] = Unseen]
      /\ retiredSessions' = [retiredSessions EXCEPT ![u] = Cache!RetiredOnClose(u, m.session)]
      /\ UNCHANGED attachedTo
  BY DEF Cache!clearTab
<1>5. served \in [OpenedTabs -> Holdings] /\ retiredSessions \in [OpenedTabs -> SUBSET Nat]
  BY <1>1, Zenon DEF WorkerTyped
<1>6. Cache!RetiredOnClose(u, m.session) \in SUBSET Nat
  <2> DEFINE R == retiredSessions[u]
  <2> DEFINE shownSession == served[u].session
  <2>1. R \in SUBSET Nat
    BY <1>3, <1>5
  <2>2. served[u] # Unseen => shownSession \in Nat
    BY <1>3, <1>5 DEF Holdings
  <2>3. served[u] # Unseen => Cache!retireSession(R, shownSession) \in SUBSET Nat
    <3> HIDE DEF R, shownSession
    <3>1. QED BY <2>1, <2>2, RetiresNoOther
  <2>4. ASSUME NEW S \in SUBSET Nat PROVE Cache!retireSession(S, m.session) \in SUBSET Nat
    <3> HIDE DEF m
    <3>1. QED BY <1>3, RetiresNoOther
  <2>5. PICK S \in SUBSET Nat : Cache!RetiredOnClose(u, m.session) = Cache!retireSession(S, m.session)
    BY <2>1, <2>3, Zenon DEF Cache!RetiredOnClose, Cache!Projected
  <2>6. QED BY <2>4, <2>5
<1>7. served' \in [OpenedTabs -> Holdings] /\ retiredSessions' \in [OpenedTabs -> SUBSET Nat]
  <2>1. Unseen \in Holdings
    BY DEF Holdings
  <2>2. QED BY <2>1, <1>3, <1>4, <1>5, <1>6
<1>8. WorkerTyped'
  BY <1>1, <1>2, <1>7, Zenon DEF WorkerTyped, workerVars
<1>9. ClosedForGood' /\ UnlinkedIsEmpty'
  BY <1>1, <1>4 DEF ClosedForGood, UnlinkedIsEmpty, workerVars
<1>10. ASSUME NEW t \in OpenedTabs PROVE TabSound(t)'
  <2>1. CASE t = u
    <3>1. 1 \in Closings(messages, t)
      BY <2>1, <1>2, FirstHeard DEF Closings
    <3>2. t \notin openTabs /\ ClosedTab(messages, t, served[t], retiredSessions[t], pushed[t])
      BY <3>1, <1>1, Zenon DEF TabSound, OpenTab
    <3>3. CASE pushed[t] = 0
      BY <3>2, <3>3 DEF TabSound, ClosedTab, workerVars
    <3>4. CASE pushed[t] # 0
      <4>1. served[t] # Unseen /\ served[t].session = m.session
        BY <3>1, <3>2, <3>4, <1>2, CloseHeard
      <4>2. ~Cache!preservesReplacement(u, m.session)
        BY <4>1, <2>1 DEF Cache!preservesReplacement, Cache!CurrentIs, Cache!Projected
      <4>3. served'[t] = Unseen
        BY <4>2, <2>1, <1>3, <1>4, <1>5
      <4>4. ClosedTab(Tail(messages), t, Unseen, retiredSessions'[t], pushed[t])
        BY <3>1, <3>2, <3>4, <1>2, CloseHeard
      <4>5. QED BY <4>3, <4>4, <3>2 DEF TabSound, workerVars
    <3>5. QED BY <3>3, <3>4
  <2>2. CASE t # u
    <3>1. 1 \notin Pushes(messages, t) /\ 1 \notin Closings(messages, t)
      BY <2>2 DEF Pushes, Closings
    <3>2. served'[t] = served[t] /\ retiredSessions'[t] = retiredSessions[t]
      BY <2>2, <1>4, <1>5, <1>10
    <3>3. QED BY <3>1, <3>2, <1>1, <1>2, OtherHeard DEF TabSound, workerVars
  <2>3. QED BY <2>1, <2>2
<1>11. QED BY <1>8, <1>9, <1>10 DEF SnapshotsSound

\* The server hears what changes none of its snapshots: a focus, or what it does not take.
\* It does not refuse the last snapshot of a tab that has a session, or a close of one.
LEMMA NothingTaken ==
  ASSUME SnapshotsSound, messages # <<>>, link = "connected", UNCHANGED <<workerVars, changes, links, restarts, pushed>>,
         messages' = Tail(messages), messages[1].type = "focused" \/ ~Takes(messages[1]),
         UNCHANGED <<content, served, retiredSessions, attachedTo>>
  PROVE  SnapshotsSound'
<1> DEFINE m == messages[1]
<1>1. WorkerTyped /\ ClosedForGood /\ UnlinkedIsEmpty /\ \A t \in OpenedTabs : TabSound(t)
  BY DEF SnapshotsSound
<1>2. m \in SentMessages /\ messages' \in Seq(SentMessages) /\ messages \in Seq(SentMessages)
  BY <1>1, FirstHeard DEF WorkerTyped
<1>3. WorkerTyped'
  BY <1>1, <1>2, Zenon DEF WorkerTyped, workerVars
<1>4. ClosedForGood' /\ UnlinkedIsEmpty'
  BY <1>1 DEF ClosedForGood, UnlinkedIsEmpty, workerVars
<1>5. ASSUME NEW t \in OpenedTabs PROVE TabSound(t)'
  <2> DEFINE p == pushed[t]
  <2> DEFINE has == served[t]
  <2> DEFINE gone == retiredSessions[t]
  <2>1. CASE p = 0 /\ t \notin openTabs
    BY <2>1 DEF TabSound, ClosedTab, workerVars
  <2>2. CASE p # 0 \/ t \in openTabs
    <3>1. 1 \notin Closings(messages, t)
      <4>1. SUFFICES ASSUME 1 \in Closings(messages, t) PROVE FALSE
        OBVIOUS
      <4>2. m.type = "closed" /\ m.tab = t
        BY <4>1 DEF Closings
      <4>3. t \notin openTabs /\ p # 0 /\ ClosedTab(messages, t, has, gone, p)
        BY <4>1, <2>2, <1>1, Zenon DEF TabSound, OpenTab
      <4>4. has # Unseen /\ has.session = m.session
        BY <4>1, <4>3, <1>2, CloseHeard
      <4>5. Takes(m)
        BY <4>2, <4>4 DEF Takes, Cache!CurrentIs, Cache!Projected
      <4>6. QED BY <4>2, <4>5
    <3>2. 1 \in Pushes(messages, t) => Pushes(Tail(messages), t) # {} \/ p = 0
      <4>1. SUFFICES ASSUME 1 \in Pushes(messages, t), Pushes(Tail(messages), t) = {}, p # 0 PROVE FALSE
        OBVIOUS
      <4>2. m.type = "push" /\ m.tab = t
        BY <4>1 DEF Pushes
      <4>3. GoUp(messages, t, has, gone) /\ m.session = p
        <5>1. \A j \in Pushes(messages, t) : j = 1
          BY <4>1, <1>2, FirstHeard
        <5>2. \A j \in Pushes(messages, t) : j <= 1
          BY <5>1
        <5>3. CASE t \in openTabs
          BY <5>2, <5>3, <4>1, <1>1 DEF TabSound, OpenTab, LastIs
        <5>4. CASE t \notin openTabs
          BY <5>2, <5>4, <4>1, <1>1, Zenon DEF TabSound, ClosedTab, CloseFollows
        <5>5. QED BY <5>3, <5>4
      <4>4. MayFollow(has, gone, p, m.rev)
        BY <4>1, <4>3 DEF GoUp
      <4>5. p \in Nat /\ p <= MaxGenerations
        BY <1>1, <1>5, PushAssumption DEF WorkerTyped, ClosedForGood
      <4>6. p \notin gone /\ Cardinality(gone) < MaxGenerations + 1 /\ Cardinality(gone) \in Nat
        <5>1. gone \in SUBSET Nat /\ \A x \in gone : x < p
          BY <4>1, <4>4, <1>1 DEF WorkerTyped, MayFollow
        <5> HIDE DEF p, gone
        <5>2. QED BY <5>1, <4>5, RoomToRetire
      <4>7. Cache!Admissible(m.tab, m.session)
        <5>1. ~Cache!Full(t)
          BY <4>6, SameCardinality, PushAssumption DEF Cache!Full
        <5>2. QED BY <5>1, <4>1, <4>2, <4>3, <4>6 DEF Cache!Admissible, NoTabSession
      <4>8. has # Unseen => has.session \in Cache!retireSession(gone, has.session)
        <5> DEFINE x == has.session
        <5> HIDE DEF gone, x
        <5>1. x \in Cache!retireSession(gone, x)
          BY <4>6, SameCardinality DEF Cache!retireSession
        <5>2. QED BY <5>1 DEF x
      <4>9. has # Unseen /\ has.session = p => m.rev >= has.rev
        <5>1. has # Unseen => has.rev <= m.rev
          BY <4>4 DEF MayFollow
        <5>2. QED BY <5>1
      <4>10. Takes(m)
        BY <4>1, <4>2, <4>3, <4>7, <4>8, <4>9 DEF Takes, Cache!Projected, Cache!CurrentIs, NoTabSession
      <4>11. QED BY <4>2, <4>10
    <3>3. QED BY <3>1, <3>2, <1>1, <1>2, OtherHeard DEF TabSound, workerVars
  <2>3. QED BY <2>1, <2>2
<1>6. QED BY <1>3, <1>4, <1>5 DEF SnapshotsSound

\* The server takes the first message: what it is, and whether the tab is
\* closed for good, say which of the lemmas above applies.
LEMMA ServerStep ==
  ASSUME SnapshotsSound, ServerReceives
  PROVE  SnapshotsSound'
<1>1. /\ link = "connected" /\ messages # <<>> /\ messages' = Tail(messages)
      /\ UNCHANGED <<workerVars, changes, links, restarts, pushed>>
  BY DEF ServerReceives
<1> DEFINE m == messages[1]
<1>2. CASE /\ m.type = "push" /\ Cache!ingest(m.tab, m.session, m.rev)
           /\ content' = [content EXCEPT ![m.tab] = m.what]
  BY <1>1, <1>2, PushTaken
<1>3. CASE m.type = "closed" /\ Cache!clearTab(m.tab, m.session) /\ UNCHANGED content
  BY <1>1, <1>3, CloseTaken
<1>4. CASE m.type = "focused" /\ Cache!setActiveTab(m.tab, m.session) /\ UNCHANGED content
  <2>1. UNCHANGED <<served, retiredSessions, attachedTo>>
    BY <1>4 DEF Cache!setActiveTab
  <2>2. QED BY <2>1, <1>1, <1>4, NothingTaken
<1>5. CASE ~Takes(m) /\ UNCHANGED <<content, serverVars>>
  BY <1>1, <1>5, NothingTaken DEF serverVars
<1>6. QED BY <1>2, <1>3, <1>4, <1>5 DEF ServerReceives

\* A tab of which nothing is under way or shown, and that was not shown.
LEMMA EmptyTab ==
  ASSUME NEW t, NEW said, NEW s \in Nat, NEW r \in Nat, NEW what, NEW n
  PROVE  /\ Pushes(<<>>, t) = {} /\ Closings(<<>>, t) = {}
         /\ OpenTab(<<>>, t, Unseen, {}, said, s, r, 0, what, n)
         /\ \A has, gone : ClosedTab(<<>>, t, has, gone, 0)
<1>1. Pushes(<<>>, t) = {} /\ Closings(<<>>, t) = {}
  BY DEF Pushes, Closings
<1>2. OpenTab(<<>>, t, Unseen, {}, said, s, r, 0, what, n)
  BY <1>1 DEF OpenTab, AtMost, GoUp, StaysAbove, MayFollow
<1>3. QED BY <1>1, <1>2 DEF ClosedTab

\* At first nothing is under way.
LEMMA SnapshotInitIsSound ==
  ASSUME SnapshotInit
  PROVE  SnapshotsSound
<1>1. /\ attachedTo = 0 /\ served = [t \in OpenedTabs |-> Unseen] /\ retiredSessions = [t \in OpenedTabs |-> {}]
  BY DEF SnapshotInit, Cache!Init
<1>2. WorkerTyped
  <2>1. served \in [OpenedTabs -> Holdings] /\ retiredSessions \in [OpenedTabs -> SUBSET Nat]
    BY <1>1 DEF Holdings
  <2>2. QED BY <2>1, PushAssumption DEF SnapshotInit, WorkerTyped, NoTabSession
<1>3. ClosedForGood
  BY DEF SnapshotInit, ClosedForGood, NoTabSession
<1>4. UnlinkedIsEmpty
  BY <1>1 DEF SnapshotInit, UnlinkedIsEmpty, NoTabSession
<1>5. ASSUME NEW t \in OpenedTabs PROVE TabSound(t)
  <2>1. /\ messages = <<>> /\ served[t] = Unseen /\ retiredSessions[t] = {} /\ pushed[t] = 0
        /\ sessionOf[t] \in Nat /\ revOf[t] \in Nat
    BY <1>1, <1>2 DEF SnapshotInit, NoTabSession, WorkerTyped
  <2>2. QED BY <2>1, EmptyTab DEF TabSound
<1>6. QED BY <1>2, <1>3, <1>4, <1>5 DEF SnapshotsSound

\* The link ends, whatever else the worker forgets.
LEMMA UnlinkStep ==
  ASSUME SnapshotsSound, Unlink, link' \in {"none", "dialling"},
         UNCHANGED <<openTabs, sessionOf, generations, changes>>,
         tasks' \in {tasks, <<>>}, pairedTabs' \in Seq(OpenedTabs), lastFocused' \subseteq OpenedTabs,
         selected' \in [OpenedTabs -> Nat], revOf' \in [OpenedTabs -> Nat], journalOf' \in [OpenedTabs -> Nat]
  PROVE  SnapshotsSound'
<1>1. WorkerTyped /\ ClosedForGood /\ UnlinkedIsEmpty
  BY DEF SnapshotsSound
<1>2. messages' = <<>> /\ pushed' = [t \in OpenedTabs |-> 0] /\ content' = [t \in OpenedTabs |-> <<0, 0>>]
  BY DEF Unlink, NoTabSession
<1>3. /\ attachedTo' = 0 /\ served' \in [OpenedTabs -> {Unseen}] /\ retiredSessions' \in [OpenedTabs -> {{}}]
  <2>1. CASE attachedTo = 0
    <3>1. UNCHANGED serverVars /\ link # "connected"
      BY <2>1, <1>1 DEF Unlink, UnlinkedIsEmpty
    <3>2. QED BY <3>1, <2>1, <1>1 DEF serverVars, UnlinkedIsEmpty, WorkerTyped
  <2>2. CASE attachedTo # 0
    BY <2>2 DEF Unlink, Cache!dropSocket, Cache!markUnpaired
  <2>3. QED BY <2>1, <2>2
<1>4. WorkerTyped'
  <2>1. served' \in [OpenedTabs -> Holdings] /\ retiredSessions' \in [OpenedTabs -> SUBSET Nat]
    BY <1>3 DEF Holdings
  <2>2. tasks' \in Seq(Tasks)
    <3>1. tasks \in Seq(Tasks)
      BY <1>1 DEF WorkerTyped
    <3>2. tasks' = tasks \/ tasks' = <<>>
      OBVIOUS
    <3>3. <<>> \in Seq(Tasks)
      OBVIOUS
    <3>4. QED BY <3>1, <3>2, <3>3, Zenon
  <2>3. QED BY <2>1, <2>2, <1>1, <1>2 DEF WorkerTyped
<1>5. ClosedForGood'
  <2>1. \A i \in 1..Len(tasks') : tasks'[i].type = "remove" => tasks'[i].tab \notin openTabs
    <3>1. CASE tasks' = tasks
      BY <3>1, <1>1 DEF ClosedForGood
    <3>2. CASE tasks' = <<>>
      BY <3>2
    <3>3. QED BY <3>1, <3>2
  <2>2. generations \in Nat
    BY <1>1 DEF WorkerTyped
  <2>3. QED BY <2>1, <2>2, <1>1, <1>2 DEF ClosedForGood
<1>6. \A t \in OpenedTabs : pushed'[t] = 0 /\ served'[t] = Unseen /\ retiredSessions'[t] = {}
  BY <1>2, <1>3
<1>7. UnlinkedIsEmpty'
  BY <1>2, <1>3, <1>6 DEF UnlinkedIsEmpty
<1>8. \A t \in OpenedTabs : TabSound(t)'
  <2>1. TAKE t \in OpenedTabs
  <2>2. sessionOf'[t] \in Nat /\ revOf'[t] \in Nat
    BY <2>1, <1>4 DEF WorkerTyped
  <2>3. /\ messages' = <<>> /\ pushed'[t] = 0 /\ served'[t] = Unseen /\ retiredSessions'[t] = {}
    BY <2>1, <1>2, <1>6
  <2>4. OpenTab(<<>>, t, Unseen, {}, content'[t], sessionOf'[t], revOf'[t], 0, <<selected'[t], journalOf'[t]>>, generations')
    BY <2>2, EmptyTab, Zenon
  <2>5. ClosedTab(<<>>, t, Unseen, {}, 0)
    BY DEF ClosedTab
  <2>6. QED BY <2>3, <2>4, <2>5 DEF TabSound
<1>9. QED BY <1>4, <1>5, <1>7, <1>8 DEF SnapshotsSound

\* The socket is open, and the server holds nothing yet.
LEMMA OpenedStep ==
  ASSUME SnapshotsSound, Opened
  PROVE  SnapshotsSound'
<1>1. WorkerTyped /\ ClosedForGood /\ UnlinkedIsEmpty
  BY DEF SnapshotsSound
<1>2. /\ link = "dialling" /\ link' = "connected" /\ attachedTo' = 1
      /\ served' = [t \in OpenedTabs |-> Unseen] /\ retiredSessions' = [t \in OpenedTabs |-> {}]
      /\ UNCHANGED <<openTabs, sessionOf, generations, selected, journalOf, tasks, revOf, pairedTabs, lastFocused, messages, changes,
                 content, pushed>>
  BY DEF Opened, Cache!attach, Cache!markUnpaired
<1>3. WorkerTyped'
  <2>1. served' \in [OpenedTabs -> Holdings] /\ retiredSessions' \in [OpenedTabs -> SUBSET Nat]
    BY <1>2 DEF Holdings
  <2>2. QED BY <2>1, <1>1, <1>2, Zenon DEF WorkerTyped
<1>4. ClosedForGood'
  BY <1>1, <1>2 DEF ClosedForGood
<1>5. UnlinkedIsEmpty'
  BY <1>2 DEF UnlinkedIsEmpty
<1>6. messages = <<>> /\ \A t \in OpenedTabs : pushed[t] = 0
  BY <1>1, <1>2 DEF UnlinkedIsEmpty
<1>7. \A t \in OpenedTabs : TabSound(t)'
  <2>1. TAKE t \in OpenedTabs
  <2>2. sessionOf'[t] \in Nat /\ revOf'[t] \in Nat
    BY <2>1, <1>3 DEF WorkerTyped
  <2>3. /\ messages' = <<>> /\ pushed'[t] = 0 /\ served'[t] = Unseen /\ retiredSessions'[t] = {}
    BY <2>1, <1>2, <1>6
  <2>4. OpenTab(<<>>, t, Unseen, {}, content'[t], sessionOf'[t], revOf'[t], 0, <<selected'[t], journalOf'[t]>>, generations')
    BY <2>2, EmptyTab, Zenon
  <2>5. ClosedTab(<<>>, t, Unseen, {}, 0)
    BY DEF ClosedTab
  <2>6. QED BY <2>3, <2>4, <2>5 DEF TabSound
<1>8. QED BY <1>3, <1>4, <1>5, <1>7 DEF SnapshotsSound

\* A task is queued.
LEMMA QueueStep ==
  ASSUME SnapshotsSound, NEW x \in Tasks, tasks' = Append(tasks, x), x.type # "remove", changes' \in Nat,
         UNCHANGED <<openTabs, sessionOf, generations, selected, journalOf, revOf, pairedTabs, lastFocused, link, messages,
                     content, pushed, served, retiredSessions, attachedTo>>
  PROVE  SnapshotsSound'
<1>1. WorkerTyped /\ ClosedForGood /\ UnlinkedIsEmpty /\ \A t \in OpenedTabs : TabSound(t)
  BY DEF SnapshotsSound
<1>2. /\ tasks' \in Seq(Tasks) /\ Len(tasks) \in Nat /\ Len(tasks') = Len(tasks) + 1
      /\ \A i \in 1..Len(tasks) : tasks'[i] = tasks[i]
      /\ tasks'[Len(tasks) + 1] = x
  BY <1>1 DEF WorkerTyped
<1>3. WorkerTyped'
  BY <1>1, <1>2, Zenon DEF WorkerTyped
<1>4. ClosedForGood'
  <2>1. ASSUME NEW i \in 1..Len(tasks'), tasks'[i].type = "remove" PROVE tasks'[i].tab \notin openTabs
    <3>1. i \in 1..Len(tasks) \/ i = Len(tasks) + 1
      BY <2>1, <1>2
    <3>2. i \in 1..Len(tasks)
      BY <3>1, <2>1, <1>2
    <3>3. QED BY <3>2, <2>1, <1>1, <1>2 DEF ClosedForGood
  <2>2. QED BY <2>1, <1>1 DEF ClosedForGood
<1>5. UnlinkedIsEmpty' /\ \A t \in OpenedTabs : TabSound(t)'
  BY <1>1 DEF UnlinkedIsEmpty, TabSound
<1>6. QED BY <1>3, <1>4, <1>5 DEF SnapshotsSound

\* A tab is given a session above all sessions so far.
LEMMA CompletedStep ==
  ASSUME SnapshotsSound, NEW u \in OpenedTabs, TabCompleted(u)
  PROVE  SnapshotsSound'
<1>1. WorkerTyped /\ ClosedForGood /\ UnlinkedIsEmpty /\ \A t \in OpenedTabs : TabSound(t)
  BY DEF SnapshotsSound
<1> DEFINE n == generations
<1>2. /\ u \in openTabs /\ sessionOf[u] = 0 /\ n < MaxGenerations /\ generations' = n + 1 /\ n \in Nat
      /\ sessionOf' = [sessionOf EXCEPT ![u] = n + 1]
      /\ UNCHANGED <<openTabs, selected, journalOf, tasks, revOf, pairedTabs, lastFocused, link, messages, changes,
                     content, pushed, served, retiredSessions, attachedTo>>
  BY <1>1 DEF TabCompleted, NoTabSession, serverVars, WorkerTyped
<1>3. WorkerTyped'
  BY <1>1, <1>2, PushAssumption DEF WorkerTyped
<1>4. ClosedForGood'
  <2>1. \A t \in OpenedTabs : sessionOf[t] \in Nat /\ pushed[t] \in Nat /\ sessionOf[t] <= n /\ pushed[t] <= n
    BY <1>1 DEF WorkerTyped, ClosedForGood
  <2>2. \A t \in OpenedTabs : sessionOf'[t] = (IF t = u THEN n + 1 ELSE sessionOf[t])
    BY <1>1, <1>2 DEF WorkerTyped
  <2> HIDE DEF n
  <2>3. \A t \in OpenedTabs : sessionOf'[t] <= n + 1 /\ pushed[t] <= n + 1
    BY <2>1, <2>2, <1>2
  <2>4. QED BY <2>2, <2>3, <1>1, <1>2 DEF ClosedForGood
<1>5. UnlinkedIsEmpty'
  BY <1>1, <1>2 DEF UnlinkedIsEmpty
<1>6. ASSUME NEW t \in OpenedTabs PROVE TabSound(t)'
  <2> DEFINE has == served[t]
  <2> DEFINE gone == retiredSessions[t]
  <2> DEFINE what == <<selected[t], journalOf[t]>>
  <2>1. CASE t \notin openTabs
    BY <2>1, <1>1, <1>2, Zenon DEF TabSound
  <2>2. CASE t \in openTabs
    <3>1. OpenTab(messages, t, has, gone, content[t], sessionOf[t], revOf[t], pushed[t], what, n)
      BY <2>2, <1>1 DEF TabSound
    <3>2. has # Unseen => has.session \in Nat
      BY <1>1, <1>6 DEF WorkerTyped, Holdings
    <3>3. \A x \in gone : x \in Nat
      BY <1>1, <1>6 DEF WorkerTyped
    <3>4. \A i \in Pushes(messages, t) : messages[i].session \in Nat
      <4>1. \A i \in 1..Len(messages) : messages[i] \in SentMessages
        <5>1. messages \in Seq(SentMessages)
          BY <1>1 DEF WorkerTyped
        <5>2. QED BY <5>1
      <4>2. \A x \in SentMessages : x.type = "push" => x.session \in Nat
        BY DEF SentMessages
      <4>3. QED BY <4>1, <4>2 DEF Pushes
    <3> HIDE DEF has, gone, what, n
    <3>5. AtMost(messages, t, has, gone, n)
      BY <3>1 DEF OpenTab
    <3>6. AtMost(messages, t, has, gone, n + 1)
      BY <3>2, <3>3, <3>4, <3>5, <1>2 DEF AtMost
    <3>7. CASE t # u
      <4>1. sessionOf'[t] = sessionOf[t]
        BY <3>7, <1>1, <1>2 DEF WorkerTyped
      <4>2. OpenTab(messages, t, has, gone, content[t], sessionOf[t], revOf[t], pushed[t], what, n + 1)
        BY <3>1, <3>6 DEF OpenTab
      <4>3. QED BY <4>1, <4>2, <2>2, <1>2 DEF TabSound, has, gone, what, n
    <3>8. CASE t = u
      <4>1. sessionOf'[t] = n + 1
        BY <3>8, <1>1, <1>2 DEF WorkerTyped
      <4>2. pushed[t] = 0
        BY <3>1, <3>8, <1>2 DEF OpenTab
      <4>3. StaysAbove(messages, t, has, gone, n + 1, revOf[t])
        <5>1. StaysAbove(messages, t, has, gone, sessionOf[t], revOf[t])
          BY <3>1 DEF OpenTab
        <5>2. \A x \in gone : x < n + 1
          BY <3>3, <3>5, <1>2 DEF AtMost
        <5>3. QED BY <5>1, <5>2, <3>6 DEF StaysAbove, MayFollow, AtMost
      <4>4. OpenTab(messages, t, has, gone, content[t], n + 1, revOf[t], pushed[t], what, n + 1)
        BY <4>2, <4>3, <3>1, <3>6 DEF OpenTab
      <4>5. QED BY <4>1, <4>4, <2>2, <1>2 DEF TabSound, has, gone, what, n
    <3>9. QED BY <3>7, <3>8
  <2>3. QED BY <2>1, <2>2
<1>7. QED BY <1>3, <1>4, <1>5, <1>6 DEF SnapshotsSound

\* A tab loses its session; what was pushed of it counts no more.
LEMMA UnauthorizedStep ==
  ASSUME SnapshotsSound, NEW u \in OpenedTabs, removeUnauthorizedTab(u)
  PROVE  SnapshotsSound'
<1>1. WorkerTyped /\ ClosedForGood /\ UnlinkedIsEmpty /\ \A t \in OpenedTabs : TabSound(t)
  BY DEF SnapshotsSound
<1>2. /\ u \in openTabs
      /\ sessionOf' = [sessionOf EXCEPT ![u] = 0] /\ pushed' = [pushed EXCEPT ![u] = 0]
      /\ UNCHANGED <<openTabs, generations, selected, journalOf, tasks, revOf, pairedTabs, lastFocused, link, messages, changes,
                     content, served, retiredSessions, attachedTo>>
  BY DEF removeUnauthorizedTab, NoTabSession, serverVars
<1>3. WorkerTyped'
  BY <1>1, <1>2, Zenon DEF WorkerTyped
<1>4. \A t \in OpenedTabs :
        /\ sessionOf'[t] = (IF t = u THEN 0 ELSE sessionOf[t])
        /\ pushed'[t] = (IF t = u THEN 0 ELSE pushed[t])
  BY <1>1, <1>2 DEF WorkerTyped
<1>5. ClosedForGood'
  BY <1>1, <1>2, <1>4 DEF ClosedForGood, WorkerTyped
<1>6. UnlinkedIsEmpty'
  BY <1>1, <1>2, <1>4 DEF UnlinkedIsEmpty
<1>7. ASSUME NEW t \in OpenedTabs PROVE TabSound(t)'
  <2>1. CASE t # u
    BY <2>1, <1>1, <1>2, <1>4 DEF TabSound
  <2>2. CASE t = u
    BY <2>2, <1>1, <1>2, <1>4 DEF TabSound, OpenTab, StaysAbove, MayFollow
  <2>3. QED BY <2>1, <2>2
<1>8. QED BY <1>3, <1>5, <1>6, <1>7 DEF SnapshotsSound

\* A set loses a member and stays in order.
LEMMA DeletedType ==
  ASSUME NEW S, NEW s \in Seq(S), NEW t
  PROVE  delete(s, t) \in Seq(S)
<1>1. CASE t \in ToSet(s)
  <2>1. \E i \in DOMAIN s : s[i] = t
    BY <1>1 DEF ToSet
  <2> DEFINE p == CHOOSE i \in DOMAIN s : s[i] = t
  <2>2. p \in 1..Len(s)
    BY <2>1
  <2> HIDE DEF p
  <2>3. RemoveAt(s, p) \in Seq(S)
    BY <2>2 DEF RemoveAt
  <2>4. QED BY <2>3, <1>1 DEF delete, p
<1>2. CASE t \notin ToSet(s)
  BY <1>2 DEF delete
<1>3. QED BY <1>1, <1>2

\* The tab to be shown is one of the tabs.
LEMMA ActiveIsTab ==
  ASSUME NEW tracked \in Seq(OpenedTabs), NEW last \in SUBSET OpenedTabs
  PROVE  getActiveTabId(tracked, last) \subseteq OpenedTabs
<1>1. tracked # <<>> => tracked[1] \in OpenedTabs
  OBVIOUS
<1>2. QED BY <1>1 DEF getActiveTabId

\* Telling the focus is a message that concerns no snapshot, or none.
LEMMA FocusMessage ==
  ASSUME WorkerTyped, NEW active \in SUBSET OpenedTabs
  PROVE  \/ FocusTold(active) = <<>>
         \/ \E m \in SentMessages : m.type = "focused" /\ FocusTold(active) = <<m>>
<1>1. CASE active = {}
  BY <1>1 DEF FocusTold
<1>2. CASE active # {}
  <2> DEFINE t == CHOOSE t \in active : TRUE
  <2>1. t \in OpenedTabs
    BY <1>2
  <2> HIDE DEF t
  <2>2. Focusing(t) \in SentMessages /\ Focusing(t).type = "focused"
    BY <2>1 DEF Focusing, WorkerTyped, SentMessages
  <2>3. QED BY <2>2, <1>2, Zenon DEF FocusTold, t
<1>3. QED BY <1>1, <1>2

\* The user turns to another tab.
LEMMA ActivatedStep ==
  ASSUME SnapshotsSound, NEW u \in OpenedTabs, TabActivated(u)
  PROVE  SnapshotsSound'
<1>1. WorkerTyped /\ ClosedForGood /\ UnlinkedIsEmpty /\ \A t \in OpenedTabs : TabSound(t)
  BY DEF SnapshotsSound
<1>2. /\ changes' = changes + 1 /\ lastFocused' = {u}
      /\ UNCHANGED <<openTabs, sessionOf, generations, selected, journalOf, tasks, revOf, pairedTabs, link,
                     content, pushed, served, retiredSessions, attachedTo>>
  BY DEF TabActivated, serverVars
<1>3. Focusing(u) \in SentMessages /\ Focusing(u).type = "focused"
  BY <1>1 DEF Focusing, WorkerTyped, SentMessages
<1>4. messages \in Seq(SentMessages)
  BY <1>1 DEF WorkerTyped
<1>5. messages' = messages \/ (link = "connected" /\ messages' = Append(messages, Focusing(u)))
  BY <1>3, <1>4 DEF TabActivated, SendAll
<1>6. messages' \in Seq(SentMessages)
  BY <1>3, <1>4, <1>5
<1>7. WorkerTyped'
  <2>1. changes' \in Nat
    BY <1>1, <1>2 DEF WorkerTyped
  <2>2. lastFocused' \subseteq OpenedTabs
    BY <1>2
  <2>3. QED BY <1>1, <1>2, <1>6, <2>1, <2>2, SMTT(30) DEF WorkerTyped
<1>8. ClosedForGood' /\ UnlinkedIsEmpty'
  BY <1>1, <1>2, <1>5 DEF ClosedForGood, UnlinkedIsEmpty
<1>9. ASSUME NEW t \in OpenedTabs PROVE TabSound(t)'
  <2>1. CASE messages' = messages
    BY <2>1, <1>1, <1>2 DEF TabSound
  <2>2. CASE messages' = Append(messages, Focusing(u))
    <3> DEFINE m == Focusing(u)
    <3> HIDE DEF m
    <3>1. m \in SentMessages /\ ~(m.type \in {"push", "closed"} /\ m.tab = t) /\ messages' = Append(messages, m)
      BY <1>3, <2>2 DEF m
    <3>2. /\ \A has, gone, said, s, r, p, what, n :
               OpenTab(messages, t, has, gone, said, s, r, p, what, n)
               => OpenTab(Append(messages, m), t, has, gone, said, s, r, p, what, n)
          /\ \A has, gone, p : ClosedTab(messages, t, has, gone, p) => ClosedTab(Append(messages, m), t, has, gone, p)
      BY <3>1, <1>4, OtherMessage
    <3>3. QED BY <3>1, <3>2, <1>1, <1>2 DEF TabSound
  <2>3. QED BY <2>1, <2>2, <1>5
<1>10. QED BY <1>7, <1>8, <1>9 DEF SnapshotsSound

\* A tab is closed: the server is told, then which tab has the focus.
LEMMA RemovedStep ==
  ASSUME SnapshotsSound, NEW u \in OpenedTabs, TabRemoved(u)
  PROVE  SnapshotsSound'
<1>1. WorkerTyped /\ ClosedForGood /\ UnlinkedIsEmpty /\ \A t \in OpenedTabs : TabSound(t)
  BY DEF SnapshotsSound
<1> DEFINE task == [type |-> "remove", tab |-> u, value |-> 0]
<1> DEFINE tracked == delete(pairedTabs, u)
<1> DEFINE last == lastFocused \ {u}
<1> DEFINE c == [type |-> "closed", tab |-> u, session |-> sessionOf[u]]
<1> DEFINE rest == FocusTold(getActiveTabId(tracked, last))
<1>2. /\ u \in openTabs /\ openTabs' = openTabs \ {u}
      /\ pairedTabs' = tracked /\ lastFocused' = last /\ tasks' = Append(tasks, task)
      /\ selected' = [selected EXCEPT ![u] = 0] /\ revOf' = [revOf EXCEPT ![u] = 0]
      /\ sessionOf' = [sessionOf EXCEPT ![u] = 0]
      /\ messages' = IF link = "connected" THEN messages \o (<<c>> \o rest) ELSE messages
      /\ UNCHANGED <<generations, journalOf, link, changes, content, pushed, served, retiredSessions, attachedTo>>
  BY DEF TabRemoved, handleRemoved, SendAll, Closing, NoTabSession, serverVars
<1>3. tracked \in Seq(OpenedTabs) /\ last \in SUBSET OpenedTabs
  BY <1>1, DeletedType, Zenon DEF WorkerTyped
<1>4. c \in SentMessages /\ c.type = "closed" /\ c.tab = u /\ c.session = sessionOf[u] /\ sessionOf[u] \in Nat
  BY <1>1 DEF WorkerTyped, SentMessages
<1>5. rest = <<>> \/ \E m \in SentMessages : m.type = "focused" /\ rest = <<m>>
  <2> HIDE DEF tracked, last
  <2>1. getActiveTabId(tracked, last) \in SUBSET OpenedTabs
    BY <1>3, ActiveIsTab
  <2>2. QED BY <2>1, <1>1, FocusMessage
<1>6. messages \in Seq(SentMessages) /\ tasks \in Seq(Tasks) /\ task \in Tasks
  BY <1>1 DEF WorkerTyped, Tasks
<1> HIDE DEF rest, tracked, last, c
<1>7. \/ messages' = messages /\ link # "connected"
      \/ messages' = Append(messages, c) /\ link = "connected"
      \/ \E m \in SentMessages : m.type = "focused" /\ messages' = Append(Append(messages, c), m) /\ link = "connected"
  <2>1. CASE link # "connected"
    BY <2>1, <1>2
  <2>2. CASE link = "connected" /\ rest = <<>>
    BY <2>2, <1>2, <1>4, <1>6
  <2>3. CASE link = "connected" /\ rest # <<>>
    <3>1. PICK m \in SentMessages : m.type = "focused" /\ rest = <<m>>
      BY <2>3, <1>5
    <3>2. messages \o (<<c>> \o <<m>>) = Append(Append(messages, c), m)
      BY <1>4, <1>6
    <3>3. QED BY <3>1, <3>2, <2>3, <1>2
  <2>4. QED BY <2>1, <2>2, <2>3
<1>8. messages' \in Seq(SentMessages) /\ tasks' \in Seq(Tasks)
  <2>1. tasks' \in Seq(Tasks)
    BY <1>2, <1>6
  <2>2. Append(messages, c) \in Seq(SentMessages)
    BY <1>4, <1>6
  <2>3. \A m \in SentMessages : Append(Append(messages, c), m) \in Seq(SentMessages)
    BY <2>2
  <2>4. QED BY <2>1, <2>2, <2>3, <1>6, <1>7, Zenon
<1>9. WorkerTyped'
  BY <1>1, <1>2, <1>3, <1>8, Zenon DEF WorkerTyped
<1>10. ClosedForGood'
  <2>1. ASSUME NEW i \in 1..Len(tasks'), tasks'[i].type = "remove" PROVE tasks'[i].tab \notin openTabs'
    <3>1. /\ Len(tasks) \in Nat /\ Len(tasks') = Len(tasks) + 1
          /\ \A j \in 1..Len(tasks) : tasks'[j] = tasks[j]
          /\ tasks'[Len(tasks) + 1] = task
      BY <1>2, <1>6
    <3>2. CASE i = Len(tasks) + 1
      BY <3>1, <3>2, <1>2
    <3>3. CASE i # Len(tasks) + 1
      <4>1. i \in 1..Len(tasks)
        BY <3>1, <3>3, <2>1
      <4>2. QED BY <4>1, <3>1, <2>1, <1>1, <1>2 DEF ClosedForGood
    <3>4. QED BY <3>2, <3>3
  <2>2. \A t \in OpenedTabs : sessionOf'[t] = (IF t = u THEN 0 ELSE sessionOf[t])
    BY <1>1, <1>2 DEF WorkerTyped
  <2>3. \A t \in OpenedTabs \ openTabs' : sessionOf'[t] = 0
    BY <2>2, <1>1, <1>2 DEF ClosedForGood
  <2>4. \A t \in OpenedTabs : sessionOf'[t] <= generations /\ pushed[t] <= generations
    <3>1. 0 <= generations
      BY <1>1 DEF WorkerTyped
    <3>2. \A t \in OpenedTabs : sessionOf[t] <= generations /\ pushed[t] <= generations
      BY <1>1 DEF ClosedForGood
    <3>3. QED BY <3>1, <3>2, <2>2
  <2>5. QED BY <2>1, <2>3, <2>4, <1>2 DEF ClosedForGood
<1>11. UnlinkedIsEmpty'
  BY <1>1, <1>2, <1>7 DEF UnlinkedIsEmpty
<1>12. ASSUME NEW t \in OpenedTabs PROVE TabSound(t)'
  <2>1. CASE t = u
    <3>1. t \notin openTabs' /\ served'[t] = served[t] /\ retiredSessions'[t] = retiredSessions[t] /\ pushed'[t] = pushed[t]
      BY <2>1, <1>2
    <3>2. CASE link # "connected"
      BY <3>1, <3>2, <1>1, <1>12 DEF UnlinkedIsEmpty, TabSound, ClosedTab
    <3>3. CASE link = "connected"
      <4>1. OpenTab(messages, t, served[t], retiredSessions[t], content[t], sessionOf[t], revOf[t], pushed[t],
                    <<selected[t], journalOf[t]>>, generations)
        BY <2>1, <1>1, <1>2 DEF TabSound
      <4>2. ClosedTab(Append(messages, c), t, served[t], retiredSessions[t], pushed[t])
        BY <4>1, <2>1, <1>4, <1>6, CloseTold DEF c
      <4>3. CASE messages' = Append(messages, c)
        BY <4>2, <4>3, <3>1 DEF TabSound
      <4>4. ASSUME NEW m \in SentMessages, m.type = "focused", messages' = Append(Append(messages, c), m)
            PROVE  TabSound(t)'
        <5>1. Append(messages, c) \in Seq(SentMessages)
          BY <1>4, <1>6
        <5>2. ClosedTab(Append(Append(messages, c), m), t, served[t], retiredSessions[t], pushed[t])
          BY <5>1, <4>2, <4>4, OtherMessage, Zenon
        <5>3. QED BY <5>2, <4>4, <3>1 DEF TabSound
      <4>5. QED BY <4>3, <4>4, <3>3, <1>7
    <3>4. QED BY <3>2, <3>3
  <2>2. CASE t # u
    <3>1. /\ selected'[t] = selected[t] /\ revOf'[t] = revOf[t] /\ sessionOf'[t] = sessionOf[t] /\ (t \in openTabs' <=> t \in openTabs)
          /\ UNCHANGED <<journalOf, content, served, retiredSessions, pushed, generations>>
      BY <2>2, <1>1, <1>2, <1>12 DEF WorkerTyped
    <3>2. ASSUME NEW ms, messages' = ms,
                 \A has, gone, said, s, r, p, what, n :
                   OpenTab(messages, t, has, gone, said, s, r, p, what, n) => OpenTab(ms, t, has, gone, said, s, r, p, what, n),
                 \A has, gone, p : ClosedTab(messages, t, has, gone, p) => ClosedTab(ms, t, has, gone, p)
          PROVE  TabSound(t)'
      BY <3>1, <3>2, <1>1, <1>12 DEF TabSound
    <3>3. CASE messages' = messages
      BY <3>2, <3>3
    <3>4. /\ \A has, gone, said, s, r, p, what, n :
               OpenTab(messages, t, has, gone, said, s, r, p, what, n)
               => OpenTab(Append(messages, c), t, has, gone, said, s, r, p, what, n)
          /\ \A has, gone, p : ClosedTab(messages, t, has, gone, p) => ClosedTab(Append(messages, c), t, has, gone, p)
      BY <2>2, <1>4, <1>6, OtherMessage
    <3>5. CASE messages' = Append(messages, c)
      BY <3>2, <3>4, <3>5, Zenon
    <3>6. ASSUME NEW m \in SentMessages, m.type = "focused", messages' = Append(Append(messages, c), m)
          PROVE  TabSound(t)'
      <4> DEFINE one == Append(messages, c)
      <4>1. one \in Seq(SentMessages) /\ ~(m.type \in {"push", "closed"} /\ m.tab = t)
        BY <3>6, <1>4, <1>6
      <4> HIDE DEF one
      <4>2. /\ \A has, gone, said, s, r, p, what, n :
                 OpenTab(one, t, has, gone, said, s, r, p, what, n) => OpenTab(Append(one, m), t, has, gone, said, s, r, p, what, n)
            /\ \A has, gone, p : ClosedTab(one, t, has, gone, p) => ClosedTab(Append(one, m), t, has, gone, p)
        BY <4>1, <3>6, OtherMessage, Zenon
      <4> USE DEF one
      <4>3. QED BY <4>2, <3>2, <3>4, <3>6, Zenon
    <3>7. QED BY <3>3, <3>5, <3>6, <1>7
  <2>3. QED BY <2>1, <2>2
<1>13. QED BY <1>9, <1>10, <1>11, <1>12 DEF SnapshotsSound

\* One snapshot of a tab is pushed as the worker now knows it, after a change of that
\* tab alone.
LEMMA PushStep ==
  ASSUME SnapshotsSound, NEW u \in OpenedTabs, pushForTab(u),
         selected' \in [OpenedTabs -> Nat], journalOf' \in [OpenedTabs -> Nat],
         \A t \in OpenedTabs \ {u} : selected'[t] = selected[t] /\ journalOf'[t] = journalOf[t],
         tasks' = Tail(tasks), tasks # <<>>,
         UNCHANGED <<openTabs, sessionOf, generations, pairedTabs, lastFocused, link, changes, content, served, retiredSessions,
                     attachedTo>>
  PROVE  SnapshotsSound'
<1>1. WorkerTyped /\ ClosedForGood /\ UnlinkedIsEmpty /\ \A t \in OpenedTabs : TabSound(t)
  BY DEF SnapshotsSound
<1>2. /\ tasks' \in Seq(Tasks)
      /\ \A i \in 1..Len(tasks') : i + 1 \in 1..Len(tasks) /\ tasks'[i] = tasks[i + 1]
  BY <1>1 DEF WorkerTyped
<1>3. ClosedForGood' \/ pushed' # pushed
  BY <1>1, <1>2 DEF ClosedForGood
<1> DEFINE what == <<selected'[u], journalOf'[u]>>
<1> DEFINE m == [type |-> "push", tab |-> u, session |-> sessionOf[u], rev |-> revOf[u] + 1, what |-> what]
<1>4. CASE link # "connected"
  <2>1. UNCHANGED <<revOf, messages, pushed>>
    BY <1>4 DEF pushForTab
  <2>2. WorkerTyped' /\ ClosedForGood' /\ UnlinkedIsEmpty'
    BY <2>1, <1>1, <1>2, <1>3, Zenon DEF WorkerTyped, UnlinkedIsEmpty
  <2>3. ASSUME NEW t \in OpenedTabs PROVE TabSound(t)'
    <3>1. pushed[t] = 0
      BY <2>3, <1>1, <1>4 DEF UnlinkedIsEmpty
    <3>2. QED BY <2>1, <2>3, <3>1, <1>1, Zenon DEF TabSound, OpenTab, ClosedTab
  <2>4. QED BY <2>2, <2>3 DEF SnapshotsSound
<1>5. CASE link = "connected"
  <2>1. /\ revOf' = [revOf EXCEPT ![u] = revOf[u] + 1]
        /\ messages' = Append(messages, m)
        /\ pushed' = [pushed EXCEPT ![u] = sessionOf[u]]
    BY <1>5 DEF pushForTab, Pushing, nextRev
  <2>2. sessionOf[u] \in Nat /\ revOf[u] \in Nat /\ what \in Nat \X Nat /\ generations \in Nat
    BY <1>1 DEF WorkerTyped
  <2>3. m \in SentMessages /\ m.tab = u /\ messages \in Seq(SentMessages)
    BY <2>2, <1>1 DEF SentMessages, WorkerTyped
  <2> HIDE DEF m, what
  <2>4. messages' \in Seq(SentMessages)
    BY <2>1, <2>3
  <2>5. WorkerTyped'
    <3>1. revOf \in [OpenedTabs -> Nat] /\ pushed \in [OpenedTabs -> Nat]
      BY <1>1, Zenon DEF WorkerTyped
    <3>2. revOf' \in [OpenedTabs -> Nat] /\ pushed' \in [OpenedTabs -> Nat]
      BY <3>1, <2>1, <2>2
    <3>3. QED BY <3>2, <2>4, <1>1, <1>2, Zenon DEF WorkerTyped
  <2>6. \A t \in OpenedTabs :
          /\ pushed'[t] = (IF t = u THEN sessionOf[u] ELSE pushed[t])
          /\ revOf'[t] = (IF t = u THEN revOf[u] + 1 ELSE revOf[t])
    BY <2>1, <1>1 DEF WorkerTyped
  <2>7. ClosedForGood'
    <3>1. \A i \in 1..Len(tasks') : tasks'[i].type = "remove" => tasks'[i].tab \notin openTabs
      BY <1>1, <1>2 DEF ClosedForGood
    <3>2. \A t \in OpenedTabs : sessionOf[t] <= generations /\ pushed'[t] <= generations
      BY <2>6, <1>1 DEF ClosedForGood
    <3>3. QED BY <3>1, <3>2, <1>1 DEF ClosedForGood
  <2>8. UnlinkedIsEmpty'
    BY <1>1, <1>5 DEF UnlinkedIsEmpty
  <2>9. ASSUME NEW t \in OpenedTabs PROVE TabSound(t)'
    <3>1. CASE t = u
      <4>1. CASE t \in openTabs
        <5>1. OpenTab(messages, t, served[t], retiredSessions[t], content[t], sessionOf[t], revOf[t], pushed[t],
                      <<selected[t], journalOf[t]>>, generations)
          BY <4>1, <1>1 DEF TabSound
        <5>2. served[t] \in Holdings /\ retiredSessions[t] \in SUBSET Nat /\ sessionOf[t] <= generations
          BY <2>9, <1>1 DEF WorkerTyped, ClosedForGood
        <5>3. OpenTab(Append(messages, m), t, served[t], retiredSessions[t], content[t], sessionOf[t], revOf[t] + 1, sessionOf[t],
                      what, generations)
          BY <5>1, <5>2, <3>1, <2>2, <2>3, SnapshotPushed DEF m
        <5>4. QED BY <5>3, <4>1, <3>1, <2>1, <2>6 DEF TabSound, what
      <4>2. CASE t \notin openTabs
        <5>1. pushed'[t] = 0
          BY <4>2, <3>1, <2>6, <1>1 DEF ClosedForGood
        <5>2. QED BY <5>1, <4>2 DEF TabSound, ClosedTab
      <4>3. QED BY <4>1, <4>2
    <3>2. CASE t # u
      <4>1. /\ \A has, gone, said, s, r, p, old, n :
                 OpenTab(messages, t, has, gone, said, s, r, p, old, n)
                 => OpenTab(Append(messages, m), t, has, gone, said, s, r, p, old, n)
            /\ \A has, gone, p : ClosedTab(messages, t, has, gone, p) => ClosedTab(Append(messages, m), t, has, gone, p)
        BY <3>2, <2>3, OtherMessage, Zenon
      <4>2. /\ pushed'[t] = pushed[t] /\ revOf'[t] = revOf[t] /\ selected'[t] = selected[t] /\ journalOf'[t] = journalOf[t]
        BY <3>2, <2>6, <2>9
      <4>3. QED BY <4>1, <4>2, <2>1, <2>9, <1>1 DEF TabSound
    <3>3. QED BY <3>1, <3>2
  <2>10. QED BY <2>5, <2>7, <2>8, <2>9 DEF SnapshotsSound
<1>6. QED BY <1>4, <1>5

\* A queued task runs.
LEMMA TaskStep ==
  ASSUME SnapshotsSound, RunTask
  PROVE  SnapshotsSound'
<1>1. WorkerTyped /\ ClosedForGood /\ UnlinkedIsEmpty /\ \A t \in OpenedTabs : TabSound(t)
  BY DEF SnapshotsSound
<1> DEFINE task == tasks[1]
<1>2. /\ tasks # <<>> /\ tasks' = Tail(tasks)
      /\ UNCHANGED <<openTabs, sessionOf, generations, pairedTabs, lastFocused, link, changes, content, served, retiredSessions,
                     attachedTo>>
  BY DEF RunTask, serverVars
<1>3. task \in Tasks /\ tasks \in Seq(Tasks) /\ 1 \in 1..Len(tasks)
  BY <1>1, <1>2 DEF WorkerTyped
<1>4. task.type \in {"select", "replace", "remove"} => task.tab \in OpenedTabs /\ task.value \in Nat
  BY <1>3 DEF Tasks
<1>5. selected \in [OpenedTabs -> Nat] /\ journalOf \in [OpenedTabs -> Nat]
  BY <1>1 DEF WorkerTyped
<1>6. CASE /\ task.type = "select" /\ selected' = [selected EXCEPT ![task.tab] = task.value]
           /\ UNCHANGED journalOf /\ pushForTab(task.tab)
  <2>1. /\ selected' \in [OpenedTabs -> Nat] /\ journalOf' \in [OpenedTabs -> Nat]
        /\ \A t \in OpenedTabs \ {task.tab} : selected'[t] = selected[t] /\ journalOf'[t] = journalOf[t]
    BY <1>4, <1>5, <1>6
  <2>2. QED BY <2>1, <1>2, <1>4, <1>6, PushStep
<1>7. CASE /\ task.type = "replace" /\ journalOf' = [journalOf EXCEPT ![task.tab] = task.value]
           /\ UNCHANGED selected /\ pushForTab(task.tab)
  <2>1. /\ selected' \in [OpenedTabs -> Nat] /\ journalOf' \in [OpenedTabs -> Nat]
        /\ \A t \in OpenedTabs \ {task.tab} : selected'[t] = selected[t] /\ journalOf'[t] = journalOf[t]
    BY <1>4, <1>5, <1>7
  <2>2. QED BY <2>1, <1>2, <1>4, <1>7, PushStep
<1>8. CASE task.type = "remove" /\ journalOf' = [journalOf EXCEPT ![task.tab] = 0] /\ UNCHANGED <<selected, revOf, messages, pushed>>
  <2>1. task.tab \notin openTabs
    BY <1>1, <1>3, <1>8 DEF ClosedForGood
  <2>2. /\ tasks' \in Seq(Tasks)
        /\ \A i \in 1..Len(tasks') : i + 1 \in 1..Len(tasks) /\ tasks'[i] = tasks[i + 1]
    BY <1>2, <1>3
  <2>3. WorkerTyped'
    BY <2>2, <1>1, <1>2, <1>4, <1>8, Zenon DEF WorkerTyped
  <2>4. ClosedForGood' /\ UnlinkedIsEmpty'
    BY <2>2, <1>1, <1>2, <1>8 DEF ClosedForGood, UnlinkedIsEmpty
  <2>5. ASSUME NEW t \in OpenedTabs PROVE TabSound(t)'
    <3>1. t \in openTabs => journalOf'[t] = journalOf[t]
      BY <2>1, <2>5, <1>5, <1>8
    <3>2. QED BY <3>1, <2>5, <1>1, <1>2, <1>8, Zenon DEF TabSound
  <2>6. QED BY <2>3, <2>4, <2>5 DEF SnapshotsSound
<1>9. CASE /\ task.type = "ready" /\ UNCHANGED <<selected, journalOf>>
           /\ IF getActiveTabId(pairedTabs, lastFocused) = {} THEN UNCHANGED <<revOf, messages, pushed>>
              ELSE \E t \in getActiveTabId(pairedTabs, lastFocused) : pushForTab(t)
  <2>1. CASE UNCHANGED <<revOf, messages, pushed>>
    <3>1. /\ tasks' \in Seq(Tasks)
          /\ \A i \in 1..Len(tasks') : i + 1 \in 1..Len(tasks) /\ tasks'[i] = tasks[i + 1]
      BY <1>2, <1>3
    <3>2. WorkerTyped'
      BY <3>1, <2>1, <1>1, <1>2, <1>9, Zenon DEF WorkerTyped
    <3>3. ClosedForGood' /\ UnlinkedIsEmpty'
      BY <3>1, <2>1, <1>1, <1>2 DEF ClosedForGood, UnlinkedIsEmpty
    <3>4. \A t \in OpenedTabs : TabSound(t)'
      BY <2>1, <1>1, <1>2, <1>9 DEF TabSound
    <3>5. QED BY <3>2, <3>3, <3>4 DEF SnapshotsSound
  <2>2. CASE \E t \in getActiveTabId(pairedTabs, lastFocused) : pushForTab(t)
    <3>1. PICK u \in getActiveTabId(pairedTabs, lastFocused) : pushForTab(u)
      BY <2>2
    <3>2. u \in OpenedTabs
      BY <1>1, ActiveIsTab, Zenon DEF WorkerTyped
    <3>3. selected' \in [OpenedTabs -> Nat] /\ journalOf' \in [OpenedTabs -> Nat]
      BY <1>5, <1>9
    <3>4. QED BY <3>1, <3>2, <3>3, <1>2, <1>9, PushStep, Zenon
  <2>3. QED BY <2>1, <2>2, <1>9
<1>10. QED BY <1>6, <1>7, <1>8, <1>9 DEF RunTask

\* Every step keeps what is under way in order.
LEMMA SnapshotStep ==
  ASSUME SnapshotsSound, [SnapshotNext]_snapshotVars
  PROVE  SnapshotsSound'
<1>1. WorkerTyped
  BY DEF SnapshotsSound
<1>2. CASE UNCHANGED snapshotVars
  <2>1. UNCHANGED <<openTabs, sessionOf, generations, selected, journalOf, tasks, revOf, pairedTabs, lastFocused, link, messages,
                    changes, content, pushed, served, retiredSessions, attachedTo>>
    BY <1>2 DEF snapshotVars, workerVars, serverVars
  <2>2. WorkerTyped' /\ ClosedForGood' /\ UnlinkedIsEmpty'
    BY <2>1 DEF SnapshotsSound, WorkerTyped, ClosedForGood, UnlinkedIsEmpty
  <2>3. \A t \in OpenedTabs : TabSound(t)'
    BY <2>1 DEF SnapshotsSound, TabSound
  <2>4. QED BY <2>2, <2>3 DEF SnapshotsSound
<1>3. ASSUME NEW t \in OpenedTabs, NEW type \in {"select", "replace"}, NEW value \in Nat, Change(t, type, value)
      PROVE  SnapshotsSound'
  <2> DEFINE x == [type |-> type, tab |-> t, value |-> value]
  <2>1. x \in Tasks /\ x.type # "remove"
    BY <1>3 DEF Tasks
  <2>2. /\ tasks' = Append(tasks, x) /\ changes' \in Nat
        /\ UNCHANGED <<openTabs, sessionOf, generations, selected, journalOf, revOf, pairedTabs, lastFocused, link, messages,
                       content, pushed, served, retiredSessions, attachedTo>>
    BY <1>1, <1>3 DEF Change, serverVars, WorkerTyped
  <2> HIDE DEF x
  <2>3. QED BY <2>1, <2>2, QueueStep
<1>4. ASSUME NEW t \in OpenedTabs, noteSelection(t) \/ journalReplace(t) PROVE SnapshotsSound'
  <2>1. changes + 1 \in Nat /\ 0 \in Nat
    BY <1>1 DEF WorkerTyped
  <2>2. QED BY <2>1, <1>3, <1>4 DEF noteSelection, journalReplace
<1>5. ASSUME handleClientReady PROVE SnapshotsSound'
  <2> DEFINE x == [type |-> "ready", tab |-> 0, value |-> 0]
  <2>1. x \in Tasks /\ x.type # "remove"
    BY DEF Tasks
  <2>2. /\ tasks' = Append(tasks, x) /\ changes' \in Nat
        /\ UNCHANGED <<openTabs, sessionOf, generations, selected, journalOf, revOf, pairedTabs, lastFocused, link, messages,
                       content, pushed, served, retiredSessions, attachedTo>>
    BY <1>1, <1>5 DEF handleClientReady, serverVars, WorkerTyped
  <2> HIDE DEF x
  <2>3. QED BY <2>1, <2>2, QueueStep
<1>6. ASSUME NEW t \in OpenedTabs, handleBridgeConnect(t) PROVE SnapshotsSound'
  <2>1. pairedTabs' \in Seq(OpenedTabs) /\ lastFocused' \subseteq OpenedTabs
    <3>1. pairedTabs' = pairedTabs \/ pairedTabs' = Append(pairedTabs, t)
      BY <1>6 DEF handleBridgeConnect
    <3>2. QED BY <3>1, <1>1, <1>6 DEF handleBridgeConnect, WorkerTyped
  <2>2. /\ Unlink /\ link' \in {"none", "dialling"} /\ UNCHANGED <<openTabs, sessionOf, generations, changes>> /\ tasks' \in {tasks, <<>>}
        /\ selected' \in [OpenedTabs -> Nat] /\ revOf' \in [OpenedTabs -> Nat] /\ journalOf' \in [OpenedTabs -> Nat]
    BY <1>1, <1>6, Zenon DEF handleBridgeConnect, WorkerTyped
  <2>3. QED BY <2>1, <2>2, UnlinkStep
<1>7. ASSUME LinkLost \/ handleDisconnect \/ RestartPusher PROVE SnapshotsSound'
  <2>1. pairedTabs' \in Seq(OpenedTabs) /\ lastFocused' \subseteq OpenedTabs
    <3>1. (pairedTabs' = pairedTabs \/ pairedTabs' = <<>>) /\ (lastFocused' = lastFocused \/ lastFocused' = {})
      BY <1>7 DEF LinkLost, handleDisconnect, RestartPusher
    <3>2. <<>> \in Seq(OpenedTabs)
      OBVIOUS
    <3>3. QED BY <3>1, <3>2, <1>1, Zenon DEF WorkerTyped
  <2>2. /\ Unlink /\ link' \in {"none", "dialling"} /\ UNCHANGED <<openTabs, sessionOf, generations, changes>> /\ tasks' \in {tasks, <<>>}
        /\ selected' \in [OpenedTabs -> Nat] /\ revOf' \in [OpenedTabs -> Nat] /\ journalOf' \in [OpenedTabs -> Nat]
    <3>1. CASE LinkLost \/ handleDisconnect
      BY <3>1, <1>1, Zenon DEF LinkLost, handleDisconnect, WorkerTyped
    <3>2. CASE RestartPusher
      BY <3>2, <1>1 DEF RestartPusher, WorkerTyped
    <3>3. QED BY <3>1, <3>2, <1>7
  <2>3. QED BY <2>1, <2>2, UnlinkStep
<1>8. ASSUME NEW t \in OpenedTabs,
             TabCompleted(t) \/ removeUnauthorizedTab(t) \/ TabRemoved(t) \/ TabActivated(t)
      PROVE  SnapshotsSound'
  BY <1>8, CompletedStep, UnauthorizedStep, RemovedStep, ActivatedStep
<1>9. QED BY <1>2, <1>4, <1>5, <1>6, <1>7, <1>8, TaskStep, OpenedStep, ServerStep DEF SnapshotNext

\* What is under way in order ends in what the worker knows.
LEMMA SoundIsCurrent ==
  ASSUME SnapshotsSound
  PROVE  ServedIsCurrent
<1>1. SUFFICES ASSUME messages = <<>>, NEW t \in OpenedTabs, Cache!Projected(t), pushed[t] # 0
               PROVE  t \in openTabs /\ content[t] = <<selected[t], journalOf[t]>>
  BY DEF ServedIsCurrent, NoTabSession
<1>2. served[t] # Unseen
  BY <1>1 DEF Cache!Projected
<1>3. Pushes(messages, t) = {} /\ Closings(messages, t) = {}
  BY <1>1 DEF Pushes, Closings
<1>4. TabSound(t)
  BY <1>1 DEF SnapshotsSound
<1>5. t \in openTabs
  BY <1>1, <1>2, <1>3, <1>4 DEF TabSound, ClosedTab, CloseFollows
<1>6. QED BY <1>1, <1>3, <1>4, <1>5 DEF TabSound, OpenTab, LastIs

\* Whatever tabs open, load and close, whatever links and workers fail between, what the
\* agent is shown of a tab is what the worker knows of it, once all pushed is heard
\* (bridge-snapshot-push.ts, background.ts, projection-cache.ts).
THEOREM ShownIsCurrent == Spec => []ServedIsCurrent
<1>1. Init => SnapshotsSound
  BY SnapshotInitIsSound DEF Init
<1>2. SnapshotsSound /\ [Next]_allVars => SnapshotsSound'
  BY EachOnItsOwn, SnapshotStep
<1>3. SnapshotsSound => ServedIsCurrent
  BY SoundIsCurrent
<1>4. QED BY <1>1, <1>2, <1>3, PTL DEF Spec

------------------------------------------------------------------------------
(* The messages: what is under way to the worker and to the panels.        *)

SentModes == PageModes \cup {NoMode}
Statuses == {NoMode, "refused"}
AllFrames == UNION {FramesOf(t) : t \in Pages}

Traffic ==
  [type : {"mode"}, tab : Pages, frame : AllFrames, mode : SentModes]
  \cup [type : {"cleared"}] \cup [type : {"status"}, status : Statuses]
  \cup [type : {"operation", "trusted"}, tab : Pages, op : Pages \X Nat]
  \cup [type : {"loading", "complete", "frames"}, tab : Pages]
  \cup [type : {"hello"}, tab : Pages, frame : AllFrames]
  \cup [type : {"session"}, frames : SUBSET AllFrames]

Panels ==
  [mode : PageModes \cup Editors \cup {NoMode}, frames : SUBSET AllFrames, route : SentModes \X SUBSET AllFrames,
   status : Statuses, recorded : Seq(Pages \X Nat)]

\* What there may be among the messages.
WrongModes(t, f, g) == {m \in Traffic : m.type = "mode" /\ m.tab = t /\ m.frame = f /\ m.mode # g}
RightModes(t, f, g) == {m \in Traffic : m.type = "mode" /\ m.tab = t /\ m.frame = f /\ m.mode = g}
OtherStatus(s) == {m \in Traffic : m.type = "status" /\ m.status # s}
SameStatus(s) == {m \in Traffic : m.type = "status" /\ m.status = s}
OtherSessions(F) == {m \in Traffic : m.type = "session" /\ m.frames # F}
SameSession(F) == {m \in Traffic : m.type = "session" /\ m.frames = F}
Loadings(t) == {m \in Traffic : m.type = "loading" /\ m.tab = t}
Hellos(t, f) == {m \in Traffic : m.type = "hello" /\ m.tab = t /\ m.frame = f}
Listing(t, f) == Hellos(t, f) \cup {m \in Traffic : m.type = "frames" /\ m.tab = t}
Strangers(t) ==
  {m \in Traffic : \/ m.type = "session" /\ ~(m.frames \subseteq FramesOf(t))
                   \/ m.type = "hello" /\ m.tab = t /\ m.frame \notin FramesOf(t)}

\* A sequence has a member of S; each member of B is followed by a member of G.
Meets(q, S) == \E i \in 1..Len(q) : q[i] \in S
FollowedBy(q, B, G) == \A i \in 1..Len(q) : q[i] \in B => \E j \in 1..Len(q) : i < j /\ q[j] \in G

\* No member of B comes after a member of A.
NoneAfter(q, A, B) == \A i, j \in 1..Len(q) : i < j /\ q[i] \in A => q[j] \notin B

\* The same messages of C, in the same order.
SameAbout(q, r, C) ==
  /\ \A X \in SUBSET C : Meets(q, X) <=> Meets(r, X)
  /\ \A B, G \in SUBSET C : FollowedBy(q, B, G) => FollowedBy(r, B, G)
  /\ \A A, B \in SUBSET C : NoneAfter(q, A, B) => NoneAfter(r, A, B)

\* The panel of t will know the frames T that the worker lists, or was never told any.
TreeIsTold(pn, K, T, t) ==
  /\ T \subseteq FramesOf(t) /\ K \subseteq FramesOf(t) /\ ~Meets(pn, Strangers(t))
  /\ FollowedBy(pn, OtherSessions(T), SameSession(T))
  /\ Meets(pn, SameSession(T)) \/ K = T \/ (K = {} /\ T = FramesOf(t))

\* Something will make the panel route its mode again.
RoutesAgain(w, pn, K, T, t) == Meets(pn, OtherSessions(K)) \/ Meets(w, Loadings(t)) \/ T = {}

\* A frame is listed before its script runs only if the listing is dropped again.
ListedCanHear(w, fr, T, t) ==
  \A f \in FramesOf(t) : fr[f] = "unborn" =>
    FollowedBy(w, Listing(t, f), Loadings(t)) /\ (f \in T => Meets(w, Loadings(t)))

\* When the worker lists no frame the top frame will say hello.
TopWillSayHello(w, D, T, t) ==
  0 \in D \/ (FollowedBy(w, Loadings(t), Hellos(t, 0)) /\ (T = {} => Meets(w, Hellos(t, 0))))

\* The last mode that is sent to a frame is the panel's.
LastModeIsRight(w, K, g, t) ==
  \A f \in routeableFrames(K) : FollowedBy(w, WrongModes(t, f, g), RightModes(t, f, g))

\* A frame is in the panel's mode, will be, or the mode is routed again.
ModesComeTrue(w, pn, K, g, fr, T, t) ==
  \A f \in routeableFrames(K) : fr[f] = g \/ Meets(w, RightModes(t, f, g)) \/ RoutesAgain(w, pn, K, T, t)

\* The operations after the lo-th up to the hi-th of page t, each once and in order.
OperationMessage(type, t, k) == {m \in Traffic : m.type = type /\ m.tab = t /\ m.op = <<t, k>>}
Unnumbered(type, t, lo, hi) ==
  {m \in Traffic : m.type = type /\ m.tab = t /\ ~ \E k \in Nat : lo < k /\ k <= hi /\ m.op = <<t, k>>}

Numbered(q, type, t, lo, hi) ==
  /\ ~Meets(q, Unnumbered(type, t, lo, hi))
  /\ \A k \in Nat : lo < k /\ k <= hi => Meets(q, OperationMessage(type, t, k))
  /\ \A k, l \in Nat : k <= l => NoneAfter(q, OperationMessage(type, t, l), OperationMessage(type, t, k))

OperationsSound(w, pn, list, n, t) ==
  /\ \A i \in 1..Len(list) : list[i] = <<t, i>>
  /\ \E c \in Nat : Numbered(pn, "trusted", t, Len(list), c) /\ Numbered(w, "operation", t, c, n) /\ Len(list) <= c /\ c <= n

StatusSound(w, pn, status, s) ==
  /\ FollowedBy(w, OtherStatus(s), SameStatus(s))
  /\ Meets(w, SameStatus(s)) \/ (FollowedBy(pn, OtherStatus(s), SameStatus(s)) /\ (Meets(pn, SameStatus(s)) \/ status = s))

\* What concerns the frames and the mode of the tab t, the status, and its operations.
RouteTraffic(t) ==
  {m \in Traffic : m.type = "session" \/ (m.type \in {"mode", "loading", "frames", "hello"} /\ m.tab = t)}
StatusTraffic == {m \in Traffic : m.type = "status"}
OperationTraffic(t) == {m \in Traffic : m.type \in {"operation", "trusted"} /\ m.tab = t}
Concerning(t) == RouteTraffic(t) \cup StatusTraffic \cup OperationTraffic(t)

\* The panel of t will know the frames that will be listed, and the frames will be in mode g.
RouteSound(w, pn, K, g, fr, T, D, l, t) ==
  /\ ~Meets(w, Strangers(t))
  /\ TreeIsTold(pn, K, T, t)
  /\ TopWillSayHello(w, D, T, t)
  /\ \A f \in FramesOf(t) : f \in D => fr[f] = "unborn"
  /\ ~l => ListedCanHear(w, fr, T, t)
  /\ LastModeIsRight(w, K, g, t)
  /\ ~l => ModesComeTrue(w, pn, K, g, fr, T, t)

\* All that is known of a tab: what is under way, its panel, its frames and what was said.
TabTold(w, pn, v, fr, T, D, n, l, t) ==
  /\ v.route = <<Routed(v.mode), v.frames>>
  /\ RouteSound(w, pn, v.frames, Routed(v.mode), fr, T, D, l, t)
  /\ OperationsSound(w, pn, v.recorded, n.ops, t)
  /\ StatusSound(w, pn, v.status, n.told)

RoutingTyped ==
  /\ view \in [Pages -> Panels]
  /\ DOMAIN frame = Pages /\ DOMAIN tree = Pages /\ DOMAIN due = Pages
  /\ \A t \in Pages : frame[t] \in [FramesOf(t) -> SentModes \cup {"unborn"}]
  /\ toWorker \in Seq(Traffic) /\ toPanel \in [Pages -> Seq(Traffic)]
  /\ number \in [Pages -> [ops : Nat, told : Statuses]]

MessagesSound ==
  /\ RoutingTyped
  /\ \A t \in Pages :
       TabTold(toWorker, toPanel[t], view[t], frame[t], tree[t], due[t], number[t], late, t)

\* A message is taken from the front.
LEMMA MeetsTail ==
  ASSUME NEW S, NEW q \in Seq(S), q # <<>>
  PROVE  /\ Tail(q) \in Seq(S) /\ Head(q) \in S
         /\ \A X : Meets(q, X) /\ Head(q) \notin X => Meets(Tail(q), X)
         /\ \A X : Meets(Tail(q), X) => Meets(q, X)
         /\ \A B, G : FollowedBy(q, B, G) => FollowedBy(Tail(q), B, G)
         /\ \A B, G : FollowedBy(q, B, G) /\ Head(q) \in B => Meets(Tail(q), G)
         /\ \A A, B : NoneAfter(q, A, B) => NoneAfter(Tail(q), A, B)
         /\ \A A, B : NoneAfter(q, A, B) /\ Head(q) \in A => ~Meets(Tail(q), B)
<1> DEFINE r == Tail(q)
<1> DEFINE n == Len(q)
<1>1. /\ n \in Nat /\ n > 0 /\ r \in Seq(S) /\ Len(r) = n - 1 /\ Head(q) = q[1] /\ Head(q) \in S
      /\ \A i \in 1..(n - 1) : r[i] = q[i + 1]
  OBVIOUS
<1>2. \A i \in 1..n : i # 1 => i - 1 \in 1..Len(r) /\ r[i - 1] = q[i]
  <2>1. TAKE i \in 1..n
  <2>2. i # 1 => i - 1 \in 1..(n - 1) /\ (i - 1) + 1 = i
    BY <1>1
  <2>3. QED BY <2>2, <1>1
<1>3. \A i \in 1..Len(r) : i \in Int /\ i + 1 \in 1..n /\ r[i] = q[i + 1]
  BY <1>1
<1> HIDE DEF r
<1>4. ASSUME NEW X, Meets(q, X), q[1] \notin X PROVE Meets(r, X)
  BY <1>2, <1>4 DEF Meets
<1>5. ASSUME NEW X, Meets(r, X) PROVE Meets(q, X)
  BY <1>3, <1>5 DEF Meets
<1>6. ASSUME NEW B, NEW G, FollowedBy(q, B, G) PROVE FollowedBy(r, B, G)
  <2>1. ASSUME NEW i \in 1..Len(r), r[i] \in B PROVE \E j \in 1..Len(r) : i < j /\ r[j] \in G
    <3>1. PICK j \in 1..n : i + 1 < j /\ q[j] \in G
      BY <2>1, <1>3, <1>6 DEF FollowedBy
    <3>2. j # 1 /\ j - 1 \in 1..Len(r) /\ r[j - 1] = q[j] /\ i < j - 1
      BY <3>1, <1>1, <1>2, <2>1
    <3>3. QED BY <3>1, <3>2
  <2>2. QED BY <2>1 DEF FollowedBy
<1>7. ASSUME NEW B, NEW G, FollowedBy(q, B, G), q[1] \in B PROVE Meets(r, G)
  <2>1. PICK j \in 1..n : 1 < j /\ q[j] \in G
    BY <1>1, <1>7 DEF FollowedBy
  <2>2. j - 1 \in 1..Len(r) /\ r[j - 1] = q[j]
    BY <2>1, <1>2
  <2>3. QED BY <2>1, <2>2 DEF Meets
<1>8. ASSUME NEW A, NEW B, NoneAfter(q, A, B) PROVE NoneAfter(r, A, B)
  BY <1>3, <1>8 DEF NoneAfter
<1>9. ASSUME NEW A, NEW B, NoneAfter(q, A, B), q[1] \in A PROVE ~Meets(r, B)
  <2>1. \A j \in 1..n : 1 < j => q[j] \notin B
    BY <1>1, <1>9 DEF NoneAfter
  <2>2. QED BY <2>1, <1>3 DEF Meets
<1>10. QED BY <1>1, <1>4, <1>5, <1>6, <1>7, <1>8, <1>9 DEF r

\* Messages are put at the end.
LEMMA MeetsMore ==
  ASSUME NEW S, NEW q \in Seq(S), NEW x \in Seq(S)
  PROVE  /\ q \o x \in Seq(S)
         /\ \A X : Meets(q, X) \/ Meets(x, X) => Meets(q \o x, X)
         /\ \A X : Meets(q \o x, X) => Meets(q, X) \/ Meets(x, X)
         /\ \A B, G : FollowedBy(q, B, G) /\ ~Meets(x, B) => FollowedBy(q \o x, B, G)
         /\ \A B, G : Meets(x, G) /\ ~Meets(x, B) => FollowedBy(q \o x, B, G)
         /\ \A A, B : NoneAfter(q, A, B) /\ ~Meets(x, B) => NoneAfter(q \o x, A, B)
         /\ \A A, B : Len(x) = 1 /\ ~Meets(q, A) => NoneAfter(q \o x, A, B)
<1> DEFINE r == q \o x
<1> DEFINE n == Len(q)
<1> DEFINE k == Len(x)
<1>1. n \in Nat /\ k \in Nat /\ r \in Seq(S) /\ Len(r) = n + k
  OBVIOUS
<1>2. \A i \in 1..n : i \in 1..Len(r) /\ r[i] = q[i] /\ i <= n
  OBVIOUS
<1>3. \A i \in 1..k : n + i \in 1..Len(r) /\ r[n + i] = x[i]
  OBVIOUS
<1>4. \A i \in 1..Len(r) : i \in Int /\ (i \in 1..n \/ (i > n /\ i - n \in 1..k /\ r[i] = x[i - n]))
  OBVIOUS
<1> HIDE DEF r, k, n
<1>5. ASSUME NEW X, Meets(q, X) \/ Meets(x, X) PROVE Meets(r, X)
  BY <1>2, <1>3, <1>5, Zenon DEF Meets, n, k
<1>6. ASSUME NEW X, Meets(r, X) PROVE Meets(q, X) \/ Meets(x, X)
  BY <1>2, <1>4, <1>6, Zenon DEF Meets, n, k
<1>7. ASSUME NEW B, NEW G, FollowedBy(q, B, G), ~Meets(x, B) PROVE FollowedBy(r, B, G)
  <2>1. ASSUME NEW i \in 1..Len(r), r[i] \in B PROVE \E j \in 1..Len(r) : i < j /\ r[j] \in G
    <3>1. i \in 1..n
      BY <2>1, <1>4, <1>7 DEF Meets, k
    <3>2. PICK j \in 1..n : i < j /\ q[j] \in G
      BY <3>1, <2>1, <1>2, <1>7 DEF FollowedBy, n
    <3>3. QED BY <3>2, <1>2
  <2>2. QED BY <2>1 DEF FollowedBy
<1>8. ASSUME NEW B, NEW G, Meets(x, G), ~Meets(x, B) PROVE FollowedBy(r, B, G)
  <2>1. PICK j \in 1..k : x[j] \in G
    BY <1>8 DEF Meets, k
  <2>2. n + j \in 1..Len(r) /\ r[n + j] \in G
    BY <2>1, <1>3
  <2>3. ASSUME NEW i \in 1..Len(r), r[i] \in B PROVE i < n + j
    <3>1. i \in 1..n
      BY <2>3, <1>4, <1>8 DEF Meets, k
    <3>2. QED BY <3>1, <2>1, <1>1
  <2>4. QED BY <2>2, <2>3 DEF FollowedBy
<1>9. ASSUME NEW A, NEW B, NoneAfter(q, A, B), ~Meets(x, B) PROVE NoneAfter(r, A, B)
  <2>1. ASSUME NEW i \in 1..Len(r), NEW j \in 1..Len(r), i < j, r[i] \in A, r[j] \in B PROVE FALSE
    <3>1. j \in 1..n /\ i \in 1..n
      BY <2>1, <1>1, <1>4, <1>9 DEF Meets, k
    <3>2. QED BY <3>1, <2>1, <1>2, <1>9 DEF NoneAfter, n
  <2>2. QED BY <2>1 DEF NoneAfter
<1>10. ASSUME NEW A, NEW B, k = 1, ~Meets(q, A) PROVE NoneAfter(r, A, B)
  <2>1. ASSUME NEW i \in 1..Len(r), NEW j \in 1..Len(r), i < j, r[i] \in A PROVE FALSE
    <3>1. i \in 1..n
      BY <2>1, <1>1, <1>4, <1>10
    <3>2. QED BY <3>1, <2>1, <1>2, <1>10 DEF Meets, n
  <2>2. QED BY <2>1 DEF NoneAfter
<1>11. QED BY <1>1, <1>5, <1>6, <1>7, <1>8, <1>9, <1>10 DEF r, k

\* One message is put at the end.
LEMMA MeetsAppend ==
  ASSUME NEW S, NEW q \in Seq(S), NEW m \in S
  PROVE  /\ Append(q, m) \in Seq(S)
         /\ \A X : Meets(q, X) \/ m \in X => Meets(Append(q, m), X)
         /\ \A X : Meets(Append(q, m), X) => Meets(q, X) \/ m \in X
         /\ \A B, G : FollowedBy(q, B, G) /\ m \notin B => FollowedBy(Append(q, m), B, G)
         /\ \A B, G : m \in G /\ m \notin B => FollowedBy(Append(q, m), B, G)
         /\ \A A, B : NoneAfter(q, A, B) /\ m \notin B => NoneAfter(Append(q, m), A, B)
         /\ \A A, B : ~Meets(q, A) => NoneAfter(Append(q, m), A, B)
<1> DEFINE x == <<m>>
<1>1. x \in Seq(S) /\ Append(q, m) = q \o x /\ Len(x) = 1 /\ x[1] = m
  OBVIOUS
<1> HIDE DEF x
<1>2. \A X : Meets(x, X) <=> m \in X
  <2>1. \A i : i \in 1..Len(x) <=> i = 1
    BY <1>1
  <2>2. QED BY <2>1, <1>1 DEF Meets
<1> DEFINE r == q \o x
<1> HIDE DEF r
<1>3. /\ r \in Seq(S)
      /\ \A X : Meets(q, X) \/ Meets(x, X) => Meets(r, X)
      /\ \A X : Meets(r, X) => Meets(q, X) \/ Meets(x, X)
      /\ \A B, G : FollowedBy(q, B, G) /\ ~Meets(x, B) => FollowedBy(r, B, G)
      /\ \A B, G : Meets(x, G) /\ ~Meets(x, B) => FollowedBy(r, B, G)
      /\ \A A, B : NoneAfter(q, A, B) /\ ~Meets(x, B) => NoneAfter(r, A, B)
      /\ \A A, B : ~Meets(q, A) => NoneAfter(r, A, B)
  BY <1>1, MeetsMore DEF r
<1>4. QED BY <1>1, <1>2, <1>3 DEF r

\* Where nothing is under way nothing is met.
LEMMA NothingMeets ==
  ASSUME NEW X
  PROVE  ~Meets(<<>>, X) /\ (\A B, G : FollowedBy(<<>>, B, G)) /\ \A A, B : NoneAfter(<<>>, A, B)
<1>1. \A i : i \notin 1..Len(<<>>)
  OBVIOUS
<1>2. QED BY <1>1 DEF Meets, FollowedBy, NoneAfter

\* Each frame that a mode is routed to is named by one message, and each message names one.
LEMMA EachFrameIsTold ==
  ASSUME NEW t \in Pages, NEW g \in SentModes, NEW K \in SUBSET FramesOf(t)
  PROVE  /\ ModeMessages(t, g, K) \in Seq(Traffic)
         /\ \A i \in 1..Len(ModeMessages(t, g, K)) :
              /\ ModeMessages(t, g, K)[i].type = "mode" /\ ModeMessages(t, g, K)[i].tab = t
              /\ ModeMessages(t, g, K)[i].mode = g /\ ModeMessages(t, g, K)[i].frame \in routeableFrames(K)
         /\ \A f \in routeableFrames(K) :
              \E i \in 1..Len(ModeMessages(t, g, K)) : ModeMessages(t, g, K)[i].frame = f
<1> DEFINE F == routeableFrames(K)
<1> DEFINE n == Cardinality(F)
<1> DEFINE s == SetToSeq(F)
<1> DEFINE mm == [i \in 1..n |-> [type |-> "mode", tab |-> t, frame |-> s[i], mode |-> g]]
<1>1. F \subseteq FramesOf(t) /\ IsFiniteSet(F)
  BY RoutingAssumption, FS_Subset DEF routeableFrames
<1> HIDE DEF F
<1>2. n \in Nat /\ ExistsBijection(1..n, F)
  BY <1>1, FS_CardinalityType
<1>3. s \in [1..n -> F] /\ IsInjective(s)
  <2>1. \E h \in [1..Cardinality(F) -> F] : IsInjective(h)
    BY <1>2 DEF ExistsBijection, Bijection, Injection
  <2>2. QED BY <2>1 DEF SetToSeq
<1>4. s \in Surjection(1..n, F)
  <2>1. s \in Injection(1..n, F)
    BY <1>3 DEF Injection
  <2>2. Cardinality(1..n) = n
    BY <1>2, FS_Interval
  <2>3. QED BY <2>1, <2>2, <1>1, FS_Injection
<1>5. \A f \in F : \E i \in 1..n : s[i] = f
  BY <1>4 DEF Surjection
<1> HIDE DEF s, n
<1>6. \A i \in 1..n : s[i] \in F /\ s[i] \in AllFrames
  BY <1>1, <1>3 DEF AllFrames
<1>7. mm = ModeMessages(t, g, K)
  BY DEF ModeMessages, F, s, n
<1>8. \A i \in 1..n : mm[i] \in Traffic
  BY <1>6 DEF Traffic
<1>9. mm \in Seq(Traffic) /\ Len(mm) = n
  BY <1>2, <1>8
<1>10. \A i \in 1..n : mm[i].type = "mode" /\ mm[i].tab = t /\ mm[i].mode = g /\ mm[i].frame = s[i]
  OBVIOUS
<1> HIDE DEF mm
<1>11. QED BY <1>5, <1>6, <1>7, <1>9, <1>10 DEF F

\* The panel's mode is routed: all its frames, and no other tab's, will be told.
LEMMA WhatIsRouted ==
  ASSUME NEW t \in Pages, NEW g \in SentModes, NEW K \in SUBSET FramesOf(t)
  PROVE  LET x == ModeMessages(t, g, K) IN
         /\ x \in Seq(Traffic)
         /\ \A f \in routeableFrames(K) : Meets(x, RightModes(t, f, g)) /\ ~Meets(x, WrongModes(t, f, g))
         /\ ~Meets(x, Strangers(t)) /\ ~Meets(x, Loadings(t)) /\ \A f : ~Meets(x, Hellos(t, f)) /\ ~Meets(x, Listing(t, f))
         /\ \A s : ~Meets(x, SameStatus(s)) /\ ~Meets(x, OtherStatus(s))
         /\ \A u : u # t => ~Meets(x, Concerning(u))
<1> DEFINE x == ModeMessages(t, g, K)
<1>1. /\ x \in Seq(Traffic)
      /\ \A i \in 1..Len(x) : x[i].type = "mode" /\ x[i].tab = t /\ x[i].mode = g
      /\ \A f \in routeableFrames(K) : \E i \in 1..Len(x) : x[i].frame = f
  BY EachFrameIsTold
<1> HIDE DEF x
<1>2. \A i \in 1..Len(x) : x[i] \in Traffic
  BY <1>1
<1>3. \A f \in routeableFrames(K) : Meets(x, RightModes(t, f, g)) /\ ~Meets(x, WrongModes(t, f, g))
  BY <1>1, <1>2 DEF Meets, RightModes, WrongModes
<1>4. ~Meets(x, Strangers(t)) /\ ~Meets(x, Loadings(t)) /\ \A f : ~Meets(x, Hellos(t, f)) /\ ~Meets(x, Listing(t, f))
  BY <1>1 DEF Meets, Strangers, Loadings, Hellos, Listing
<1>5. \A s : ~Meets(x, SameStatus(s)) /\ ~Meets(x, OtherStatus(s))
  BY <1>1 DEF Meets, SameStatus, OtherStatus
<1>6. \A u : u # t => ~Meets(x, Concerning(u))
  BY <1>1 DEF Meets, Concerning, RouteTraffic, StatusTraffic, OperationTraffic
<1>7. QED BY <1>1, <1>3, <1>4, <1>5, <1>6 DEF x

\* A message that is no business of C is taken or put.
LEMMA OthersTaken ==
  ASSUME NEW q \in Seq(Traffic), q # <<>>, NEW C, Head(q) \notin C
  PROVE  SameAbout(q, Tail(q), C)
<1> DEFINE r == Tail(q)
<1> DEFINE h == Head(q)
<1>1. /\ \A X : Meets(q, X) /\ h \notin X => Meets(r, X)
      /\ \A X : Meets(r, X) => Meets(q, X)
      /\ \A B, G : FollowedBy(q, B, G) => FollowedBy(r, B, G)
      /\ \A A, B : NoneAfter(q, A, B) => NoneAfter(r, A, B)
  BY MeetsTail
<1>2. h \notin C
  OBVIOUS
<1> HIDE DEF r, h
<1>3. QED BY <1>1, <1>2 DEF SameAbout, r

\* Putting messages that are not about C after the others says nothing new of C.
LEMMA OthersPut ==
  ASSUME NEW q \in Seq(Traffic), NEW x \in Seq(Traffic), NEW C, ~Meets(x, C)
  PROVE  SameAbout(q, q \o x, C)
<1> DEFINE r == q \o x
<1>1. /\ \A X : Meets(q, X) \/ Meets(x, X) => Meets(r, X)
      /\ \A X : Meets(r, X) => Meets(q, X) \/ Meets(x, X)
      /\ \A B, G : FollowedBy(q, B, G) /\ ~Meets(x, B) => FollowedBy(r, B, G)
      /\ \A A, B : NoneAfter(q, A, B) /\ ~Meets(x, B) => NoneAfter(r, A, B)
  BY MeetsMore
<1>2. \A X \in SUBSET C : ~Meets(x, X)
  BY DEF Meets
<1> HIDE DEF r
<1>3. QED BY <1>1, <1>2 DEF SameAbout, r

\* Nor does appending one.
LEMMA OtherAppended ==
  ASSUME NEW q \in Seq(Traffic), NEW m \in Traffic, NEW C, m \notin C
  PROVE  SameAbout(q, Append(q, m), C)
<1> DEFINE r == Append(q, m)
<1>1. /\ \A X : Meets(q, X) \/ m \in X => Meets(r, X)
      /\ \A X : Meets(r, X) => Meets(q, X) \/ m \in X
      /\ \A B, G : FollowedBy(q, B, G) /\ m \notin B => FollowedBy(r, B, G)
      /\ \A A, B : NoneAfter(q, A, B) /\ m \notin B => NoneAfter(r, A, B)
  BY MeetsAppend
<1> HIDE DEF r
<1>3. QED BY <1>1 DEF SameAbout, r

\* Nothing happened.
LEMMA SameIsSame ==
  ASSUME NEW q, NEW C
  PROVE  SameAbout(q, q, C)
BY DEF SameAbout

\* What is asked of the tab's frames, of the status and of the operations is about
\* those messages only.
LEMMA SameRoute ==
  ASSUME NEW w, NEW w2, NEW pn, NEW pn2, NEW t,
         SameAbout(w, w2, RouteTraffic(t)), SameAbout(pn, pn2, RouteTraffic(t)),
         NEW K, NEW g, NEW fr, NEW T, NEW D, NEW l, RouteSound(w, pn, K, g, fr, T, D, l, t)
  PROVE  RouteSound(w2, pn2, K, g, fr, T, D, l, t)
<1> DEFINE C == RouteTraffic(t)
<1>1. /\ Strangers(t) \in SUBSET C /\ Loadings(t) \in SUBSET C
      /\ \A f : Hellos(t, f) \in SUBSET C /\ Listing(t, f) \in SUBSET C
      /\ \A F : OtherSessions(F) \in SUBSET C /\ SameSession(F) \in SUBSET C
      /\ \A f : WrongModes(t, f, g) \in SUBSET C /\ RightModes(t, f, g) \in SUBSET C
  <2>1. Strangers(t) \in SUBSET C /\ Loadings(t) \in SUBSET C
    BY DEF RouteTraffic, Strangers, Loadings
  <2>2. \A f : Hellos(t, f) \in SUBSET C /\ Listing(t, f) \in SUBSET C
    BY DEF RouteTraffic, Hellos, Listing
  <2>3. \A F : OtherSessions(F) \in SUBSET C /\ SameSession(F) \in SUBSET C
    BY DEF RouteTraffic, OtherSessions, SameSession
  <2>4. \A f : WrongModes(t, f, g) \in SUBSET C /\ RightModes(t, f, g) \in SUBSET C
    BY DEF RouteTraffic, WrongModes, RightModes
  <2>5. QED BY <2>1, <2>2, <2>3, <2>4
<1> HIDE DEF C
<1>2. /\ \A X \in SUBSET C : Meets(w, X) <=> Meets(w2, X)
      /\ \A B, G \in SUBSET C : FollowedBy(w, B, G) => FollowedBy(w2, B, G)
      /\ \A X \in SUBSET C : Meets(pn, X) <=> Meets(pn2, X)
      /\ \A B, G \in SUBSET C : FollowedBy(pn, B, G) => FollowedBy(pn2, B, G)
  BY DEF SameAbout, C
<1>3. ~Meets(w2, Strangers(t)) /\ TreeIsTold(pn2, K, T, t)
  BY <1>1, <1>2 DEF RouteSound, TreeIsTold
<1>4. TopWillSayHello(w2, D, T, t)
  BY <1>1, <1>2 DEF RouteSound, TopWillSayHello
<1>5. ~l => ListedCanHear(w2, fr, T, t)
  BY <1>1, <1>2 DEF RouteSound, ListedCanHear
<1>6. LastModeIsRight(w2, K, g, t)
  BY <1>1, <1>2 DEF RouteSound, LastModeIsRight
<1>7. ~l => ModesComeTrue(w2, pn2, K, g, fr, T, t)
  <2>1. RoutesAgain(w, pn, K, T, t) => RoutesAgain(w2, pn2, K, T, t)
    BY <1>1, <1>2 DEF RoutesAgain
  <2>2. \A f : Meets(w, RightModes(t, f, g)) => Meets(w2, RightModes(t, f, g))
    BY <1>1, <1>2
  <2>3. QED BY <2>1, <2>2 DEF RouteSound, ModesComeTrue
<1>8. QED BY <1>3, <1>4, <1>5, <1>6, <1>7 DEF RouteSound

\* What holds of the numbers of a tab's operations, holds of every queue that
\* is the same about them.
LEMMA SameNumbers ==
  ASSUME NEW q, NEW r, NEW t, NEW type \in {"operation", "trusted"}, NEW C, OperationTraffic(t) \subseteq C, SameAbout(q, r, C),
         NEW lo, NEW hi, Numbered(q, type, t, lo, hi)
  PROVE  Numbered(r, type, t, lo, hi)
<1>1. /\ Unnumbered(type, t, lo, hi) \in SUBSET C
      /\ \A k : OperationMessage(type, t, k) \in SUBSET C
  BY DEF OperationTraffic, Unnumbered, OperationMessage
<1>2. /\ \A X \in SUBSET C : Meets(q, X) <=> Meets(r, X)
      /\ \A A, B \in SUBSET C : NoneAfter(q, A, B) => NoneAfter(r, A, B)
  BY DEF SameAbout
<1>3. QED BY <1>1, <1>2 DEF Numbered

\* The same of what is due, sent and kept of the tab's operations,
LEMMA SameOperations ==
  ASSUME NEW w, NEW w2, NEW pn, NEW pn2, NEW t,
         SameAbout(w, w2, OperationTraffic(t)), SameAbout(pn, pn2, OperationTraffic(t)),
         NEW list, NEW n, OperationsSound(w, pn, list, n, t)
  PROVE  OperationsSound(w2, pn2, list, n, t)
<1>1. \A c : Numbered(pn, "trusted", t, Len(list), c) => Numbered(pn2, "trusted", t, Len(list), c)
  BY SameNumbers
<1>2. \A c : Numbered(w, "operation", t, c, n) => Numbered(w2, "operation", t, c, n)
  BY SameNumbers
<1>3. QED BY <1>1, <1>2 DEF OperationsSound

\* of the status of the pairing,
LEMMA SameStatusTold ==
  ASSUME NEW w, NEW w2, NEW pn, NEW pn2,
         SameAbout(w, w2, StatusTraffic), SameAbout(pn, pn2, StatusTraffic),
         NEW status, NEW s, StatusSound(w, pn, status, s)
  PROVE  StatusSound(w2, pn2, status, s)
<1>1. OtherStatus(s) \in SUBSET StatusTraffic /\ SameStatus(s) \in SUBSET StatusTraffic
  BY DEF OtherStatus, SameStatus, StatusTraffic
<1>2. /\ \A X \in SUBSET StatusTraffic : Meets(w, X) <=> Meets(w2, X)
      /\ \A B, G \in SUBSET StatusTraffic : FollowedBy(w, B, G) => FollowedBy(w2, B, G)
      /\ \A X \in SUBSET StatusTraffic : Meets(pn, X) <=> Meets(pn2, X)
      /\ \A B, G \in SUBSET StatusTraffic : FollowedBy(pn, B, G) => FollowedBy(pn2, B, G)
  BY DEF SameAbout
<1>3. QED BY <1>1, <1>2 DEF StatusSound

\* A part of the same is the same.
LEMMA SameOfPart ==
  ASSUME NEW q, NEW r, NEW C, NEW E \in SUBSET C, SameAbout(q, r, C)
  PROVE  SameAbout(q, r, E)
<1>1. \A X \in SUBSET E : X \in SUBSET C
  OBVIOUS
<1>2. QED BY <1>1 DEF SameAbout

\* and of all that a tab is told.
LEMMA SameTold ==
  ASSUME NEW w, NEW w2, NEW pn, NEW pn2, NEW t,
         SameAbout(w, w2, Concerning(t)), SameAbout(pn, pn2, Concerning(t)),
         NEW v, NEW fr, NEW T, NEW D, NEW n, NEW l, TabTold(w, pn, v, fr, T, D, n, l, t)
  PROVE  TabTold(w2, pn2, v, fr, T, D, n, l, t)
<1>1. RouteTraffic(t) \in SUBSET Concerning(t) /\ StatusTraffic \in SUBSET Concerning(t) /\ OperationTraffic(t) \in SUBSET Concerning(t)
  BY DEF Concerning
<1>2. \A E \in SUBSET Concerning(t) : SameAbout(w, w2, E) /\ SameAbout(pn, pn2, E)
  BY SameOfPart
<1>3. RouteSound(w2, pn2, v.frames, Routed(v.mode), fr, T, D, l, t)
  BY <1>1, <1>2, SameRoute, Zenon DEF TabTold
<1>4. OperationsSound(w2, pn2, v.recorded, n.ops, t)
  BY <1>1, <1>2, SameOperations, Zenon DEF TabTold
<1>5. StatusSound(w2, pn2, v.status, n.told)
  BY <1>1, <1>2, SameStatusTold DEF TabTold
<1>6. QED BY <1>3, <1>4, <1>5 DEF TabTold

\* The panel's mode is routed: the last mode sent to its frames is the panel's.
LEMMA ModeIsRouted ==
  ASSUME NEW t \in Pages, NEW g \in SentModes, NEW K \in SUBSET FramesOf(t), NEW w \in Seq(Traffic),
         NEW pn, NEW fr, NEW T, NEW D, NEW l,
         ~Meets(w, Strangers(t)), TreeIsTold(pn, K, T, t), TopWillSayHello(w, D, T, t),
         \A f \in FramesOf(t) : f \in D => fr[f] = "unborn",
         ~l => ListedCanHear(w, fr, T, t)
  PROVE  RouteSound(w \o ModeMessages(t, g, K), pn, K, g, fr, T, D, l, t)
<1> DEFINE x == ModeMessages(t, g, K)
<1> DEFINE w2 == w \o x
<1>1. /\ x \in Seq(Traffic)
      /\ \A f \in routeableFrames(K) : Meets(x, RightModes(t, f, g)) /\ ~Meets(x, WrongModes(t, f, g))
      /\ ~Meets(x, Strangers(t)) /\ ~Meets(x, Loadings(t)) /\ \A f : ~Meets(x, Hellos(t, f)) /\ ~Meets(x, Listing(t, f))
  BY WhatIsRouted
<1> HIDE DEF x
<1>2. /\ \A X : Meets(w, X) \/ Meets(x, X) => Meets(w2, X)
      /\ \A X : Meets(w2, X) => Meets(w, X) \/ Meets(x, X)
      /\ \A B, G : FollowedBy(w, B, G) /\ ~Meets(x, B) => FollowedBy(w2, B, G)
      /\ \A B, G : Meets(x, G) /\ ~Meets(x, B) => FollowedBy(w2, B, G)
  BY <1>1, MeetsMore
<1> HIDE DEF w2
<1>3. ~Meets(w2, Strangers(t))
  BY <1>1, <1>2
<1>4. TopWillSayHello(w2, D, T, t)
  BY <1>1, <1>2 DEF TopWillSayHello
<1>5. ~l => ListedCanHear(w2, fr, T, t)
  BY <1>1, <1>2 DEF ListedCanHear
<1>6. LastModeIsRight(w2, K, g, t) /\ ModesComeTrue(w2, pn, K, g, fr, T, t)
  BY <1>1, <1>2 DEF LastModeIsRight, ModesComeTrue
<1>7. QED BY <1>3, <1>4, <1>5, <1>6 DEF RouteSound, w2, x

\* What the panel will know of the frames when it has heard a message.
LEMMA TreeHeard ==
  ASSUME NEW t \in Pages, NEW pn \in Seq(Traffic), pn # <<>>, NEW K, NEW T \in SUBSET FramesOf(t), TreeIsTold(pn, K, T, t)
  PROVE  /\ Head(pn).type = "session" => TreeIsTold(Tail(pn), Head(pn).frames, T, t)
         /\ Head(pn).type # "session" => TreeIsTold(Tail(pn), K, T, t)
<1> DEFINE h == Head(pn)
<1> DEFINE r == Tail(pn)
<1>1. /\ h \in Traffic
      /\ \A X : Meets(pn, X) /\ h \notin X => Meets(r, X)
      /\ \A X : Meets(r, X) => Meets(pn, X)
      /\ \A B, G : FollowedBy(pn, B, G) => FollowedBy(r, B, G)
      /\ \A B, G : FollowedBy(pn, B, G) /\ h \in B => Meets(r, G)
  BY MeetsTail
<1>2. \A X : h \in X => Meets(pn, X)
  <2>1. 1 \in 1..Len(pn) /\ h = pn[1]
    OBVIOUS
  <2>2. QED BY <2>1 DEF Meets
<1> HIDE DEF h, r
<1>3. ~Meets(r, Strangers(t)) /\ FollowedBy(r, OtherSessions(T), SameSession(T))
  BY <1>1 DEF TreeIsTold
<1>4. CASE h.type = "session"
  <2>1. h.frames \subseteq FramesOf(t)
    BY <1>1, <1>2, <1>4 DEF TreeIsTold, Strangers
  <2>2. h.frames = T \/ Meets(r, SameSession(T))
    <3>1. h.frames # T => h \in OtherSessions(T)
      BY <1>1, <1>4 DEF OtherSessions
    <3>2. QED BY <3>1, <1>1 DEF TreeIsTold
  <2>3. TreeIsTold(r, h.frames, T, t)
    BY <1>3, <2>1, <2>2 DEF TreeIsTold
  <2>4. QED BY <2>3, <1>4 DEF h, r
<1>5. CASE h.type # "session"
  <2>1. h \notin SameSession(T)
    BY <1>5 DEF SameSession
  <2>2. TreeIsTold(r, K, T, t)
    BY <1>1, <1>3, <2>1 DEF TreeIsTold
  <2>3. QED BY <2>2, <1>5 DEF h, r
<1>6. QED BY <1>4, <1>5

\* The panel hears what leaves its frames and its mode the same.
LEMMA RouteKept ==
  ASSUME NEW t \in Pages, NEW pn \in Seq(Traffic), pn # <<>>, NEW w, NEW K, NEW g, NEW fr, NEW T, NEW D, NEW l,
         RouteSound(w, pn, K, g, fr, T, D, l, t), TreeIsTold(Tail(pn), K, T, t), Head(pn) \notin OtherSessions(K)
  PROVE  RouteSound(w, Tail(pn), K, g, fr, T, D, l, t)
<1> DEFINE r == Tail(pn)
<1>1. Meets(pn, OtherSessions(K)) => Meets(r, OtherSessions(K))
  BY MeetsTail
<1> HIDE DEF r
<1>2. RoutesAgain(w, pn, K, T, t) => RoutesAgain(w, r, K, T, t)
  BY <1>1 DEF RoutesAgain
<1>3. ~l => ModesComeTrue(w, r, K, g, fr, T, t)
  BY <1>2 DEF RouteSound, ModesComeTrue
<1>4. QED BY <1>3 DEF RouteSound, r

\* The tab loads another document.
LEMMA RouteLoading ==
  ASSUME NEW t \in Pages, NEW w \in Seq(Traffic), NEW pn, NEW K, NEW g, NEW fr, NEW T, NEW D, NEW l,
         RouteSound(w, pn, K, g, fr, T, D, l, t),
         NEW fr2, \A f \in FramesOf(t) : fr2[f] = "unborn", NEW D2, FramesOf(t) \subseteq D2
  PROVE  RouteSound(Append(w, [type |-> "loading", tab |-> t]), pn, K, g, fr2, T, D2, l, t)
<1> DEFINE m == [type |-> "loading", tab |-> t]
<1> DEFINE w2 == Append(w, m)
<1>1. m \in Traffic /\ m \in Loadings(t)
  BY DEF Traffic, Loadings
<1>2. m \notin Strangers(t) /\ (\A f : m \notin WrongModes(t, f, g)) /\ \A f : m \notin Listing(t, f)
  BY DEF Strangers, WrongModes, Listing, Hellos
<1> HIDE DEF m
<1>3. /\ \A X : Meets(w, X) \/ m \in X => Meets(w2, X)
      /\ \A X : Meets(w2, X) => Meets(w, X) \/ m \in X
      /\ \A B, G : FollowedBy(w, B, G) /\ m \notin B => FollowedBy(w2, B, G)
      /\ \A B, G : m \in G /\ m \notin B => FollowedBy(w2, B, G)
  BY <1>1, MeetsAppend
<1> HIDE DEF w2
<1>4. TopWillSayHello(w2, D2, T, t)
  BY RoutingAssumption DEF TopWillSayHello
<1>5. ListedCanHear(w2, fr2, T, t)
  BY <1>1, <1>2, <1>3 DEF ListedCanHear
<1>6. LastModeIsRight(w2, K, g, t)
  BY <1>2, <1>3 DEF RouteSound, LastModeIsRight
<1>7. ModesComeTrue(w2, pn, K, g, fr2, T, t)
  BY <1>1, <1>3 DEF ModesComeTrue, RoutesAgain
<1>8. QED BY <1>2, <1>3, <1>4, <1>5, <1>6, <1>7 DEF RouteSound, w2, m

\* The script of a frame says hello.
LEMMA RouteHello ==
  ASSUME NEW t \in Pages, NEW w \in Seq(Traffic), NEW pn, NEW K, NEW g \in SentModes, NEW fr, NEW T, NEW D, NEW l,
         RouteSound(w, pn, K, g, fr, T, D, l, t),
         NEW f \in FramesOf(t), f \in D,
         NEW fr2, \A e \in FramesOf(t) : e # f => fr2[e] = fr[e], fr2[f] # "unborn"
  PROVE  RouteSound(Append(w, [type |-> "hello", tab |-> t, frame |-> f]), pn, K, g, fr2, T, D \ {f}, l, t)
<1> DEFINE m == [type |-> "hello", tab |-> t, frame |-> f]
<1> DEFINE w2 == Append(w, m)
<1>1. m \in Traffic /\ m \in Hellos(t, f)
  BY DEF Traffic, Hellos, AllFrames
<1>2. /\ m \notin Strangers(t) /\ m \notin Loadings(t) /\ (\A e : m \notin WrongModes(t, e, g))
      /\ \A e : e # f => m \notin Listing(t, e)
  BY DEF Strangers, WrongModes, Listing, Hellos, Loadings
<1> HIDE DEF m
<1>3. /\ \A X : Meets(w, X) \/ m \in X => Meets(w2, X)
      /\ \A X : Meets(w2, X) => Meets(w, X) \/ m \in X
      /\ \A B, G : FollowedBy(w, B, G) /\ m \notin B => FollowedBy(w2, B, G)
      /\ \A B, G : m \in G /\ m \notin B => FollowedBy(w2, B, G)
  BY <1>1, MeetsAppend
<1> HIDE DEF w2
<1>4. TopWillSayHello(w2, D \ {f}, T, t)
  <2>1. CASE f = 0
    BY <2>1, <1>1, <1>2, <1>3 DEF TopWillSayHello
  <2>2. CASE f # 0
    BY <2>2, <1>2, <1>3 DEF RouteSound, TopWillSayHello
  <2>3. QED BY <2>1, <2>2
<1>5. ~l => ListedCanHear(w2, fr2, T, t)
  <2>1. ASSUME ~l, NEW e \in FramesOf(t), fr2[e] = "unborn"
        PROVE  FollowedBy(w2, Listing(t, e), Loadings(t)) /\ (e \in T => Meets(w2, Loadings(t)))
    <3>1. e # f /\ fr[e] = "unborn"
      BY <2>1
    <3>2. QED BY <3>1, <2>1, <1>2, <1>3 DEF RouteSound, ListedCanHear
  <2>2. QED BY <2>1 DEF ListedCanHear
<1>6. LastModeIsRight(w2, K, g, t)
  BY <1>2, <1>3 DEF RouteSound, LastModeIsRight
<1>7. ~l => ModesComeTrue(w2, pn, K, g, fr2, T, t)
  <2>1. ASSUME ~l, NEW e \in routeableFrames(K)
        PROVE  fr2[e] = g \/ Meets(w2, RightModes(t, e, g)) \/ RoutesAgain(w2, pn, K, T, t)
    <3>1. e \in FramesOf(t)
      BY RoutingAssumption DEF RouteSound, TreeIsTold, routeableFrames
    <3>2. fr[e] = g \/ Meets(w, RightModes(t, e, g)) \/ RoutesAgain(w, pn, K, T, t)
      BY <2>1 DEF RouteSound, ModesComeTrue
    <3>3. RoutesAgain(w, pn, K, T, t) => RoutesAgain(w2, pn, K, T, t)
      BY <1>3 DEF RoutesAgain
    <3>4. fr[f] # g
      BY RoutingAssumption DEF RouteSound, SentModes
    <3>5. QED BY <3>1, <3>2, <3>3, <3>4, <1>3
  <2>2. QED BY <2>1 DEF ModesComeTrue
<1>8. \A e \in FramesOf(t) : e \in D \ {f} => fr2[e] = "unborn"
  BY DEF RouteSound
<1>9. ~Meets(w2, Strangers(t)) /\ TreeIsTold(pn, K, T, t)
  BY <1>2, <1>3 DEF RouteSound
<1>10. QED BY <1>4, <1>5, <1>6, <1>7, <1>8, <1>9 DEF RouteSound, w2, m

\* The document is complete.
LEMMA RouteCompleted ==
  ASSUME NEW t \in Pages, NEW w, NEW pn, NEW K, NEW g, NEW fr, NEW T, NEW l,
         RouteSound(w, pn, K, g, fr, T, {-1}, l, t)
  PROVE  RouteSound(w, pn, K, g, fr, T, {}, l, t)
<1>1. 0 \notin {-1}
  OBVIOUS
<1>2. TopWillSayHello(w, {}, T, t)
  BY <1>1 DEF RouteSound, TopWillSayHello
<1>3. QED BY <1>2 DEF RouteSound

\* The browser answers a discovery of the tab's frames; late, if one of them cannot hear.
LEMMA RouteDiscovered ==
  ASSUME NEW t \in Pages, NEW w \in Seq(Traffic), NEW pn, NEW K, NEW g, NEW fr, NEW T, NEW D, NEW l,
         RouteSound(w, pn, K, g, fr, T, D, l, t),
         NEW l2, l2 = (l \/ \E f \in FramesOf(t) : fr[f] = "unborn")
  PROVE  RouteSound(Append(w, [type |-> "frames", tab |-> t]), pn, K, g, fr, T, D, l2, t)
<1> DEFINE m == [type |-> "frames", tab |-> t]
<1> DEFINE w2 == Append(w, m)
<1>1. m \in Traffic
  BY DEF Traffic
<1>2. m \notin Strangers(t) /\ m \notin Loadings(t) /\ (\A f : m \notin WrongModes(t, f, g))
  BY DEF Strangers, WrongModes, Loadings
<1> HIDE DEF m
<1>3. /\ \A X : Meets(w, X) \/ m \in X => Meets(w2, X)
      /\ \A X : Meets(w2, X) => Meets(w, X) \/ m \in X
      /\ \A B, G : FollowedBy(w, B, G) /\ m \notin B => FollowedBy(w2, B, G)
  BY <1>1, MeetsAppend
<1> HIDE DEF w2
<1>4. ~l2 => ListedCanHear(w2, fr, T, t)
  BY Zenon DEF ListedCanHear
<1>5. TopWillSayHello(w2, D, T, t)
  BY <1>2, <1>3 DEF RouteSound, TopWillSayHello
<1>6. LastModeIsRight(w2, K, g, t)
  BY <1>2, <1>3 DEF RouteSound, LastModeIsRight
<1>7. ~l2 => ModesComeTrue(w2, pn, K, g, fr, T, t)
  <2>1. RoutesAgain(w, pn, K, T, t) => RoutesAgain(w2, pn, K, T, t)
    BY <1>3 DEF RoutesAgain
  <2>2. QED BY <2>1, <1>3, Zenon DEF RouteSound, ModesComeTrue
<1>8. ~Meets(w2, Strangers(t))
  BY <1>2, <1>3 DEF RouteSound
<1>9. QED BY <1>4, <1>5, <1>6, <1>7, <1>8 DEF RouteSound, w2, m

\* A mode reaches the frame that it names, or the mode will be routed again.
LEMMA RouteModeTaken ==
  ASSUME NEW t \in Pages, NEW w \in Seq(Traffic), w # <<>>, NEW pn, NEW K, NEW g \in SentModes,
         NEW fr, NEW T, NEW D, NEW l,
         RouteSound(w, pn, K, g, fr, T, D, l, t),
         Head(w).type = "mode", Head(w).tab = t,
         NEW fr2,
         \A e \in FramesOf(t) : e # Head(w).frame => fr2[e] = fr[e],
         Head(w).frame \in T /\ fr[Head(w).frame] # "unborn" => fr2[Head(w).frame] = Head(w).mode,
         Head(w).frame \notin T \/ fr[Head(w).frame] = "unborn" => fr2 = fr
  PROVE  RouteSound(Tail(w), pn, K, g, fr2, T, D, l, t)
<1> DEFINE m == Head(w)
<1> DEFINE w2 == Tail(w)
<1> DEFINE f == m.frame
<1>1. m \in Traffic /\ m.type = "mode" /\ m.tab = t
  BY MeetsTail
<1>2. /\ \A e \in FramesOf(t) : e # f => fr2[e] = fr[e]
      /\ f \in T /\ fr[f] # "unborn" => fr2[f] = m.mode
      /\ f \notin T \/ fr[f] = "unborn" => fr2 = fr
  OBVIOUS
<1>3. /\ \A X : Meets(w, X) /\ m \notin X => Meets(w2, X)
      /\ \A X : Meets(w2, X) => Meets(w, X)
      /\ \A B, G : FollowedBy(w, B, G) => FollowedBy(w2, B, G)
      /\ \A B, G : FollowedBy(w, B, G) /\ m \in B => Meets(w2, G)
  BY MeetsTail
<1> HIDE DEF m, w2
<1>4. m.mode \in SentModes /\ m.mode # "unborn" /\ g # "unborn"
  BY <1>1, RoutingAssumption DEF Traffic, SentModes
<1>5. /\ m \notin Loadings(t) /\ \A e : m \notin Hellos(t, e)
      /\ \A e : m \in RightModes(t, e, g) => e = f
      /\ m.mode # g => m \in WrongModes(t, f, g)
  BY <1>1 DEF Loadings, Hellos, RightModes, WrongModes
<1>6. \A e \in FramesOf(t) : fr2[e] = "unborn" <=> fr[e] = "unborn"
  BY <1>2, <1>4
<1>7. ~Meets(w2, Strangers(t)) /\ \A e \in FramesOf(t) : e \in D => fr2[e] = "unborn"
  BY <1>3, <1>6 DEF RouteSound
<1>8. TopWillSayHello(w2, D, T, t)
  BY <1>3, <1>5 DEF RouteSound, TopWillSayHello
<1>9. ~l => ListedCanHear(w2, fr2, T, t)
  BY <1>3, <1>5, <1>6 DEF RouteSound, ListedCanHear
<1>10. LastModeIsRight(w2, K, g, t)
  BY <1>3 DEF RouteSound, LastModeIsRight
<1>11. RoutesAgain(w, pn, K, T, t) => RoutesAgain(w2, pn, K, T, t)
  BY <1>3, <1>5 DEF RoutesAgain
<1>12. ASSUME ~l, NEW e \in routeableFrames(K)
       PROVE  fr2[e] = g \/ Meets(w2, RightModes(t, e, g)) \/ RoutesAgain(w2, pn, K, T, t)
  <2>1. e \in FramesOf(t) /\ K \subseteq FramesOf(t)
    BY RoutingAssumption DEF RouteSound, TreeIsTold, routeableFrames
  <2>2. fr[e] = g \/ Meets(w, RightModes(t, e, g)) \/ RoutesAgain(w, pn, K, T, t)
    BY <1>12 DEF RouteSound, ModesComeTrue
  <2>3. CASE e # f
    BY <2>1, <2>2, <2>3, <1>2, <1>3, <1>5, <1>11
  <2>4. CASE e = f /\ ~RoutesAgain(w, pn, K, T, t)
    <3>1. T # {} /\ ~Meets(pn, OtherSessions(K)) /\ ~Meets(w, Loadings(t))
      BY <2>4 DEF RoutesAgain
    <3>2. K = T \/ (K = {} /\ T = FramesOf(t))
      <4>1. K # T => SameSession(T) \subseteq OtherSessions(K)
        BY DEF SameSession, OtherSessions
      <4>2. K # T => ~Meets(pn, SameSession(T))
        BY <3>1, <4>1 DEF Meets
      <4>3. QED BY <4>2 DEF RouteSound, TreeIsTold
    <3>3. f \in T
      BY <3>1, <3>2, <1>12, <2>4, RoutingAssumption DEF routeableFrames
    <3>4. fr[f] # "unborn"
      BY <3>1, <3>3, <2>1, <2>4, <1>12 DEF RouteSound, ListedCanHear
    <3>5. fr2[f] = m.mode
      BY <3>3, <3>4, <1>2
    <3>6. m.mode # g => Meets(w2, RightModes(t, f, g))
      BY <1>3, <1>5, <1>12, <2>4 DEF RouteSound, LastModeIsRight
    <3>7. QED BY <3>5, <3>6, <2>4
  <2>5. QED BY <2>3, <2>4, <1>11
<1>13. QED BY <1>7, <1>8, <1>9, <1>10, <1>12 DEF RouteSound, ModesComeTrue, w2

\* What the worker has listed is on its way to the panel.
LEMMA TreeTold ==
  ASSUME NEW t \in Pages, NEW pn \in Seq(Traffic), NEW K, NEW T, TreeIsTold(pn, K, T, t), NEW T2 \in SUBSET FramesOf(t)
  PROVE  LET p == Append(pn, [type |-> "session", frames |-> T2]) IN
         /\ TreeIsTold(p, K, T2, t)
         /\ \A X : Meets(pn, X) => Meets(p, X)
         /\ K # T2 => Meets(p, OtherSessions(K))
<1> DEFINE m == [type |-> "session", frames |-> T2]
<1> DEFINE p == Append(pn, m)
<1>1. m \in Traffic /\ m \in SameSession(T2) /\ m \notin OtherSessions(T2) /\ (K # T2 => m \in OtherSessions(K))
  <2>1. m \in Traffic
    BY DEF Traffic, AllFrames
  <2>2. QED BY <2>1 DEF SameSession, OtherSessions
<1>2. m \notin Strangers(t)
  BY DEF Strangers
<1> HIDE DEF m
<1>3. /\ \A X : Meets(pn, X) \/ m \in X => Meets(p, X)
      /\ \A X : Meets(p, X) => Meets(pn, X) \/ m \in X
      /\ \A B, G : m \in G /\ m \notin B => FollowedBy(p, B, G)
  BY <1>1, MeetsAppend
<1> HIDE DEF p
<1>4. TreeIsTold(p, K, T2, t)
  BY <1>1, <1>2, <1>3 DEF TreeIsTold
<1>5. QED BY <1>1, <1>3, <1>4 DEF p, m

\* The worker hears that the tab loads: it lists no frame of it.
LEMMA RouteLoadingTaken ==
  ASSUME NEW t \in Pages, NEW w \in Seq(Traffic), w # <<>>, NEW pn \in Seq(Traffic), NEW K, NEW g, NEW fr, NEW T, NEW D, NEW l,
         RouteSound(w, pn, K, g, fr, T, D, l, t),
         Head(w).type = "loading", Head(w).tab = t
  PROVE  RouteSound(Tail(w), Append(pn, [type |-> "session", frames |-> {}]), K, g, fr, {}, D, l, t)
<1> DEFINE m == Head(w)
<1> DEFINE w2 == Tail(w)
<1> DEFINE p == Append(pn, [type |-> "session", frames |-> {}])
<1>1. m \in Traffic /\ m.type = "loading" /\ m.tab = t
  BY MeetsTail
<1>2. /\ \A X : Meets(w, X) /\ m \notin X => Meets(w2, X)
      /\ \A X : Meets(w2, X) => Meets(w, X)
      /\ \A B, G : FollowedBy(w, B, G) => FollowedBy(w2, B, G)
      /\ \A B, G : FollowedBy(w, B, G) /\ m \in B => Meets(w2, G)
  BY MeetsTail
<1>3. TreeIsTold(p, K, {}, t)
  BY TreeTold, Zenon DEF RouteSound
<1> HIDE DEF m, w2, p
<1>4. m \in Loadings(t)
  BY <1>1 DEF Loadings
<1>5. TopWillSayHello(w2, D, {}, t)
  BY <1>2, <1>4 DEF RouteSound, TopWillSayHello
<1>6. ~l => ListedCanHear(w2, fr, {}, t)
  BY <1>2 DEF RouteSound, ListedCanHear
<1>7. LastModeIsRight(w2, K, g, t)
  BY <1>2 DEF RouteSound, LastModeIsRight
<1>8. ModesComeTrue(w2, p, K, g, fr, {}, t)
  BY DEF ModesComeTrue, RoutesAgain
<1>9. ~Meets(w2, Strangers(t)) /\ \A e \in FramesOf(t) : e \in D => fr[e] = "unborn"
  BY <1>2 DEF RouteSound
<1>10. QED BY <1>3, <1>5, <1>6, <1>7, <1>8, <1>9 DEF RouteSound, w2, p

\* The worker hears a hello of a frame that it lists.
LEMMA RouteHelloKnown ==
  ASSUME NEW t \in Pages, NEW w \in Seq(Traffic), w # <<>>, NEW pn, NEW K, NEW g, NEW fr, NEW T, NEW D, NEW l,
         RouteSound(w, pn, K, g, fr, T, D, l, t),
         Head(w).type = "hello", T # {}
  PROVE  RouteSound(Tail(w), pn, K, g, fr, T, D, l, t)
<1> DEFINE m == Head(w)
<1> DEFINE w2 == Tail(w)
<1>2. /\ \A X : Meets(w, X) /\ m \notin X => Meets(w2, X)
      /\ \A X : Meets(w2, X) => Meets(w, X)
      /\ \A B, G : FollowedBy(w, B, G) => FollowedBy(w2, B, G)
  BY MeetsTail
<1>4. m \notin Loadings(t) /\ \A e : m \notin RightModes(t, e, g)
  BY DEF Loadings, RightModes
<1> HIDE DEF m, w2
<1>5. TopWillSayHello(w2, D, T, t)
  BY <1>2 DEF RouteSound, TopWillSayHello
<1>6. ~l => ListedCanHear(w2, fr, T, t)
  BY <1>2, <1>4 DEF RouteSound, ListedCanHear
<1>7. LastModeIsRight(w2, K, g, t)
  BY <1>2 DEF RouteSound, LastModeIsRight
<1>8. ~l => ModesComeTrue(w2, pn, K, g, fr, T, t)
  <2>1. RoutesAgain(w, pn, K, T, t) => RoutesAgain(w2, pn, K, T, t)
    BY <1>2, <1>4 DEF RoutesAgain
  <2>2. QED BY <2>1, <1>2, <1>4 DEF RouteSound, ModesComeTrue
<1>9. ~Meets(w2, Strangers(t))
  BY <1>2 DEF RouteSound
<1>10. QED BY <1>5, <1>6, <1>7, <1>8, <1>9 DEF RouteSound, w2

\* The worker lists more frames: because of a hello, or of a discovery.
LEMMA RouteListed ==
  ASSUME NEW t \in Pages, NEW w \in Seq(Traffic), w # <<>>, NEW pn \in Seq(Traffic), NEW K, NEW g, NEW fr, NEW T, NEW D, NEW l,
         RouteSound(w, pn, K, g, fr, T, D, l, t),
         Head(w).type \in {"hello", "frames"}, Head(w).tab = t,
         NEW T2 \in SUBSET FramesOf(t), T2 # {},
         \A f \in T2 \ T : Head(w) \in Listing(t, f)
  PROVE  RouteSound(Tail(w), Append(pn, [type |-> "session", frames |-> T2]), K, g, fr, T2, D, l, t)
<1> DEFINE m == Head(w)
<1> DEFINE w2 == Tail(w)
<1> DEFINE p == Append(pn, [type |-> "session", frames |-> T2])
<1>2. /\ \A X : Meets(w, X) /\ m \notin X => Meets(w2, X)
      /\ \A X : Meets(w2, X) => Meets(w, X)
      /\ \A B, G : FollowedBy(w, B, G) => FollowedBy(w2, B, G)
      /\ \A B, G : FollowedBy(w, B, G) /\ m \in B => Meets(w2, G)
  BY MeetsTail
<1>3. /\ TreeIsTold(p, K, T2, t)
      /\ \A X : Meets(pn, X) => Meets(p, X)
      /\ K # T2 => Meets(p, OtherSessions(K))
  BY TreeTold DEF RouteSound
<1>4. m \notin Loadings(t) /\ (\A e : m \notin RightModes(t, e, g)) /\ \A f \in T2 \ T : m \in Listing(t, f)
  BY DEF Loadings, RightModes
<1> HIDE DEF m, w2, p
<1>5. TopWillSayHello(w2, D, T2, t)
  BY <1>2 DEF RouteSound, TopWillSayHello
<1>6. ~l => ListedCanHear(w2, fr, T2, t)
  BY <1>2, <1>4 DEF RouteSound, ListedCanHear
<1>7. LastModeIsRight(w2, K, g, t)
  BY <1>2 DEF RouteSound, LastModeIsRight
<1>8. RoutesAgain(w, pn, K, T, t) => RoutesAgain(w2, p, K, T2, t)
  <2>1. CASE Meets(pn, OtherSessions(K)) \/ Meets(w, Loadings(t))
    BY <2>1, <1>2, <1>3, <1>4 DEF RoutesAgain
  <2>2. CASE T = {} /\ K = T2
    <3>1. Meets(pn, SameSession({}))
      BY <2>2 DEF RouteSound, TreeIsTold
    <3>2. SameSession({}) \subseteq OtherSessions(K)
      BY <2>2 DEF SameSession, OtherSessions
    <3>3. Meets(pn, OtherSessions(K))
      BY <3>1, <3>2 DEF Meets
    <3>4. QED BY <3>3, <1>3 DEF RoutesAgain
  <2>3. CASE K # T2
    BY <2>3, <1>3 DEF RoutesAgain
  <2>4. QED BY <2>1, <2>2, <2>3 DEF RoutesAgain
<1>9. ~l => ModesComeTrue(w2, p, K, g, fr, T2, t)
  BY <1>2, <1>4, <1>8 DEF RouteSound, ModesComeTrue
<1>10. ~Meets(w2, Strangers(t)) /\ \A e \in FramesOf(t) : e \in D => fr[e] = "unborn"
  BY <1>2 DEF RouteSound
<1>11. QED BY <1>3, <1>5, <1>6, <1>7, <1>9, <1>10 DEF RouteSound, w2, p

\* A page tells a status: whoever says nothing of it is told last.
LEMMA StatusSaid ==
  ASSUME NEW w \in Seq(Traffic), NEW pn, NEW status, NEW s \in Statuses
  PROVE  StatusSound(Append(w, [type |-> "status", status |-> s]), pn, status, s)
<1> DEFINE m == [type |-> "status", status |-> s]
<1>1. m \in Traffic
  BY DEF Traffic
<1>2. m \in SameStatus(s) /\ m \notin OtherStatus(s)
  BY <1>1 DEF SameStatus, OtherStatus
<1> HIDE DEF m
<1> DEFINE w2 == Append(w, m)
<1>3. /\ \A X : Meets(w, X) \/ m \in X => Meets(w2, X)
      /\ \A B, G : m \in G /\ m \notin B => FollowedBy(w2, B, G)
  BY <1>1, MeetsAppend
<1> HIDE DEF w2
<1>4. StatusSound(w2, pn, status, s)
  BY <1>2, <1>3 DEF StatusSound
<1>5. QED BY <1>4 DEF w2, m

\* The worker broadcasts a status.
LEMMA StatusTaken ==
  ASSUME NEW w \in Seq(Traffic), w # <<>>, NEW pn \in Seq(Traffic), NEW status, NEW s,
         StatusSound(w, pn, status, s), Head(w).type = "status"
  PROVE  StatusSound(Tail(w), Append(pn, Head(w)), status, s)
<1> DEFINE m == Head(w)
<1> DEFINE w2 == Tail(w)
<1> DEFINE p == Append(pn, m)
<1>1. m \in Traffic /\ m.type = "status"
  BY MeetsTail
<1>2. /\ \A B, G : FollowedBy(w, B, G) => FollowedBy(w2, B, G)
      /\ \A B, G : FollowedBy(w, B, G) /\ m \in B => Meets(w2, G)
  BY MeetsTail
<1>3. /\ \A X : Meets(pn, X) \/ m \in X => Meets(p, X)
      /\ \A B, G : m \in G /\ m \notin B => FollowedBy(p, B, G)
  BY <1>1, MeetsAppend
<1> HIDE DEF m, w2, p
<1>4. (m \in SameStatus(s) /\ m \notin OtherStatus(s)) \/ m \in OtherStatus(s)
  BY <1>1 DEF SameStatus, OtherStatus
<1>5. StatusSound(w2, p, status, s)
  BY <1>2, <1>3, <1>4 DEF StatusSound
<1>6. QED BY <1>5 DEF m, w2, p

\* The panel hears a status, or something else.
LEMMA StatusHeard ==
  ASSUME NEW pn \in Seq(Traffic), pn # <<>>, NEW w, NEW status, NEW s,
         StatusSound(w, pn, status, s),
         NEW after, Head(pn).type = "status" => after = Head(pn).status,
         Head(pn).type # "status" => after = status
  PROVE  StatusSound(w, Tail(pn), after, s)
<1> DEFINE m == Head(pn)
<1> DEFINE p == Tail(pn)
<1>1. m \in Traffic
  BY MeetsTail
<1>2. /\ \A X : Meets(pn, X) /\ m \notin X => Meets(p, X)
      /\ \A B, G : FollowedBy(pn, B, G) => FollowedBy(p, B, G)
      /\ \A B, G : FollowedBy(pn, B, G) /\ m \in B => Meets(p, G)
  BY MeetsTail
<1>3. (m.type = "status" => after = m.status) /\ (m.type # "status" => after = status)
  OBVIOUS
<1> HIDE DEF m, p
<1>4. /\ m.type = "status" => (m \in SameStatus(s) /\ after = s) \/ m \in OtherStatus(s)
      /\ m.type # "status" => m \notin SameStatus(s) /\ m \notin OtherStatus(s)
  BY <1>1, <1>3 DEF SameStatus, OtherStatus
<1>5. StatusSound(w, p, after, s)
  <2>1. CASE m.type # "status"
    BY <2>1, <1>2, <1>3, <1>4 DEF StatusSound
  <2>2. CASE m.type = "status"
    BY <2>2, <1>2, <1>3, <1>4 DEF StatusSound
  <2>3. QED BY <2>1, <2>2
<1>6. QED BY <1>5 DEF p

------------------------------------------------------------------------------
(* The operations of a page, numbered.                                     *)

\* The first operation under way has the next number.
LEMMA FirstOperation ==
  ASSUME NEW q \in Seq(Traffic), q # <<>>, NEW type \in {"operation", "trusted"}, NEW t, NEW lo \in Nat, NEW hi \in Nat,
         Numbered(q, type, t, lo, hi), Head(q).type = type, Head(q).tab = t
  PROVE  /\ Head(q).op = <<t, lo + 1>> /\ lo + 1 <= hi
         /\ Numbered(Tail(q), type, t, lo + 1, hi)
<1> DEFINE m == Head(q)
<1> DEFINE r == Tail(q)
<1>1. m \in Traffic /\ m.type = type /\ m.tab = t
  BY MeetsTail
<1>2. /\ \A X : Meets(q, X) /\ m \notin X => Meets(r, X)
      /\ \A X : Meets(r, X) => Meets(q, X)
      /\ \A A, B : NoneAfter(q, A, B) => NoneAfter(r, A, B)
      /\ \A A, B : NoneAfter(q, A, B) /\ m \in A => ~Meets(r, B)
  BY MeetsTail
<1>3. \A X : m \in X => Meets(q, X)
  <2>1. 1 \in 1..Len(q) /\ m = q[1]
    OBVIOUS
  <2>2. QED BY <2>1 DEF Meets
<1> HIDE DEF m, r
<1>4. m \notin Unnumbered(type, t, lo, hi)
  BY <1>3 DEF Numbered
<1>5. PICK k \in Nat : lo < k /\ k <= hi /\ m.op = <<t, k>>
  BY <1>1, <1>4 DEF Unnumbered
<1>6. m \in OperationMessage(type, t, k) /\ \A i \in Nat : i # k => m \notin OperationMessage(type, t, i)
  BY <1>1, <1>5 DEF OperationMessage
<1>7. lo + 1 \in Nat /\ lo < lo + 1 /\ lo + 1 <= k /\ lo + 1 <= hi
  BY <1>5
<1>8. ~Meets(r, OperationMessage(type, t, lo + 1))
  BY <1>2, <1>6, <1>7 DEF Numbered
<1>9. k = lo + 1
  BY <1>2, <1>6, <1>7, <1>8 DEF Numbered
<1>10. Numbered(r, type, t, lo + 1, hi)
  <2>1. Unnumbered(type, t, lo + 1, hi) \subseteq Unnumbered(type, t, lo, hi) \cup OperationMessage(type, t, lo + 1)
    <3>1. SUFFICES ASSUME NEW x \in Unnumbered(type, t, lo + 1, hi)
                   PROVE  x \in Unnumbered(type, t, lo, hi) \cup OperationMessage(type, t, lo + 1)
      OBVIOUS
    <3>2. x \in Traffic /\ x.type = type /\ x.tab = t /\ ~ \E i \in Nat : lo + 1 < i /\ i <= hi /\ x.op = <<t, i>>
      BY DEF Unnumbered
    <3>3. CASE \E i \in Nat : lo < i /\ i <= hi /\ x.op = <<t, i>>
      <4>1. PICK i \in Nat : lo < i /\ i <= hi /\ x.op = <<t, i>>
        BY <3>3
      <4>2. ~(lo + 1 < i)
        BY <3>2, <4>1
      <4>3. i = lo + 1
        BY <4>1, <4>2
      <4>4. QED BY <3>2, <4>1, <4>3 DEF OperationMessage
    <3>4. CASE ~ \E i \in Nat : lo < i /\ i <= hi /\ x.op = <<t, i>>
      BY <3>2, <3>4 DEF Unnumbered
    <3>5. QED BY <3>3, <3>4
  <2>2. ~Meets(r, Unnumbered(type, t, lo + 1, hi))
    <3>1. ~Meets(r, Unnumbered(type, t, lo, hi))
      BY <1>2 DEF Numbered
    <3>2. QED BY <3>1, <2>1, <1>8 DEF Meets
  <2>3. ASSUME NEW i \in Nat, lo + 1 < i, i <= hi PROVE Meets(r, OperationMessage(type, t, i))
    <3>1. lo < i /\ i # k
      BY <2>3, <1>9
    <3>2. QED BY <3>1, <2>3, <1>2, <1>6 DEF Numbered
  <2>4. \A i, j \in Nat : i <= j => NoneAfter(r, OperationMessage(type, t, j), OperationMessage(type, t, i))
    BY <1>2 DEF Numbered
  <2>5. QED BY <2>2, <2>3, <2>4 DEF Numbered
<1>11. QED BY <1>5, <1>7, <1>9, <1>10 DEF m, r

\* One operation more is under way.
LEMMA LastOperation ==
  ASSUME NEW q \in Seq(Traffic), NEW type \in {"operation", "trusted"}, NEW t, NEW lo \in Nat, NEW hi \in Nat, lo <= hi,
         Numbered(q, type, t, lo, hi),
         NEW m \in Traffic, m.type = type, m.tab = t, m.op = <<t, hi + 1>>
  PROVE  Numbered(Append(q, m), type, t, lo, hi + 1)
<1> DEFINE r == Append(q, m)
<1>1. /\ \A X : Meets(q, X) \/ m \in X => Meets(r, X)
      /\ \A X : Meets(r, X) => Meets(q, X) \/ m \in X
      /\ \A A, B : NoneAfter(q, A, B) /\ m \notin B => NoneAfter(r, A, B)
      /\ \A A, B : ~Meets(q, A) => NoneAfter(r, A, B)
  BY MeetsAppend
<1> HIDE DEF r
<1>2. m \in OperationMessage(type, t, hi + 1) /\ \A i \in Nat : i # hi + 1 => m \notin OperationMessage(type, t, i)
  BY DEF OperationMessage
<1>3. m \notin Unnumbered(type, t, lo, hi + 1)
  BY DEF Unnumbered
<1>4. Unnumbered(type, t, lo, hi + 1) \subseteq Unnumbered(type, t, lo, hi)
  BY DEF Unnumbered
<1>5. ~Meets(r, Unnumbered(type, t, lo, hi + 1))
  BY <1>1, <1>3, <1>4, Zenon DEF Numbered, Meets
<1>6. ASSUME NEW i \in Nat, lo < i, i <= hi + 1 PROVE Meets(r, OperationMessage(type, t, i))
  <2>1. i <= hi \/ i = hi + 1
    BY <1>6
  <2>2. QED BY <2>1, <1>1, <1>2, <1>6 DEF Numbered
<1>7. ASSUME NEW i \in Nat, NEW j \in Nat, i <= j
      PROVE  NoneAfter(r, OperationMessage(type, t, j), OperationMessage(type, t, i))
  <2>1. CASE i # hi + 1
    BY <2>1, <1>1, <1>2, <1>7 DEF Numbered
  <2>2. CASE i = hi + 1
    <3>1. OperationMessage(type, t, j) \subseteq Unnumbered(type, t, lo, hi)
      <4>1. \A i2 \in Nat : i2 <= hi => <<t, i2>> # <<t, j>>
        BY <2>2, <1>7
      <4>2. QED BY <4>1 DEF OperationMessage, Unnumbered
    <3>2. ~Meets(q, OperationMessage(type, t, j))
      BY <3>1 DEF Numbered, Meets
    <3>3. QED BY <3>2, <1>1
  <2>3. QED BY <2>1, <2>2
<1>8. QED BY <1>5, <1>6, <1>7 DEF Numbered, r

\* The page records an operation.
LEMMA OperationSaid ==
  ASSUME NEW t \in Pages, NEW w \in Seq(Traffic), NEW pn, NEW list \in Seq(Pages \X Nat), NEW n \in Nat,
         OperationsSound(w, pn, list, n, t)
  PROVE  OperationsSound(Append(w, [type |-> "operation", tab |-> t, op |-> <<t, n + 1>>]), pn, list, n + 1, t)
<1> DEFINE m == [type |-> "operation", tab |-> t, op |-> <<t, n + 1>>]
<1>1. m \in Traffic /\ m.type = "operation" /\ m.tab = t /\ m.op = <<t, n + 1>>
  BY DEF Traffic
<1> HIDE DEF m
<1>2. PICK c \in Nat : /\ Numbered(pn, "trusted", t, Len(list), c) /\ Numbered(w, "operation", t, c, n)
                       /\ Len(list) <= c /\ c <= n
  BY DEF OperationsSound
<1>3. Numbered(Append(w, m), "operation", t, c, n + 1)
  BY <1>1, <1>2, LastOperation
<1>4. c <= n + 1
  BY <1>2
<1>5. QED BY <1>2, <1>3, <1>4, Zenon DEF OperationsSound, m

\* The worker vouches for an operation of the page.
LEMMA OperationTaken ==
  ASSUME NEW t \in Pages, NEW w \in Seq(Traffic), w # <<>>, NEW pn \in Seq(Traffic), NEW list \in Seq(Pages \X Nat), NEW n \in Nat,
         OperationsSound(w, pn, list, n, t), Head(w).type = "operation", Head(w).tab = t
  PROVE  OperationsSound(Tail(w), Append(pn, Vouched(Head(w))), list, n, t)
<1> DEFINE m == Head(w)
<1>1. PICK c \in Nat : /\ Numbered(pn, "trusted", t, Len(list), c) /\ Numbered(w, "operation", t, c, n)
                       /\ Len(list) <= c /\ c <= n
  BY DEF OperationsSound
<1>2. m.op = <<t, c + 1>> /\ c + 1 <= n /\ Numbered(Tail(w), "operation", t, c + 1, n)
  BY <1>1, FirstOperation, Zenon
<1>3. m \in Traffic /\ m.type = "operation" /\ m.tab = t
  BY MeetsTail
<1> HIDE DEF m
<1> DEFINE v == Vouched(m)
<1>4. v \in Traffic /\ v.type = "trusted" /\ v.tab = t /\ v.op = <<t, c + 1>>
  BY <1>2, <1>3, Zenon DEF Vouched, Traffic
<1> HIDE DEF v
<1>5. Numbered(Append(pn, v), "trusted", t, Len(list), c + 1)
  <2>1. Len(list) \in Nat
    OBVIOUS
  <2>2. QED BY <2>1, <1>1, <1>4, LastOperation
<1>6. c + 1 \in Nat /\ Len(list) <= c + 1
  BY <1>1
<1>7. QED BY <1>1, <1>2, <1>5, <1>6, Zenon DEF OperationsSound, v, m

\* The panel takes an operation of its page: the next, that it has not taken yet.
LEMMA OperationHeard ==
  ASSUME NEW t \in Pages, NEW pn \in Seq(Traffic), pn # <<>>, NEW w, NEW list \in Seq(Pages \X Nat), NEW n \in Nat,
         OperationsSound(w, pn, list, n, t), Head(pn).type = "trusted", Head(pn).tab = t
  PROVE  OperationsSound(w, Tail(pn), subscribePanelOperations(t, Head(pn), list), n, t)
<1> DEFINE m == Head(pn)
<1> DEFINE k == Len(list)
<1>1. PICK c \in Nat : /\ Numbered(pn, "trusted", t, k, c) /\ Numbered(w, "operation", t, c, n)
                       /\ k <= c /\ c <= n
  BY DEF OperationsSound
<1>2. k \in Nat
  OBVIOUS
<1>3. m.op = <<t, k + 1>> /\ k + 1 <= c /\ Numbered(Tail(pn), "trusted", t, k + 1, c)
  BY <1>1, <1>2, FirstOperation, Zenon
<1>4. \A i \in 1..k : list[i] = <<t, i>>
  BY Zenon DEF OperationsSound
<1>5. m.type = "trusted" /\ m.tab = t
  OBVIOUS
<1> DEFINE new == Append(list, m.op)
<1>6. Len(new) = k + 1 /\ (\A i \in 1..k : new[i] = list[i]) /\ new[k + 1] = m.op
  OBVIOUS
<1> HIDE DEF m
<1>7. m.op \notin ToSet(list)
  <2>1. \A i \in 1..k : <<t, i>> # <<t, k + 1>>
    BY <1>2
  <2>2. QED BY <2>1, <1>3, <1>4 DEF ToSet
<1>8. subscribePanelOperations(t, m, list) = new
  BY <1>5, <1>7 DEF subscribePanelOperations
<1>9. \A i \in 1..Len(new) : new[i] = <<t, i>>
  BY <1>2, <1>3, <1>4, <1>6
<1>10. OperationsSound(w, Tail(pn), new, n, t)
  BY <1>1, <1>3, <1>6, <1>9, Zenon DEF OperationsSound
<1>11. QED BY <1>8, <1>10, Zenon DEF m

------------------------------------------------------------------------------
(* What a step does to a tab.                                              *)

\* Only the frames and the mode are concerned.
LEMMA OnlyTheRoute ==
  ASSUME NEW w, NEW pn, NEW v, NEW fr, NEW T, NEW D, NEW n, NEW l, NEW t, TabTold(w, pn, v, fr, T, D, n, l, t),
         NEW w2, NEW pn2, NEW fr2, NEW T2, NEW D2, NEW l2,
         SameAbout(w, w2, StatusTraffic \cup OperationTraffic(t)),
         SameAbout(pn, pn2, StatusTraffic \cup OperationTraffic(t)),
         RouteSound(w2, pn2, v.frames, Routed(v.mode), fr2, T2, D2, l2, t)
  PROVE  TabTold(w2, pn2, v, fr2, T2, D2, n, l2, t)
<1> DEFINE C == StatusTraffic \cup OperationTraffic(t)
<1>1. \A E \in SUBSET C : SameAbout(w, w2, E) /\ SameAbout(pn, pn2, E)
  BY SameOfPart
<1>2. StatusTraffic \in SUBSET C /\ OperationTraffic(t) \in SUBSET C
  OBVIOUS
<1> HIDE DEF C
<1>3. OperationsSound(w2, pn2, v.recorded, n.ops, t)
  BY <1>1, <1>2, SameOperations, Zenon DEF TabTold
<1>4. StatusSound(w2, pn2, v.status, n.told)
  BY <1>1, <1>2, SameStatusTold, Zenon DEF TabTold
<1>5. QED BY <1>3, <1>4 DEF TabTold

\* A discovery of another tab's frames excuses this one's.
LEMMA LaterIsLess ==
  ASSUME NEW w, NEW pn, NEW v, NEW fr, NEW T, NEW D, NEW n, NEW l, NEW t, TabTold(w, pn, v, fr, T, D, n, l, t),
         NEW l2, l => l2
  PROVE  TabTold(w, pn, v, fr, T, D, n, l2, t)
BY DEF TabTold, RouteSound

\* A panel becomes p and its effect routes the mode if the mode or the frames differ.
LEMMA PanelRenders ==
  ASSUME NEW t \in Pages, NEW w \in Seq(Traffic), NEW pn, NEW fr, NEW T, NEW D, NEW n, NEW l,
         NEW p \in Panels,
         ~Meets(w, Strangers(t)), TreeIsTold(pn, p.frames, T, t), TopWillSayHello(w, D, T, t),
         \A f \in FramesOf(t) : f \in D => fr[f] = "unborn",
         ~l => ListedCanHear(w, fr, T, t),
         p.route = <<Routed(p.mode), p.frames>> => RouteSound(w, pn, p.frames, Routed(p.mode), fr, T, D, l, t),
         OperationsSound(w, pn, p.recorded, n.ops, t), StatusSound(w, pn, p.status, n.told)
  PROVE  /\ routeMode(t, p, w)[1] \in Panels /\ routeMode(t, p, w)[2] \in Seq(Traffic)
         /\ TabTold(routeMode(t, p, w)[2], pn, routeMode(t, p, w)[1], fr, T, D, n, l, t)
         /\ \A u : u # t => SameAbout(w, routeMode(t, p, w)[2], Concerning(u))
<1> DEFINE g == Routed(p.mode)
<1> DEFINE K == p.frames
<1>1. g \in SentModes /\ K \in SUBSET FramesOf(t)
  BY DEF Panels, Routed, SentModes, TreeIsTold
<1>2. CASE p.route = <<g, K>>
  <2>1. routeMode(t, p, w) = <<p, w>>
    BY <1>2 DEF routeMode
  <2>3. TabTold(w, pn, p, fr, T, D, n, l, t)
    BY <1>2 DEF TabTold
  <2>4. \A u : SameAbout(w, w, Concerning(u))
    BY SameIsSame
  <2>5. QED BY <2>1, <2>3, <2>4
<1>3. CASE p.route # <<g, K>>
  <2> DEFINE x == ModeMessages(t, g, K)
  <2> DEFINE w2 == w \o x
  <2> DEFINE v2 == [p EXCEPT !.route = <<g, K>>]
  <2>1. routeMode(t, p, w) = <<v2, w2>>
    BY <1>3, Zenon DEF routeMode
  <2>2. /\ v2 \in Panels /\ v2.mode = p.mode /\ v2.frames = K /\ v2.status = p.status /\ v2.recorded = p.recorded
        /\ v2.route = <<g, K>>
    BY <1>1, Zenon DEF Panels, AllFrames
  <2>3. /\ x \in Seq(Traffic)
        /\ \A u : u # t => ~Meets(x, Concerning(u))
    BY <1>1, WhatIsRouted
  <2>4. RouteSound(w2, pn, K, g, fr, T, D, l, t)
    BY <1>1, ModeIsRouted
  <2>5. \A i \in 1..Len(x) : x[i].type = "mode"
    BY <1>1, EachFrameIsTold
  <2> HIDE DEF x
  <2>6. ~Meets(x, StatusTraffic) /\ ~Meets(x, OperationTraffic(t))
    BY <2>5 DEF Meets, StatusTraffic, OperationTraffic
  <2>7. w2 \in Seq(Traffic)
    BY <2>3
  <2>8. /\ \A u : u # t => SameAbout(w, w2, Concerning(u))
        /\ SameAbout(w, w2, StatusTraffic) /\ SameAbout(w, w2, OperationTraffic(t))
    BY <2>3, <2>6, OthersPut
  <2> HIDE DEF w2
  <2>9. SameAbout(pn, pn, StatusTraffic) /\ SameAbout(pn, pn, OperationTraffic(t))
    BY SameIsSame
  <2>10. OperationsSound(w2, pn, p.recorded, n.ops, t)
    BY <2>8, <2>9, SameOperations
  <2>11. StatusSound(w2, pn, p.status, n.told)
    BY <2>8, <2>9, SameStatusTold
  <2> HIDE DEF v2
  <2>12. TabTold(w2, pn, v2, fr, T, D, n, l, t)
    BY <2>2, <2>4, <2>10, <2>11 DEF TabTold
  <2>13. QED BY <2>1, <2>2, <2>7, <2>8, <2>12
<1>4. QED BY <1>2, <1>3

\* What is known of a tab's panel and its messages.
LEMMA TabTyped ==
  ASSUME MessagesSound, NEW t \in Pages
  PROVE  /\ view[t] \in Panels /\ toPanel[t] \in Seq(Traffic) /\ toWorker \in Seq(Traffic)
         /\ frame[t] \in [FramesOf(t) -> SentModes \cup {"unborn"}]
         /\ number[t] \in [ops : Nat, told : Statuses]
         /\ TabTold(toWorker, toPanel[t], view[t], frame[t], tree[t], due[t], number[t], late, t)
BY DEF MessagesSound, RoutingTyped

\* A tab that a step does not concern.
LEMMA Untouched ==
  ASSUME MessagesSound, NEW u \in Pages, NEW w2, SameAbout(toWorker, w2, Concerning(u)),
         NEW pn2, SameAbout(toPanel[u], pn2, Concerning(u))
  PROVE  TabTold(w2, pn2, view[u], frame[u], tree[u], due[u], number[u], late, u)
<1>1. TabTold(toWorker, toPanel[u], view[u], frame[u], tree[u], due[u], number[u], late, u)
  BY TabTyped
<1>2. QED BY <1>1, SameTold

\* The user chooses a mode.
LEMMA ChangeModeStep ==
  ASSUME MessagesSound, NEW t \in Pages, NEW m \in PageModes \cup Editors, ChangeMode(t, m)
  PROVE  MessagesSound'
<1> DEFINE v == view[t]
<1> DEFINE p == [v EXCEPT !.mode = IF v.mode = m THEN NoMode ELSE m]
<1> DEFINE w2 == routeMode(t, p, toWorker)[2]
<1> DEFINE v2 == routeMode(t, p, toWorker)[1]
<1>1. /\ view' = [view EXCEPT ![t] = v2] /\ toWorker' = w2
      /\ UNCHANGED <<frame, tree, due, toPanel, number, late>>
  BY DEF ChangeMode, Render
<1>2. RoutingTyped
  BY DEF MessagesSound
<1>3. v \in Panels /\ toWorker \in Seq(Traffic)
  BY TabTyped
<1>4. TabTold(toWorker, toPanel[t], v, frame[t], tree[t], due[t], number[t], late, t)
  BY TabTyped
<1> HIDE DEF v
<1>5. p \in Panels /\ p.route = v.route /\ p.frames = v.frames /\ p.recorded = v.recorded /\ p.status = v.status
  BY <1>3, Zenon DEF Panels
<1> HIDE DEF p
<1>6. /\ v2 \in Panels /\ w2 \in Seq(Traffic)
      /\ TabTold(w2, toPanel[t], v2, frame[t], tree[t], due[t], number[t], late, t)
      /\ \A u : u # t => SameAbout(toWorker, w2, Concerning(u))
  <2>1. /\ v.route = <<Routed(v.mode), v.frames>>
        /\ RouteSound(toWorker, toPanel[t], v.frames, Routed(v.mode), frame[t], tree[t], due[t], late, t)
        /\ OperationsSound(toWorker, toPanel[t], p.recorded, number[t].ops, t)
        /\ StatusSound(toWorker, toPanel[t], p.status, number[t].told)
    BY <1>4, <1>5 DEF TabTold
  <2>2. /\ ~Meets(toWorker, Strangers(t)) /\ TreeIsTold(toPanel[t], p.frames, tree[t], t)
        /\ TopWillSayHello(toWorker, due[t], tree[t], t)
        /\ \A f \in FramesOf(t) : f \in due[t] => frame[t][f] = "unborn"
        /\ ~late => ListedCanHear(toWorker, frame[t], tree[t], t)
    BY <2>1, <1>5 DEF RouteSound
  <2> DEFINE pn == toPanel[t]
  <2> DEFINE fr == frame[t]
  <2> DEFINE T == tree[t]
  <2> DEFINE D == due[t]
  <2> DEFINE n == number[t]
  <2> DEFINE w == toWorker
  <2> DEFINE l == late
  <2>3. ~Meets(w, Strangers(t)) /\ TreeIsTold(pn, p.frames, T, t) /\ TopWillSayHello(w, D, T, t)
    BY <2>2
  <2>4. \A f \in FramesOf(t) : f \in D => fr[f] = "unborn"
    BY <2>2
  <2>5. ~l => ListedCanHear(w, fr, T, t)
    BY <2>2
  <2>6. p.route = <<Routed(p.mode), p.frames>> => RouteSound(w, pn, p.frames, Routed(p.mode), fr, T, D, l, t)
    BY <2>1, <1>5
  <2>7. OperationsSound(w, pn, p.recorded, n.ops, t) /\ StatusSound(w, pn, p.status, n.told)
    BY <2>1
  <2>8. w \in Seq(Traffic) /\ p \in Panels /\ t \in Pages
    BY <1>3, <1>5
  <2> HIDE DEF pn, fr, T, D, n, w, l
  <2>9. /\ routeMode(t, p, w)[1] \in Panels /\ routeMode(t, p, w)[2] \in Seq(Traffic)
        /\ TabTold(routeMode(t, p, w)[2], pn, routeMode(t, p, w)[1], fr, T, D, n, l, t)
        /\ \A u : u # t => SameAbout(w, routeMode(t, p, w)[2], Concerning(u))
    BY <2>3, <2>4, <2>5, <2>6, <2>7, <2>8, PanelRenders, Zenon
  <2>10. QED BY <2>9 DEF pn, fr, T, D, n, w, l
<1> HIDE DEF v2, w2
<1>7. RoutingTyped'
  BY <1>1, <1>2, <1>6 DEF RoutingTyped
<1>8. ASSUME NEW u \in Pages
      PROVE  TabTold(w2, toPanel[u], view'[u], frame[u], tree[u], due[u], number[u], late, u)
  <2>1. CASE u = t
    BY <2>1, <1>1, <1>2, <1>6 DEF RoutingTyped
  <2>2. CASE u # t
    <3>1. view'[u] = view[u]
      BY <2>2, <1>1
    <3>2. SameAbout(toWorker, w2, Concerning(u)) /\ SameAbout(toPanel[u], toPanel[u], Concerning(u))
      BY <2>2, <1>6, SameIsSame
    <3>3. QED BY <3>1, <3>2, Untouched
  <2>3. QED BY <2>1, <2>2
<1>9. QED BY <1>1, <1>7, <1>8 DEF MessagesSound

\* A message of a page that concerns no tab's mode, frames or operations.
LEMMA SaidStep ==
  ASSUME MessagesSound, NEW m \in Traffic, m.type \in {"cleared", "status"}, SayToPanels(m),
         number' \in [Pages -> [ops : Nat, told : Statuses]],
         \A u \in Pages : number'[u].ops = number[u].ops,
         m.type = "cleared" => number' = number,
         m.type = "status" => m.status \in Statuses /\ \A u \in Pages : number'[u].told = m.status,
         UNCHANGED <<view, frame, tree, due, late>>
  PROVE  MessagesSound'
<1>1. RoutingTyped
  BY DEF MessagesSound
<1>2. toWorker' = Append(toWorker, m) /\ toPanel' = [u \in Pages |-> Append(toPanel[u], m)]
  BY DEF SayToPanels
<1>3. toWorker \in Seq(Traffic) /\ \A u \in Pages : toPanel[u] \in Seq(Traffic)
  BY DEF MessagesSound, RoutingTyped
<1>4. toWorker' \in Seq(Traffic) /\ toPanel' \in [Pages -> Seq(Traffic)]
  BY <1>2, <1>3
<1>5. RoutingTyped'
  BY <1>1, <1>4 DEF RoutingTyped
<1>6. ASSUME NEW u \in Pages
      PROVE  TabTold(toWorker', toPanel'[u], view[u], frame[u], tree[u], due[u], number'[u], late, u)
  <2> DEFINE w2 == Append(toWorker, m)
  <2> DEFINE pn2 == Append(toPanel[u], m)
  <2>1. toPanel'[u] = pn2 /\ toWorker' = w2
    BY <1>2
  <2>2. TabTold(toWorker, toPanel[u], view[u], frame[u], tree[u], due[u], number[u], late, u)
    BY TabTyped
  <2>3. \A C : m \notin C => SameAbout(toWorker, w2, C) /\ SameAbout(toPanel[u], pn2, C)
    BY <1>3, OtherAppended
  <2> HIDE DEF w2, pn2
  <2>4. CASE m.type = "cleared"
    <3>1. m \notin Concerning(u)
      BY <2>4 DEF Concerning, RouteTraffic, StatusTraffic, OperationTraffic
    <3>2. QED BY <3>1, <2>1, <2>3, <2>4, Untouched
  <2>5. CASE m.type = "status"
    <3>1. m \notin RouteTraffic(u) /\ m \notin OperationTraffic(u)
      BY <2>5 DEF RouteTraffic, OperationTraffic
    <3>2. /\ SameAbout(toWorker, w2, RouteTraffic(u)) /\ SameAbout(toPanel[u], pn2, RouteTraffic(u))
          /\ SameAbout(toWorker, w2, OperationTraffic(u)) /\ SameAbout(toPanel[u], pn2, OperationTraffic(u))
      BY <3>1, <2>3
    <3>3. RouteSound(w2, pn2, view[u].frames, Routed(view[u].mode), frame[u], tree[u], due[u], late, u)
      <4>1. RouteSound(toWorker, toPanel[u], view[u].frames, Routed(view[u].mode), frame[u], tree[u], due[u], late, u)
        BY <2>2 DEF TabTold
      <4>2. QED BY <4>1, <3>2, SameRoute
    <3>4. OperationsSound(w2, pn2, view[u].recorded, number[u].ops, u)
      <4>1. OperationsSound(toWorker, toPanel[u], view[u].recorded, number[u].ops, u)
        BY <2>2 DEF TabTold
      <4>2. QED BY <4>1, <3>2, SameOperations
    <3>5. StatusSound(w2, pn2, view[u].status, m.status)
      <4> DEFINE s == m.status
      <4> DEFINE k == [type |-> "status", status |-> s]
      <4>1. s \in Statuses /\ m = k
        BY <2>5 DEF Traffic
      <4> HIDE DEF s
      <4>2. StatusSound(Append(toWorker, k), pn2, view[u].status, s)
        BY <4>1, <1>3, StatusSaid
      <4>3. QED BY <4>1, <4>2 DEF w2, s
    <3>6. view[u].route = <<Routed(view[u].mode), view[u].frames>>
      BY <2>2 DEF TabTold
    <3>7. number'[u].ops = number[u].ops /\ number'[u].told = m.status
      BY <2>5
    <3>8. QED BY <3>3, <3>4, <3>5, <3>6, <3>7, <2>1 DEF TabTold
  <2>6. QED BY <2>4, <2>5
<1>7. QED BY <1>5, <1>6 DEF MessagesSound

\* Escape with nothing selected.
LEMMA EscapeStep ==
  ASSUME MessagesSound, NEW t \in Pages, onEscapeWhenIdle(t)
  PROVE  MessagesSound'
<1> DEFINE m == [type |-> "cleared"]
<1>1. m \in Traffic /\ m.type = "cleared"
  BY DEF Traffic
<1>2. SayToPanels(m) /\ UNCHANGED <<view, frame, tree, due, late, number>>
  BY DEF onEscapeWhenIdle
<1> HIDE DEF m
<1>3. number \in [Pages -> [ops : Nat, told : Statuses]]
  BY DEF MessagesSound, RoutingTyped
<1>4. QED BY <1>1, <1>2, <1>3, SaidStep

\* A page tells the status.
LEMMA StatusStep ==
  ASSUME MessagesSound, NEW t \in Pages, NEW s \in Statuses, TellStatus(t, s)
  PROVE  MessagesSound'
<1> DEFINE m == [type |-> "status", status |-> s]
<1>1. m \in Traffic /\ m.type = "status" /\ m.status = s
  BY DEF Traffic
<1>2. /\ SayToPanels(m) /\ UNCHANGED <<view, frame, tree, due, late>>
      /\ number' = [u \in Pages |-> [number[u] EXCEPT !.told = s]]
  BY DEF TellStatus
<1> HIDE DEF m
<1>3. number \in [Pages -> [ops : Nat, told : Statuses]]
  BY DEF MessagesSound, RoutingTyped
<1>4. \A u \in Pages : number'[u] \in [ops : Nat, told : Statuses] /\ number'[u].ops = number[u].ops /\ number'[u].told = s
  BY <1>2, <1>3
<1>5. number' \in [Pages -> [ops : Nat, told : Statuses]]
  BY <1>2, <1>4
<1>6. QED BY <1>1, <1>2, <1>4, <1>5, SaidStep

\* A page records an operation.
LEMMA RecordStep ==
  ASSUME MessagesSound, NEW t \in Pages, RecordOperation(t)
  PROVE  MessagesSound'
<1> DEFINE n == number[t].ops
<1> DEFINE m == [type |-> "operation", tab |-> t, op |-> <<t, n + 1>>]
<1>1. RoutingTyped
  BY DEF MessagesSound
<1>2. number \in [Pages -> [ops : Nat, told : Statuses]]
  BY <1>1 DEF RoutingTyped
<1>3. /\ number' = [number EXCEPT ![t].ops = @ + 1]
      /\ UNCHANGED <<view, frame, tree, due, toPanel, late>>
  BY DEF RecordOperation
<1>4. /\ n \in Nat /\ number'[t].ops = n + 1 /\ number'[t].told = number[t].told /\ number'[t] \in [ops : Nat, told : Statuses]
      /\ \A u \in Pages : u # t => number'[u] = number[u]
      /\ number' \in [Pages -> [ops : Nat, told : Statuses]]
  BY <1>2, <1>3
<1>5. toWorker' = Append(toWorker, m)
  BY <1>4 DEF RecordOperation
<1>6. m \in Traffic /\ m.type = "operation" /\ m.tab = t
  BY <1>4 DEF Traffic
<1>7. toWorker \in Seq(Traffic) /\ \A u \in Pages : toPanel[u] \in Seq(Traffic)
  BY TabTyped
<1>8. toWorker' \in Seq(Traffic)
  BY <1>5, <1>6, <1>7
<1>9. RoutingTyped'
  BY <1>1, <1>3, <1>4, <1>8 DEF RoutingTyped
<1>10. \A C : m \notin C => SameAbout(toWorker, toWorker', C)
  BY <1>5, <1>6, <1>7, OtherAppended
<1>11. ASSUME NEW u \in Pages
       PROVE  TabTold(toWorker', toPanel[u], view[u], frame[u], tree[u], due[u], number'[u], late, u)
  <2>1. \A C : SameAbout(toPanel[u], toPanel[u], C)
    BY SameIsSame
  <2>2. CASE u # t
    <3>1. m \notin Concerning(u)
      BY <2>2 DEF Concerning, RouteTraffic, StatusTraffic, OperationTraffic
    <3>2. number'[u] = number[u]
      BY <2>2, <1>4
    <3>3. QED BY <3>1, <3>2, <2>1, <1>10, Untouched
  <2>3. CASE u = t
    <3>1. m \notin RouteTraffic(t) /\ m \notin StatusTraffic
      BY DEF RouteTraffic, StatusTraffic
    <3>2. SameAbout(toWorker, toWorker', RouteTraffic(t)) /\ SameAbout(toWorker, toWorker', StatusTraffic)
      BY <3>1, <1>10
    <3>3. TabTold(toWorker, toPanel[t], view[t], frame[t], tree[t], due[t], number[t], late, t)
      BY TabTyped
    <3>4. RouteSound(toWorker', toPanel[t], view[t].frames, Routed(view[t].mode), frame[t], tree[t], due[t], late, t)
      BY <2>1, <2>3, <3>2, <3>3, SameRoute DEF TabTold
    <3>5. StatusSound(toWorker', toPanel[t], view[t].status, number[t].told)
      BY <2>1, <2>3, <3>2, <3>3, SameStatusTold DEF TabTold
    <3>6. OperationsSound(toWorker', toPanel[t], view[t].recorded, n + 1, t)
      <4>1. OperationsSound(toWorker, toPanel[t], view[t].recorded, n, t)
        BY <3>3 DEF TabTold
      <4>2. view[t].recorded \in Seq(Pages \X Nat)
        BY TabTyped DEF Panels
      <4> HIDE DEF n
      <4>3. OperationsSound(Append(toWorker, m), toPanel[t], view[t].recorded, n + 1, t)
        BY <4>1, <4>2, <1>4, <1>7, OperationSaid
      <4>4. QED BY <4>3, <1>5
    <3>7. QED BY <3>3, <3>4, <3>5, <3>6, <2>3, <1>4 DEF TabTold
  <2>4. QED BY <2>2, <2>3
<1>12. QED BY <1>3, <1>9, <1>11 DEF MessagesSound

\* A message to the worker about the frames of t, and what it does to what is known of t.
LEMMA RouteStep ==
  ASSUME MessagesSound, NEW t \in Pages, NEW m \in Traffic, m.type \in {"loading", "hello", "frames", "complete"}, m.tab = t,
         toWorker' = Append(toWorker, m),
         RouteSound(toWorker', toPanel[t], view[t].frames, Routed(view[t].mode), frame'[t], tree[t], due'[t], late', t),
         frame'[t] \in [FramesOf(t) -> SentModes \cup {"unborn"}],
         \A u \in Pages : u # t => frame'[u] = frame[u] /\ due'[u] = due[u],
         DOMAIN frame' = Pages, DOMAIN due' = Pages, late => late',
         UNCHANGED <<view, tree, toPanel, number>>
  PROVE  MessagesSound'
<1>1. RoutingTyped
  BY DEF MessagesSound
<1>2. toWorker \in Seq(Traffic)
  BY TabTyped
<1>3. toWorker' \in Seq(Traffic)
  BY <1>2
<1>4. \A u \in Pages : frame'[u] \in [FramesOf(u) -> SentModes \cup {"unborn"}]
  BY <1>1, Zenon DEF RoutingTyped
<1>5. RoutingTyped'
  BY <1>1, <1>3, <1>4 DEF RoutingTyped
<1>6. \A C : m \notin C => SameAbout(toWorker, toWorker', C)
  BY <1>2, OtherAppended
<1>7. ASSUME NEW u \in Pages
      PROVE  TabTold(toWorker', toPanel[u], view[u], frame'[u], tree[u], due'[u], number[u], late', u)
  <2>1. \A C : SameAbout(toPanel[u], toPanel[u], C)
    BY SameIsSame
  <2>2. CASE u # t
    <3>1. m \notin Concerning(u)
      BY <2>2 DEF Concerning, RouteTraffic, StatusTraffic, OperationTraffic
    <3>2. TabTold(toWorker', toPanel[u], view[u], frame[u], tree[u], due[u], number[u], late, u)
      BY <3>1, <2>1, <1>6, Untouched
    <3>3. frame'[u] = frame[u] /\ due'[u] = due[u]
      BY <2>2
    <3>4. QED BY <3>2, <3>3, LaterIsLess
  <2>3. CASE u = t
    <3>1. m \notin StatusTraffic \cup OperationTraffic(t)
      BY DEF StatusTraffic, OperationTraffic
    <3>2. SameAbout(toWorker, toWorker', StatusTraffic \cup OperationTraffic(t))
      BY <3>1, <1>6
    <3>3. TabTold(toWorker, toPanel[t], view[t], frame[t], tree[t], due[t], number[t], late, t)
      BY TabTyped
    <3>4. QED BY <2>1, <2>3, <3>2, <3>3, OnlyTheRoute
  <2>4. QED BY <2>2, <2>3
<1>8. QED BY <1>5, <1>7 DEF MessagesSound

\* What is known of the frames of t.
LEMMA RouteKnown ==
  ASSUME MessagesSound, NEW t \in Pages
  PROVE  /\ RouteSound(toWorker, toPanel[t], view[t].frames, Routed(view[t].mode), frame[t], tree[t], due[t], late, t)
         /\ toWorker \in Seq(Traffic) /\ Routed(view[t].mode) \in SentModes
         /\ frame[t] \in [FramesOf(t) -> SentModes \cup {"unborn"}]
         /\ DOMAIN frame = Pages /\ DOMAIN due = Pages /\ DOMAIN tree = Pages
<1>1. TabTold(toWorker, toPanel[t], view[t], frame[t], tree[t], due[t], number[t], late, t)
  BY TabTyped
<1>2. Routed(view[t].mode) \in SentModes
  BY DEF Routed, SentModes
<1>3. QED BY <1>1, <1>2, TabTyped DEF TabTold, MessagesSound, RoutingTyped

\* A tab starts to load a page: its frames are gone and the panel will hear it.
LEMMA LoadStep ==
  ASSUME MessagesSound, NEW t \in Pages, Load(t)
  PROVE  MessagesSound'
<1> DEFINE m == [type |-> "loading", tab |-> t]
<1> DEFINE K == view[t].frames
<1> DEFINE g == Routed(view[t].mode)
<1>1. /\ frame' = [frame EXCEPT ![t] = [f \in FramesOf(t) |-> "unborn"]]
      /\ due' = [due EXCEPT ![t] = FramesOf(t) \cup {-1}]
      /\ toWorker' = Append(toWorker, m)
      /\ UNCHANGED <<view, tree, toPanel, number, late>>
  BY DEF Load
<1>2. /\ RouteSound(toWorker, toPanel[t], K, g, frame[t], tree[t], due[t], late, t)
      /\ toWorker \in Seq(Traffic) /\ DOMAIN frame = Pages /\ DOMAIN due = Pages
  BY RouteKnown
<1>3. m \in Traffic /\ m.type = "loading" /\ m.tab = t
  BY DEF Traffic
<1>4. /\ frame'[t] = [f \in FramesOf(t) |-> "unborn"] /\ due'[t] = FramesOf(t) \cup {-1}
      /\ \A u \in Pages : u # t => frame'[u] = frame[u] /\ due'[u] = due[u]
      /\ DOMAIN frame' = Pages /\ DOMAIN due' = Pages
  BY <1>1, <1>2
<1>5. (\A f \in FramesOf(t) : frame'[t][f] = "unborn") /\ FramesOf(t) \subseteq due'[t]
  BY <1>4
<1> HIDE DEF K, g
<1>6. RouteSound(Append(toWorker, m), toPanel[t], K, g, frame'[t], tree[t], due'[t], late, t)
  BY <1>2, <1>5, RouteLoading
<1>7. frame'[t] \in [FramesOf(t) -> SentModes \cup {"unborn"}]
  BY <1>4
<1> HIDE DEF m
<1>8. QED BY <1>1, <1>3, <1>4, <1>6, <1>7, RouteStep, Zenon DEF K, g

\* A frame says hello: the worker will know it and send it the mode.
LEMMA HelloStep ==
  ASSUME MessagesSound, NEW t \in Pages, NEW f \in FramesOf(t), sendFrameHello(t, f)
  PROVE  MessagesSound'
<1> DEFINE m == [type |-> "hello", tab |-> t, frame |-> f]
<1> DEFINE K == view[t].frames
<1> DEFINE g == Routed(view[t].mode)
<1>1. /\ f \in due[t]
      /\ frame' = [frame EXCEPT ![t][f] = NoMode]
      /\ due' = [due EXCEPT ![t] = @ \ {f}]
      /\ toWorker' = Append(toWorker, m)
      /\ UNCHANGED <<view, tree, toPanel, number, late>>
  BY DEF sendFrameHello
<1>2. /\ RouteSound(toWorker, toPanel[t], K, g, frame[t], tree[t], due[t], late, t)
      /\ toWorker \in Seq(Traffic) /\ DOMAIN frame = Pages /\ DOMAIN due = Pages
      /\ g \in SentModes /\ frame[t] \in [FramesOf(t) -> SentModes \cup {"unborn"}]
  BY RouteKnown
<1>3. m \in Traffic /\ m.type = "hello" /\ m.tab = t
  BY DEF Traffic, AllFrames
<1>4. /\ frame'[t] = [frame[t] EXCEPT ![f] = NoMode] /\ due'[t] = due[t] \ {f}
      /\ \A u \in Pages : u # t => frame'[u] = frame[u] /\ due'[u] = due[u]
      /\ DOMAIN frame' = Pages /\ DOMAIN due' = Pages
  BY <1>1, <1>2
<1>5. /\ \A e \in FramesOf(t) : e # f => frame'[t][e] = frame[t][e]
      /\ frame'[t][f] # "unborn"
      /\ frame'[t] \in [FramesOf(t) -> SentModes \cup {"unborn"}]
  BY <1>2, <1>4, RoutingAssumption DEF SentModes
<1> HIDE DEF K, g
<1>6. RouteSound(Append(toWorker, m), toPanel[t], K, g, frame'[t], tree[t], due[t] \ {f}, late, t)
  BY <1>1, <1>2, <1>5, RouteHello, Zenon
<1> HIDE DEF m
<1>8. QED BY <1>1, <1>3, <1>4, <1>5, <1>6, RouteStep, Zenon DEF K, g

\* The page is complete: the worker will ask the browser for its frames.
LEMMA FrameListedStep ==
  ASSUME MessagesSound, NEW t \in Pages, Completed(t)
  PROVE  MessagesSound'
<1> DEFINE m == [type |-> "complete", tab |-> t]
<1> DEFINE K == view[t].frames
<1> DEFINE g == Routed(view[t].mode)
<1>1. /\ due[t] = {-1} /\ due' = [due EXCEPT ![t] = {}]
      /\ toWorker' = Append(toWorker, m)
      /\ UNCHANGED <<view, frame, tree, toPanel, number, late>>
  BY DEF Completed
<1>2. /\ RouteSound(toWorker, toPanel[t], K, g, frame[t], tree[t], {-1}, late, t)
      /\ toWorker \in Seq(Traffic) /\ DOMAIN frame = Pages /\ DOMAIN due = Pages
      /\ frame[t] \in [FramesOf(t) -> SentModes \cup {"unborn"}]
  BY <1>1, RouteKnown, Zenon
<1>3. m \in Traffic /\ m.type = "complete" /\ m.tab = t
  BY DEF Traffic
<1>4. /\ due'[t] = {} /\ DOMAIN due' = Pages
      /\ \A u \in Pages : u # t => due'[u] = due[u]
  BY <1>1, <1>2
<1>5. m \notin RouteTraffic(t)
  BY DEF RouteTraffic
<1> HIDE DEF K, g, m
<1>6. RouteSound(toWorker, toPanel[t], K, g, frame[t], tree[t], {}, late, t)
  BY <1>2, RouteCompleted
<1>7. SameAbout(toWorker, Append(toWorker, m), RouteTraffic(t)) /\ SameAbout(toPanel[t], toPanel[t], RouteTraffic(t))
  BY <1>2, <1>3, <1>5, OtherAppended, SameIsSame
<1>8. RouteSound(Append(toWorker, m), toPanel[t], K, g, frame[t], tree[t], {}, late, t)
  BY <1>6, <1>7, SameRoute
<1>9. QED BY <1>1, <1>2, <1>3, <1>4, <1>8, RouteStep DEF K, g

\* The browser lists the frames; the answer is late if one of them cannot hear yet.
LEMMA DiscoveryStep ==
  ASSUME MessagesSound, NEW t \in Pages, DiscoveryAnswers(t)
  PROVE  MessagesSound'
<1> DEFINE m == [type |-> "frames", tab |-> t]
<1> DEFINE K == view[t].frames
<1> DEFINE g == Routed(view[t].mode)
<1>1. /\ late' = (late \/ \E f \in FramesOf(t) : frame[t][f] = "unborn")
      /\ toWorker' = Append(toWorker, m)
      /\ UNCHANGED <<view, frame, tree, due, toPanel, number>>
  BY DEF DiscoveryAnswers
<1>2. /\ RouteSound(toWorker, toPanel[t], K, g, frame[t], tree[t], due[t], late, t)
      /\ toWorker \in Seq(Traffic) /\ DOMAIN frame = Pages /\ DOMAIN due = Pages
      /\ frame[t] \in [FramesOf(t) -> SentModes \cup {"unborn"}]
  BY RouteKnown
<1>3. m \in Traffic /\ m.type = "frames" /\ m.tab = t
  BY DEF Traffic
<1> HIDE DEF K, g
<1>4. RouteSound(Append(toWorker, m), toPanel[t], K, g, frame[t], tree[t], due[t], late', t)
  BY <1>1, <1>2, RouteDiscovered
<1>5. late => late'
  BY <1>1, Zenon
<1> HIDE DEF m
<1>6. QED BY <1>1, <1>2, <1>3, <1>4, <1>5, RouteStep DEF K, g

\* The panel hears a message.
LEMMA PanelHearsStep ==
  ASSUME MessagesSound, NEW t \in Pages, PanelHears(t)
  PROVE  MessagesSound'
<1> DEFINE pn == toPanel[t]
<1> DEFINE m == Head(pn)
<1> DEFINE pn2 == Tail(pn)
<1> DEFINE v == view[t]
<1> DEFINE list == subscribePanelOperations(t, m, v.recorded)
<1> DEFINE p == [v EXCEPT !.mode = IF m.type = "cleared" THEN NoMode ELSE v.mode,
                          !.status = IF m.type = "status" THEN m.status ELSE v.status,
                          !.frames = IF m.type = "session" THEN m.frames ELSE v.frames,
                          !.recorded = list]
<1> DEFINE w2 == routeMode(t, p, toWorker)[2]
<1> DEFINE v2 == routeMode(t, p, toWorker)[1]
<1>1. /\ pn # <<>> /\ toPanel' = [toPanel EXCEPT ![t] = pn2]
      /\ view' = [view EXCEPT ![t] = v2] /\ toWorker' = w2
      /\ UNCHANGED <<frame, tree, due, number, late>>
  BY DEF PanelHears, Render
<1>2. RoutingTyped
  BY DEF MessagesSound
<1>3. v \in Panels /\ toWorker \in Seq(Traffic) /\ pn \in Seq(Traffic)
  BY TabTyped
<1>4. TabTold(toWorker, pn, v, frame[t], tree[t], due[t], number[t], late, t)
  BY TabTyped
<1> HIDE DEF v
<1>5. m \in Traffic /\ pn2 \in Seq(Traffic)
  BY <1>1, <1>3, MeetsTail
<1>6. /\ m.type = "session" => m.frames \in SUBSET AllFrames
      /\ m.type = "status" => m.status \in Statuses
      /\ m.type = "trusted" => m.op \in Pages \X Nat /\ m.tab \in Pages
  BY <1>5 DEF Traffic
<1>7. v.recorded \in Seq(Pages \X Nat)
  BY <1>3 DEF Panels
<1>8. list \in Seq(Pages \X Nat)
  BY <1>6, <1>7 DEF subscribePanelOperations
<1>9. (m.type = "trusted" /\ m.tab = t) \/ list = v.recorded
  BY DEF subscribePanelOperations
<1> HIDE DEF m, list, pn, pn2
<1>10. /\ p \in Panels /\ p.route = v.route
       /\ p.mode = (IF m.type = "cleared" THEN NoMode ELSE v.mode)
       /\ p.status = (IF m.type = "status" THEN m.status ELSE v.status)
       /\ p.frames = (IF m.type = "session" THEN m.frames ELSE v.frames)
       /\ p.recorded = list
  BY <1>3, <1>6, <1>8, Zenon DEF Panels
<1> HIDE DEF p
<1> DEFINE w == toWorker
<1> DEFINE fr == frame[t]
<1> DEFINE T == tree[t]
<1> DEFINE D == due[t]
<1> DEFINE n == number[t]
<1> DEFINE l == late
<1>11. /\ v.route = <<Routed(v.mode), v.frames>>
       /\ RouteSound(w, pn, v.frames, Routed(v.mode), fr, T, D, l, t)
       /\ OperationsSound(w, pn, v.recorded, n.ops, t)
       /\ StatusSound(w, pn, v.status, n.told)
       /\ w \in Seq(Traffic) /\ n.ops \in Nat
  <2>1. number[t] \in [ops : Nat, told : Statuses]
    BY TabTyped
  <2>2. QED BY <2>1, <1>3, <1>4 DEF TabTold
<1> HIDE DEF w, fr, T, D, n, l
<1>12. TreeIsTold(pn, v.frames, T, t) /\ T \in SUBSET FramesOf(t)
  BY <1>11 DEF RouteSound, TreeIsTold
<1>13. TreeIsTold(pn2, p.frames, T, t)
  BY <1>1, <1>3, <1>10, <1>12, TreeHeard DEF m, pn2
<1>14. ~Meets(w, Strangers(t)) /\ TopWillSayHello(w, D, T, t)
  BY <1>11 DEF RouteSound
<1>15. \A f \in FramesOf(t) : f \in D => fr[f] = "unborn"
  BY <1>11 DEF RouteSound
<1>16. ~l => ListedCanHear(w, fr, T, t)
  BY <1>11 DEF RouteSound
<1>17. p.route = <<Routed(p.mode), p.frames>> => RouteSound(w, pn2, p.frames, Routed(p.mode), fr, T, D, l, t)
  <2>1. SUFFICES ASSUME p.route = <<Routed(p.mode), p.frames>>
                 PROVE  RouteSound(w, pn2, p.frames, Routed(p.mode), fr, T, D, l, t)
    OBVIOUS
  <2>2. p.frames = v.frames /\ Routed(p.mode) = Routed(v.mode)
    BY <2>1, <1>10, <1>11
  <2>3. m \notin OtherSessions(v.frames)
    BY <2>2, <1>10 DEF OtherSessions
  <2>4. RouteSound(w, pn2, v.frames, Routed(v.mode), fr, T, D, l, t)
    BY <2>2, <2>3, <1>1, <1>3, <1>11, <1>13, RouteKept DEF m, pn2
  <2>5. QED BY <2>2, <2>4
<1>18. OperationsSound(w, pn2, p.recorded, n.ops, t)
  <2>1. CASE m.type = "trusted" /\ m.tab = t
    <3>1. OperationsSound(w, Tail(pn), subscribePanelOperations(t, Head(pn), v.recorded), n.ops, t)
      BY <2>1, <1>1, <1>3, <1>7, <1>11, OperationHeard DEF m
    <3>2. QED BY <3>1, <1>10 DEF list, m, pn2
  <2>2. CASE ~(m.type = "trusted" /\ m.tab = t)
    <3>1. p.recorded = v.recorded
      BY <2>2, <1>9, <1>10
    <3>2. CASE m.type = "operation" /\ m.tab = t
      <4>1. \A c : Numbered(pn, "trusted", t, Len(v.recorded), c) => Numbered(pn2, "trusted", t, Len(v.recorded), c)
        <5>1. /\ \A X : Meets(pn, X) /\ m \notin X => Meets(pn2, X)
              /\ \A X : Meets(pn2, X) => Meets(pn, X)
              /\ \A A, B : NoneAfter(pn, A, B) => NoneAfter(pn2, A, B)
          BY <1>1, <1>3, MeetsTail DEF m, pn2
        <5>2. \A k : m \notin OperationMessage("trusted", t, k)
          BY <3>2 DEF OperationMessage
        <5>3. QED BY <5>1, <5>2 DEF Numbered
      <4>2. QED BY <4>1, <3>1, <1>11 DEF OperationsSound
    <3>3. CASE ~(m.type = "operation" /\ m.tab = t)
      <4>1. m \notin OperationTraffic(t)
        BY <3>3, <2>2 DEF OperationTraffic
      <4>2. SameAbout(pn, pn2, OperationTraffic(t)) /\ SameAbout(w, w, OperationTraffic(t))
        BY <4>1, <1>1, <1>3, OthersTaken, SameIsSame DEF m, pn2
      <4>3. QED BY <4>2, <3>1, <1>11, SameOperations
    <3>4. QED BY <3>2, <3>3
  <2>3. QED BY <2>1, <2>2
<1>19. StatusSound(w, pn2, p.status, n.told)
  <2>1. (m.type = "status" => p.status = m.status) /\ (m.type # "status" => p.status = v.status)
    BY <1>10
  <2>2. QED BY <2>1, <1>1, <1>3, <1>11, StatusHeard DEF m, pn2
<1>20. /\ v2 \in Panels /\ w2 \in Seq(Traffic)
       /\ TabTold(w2, pn2, v2, fr, T, D, n, l, t)
       /\ \A u : u # t => SameAbout(w, w2, Concerning(u))
  <2>1. /\ routeMode(t, p, w)[1] \in Panels /\ routeMode(t, p, w)[2] \in Seq(Traffic)
        /\ TabTold(routeMode(t, p, w)[2], pn2, routeMode(t, p, w)[1], fr, T, D, n, l, t)
        /\ \A u : u # t => SameAbout(w, routeMode(t, p, w)[2], Concerning(u))
    <3>1. w \in Seq(Traffic) /\ p \in Panels
      BY <1>10, <1>11
    <3>2. QED BY <3>1, <1>13, <1>14, <1>15, <1>16, <1>17, <1>18, <1>19, PanelRenders, Zenon
  <2>2. QED BY <2>1 DEF w
<1> HIDE DEF v2, w2
<1>21. RoutingTyped'
  <2>1. toPanel' \in [Pages -> Seq(Traffic)]
    BY <1>1, <1>2, <1>5 DEF RoutingTyped
  <2>2. view' \in [Pages -> Panels]
    BY <1>1, <1>2, <1>20 DEF RoutingTyped
  <2>3. QED BY <2>1, <2>2, <1>1, <1>2, <1>20 DEF RoutingTyped
<1>22. ASSUME NEW u \in Pages
       PROVE  TabTold(w2, toPanel'[u], view'[u], frame[u], tree[u], due[u], number[u], late, u)
  <2>1. CASE u = t
    <3>1. view'[t] = v2 /\ toPanel'[t] = pn2
      BY <1>1, <1>2 DEF RoutingTyped
    <3>2. QED BY <2>1, <3>1, <1>20 DEF fr, T, D, n, l
  <2>2. CASE u # t
    <3>1. view'[u] = view[u] /\ toPanel'[u] = toPanel[u]
      BY <2>2, <1>1
    <3>2. SameAbout(toWorker, w2, Concerning(u)) /\ SameAbout(toPanel[u], toPanel[u], Concerning(u))
      BY <2>2, <1>20, SameIsSame DEF w
    <3>3. QED BY <3>1, <3>2, Untouched
  <2>3. QED BY <2>1, <2>2
<1>23. QED BY <1>1, <1>21, <1>22 DEF MessagesSound

\* The worker takes a message that changes nothing but what it does to its own tab.
LEMMA TakenStep ==
  ASSUME MessagesSound, NEW t \in Pages, toWorker # <<>>, toWorker' = Tail(toWorker),
         Head(toWorker).type \in {"mode", "loading", "hello", "frames"}, Head(toWorker).tab = t,
         RouteSound(toWorker', toPanel'[t], view[t].frames, Routed(view[t].mode), frame'[t], tree'[t], due[t], late, t),
         frame'[t] \in [FramesOf(t) -> SentModes \cup {"unborn"}],
         SameAbout(toPanel[t], toPanel'[t], StatusTraffic \cup OperationTraffic(t)), toPanel'[t] \in Seq(Traffic),
         \A u \in Pages : u # t => frame'[u] = frame[u] /\ tree'[u] = tree[u] /\ toPanel'[u] = toPanel[u],
         DOMAIN frame' = Pages, DOMAIN tree' = Pages, toPanel' = [u \in Pages |-> toPanel'[u]],
         UNCHANGED <<view, due, number, late>>
  PROVE  MessagesSound'
<1> DEFINE m == Head(toWorker)
<1>1. RoutingTyped
  BY DEF MessagesSound
<1>2. toWorker \in Seq(Traffic) /\ toPanel[t] \in Seq(Traffic)
  BY TabTyped
<1>3. toWorker' \in Seq(Traffic)
  BY <1>2
<1>5. RoutingTyped'
  <2>1. \A u \in Pages : frame'[u] \in [FramesOf(u) -> SentModes \cup {"unborn"}]
    BY <1>1, Zenon DEF RoutingTyped
  <2>2. \A u \in Pages : toPanel'[u] \in Seq(Traffic)
    BY <1>1, Zenon DEF RoutingTyped
  <2>3. toPanel' \in [Pages -> Seq(Traffic)]
    BY <2>2
  <2>4. QED BY <2>1, <2>3, <1>1, <1>3 DEF RoutingTyped
<1>6. \A C : m \notin C => SameAbout(toWorker, toWorker', C)
  BY <1>2, OthersTaken
<1>7. m.type \in {"mode", "loading", "hello", "frames"} /\ m.tab = t
  OBVIOUS
<1> HIDE DEF m
<1>8. ASSUME NEW u \in Pages
      PROVE  TabTold(toWorker', toPanel'[u], view[u], frame'[u], tree'[u], due[u], number[u], late, u)
  <2>2. CASE u # t
    <3>1. m \notin Concerning(u)
      BY <2>2, <1>7 DEF Concerning, RouteTraffic, StatusTraffic, OperationTraffic
    <3>2. SameAbout(toPanel[u], toPanel[u], Concerning(u))
      BY SameIsSame
    <3>3. TabTold(toWorker', toPanel[u], view[u], frame[u], tree[u], due[u], number[u], late, u)
      BY <3>1, <3>2, <1>6, Untouched, Zenon
    <3>4. frame'[u] = frame[u] /\ tree'[u] = tree[u] /\ toPanel'[u] = toPanel[u]
      BY <2>2
    <3>5. QED BY <3>3, <3>4
  <2>3. CASE u = t
    <3>1. m \notin StatusTraffic \cup OperationTraffic(t)
      BY <1>7 DEF StatusTraffic, OperationTraffic
    <3>2. SameAbout(toWorker, toWorker', StatusTraffic \cup OperationTraffic(t))
      BY <3>1, <1>6
    <3>3. TabTold(toWorker, toPanel[t], view[t], frame[t], tree[t], due[t], number[t], late, t)
      BY TabTyped
    <3>4. QED BY <2>3, <3>2, <3>3, OnlyTheRoute
  <2>4. QED BY <2>2, <2>3
<1>9. QED BY <1>5, <1>8 DEF MessagesSound

\* The session of a tab lists other frames, and its panel is told.
LEMMA TreeStep ==
  ASSUME MessagesSound, NEW t \in Pages, toWorker # <<>>, toWorker' = Tail(toWorker),
         Head(toWorker).type \in {"loading", "hello", "frames"}, Head(toWorker).tab = t,
         NEW F \in SUBSET FramesOf(t), updateFrameTree(t, F),
         RouteSound(toWorker', Append(toPanel[t], [type |-> "session", frames |-> F]), view[t].frames, Routed(view[t].mode),
                    frame[t], F, due[t], late, t),
         UNCHANGED <<view, due, number, late>>
  PROVE  MessagesSound'
<1>1. /\ frame[t] \in [FramesOf(t) -> SentModes \cup {"unborn"}]
      /\ DOMAIN frame = Pages /\ DOMAIN tree = Pages
  BY RouteKnown
<1>2. toPanel \in [Pages -> Seq(Traffic)]
  BY DEF MessagesSound, RoutingTyped
<1> DEFINE k == [type |-> "session", frames |-> F]
<1>3. /\ tree' = [tree EXCEPT ![t] = F]
      /\ toPanel' = [toPanel EXCEPT ![t] = Append(@, k)]
      /\ frame' = frame
  BY DEF updateFrameTree
<1>4. F \in SUBSET AllFrames
  BY DEF AllFrames
<1> HIDE DEF k
<1>5. /\ tree'[t] = F /\ toPanel'[t] = Append(toPanel[t], k)
      /\ \A u \in Pages : u # t => frame'[u] = frame[u] /\ tree'[u] = tree[u] /\ toPanel'[u] = toPanel[u]
      /\ DOMAIN frame' = Pages /\ DOMAIN tree' = Pages /\ toPanel' = [u \in Pages |-> toPanel'[u]]
  BY <1>1, <1>2, <1>3, Zenon
<1>6. SameAbout(toPanel[t], toPanel'[t], StatusTraffic \cup OperationTraffic(t)) /\ toPanel'[t] \in Seq(Traffic)
  <2>1. k \in Traffic
    BY <1>4 DEF Traffic, k
  <2>2. k \notin StatusTraffic \cup OperationTraffic(t)
    BY DEF StatusTraffic, OperationTraffic, k
  <2>3. QED BY <2>1, <2>2, <1>2, <1>5, OtherAppended
<1>7. RouteSound(toWorker', toPanel'[t], view[t].frames, Routed(view[t].mode), frame'[t], tree'[t], due[t], late, t)
  BY <1>3, <1>5 DEF k
<1>8. frame'[t] \in [FramesOf(t) -> SentModes \cup {"unborn"}]
  BY <1>1, <1>3
<1>9. Head(toWorker).type \in {"mode", "loading", "hello", "frames"}
  OBVIOUS
<1>10. DOMAIN frame' = Pages /\ DOMAIN tree' = Pages /\ toPanel' = [u \in Pages |-> toPanel'[u]]
  BY <1>5
<1>11. \A u \in Pages : u # t => frame'[u] = frame[u] /\ tree'[u] = tree[u] /\ toPanel'[u] = toPanel[u]
  BY <1>5
<1>12. QED BY <1>6, <1>7, <1>8, <1>9, <1>10, <1>11, TakenStep, Zenon

\* A mode goes to the frame it names.
LEMMA ModeStep ==
  ASSUME MessagesSound, toWorker # <<>>, toWorker' = Tail(toWorker),
         Head(toWorker).type = "mode", routeToContent(Head(toWorker)),
         UNCHANGED <<view, due, number, late>>
  PROVE  MessagesSound'
<1> DEFINE m == Head(toWorker)
<1> DEFINE t == m.tab
<1> DEFINE f == m.frame
<1> DEFINE K == view[t].frames
<1> DEFINE g == Routed(view[t].mode)
<1>1. toWorker \in Seq(Traffic)
  BY DEF MessagesSound, RoutingTyped
<1>2. m \in Traffic /\ m.type = "mode"
  BY <1>1, MeetsTail
<1>3. frame' = (IF f \in tree[t] THEN onInteractionMode(m) ELSE frame) /\ UNCHANGED <<tree, toPanel>>
  BY DEF routeToContent
<1> HIDE DEF m
<1>4. t \in Pages /\ m.mode \in SentModes
  BY <1>2 DEF Traffic
<1> HIDE DEF t, f
<1>5. /\ RouteSound(toWorker, toPanel[t], K, g, frame[t], tree[t], due[t], late, t)
      /\ g \in SentModes /\ frame[t] \in [FramesOf(t) -> SentModes \cup {"unborn"}]
      /\ DOMAIN frame = Pages /\ DOMAIN tree = Pages
  BY <1>4, RouteKnown
<1> HIDE DEF K, g
<1>6. tree[t] \subseteq FramesOf(t)
  BY <1>5 DEF RouteSound, TreeIsTold
<1>7. frame' = (IF f \in tree[t] /\ frame[t][f] # "unborn" THEN [frame EXCEPT ![t][f] = m.mode] ELSE frame)
  BY <1>3 DEF onInteractionMode, t, f
<1>8. /\ \A e \in FramesOf(t) : e # f => frame'[t][e] = frame[t][e]
      /\ f \in tree[t] /\ frame[t][f] # "unborn" => frame'[t][f] = m.mode
      /\ f \notin tree[t] \/ frame[t][f] = "unborn" => frame'[t] = frame[t]
      /\ frame'[t] \in [FramesOf(t) -> SentModes \cup {"unborn"}]
      /\ DOMAIN frame' = Pages
      /\ \A u \in Pages : u # t => frame'[u] = frame[u]
  <2>1. CASE f \in tree[t] /\ frame[t][f] # "unborn"
    <3>1. f \in FramesOf(t)
      BY <2>1, <1>6
    <3>2. frame' = [frame EXCEPT ![t] = [frame[t] EXCEPT ![f] = m.mode]]
      BY <2>1, <1>7
    <3>3. frame'[t] = [frame[t] EXCEPT ![f] = m.mode] /\ DOMAIN frame' = Pages /\ \A u \in Pages : u # t => frame'[u] = frame[u]
      BY <3>2, <1>4, <1>5
    <3>4. frame'[t] \in [FramesOf(t) -> SentModes \cup {"unborn"}] /\ frame'[t][f] = m.mode
          /\ \A e \in FramesOf(t) : e # f => frame'[t][e] = frame[t][e]
      BY <3>1, <3>3, <1>4, <1>5
    <3>5. QED BY <2>1, <3>3, <3>4
  <2>2. CASE ~(f \in tree[t] /\ frame[t][f] # "unborn")
    BY <2>2, <1>5, <1>7
  <2>3. QED BY <2>1, <2>2
<1>9. RouteSound(toWorker', toPanel[t], K, g, frame'[t], tree[t], due[t], late, t)
  <2> DEFINE fr2 == frame'[t]
  <2>1. /\ \A e \in FramesOf(t) : e # Head(toWorker).frame => fr2[e] = frame[t][e]
        /\ Head(toWorker).frame \in tree[t] /\ frame[t][Head(toWorker).frame] # "unborn"
           => fr2[Head(toWorker).frame] = Head(toWorker).mode
        /\ Head(toWorker).frame \notin tree[t] \/ frame[t][Head(toWorker).frame] = "unborn" => fr2 = frame[t]
    BY <1>8 DEF f, m
  <2>2. Head(toWorker).type = "mode" /\ Head(toWorker).tab = t
    BY DEF t, m
  <2> HIDE DEF fr2
  <2>3. RouteSound(Tail(toWorker), toPanel[t], K, g, fr2, tree[t], due[t], late, t)
    BY <2>1, <2>2, <1>1, <1>4, <1>5, RouteModeTaken
  <2>4. QED BY <2>3 DEF fr2
<1>10. toPanel \in [Pages -> Seq(Traffic)]
  BY DEF MessagesSound, RoutingTyped
<1>11. /\ toPanel'[t] = toPanel[t] /\ tree'[t] = tree[t] /\ DOMAIN tree' = Pages
       /\ \A u \in Pages : u # t => frame'[u] = frame[u] /\ tree'[u] = tree[u] /\ toPanel'[u] = toPanel[u]
       /\ toPanel' = [u \in Pages |-> toPanel'[u]]
  BY <1>3, <1>5, <1>8, <1>10
<1>12. RouteSound(toWorker', toPanel'[t], view[t].frames, Routed(view[t].mode), frame'[t], tree'[t], due[t], late, t)
  BY <1>9, <1>11 DEF K, g
<1>13. Head(toWorker).type \in {"mode", "loading", "hello", "frames"} /\ Head(toWorker).tab = t
  BY DEF t, m
<1>14. SameAbout(toPanel[t], toPanel'[t], StatusTraffic \cup OperationTraffic(t)) /\ toPanel'[t] \in Seq(Traffic)
  BY <1>4, <1>10, <1>11, SameIsSame
<1>15. QED BY <1>4, <1>8, <1>11, <1>12, <1>13, <1>14, TakenStep, Zenon

\* The worker broadcasts a message, or vouches for an operation.
LEMMA BroadcastStep ==
  ASSUME MessagesSound, NEW m \in Traffic, m = Head(toWorker), m.type \in {"cleared", "status", "operation"},
         toWorker # <<>>, toWorker' = Tail(toWorker),
         NEW v, v = (IF m.type = "operation" THEN Vouched(m) ELSE m), Broadcast(v),
         UNCHANGED <<view, frame, tree, due, number, late>>
  PROVE  MessagesSound'
<1>1. RoutingTyped
  BY DEF MessagesSound
<1>2. toWorker \in Seq(Traffic) /\ \A u \in Pages : toPanel[u] \in Seq(Traffic)
  BY DEF MessagesSound, RoutingTyped
<1>3. v \in Traffic /\ (m.type = "operation" => v.type = "trusted" /\ v.tab = m.tab) /\ (m.type # "operation" => v = m)
  BY DEF Vouched, Traffic
<1>4. toPanel' = [u \in Pages |-> Append(toPanel[u], v)]
  BY DEF Broadcast
<1>5. toPanel' \in [Pages -> Seq(Traffic)] /\ toWorker' \in Seq(Traffic)
  BY <1>2, <1>3, <1>4
<1>6. RoutingTyped'
  BY <1>1, <1>5 DEF RoutingTyped
<1>7. \A C : m \notin C => SameAbout(toWorker, toWorker', C)
  BY <1>2, OthersTaken
<1>8. \A u \in Pages : \A C : v \notin C => SameAbout(toPanel[u], toPanel'[u], C)
  BY <1>2, <1>3, <1>4, OtherAppended
<1>9. ASSUME NEW u \in Pages
      PROVE  TabTold(toWorker', toPanel'[u], view[u], frame[u], tree[u], due[u], number[u], late, u)
  <2> DEFINE w2 == toWorker'
  <2> DEFINE pn2 == toPanel'[u]
  <2>1. TabTold(toWorker, toPanel[u], view[u], frame[u], tree[u], due[u], number[u], late, u)
    BY TabTyped
  <2>2. \A C : m \notin C /\ v \notin C => SameAbout(toWorker, w2, C) /\ SameAbout(toPanel[u], pn2, C)
    BY <1>7, <1>8
  <2>3. pn2 = Append(toPanel[u], v) /\ w2 = Tail(toWorker)
    BY <1>4
  <2>4. toPanel[u] \in Seq(Traffic) /\ toWorker \in Seq(Traffic)
    BY <1>2
  <2> HIDE DEF w2, pn2
  <2>5. m \notin RouteTraffic(u) /\ v \notin RouteTraffic(u)
    BY <1>3 DEF RouteTraffic
  <2>6. RouteSound(w2, pn2, view[u].frames, Routed(view[u].mode), frame[u], tree[u], due[u], late, u)
    <3>1. SameAbout(toWorker, w2, RouteTraffic(u)) /\ SameAbout(toPanel[u], pn2, RouteTraffic(u))
      BY <2>2, <2>5
    <3>2. RouteSound(toWorker, toPanel[u], view[u].frames, Routed(view[u].mode), frame[u], tree[u], due[u], late, u)
      BY <2>1 DEF TabTold
    <3>3. QED BY <3>1, <3>2, SameRoute
  <2>7. StatusSound(w2, pn2, view[u].status, number[u].told)
    <3>1. StatusSound(toWorker, toPanel[u], view[u].status, number[u].told)
      BY <2>1 DEF TabTold
    <3>2. CASE m.type = "status"
      <4>1. v = Head(toWorker) /\ Head(toWorker).type = "status"
        BY <3>2, <1>3
      <4>2. StatusSound(Tail(toWorker), Append(toPanel[u], Head(toWorker)), view[u].status, number[u].told)
        BY <4>1, <3>1, <2>4, StatusTaken
      <4>3. QED BY <4>1, <4>2, <2>3
    <3>3. CASE m.type # "status"
      <4>1. m \notin StatusTraffic /\ v \notin StatusTraffic
        BY <3>3, <1>3 DEF StatusTraffic
      <4>2. SameAbout(toWorker, w2, StatusTraffic) /\ SameAbout(toPanel[u], pn2, StatusTraffic)
        BY <4>1, <2>2
      <4>3. QED BY <4>2, <3>1, SameStatusTold
    <3>4. QED BY <3>2, <3>3
  <2>8. OperationsSound(w2, pn2, view[u].recorded, number[u].ops, u)
    <3>1. OperationsSound(toWorker, toPanel[u], view[u].recorded, number[u].ops, u)
      BY <2>1 DEF TabTold
    <3>2. CASE m.type = "operation" /\ m.tab = u
      <4>1. v = Vouched(Head(toWorker)) /\ Head(toWorker).type = "operation" /\ Head(toWorker).tab = u
        BY <3>2
      <4>2. view[u].recorded \in Seq(Pages \X Nat) /\ number[u].ops \in Nat
        <5>1. view[u] \in Panels /\ number[u] \in [ops : Nat, told : Statuses]
          BY TabTyped
        <5>2. QED BY <5>1 DEF Panels
      <4>3. OperationsSound(Tail(toWorker), Append(toPanel[u], Vouched(Head(toWorker))), view[u].recorded, number[u].ops, u)
        BY <4>1, <4>2, <3>1, <2>4, OperationTaken, Zenon
      <4>4. QED BY <4>1, <4>3, <2>3
    <3>3. CASE ~(m.type = "operation" /\ m.tab = u)
      <4>1. m \notin OperationTraffic(u) /\ v \notin OperationTraffic(u)
        BY <3>3, <1>3 DEF OperationTraffic
      <4>2. SameAbout(toWorker, w2, OperationTraffic(u)) /\ SameAbout(toPanel[u], pn2, OperationTraffic(u))
        BY <4>1, <2>2
      <4>3. QED BY <4>2, <3>1, SameOperations
    <3>4. QED BY <3>2, <3>3
  <2>9. view[u].route = <<Routed(view[u].mode), view[u].frames>>
    BY <2>1 DEF TabTold
  <2>10. QED BY <2>6, <2>7, <2>8, <2>9 DEF TabTold, w2, pn2
<1>10. QED BY <1>6, <1>9 DEF MessagesSound

\* The document of a tab is complete.
LEMMA CompleteStep ==
  ASSUME MessagesSound, toWorker # <<>>, toWorker' = Tail(toWorker), Head(toWorker).type = "complete",
         UNCHANGED <<view, frame, tree, due, toPanel, number, late>>
  PROVE  MessagesSound'
<1> DEFINE m == Head(toWorker)
<1>1. RoutingTyped
  BY DEF MessagesSound
<1>2. toWorker \in Seq(Traffic)
  BY <1>1 DEF RoutingTyped
<1>3. toWorker' \in Seq(Traffic)
  BY <1>2
<1>4. RoutingTyped'
  BY <1>1, <1>3 DEF RoutingTyped
<1>5. ASSUME NEW u \in Pages
      PROVE  TabTold(toWorker', toPanel[u], view[u], frame[u], tree[u], due[u], number[u], late, u)
  <2>1. m \notin Concerning(u)
    BY DEF Concerning, RouteTraffic, StatusTraffic, OperationTraffic
  <2>2. SameAbout(toWorker, toWorker', Concerning(u)) /\ SameAbout(toPanel[u], toPanel[u], Concerning(u))
    BY <2>1, <1>2, OthersTaken, SameIsSame
  <2>3. QED BY <2>2, Untouched, Zenon
<1>6. QED BY <1>4, <1>5 DEF MessagesSound

\* What the worker takes about the frames of a tab.
LEMMA TakenKnown ==
  ASSUME MessagesSound, toWorker # <<>>, Head(toWorker).type \in {"mode", "loading", "hello", "frames"}
  PROVE  LET t == Head(toWorker).tab IN
         /\ t \in Pages /\ toWorker \in Seq(Traffic) /\ toPanel[t] \in Seq(Traffic)
         /\ RouteSound(toWorker, toPanel[t], view[t].frames, Routed(view[t].mode), frame[t], tree[t], due[t], late, t)
         /\ tree[t] \in SUBSET FramesOf(t)
         /\ Head(toWorker).type = "hello" => Head(toWorker).frame \in FramesOf(t) /\ Head(toWorker) \in Hellos(t, Head(toWorker).frame)
         /\ Head(toWorker).type = "frames" => \A f : Head(toWorker) \in Listing(t, f)
<1> DEFINE m == Head(toWorker)
<1> DEFINE t == m.tab
<1>1. toWorker \in Seq(Traffic)
  BY DEF MessagesSound, RoutingTyped
<1>2. m \in Traffic /\ m.type \in {"mode", "loading", "hello", "frames"}
  BY <1>1, MeetsTail
<1>3. 1 \in 1..Len(toWorker) /\ toWorker[1] = m
  BY <1>1
<1> HIDE DEF m
<1>4. t \in Pages
  BY <1>2 DEF Traffic
<1> HIDE DEF t
<1>5. /\ RouteSound(toWorker, toPanel[t], view[t].frames, Routed(view[t].mode), frame[t], tree[t], due[t], late, t)
      /\ toPanel[t] \in Seq(Traffic)
  BY <1>4, RouteKnown, TabTyped
<1>6. tree[t] \in SUBSET FramesOf(t)
  BY <1>5 DEF RouteSound, TreeIsTold
<1>7. m \notin Strangers(t)
  BY <1>3, <1>5 DEF RouteSound, Meets
<1>8. m.type = "hello" => m.frame \in FramesOf(t) /\ m \in Hellos(t, m.frame)
  BY <1>2, <1>7 DEF Strangers, Hellos, t
<1>9. m.type = "frames" => \A f : m \in Listing(t, f)
  BY <1>2 DEF Listing, t
<1>10. QED BY <1>1, <1>4, <1>5, <1>6, <1>8, <1>9 DEF m, t

\* The worker forgets the frames of a tab that loads and tells the panel.
LEMMA LoadingTakenStep ==
  ASSUME MessagesSound, toWorker # <<>>, toWorker' = Tail(toWorker),
         Head(toWorker).type = "loading", updateFrameTree(Head(toWorker).tab, {}),
         UNCHANGED <<view, due, number, late>>
  PROVE  MessagesSound'
<1> DEFINE t == Head(toWorker).tab
<1>1. /\ t \in Pages /\ toWorker \in Seq(Traffic) /\ toPanel[t] \in Seq(Traffic)
      /\ RouteSound(toWorker, toPanel[t], view[t].frames, Routed(view[t].mode), frame[t], tree[t], due[t], late, t)
  BY TakenKnown
<1>2. Head(toWorker).tab = t /\ updateFrameTree(t, {}) /\ {} \in SUBSET FramesOf(t)
  OBVIOUS
<1> HIDE DEF t
<1>3. RouteSound(Tail(toWorker), Append(toPanel[t], [type |-> "session", frames |-> {}]),
                 view[t].frames, Routed(view[t].mode), frame[t], {}, due[t], late, t)
  BY <1>1, <1>2, RouteLoadingTaken
<1>4. RouteSound(toWorker', Append(toPanel[t], [type |-> "session", frames |-> {}]),
                 view[t].frames, Routed(view[t].mode), frame[t], {}, due[t], late, t)
  BY <1>3
<1>5. Head(toWorker).type \in {"loading", "hello", "frames"}
  OBVIOUS
<1>6. QED BY <1>1, <1>2, <1>4, <1>5, TreeStep, Zenon

\* More frames are listed.
LEMMA ListedStep ==
  ASSUME MessagesSound, toWorker # <<>>, toWorker' = Tail(toWorker),
         Head(toWorker).type \in {"hello", "frames"},
         NEW F \in SUBSET FramesOf(Head(toWorker).tab), F # {},
         \A f \in F \ tree[Head(toWorker).tab] : Head(toWorker) \in Listing(Head(toWorker).tab, f),
         updateFrameTree(Head(toWorker).tab, F),
         UNCHANGED <<view, due, number, late>>
  PROVE  MessagesSound'
<1> DEFINE t == Head(toWorker).tab
<1>1. /\ t \in Pages /\ toWorker \in Seq(Traffic) /\ toPanel[t] \in Seq(Traffic)
      /\ RouteSound(toWorker, toPanel[t], view[t].frames, Routed(view[t].mode), frame[t], tree[t], due[t], late, t)
  BY TakenKnown
<1>2. Head(toWorker).tab = t /\ updateFrameTree(t, F) /\ F \in SUBSET FramesOf(t)
  OBVIOUS
<1>3. \A f \in F \ tree[t] : Head(toWorker) \in Listing(t, f)
  OBVIOUS
<1> HIDE DEF t
<1>4. RouteSound(Tail(toWorker), Append(toPanel[t], [type |-> "session", frames |-> F]),
                 view[t].frames, Routed(view[t].mode), frame[t], F, due[t], late, t)
  BY <1>1, <1>2, <1>3, RouteListed, Zenon
<1>5. RouteSound(toWorker', Append(toPanel[t], [type |-> "session", frames |-> F]),
                 view[t].frames, Routed(view[t].mode), frame[t], F, due[t], late, t)
  BY <1>4
<1>6. Head(toWorker).type \in {"loading", "hello", "frames"}
  OBVIOUS
<1>7. QED BY <1>1, <1>2, <1>5, <1>6, TreeStep

\* A frame says hello that is listed already.
LEMMA KnownStep ==
  ASSUME MessagesSound, toWorker # <<>>, toWorker' = Tail(toWorker),
         Head(toWorker).type = "hello", Head(toWorker).frame \in tree[Head(toWorker).tab],
         UNCHANGED <<view, frame, tree, due, toPanel, number, late>>
  PROVE  MessagesSound'
<1> DEFINE t == Head(toWorker).tab
<1>1. /\ t \in Pages /\ toWorker \in Seq(Traffic) /\ toPanel[t] \in Seq(Traffic)
      /\ RouteSound(toWorker, toPanel[t], view[t].frames, Routed(view[t].mode), frame[t], tree[t], due[t], late, t)
  BY TakenKnown
<1>2. Head(toWorker).tab = t /\ tree[t] # {}
  OBVIOUS
<1> HIDE DEF t
<1>3. RouteSound(Tail(toWorker), toPanel[t], view[t].frames, Routed(view[t].mode), frame[t], tree[t], due[t], late, t)
  BY <1>1, <1>2, RouteHelloKnown
<1>4. RouteSound(toWorker', toPanel'[t], view[t].frames, Routed(view[t].mode), frame'[t], tree'[t], due[t], late, t)
  BY <1>3
<1>5. SameAbout(toPanel[t], toPanel'[t], StatusTraffic \cup OperationTraffic(t)) /\ toPanel'[t] \in Seq(Traffic)
  BY <1>1, SameIsSame
<1>6. /\ frame[t] \in [FramesOf(t) -> SentModes \cup {"unborn"}]
      /\ DOMAIN frame = Pages /\ DOMAIN tree = Pages
  BY <1>1, RouteKnown
<1>7. toPanel = [u \in Pages |-> toPanel[u]]
  BY DEF MessagesSound, RoutingTyped
<1>8. /\ frame'[t] \in [FramesOf(t) -> SentModes \cup {"unborn"}]
      /\ DOMAIN frame' = Pages /\ DOMAIN tree' = Pages /\ toPanel' = [u \in Pages |-> toPanel'[u]]
      /\ \A u \in Pages : u # t => frame'[u] = frame[u] /\ tree'[u] = tree[u] /\ toPanel'[u] = toPanel[u]
  BY <1>6, <1>7
<1>9. Head(toWorker).type \in {"mode", "loading", "hello", "frames"}
  OBVIOUS
<1>10. QED BY <1>1, <1>2, <1>4, <1>5, <1>8, <1>9, TakenStep, Zenon

\* The worker handles a message.
LEMMA WorkerStep ==
  ASSUME MessagesSound, WorkerHears
  PROVE  MessagesSound'
<1> DEFINE m == Head(toWorker)
<1>1. /\ toWorker # <<>> /\ toWorker' = Tail(toWorker)
      /\ UNCHANGED <<view, due, number, late>>
  BY DEF WorkerHears
<1>2. toWorker \in Seq(Traffic)
  BY DEF MessagesSound, RoutingTyped
<1>3. m \in Traffic
  BY <1>1, <1>2, MeetsTail
<1>4. CASE m.type = "mode" /\ routeToContent(m)
  BY <1>1, <1>4, ModeStep
<1>5. CASE m.type \in {"cleared", "status"} /\ Broadcast(m) /\ UNCHANGED <<tree, frame, asked>>
  <2>1. m = (IF m.type = "operation" THEN Vouched(m) ELSE m)
    BY <1>5
  <2>2. m.type \in {"cleared", "status", "operation"} /\ m = Head(toWorker)
    BY <1>5
  <2> HIDE DEF m
  <2>3. QED BY <1>1, <1>3, <1>5, <2>1, <2>2, BroadcastStep
<1>6. CASE m.type = "operation" /\ Broadcast(Vouched(m)) /\ UNCHANGED <<tree, frame, asked>>
  <2> DEFINE v == Vouched(m)
  <2>1. v = (IF m.type = "operation" THEN Vouched(m) ELSE m) /\ Broadcast(v)
    BY <1>6
  <2>2. m.type \in {"cleared", "status", "operation"} /\ m = Head(toWorker)
    BY <1>6
  <2> HIDE DEF m, v
  <2>3. QED BY <1>1, <1>3, <1>6, <2>1, <2>2, BroadcastStep
<1>7. CASE m.type = "loading" /\ updateFrameTree(m.tab, {})
  BY <1>1, <1>7, LoadingTakenStep
<1>8. CASE m.type = "hello" /\ handleFrameHello(m)
  <2>1. CASE m.frame \in tree[m.tab]
    BY <2>1, <1>1, <1>8, KnownStep DEF handleFrameHello
  <2>2. CASE m.frame \notin tree[m.tab]
    <3> DEFINE F == tree[m.tab] \cup {m.frame}
    <3>1. updateFrameTree(m.tab, F)
      BY <2>2, <1>8 DEF handleFrameHello
    <3>2. tree[m.tab] \in SUBSET FramesOf(m.tab) /\ m.frame \in FramesOf(m.tab) /\ m \in Hellos(m.tab, m.frame)
      BY <1>1, <1>8, TakenKnown
    <3>3. F \in SUBSET FramesOf(m.tab) /\ F # {} /\ \A f \in F \ tree[m.tab] : m \in Listing(m.tab, f)
      BY <3>2 DEF Listing
    <3>4. m.type \in {"hello", "frames"}
      BY <1>8
    <3> HIDE DEF F
    <3>5. QED BY <3>1, <3>3, <3>4, <1>1, ListedStep
  <2>3. QED BY <2>1, <2>2
<1>9. CASE /\ m.type = "complete"
           /\ asked' = [asked EXCEPT ![m.tab] = TRUE]
           /\ UNCHANGED <<tree, toPanel, frame>>
  BY <1>1, <1>9, CompleteStep
<1>10. CASE m.type = "frames" /\ updateFrameTree(m.tab, FramesOf(m.tab))
  <2> DEFINE F == FramesOf(m.tab)
  <2>1. m.tab \in Pages /\ \A f : m \in Listing(m.tab, f)
    BY <1>1, <1>10, TakenKnown
  <2>2. F # {}
    BY <2>1, RoutingAssumption
  <2>3. F \in SUBSET FramesOf(m.tab) /\ updateFrameTree(m.tab, F) /\ m.type \in {"hello", "frames"}
    BY <1>10
  <2>4. \A f \in F \ tree[m.tab] : m \in Listing(m.tab, f)
    BY <2>1
  <2> HIDE DEF F
  <2>5. QED BY <2>2, <2>3, <2>4, <1>1, ListedStep
<1>11. QED BY <1>4, <1>5, <1>6, <1>7, <1>8, <1>9, <1>10 DEF WorkerHears

\* Each step of the messages keeps what is known of them.
LEMMA RoutingStep ==
  ASSUME MessagesSound, [RoutingNext]_routingVars
  PROVE  MessagesSound'
<1>1. CASE WorkerHears
  BY <1>1, WorkerStep
<1>2. CASE \E t \in Pages : PanelHears(t)
  BY <1>2, PanelHearsStep
<1>3. CASE \E t \in Pages : onEscapeWhenIdle(t)
  BY <1>3, EscapeStep
<1>4. CASE \E t \in Pages : RecordOperation(t)
  BY <1>4, RecordStep
<1>5. CASE \E t \in Pages : Load(t)
  BY <1>5, LoadStep
<1>6. CASE \E t \in Pages : Completed(t)
  BY <1>6, FrameListedStep
<1>7. CASE \E t \in Pages : DiscoveryAnswers(t)
  BY <1>7, DiscoveryStep
<1>8. CASE \E t \in Pages : \E m \in PageModes \cup Editors : ChangeMode(t, m)
  BY <1>8, ChangeModeStep
<1>9. CASE \E t \in Pages : \E s \in {NoMode, "refused"} : TellStatus(t, s)
  BY <1>9, StatusStep DEF Statuses
<1>10. CASE \E t \in Pages : \E f \in FramesOf(t) : sendFrameHello(t, f)
  BY <1>10, HelloStep
<1>11. CASE UNCHANGED routingVars
  BY <1>11 DEF routingVars, MessagesSound, RoutingTyped
<1>12. QED BY <1>1, <1>2, <1>3, <1>4, <1>5, <1>6, <1>7, <1>8, <1>9, <1>10, <1>11 DEF RoutingNext

\* At the start every frame is listed and no message is under way.
LEMMA RoutingStart ==
  ASSUME RoutingInit
  PROVE  MessagesSound
<1>1. /\ view = [t \in Pages |-> FreshPanel]
      /\ frame = [t \in Pages |-> [f \in FramesOf(t) |-> NoMode]]
      /\ tree = [t \in Pages |-> FramesOf(t)]
      /\ toWorker = <<>> /\ toPanel = [t \in Pages |-> <<>>]
      /\ number = [t \in Pages |-> [ops |-> 0, told |-> NoMode]]
  BY DEF RoutingInit
<1>2. DOMAIN due = Pages /\ \A t \in Pages : due[t] = {} \/ due[t] = {-1}
  BY DEF RoutingInit
<1>3. FreshPanel \in Panels
  BY DEF FreshPanel, Panels, SentModes, Statuses
<1>4. RoutingTyped
  <2>1. <<>> \in Seq(Traffic)
    OBVIOUS
  <2>2. number \in [Pages -> [ops : Nat, told : Statuses]]
    BY <1>1 DEF Statuses
  <2>3. \A t \in Pages : frame[t] \in [FramesOf(t) -> SentModes \cup {"unborn"}]
    BY <1>1 DEF SentModes
  <2>4. QED BY <2>1, <2>2, <2>3, <1>1, <1>2, <1>3 DEF RoutingTyped
<1>5. ASSUME NEW t \in Pages
      PROVE  TabTold(toWorker, toPanel[t], view[t], frame[t], tree[t], due[t], number[t], late, t)
  <2>1. /\ toWorker = <<>> /\ toPanel[t] = <<>> /\ tree[t] = FramesOf(t)
        /\ view[t].mode = NoMode /\ view[t].frames = {} /\ view[t].route = <<NoMode, {}>>
        /\ view[t].status = NoMode /\ view[t].recorded = <<>>
        /\ number[t].ops = 0 /\ number[t].told = NoMode
        /\ \A f \in FramesOf(t) : frame[t][f] = NoMode
    BY <1>1 DEF FreshPanel
  <2>2. Routed(NoMode) = NoMode
    BY DEF Routed
  <2>3. 0 \in FramesOf(t) /\ -1 \notin FramesOf(t) /\ NoMode # "unborn"
    BY RoutingAssumption
  <2>4. \A X : ~Meets(<<>>, X) /\ (\A B, G : FollowedBy(<<>>, B, G)) /\ \A A, B : NoneAfter(<<>>, A, B)
    BY NothingMeets
  <2>5. TreeIsTold(<<>>, {}, FramesOf(t), t)
    BY <2>4 DEF TreeIsTold
  <2>6. TopWillSayHello(<<>>, due[t], FramesOf(t), t)
    BY <2>3, <2>4 DEF TopWillSayHello
  <2>7. \A f \in FramesOf(t) : f \in due[t] => frame[t][f] = "unborn"
    BY <1>2, <2>3
  <2>8. ListedCanHear(<<>>, frame[t], FramesOf(t), t)
    BY <2>1, <2>3 DEF ListedCanHear
  <2>9. LastModeIsRight(<<>>, {}, NoMode, t)
    BY <2>4 DEF LastModeIsRight
  <2>10. ModesComeTrue(<<>>, <<>>, {}, NoMode, frame[t], FramesOf(t), t)
    BY <2>1, <2>3 DEF ModesComeTrue, routeableFrames
  <2>11. RouteSound(<<>>, <<>>, {}, NoMode, frame[t], FramesOf(t), due[t], late, t)
    BY <2>4, <2>5, <2>6, <2>7, <2>8, <2>9, <2>10 DEF RouteSound
  <2>12. \A type : Numbered(<<>>, type, t, 0, 0)
    <3>1. \A k \in Nat : ~(0 < k /\ k <= 0)
      OBVIOUS
    <3>2. QED BY <2>4, <3>1 DEF Numbered
  <2>13. OperationsSound(<<>>, <<>>, <<>>, 0, t)
    <3>1. Len(<<>>) = 0 /\ \A i : i \notin 1..0
      OBVIOUS
    <3>2. \A i \in 1..Len(<<>>) : <<>>[i] = <<t, i>>
      BY <3>1
    <3>3. Numbered(<<>>, "trusted", t, Len(<<>>), 0) /\ Numbered(<<>>, "operation", t, 0, 0) /\ Len(<<>>) <= 0 /\ 0 <= 0
      BY <2>12, <3>1
    <3>4. QED BY <3>2, <3>3 DEF OperationsSound
  <2>14. StatusSound(<<>>, <<>>, NoMode, NoMode)
    BY <2>4 DEF StatusSound
  <2>15. QED BY <2>1, <2>2, <2>11, <2>13, <2>14 DEF TabTold
<1>6. QED BY <1>4, <1>5 DEF MessagesSound

\* What is known of the messages says that they arrive.
LEMMA SoundArrives ==
  ASSUME MessagesSound
  PROVE  MessagesArrive
<1>1. ASSUME Quiet, NEW t \in Pages
      PROVE  /\ Len(view[t].recorded) = number[t].ops /\ view[t].status = number[t].told
             /\ ~late => \A f \in routeableFrames(view[t].frames) : frame[t][f] = Routed(view[t].mode)
  <2>1. toWorker = <<>> /\ toPanel[t] = <<>> /\ due[t] = {}
    BY <1>1 DEF Quiet
  <2>2. \A X : ~Meets(<<>>, X)
    BY NothingMeets
  <2>3. TabTold(<<>>, <<>>, view[t], frame[t], tree[t], {}, number[t], late, t)
    BY <2>1, TabTyped, Zenon
  <2>4. view[t].status = number[t].told
    BY <2>2, <2>3 DEF TabTold, StatusSound
  <2>5. Len(view[t].recorded) = number[t].ops
    <3> DEFINE k == Len(view[t].recorded)
    <3> DEFINE n == number[t].ops
    <3>1. PICK c \in Nat : Numbered(<<>>, "trusted", t, k, c) /\ Numbered(<<>>, "operation", t, c, n) /\ k <= c /\ c <= n
      BY <2>3 DEF TabTold, OperationsSound
    <3>2. k \in Nat /\ n \in Nat
      <4>1. view[t] \in Panels /\ number[t] \in [ops : Nat, told : Statuses]
        BY TabTyped
      <4>2. view[t].recorded \in Seq(Pages \X Nat)
        BY <4>1 DEF Panels
      <4>3. QED BY <4>1, <4>2
    <3> HIDE DEF k, n
    <3>3. ~(k < c)
      BY <3>1, <2>2 DEF Numbered
    <3>4. ~(c < n)
      BY <3>1, <3>2, <2>2 DEF Numbered
    <3>5. k = n
      BY <3>1, <3>2, <3>3, <3>4
    <3>6. QED BY <3>5 DEF k, n
  <2>6. ASSUME ~late, NEW f \in routeableFrames(view[t].frames)
        PROVE  frame[t][f] = Routed(view[t].mode)
    <3>1. RouteSound(<<>>, <<>>, view[t].frames, Routed(view[t].mode), frame[t], tree[t], {}, late, t)
      BY <2>3 DEF TabTold
    <3>2. tree[t] # {}
      BY <3>1, <2>2 DEF RouteSound, TopWillSayHello
    <3>3. ~RoutesAgain(<<>>, <<>>, view[t].frames, tree[t], t)
      BY <3>2, <2>2 DEF RoutesAgain
    <3>4. ModesComeTrue(<<>>, <<>>, view[t].frames, Routed(view[t].mode), frame[t], tree[t], t)
      BY <3>1, <2>6 DEF RouteSound
    <3>5. QED BY <3>3, <3>4, <2>2, <2>6 DEF ModesComeTrue
  <2>7. QED BY <2>4, <2>5, <2>6
<1>2. ModesAgree
  BY <1>1 DEF ModesAgree
<1>3. ASSUME NEW t \in Pages, NEW i \in DOMAIN view[t].recorded
      PROVE  view[t].recorded[i] = <<t, i>>
  <2>1. view[t] \in Panels /\ TabTold(toWorker, toPanel[t], view[t], frame[t], tree[t], due[t], number[t], late, t)
    BY TabTyped
  <2>2. view[t].recorded \in Seq(Pages \X Nat)
    BY <2>1 DEF Panels
  <2>3. i \in 1..Len(view[t].recorded)
    BY <2>2
  <2>4. QED BY <2>1, <2>3 DEF TabTold, OperationsSound
<1>4. QED BY <1>1, <1>2, <1>3 DEF MessagesArrive

\* The messages arrive (MessageRouting; the panel's effect in useToolbarMode, the worker's
\* router and relay, the frames' hello): in every state, for any tabs, frames and modes.
THEOREM MessagesAreDelivered == Spec => []MessagesArrive
<1>1. Init => MessagesSound
  BY RoutingStart DEF Init
<1>2. MessagesSound /\ [Next]_allVars => MessagesSound'
  BY EachOnItsOwn, RoutingStep
<1>3. MessagesSound => MessagesArrive
  BY SoundArrives
<1>4. QED BY <1>1, <1>2, <1>3, PTL DEF Spec

=============================================================================
