--------------------------- MODULE ResizeDecisions ---------------------------
(***************************************************************************)
(* What a drag of a resize handle will do, decided from the selected       *)
(* element's surroundings: which handles resize a pair of flex items, what *)
(* the overlay shows of it, how the pointer becomes a delta, and whether   *)
(* the page did what was planned.                                          *)
(***************************************************************************)
EXTENDS FlexLayout

ResizeHandles == {{"n"}, {"n", "e"}, {"e"}, {"s", "e"}, {"s"}, {"s", "w"}, {"w"}, {"n", "w"}}

\* The order in which the handles are looked at.
HandleOrder == <<{"n"}, {"n", "e"}, {"e"}, {"s", "e"}, {"s"}, {"s", "w"}, {"w"}, {"n", "w"}>>

cardinalHandle ==
  [h \in {{"n"}, {"e"}, {"s"}, {"w"}} |->
     CASE h = {"n"} -> "top" [] h = {"e"} -> "right" [] h = {"s"} -> "bottom" [] h = {"w"} -> "left"]

Size(box, axis) == IF axis = "x" THEN box.w ELSE box.h
Start(box, axis) == IF axis = "x" THEN box.x ELSE box.y
Twice(box, axis) == 2 * Start(box, axis) + Size(box, axis)

\* Centers do not advance along the screen: what is next to what cannot be told.
visualNeighborAmbiguous(items, p) ==
  LET row == IF p.sign = 1 THEN items ELSE Reverse(items)
  IN  \E k \in 2..Len(row) : Twice(row[k], p.axis) <= Twice(row[k - 1], p.axis)

\* The route of a handle.  c: [display, readable, context, wrap, definite, text, effects,
\* durable, box, items, target]; target counts from 0.
prepareFlexPairResize(c, handle) ==
  LET p == resolveFlexAxis(c.context)
      side == cardinalHandle[handle]
      boundary == resolvePhysicalFlexHandle(p, side)
      e == evaluateFlexPairEligibility(
             [context |-> c.context, boundary |-> boundary, primary |-> c.target,
              ambiguous |-> visualNeighborAmbiguous(c.items, p),
              container |-> [wrap |-> c.wrap, size |-> c.box.w * c.box.h, definite |-> c.definite,
                             text |-> c.text, effects |-> c.effects],
              items |-> [k \in DOMAIN c.items |->
                           [order |-> c.items[k].order, inFlow |-> c.items[k].inFlow,
                            contents |-> c.items[k].contents, autoMargin |-> c.items[k].autoMargin,
                            effects |-> c.items[k].effects, size |-> c.items[k].w * c.items[k].h]]])
  IN  IF c.display \notin {"flex", "inline-flex"} THEN [kind |-> "not-flex"]
      ELSE IF Cardinality(handle) > 1 THEN [kind |-> "corner-disabled"]
      ELSE IF ~c.readable THEN [kind |-> "rejected", code |-> "malformed_model"]
      ELSE IF boundary = "cross-axis"
           THEN [kind |-> "cross-axis", property |-> IF side \in {"left", "right"} THEN "width" ELSE "height"]
      ELSE IF ~e.eligible THEN [kind |-> "rejected", code |-> e.code]
      ELSE [kind |-> "pair", axis |-> p, side |-> side, primary |-> c.target, neighbor |-> e.neighbor]

\* The other children, which the drag must not move.
Witnesses(c, r) == {d \in 0..(Len(c.items) - 1) : d \notin {r.primary, r.neighbor}}

------------------------------------------------------------------------------
(* What the overlay shows.                                                  *)

Disabled(c) == {h \in ResizeHandles : prepareFlexPairResize(c, h).kind \in {"corner-disabled", "rejected"}}

\* Of a selected element, before any drag.
feedbackForFlexResizeSelection(c) ==
  LET Of(kind) == SelectSeq(HandleOrder, LAMBDA h : prepareFlexPairResize(c, h).kind = kind)
      Shown(kind, pair, why) == [kind |-> kind, pair |-> pair, why |-> why, disabled |-> Disabled(c)]
  IN  IF Of("pair") # <<>> THEN Shown("valid", prepareFlexPairResize(c, Of("pair")[1]).neighbor, "")
      ELSE IF Of("rejected") # <<>>
           THEN Shown("blocked", Null, prepareFlexPairResize(c, Of("rejected")[1]).code)
      ELSE IF Of("corner-disabled") # <<>> THEN Shown("disabled-edge", Null, "corner")
      ELSE [kind |-> "none"]

\* Of a refused drag: only its handle is marked.
disabledEdgeFeedback(handle) ==
  [kind |-> "disabled-edge", pair |-> Null, why |-> "corner", disabled |-> {handle} \ {{}}]
blockedFeedback(handle, code) ==
  [kind |-> "blocked", pair |-> Null, why |-> code, disabled |-> {handle} \ {{}}]

\* Of the handle that is pressed; the pair shown stays that of the selection.
feedbackForFlexResizeHandle(c, handle) ==
  LET r == prepareFlexPairResize(c, handle)
  IN  CASE r.kind = "pair" -> [feedbackForFlexResizeSelection(c) EXCEPT !.kind = "active"]
        [] r.kind = "corner-disabled" -> disabledEdgeFeedback(handle)
        [] r.kind = "rejected" -> blockedFeedback(handle, r.code)
        [] OTHER -> [kind |-> "none"]

------------------------------------------------------------------------------
(* The drag.                                                                *)

computeFlexPairDelta(r, moved, alt) ==
  (IF r.axis.axis = "x" THEN moved.x ELSE moved.y)
  * (IF r.side \in {"left", "top"} THEN -1 ELSE 1) * IF alt THEN 2 ELSE 1

sizingInput(item, axis) ==
  [before |-> Size(item, axis), min |-> item.min, max |-> item.max,
   contentBox |-> item.contentBox, edges |-> item.edges]

\* The tree is the one of the selection: same children, still no text among them.
currentTreeMatches(c, now) == now.children = [k \in DOMAIN c.items |-> k] /\ ~now.text

\* The plan of a frame, with the operation that carries it: refused where an element could
\* not be found again.
applyFlexPairCandidate(c, r, delta, now) ==
  LET plan == planPairedFlexResize(delta, sizingInput(At0(c, r.primary), r.axis.axis),
                                   sizingInput(At0(c, r.neighbor), r.axis.axis))
  IN  IF \/ delta = 0 \/ ~currentTreeMatches(c, now) \/ plan.kind = "rejected"
         \/ ~c.durable \/ \E k \in DOMAIN c.items : ~c.items[k].durable
      THEN [applied |-> FALSE]
      ELSE [applied |-> TRUE, delta |-> delta, basis |-> plan.basis, witnesses |-> Witnesses(c, r)]

rectMatches(a, b) ==
  /\ Near(a.x, b.x, 1) /\ Near(a.y, b.y, 1) /\ Near(a.w, b.w, 1) /\ Near(a.h, b.h, 1)

\* The frame after the preview: the pair has its planned sizes and its total, and neither
\* the container nor another child moved, within a pixel.
measureAndValidateFlexPair(c, r, delta, now) ==
  LET p == sizingInput(At0(c, r.primary), r.axis.axis)
      n == sizingInput(At0(c, r.neighbor), r.axis.axis)
      seen == [primary |-> Size(now.boxes[r.primary + 1], r.axis.axis),
               neighbor |-> Size(now.boxes[r.neighbor + 1], r.axis.axis)]
  IN  /\ currentTreeMatches(c, now)
      /\ validatePairedFlexResize(delta, p, n, seen, 1)
      /\ Near(seen.primary + seen.neighbor, p.before + n.before, 1)
      /\ rectMatches(now.container, c.box)
      /\ \A d \in Witnesses(c, r) : rectMatches(now.boxes[d + 1], At0(c, d))

\* A single property: what its drag starts from; aspect-ratio and align-self have no
\* length, and an auto basis starts from the used size.
isSingleResizeProperty(property) == property \notin {"aspect-ratio", "align-self"}
propertyUnit(property) == IF property \in {"flex-grow", "flex-shrink"} THEN "" ELSE "px"
PROPERTY_TO_AXIS(property) ==
  IF property \in {"height", "min-height", "max-height", "align-self"} THEN "y" ELSE "x"
usedFlexBasis(context, box) == IF IsRow(context) THEN box.w ELSE box.h

createSingleResizeTarget(property, value, context, box) ==
  LET from == IF property = "flex-basis" /\ value.unit = "auto" THEN usedFlexBasis(context, box)
              ELSE IF isSingleResizeProperty(property) /\ value.unit = propertyUnit(property)
                   THEN value.number ELSE Null
  IN  IF from = Null THEN [ok |-> FALSE]
      ELSE [ok |-> TRUE, from |-> from, axis |-> PROPERTY_TO_AXIS(property), unit |-> propertyUnit(property)]

------------------------------------------------------------------------------
(* What a browser does with a container whose items have these sizes: one  *)
(* after the other from the start of the main axis.                        *)

Placed(sizes, p, k) ==
  LET before == SumFunctionOnSet(sizes, 1..(k - 1))
      at == IF p.sign = 1 THEN before ELSE -(before + sizes[k])
  IN  IF p.axis = "x" THEN [x |-> at, y |-> 0, w |-> sizes[k], h |-> 4]
      ELSE [x |-> 0, y |-> at, w |-> 4, h |-> sizes[k]]

EdgeAt(box, side) ==
  CASE side = "left" -> box.x [] side = "right" -> box.x + box.w
    [] side = "top" -> box.y [] side = "bottom" -> box.y + box.h

Opposite(side) ==
  CASE side = "left" -> "right" [] side = "right" -> "left"
    [] side = "top" -> "bottom" [] side = "bottom" -> "top"

\* prepareFlexPairResize (logical-axis.ts, selectVisualBoundaryNeighbor): the neighbor that
\* pays for a drag is the one at the dragged side.
PairSharesTheEdge ==
  asked.about = "resize" =>
    LET c == asked.x.context
        r == prepareFlexPairResize(c, asked.x.handle)
    IN  r.kind = "pair" =>
          EdgeAt(At0(c, r.neighbor), Opposite(r.side)) = EdgeAt(At0(c, r.primary), r.side)

\* prepareFlexPairResize ... measureAndValidateFlexPair: the handles shown as disabled are
\* those that do nothing; a pair is next to each other; in a container that grows to the
\* right or down the dragged edge follows the pointer, and a plain one can be resized at
\* its inner edges only; a frame is accepted when all other children stayed, and
\* refused when one moved, whatever the direction.
EdgeFollowsPointer ==
  asked.about = "resize" =>
    \A c \in {asked.x.context} : \A r \in {prepareFlexPairResize(c, asked.x.handle)}, shown \in {feedbackForFlexResizeSelection(c)} :
    LET tree == [children |-> [k \in DOMAIN c.items |-> k], text |-> FALSE]
        delta == computeFlexPairDelta(r, asked.x.moved, FALSE)
        plan == applyFlexPairCandidate(c, r, delta, tree)
        sizes == [k \in DOMAIN c.items |->
                    Size(c.items[k], r.axis.axis)
                    + IF k = r.primary + 1 THEN delta ELSE IF k = r.neighbor + 1 THEN -delta ELSE 0]
        After(by) == [children |-> tree.children, text |-> FALSE, container |-> c.box,
                      boxes |-> [k \in DOMAIN sizes |->
                        LET b == Placed(sizes, r.axis, k)
                        IN  IF k - 1 \in {r.primary, r.neighbor} THEN b ELSE [b EXCEPT !.x = @ + by]]]
        along == IF r.axis.axis = "x" THEN asked.x.moved.x ELSE asked.x.moved.y
    IN  /\ shown.kind # "none" =>
             (asked.x.handle \in shown.disabled <=> r.kind \in {"corner-disabled", "rejected"})
        /\ r.kind = "pair" =>
             /\ shown.kind = "valid"
             /\ r.neighbor - r.primary \in {-1, 1}
             /\ plan.applied =>
                  /\ measureAndValidateFlexPair(c, r, delta, After(0))
                  /\ Witnesses(c, r) # {} => ~measureAndValidateFlexPair(c, r, delta, After(2))
                  /\ r.axis.sign = 1 => EdgeAt(After(0).boxes[r.primary + 1], r.side)
                                        = EdgeAt(At0(c, r.primary), r.side) + along
        /\ asked.x.plain /\ Cardinality(asked.x.handle) = 1 /\ resolveFlexAxis(c.context).sign = 1 =>
             (r.kind = "pair" <=> \E k \in DOMAIN c.items :
                LET here == At0(c, c.target)
                    it == c.items[k]
                IN  CASE asked.x.handle = {"e"} -> it.y = here.y /\ it.x = here.x + here.w
                      [] asked.x.handle = {"w"} -> it.y = here.y /\ it.x + it.w = here.x
                      [] asked.x.handle = {"s"} -> it.x = here.x /\ it.y = here.y + here.h
                      [] asked.x.handle = {"n"} -> it.x = here.x /\ it.y + it.h = here.y)

\* A resize of a flex pair is what the page will show: an accepted plan keeps the total
\* of the pair, the dragged edge follows the pointer, and no other child moves
\* (flex-pair-sizing.ts, flex-pair-resize-strategy.ts).
ResizeIsAsShown == PlanIsWhatIsShown /\ EdgeFollowsPointer
==============================================================================
