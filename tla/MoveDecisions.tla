---------------------------- MODULE MoveDecisions ----------------------------
(***************************************************************************)
(* What a drag of an element decides, as pure functions: which container   *)
(* under the pointer takes it (reorder-dom-context.ts, move-drop-target.ts), *)
(* whether the drop is allowed (move-evaluation.ts, reparent-feasibility.ts), *)
(* what a key or a group does to the order, and the size a handle gives.   *)
(***************************************************************************)
EXTENDS LayoutIntents

(* reorder-dom-context.ts.  A container is [style, boxed, children, flexMeta]: *)
(* its style for classifyLayoutRole, whether its box has an area, what its    *)
(* children are like ("none", "plain", "transformed", "odd" for an order or   *)
(* margin that cannot be used, "outside" where one is positioned out of flow, *)
(* which a drag skips and the keys refuse), whether its flex metadata are     *)
(* known.                                                                     *)

MoveRoles == {"normal-flow-block", "inline-block", "flex-container", "flex-item", "grid-container"}

\* The style alone is read: the parent's display is not passed on.
layoutRoleFromStyle(style) == classifyLayoutRole([style EXCEPT !.parentDisplay = ""])
PositionedContext(style) == style.position \in {"absolute", "fixed", "sticky"}

measureMoveContainer(c) ==
  LET role == layoutRoleFromStyle(c.style)
  IN  IF ~c.boxed \/ role \notin MoveRoles THEN "unsupported-context"
      ELSE IF role = "grid-container" /\ c.children # "none" THEN "unsupported-grid"
      ELSE IF role = "flex-container" /\ ~c.flexMeta THEN "unsupported-context"
      ELSE IF c.children = "transformed"
      THEN IF role = "flex-container" THEN "ambiguous-flex-lines" ELSE "unsupported-context"
      ELSE IF c.children = "odd" THEN "ambiguous-flex-lines" ELSE "ok"

\* The dragged element, [style, boxed, float], in its parent.
measureMoveSourceContext(e, parent) ==
  IF \/ ~e.boxed \/ e.float \/ e.transformed
     \/ e.style.display = "none" \/ e.style.position \notin {"static", "relative"}
  THEN "unsupported-context"
  ELSE IF layoutRoleFromStyle(parent.style) = "grid-container" THEN "unsupported-grid" ELSE "ok"

\* measureReorderContainer, for the arrow keys: one line and no order only.
measureReorderContainer(c) ==
  IF layoutRoleFromStyle(c.style) # "flex-container" THEN "ok"
  ELSE IF ~c.flexMeta \/ c.wrap # "nowrap" THEN "unsupported-context"
  ELSE CASE c.children = "odd" -> "css-order-warning"
         [] c.children = "outside" -> "unsupported-context"
         [] OTHER -> "ok"

------------------------------------------------------------------------------
(* reparent-feasibility.ts: which risks moving e to a parent p has.         *)

UNSAFE_KINDS ==
  {"slot-shadow-boundary", "render-prop", "server-client-boundary", "cross-file-prop-dependency"}

\* e and p are sets of the descriptor's flags; a source file is "", "here" or "there".
Risk(kind, holds) == IF holds THEN {kind} ELSE {}
buildFeasibility(e, p, contentOk) ==
  LET risks ==
        UNION {Risk("content-model", ~contentOk), Risk("portal", "portal" \in e.flags),
               Risk("repeated-instance", "repeated" \in e.flags),
               Risk("provider", "provider" \in p.flags),
               Risk("source-file", "" \in {e.file, p.file}),
               Risk("label-association", "label" \in e.flags),
               Risk("form-ownership", "field" \in e.flags /\ "form" \notin p.flags),
               Risk("slot-shadow-boundary", ("shadow" \in e.flags) # ("shadow" \in p.flags)),
               Risk("render-prop", "render-prop" \in e.flags),
               Risk("context-provider-outside", "consumer" \in e.flags /\ "context" \notin p.flags),
               Risk("server-client-boundary", ("server" \in e.flags) # ("server" \in p.flags)),
               Risk("cross-file-prop-dependency",
                    "" \notin {e.file, p.file} /\ e.file # p.file /\ "props" \in e.flags)}
  IN  [risks |-> risks, canReparent |-> contentOk,
       confidence |-> IF risks = {} THEN "high" ELSE IF "source-file" \in risks THEN "low" ELSE "medium",
       sourcePatch |-> IF risks = {} THEN "deterministic"
                       ELSE IF risks \cap UNSAFE_KINDS # {} THEN "unsafe" ELSE "agent-required"]

\* move-evaluation.ts: the drop d of an element; insertion is what computeMoveInsertion said.
evaluateMoveCandidate(d) ==
  LET semantic == classifySemanticIntent(d.move)
      emptyGrid == /\ ~d.move.same /\ ~isGridRole(d.move.source)
                   /\ isGridRole(d.move.target) /\ d.childCount = 0
  IN  IF semantic = "unsupported-grid" /\ ~emptyGrid THEN "unsupported-grid"
      ELSE IF semantic = "unsupported-free-move" THEN "unsupported-free-move"
      ELSE IF ~d.move.same /\ ~d.contentOk THEN "invalid-drop-target"
      ELSE IF d.insertion # "ok" THEN d.insertion
      ELSE IF ~d.move.same /\ buildFeasibility(d.element, d.parent, d.contentOk).sourcePatch = "unsafe"
           THEN "unsafe-reparent" ELSE "ok"

------------------------------------------------------------------------------
(* move-drop-target.ts.  What lies under the pointer is a chain of elements,  *)
(* the hit one first and each next one its parent: [zone, droppable, drop],   *)
(* where drop is what measuring, the content model and the insertion say of   *)
(* dropping into that element.                                              *)

\* Where on an anchor of `size` pixels the pointer is, `along` from its main start.
EdgeOf(size) == Min({size \div 3, Max({6, size \div 5}), 24})
zoneAt(along, size) ==
  IF size <= 0 THEN "inside"
  ELSE IF along < EdgeOf(size) THEN "before" ELSE IF along > size - EdgeOf(size) THEN "after" ELSE "inside"

alternatives(zone) == IF zone = "inside" THEN <<"inside", "before", "after">> ELSE <<zone, "inside">>

\* The places to try, best first: [anchor, zone, target]; a place that was found
\* before is known by its anchor and zone, with 0 for the target.
slotsOf(chain) ==
  SelectSeq(
    FlattenSeq([k \in DOMAIN chain |->
      [j \in DOMAIN alternatives(chain[k].zone) |->
        LET z == alternatives(chain[k].zone)[j]
        IN  [anchor |-> k, zone |-> z, target |-> IF z = "inside" THEN k ELSE k + 1]]]),
    LAMBDA s : s.target \in DOMAIN chain /\ chain[s.target].droppable)

\* The first valid place, unless the previous one is still valid, near and not
\* around another valid one.
resolveMoveDropTarget(chain, previous, near) ==
  LET valid == SelectSeq(slotsOf(chain), LAMBDA s : chain[s.target].drop = "ok")
      retained == SelectSeq(valid, LAMBDA s : [s EXCEPT !.target = 0] = previous)
      nested == \E s \in ToSet(valid) : retained # <<>> /\ s.target < retained[1].target
  IN  IF retained # <<>> /\ near /\ ~nested THEN [kind |-> "valid", slot |-> retained[1]]
      ELSE IF valid # <<>> THEN [kind |-> "valid", slot |-> valid[1]]
      ELSE IF slotsOf(chain) # <<>> THEN [kind |-> "invalid", slot |-> slotsOf(chain)[1]]
      ELSE [kind |-> "none"]

------------------------------------------------------------------------------
(* reorder-command-actions.ts and ReorderController.ts: keys and groups.    *)

\* Mutant: the last child can be moved once more.
resolveKeyboardReorder_Past(key, from, count) ==
  LET delta == IF key \in {"ArrowUp", "ArrowLeft"} THEN -1 ELSE 1
      to == Clamp(from + delta, 0, count)
  IN  IF key \notin {"ArrowUp", "ArrowLeft", "ArrowDown", "ArrowRight"} \/ to = from THEN Null ELSE to

resolveKeyboardReorder(key, from, count) ==
  LET delta == IF key \in {"ArrowUp", "ArrowLeft"} THEN -1 ELSE 1
      to == Clamp(from + delta, 0, count - 1)
  IN  IF key \notin {"ArrowUp", "ArrowLeft", "ArrowDown", "ArrowRight"} \/ to = from THEN Null ELSE to

\* checkContext: the parent of an element that a key reorders.
checkContext(role) ==
  LET intent == classifySemanticIntent([same |-> TRUE, source |-> role, target |-> role,
                                        sourcePositioned |-> FALSE, targetPositioned |-> FALSE])
  IN  intent \notin {"unsupported-grid", "unsupported-free-move"} /\ isNormalFlowRole(role)

\* handleKeyDown: where the selected child of a container c goes, Null if it stays.
handleKeyDown(c, key, from, count) ==
  IF measureReorderContainer(c) # "ok" \/ ~checkContext(layoutRoleFromStyle(c.style)) THEN Null
  ELSE resolveKeyboardReorder(key, from, count)

\* reorderGroup: `places` are where the members are now, Null for one that is gone.
reorderGroup(hasParent, role, places, newOrder) ==
  /\ hasParent
  /\ classifyGroupMove([same |-> TRUE, source |-> role, target |-> role, freeMove |-> FALSE,
                        sourcePositioned |-> FALSE, targetPositioned |-> FALSE]) = "group-reorder"
  /\ Null \notin ToSet(places)
  /\ places # newOrder

resizeGridSpan(from, to) == from # to /\ to >= 1

------------------------------------------------------------------------------
(* operations/resize.ts: a handle is the set of the sides it pulls.         *)

axisDelta(handle, delta, axis) ==
  IF axis = "x" THEN IF "e" \in handle THEN delta.x ELSE IF "w" \in handle THEN -delta.x ELSE 0
  ELSE IF "s" \in handle THEN delta.y ELSE IF "n" \in handle THEN -delta.y ELSE 0

\* The box is w : h, both 1 or more; the aspect applies to corners only.
applyAspectLock(handle, box, delta, axis) ==
  IF Cardinality(handle) # 2 \/ box.w = 0 \/ box.h = 0 THEN 0
  ELSE IF axis = "x" THEN ((delta.y * box.w) \div box.h) * IF "n" \in handle THEN -1 ELSE 1
  ELSE ((delta.x * box.h) \div box.w) * IF "w" \in handle THEN -1 ELSE 1

Magnitude(v) == IF v < 0 THEN -v ELSE v

computePreviewValue(handle, box, delta, axis, shift, alt) ==
  LET plain == axisDelta(handle, delta, axis)
      locked == applyAspectLock(handle, box, delta, axis)
      effective == IF shift /\ Cardinality(handle) = 2 /\ Magnitude(locked) > Magnitude(plain) THEN locked ELSE plain
      sides == IF axis = "x" THEN {"e", "w"} ELSE {"n", "s"}
  IN  (IF axis = "x" THEN box.w ELSE box.h)
      + IF handle \cap sides = {} THEN 0 ELSE effective * IF alt THEN 2 ELSE 1

------------------------------------------------------------------------------
\* What the pointer is told is what a release does: a place shown as valid is
\* refused only because one of both containers is positioned (for these the code
\* shows a valid place and refuses the release, unless the place is an empty grid); a place is found wherever one takes
\* the element, stays while the pointer does, and an earlier place is not kept
\* around another that takes it.
ShownIsTaken ==
  /\ asked.about = "place" =>
       LET c == asked.x.container
           role == layoutRoleFromStyle(c.style)
           parent == layoutRoleFromStyle(asked.x.parent.style)
           d == [move |-> [same |-> asked.x.same, source |-> parent, target |-> role, freeMove |-> FALSE,
                           sourcePositioned |-> PositionedContext(asked.x.parent.style),
                           targetPositioned |-> PositionedContext(c.style)],
                 childCount |-> IF c.children = "none" THEN 0 ELSE 1, contentOk |-> asked.x.contentOk,
                 insertion |-> "ok", element |-> [flags |-> {"field"}, file |-> ""],
                 parent |-> [flags |-> {}, file |-> ""]]
       IN  (/\ measureMoveSourceContext(asked.x.element, asked.x.parent) = "ok"
            /\ measureMoveContainer(c) = "ok" /\ (asked.x.same \/ asked.x.contentOk))
              => evaluateMoveCandidate(d) =
                   IF Positioned(d.move) /\ ~isGridRole(role) THEN "unsupported-free-move" ELSE "ok"
  /\ asked.about = "chain" =>
       LET q == asked.x
           r == resolveMoveDropTarget(q.chain, q.previous, q.near)
           takes == {k \in DOMAIN q.chain : \E s \in ToSet(slotsOf(q.chain)) :
                                              s.target = k /\ q.chain[k].drop = "ok"}
       IN  /\ r.kind = "valid" <=> takes # {}
           /\ r.kind = "valid" => q.chain[r.slot.target].drop = "ok" /\ q.chain[r.slot.target].droppable
           /\ r.kind = "valid" =>
                /\ r = resolveMoveDropTarget(q.chain, [r.slot EXCEPT !.target = 0], TRUE)
                /\ r = resolveMoveDropTarget(q.chain, q.previous, FALSE) \/ \A k \in takes : r.slot.target <= k

\* Keys and groups only ever produce an order there is: a key moves by one place and
\* back again, a group that lost a member is not reordered, and a handle moves the
\* side it is on, the opposite ones by opposite amounts.
OrderAndSizeAreReal ==
  /\ asked.about = "key" =>
       LET to == handleKeyDown(asked.x.container, asked.x.key, asked.x.from, asked.x.count)
           back == IF asked.x.key \in {"ArrowUp", "ArrowLeft"} THEN "ArrowDown" ELSE "ArrowUp"
       IN  to # Null => /\ to \in 0..(asked.x.count - 1)
                        /\ handleKeyDown(asked.x.container, back, to, asked.x.count) = asked.x.from
                        /\ ~isGridRole(classifyLayoutRole(asked.x.container.style))
                        /\ layoutRoleFromStyle(asked.x.container.style) = "flex-container"
                             => asked.x.container.children \notin {"odd", "outside"}
  /\ asked.about = "group" =>
       (reorderGroup(TRUE, asked.x.role, asked.x.places, asked.x.order)
          => ~isGridRole(asked.x.role) /\ \A k \in DOMAIN asked.x.places : asked.x.places[k] >= 0)
  /\ asked.about = "handle" =>
       LET q == asked.x
           Opposite == [n |-> "s", s |-> "n", e |-> "w", w |-> "e"]
           other == {Opposite[s] : s \in q.handle}
           Value(h, d) == computePreviewValue(h, q.box, d, q.axis, FALSE, q.alt)
           negated == [x |-> -q.delta.x, y |-> -q.delta.y]
       IN  /\ Value(q.handle, q.delta) = Value(other, negated)
           /\ Magnitude(computePreviewValue(q.handle, q.box, q.delta, q.axis, TRUE, FALSE)
                     - Value(q.handle, [x |-> 0, y |-> 0]))
                >= Magnitude(computePreviewValue(q.handle, q.box, q.delta, q.axis, FALSE, FALSE)
                          - Value(q.handle, [x |-> 0, y |-> 0]))

\* A drop does what the indicator shows: the place is taken wherever one is shown as
\* valid, the index is that of the shown gap, and gaps follow the direction of the
\* container (move-insertion.ts, move-drop-target.ts, insertion-index.ts).
ShownIsDone == DropGoesWhereShown /\ AxisIsFollowed /\ ShownIsTaken

\* What a drag, an alignment, a key or a handle means agrees with what is selected: groups
\* with their members, new places with the tracks and orders there are, and sizes with
\* the side that is dragged (semantic-intent.ts, grid-cells.ts, keyboard-reorder.ts).
IntentsAreReal == IntentsAgree /\ PlacesAreFound /\ OrderAndSizeAreReal
==============================================================================
