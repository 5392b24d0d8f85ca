---------------------------- MODULE LayoutIntents ----------------------------
(***************************************************************************)
(* The parts of the layout engine that turn what a user asks of a layout   *)
(* into CSS: the role of an element, what a drag means, how a group is     *)
(* aligned, what auto layout and a resize write, where grid items lie and  *)
(* what a dragged edge snaps to.  A style or a tag stands for all that the *)
(* code treats alike.                                                      *)
(***************************************************************************)
EXTENDS FlexLayout

(* layout-role.ts: style is [tag, position, display, parentDisplay].        *)

FlexDisplays == {"flex", "inline-flex"}
GridDisplays == {"grid", "inline-grid"}
BlockDisplays == {"block", "list-item", "flow-root", "table-cell", "table", "table-row", "table-row-group"}
REPLACED_ELEMENT_TAGS == {"img", "input", "button"}
SVG_TAGS == {"svg", "path"}

classifyLayoutRole(style) ==
  CASE style.tag \in REPLACED_ELEMENT_TAGS -> "replaced-element"
    [] style.tag \in SVG_TAGS -> "svg-element"
    [] OTHER ->
  CASE style.position = "absolute" -> "absolute-positioned"
    [] style.position = "fixed" -> "fixed-positioned"
    [] OTHER ->
  CASE style.display \in FlexDisplays -> "flex-container"
    [] style.display \in GridDisplays -> "grid-container"
    [] style.display \notin FlexDisplays \cup GridDisplays /\ style.parentDisplay \in FlexDisplays -> "flex-item"
    [] style.display \notin FlexDisplays \cup GridDisplays /\ style.parentDisplay \in GridDisplays -> "grid-item"
    [] OTHER ->
  CASE style.display \in {"inline-block", "inline"} -> style.display
    [] style.display \in BlockDisplays -> "normal-flow-block"
    [] OTHER -> "unknown"

isNormalFlowRole(role) == role \notin {"absolute-positioned", "fixed-positioned", "unknown"}
isGridRole(role) == role \in {"grid-container", "grid-item"}

(* content-model.ts: the parents that take only certain children.           *)
STRICT_PARENTS ==
  [ul |-> {"li"}, table |-> {"tbody", "tr"}, tbody |-> {"tr"}, tr |-> {"td"}, select |-> {"option"}]
isValidChild(parent, child) ==
  parent \in DOMAIN STRICT_PARENTS => child \in STRICT_PARENTS[parent]

------------------------------------------------------------------------------
(* semantic-operations.ts and group-move-candidates.ts: a drag is [same,    *)
(* source, target, parentTag, childTag, sourcePositioned, targetPositioned, *)
(* freeMove].                                                               *)

AcrossGrid(m) == isGridRole(m.source) \/ isGridRole(m.target)
Positioned(m) == m.sourcePositioned \/ m.targetPositioned

classifySemanticIntent(m) ==
  IF AcrossGrid(m) THEN "unsupported-grid"
  ELSE IF Positioned(m) THEN "unsupported-free-move"
  ELSE IF m.same THEN "reorder-child" ELSE "reparent-element"

classifyGroupMove(m) ==
  IF AcrossGrid(m) THEN "unsupported-group-grid"
  ELSE IF m.freeMove THEN IF m.sourcePositioned /\ m.targetPositioned THEN "positioned-free-move"
                          ELSE "unsupported-group-free-move"
  ELSE IF Positioned(m) THEN "unsupported-group-free-move"
  ELSE IF m.same THEN "group-reorder" ELSE "group-reparent"

------------------------------------------------------------------------------
(* alignment-commands.ts, alignment-candidates.ts: a question is [role,     *)
(* direction, command, members, positioned, freeMove, match].               *)

Snaps ==
  [left |-> "flex-start", top |-> "flex-start", center |-> "center", middle |-> "center",
   right |-> "flex-end", bottom |-> "flex-end"]
Distributions == {"distribute-horizontal", "distribute-vertical"}

commandAlignmentAxis(command) ==
  IF command \in {"top", "middle", "bottom", "distribute-vertical"} THEN "vertical" ELSE "horizontal"
axisIsMainAxis(direction, axis) ==
  axis = IF direction \in {"column", "column-reverse"} THEN "vertical" ELSE "horizontal"

Declaration(property, value) == [property |-> property, value |-> value]
Refused == Declaration("none", "none")

resolveNormalFlowCandidate(q) ==
  LET axis == commandAlignmentAxis(q.command)
  IN  IF q.command \in DOMAIN Snaps
      THEN Declaration(IF axisIsMainAxis(q.direction, axis) THEN "justify-content" ELSE "align-items",
                       Snaps[q.command])
      ELSE IF q.command \in Distributions
      THEN Declaration(IF axisIsMainAxis(q.direction, axis) THEN "justify-content" ELSE "align-content",
                       "space-between")
      ELSE IF q.command = "equal-gap" THEN Declaration("gap", "computed")
      ELSE IF axisIsMainAxis(q.direction, IF q.match = "width" THEN "horizontal" ELSE "vertical")
           THEN Declaration("flex", "1")
           ELSE Declaration("align-items", "stretch")

resolveAlignmentCandidate(q) ==
  IF isGridRole(q.role) \/ q.members < 2 THEN Refused
  ELSE IF q.positioned
       THEN IF q.freeMove THEN Declaration("coordinate", commandAlignmentAxis(q.command)) ELSE Refused
       ELSE resolveNormalFlowCandidate(q)

------------------------------------------------------------------------------
(* auto-layout: a command on a container [role, direction].                 *)

isAutoLayoutSupported(role) == role \notin {"inline", "inline-block", "unknown"}

deriveChildParentContext(c) ==
  IF c.role = "flex-container"
  THEN IF c.direction \in {"column", "column-reverse"} THEN "flex-column" ELSE "flex-row"
  ELSE IF isGridRole(c.role) THEN "grid" ELSE "block"

\* The HUG, FILL and FIXED tables of hug-fill-fixed.ts.
SizeOf(context) == IF context = "flex-column" THEN "height" ELSE "width"
resolveHugFillFixed(intent, context) ==
  LET flex == context \in {"flex-row", "flex-column"}
  IN  CASE intent = "hug" ->
             IF context = "block" THEN {Declaration("width", "fit-content")}
             ELSE {Declaration(SizeOf(context), "max-content"),
                   IF flex THEN Declaration("flex", "0 0 auto") ELSE Declaration("justify-self", "start")}
        [] intent = "fill" ->
             IF flex THEN {Declaration("flex", "1 1 0%")}
             ELSE {Declaration("width", "100%")}
                  \cup IF context = "grid" THEN {Declaration("justify-self", "stretch")} ELSE {}
        [] intent = "fixed" ->
             {Declaration(SizeOf(context), "fixed")}
             \cup IF flex THEN {Declaration("flex", "0 0 fixed")} ELSE {}

fromGap(axis) ==
  CASE axis = "row" -> "row-gap" [] axis = "column" -> "column-gap" [] OTHER -> "gap"

fromPadding(mode, sides) ==
  CASE mode = "all" -> {"padding"}
    [] mode = "horizontal" -> {"padding-left", "padding-right"}
    [] mode = "vertical" -> {"padding-top", "padding-bottom"}
    [] mode = "individual" -> {"padding-" \o side : side \in sides}

\* A fixed size without a value is refused; nothing is written then.
resolveAutoLayoutCandidate(command, c) ==
  IF ~isAutoLayoutSupported(c.role) THEN {}
  ELSE CASE command.kind = "set-child-sizing" ->
              IF command.intent = "fixed" /\ command.value = "" THEN {}
              ELSE resolveHugFillFixed(command.intent, deriveChildParentContext(c))
         [] command.kind = "set-gap" -> {Declaration(fromGap(command.axis), command.value)}
         [] command.kind = "set-padding" ->
              {Declaration(p, command.value) : p \in fromPadding(command.mode, command.sides)}
         [] command.kind = "set-direction" -> {Declaration("flex-direction", command.value)}
         [] command.kind = "set-align-main" -> {Declaration("justify-content", command.value)}
         [] command.kind = "set-align-cross" -> {Declaration("align-items", command.value)}
         [] command.kind = "set-wrap" -> {Declaration("flex-wrap", command.value)}

\* tailwind-suggestions.ts: the name of an equal spacing, else of the nearest one.
spacingToken(scale, px) ==
  LET Away(k) == Max({scale[k] - px, px - scale[k]})
  IN  IF scale = <<>> THEN 0
      ELSE Min({k \in DOMAIN scale : \A j \in DOMAIN scale : Away(k) <= Away(j)})

------------------------------------------------------------------------------
(* grid: the lines of both axes are positions; a child is a box along one   *)
(* axis, [from, to], with the lines of its style, [start, end].             *)

Tracks(lines) == Len(lines) - 1

resolveExplicit(start, end, maxLine) ==
  LET first == IF start = Null THEN 1 ELSE Clamp(start, 1, maxLine)
      last == IF end = Null \/ end <= first THEN first + 1 ELSE end
  IN  [start |-> first, end |-> Min({Max({last, first + 1}), maxLine})]

lineAt(at, lines) ==
  LET holding == {k \in 1..Tracks(lines) : lines[k] <= at /\ at < lines[k + 1]}
  IN  IF at < lines[1] THEN 1 ELSE IF holding = {} THEN Tracks(lines) ELSE Min(holding)

\* The tracks from the first on that the box overlaps; they follow each other.
spanFor(from, to, lines, first) ==
  Max({1, Cardinality({k \in first..Tracks(lines) : to > lines[k] /\ from < lines[k + 1]})})

inferGridCells(lines, child) ==
  LET explicit == resolveExplicit(child.start, child.end, Len(lines))
      first == lineAt(child.from, lines)
  IN  IF child.start # Null \/ child.end # Null THEN explicit
      ELSE [start |-> first, end |-> first + spanFor(child.from, child.to, lines, first)]

generateGridSpanCandidates(placement, lines) ==
  LET span == placement.end - placement.start
  IN  (IF placement.end <= Tracks(lines) THEN {span + 1} ELSE {})
      \cup (IF span > 1 THEN {span - 1} ELSE {})

\* grid-reorder-candidates.ts and grid-intent.ts: the DOM is reordered only where
\* its order means something to a reader.
resolveGridIntent(choice, from, to, semantic, readingOrder) ==
  IF choice = "dom-order"
  THEN IF ~semantic \/ from < 0 \/ to < 0 THEN [kind |-> "rejected"]
       ELSE [kind |-> "dom-order", warned |-> FALSE]
  ELSE [kind |-> "grid-area", warned |-> ~readingOrder]

------------------------------------------------------------------------------
(* resize-candidates.ts: what a resize of an element may write.             *)

BOX_CANDIDATES == {"width", "height", "min-width", "max-width", "min-height", "max-height", "aspect-ratio"}
FLEX_ITEM_CANDIDATES ==
  {"flex-basis", "flex-grow", "flex-shrink", "min-width", "min-height", "max-width", "max-height", "aspect-ratio"}
Names == {"tailwind-class", "design-token"}

generateResizeCandidates(role) ==
  CASE role \in {"inline", "inline-block", "unknown"} -> {}
    [] role = "grid-item" -> {"grid-span"}
    [] role = "flex-item" -> FLEX_ITEM_CANDIDATES \cup {"align-self"} \cup Names
    [] role = "replaced-element" -> BOX_CANDIDATES \cup {"intrinsic"} \cup Names
    [] OTHER -> BOX_CANDIDATES \cup Names

------------------------------------------------------------------------------
(* snap-engine.ts, along one axis: boxes [from, size, baseline], the pointer *)
(* and the lines, tokens and grid that can attract it.                      *)

Candidate(kind, value) == [kind |-> kind, value |-> value]

pushBoxCandidates(box) ==
  <<Candidate("edge", box.from), Candidate("edge", box.from + box.size),
    Candidate("center", box.from + box.size \div 2)>>

collectRaw(q) ==
  LET Tokens(box) ==
        FlattenSeq([t \in DOMAIN q.tokens |->
          <<Candidate("spacing-token", box.from - q.tokens[t]),
            Candidate("spacing-token", box.from + box.size + q.tokens[t])>>])
      nearest == ((2 * q.pointer + q.spacing) \div (2 * q.spacing)) * q.spacing
  IN  FlattenSeq([b \in DOMAIN q.boxes |->
        pushBoxCandidates(q.boxes[b])
        \o (IF q.boxes[b].baseline = Null THEN <<>> ELSE <<Candidate("baseline", q.boxes[b].baseline)>>)
        \o Tokens(q.boxes[b])])
      \o (IF q.spacing = 0 THEN <<>> ELSE <<Candidate("grid", nearest)>>)

\* What lies within the threshold, the nearest first and otherwise as collected.
computeSnapCandidates(q) ==
  LET raw == collectRaw(q)
      Away(k) == Max({raw[k].value - q.pointer, q.pointer - raw[k].value})
  IN  [i \in DOMAIN SetToSeq({k \in DOMAIN raw : Away(k) <= q.threshold}) |->
         raw[SetToSortSeq({k \in DOMAIN raw : Away(k) <= q.threshold},
                          LAMBDA a, b : Away(a) < Away(b) \/ (Away(a) = Away(b) /\ a < b))[i]]]

------------------------------------------------------------------------------
(* What CSS does, to compare with.                                         *)

\* The side at which a declaration puts the members, where text runs to the right.
SideOf(direction, d) ==
  LET main == d.property = "justify-content"
      across == IF main THEN direction \in {"row", "row-reverse"} ELSE direction \in {"column", "column-reverse"}
      turned == main /\ direction \in {"row-reverse", "column-reverse"}
      low == d.value = IF turned THEN "flex-end" ELSE "flex-start"
  IN  CASE d.value = "center" -> IF across THEN "center" ELSE "middle"
        [] low -> IF across THEN "left" ELSE "top"
        [] ~low /\ d.value # "center" -> IF across THEN "right" ELSE "bottom"

\* What a drag means agrees with what is dragged: a group is reordered or moved to
\* another parent exactly where each member alone would be; an alignment puts the
\* members on the side it is named for unless the direction is reversed; and a size
\* is written to the axis along which the container grows.
IntentsAgree ==
  /\ asked.about = "move" =>
       LET m == asked.x
           one == classifySemanticIntent(m)
           all == classifyGroupMove(m)
       IN  /\ all = "group-reorder" <=> one = "reorder-child" /\ ~m.freeMove
           /\ all = "group-reparent" <=> one = "reparent-element" /\ ~m.freeMove
           /\ all = "positioned-free-move" => one = "unsupported-free-move"
  /\ asked.about = "align" =>
       LET q == asked.x
           d == resolveAlignmentCandidate(q)
       IN  (d # Refused /\ ~q.positioned /\ q.command \in DOMAIN Snaps
              /\ q.direction \in {"row", "column"}) => SideOf(q.direction, d) = q.command
  /\ asked.about = "auto-layout" =>
       LET c == [role |-> classifyLayoutRole(asked.x.style), direction |-> asked.x.direction]
           written == {d.property : d \in resolveAutoLayoutCandidate(asked.x.command, c)}
           child == classifyLayoutRole([asked.x.style EXCEPT !.display = "block", !.tag = "div",
                                          !.position = "static", !.parentDisplay = asked.x.style.display])
       IN  (asked.x.command.kind = "set-child-sizing" /\ written # {}) =>
             /\ isAutoLayoutSupported(c.role)
             /\ "flex" \in written => child = "flex-item"
             /\ "height" \in written => asked.x.direction \in {"column", "column-reverse"}
             /\ generateResizeCandidates(child) # {}

\* A child that the browser laid out over some tracks is found on those tracks, with
\* or without the lines of its style; a new span fits, and there is one to
\* offer wherever there is room; a drag snaps to a nearest line, if any is near.
PlacesAreFound ==
  /\ asked.about = "grid" =>
       LET q == asked.x
           at == inferGridCells(q.lines, q.child)
           spans == generateGridSpanCandidates(at, q.lines)
       IN  /\ at.start = q.first /\ at.end = q.last + 1
           /\ \A s \in spans : s >= 1 /\ at.start + s <= Len(q.lines)
           /\ spans = {} => q.last = Tracks(q.lines)
  /\ asked.about = "snap" =>
       LET q == asked.x
           found == computeSnapCandidates(q)
           Away(v) == Max({v - q.pointer, q.pointer - v})
           lines == UNION {{b.from, b.from + b.size} : b \in Range(q.boxes)}
                    \cup (IF q.spacing = 0 THEN {}
                          ELSE {k * q.spacing : k \in (-q.pointer - 9)..(q.pointer + 9)})
       IN  \A v \in lines : Away(v) <= q.threshold => found # <<>> /\ Away(found[1].value) <= Away(v)
==============================================================================
