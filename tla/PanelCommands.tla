---------------------------- MODULE PanelCommands ----------------------------
(***************************************************************************)
(* What the panel's controls record: the operation that each of them       *)
(* builds, the schema that reads it back, and the values that the style    *)
(* editor takes.  A value is the sequence of its tokens; a length, a       *)
(* number, a colour and a word stand for all of their kind.                *)
(***************************************************************************)
EXTENDS LayoutIntents, ChangeOperations

(* The schemas of change-ir/src/operations: `name` is the property, class,  *)
(* attribute or prop, `other` the second element, `from` and `to` the       *)
(* values.  The remaining fields are in `more`.                             *)

Operation(kind, target, name, from, to, more) == more @@ Change(kind, "op", target, Missing, name, from, to)

NonEmpty(v) == v \notin {Missing, Empty, ""}
INDEX == Nat
ElementRefSchema(ref) == NonEmpty(ref.id)
OperationBaseSchema(op) == NonEmpty(op.id) /\ ElementRefSchema(op.target)

StyleEditOperationSchema(op) == NonEmpty(op.name) /\ op.to # Missing
RemoveStyleOperationSchema(op) == NonEmpty(op.name)
ClassOperationSchemas(op) == IF op.kind = "class-replace" THEN NonEmpty(op.from) /\ NonEmpty(op.to) ELSE NonEmpty(op.name)
SetAttributeOperationSchema(op) == NonEmpty(op.name) /\ op.to # Missing
TextEditOperationSchema(op) == op.to # Missing
ReorderChildOperationSchema(op) == {op.from, op.to} \subseteq INDEX
ReparentElementOperationSchema(op) == {op.from, op.to} \subseteq INDEX
RESIZE_PROPERTIES ==
  {"width", "height", "flex-basis", "flex-grow", "flex-shrink", "min-width", "min-height", "max-width", "max-height",
   "aspect-ratio", "align-self"}
ResizeElementOperationSchema(op) == op.name \in RESIZE_PROPERTIES /\ NonEmpty(op.unit) /\ Missing \notin {op.from, op.to}
ScreenshotCropRefOperationSchema(op) == NonEmpty(op.name)
SuggestedDiffOperationSchema(op) == op.to # Missing /\ op.confidence \in {"high", "medium", "low"}
PositionElementOperationSchema(op) == op.name = "position" /\ Missing \notin {op.from, op.to}
PseudoTargets == {"::before", "::after", ":hover", ":focus", ":active", ":disabled"}
PseudoStyleEditOperationSchema(op) == op.pseudo \in PseudoTargets /\ NonEmpty(op.name) /\ op.to # Missing
SetComponentPropOperationSchema(op) == NonEmpty(op.component) /\ NonEmpty(op.name) /\ op.to # Missing /\ op.range # Missing
BreakpointOperationSchemas(op) ==
  NonEmpty(op.breakpoint) /\ (op.kind = "breakpoint-class-edit" => NonEmpty(op.from) /\ NonEmpty(op.to))
ContainerLayoutOperationSchemas(op) ==
  IF op.kind = "set-container-layout" THEN NonEmpty(op.name) /\ op.to # Missing
  ELSE op.index \in INDEX /\ op.sizing \in {"hug", "fill", "fixed"}
GridOperationSchemas(op) ==
  IF op.kind = "grid-span" THEN op.from \in INDEX \ {0} /\ op.to \in INDEX \ {0}
  ELSE op.from \in INDEX /\ op.to \in INDEX /\ op.placement \in {"dom-order", "grid-area"}
MultiSelectOperationSchemas(op) ==
  CASE op.kind \in {"align-elements", "distribute-elements", "group-reorder"} -> op.members >= 2
    [] op.kind = "multi-select-group" -> NonEmpty(op.name) /\ NonEmpty(op.to)
    [] OTHER -> op.members >= 1
InsertElementOperationSchema(op) == op.index \in INDEX /\ NonEmpty(op.tag)
RemoveElementOperationSchema(op) == op.index \in INDEX /\ NonEmpty(op.tag)
DuplicateElementOperationSchema(op) == op.index \in INDEX /\ NonEmpty(op.tag) /\ ElementRefSchema(op.other)
WrapElementsOperationSchema(op) == op.members >= 1 /\ NonEmpty(op.tag)
UnwrapElementOperationSchema(op) == op.members >= 1 /\ NonEmpty(op.tag)

\* OperationSchema discriminates on the kind.
Accepted(op) ==
  /\ OperationBaseSchema(op)
  /\ CASE op.kind = "style-edit" -> StyleEditOperationSchema(op)
       [] op.kind = "remove-style" -> RemoveStyleOperationSchema(op)
       [] op.kind \in {"class-add", "class-remove", "class-replace"} -> ClassOperationSchemas(op)
       [] op.kind = "set-attribute" -> SetAttributeOperationSchema(op)
       [] op.kind = "text-edit" -> TextEditOperationSchema(op)
       [] op.kind = "reorder-child" -> ReorderChildOperationSchema(op)
       [] op.kind = "reparent-element" -> ReparentElementOperationSchema(op)
       [] op.kind = "position-element" -> PositionElementOperationSchema(op)
       [] op.kind = "resize-element" -> ResizeElementOperationSchema(op)
       [] op.kind = "pseudo-style-edit" -> PseudoStyleEditOperationSchema(op)
       [] op.kind = "set-component-prop" -> SetComponentPropOperationSchema(op)
       [] op.kind \in {"set-container-layout", "set-child-sizing"} -> ContainerLayoutOperationSchemas(op)
       [] op.kind \in {"grid-reorder", "grid-span"} -> GridOperationSchemas(op)
       [] op.kind = "insert-element" -> InsertElementOperationSchema(op)
       [] op.kind = "remove-element" -> RemoveElementOperationSchema(op)
       [] op.kind = "duplicate-element" -> DuplicateElementOperationSchema(op)
       [] op.kind = "wrap-elements" -> WrapElementsOperationSchema(op)
       [] op.kind = "unwrap-element" -> UnwrapElementOperationSchema(op)
       [] op.kind = "screenshot-crop-ref" -> ScreenshotCropRefOperationSchema(op)
       [] op.kind = "suggested-diff" -> SuggestedDiffOperationSchema(op)
       [] op.kind \in {"breakpoint-style-edit", "breakpoint-class-edit", "breakpoint-text-edit"} -> BreakpointOperationSchemas(op)
       [] op.kind \in {"multi-select-group", "group-reorder", "group-reparent", "align-elements", "distribute-elements"} ->
            MultiSelectOperationSchemas(op)

------------------------------------------------------------------------------
(* css-validation.ts: a value is a sequence of tokens, <<>> the blank one.  *)
(* "1px" stands for a length or percentage, "2" and "400" for the numbers,  *)
(* "#fff" and "rgb(0," "0," "0)" for colours, "@" for what is none of these. *)

ALLOWED_PROPERTIES ==
  {"display", "position", "top", "z-index", "overflow", "visibility", "opacity", "flex-direction", "align-items",
   "justify-content", "flex-basis", "flex-grow", "flex-shrink", "flex-wrap", "align-self", "gap", "row-gap", "column-gap",
   "width", "height", "min-width", "max-width", "padding", "padding-top", "margin", "border", "border-width",
   "border-style", "border-color", "border-radius", "color", "background-color", "background", "font-size",
   "font-weight", "line-height", "font-family", "text-align", "text-decoration", "letter-spacing"}
Keywords ==
  [display |-> {"block", "inline", "flex", "grid", "none"}, position |-> {"static", "relative", "absolute", "fixed", "sticky"},
   overflow |-> {"visible", "hidden", "auto"}, visibility |-> {"visible", "hidden"}]
  @@ ("flex-direction" :> {"row", "row-reverse", "column", "column-reverse"})
  @@ ("flex-wrap" :> {"nowrap", "wrap", "wrap-reverse"}) @@ ("text-align" :> {"left", "center", "start"})
  @@ ("align-items" :> {"stretch", "flex-start", "flex-end", "center", "baseline", "normal"})
  @@ ("justify-content" :> {"flex-start", "flex-end", "center", "space-between", "space-around", "space-evenly",
                            "stretch", "normal"})
BORDER_STYLES == {"none", "hidden", "dotted", "dashed", "solid", "double", "groove", "ridge", "inset", "outset"}
LENGTH_PROPERTIES ==
  {"width", "height", "min-width", "max-width", "padding", "padding-top", "margin", "border-width", "border-radius", "top",
   "gap", "row-gap", "column-gap", "letter-spacing"}

NUMBERS == {"0", "2", "400"}
Is(v, words) == Len(v) = 1 /\ v[1] \in words
isLengthOrPercentage(v) == Is(v, {"0", "1px"})
\* A prefix is enough: any word is a colour, and what follows a colour does not matter.
isColor(v) == v[1] \notin {"0", "1px", "2", "400", "0,", "0)", "@"}
Tokens(typed) == IF typed = "" THEN <<>> ELSE <<typed>>
validateCssProperty(property) == property \in ALLOWED_PROPERTIES

\* Mutant: the editor's shorthand takes a second width.
validateBorderShorthand_TwoWidths(v) ==
  LET styles == {i \in DOMAIN v : v[i] \in BORDER_STYLES}
      colors == {i \in DOMAIN v : ~isLengthOrPercentage(<<v[i]>>) /\ i \notin styles}
  IN  /\ Len(v) <= 3 /\ Cardinality(styles) <= 1 /\ Cardinality(colors) <= 1
      /\ \A i \in colors : isColor(<<v[i]>>)
      /\ Is(v, BORDER_STYLES) => Is(v, {"none", "hidden"})

validateBorderShorthand(v) ==
  LET widths == {i \in DOMAIN v : isLengthOrPercentage(<<v[i]>>)}
      styles == {i \in DOMAIN v : v[i] \in BORDER_STYLES}
      colors == DOMAIN v \ (widths \cup styles)
  IN  /\ Len(v) <= 3
      /\ Cardinality(widths) <= 1 /\ Cardinality(styles) <= 1 /\ Cardinality(colors) <= 1
      /\ \A i \in colors : isColor(<<v[i]>>)
      /\ Is(v, BORDER_STYLES) => Is(v, {"none", "hidden"})

validateCssValue(property, v) ==
  /\ v # <<>> /\ validateCssProperty(property)
  /\ CASE property \in DOMAIN Keywords -> Is(v, Keywords[property])
       [] property \in LENGTH_PROPERTIES -> Is(v, {"auto", "none", "inherit", "initial"}) \/ isLengthOrPercentage(v)
       [] property = "flex-basis" -> Is(v, {"auto", "content"}) \/ isLengthOrPercentage(v)
       [] property \in {"flex-grow", "flex-shrink", "opacity"} -> Is(v, NUMBERS)
       [] property = "z-index" -> Is(v, NUMBERS \cup {"auto"})
       [] property \in {"font-size", "line-height"} -> Is(v, NUMBERS \cup {"normal"}) \/ isLengthOrPercentage(v)
       [] property = "font-weight" -> Is(v, {"normal", "bold", "lighter", "bolder", "400"})
       [] property = "border-style" -> Is(v, BORDER_STYLES)
       [] property \in {"color", "background-color", "border-color", "background"} -> isColor(v)
       [] property = "border" -> validateBorderShorthand(v)
       [] OTHER -> TRUE

------------------------------------------------------------------------------
(* inspector-core/src/commands.ts and structural-commands.ts: each returns   *)
(* the operations it builds, none where the code throws.                     *)

El == [id |-> "e1", durable |-> "k1"]
Copy == [id |-> "e2", durable |-> Missing]

createStyleEditCommand(property, value, previous) == Operation("style-edit", El, property, previous, value, <<>>)
createClassAddCommand(className) == Operation("class-add", El, className, Missing, Missing, <<>>)
createClassRemoveCommand(className) == Operation("class-remove", El, className, Missing, Missing, <<>>)
createClassReplaceCommand(old, new) == Operation("class-replace", El, Missing, old, new, <<>>)
createTextEditCommand(text, previous) == Operation("text-edit", El, Missing, previous, text, <<>>)
createSetAttributeCommand(name, value, previous) == Operation("set-attribute", El, name, previous, value, <<>>)
createSetComponentPropCommand(component, name, value, previous, range) ==
  Operation("set-component-prop", El, name, previous, value, [component |-> component, range |-> range])
createPseudoStyleEditCommand(pseudo, property, value) ==
  Operation("pseudo-style-edit", El, property, Missing, value, [pseudo |-> pseudo])

OrContainer(tag) == IF tag = Missing THEN "div" ELSE tag
createDuplicateCommand(index, tag) ==
  {[Operation("duplicate-element", El, Missing, Missing, Missing, [index |-> index, tag |-> tag]) EXCEPT !.other = Copy]}
createDeleteCommand(index, tag) == Operation("remove-element", El, Missing, Missing, Missing, [index |-> index, tag |-> tag])
createWrapInContainerCommand(n, tag) ==
  IF n = 0 THEN {} ELSE {Operation("wrap-elements", El, Missing, Missing, Missing, [members |-> n, tag |-> OrContainer(tag)])}
createUnwrapCommand(n, tag) ==
  IF n = 0 THEN {} ELSE {Operation("unwrap-element", El, Missing, Missing, Missing, [members |-> n, tag |-> OrContainer(tag)])}
createGroupSelectionCommand(n, tag) == IF n < 2 THEN {} ELSE createWrapInContainerCommand(n, tag)
createStackCommand(index, tag) ==
  {Operation("insert-element", El, Missing, Missing, Missing, [index |-> index, tag |-> OrContainer(tag), style |-> "column"])}
createFlexContainerCommand(index, tag) ==
  {Operation("insert-element", El, Missing, Missing, Missing, [index |-> index, tag |-> OrContainer(tag), style |-> "row"])}
isPositionedRole(role) == role \in {"absolute-positioned", "fixed-positioned"}
buildZIndexStackingEdit(role, z, previous) ==
  IF isPositionedRole(role) THEN {createStyleEditCommand("z-index", z, previous)} ELSE {}
createConvertLayoutToFlexCommand(previous) ==
  {Operation("set-container-layout", El, "display", previous, "flex", <<>>)}
createConvertLayoutToGridCommand(previous) ==
  {Operation("set-container-layout", El, "display", previous, "grid", <<>>)}

\* position-command.ts: an element leaves the flow only under a positioned ancestor or on request.
positioningToCssValue(positioning) == IF positioning = "relative-offset" THEN "relative" ELSE positioning
createPositionCommand(c) ==
  IF \/ c.positioning = "transform"
     \/ /\ c.positioning \in {"absolute", "fixed"}
        /\ isNormalFlowRole(c.role) /\ ~c.positionedAncestor /\ ~c.explicit
  THEN {} ELSE {Operation("position-element", El, "position", c.current, positioningToCssValue(c.positioning), <<>>)}

------------------------------------------------------------------------------
(* The panel's sections: alignment, auto layout, grid, props, deletion.      *)

AlignmentKinds == {"align-left", "align-center", "align-right", "align-top", "align-middle", "align-bottom"}
DistributionKinds == {"distribute-horizontal", "distribute-vertical", "equal-gap"}
COMMANDS == AlignmentKinds \cup DistributionKinds \cup {"match-size"}

buildAlignmentOperation(members, kind) ==
  CASE kind \in AlignmentKinds -> {Operation("align-elements", El, kind, Empty, Empty, [members |-> members])}
    [] kind \in DistributionKinds -> {Operation("distribute-elements", El, kind, Empty, Empty, [members |-> members])}
    [] kind = "match-size" -> {}

AlignmentPanel(members) == IF members < 2 THEN {} ELSE UNION {buildAlignmentOperation(members, k) : k \in COMMANDS}

\* A span is [columnSpan, rowSpan]; the panel offers the candidates of the placement.
buildGridReorderOperation(choice) ==
  Operation("grid-reorder", El, Missing, 0, 0, [placement |-> choice])
buildGridSpanOperation(placement, axis, toSpan) ==
  Operation("grid-span", El, axis, IF axis = "column" THEN placement.columnSpan ELSE placement.rowSpan, toSpan, <<>>)
SpanControls(placement, candidates) ==
  {buildGridSpanOperation(placement, c.axis, c.to) : c \in candidates}

deriveAutoLayoutContainerContext(display, direction) ==
  [role |-> CASE display \in FlexDisplays -> "flex-container"
              [] display \in GridDisplays -> "grid-container"
              [] display \in {"inline", "inline-block"} -> display
              [] display \in {"block", "list-item", "flow-root"} -> "normal-flow-block"
              [] OTHER -> "unknown",
   direction |-> direction]

containerOp(d) == Operation("set-container-layout", El, d.property, Missing, d.value, <<>>)
singleContainerOp(command) ==
  {containerOp(Declaration(
    CASE command.kind = "set-direction" -> "flex-direction"
      [] command.kind = "set-gap" -> IF command.axis = Missing THEN "gap" ELSE command.axis \o "-gap"
      [] command.kind = "set-align-main" -> "justify-content"
      [] command.kind = "set-align-cross" -> "align-items"
      [] command.kind = "set-wrap" -> "flex-wrap", command.value))}
buildPaddingOperations(command, c) ==
  IF IF command.mode = "individual" THEN command.sides = {} ELSE command.value = "" THEN {}
  ELSE {containerOp(d) : d \in resolveAutoLayoutCandidate(command, c)}
buildChildSizingOperations(command, c) ==
  IF resolveAutoLayoutCandidate(command, c) = {} THEN {}
  ELSE {Operation("set-child-sizing", El, Missing, Missing, "declarations",
                  [index |-> command.childIndex, sizing |-> command.intent])}
buildAutoLayoutOperations(command, c) ==
  IF ~isAutoLayoutSupported(c.role) THEN {}
  ELSE CASE command.kind = "set-padding" -> buildPaddingOperations(command, c)
         [] command.kind = "set-child-sizing" -> buildChildSizingOperations(command, c)
         [] OTHER -> IF command.kind = "set-gap" /\ command.value = "" THEN {} ELSE singleContainerOp(command)

AUTO_LAYOUT_DIRECTIONS == {"row", "row-reverse", "column", "column-reverse"}
AUTO_LAYOUT_ALIGN_MAIN == {"flex-start", "center", "flex-end", "space-between", "space-around", "space-evenly"}
AUTO_LAYOUT_ALIGN_CROSS == {"flex-start", "center", "flex-end", "stretch", "baseline"}
AUTO_LAYOUT_WRAP == {"nowrap", "wrap", "wrap-reverse"}
ChoiceCommands ==
  [kind : {"set-direction"}, value : AUTO_LAYOUT_DIRECTIONS] \cup [kind : {"set-align-main"}, value : AUTO_LAYOUT_ALIGN_MAIN]
  \cup [kind : {"set-align-cross"}, value : AUTO_LAYOUT_ALIGN_CROSS] \cup [kind : {"set-wrap"}, value : AUTO_LAYOUT_WRAP]

\* What the panel's controls emit for the typed values; individual padding has no control.
AutoLayoutPanel(c, typed, childIndex) ==
  (IF c.role = "flex-container" THEN ChoiceCommands ELSE {})
  \cup {[kind |-> "set-gap", axis |-> Missing, value |-> typed]}
  \cup [kind : {"set-padding"}, mode : {"all", "horizontal", "vertical"}, value : {typed}, sides : {{}}]
  \cup {[kind |-> "set-child-sizing", childIndex |-> childIndex, intent |-> i, value |-> IF i = "fixed" THEN typed ELSE ""] :
           i \in {"hug", "fill", "fixed"}}

\* A component's prop is edited where its source is known and no error of its flow is left.
computeBlockReason(prop, optIn) ==
  IF prop.warnings # {}
  THEN {w \in prop.warnings : w.severity = "error" /\ ~(optIn /\ w.code = "no-opt-in")} # {}
  ELSE prop.crossBoundary /\ ~optIn
buildPropCommand(prop, value, optIn) ==
  IF prop.kind = "dom-attribute" THEN {createSetAttributeCommand(prop.name, value, prop.value)}
  ELSE IF Missing \in {prop.component, prop.range} \/ computeBlockReason(prop, optIn) THEN {}
  ELSE {createSetComponentPropCommand(prop.component, prop.name, value, prop.value, prop.range)}

\* An element without a parent is not deleted.
createDeleteOperationFromSummary(summary) ==
  IF summary.parent = Missing THEN {} ELSE {createDeleteCommand(summary.index, summary.tag)}

\* The sections that are shown: `members` of a group (0: no group), `mode` of the editors.
InspectorSections(p) ==
  {section \in {"alignment", "auto-layout", "style", "class", "text", "actions", "pseudo", "props", "grid"} :
     /\ section = "alignment" => p.members >= 2
     /\ section # "alignment" => p.selected
     /\ section \in {"style", "class", "text"} => p.mode = section
     /\ section = "auto-layout" => p.display \in {"flex", "grid"}
     /\ section = "props" => p.props # {}
     /\ section = "grid" => p.placed}

\* The operations that the controls of a section build from what is shown and typed.
InspectorEditorSlots(section, p) ==
  CASE section = "alignment" -> AlignmentPanel(p.members)
    [] section = "auto-layout" ->
         LET c == deriveAutoLayoutContainerContext(p.display, p.direction)
         IN  UNION {buildAutoLayoutOperations(command, c) : command \in AutoLayoutPanel(c, p.typed, p.childIndex)}
    [] section = "style" -> {createStyleEditCommand(f, p.typed, "shown") : f \in {g \in {"width", "border"} : validateCssValue(g, Tokens(p.typed))}}
    [] section = "class" ->
         {createClassRemoveCommand("shown")}
         \cup (IF p.typed = "" THEN {} ELSE {createClassAddCommand(p.typed), createClassReplaceCommand("shown", p.typed)})
    [] section = "text" -> {createTextEditCommand(p.typed, "shown")}
    [] section = "pseudo" ->
         IF p.name = "" THEN {} ELSE {createPseudoStyleEditCommand(t, p.name, p.typed) : t \in PseudoTargets}
    [] section = "actions" -> createDeleteOperationFromSummary(p.summary)
    [] section = "props" -> UNION {buildPropCommand(prop, p.typed, p.optIn) : prop \in p.props}
    [] section = "grid" ->
         SpanControls(p.placement, p.candidates)

------------------------------------------------------------------------------
(* tailwind-suggestions.ts: the utility classes for a declaration; a length  *)
(* is its pixels, a scale is a sequence of [key, px], a confidence a percent. *)

LAYOUT_UTILITIES ==
  ("flex-direction" :> ("row" :> "flex-row" @@ "row-reverse" :> "flex-row-reverse" @@ "column" :> "flex-col"
                        @@ "column-reverse" :> "flex-col-reverse"))
  @@ ("justify-content" :> ("flex-start" :> "justify-start" @@ "center" :> "justify-center" @@ "flex-end" :> "justify-end"
                            @@ "space-between" :> "justify-between" @@ "space-around" :> "justify-around"
                            @@ "space-evenly" :> "justify-evenly"))
  @@ ("align-items" :> ("flex-start" :> "items-start" @@ "center" :> "items-center" @@ "flex-end" :> "items-end"
                        @@ "stretch" :> "items-stretch" @@ "baseline" :> "items-baseline"))
  @@ ("flex-wrap" :> ("nowrap" :> "flex-nowrap" @@ "wrap" :> "flex-wrap" @@ "wrap-reverse" :> "flex-wrap-reverse"))
  @@ ("flex" :> ("0 0 auto" :> "flex-none" @@ "1 1 0%" :> "flex-1"))
  @@ ("width" :> ("max-content" :> "w-max" @@ "min-content" :> "w-min" @@ "fit-content" :> "w-fit" @@ "100%" :> "w-full"))
  @@ ("justify-self" :> ("start" :> "justify-self-start" @@ "stretch" :> "justify-self-stretch"))
mapCssToTailwindUtility(property, value) ==
  IF property \in DOMAIN LAYOUT_UTILITIES /\ value \in DOMAIN LAYOUT_UTILITIES[property]
  THEN {LAYOUT_UTILITIES[property][value]} ELSE {}

spacingUtilityPrefix ==
  "gap" :> "gap" @@ "row-gap" :> "gap-y" @@ "column-gap" :> "gap-x" @@ "padding" :> "p" @@ "padding-top" :> "pt"
  @@ "padding-right" :> "pr" @@ "padding-bottom" :> "pb" @@ "padding-left" :> "pl"
Apart(a, b) == IF a < b THEN b - a ELSE a - b
createSpacingTokenProvider(scale, property, px) ==
  LET Off(i) == Apart(scale[i].px, px)
      best == {i \in DOMAIN scale : \A j \in DOMAIN scale : Off(i) <= Off(j)}
  IN  IF property \notin DOMAIN spacingUtilityPrefix \/ scale = <<>> THEN <<>>
      ELSE <<[prefix |-> spacingUtilityPrefix[property], key |-> scale[Min(best)].key, px |-> scale[Min(best)].px,
              confidence |-> IF Off(Min(best)) = 0 THEN 100
                             ELSE Max({10, IF px = 0 THEN 0 ELSE 100 - (100 * Off(Min(best))) \div px})]>>
composeProviders(scales, property, px) ==
  FlattenSeq([i \in DOMAIN scales |-> createSpacingTokenProvider(scales[i], property, px)])

------------------------------------------------------------------------------
(* Properties *)

\* Whatever a control of a shown section records, and the undo of it, is an operation that its schema
\* reads back; the journal would refuse it otherwise and the edit would be lost.
RecordedIsAccepted ==
  asked.about = "panel" =>
    \A section \in InspectorSections(asked.x) : \A op \in InspectorEditorSlots(section, asked.x) :
      Accepted(op) /\ Accepted(computeInverse(op, "undo"))

\* What the commands of inspector-core build is accepted as well, and so is its undo.
BuiltIsAccepted ==
  asked.about = "builder" =>
    LET b == asked.x IN
    \A op \in createDuplicateCommand(b.index, b.tag) \cup createWrapInContainerCommand(b.members, b.container)
              \cup createUnwrapCommand(b.members, b.container) \cup createGroupSelectionCommand(b.members, b.container)
              \cup createStackCommand(b.index, b.container) \cup createFlexContainerCommand(b.index, b.container)
              \cup buildZIndexStackingEdit(b.role, "2", b.previous) \cup createConvertLayoutToFlexCommand(b.previous)
              \cup createConvertLayoutToGridCommand(b.previous) \cup createPositionCommand(b) :
      Accepted(op) /\ Accepted(computeInverse(op, "undo"))

\* A border that the style editor takes as one value is what it takes part by part: one width, one style
\* and one colour at most, each of which its own row accepts.
BorderIsItsParts ==
  asked.about = "border" /\ validateCssValue("border", asked.x) =>
    \E part \in [DOMAIN asked.x -> {"border-width", "border-style", "border-color"}] :
      IsInjective(part) /\ \A i \in DOMAIN asked.x : validateCssValue(part[i], <<asked.x[i]>>)

\* The panel's own table of the auto-layout properties says what the layout engine's says, and every
\* choice that it offers is a value that the style editor takes and that has a utility class.
ChoicesAreReal ==
  asked.about = "panel" =>
    LET p == asked.x
        c == deriveAutoLayoutContainerContext(p.display, p.direction)
    IN  \A command \in AutoLayoutPanel(c, p.typed, p.childIndex) :
          /\ command.kind # "set-child-sizing" /\ buildAutoLayoutOperations(command, c) # {} =>
               {Declaration(op.name, op.to) : op \in buildAutoLayoutOperations(command, c)} = resolveAutoLayoutCandidate(command, c)
          /\ command \in ChoiceCommands =>
               \A d \in resolveAutoLayoutCandidate(command, c) :
                 /\ validateCssValue(d.property, <<d.value>>)
                 /\ Cardinality(mapCssToTailwindUtility(d.property, d.value)) = 1

\* Each scale suggests one class for a spacing, of the nearest step; it is certain exactly where the step is the length.
SuggestionIsNearest ==
  asked.about = "spacing" =>
    LET q == asked.x
        all == composeProviders(q.scales, q.property, q.px)
    IN  /\ Len(all) = Cardinality({i \in DOMAIN q.scales : q.scales[i] # <<>>})
        /\ \A k \in DOMAIN all :
             /\ (all[k].confidence = 100) = (all[k].px = q.px)
             /\ \E i \in DOMAIN q.scales : \A j \in DOMAIN q.scales[i] : Apart(all[k].px, q.px) <= Apart(q.scales[i][j].px, q.px)

CommandsAreAccepted ==
  RecordedIsAccepted /\ BuiltIsAccepted /\ BorderIsItsParts /\ ChoicesAreReal /\ SuggestionIsNearest
==============================================================================
