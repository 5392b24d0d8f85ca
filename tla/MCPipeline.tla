----------------------------- MODULE MCPipeline -----------------------------
(***************************************************************************)
(* The pure functions between a journal and an agent, over small inputs.   *)
(***************************************************************************)
EXTENDS PanelCommands, InspectedElement, SourceMaps, TLC

\* Two mounts of one element, and another element.
Mount1 == [id |-> "r1", durable |-> "k1"]
Mount2 == [id |-> "r2", durable |-> "k1"]
Other == [id |-> "r3", durable |-> "k3"]

AskInverse ==
  NothingAsked /\
  \E k \in OPERATION_KINDS, held, f, t \in {Empty, "a", "b", "there", Missing} :
    LET op == Change(k, "op", Mount1, Other, "n", f, t) IN
    /\ held # Missing /\ t # Missing
    /\ Recorded(op, held)
    /\ Ask("inverse", [operation |-> op, held |-> held])

SomeChanges ==
  {Change("style-edit", "s1", Mount1, Other, "flex-basis", Missing, "a"),
   Change("remove-style", "s2", Mount2, Other, "flex-basis", "a", "a"),
   Change("resize-flex-pair", "p1", Mount1, Other, "n", "a", "b"),
   [Change("resize-flex-pair", "p2", Mount1, Other, "n", "b", "a") EXCEPT !.inverseOf = "p1"],
   [Change("style-edit", "s3", Mount1, Other, "flex-basis", "a", Empty) EXCEPT !.inverseOf = "s1"],
   Change("class-add", "c1", Mount1, Other, "c", Missing, "there"),
   Change("class-replace", "c2", Mount1, Other, "n", "c", "k"),
   Change("text-edit", "t1", Mount1, Other, "n", "a", "b"),
   Change("text-edit", "t2", Mount2, Other, "n", "a", "b"),
   Change("insert-element", "i1", Mount1, Other, "n", Missing, "there"),
   Change("insert-element", "i3", Mount1, Other, "m", Missing, "there"),
   Change("duplicate-element", "d1", Other, Mount1, "n", Missing, "there"),
   Change("remove-element", "i2", Mount1, Other, "n", Missing, "there"),
   Change("wrap-elements", "w1", Other, Mount1, "n", Missing, "there"),
   Change("unwrap-element", "w2", Other, Mount1, "n", Missing, "there")}
Batches == UNION {[1..n -> SomeChanges] : n \in 0..2}

AskMerge ==
  NothingAsked /\
  \E a, b \in Batches, v \in {"2.0.0", "2.1.0"} :
    /\ \A set \in {a, b} : Cardinality(Range(set)) = Len(set)
    /\ v = "2.0.0" => NoPair(a)
    /\ Ask("merge", [a |-> [version |-> v, operations |-> a], b |-> [version |-> "2.1.0", operations |-> b]])

-----------------------------------------------------------------------------
(* Verification *)

Body == <<"html", "body">>
Elem(id, source, selectors, under) ==
  [id |-> id, source |-> source, selectors |-> selectors, tag |-> "li", role |-> Missing, name |-> Missing,
   under |-> under, parent |-> "container", inFlow |-> TRUE, text |-> FALSE, display |-> "block",
   main |-> 10, flex |-> "a", x |-> 0, y |-> 0, index |-> 0, shows |-> <<>>]
Ref(e, selector, occurrence, fingerprint) ==
  [id |-> e.id, source |-> e.source, selector |-> selector, occurrence |-> occurrence, fingerprint |-> fingerprint,
   role |-> Missing, name |-> Missing, tag |-> e.tag]

\* What the page may show of the element of an operation.
Aspects(op) ==
  CASE op.kind \in ClassSwaps -> {<<"class", op.from>>, <<"class", op.to>>}
    [] op.kind \in {"class-add", "class-remove"} -> {<<"class", op.name>>}
    [] op.kind = "reparent-element" -> {<<"parent", Empty>>, <<"index", Empty>>}
    [] op.kind = "group-reparent" -> {<<"parent", Empty>>}
    [] op.kind \in TextKinds -> {<<"text", Empty>>}
    [] op.kind \in {"reorder-child", "group-reorder"} -> {<<"index", Empty>>}
    [] OTHER -> {<<"css", op.name>>}

VerdictKinds == OPERATION_KINDS \ (GroupKinds \cup {"resize-flex-pair", "grid-reorder", "grid-span", "set-child-sizing"})
\* A hot update, and the other mutations of the page.
AskVerdict ==
  NothingAsked /\
  \E k \in VerdictKinds, named \in BOOLEAN, shape \in {"marked", "twins", "plain", "gone"}, o \in {Null, 0, 1},
     cleared \in BOOLEAN, updated \in {Null, 1, 3, 4}, others \in {{}, {1}, {1, 2, 3, 4, 5}} :
    LET e1 == Elem("e1", IF shape = "plain" THEN Missing ELSE "s1", {"li", "#e1"}, Body)
        e2 == Elem("e2", IF shape = "twins" THEN "s1" ELSE Missing, {"li"}, Append(Body, "ul"))
        Op == [named |-> named] @@ Change(k, "op", Ref(e1, IF o = Null THEN "#e1" ELSE "li", o, IF o = Null THEN Missing ELSE computeFingerprint(e1)),
                                          "a", "n", "b", "a")
        Page(shows) ==
          LET rest == <<[e2 EXCEPT !.shows = [a \in Aspects(Op) |-> "a"]]>> IN
          IF shape = "gone" THEN rest ELSE Append(rest, [e1 EXCEPT !.shows = shows])
    IN  /\ updated # Null => named /\ cleared /\ <<shape, o>> \in {<<"marked", Null>>, <<"plain", 1>>}
        /\ \E shows \in [Aspects(Op) -> {"a", "there", Empty}], ops \in {<<>>, <<Op>>, <<Op, [Op EXCEPT !.to = IF Cardinality(Aspects(Op)) = 1 THEN "there" ELSE "a"]>>} :
             \E was \in IF updated = Null THEN {shows} ELSE [Aspects(Op) -> {"a", Empty}] :
               Ask("verdict",
                   [seen |-> [page |-> Page(was), updated |-> updated, after |-> Page(shows),
                              mutations |-> others \cup ({updated} \ {Null})],
                    operations |-> ops, cleared |-> cleared, timeout |-> 5])

Durable(e, selector, occurrence) == Ref(e, selector, occurrence, computeFingerprint(e))
AskPairVerdict ==
  NothingAsked /\
  \E m1, m2, w \in {8, 9, 10, 11, 12}, extra, text \in BOOLEAN, display \in {"flex", "block"}, t \in {"a", "b"}, wrong \in {"none", "fingerprint", "occurrence"} :
    LET box == [Elem("container", Missing, {"#box"}, <<"html">>) EXCEPT !.display = display, !.text = text, !.parent = "root", !.main = 30]
        e1 == [Elem("e1", Missing, {"li"}, Body) EXCEPT !.main = m1, !.flex = t]
        e2 == [Elem("e2", Missing, {"li"}, Body) EXCEPT !.main = m2]
        e3 == [Elem("e3", Missing, {"li"}, Body) EXCEPT !.main = w]
        e4 == [Elem("e4", Missing, {"em"}, Body) EXCEPT !.inFlow = extra]
        Second == Durable(e2, "li", IF wrong = "occurrence" THEN 2 ELSE 1)
        Op == [named |-> TRUE, container |-> Durable(box, "#box", 0), delta |-> 2, containerAfter |-> 30,
               members |-> <<[element |-> Durable(e1, "li", 0), before |-> 8, after |-> 10, flex |-> "a"],
                             [element |-> IF wrong = "fingerprint" THEN [Second EXCEPT !.fingerprint = "other"] ELSE Second,
                              before |-> 12, after |-> 10, flex |-> "a"]>>,
               witnesses |-> <<[element |-> Durable(e3, "li", 2), after |-> 10]>>]
              @@ Change("resize-flex-pair", "op", Durable(e1, "li", 0), Missing, "n", "a", "b")
    IN  Ask("pair verdict",
            [page |-> <<box, e1, e2, e3, e4>>, op |-> Op,
             asRecorded |-> <<m1, m2, w, extra, text, display, t, wrong>> = <<10, 10, 10, FALSE, FALSE, "flex", "a", "none">>])

AskGroupVerdict ==
  NothingAsked /\
  \E k \in GroupKinds, ys \in [1..3 -> {0, 1, 4}], xs \in [1..3 -> {0, 5}], n \in 2..3, left \in 2..3 :
    LET e == [i \in 1..3 |-> [Elem(<<"e1", "e2", "e3">>[i], Missing, {<<"#1", "#2", "#3">>[i]}, Body) EXCEPT !.y = ys[i], !.x = xs[i], !.index = i]]
        Refs == [i \in 1..n |-> Ref(e[i], <<"#1", "#2", "#3">>[i], Null, Missing)]
    IN  Ask("group verdict",
            [page |-> SubSeq(e, 1, left), op |-> [named |-> TRUE] @@ Change(k, "op", Refs[1], Missing, "n", <<>>, Refs)])

Widget(tag, role, label, content, tabindex, href, click) ==
  [tag |-> tag, role |-> role, label |-> label, labelledby |-> Missing, content |-> content, tabindex |-> tabindex,
   href |-> href, click |-> click, associated |-> FALSE, hidden |-> FALSE, inert |-> FALSE, order |-> 0]
AskRepair ==
  NothingAsked /\
  \E tag \in {"a", "button", "input", "div", "details"}, role \in {Missing, Empty, "button", "link"}, label, content \in {Missing, Empty, "Name"},
     tabindex \in {Missing, "0", "1", "-1"}, href \in {Missing, Empty, "#"}, flags \in SUBSET {"click", "associated", "hidden", "inert", "order"} :
    /\ tag # "a" => href = Missing
    /\ Ask("repair", [element |-> [Widget(tag, role, label, content, tabindex, href, "click" \in flags) EXCEPT
                                     !.associated = "associated" \in flags, !.hidden = "hidden" \in flags, !.inert = "inert" \in flags,
                                     !.order = IF "order" \in flags THEN 1 ELSE 0],
                      next |-> Widget("div", Missing, Missing, "Name", Missing, Missing, FALSE)])

Marks == {{}, {"data-private"}, {"data-private-token"}, {"input"}, {"input", "password"}, {"input", "hidden", "token name"},
          {"input", "token name"}, {"input", "credential name"}, {"credential autocomplete"}}
AskCapture ==
  NothingAsked /\
  \E w1, w2, w3 \in Marks, at \in {0, 2, 4}, optIn, throws \in BOOLEAN :
    LET before == {[x |-> 0, w |-> 2, why |-> w1], [x |-> 4, w |-> 2, why |-> w2]} IN
    \E after \in {before, {[x |-> at + 1, w |-> 2, why |-> w3]}, {[x |-> at, w |-> 2, why |-> w3]}} :
      Ask("capture", [optIn |-> optIn, before |-> before, after |-> after, throws |-> throws])

AskRetention ==
  NothingAsked /\
  \E captured \in [{"r1", "r2"} -> 0..2], retention \in 0..2, now \in 0..4, locked \in SUBSET {"r1", "r2"} :
    Ask("retention", [rows |-> {[id |-> r, captured |-> captured[r], expires |-> computeExpiry(captured[r], retention)] : r \in {"r1", "r2"}},
                      retention |-> retention, now |-> now, locked |-> locked])

AskFingerprint ==
  NothingAsked /\ \E under \in {<<"html">>, Body, Append(Body, "div")} : Ask("fingerprint", Elem("e", Missing, {}, under))

AskContext ==
  NothingAsked /\
  \E tag \in {"input", "div"}, type \in {Missing, "text", "password", "hidden"}, autocomplete \in {Missing, "username", "new-password"},
     marked \in SUBSET {"data-private", "token"}, text \in {<<>>, Plain("plain"), Plain("patterned"), <<Piece("query", TRUE, "plain"), Piece("words", FALSE, "random")>>},
     rules \in {<<>>, <<Rule("mine", "input", {}, {<<"type", "password">>}, "exclude")>>, <<Rule("mine", Missing, {"data-private"}, {}, "mask-value")>>}, n \in 0..1 :
    LET names == marked \cup {"value"} \cup (IF type = Missing THEN {} ELSE {"type"}) \cup (IF autocomplete = Missing THEN {} ELSE {"autocomplete"})
        Bare == tag = "div" /\ names = {"value"} /\ rules = <<>>
        Value(a) == CASE a = "type" -> Plain(type) [] a = "autocomplete" -> Plain(autocomplete) [] OTHER -> IF text = <<>> THEN Plain("plain") ELSE text
        Batch == {<<"style-edit", "resize-flex-pair">>} \cup IF Bare THEN {<<>>, <<"breakpoint-class-edit", "insert-element">>} ELSE {}
    IN  \E ops \in Batch, most \in (IF Bare THEN 0..12 ELSE {3, 20}) :
          Ask("context",
              [selection |-> [tag |-> tag, attributes |-> [a \in names |-> Value(a)], text |-> text], rules |-> rules,
               selectors |-> <<IF n = 1 THEN Missing ELSE "#e", "body", "html", "body">>, fields |-> <<<<"label">>>> :> text @@ <<<<"api", "key">>, <<"label">>>> :> Plain("plain") @@ <<<<"token", "budget">>>> :> Plain("plain"),
               operations |-> [i \in DOMAIN ops |-> Change(ops[i], "op", "e1", "e2", "n", "a", "b")],
               candidates |-> [i \in 1..2 * n |-> [confidence |-> IF i = 1 THEN "low" ELSE "high", snippet |-> 3 * i - 2]],
               layout |-> n, style |-> n, warnings |-> IF n = 1 THEN <<"w">> ELSE <<>>, breakpoint |-> IF n = 1 THEN "md" ELSE Missing,
               optIn |-> n = 1, screenshot |-> "shot", maxTokens |-> most])

-----------------------------------------------------------------------------
(* The panel's controls *)

ShownPanel ==
  [members |-> 0, selected |-> TRUE, mode |-> "style", display |-> "block", direction |-> "row", typed |-> "", childIndex |-> 0,
   name |-> "", props |-> {}, optIn |-> FALSE, summary |-> [parent |-> "k1", index |-> 1, tag |-> "li"], placed |-> FALSE,
   placement |-> [columnSpan |-> 1, rowSpan |-> 2], candidates |-> {}]
Prop(kind, component, range, crossBoundary, warnings) ==
  [kind |-> kind, name |-> "label", component |-> component, range |-> range, value |-> "shown",
   crossBoundary |-> crossBoundary, warnings |-> {[severity |-> w[1], code |-> w[2]] : w \in warnings}]
SomeProps ==
  {Prop(k, c, r, b, w) : k \in {"dom-attribute", "component-prop"}, c, r \in {Missing, "known"}, b \in BOOLEAN,
                         w \in {{}, {<<"error", "no-opt-in">>}, {<<"error", "dynamic">>}, {<<"warning", "dynamic">>}}}

AskPanel ==
  NothingAsked /\
  \E members \in 0..3, selected \in BOOLEAN, mode \in {"style", "class", "text"}, display \in {"flex", "grid", "block"},
     direction \in FlexDirections, typed, name \in {"", "1px", "solid"}, n \in 0..1 :
    Ask("panel", [ShownPanel EXCEPT !.members = members, !.selected = selected, !.mode = mode, !.display = display,
                                    !.direction = direction, !.typed = typed, !.childIndex = n, !.name = name])
AskPropsPanel ==
  NothingAsked /\
  \E prop \in SomeProps, optIn, placed \in BOOLEAN, typed \in {"", "1px"}, parent \in {Missing, "k1"}, to \in 1..3, axis \in {"column", "row"} :
    Ask("panel", [ShownPanel EXCEPT !.props = {prop}, !.optIn = optIn, !.typed = typed, !.placed = placed,
                                    !.summary.parent = parent, !.candidates = {[axis |-> axis, to |-> to]}])
AskBuilder ==
  NothingAsked /\
  \E index \in 0..1, members \in 0..3, container \in {Missing, "section"},
     role \in {"normal-flow-block", "inline", "flex-item", "absolute-positioned", "fixed-positioned", "sticky"}, previous \in {Missing, "auto"},
     positioning \in {"transform", "relative-offset", "absolute", "fixed", "static"}, ancestor, explicit \in BOOLEAN :
    Ask("builder", [index |-> index, tag |-> "li", members |-> members, container |-> container, role |-> role,
                    previous |-> previous, positioning |-> positioning, positionedAncestor |-> ancestor, explicit |-> explicit, current |-> "static"])

BorderTokens == {"0", "1px", "2", "solid", "none", "#fff", "rgb(0,", "0)", "@", "red"}
AskBorder == NothingAsked /\ \E n \in 0..4 : \E v \in [1..n -> BorderTokens] : Ask("border", v)

AskSpacing ==
  NothingAsked /\
  \E property \in {"gap", "row-gap", "padding", "padding-left"}, px \in 0..9, n \in 0..2, k \in 0..3 :
    LET Scale(m, step) == [i \in 1..m |-> [key |-> i, px |-> step * (i - 1)]] IN
    Ask("spacing", [property |-> property, px |-> px, scales |-> <<Scale(k, 3), Scale(n, 4)>>])

-----------------------------------------------------------------------------
(* The selected element *)

Node(tag, id, classes, source, role, parent, host) ==
  [tag |-> tag, id |-> id, classes |-> classes, source |-> source, role |-> role, parent |-> parent, host |-> host,
   label |-> Missing, labelledby |-> IF role = Missing THEN "x" ELSE Missing, type |-> "password", display |-> "flex",
   attributes |-> "onclick" :> "plain" @@ "value" :> (IF role = Missing THEN "random" ELSE "plain")]
SomeNodes ==
  {Node("li", Missing, {}, Missing, Missing, 0, Null), Node("ul", Missing, {"sc-x"}, Missing, "list", 0, Null),
   Node("li", "x", {}, Missing, Missing, 0, Null), Node("li", "1st", {"sc-x"}, Missing, Missing, 0, Null),
   Node("input", Missing, {"card", "sc-x"}, Missing, Missing, 0, Null), Node("li", Missing, {}, "s1", Missing, 0, Null)}
\* Under body: each element under an ancestor of the one before, or in the shadow tree of the third.
Shapes(n) == {p \in [1..n -> 2..(n + 1)] : \A i \in 1..n : p[i] <= i + 1 /\ (i > 1 => p[i] = i + 1 \/ p[i] <= p[i - 1])}
AskElement ==
  NothingAsked /\
  \E n \in 1..3 : \E nodes \in [1..n -> SomeNodes], shape \in Shapes(n), shadow \in BOOLEAN, at \in 1..(n + 2) :
    Ask("element",
        [at |-> at,
         doc |-> <<Node("html", Missing, {}, Missing, Missing, Null, Null), Node("body", Missing, {}, Missing, Missing, 1, Null)>>
                 \o [i \in 1..n |-> LET hosted == shadow /\ shape[i] = 3 IN
                       [nodes[i] EXCEPT !.parent = IF hosted THEN Null ELSE shape[i], !.host = IF hosted THEN 3 ELSE Null]]])

Sizes == {2, 5}
AskGridCell ==
  NothingAsked /\
  \E n \in 0..3, gap \in {0, 3}, edge \in {0, 4}, display \in {"grid", "inline-grid"} :
    \E tracks \in [1..n -> Sizes] : \E first \in 1..n, last \in 1..n, inset \in 0..1 :
      /\ first <= last
      /\ LET Before(k) == edge + edge + FoldLeft(+, 0, SubSeq(tracks, 1, k - 1)) + (k - 1) * gap
             end == last + 1
             box == [from |-> Before(first) + inset, to |-> Before(last) + tracks[last] - inset]
         IN  \E lines \in {<<<<"auto", 0>>, <<"auto", 0>>>>, <<<<"auto", 0>>, <<"span", end - first>>>>, <<<<"span", end - first>>, <<"auto", 0>>>>,
                            <<<<"line", first>>, <<"line", end>>>>, <<<<"line", first>>, <<"span", end - first>>>>}
                           \cup (IF first = last THEN {<<<<"line", first>>, <<"auto", 0>>>>} ELSE {}) :
               Ask("grid cell", [first |-> first, last |-> last, child |-> box @@ [start |-> lines[1], end |-> lines[2]],
                                 container |-> [display |-> display, at |-> 0, padding |-> edge, border |-> edge, tracks |-> tracks, gap |-> gap]])

(* Source maps *)

Written(scheme, absolute, s) == <<[scheme |-> scheme, absolute |-> absolute, segments |-> s]>>
Sass == Written(TRUE, FALSE, <<"app", ".", "src", "a.scss">>)
Script == Written(FALSE, FALSE, <<".", "src", "a.scss">>)
Bootstrap == Written(TRUE, FALSE, <<"webpack", "bootstrap">>)
Machine == Written(FALSE, TRUE, <<"home", "a.js">>)
Rooted == Written(FALSE, TRUE, <<"src", "a.scss">>)
HeadAt(at, compound, head) == [at |-> at, compound |-> compound, head |-> head]
OneText == <<<<<<>>, <<HeadAt(2, <<".x", ".btn">>, FALSE), HeadAt(6, <<".x", ".btn">>, TRUE)>>, <<HeadAt(0, <<".btn">>, TRUE)>>>>>>
OtherText == <<<<<<HeadAt(0, <<".card">>, TRUE)>>>>>>
SourceMap(version, sources, contents) ==
  <<[version |-> version, root |-> NoRoot, sources |-> sources, contents |-> contents, mappings |-> <<>>]>>
SomeMaps ==
  {<<>>, SourceMap(2, <<Sass>>, <<OneText>>), SourceMap(3, <<Sass, Rooted>>, <<>>), SourceMap(3, <<Script, Bootstrap>>, <<OtherText, OneText>>),
   SourceMap(3, <<<<>>, Sass, Machine>>, <<<<>>, OneText, OtherText>>), SourceMap(3, <<Machine>>, <<<<>>, OneText>>),
   [SourceMap(3, <<Script, Sass>>, <<OneText, OtherText>>) EXCEPT ![1].root = [NoRoot EXCEPT !.segments = <<"root">>]]}
Text(refs, map) == [refs |-> refs, map |-> map]
Answers(outcome, bytes, text) == [outcome |-> outcome, bytes |-> bytes, took |-> 1, text |-> text]
Sheet(href, text, selectors) ==
  [href |-> href, readable |-> TRUE, element |-> TRUE, text |-> text,
   rules |-> [i \in DOMAIN selectors |-> [style |-> selectors[i] # <<>>, matches |-> selectors[i] # <<<<".other">>>>, selector |-> selectors[i]]]]
Btn == <<<<".card">>, <<".btn", "pseudo">>>>
To(url, relative) == [url |-> url, relative |-> relative]
SomePages ==
  {[sheets |-> s, scripts |-> j] :
     s \in {<<Sheet("c", <<>>, <<Btn, <<<<"pseudo">>>>, <<<<".other">>>>, <<>>>>), Sheet("", <<Text(<<To("m2", FALSE)>>, <<>>)>>, <<<<<<".card">>>>>>)>>,
             <<Sheet("", <<Text(<<To("m1", TRUE)>>, <<>>)>>, <<Btn>>), [Sheet("d", <<>>, <<Btn>>) EXCEPT !.readable = FALSE], Sheet("d", <<>>, <<Btn>>), Sheet("c", <<>>, <<Btn>>)>>},
     j \in {<<[src |-> "c", text |-> <<>>], [src |-> "", text |-> <<>>], [src |-> "", text |-> <<Text(<<To("m2", FALSE)>>, <<>>)>>]>>}}
AskOrigins ==
  NothingAsked /\
  \E m1, m2 \in SomeMaps, o1, o2 \in {"ok", "missing"}, b1, b2 \in 0..2, page \in SomePages, maps, each \in 1..2, total \in 2..3, clock \in {2, 9} :
    /\ o1 = "missing" => b1 = 0
    /\ o2 = "missing" => b2 = 0
    /\ Ask("origins", [page |-> page, caps |-> [maps |-> maps, bytesPerMap |-> each, bytesTotal |-> total, wallClock |-> clock],
                       web |-> [u \in {"c", "d", "m1", "m2"} |->
                                  CASE u = "c" -> Answers("ok", 9, Text(<<To("m2", TRUE), To("m1", TRUE)>>, <<>>))
                                    [] u = "d" -> Answers("timeout", 9, Text(<<To("m2", TRUE)>>, <<>>))
                                    [] u = "m1" -> Answers(o1, b1, Text(<<>>, m1)) [] u = "m2" -> Answers(o2, b2, Text(<<>>, m2))]])
AskMappings ==
  NothingAsked /\
  \E c1, c2 \in {0, 17}, s \in {<<>>, <<0, 3, 40>>, <<1, 0, 2, 5>>}, t \in {<<>>, <<1, 0, 15>>, <<0, 16, 0, 0>>}, gap \in BOOLEAN :
    LET line1 == <<<<c1>> \o s, <<c2>> \o t>>
        line2 == <<<<c2>> \o t>>
    IN  Ask("mappings", IF gap THEN <<line1, <<>>, line2>> ELSE <<line1, line2>>)

AskOperations == AskInverse \/ AskMerge
AskVerdicts == AskVerdict \/ AskPairVerdict \/ AskGroupVerdict \/ AskFingerprint
AskChecks == AskRepair \/ AskCapture \/ AskRetention
AskPanels == AskPanel \/ AskPropsPanel \/ AskBuilder \/ AskBorder \/ AskSpacing
AskElements == AskElement \/ AskGridCell
AskMaps == AskOrigins \/ AskMappings

-----------------------------------------------------------------------------

\* What the panel records is accepted by the schema it is sent under, and what it shows
\* of a selection leads back to the selected element (panel commands of the extension,
\* inspector-core).
PanelIsTrue == CommandsAreAccepted /\ SelectionIsDescribed
=============================================================================
