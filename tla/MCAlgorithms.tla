---------------------------- MODULE MCAlgorithms ----------------------------
(***************************************************************************)
(* The pure functions of the layout engine, over small layouts that a      *)
(* browser can really produce: children are laid out here before their     *)
(* boxes are passed on.                                                    *)
(***************************************************************************)
EXTENDS MoveDecisions, ResizeDecisions, MCPipeline

VARIABLE subject  \* what this behaviour's call is about

Subjects == {"drops", "resizes", "moves", "operations", "verdicts", "checks", "context", "panel", "elements", "maps"}

\* Contexts in which every axis and sign occurs.
SomeContexts ==
  {[writingMode |-> "horizontal-tb", direction |-> "ltr", flexDirection |-> f] : f \in FlexDirections}
  \cup {[writingMode |-> "horizontal-tb", direction |-> "rtl", flexDirection |-> "row"],
        [writingMode |-> "vertical-rl", direction |-> "ltr", flexDirection |-> "row-reverse"],
        [writingMode |-> "vertical-rl", direction |-> "rtl", flexDirection |-> "column"]}

\* The kinds of children: [order, seen].
ChildKinds == {[order |-> 0, seen |-> TRUE], [order |-> 1, seen |-> TRUE], [order |-> 0, seen |-> FALSE]}
Families(n) == UNION {[1..k -> ChildKinds] : k \in 0..n}

Side == 10
Span(at, sign) == IF sign = 1 THEN at * Side ELSE -(at + 1) * Side

\* The box that is in place `rank` of its container, two to a line where lines wrap.
BoxAt(rank, wrapped, main, cross) ==
  LET m == Span(IF wrapped THEN rank % 2 ELSE rank, main.sign)
      c == Span(IF wrapped THEN rank \div 2 ELSE 0, cross.sign)
  IN  IF main.axis = "x" THEN [x |-> m, y |-> c] ELSE [x |-> c, y |-> m]

\* Where CSS lays the main axis of a flex container.
MainAxis(c) ==
  LET text == IF c.direction = "ltr" THEN 1 ELSE -1
      lines == IF c.writingMode = "vertical-rl" THEN -1 ELSE 1
      row == c.flexDirection \in {"row", "row-reverse"}
      turn == IF c.flexDirection \in {"row-reverse", "column-reverse"} THEN -1 ELSE 1
  IN  [axis |-> IF row = (c.writingMode = "horizontal-tb") THEN "x" ELSE "y",
       sign |-> turn * IF row THEN text ELSE lines]

\* The children f of a container, laid out, with a gap where the moved element is.
LaidOut(f, kind, context, wrap, source, order) ==
  LET flex == kind = "flex"
      main == IF flex THEN MainAxis(context) ELSE resolveBlockAxis(context.writingMode)
      cross == IF flex THEN resolveFlexCrossAxis(context, wrap) ELSE Inline(context)
      Precedes(o1, d1, o2, d2) == IF flex /\ o1 # o2 THEN o1 < o2 ELSE d1 < d2
      PlaceOf(k) ==
        Cardinality({j \in DOMAIN f : f[j].seen /\ Precedes(f[j].order, j, f[k].order, k)})
        + (IF source # Null /\ Precedes(2 * order, 2 * source - 1, 2 * f[k].order, 2 * (k - 1)) THEN 1 ELSE 0)
      Box(k) == BoxAt(PlaceOf(k), flex /\ wrap # "nowrap", main, cross)
  IN  [k \in DOMAIN f |->
         [x |-> Box(k).x, y |-> Box(k).y, w |-> IF f[k].seen THEN Side ELSE 0, h |-> Side,
          margin |-> 0, order |-> f[k].order, inFlow |-> f[k].seen]]

Points == {-16, -4, 4, 16}

AskDrop(kind, contexts, wraps, n, orders) ==
  NothingAsked /\
  \E f \in Families(n), c \in contexts, w \in wraps, o \in orders, s \in Null..n :
    /\ s <= Len(f)
    /\ LET items == LaidOut(f, kind, c, w, s, o) IN
       \E px, py \in Points :
         Ask("drop", [kind |-> kind, context |-> c, wrap |-> w, items |-> items, pointer |-> [x |-> px, y |-> py], movingOrder |-> o, sourceIndex |-> s])

AskLegacyDrop ==
  NothingAsked /\
  \E k \in {"block", "flex"}, n \in 0..3, c \in SomeContexts, px, py \in Points :
    /\ c.writingMode = "horizontal-tb"
    /\ Ask("legacy-drop",
           [kind |-> k, context |-> c, pointer |-> [x |-> px, y |-> py],
            items |-> LaidOut([j \in 1..n |-> [order |-> 0, seen |-> TRUE]], k, c, "nowrap", Null, 0)])

PairItem(o, f, d, s, m, e) ==
  [order |-> o, inFlow |-> f, contents |-> d, size |-> s, autoMargin |-> m, effects |-> e]
SomeItems ==
  {PairItem(0, TRUE, FALSE, 10, FALSE, "none"), PairItem(0, TRUE, FALSE, 10, FALSE, "transform"),
   PairItem(1, TRUE, FALSE, 10, FALSE, "none"), PairItem(0, FALSE, FALSE, 10, FALSE, "none"),
   PairItem(0, TRUE, FALSE, 0, TRUE, "none")}
SomeContainers ==
  {[wrap |-> w, size |-> s, definite |-> d, text |-> FALSE, effects |-> "none"] :
     w \in {"nowrap", "wrap"}, s \in {0, 40}, d \in BOOLEAN}

AskPair ==
  NothingAsked /\
  \E box \in SomeContainers, n \in 1..2 : \E f \in [1..n -> SomeItems], p \in 0..(n - 1) :
    \E c \in SomeContexts, b \in {"main-start", "main-end"}, a \in BOOLEAN :
      Ask("pair", [context |-> c, boundary |-> b, primary |-> p, ambiguous |-> a,
                   container |-> box, items |-> f])

Members ==
  {[before |-> 20, min |-> lo, max |-> hi, contentBox |-> c, edges |-> e] :
     lo \in {0, Auto, 12, 30}, hi \in {NoBound, 24, 10}, c \in BOOLEAN, e \in {0, 6}}

AskDelta ==
  NothingAsked /\
  \E d \in {-25, -10, -4, 0, 4, 10}, p, n \in Members :
    Ask("delta", [delta |-> d, primary |-> p, neighbor |-> n])

Rows == {c \in SomeContexts : c.flexDirection = "row"}

SomeRoles == {"normal-flow-block", "flex-container", "grid-container", "grid-item", "inline"}

AskMove ==
  NothingAsked /\
  \E same, sp, tp, free \in BOOLEAN, s, t \in SomeRoles :
    /\ same => s = t /\ sp = tp
    /\ Ask("move", [same |-> same, source |-> s, target |-> t, sourcePositioned |-> sp,
                    targetPositioned |-> tp, freeMove |-> free])

AskAlign ==
  NothingAsked /\
  \E r \in SomeRoles, d \in FlexDirections, n \in 1..2, p, free \in BOOLEAN, w \in {"width", "height"},
     c \in DOMAIN Snaps \cup Distributions \cup {"equal-gap", "match-size"} :
    Ask("align", [role |-> r, direction |-> d, command |-> c, members |-> n, positioned |-> p,
                  freeMove |-> free, match |-> w])

SomeCommands ==
  {[kind |-> "set-child-sizing", intent |-> i, value |-> v] : i \in {"hug", "fill", "fixed"}, v \in {"", "8px"}}
  \cup {[kind |-> "set-gap", axis |-> a, value |-> "8px"] : a \in {"row", "column", "both"}}
  \cup {[kind |-> "set-padding", mode |-> m, sides |-> {"top"}, value |-> "8px"] :
          m \in {"all", "horizontal", "vertical", "individual"}}
  \cup {[kind |-> k, value |-> "start"] :
          k \in {"set-direction", "set-align-main", "set-align-cross", "set-wrap"}}

AskAutoLayout ==
  NothingAsked /\
  \E t \in {"div", "img", "svg"}, p \in {"static", "absolute", "fixed"}, c \in SomeCommands,
     d \in FlexDirections, s, o \in {"flex", "grid", "inline", "inline-block", "block", "contents"} :
    Ask("auto-layout", [command |-> c, direction |-> d,
           style |-> [tag |-> t, position |-> p, display |-> s, parentDisplay |-> o]])

AskGrid ==
  NothingAsked /\
  \E n \in 1..3 : \E first, last \in 1..n, gap \in {0, 4}, styled \in {"no", "both", "start"} :
    /\ first <= last
    /\ styled = "start" => last = first
    /\ LET lines == [k \in 1..(n + 1) |-> 20 * (k - 1)]
       IN  Ask("grid", [lines |-> lines, first |-> first, last |-> last,
                        child |-> [from |-> lines[first] + gap, to |-> lines[last + 1] - gap,
                                   start |-> IF styled = "no" THEN Null ELSE first,
                                   end |-> IF styled = "both" THEN last + 1 ELSE Null]])

AskSnap ==
  NothingAsked /\
  \E f \in {0, 6}, b \in {Null, 5}, p \in 0..24, g \in {0, 5}, t \in {0, 2, 4} :
    Ask("snap", [boxes |-> <<[from |-> f, size |-> 8, baseline |-> b], [from |-> 16, size |-> 4, baseline |-> Null]>>,
                 tokens |-> <<3>>, pointer |-> p, spacing |-> g, threshold |-> t])

SomeStyles ==
  {[tag |-> "div", position |-> p, display |-> d, parentDisplay |-> ""] :
     p \in {"static", "relative", "absolute", "sticky"}, d \in {"block", "flex", "grid", "inline", "none"}}
SomeContainerBoxes ==
  {[style |-> s, boxed |-> b, children |-> c, flexMeta |-> m] :
     s \in SomeStyles, b \in BOOLEAN, c \in {"none", "plain", "transformed", "odd", "outside"}, m \in BOOLEAN}

AskPlace ==
  NothingAsked /\
  \E c \in SomeContainerBoxes, s \in {t \in SomeStyles : t.display \in {"block", "none"}},
     p \in SomeStyles, ok, same \in BOOLEAN :
    LET parent == IF same THEN c ELSE [style |-> p, boxed |-> TRUE, children |-> "plain", flexMeta |-> TRUE]
    IN  Ask("place", [container |-> c, parent |-> parent, same |-> same, contentOk |-> ok,
                      element |-> [style |-> s, boxed |-> TRUE, float |-> FALSE, transformed |-> FALSE]])

SomeLinks ==
  {[zone |-> z, droppable |-> b, drop |-> d] :
     z \in {"inside", "before", "after"}, b \in BOOLEAN, d \in {"ok", "unsupported-grid"}}
AskChain ==
  NothingAsked /\
  \E n \in 0..3 : \E chain \in [1..n -> SomeLinks], near \in BOOLEAN, k \in 1..3,
     z \in {"inside", "after"} :
    Ask("chain", [chain |-> chain, near |-> near, previous |-> [anchor |-> k, zone |-> z, target |-> 0]])

AskKey ==
  NothingAsked /\
  \E k \in {"ArrowUp", "ArrowLeft", "ArrowDown", "ArrowRight", "Tab"}, n \in 1..3, c \in SomeContainerBoxes,
     w \in {"nowrap", "wrap"} : \E f \in 0..(n - 1) :
    /\ c.boxed
    /\ Ask("key", [key |-> k, from |-> f, count |-> n,
                   container |-> [style |-> c.style, children |-> c.children, flexMeta |-> c.flexMeta, wrap |-> w]])

AskGroup ==
  NothingAsked /\
  \E r \in SomeRoles \cup {"absolute-positioned"}, p \in [1..2 -> {Null, 0, 1, 3}], o \in [1..2 -> 0..1] :
    Ask("group", [role |-> r, places |-> p, order |-> o])

AskHandle ==
  NothingAsked /\
  \E h \in {{"n"}, {"s"}, {"e"}, {"w"}, {"n", "e"}, {"n", "w"}, {"s", "e"}, {"s", "w"}},
     x, y \in {-5, 0, 3}, w \in {4, 8}, a \in {"x", "y"}, alt \in BOOLEAN :
    Ask("handle", [handle |-> h, delta |-> [x |-> x, y |-> y], box |-> [w |-> w, h |-> 4],
                   axis |-> a, alt |-> alt])

\* The containers of a resize: plain ones, and ones with a single reason to refuse.
Odd == {"none", "grid", "wrap", "text", "sideways", "durable", "order", "scaled", "overlap"}
ResizeItem(box, k, odd) ==
  [order |-> IF odd = "order" /\ k = 1 THEN 1 ELSE 0, inFlow |-> TRUE, contents |-> FALSE,
   x |-> IF odd = "overlap" THEN 0 ELSE box.x, y |-> IF odd = "overlap" THEN 0 ELSE box.y,
   w |-> IF odd = "overlap" THEN 6 ELSE box.w, h |-> IF odd = "overlap" THEN 6 ELSE box.h, autoMargin |-> FALSE, effects |-> "none",
   durable |-> odd # "durable", min |-> 5, max |-> NoBound, contentBox |-> FALSE, edges |-> 0]

AskResize ==
  NothingAsked /\
  \E n \in 1..3, context \in SomeContexts, odd \in Odd, h \in ResizeHandles, d \in {<<-4, -4>>, <<3, 0>>, <<0, 3>>} :
    \E sizes \in [1..n -> {6, 10}], t \in 0..(n - 1) :
      Ask("resize",
          [handle |-> h, moved |-> [x |-> d[1], y |-> d[2]], plain |-> odd \in {"none", "durable"},
           context |-> [display |-> IF odd = "grid" THEN "grid" ELSE "flex", readable |-> odd # "sideways",
                        context |-> context, wrap |-> IF odd = "wrap" THEN "wrap" ELSE "nowrap",
                        definite |-> TRUE, text |-> odd = "text", durable |-> TRUE,
                        effects |-> IF odd = "scaled" THEN "transform" ELSE "none",
                        box |-> [x |-> 0, y |-> 0, w |-> 40, h |-> 40], target |-> t,
                        items |-> [k \in 1..n |-> ResizeItem(Placed(sizes, resolveFlexAxis(context), k), k, odd)]]])

AskDrops ==
  \/ AskDrop("block", Rows, {"nowrap"}, 2, {0})
  \/ AskDrop("flex", SomeContexts, {"nowrap"}, 2, {0, 1})
  \/ AskDrop("flex", Rows, {"wrap", "wrap-reverse"}, 3, {0, 1})
  \/ AskLegacyDrop
AskResizes == AskPair \/ AskDelta \/ AskResize \/ AskHandle
AskMoves == AskMove \/ AskAlign \/ AskAutoLayout \/ AskGrid \/ AskSnap \/ AskPlace \/ AskChain \/ AskKey \/ AskGroup

Init == NothingAsked /\ subject \in Subjects

Next ==
  \/ subject = "drops" /\ AskDrops /\ UNCHANGED subject
  \/ subject = "resizes" /\ AskResizes /\ UNCHANGED subject
  \/ subject = "moves" /\ AskMoves /\ UNCHANGED subject
  \/ subject = "operations" /\ AskOperations /\ UNCHANGED subject
  \/ subject = "verdicts" /\ AskVerdicts /\ UNCHANGED subject
  \/ subject = "checks" /\ AskChecks /\ UNCHANGED subject
  \/ subject = "context" /\ AskContext /\ UNCHANGED subject
  \/ subject = "panel" /\ AskPanels /\ UNCHANGED subject
  \/ subject = "elements" /\ AskElements /\ UNCHANGED subject
  \/ subject = "maps" /\ AskMaps /\ UNCHANGED subject

Spec == Init /\ [][Next]_<<asked, subject>>
=============================================================================
