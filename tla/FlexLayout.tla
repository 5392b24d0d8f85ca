----------------------------- MODULE FlexLayout -----------------------------
(***************************************************************************)
(* The parts of the layout engine that compute with boxes: where a dragged *)
(* element is inserted among the children of a block or flex container,    *)
(* whether two flex items can be resized as a pair, and the sizes a pair   *)
(* gets.  Coordinates are whole pixels, so the tolerance of half a pixel   *)
(* is exact comparison; a box is never NaN or infinite.                    *)
(***************************************************************************)
EXTENDS Question, Integers, FiniteSetsExt, SequencesExt

Null == -1      \* null: no index
Auto == -1      \* auto, for a bound
NoBound == -2   \* none
Clamp(v, lo, hi) == Min({hi, Max({lo, v})})

------------------------------------------------------------------------------
(* flex/logical-axis.ts                                                    *)

WritingModes == {"horizontal-tb", "vertical-rl", "vertical-lr"}
FlexDirections == {"row", "row-reverse", "column", "column-reverse"}
FlexContexts ==
  [writingMode : WritingModes, direction : {"ltr", "rtl"}, flexDirection : FlexDirections]

Progression(axis, sign) == [axis |-> axis, sign |-> sign]
IsVertical(writingMode) == writingMode # "horizontal-tb"

\* LOGICAL_AXIS_ORACLE: which way text runs and which way lines follow each other.
Inline(c) == Progression(IF IsVertical(c.writingMode) THEN "y" ELSE "x",
                         IF c.direction = "ltr" THEN 1 ELSE -1)
resolveBlockAxis(writingMode) ==
  Progression(IF IsVertical(writingMode) THEN "x" ELSE "y",
              IF writingMode = "vertical-rl" THEN -1 ELSE 1)

Turned(p, reversed) == IF reversed THEN [p EXCEPT !.sign = -@] ELSE p
IsRow(c) == c.flexDirection \in {"row", "row-reverse"}

resolveFlexAxis(c) ==
  Turned(IF IsRow(c) THEN Inline(c) ELSE resolveBlockAxis(c.writingMode),
         c.flexDirection \in {"row-reverse", "column-reverse"})

\* Reversing the main axis leaves the cross axis; wrap-reverse turns it.
resolveFlexCrossAxis(c, wrap) ==
  Turned(IF IsRow(c) THEN resolveBlockAxis(c.writingMode) ELSE Inline(c), wrap = "wrap-reverse")

\* The handle at which the main axis of a progression starts, and the one at its end.
mainHandle(p, boundary) ==
  LET low == IF p.axis = "x" THEN "left" ELSE "top"
      high == IF p.axis = "x" THEN "right" ELSE "bottom"
  IN  IF (boundary = "main-start") = (p.sign = 1) THEN low ELSE high

resolvePhysicalFlexHandle(p, handle) ==
  IF handle = mainHandle(p, "main-start") THEN "main-start"
  ELSE IF handle = mainHandle(p, "main-end") THEN "main-end" ELSE "cross-axis"

\* DOM index of the child that is number `visual` from the main start, both from 0.
visualDomOrder(count, sign) ==
  [visual \in 0..(count - 1) |-> IF sign = 1 THEN visual ELSE count - visual - 1]

mapVisualBoundaryToDomIndex(count, visual, sign) == IF sign = 1 THEN visual ELSE count - visual

\* The DOM index of the neighbour over a boundary, or Null where there is none.
selectVisualBoundaryNeighbor(count, primary, boundary, sign) ==
  LET order == visualDomOrder(count, sign)
      here == CHOOSE v \in DOMAIN order : order[v] = primary
      there == IF boundary = "main-start" THEN here - 1 ELSE here + 1
  IN  IF there \in DOMAIN order THEN order[there] ELSE Null

------------------------------------------------------------------------------
(* flex/move-insertion.ts.  An item is [x, y, w, h, margin, order, inFlow]; *)
(* its DOM index is its place in the sequence, from 0.                      *)

Interval(start, end, sign) ==
  IF sign = 1 THEN [leading |-> start, trailing |-> end]
  ELSE [leading |-> -end, trailing |-> -start]

\* The border box of an item along a progression, and the box with its margins.
Border(c, p) ==
  IF p.axis = "x" THEN Interval(c.x, c.x + c.w, p.sign) ELSE Interval(c.y, c.y + c.h, p.sign)
Outer(c, p) ==
  LET b == Border(c, p) IN [leading |-> b.leading - c.margin, trailing |-> b.trailing + c.margin]

PointerOn(in, p) == p.sign * (IF p.axis = "x" THEN in.pointer.x ELSE in.pointer.y)

Failure(code) == [ok |-> FALSE, code |-> code]

\* DOM indices of the items that take part.
visibleItems(in) ==
  {d \in 0..(Len(in.items) - 1) : LET c == in.items[d + 1] IN c.inFlow /\ c.w > 0 /\ c.h > 0}

At0(in, dom) == in.items[dom + 1]

\* The first of the boundaries of a line of items that the pointer does not lie past.
BoundaryAt(in, line, p) ==
  LET Past(i) == LET b == Border(At0(in, line[i]), p)
                 IN  2 * PointerOn(in, p) > b.leading + b.trailing
  IN  Min({i \in 1..Len(line) : ~Past(i)} \cup {Len(line) + 1})

\* The answer: the DOM index, and the items on both sides of the indicator.
Resolved(index, seen, i) ==
  [ok |-> TRUE, index |-> index,
   before |-> IF i - 1 \in DOMAIN seen THEN seen[i - 1] ELSE Null,
   after |-> IF i \in DOMAIN seen THEN seen[i] ELSE Null]

blockResolution(in) ==
  LET p == resolveBlockAxis(in.context.writingMode)
      seen == SetToSortSeq(visibleItems(in), LAMBDA a, b : a < b)
      Box(i) == Border(At0(in, seen[i]), p)
      i == BoundaryAt(in, seen, p)
  IN  IF \E k \in 2..Len(seen) : Box(k).leading < Box(k - 1).trailing
      THEN Failure("invalid-geometry")
      ELSE Resolved(IF i = 1 /\ seen # <<>> THEN 0
                    ELSE IF i > Len(seen) THEN Len(in.items) ELSE seen[i], seen, i)

\* makeLines: a line starts where the main axis falls back; the boxes of a line may
\* not overlap, nor may the lines.
LineStarts(in, seen, p) ==
  {1} \cup {k \in 2..Len(seen) :
              /\ in.wrap # "nowrap"
              /\ Outer(At0(in, seen[k]), p).leading <= Outer(At0(in, seen[k - 1]), p).leading}

LineOf(starts, k) == Cardinality({s \in starts : s <= k})

LineCross(in, seen, starts, cross, l) ==
  LET boxes == {Outer(At0(in, seen[k]), cross) : k \in {j \in DOMAIN seen : LineOf(starts, j) = l}}
  IN  [leading |-> Min({b.leading : b \in boxes}), trailing |-> Max({b.trailing : b \in boxes})]

ambiguousLines(in, seen, starts, main, cross) ==
  \/ \E k \in 2..Len(seen) :
       /\ k \notin starts
       /\ Outer(At0(in, seen[k]), main).leading < Outer(At0(in, seen[k - 1]), main).trailing
  \/ \E l \in 2..Cardinality(starts) :
       LineCross(in, seen, starts, cross, l).leading
         < LineCross(in, seen, starts, cross, l - 1).trailing

\* The first of the lines that are nearest to the pointer across.
chooseLine(in, seen, starts, cross) ==
  LET at == PointerOn(in, cross)
      Away(l) == LET c == LineCross(in, seen, starts, cross, l)
                 IN  Max({0, c.leading - at, at - c.trailing})
  IN  CHOOSE l \in 1..Cardinality(starts) :
        \A m \in 1..Cardinality(starts) : Away(l) < Away(m) \/ (Away(l) = Away(m) /\ l <= m)

\* Mutant: the items of a lower order are not counted.
flexIndex_AnyOrder(in, seen, i) ==
  Clamp(IF in.sourceIndex # Null THEN in.sourceIndex
        ELSE IF i \in DOMAIN seen THEN seen[i] ELSE Len(in.items),
        IF i = 1 THEN 0 ELSE seen[i - 1] + 1, IF i > Len(seen) THEN Len(in.items) ELSE seen[i])

\* Only among the items of its own order does the DOM place decide what is seen.
flexIndex(in, seen, i) ==
  LET same == SelectSeq(seen, LAMBDA d : At0(in, d).order = in.movingOrder)
      lower == Len(SelectSeq(seen, LAMBDA d : At0(in, d).order < in.movingOrder))
      before == i - 1 - lower
      preferred == IF in.sourceIndex # Null THEN in.sourceIndex
                   ELSE IF i \in DOMAIN seen THEN seen[i] ELSE Len(in.items)
  IN  IF before < 0 \/ before > Len(same) THEN Null
      ELSE IF same = <<>> THEN Len(in.items)
      ELSE Clamp(preferred,
                 IF before = 0 THEN 0 ELSE same[before] + 1,
                 IF before = Len(same) THEN Len(in.items) ELSE same[before + 1])

flexResolution(in) ==
  LET main == resolveFlexAxis(in.context)
      cross == resolveFlexCrossAxis(in.context, in.wrap)
      seen == SetToSortSeq(visibleItems(in), LAMBDA a, b : \/ At0(in, a).order < At0(in, b).order
                                                           \/ At0(in, a).order = At0(in, b).order /\ a < b)
      starts == LineStarts(in, seen, main)
      chosen == chooseLine(in, seen, starts, cross)
      line == SelectSeq(seen, LAMBDA d : \E k \in DOMAIN seen :
                                           seen[k] = d /\ LineOf(starts, k) = chosen)
      preceding == Cardinality({k \in DOMAIN seen : LineOf(starts, k) < chosen})
      i == preceding + BoundaryAt(in, line, main)
  IN  IF seen = <<>> THEN Resolved(Len(in.items), seen, 1)
      ELSE IF ambiguousLines(in, seen, starts, main, cross) THEN Failure("ambiguous-flex-lines")
      ELSE IF flexIndex(in, seen, i) = Null THEN Failure("css-order-unrepresentable")
      ELSE Resolved(flexIndex(in, seen, i), seen, i)

computeMoveInsertion(in) == IF in.kind = "block" THEN blockResolution(in) ELSE flexResolution(in)

\* insertion-index.ts, for drags without the Move mode: boxes in DOM order, halves of
\* pixels doubled; the count stops at the first child the pointer has not passed.
computeLogicalInsertionIndex(in) ==
  LET p == IF in.kind = "flex" THEN resolveFlexAxis(in.context) ELSE Progression("y", 1)
      n == Len(in.items)
      passed == BoundaryAt(in, [k \in 1..n |-> k - 1], p) - 1
  IN  mapVisualBoundaryToDomIndex(n, IF p.sign = 1 THEN passed ELSE n - passed, p.sign)

------------------------------------------------------------------------------
(* flex/eligibility.ts: the checks in their order, as what each refuses.    *)

Affected(effects) == effects # "none"

itemDiagnostic(item) ==
  IF item.order # 0 THEN "nonzero_order"
  ELSE IF ~item.inFlow THEN "out_of_flow_item"
  ELSE IF item.contents THEN "display_contents_item"
  ELSE IF item.size = 0 THEN "zero_size_box"
  ELSE IF item.autoMargin THEN "main_axis_auto_margin" ELSE "none"

evaluateFlexPairEligibility(in) ==
  LET broken == {k \in DOMAIN in.items : itemDiagnostic(in.items[k]) # "none"}
      sign == resolveFlexAxis(in.context).sign
      neighbor == selectVisualBoundaryNeighbor(Len(in.items), in.primary, in.boundary, sign)
      No(code) == [eligible |-> FALSE, code |-> code]
  IN  IF in.container.wrap # "nowrap" THEN No("wrapped_layout")
      ELSE IF in.container.size = 0 THEN No("zero_size_box")
      ELSE IF ~in.container.definite THEN No("indefinite_container_main_size")
      ELSE IF in.container.text THEN No("anonymous_flex_item")
      ELSE IF broken # {} THEN No(itemDiagnostic(in.items[Min(broken)]))
      ELSE IF in.ambiguous THEN No("ambiguous_visual_neighbor")
      ELSE IF neighbor = Null THEN No("missing_visual_neighbor")
      ELSE IF \/ Affected(in.container.effects)
              \/ \E d \in {in.primary, neighbor} : Affected(At0(in, d).effects)
           THEN No("affected_geometry")
      ELSE [eligible |-> TRUE, neighbor |-> neighbor]

------------------------------------------------------------------------------
(* flex/sizing.ts, box-sizing.ts, legal-delta.ts: a member is              *)
(* [before, min, max, contentBox, edges]; auto is a keyword, which the     *)
(* layout has to confirm.                                                  *)

Unbounded == 1000
Grown(m) == IF m.contentBox THEN m.edges ELSE 0

\* Mutant: a bound of a content box is taken for one of its border box.
convertConstraintToBorderBox_NoEdges(m, bound, keyword) ==
  IF bound \in {Auto, NoBound} THEN keyword ELSE bound

convertConstraintToBorderBox(m, bound, keyword) ==
  IF bound \in {Auto, NoBound} THEN keyword ELSE bound + Grown(m)

MinOf(m) == convertConstraintToBorderBox(m, m.min, 0)
MaxOf(m) == convertConstraintToBorderBox(m, m.max, Unbounded)
convertUsedSizeToFlexBasis(m, desired) == desired - Grown(m)

\* What one member gains the other loses, and each stays within its bounds.
computeLegalDeltaInterval(p, n) ==
  [minimum |-> Max({MinOf(p) - p.before, n.before - MaxOf(n)}),
   maximum |-> Min({MaxOf(p) - p.before, n.before - MinOf(n)})]

planPairedFlexResize(delta, p, n) ==
  LET legal == computeLegalDeltaInterval(p, n)
      basis == <<convertUsedSizeToFlexBasis(p, p.before + delta),
                 convertUsedSizeToFlexBasis(n, n.before - delta)>>
  IN  IF \/ MinOf(p) > MaxOf(p) \/ MinOf(n) > MaxOf(n)
         \/ delta < legal.minimum \/ delta > legal.maximum
         \/ \E k \in 1..2 : basis[k] < 0
      THEN [kind |-> "rejected"]
      ELSE [kind |-> IF Auto \in {p.min, p.max, n.min, n.max} THEN "validation-required"
                     ELSE "accepted",
            basis |-> basis]

Near(a, b, tolerance) == a - b \in -tolerance..tolerance

\* What the page shows must be what was planned.
validatePairedFlexResize(delta, p, n, seen, tolerance) ==
  /\ Near(seen.primary, p.before + delta, tolerance)
  /\ Near(seen.neighbor, n.before - delta, tolerance)

------------------------------------------------------------------------------
(* What a browser does, to compare with.                                   *)

\* Where an element dropped at DOM index k is seen: after every item of lower order
\* and of the same order with a lower DOM index.
SeenBefore(in, d, k) ==
  LET o == IF in.kind = "flex" THEN At0(in, d).order ELSE in.movingOrder
  IN  o < in.movingOrder \/ (o = in.movingOrder /\ d < k)

\* Dropped at k it is seen between the items the indicator shows.
Between(in, r, k) ==
  /\ r.before # Null => SeenBefore(in, r.before, k)
  /\ r.after # Null => ~SeenBefore(in, r.after, k)

\* A frozen flex item is as wide as its basis within its bounds, which like the
\* basis are of the content box or of the border box.
LowOf(m) == IF m.min = Auto THEN 0 ELSE m.min
HighOf(m) == IF m.max = NoBound THEN Unbounded ELSE m.max
UsedSize(m, basis) == Clamp(basis, LowOf(m), HighOf(m)) + Grown(m)

\* computeMoveInsertion: the DOM index puts the element where the indicator shows
\* it, whatever order, direction, hidden children and lines there are; it is refused
\* only where no index could; and in a flex container an element that is dropped
\* where it came from stays.
DropGoesWhereShown ==
  asked.about = "drop" =>
    \A in \in {asked.x} : \A r \in {computeMoveInsertion(in)} :
        IF r.ok
        THEN /\ r.index \in 0..Len(in.items)
             /\ Between(in, r, r.index)
             /\ /\ in.kind = "flex" /\ in.sourceIndex # Null /\ Between(in, r, in.sourceIndex)
                /\ \E k \in DOMAIN in.items : in.items[k].inFlow /\ in.items[k].order = in.movingOrder
                => r.index = in.sourceIndex
        ELSE r.code = "css-order-unrepresentable"

\* The older insertion index and the pair eligibility agree with the axis: a child is
\* before the pointer in the direction of the container exactly when its midpoint
\* is, and the two of an eligible pair are next to each other.
AxisIsFollowed ==
  /\ asked.about = "legacy-drop" =>
       LET in == asked.x
           p == IF in.kind = "flex" THEN resolveFlexAxis(in.context) ELSE Progression("y", 1)
           Mid(k) == LET b == Border(in.items[k], p) IN b.leading + b.trailing
       IN  \A k \in DOMAIN in.items :
             k <= computeLogicalInsertionIndex(in) <=> Mid(k) < 2 * PointerOn(in, p)
  /\ asked.about = "pair" =>
       LET in == asked.x
           r == evaluateFlexPairEligibility(in)
           p == resolveFlexAxis(in.context)
       IN  r.eligible =>
             /\ r.neighbor - in.primary \in {-1, 1}
             /\ \A k \in DOMAIN in.items : itemDiagnostic(in.items[k]) = "none"
             /\ resolvePhysicalFlexHandle(p, mainHandle(p, in.boundary)) = in.boundary

\* planPairedFlexResize: an accepted plan is what the page will show, so that the pair
\* keeps its total and validation passes; a refused one could not be shown.
PlanIsWhatIsShown ==
  asked.about = "delta" =>
    LET q == asked.x
        plan == planPairedFlexResize(q.delta, q.primary, q.neighbor)
        basis == <<convertUsedSizeToFlexBasis(q.primary, q.primary.before + q.delta),
                   convertUsedSizeToFlexBasis(q.neighbor, q.neighbor.before - q.delta)>>
        shown == [primary |-> UsedSize(q.primary, basis[1]),
                  neighbor |-> UsedSize(q.neighbor, basis[2])]
    IN  plan.kind # "rejected" <=>
          /\ basis[1] >= 0 /\ basis[2] >= 0
          /\ LowOf(q.primary) <= HighOf(q.primary) /\ LowOf(q.neighbor) <= HighOf(q.neighbor)
          /\ validatePairedFlexResize(q.delta, q.primary, q.neighbor, shown, 0)
==============================================================================
