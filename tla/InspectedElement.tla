-------------------------- MODULE InspectedElement --------------------------
(***************************************************************************)
(* What is recorded of an element that is selected: its selector and the   *)
(* occurrence that tells it from others, the summary that the panel shows, *)
(* and the cell that a child of a grid is in.  A document is the sequence  *)
(* of its elements in document order, html and body first; the children of *)
(* a shadow root have no parent element, only a host.                      *)
(***************************************************************************)
EXTENDS LayoutIntents, ContextCompilation

Volatile == {"sc-x"}     \* generated class names
Unparsable == {"1st"}    \* identifiers that a selector cannot hold as escapeIdent writes them: a digit comes first

(* dom-adapter.ts *)

PathTo(doc, e) ==
  LET path[k \in DOMAIN doc] == IF doc[k].parent = Null THEN <<k>> ELSE Append(path[doc[k].parent], k) IN path[e]
Root(doc, e) == doc[PathTo(doc, e)[1]].host
Siblings(doc, e) == {k \in DOMAIN doc : doc[k].parent = doc[e].parent /\ doc[k].host = doc[e].host}
getChildren(doc, e) == SetToSortSeq({k \in DOMAIN doc : doc[k].parent = e}, <)
PlaceAmong(elements, e) == Cardinality({k \in elements : k <= e})

\* Only siblings with the same tag are counted.
computeNthChild(doc, e) ==
  IF doc[e].parent = Null THEN Null ELSE PlaceAmong({k \in Siblings(doc, e) : doc[k].tag = doc[e].tag}, e)

(* element-identity/src/selectors.ts: a selector is a sequence of compounds, each the child of the one before. *)

Whatever == "whatever"
Segment == [tag |-> Whatever, id |-> Whatever, classes |-> {}, nth |-> Null, source |-> Whatever]
tagClassSegment(n) == [Segment EXCEPT !.tag = n.tag, !.classes = n.classes \ Volatile]
ancestorSegment(n) == IF n.id # Missing THEN [Segment EXCEPT !.id = n.id] ELSE tagClassSegment(n)
nthChildPath(doc, e) ==
  LET path == PathTo(doc, e)
      At(k) == IF k = e THEN tagClassSegment(doc[k]) ELSE ancestorSegment(doc[k])
  IN  [i \in DOMAIN path |-> [At(path[i]) EXCEPT !.nth = computeNthChild(doc, path[i])]]
generateStableSelector(doc, e) ==
  LET n == doc[e] IN
  IF n.source # Missing THEN <<[Segment EXCEPT !.source = n.source]>>
  ELSE IF n.id # Missing THEN <<[Segment EXCEPT !.id = n.id]>>
  ELSE IF n.classes \ Volatile # {} THEN <<tagClassSegment(n)>>
  ELSE nthChildPath(doc, e)

\* The browser's querySelectorAll, in the tree that e is in.
Parses(selector) == \A i \in DOMAIN selector : selector[i].id \notin Unparsable
Fits(doc, k, s) ==
  /\ s.tag \in {Whatever, doc[k].tag} /\ s.id \in {Whatever, doc[k].id} /\ s.source \in {Whatever, doc[k].source}
  /\ s.classes \subseteq doc[k].classes
  /\ s.nth \in {Null, PlaceAmong(Siblings(doc, k), k)}
querySelectorAll(doc, e, selector) ==
  LET Found(k) ==
        LET path == PathTo(doc, k)
            above == Len(path) - Len(selector)
        IN  above >= 0 /\ \A i \in DOMAIN selector : Fits(doc, path[above + i], selector[i])
  IN  SetToSortSeq({k \in DOMAIN doc : Root(doc, k) = Root(doc, e) /\ Found(k)}, <)

(* interaction-selection-capture.ts *)

\* From the body, or the top of a shadow tree, down; every sibling counts.
structuralSelector(doc, e) ==
  LET path == PathTo(doc, e)
      from == IF Root(doc, e) # Null \/ Len(path) = 1 THEN 1 ELSE 2
  IN  [i \in 1..(Len(path) - from + 1) |->
         LET k == path[from + i - 1] IN
         [Segment EXCEPT !.tag = doc[k].tag, !.nth = IF k \in {1, 2} THEN Null ELSE PlaceAmong(Siblings(doc, k), k)]]

\* The generated selector if it finds the element, else the structural one; Refused if neither does.
selectorOccurrence(doc, e, preferred) ==
  LET fallback == structuralSelector(doc, e)
      Occurs(s) == Parses(s) /\ e \in Range(querySelectorAll(doc, e, s))
      Occurrence(s) == [selector |-> s, occurrence |-> PlaceAmong(Range(querySelectorAll(doc, e, s)), e) - 1]
  IN  IF Occurs(preferred) THEN Occurrence(preferred) ELSE IF Occurs(fallback) THEN Occurrence(fallback) ELSE Refused
snapshotOf(doc, e) == [element |-> e, at |-> selectorOccurrence(doc, e, generateStableSelector(doc, e))]
Composed(doc, e) ==
  LET up[k \in DOMAIN doc] ==
        LET above == IF doc[k].parent # Null THEN doc[k].parent ELSE doc[k].host
        IN  IF above = Null THEN <<k>> ELSE <<k>> \o up[above]
  IN  up[e]
captureSelectionContext(doc, e) ==
  IF doc[e].parent = Null THEN [ok |-> FALSE]
  ELSE LET children == getChildren(doc, doc[e].parent)
           taken == [target |-> snapshotOf(doc, e), parent |-> snapshotOf(doc, doc[e].parent),
                     directChildren |-> [i \in DOMAIN children |-> snapshotOf(doc, children[i])]]
       IN  IF Refused \in {taken.target.at, taken.parent.at} \cup {s.at : s \in Range(taken.directChildren)} THEN [ok |-> FALSE]
           ELSE [ok |-> TRUE, ancestorChain |-> Composed(doc, doc[e].parent)] @@ taken

(* inspector-core: the summary of a selection *)

computeSourceConfidence(n) ==
  IF n.source # Missing \/ n.id # Missing \/ n.classes \ Volatile # {} \/ n.role # Missing THEN "medium" ELSE "low"

BREADCRUMB_MAX_DEPTH == 3  \* 10 in the code
buildBreadcrumb(doc, e) ==
  LET path == PathTo(doc, e)
      from == Max({1, Len(path) - BREADCRUMB_MAX_DEPTH + 1})
  IN  [i \in 1..(Len(path) - from + 1) |-> path[from + i - 1]]

buildAttributes(n) ==
  {a \in DOMAIN n.attributes :
     /\ a \notin {"style", "onclick", "data-vc-source"}
     /\ ~(a = "value" /\ n.tag = "input" /\ n.type \in {"password", "hidden"})
     /\ ~looksLikeSecret(n.attributes[a])}

\* The index is that of the element among the children of its parent, from 0.
buildSiblingSummary(doc, e) ==
  LET parent == doc[e].parent
      siblings == IF parent = Null THEN <<e>> ELSE getChildren(doc, parent)
  IN  [count |-> Len(siblings), index |-> (CHOOSE i \in DOMAIN siblings : siblings[i] = e) - 1, parent |-> parent,
       parentSelector |-> IF parent = Null THEN <<>> ELSE generateStableSelector(doc, parent)]

inferParentLayoutMode(display) ==
  CASE display \in {"flex", "grid"} -> display
    [] display \in {"inline", "inline-block", "inline-flex", "inline-grid"} -> "inline"
    [] display \in {"block", "none", ""} -> "block"
    [] OTHER -> "unknown"

inferRoleFromTag ==
  "button" :> "button" @@ "a" :> "link" @@ "input" :> "textbox" @@ "nav" :> "navigation" @@ "ul" :> "list" @@ "li" :> "listitem"
buildSemanticSummary(doc, e) ==
  LET n == doc[e]
      labels == {k \in DOMAIN doc : Root(doc, k) = Null /\ doc[k].id = n.labelledby}
  IN  [role |-> IF n.role # Missing THEN n.role ELSE IF n.tag \in DOMAIN inferRoleFromTag THEN inferRoleFromTag[n.tag] ELSE Missing,
       namedBy |-> IF n.label # Missing THEN e ELSE IF n.labelledby = Missing \/ labels = {} THEN Null ELSE Min(labels)]

\* A bare selector, unlike that of the capture: no occurrence goes with it.
notifySelection(doc, e) ==
  [selector |-> generateStableSelector(doc, e), confidence |-> computeSourceConfidence(doc[e]),
   breadcrumb |-> buildBreadcrumb(doc, e), attributes |-> buildAttributes(doc[e]), siblings |-> buildSiblingSummary(doc, e),
   semantic |-> buildSemanticSummary(doc, e),
   parentMode |-> IF doc[e].parent = Null THEN "unknown" ELSE inferParentLayoutMode(doc[doc[e].parent].display)]

------------------------------------------------------------------------------
(* grid-placement-controller.ts, along one axis: a container has its box and *)
(* the edges before its content, its tracks and their gap; a child's lines   *)
(* are <<"auto", 0>>, <<"line", n>> or <<"span", n>>.                        *)

accumulateLines(origin, tracks, gap) ==
  LET End(k) == origin + FoldLeft(+, 0, SubSeq(tracks, 1, k)) + (IF k > 0 THEN (k - 1) * gap ELSE 0)
  IN  [k \in 1..(Len(tracks) + 1) |-> End(k - 1)]
computeGridTracks(container) == accumulateLines(container.at + container.padding + container.border, container.tracks, container.gap)

parseGridLine(value) == IF value[1] = "line" THEN value[2] ELSE Null
parseGridLineEnd(value, start) == IF value[1] = "span" /\ start # Null THEN start + value[2] ELSE parseGridLine(value)
buildChildInput(child) ==
  LET start == parseGridLine(child.start)
  IN  [from |-> child.from, to |-> child.to, start |-> start, end |-> parseGridLineEnd(child.end, start)]

\* No placement for a container that lays out no grid, or whose tracks are not resolved to lengths.
onGridSelection(container, child) ==
  IF container.display # "grid" \/ container.tracks = <<>> THEN Refused
  ELSE LET lines == computeGridTracks(container)
           placement == inferGridCells(lines, buildChildInput(child))
       IN  [placement |-> placement, spanCandidates |-> generateGridSpanCandidates(placement, lines)]

------------------------------------------------------------------------------
(* Properties *)

\* The capture before a gesture succeeds for every element that has a parent element, and each reference that
\* it takes names its element, whatever the identifiers and classes of the page: the selector's occurrence
\* is that element and no other.  Its chain of ancestors leads through shadow hosts to the document.
CaptureNamesTheElement ==
  asked.about = "element" =>
    \A doc \in {asked.x.doc} : \A c \in {captureSelectionContext(doc, asked.x.at)} :
        /\ c.ok = (doc[asked.x.at].parent # Null)
        /\ c.ok =>
             /\ \A s \in {c.target, c.parent} \cup Range(c.directChildren) :
                  /\ Parses(s.at.selector)
                  /\ querySelectorAll(doc, s.element, s.at.selector)[s.at.occurrence + 1] = s.element
             /\ c.ancestorChain[Len(c.ancestorChain)] = 1
             /\ Cardinality({i \in DOMAIN c.directChildren : c.directChildren[i].element = asked.x.at}) = 1

\* The bare selector of a selection finds the element where it can be parsed: always by a marker, an identifier or
\* a class; by a path where no element of another tag comes before one of the path, and then it finds nothing else
\* if the path starts at html. It is of low confidence exactly where it is such a path and no role tells more.
SelectorFindsTheElement ==
  asked.about = "element" =>
    LET doc == asked.x.doc
        e == asked.x.at
        n == notifySelection(doc, e)
        last == n.selector[Len(n.selector)]
        positional == last.source = Whatever /\ last.id = Whatever /\ last.classes = {}
        found == querySelectorAll(doc, e, n.selector)
        alike == \A k \in Range(PathTo(doc, e)) : \A j \in Siblings(doc, k) : j < k => doc[j].tag = doc[k].tag
    IN  /\ (n.confidence = "low") = (positional /\ doc[e].role = Missing)
        /\ (positional => alike) => e \in Range(found)
        /\ positional /\ alike /\ Root(doc, e) = Null =>
             Cardinality(Range(found)) = 1 \/ \E k \in Range(PathTo(doc, e)) : doc[k].id # Missing

\* What the panel shows around the element is around it: the path ends at the element, each item is the parent of
\* the next, and the index is the one under which a deleted element is put back among its siblings.
SummaryIsOfTheElement ==
  asked.about = "element" =>
    LET doc == asked.x.doc
        e == asked.x.at
        n == notifySelection(doc, e)
        path == n.breadcrumb
    IN  /\ path[Len(path)] = e /\ \A i \in 2..Len(path) : doc[path[i]].parent = path[i - 1]
        /\ Len(path) < BREADCRUMB_MAX_DEPTH => doc[path[1]].parent = Null
        /\ n.siblings.parent # Null =>
             /\ getChildren(doc, n.siblings.parent)[n.siblings.index + 1] = e
             /\ n.siblings.index < n.siblings.count
        /\ n.attributes \cap {"onclick", "style"} = {}
        /\ \A a \in n.attributes : doc[e].attributes[a] # "random"
        /\ n.semantic.namedBy \notin {Null, e} => doc[n.semantic.namedBy].id = doc[e].labelledby

\* The cell that is shown for a child of a grid, by its style or by its box, is the cell that it is laid out in,
\* where its lines count from the start and an end line comes with a start line.
GridCellIsFound ==
  asked.about = "grid cell" =>
    LET shown == onGridSelection(asked.x.container, asked.x.child) IN
    IF shown = Refused THEN asked.x.container.display # "grid" \/ asked.x.container.tracks = <<>>
    ELSE shown.placement = [start |-> asked.x.first, end |-> asked.x.last + 1]

SelectionIsDescribed ==
  CaptureNamesTheElement /\ SelectorFindsTheElement /\ SummaryIsOfTheElement /\ GridCellIsFound
==============================================================================
