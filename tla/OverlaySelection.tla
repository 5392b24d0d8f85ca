-------------------------- MODULE OverlaySelection --------------------------
(***************************************************************************)
(* The selection of a page, from the overlay runtime and its inspector     *)
(* over the bus to the panel: revisions, origins that resolve later, the    *)
(* breakpoint's republished summaries, interaction modes, and documents    *)
(* that go and come while the panel stays.                                 *)
(***************************************************************************)
EXTENDS Naturals, Sequences

CONSTANTS
  Tags,          \* elements a document has
  Root,          \* one of them has no parent and cannot be captured
  NoTag,         \* null
  MaxRevision,   \* bound: revisions of a document
  MaxDocuments   \* bound: documents loaded in the tab

ASSUME TagAssumption == NoTag \notin Tags /\ NoTag \notin Nat \X Tags

VARIABLES
  page,    \* the content script's runtime, in the document that is loaded
  wire,    \* messages under way to the panel, in order
  panel,   \* the state of useSelectionSummary
  rekeyed, \* the panel has not yet seen that the page's address changed
  missed,  \* history: a document's last message was lost, and since its others came the
           \* panel has not been reset
  wiped    \* history: the panel was reset while it showed the selection

selectionVars == <<page, wire, panel, rekeyed, missed, wiped>>

Modes == {"Inspect", "Move", "Resize", "Text"}
Idle == [status |-> "idle"]

\* A document that has just been loaded: nothing attached, nothing selected.
Fresh(n) ==
  [document |-> n, inspector |-> "idle", selected |-> NoTag, hovered |-> NoTag,
   inspects |-> FALSE, moves |-> FALSE, handles |-> NoTag, local |-> NoTag, mode |-> "none",
   revision |-> 0, resolving |-> {}, summary |-> NoTag]

InitialSelection == [summary |-> NoTag, revision |-> 0, origin |-> Idle]

SelectionInit ==
  /\ page = Fresh(1) /\ wire = <<>> /\ panel = InitialSelection
  /\ rekeyed = FALSE /\ missed = FALSE /\ wiped = FALSE

\* A document and one of its elements: what a runtime id says.
Id(e) == <<page.document, e>>
Here == UNCHANGED <<panel, rekeyed, missed, wiped>>

------------------------------------------------------------------------------
(* selection-origin-controller.ts, with the breakpoint controller that      *)
(* sends its summaries.                                                     *)

\* What the runtime p sends when e is selected: the next revision, whose origins resolve later.
publishSummary(p, e) ==
  /\ page.revision < MaxRevision
  /\ page' = [p EXCEPT !.revision = page.revision + 1, !.summary = e,
                !.resolving = @ \cup {<<page.revision + 1, e>>}]
  /\ wire' = Append(wire, [kind |-> "summary", revision |-> page.revision + 1, of |-> Id(e)])

publishClear(p) ==
  /\ page.revision < MaxRevision
  /\ page' = [p EXCEPT !.revision = page.revision + 1, !.summary = NoTag]
  /\ wire' = Append(wire, [kind |-> "clear", revision |-> page.revision + 1])

\* The promise of a selection settles: published only if nothing was selected since.
OriginsResolve(r) ==
  /\ r \in page.resolving
  /\ page' = [page EXCEPT !.resolving = @ \ {r}]
  /\ wire' = IF r[1] = page.revision
             THEN Append(wire, [kind |-> "origins", revision |-> r[1], of |-> Id(r[2])]) ELSE wire
  /\ Here

\* The viewport crosses a breakpoint: the last summary again, under its revision.
republishResolvedBreakpoint ==
  /\ page.summary # NoTag
  /\ wire' = Append(wire, [kind |-> "summary", revision |-> page.revision, of |-> Id(page.summary)])
  /\ UNCHANGED page /\ Here

------------------------------------------------------------------------------
(* inspector.ts and overlay-runtime.ts                                      *)

\* inspector.select; what the runtime shows locally is its caller's matter.
Selected(e) == [page EXCEPT !.selected = e, !.hovered = NoTag, !.inspector = "selected"]

\* notifySelection: the context is captured for the controllers, or they get none.
Notified(p, e) ==
  LET context == IF e = Root THEN NoTag ELSE e
  IN  [p EXCEPT !.local = context, !.handles = context]

\* A click while inspecting, or the panel's select-element.
select(e) == publishSummary(Notified(Selected(e), e), e) /\ Here
onClickCapture(e) == page.inspects /\ select(e)

\* Arrow keys, Alt and Enter select without telling the controllers.
cycle(e) ==
  /\ page.inspects
  /\ page.selected # NoTag \/ page.hovered # NoTag
  /\ publishSummary(Selected(e), e) /\ Here

\* While something is selected, the hovered element is remembered and not drawn.
hover(e) ==
  /\ page.inspects
  /\ page' = [page EXCEPT !.hovered = e]
  /\ UNCHANGED wire /\ Here

\* inspector.deselect with the runtime's teardown of what is shown locally.
Deselected ==
  [page EXCEPT !.selected = NoTag, !.hovered = NoTag, !.local = NoTag, !.handles = NoTag,
     !.inspector = IF @ = "selected" THEN "inspect" ELSE @]

\* Escape; sync finding the selected element gone; a remove-element operation.
deselect == (page.inspects \/ page.selected # NoTag) /\ publishClear(Deselected) /\ Here

\* The listeners of the modes: Resize ends a move and keeps the handles, a mode with
\* neither ends both; leaving Inspect keeps the selection.
setInteractionMode(m) ==
  /\ page' = [page EXCEPT !.mode = m, !.inspects = m = "Inspect", !.moves = m = "Move",
                !.handles = IF m \in {"Move", "Resize"} THEN @ ELSE NoTag,
                !.inspector = IF m = "Inspect" THEN "inspect" ELSE IF @ = "inspect" THEN "idle" ELSE @]
  /\ UNCHANGED wire /\ Here

------------------------------------------------------------------------------
(* Documents come and go: dispose on pagehide says a last clear, which may  *)
(* be lost; the panel hears of another address some time later.             *)

Navigate(told, elsewhere) ==
  /\ page.document < MaxDocuments
  /\ page' = Fresh(page.document + 1)
  /\ wire' = IF told THEN Append(wire, [kind |-> "clear", revision |-> page.revision + 1]) ELSE wire
  /\ missed' = (missed \/ ~told)
  /\ rekeyed' = (rekeyed \/ elsewhere)
  /\ UNCHANGED <<panel, wiped>>

\* App.tsx: the page's key is another, the selection starts afresh.
resetSelection ==
  /\ rekeyed /\ rekeyed' = FALSE
  /\ panel' = InitialSelection
  /\ missed' = (missed /\ \E i \in DOMAIN wire :
                          wire[i].kind = "summary" /\ wire[i].of[1] # page.document)
  /\ wiped' = TRUE
  /\ UNCHANGED <<page, wire>>

------------------------------------------------------------------------------
(* useSelectionSummary: revision 0 stands for null.                         *)

Old(m) == panel.revision # 0 /\ m.revision < panel.revision

onSummary(m) ==
  panel' = IF Old(m) THEN panel
           ELSE IF m.revision = panel.revision
           THEN IF panel.origin.status # "idle" /\ panel.origin.of # m.of THEN panel
                ELSE [panel EXCEPT !.summary = m.of]
           ELSE [summary |-> m.of, revision |-> m.revision,
                 origin |-> [status |-> "pending", of |-> m.of]]

onClear(m) == panel' = IF Old(m) THEN panel ELSE InitialSelection

onOrigins(m) ==
  panel' = IF panel.revision # m.revision \/ panel.origin.status = "idle" THEN panel
           ELSE IF panel.origin.of # m.of THEN panel
           ELSE [panel EXCEPT !.origin = [status |-> "ready", of |-> m.of]]

Deliver ==
  /\ wire # <<>>
  /\ wire' = Tail(wire)
  /\ LET m == Head(wire) IN
     \/ m.kind = "summary" /\ onSummary(m) /\ wiped' = (wiped /\ panel'.revision # m.revision)
     \/ m.kind = "clear" /\ onClear(m) /\ UNCHANGED wiped
     \/ m.kind = "origins" /\ onOrigins(m) /\ UNCHANGED wiped
  /\ UNCHANGED <<page, rekeyed, missed>>

Room == Len(wire) < 3  \* bound: messages under way

SelectionNext ==
  \/ Deliver \/ resetSelection
  \/ /\ Room
     /\ \/ republishResolvedBreakpoint \/ deselect
        \/ \E r \in page.resolving : OriginsResolve(r)
        \/ \E e \in Tags : onClickCapture(e) \/ select(e) \/ cycle(e) \/ hover(e)
        \/ \E m \in Modes \cup {"none"} : setInteractionMode(m)
        \/ \E told, elsewhere \in BOOLEAN : Navigate(told, elsewhere)

------------------------------------------------------------------------------
(* Properties.                                                             *)

\* Once the messages under way have come, the panel shows what is selected in the
\* document that is loaded, and never the origins of something else: unless a
\* document's last clear was lost and no change of address has reset the panel.
PanelShowsTheSelection ==
  /\ panel.origin.status # "idle" => panel.origin.of = panel.summary
  /\ wire = <<>> /\ ~missed =>
       \/ panel.summary = NoTag /\ (page.selected = NoTag \/ wiped)
       \/ panel.summary = Id(page.selected)

\* What Move and Resize work on is gone when nothing is selected, the page listens for
\* one mode only, and the handles are of the element the controllers have.
NothingLocalIsLeft ==
  /\ page.selected = NoTag => page.local = NoTag /\ page.handles = NoTag
  /\ page.moves <=> page.mode = "Move"
  /\ page.inspects <=> page.mode = "Inspect"
  /\ page.handles \in {NoTag, page.local}
  /\ page.inspector = "selected" => page.selected # NoTag

SelectionIsShown == PanelShowsTheSelection /\ NothingLocalIsLeft
==============================================================================
