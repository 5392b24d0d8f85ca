------------------------------ MODULE MoveDrag ------------------------------
(***************************************************************************)
(* The Move mode's drag: the controller's gesture with the browser's       *)
(* capture, the ghost, the feedback and the scroll frame it owns, over a   *)
(* page that the application changes meanwhile; and the move operation it  *)
(* previews and records on release.  Where the pointer is on the page is   *)
(* the choice of a resolution (MoveDecisions has the function itself).     *)
(***************************************************************************)
EXTENDS SequencesExt

CONSTANTS
  Boxes,     \* elements of the page that can be moved
  Parents,   \* their containers
  Fingers,   \* pointer ids
  MaxMoves   \* bound: moves recorded in a behaviour

ASSUME BoxAssumption == IsFiniteSet(Boxes)

VARIABLES
  kids,      \* the page: the children of each parent, in order
  gesture,   \* the controller's gesture
  captured,  \* the browser's captures: element and pointer
  shows,     \* ghost, feedback and the scroll frame asked for
  chosen,    \* the overlay's selection, {} or one element
  listens,   \* attached
  suppress,  \* suppressClick
  moved      \* history: the operations recorded

dragVars == <<kids, gesture, captured, shows, chosen, listens, suppress, moved>>

None == [kind |-> "none"]
Armed(f, e) == [kind |-> "armed", finger |-> f, selected |-> e]
Dragging(f, e, p, i) ==
  [kind |-> "dragging", finger |-> f, selected |-> e, parent |-> p, index |-> i]
Nothing == [ghost |-> FALSE, feedback |-> "none", frame |-> FALSE]

ParentOf(e) == {p \in Parents : e \in ToSet(kids[p])}
IndexIn(p, e) == CHOOSE i \in DOMAIN kids[p] : kids[p][i] = e

\* An element has one place in the page.
Gone(s, e) == IF e \in ToSet(s) THEN RemoveAt(s, CHOOSE i \in DOMAIN s : s[i] = e) ELSE s
Without(page, e) == [p \in DOMAIN page |-> Gone(page[p], e)]
Placed(page, e, p, i) == [Without(page, e) EXCEPT ![p] = InsertAt(@, i, e)]

\* What is under the pointer: nothing, a target that takes no drop, or a place that is
\* shown as valid and that the move's own evaluation may still refuse.
Resolutions(e) ==
  {[kind |-> "none"], [kind |-> "invalid"]}
  \cup UNION {[kind : {"valid"}, parent : {p}, index : 1..Len(Without(kids, e)[p]) + 1,
               taken : BOOLEAN] : p \in Parents}

DragInit ==
  /\ kids \in [Parents -> SeqOf(Boxes, Cardinality(Boxes))]
  /\ \A e \in Boxes : \E p \in Parents, i \in 1..Cardinality(Boxes) :
       i \in DOMAIN kids[p] /\ kids[p][i] = e
  /\ \A p, q \in Parents : \A i \in DOMAIN kids[p], j \in DOMAIN kids[q] :
       kids[p][i] = kids[q][j] => <<p, i>> = <<q, j>>
  /\ gesture = None /\ captured = {} /\ shows = Nothing /\ chosen = {}
  /\ listens = FALSE /\ suppress = FALSE /\ moved = <<>>

------------------------------------------------------------------------------
(* What the handlers are made of.                                          *)

Page == <<kids, moved>>
Outside == <<chosen, listens>>

\* Mutant: a gesture that ends keeps the pointer.
clear_KeepsCapture ==
  /\ gesture' = None /\ shows' = Nothing /\ suppress' = FALSE
  /\ captured' = captured

\* The one place where a gesture ends.
clear ==
  /\ gesture' = None /\ shows' = Nothing /\ suppress' = FALSE
  /\ captured' = IF gesture.kind = "dragging"
                 THEN captured \ {<<gesture.selected, gesture.finger>>} ELSE captured

cancel == clear /\ UNCHANGED Page

\* The element is where it was when the drag began.
sourceRemains ==
  /\ gesture.parent \in ParentOf(gesture.selected)
  /\ IndexIn(gesture.parent, gesture.selected) = gesture.index

\* The ghost follows the pointer, the feedback says what is under it, a frame is asked for.
update(r) == shows' = [ghost |-> TRUE, feedback |-> r.kind, frame |-> TRUE]

\* The drag begins: the element's parent and index are taken, its pointer captured.
beginActive(f, e, p) ==
  /\ gesture' = Dragging(f, e, p, IndexIn(p, e))
  /\ captured' = captured \cup {<<e, f>>}

------------------------------------------------------------------------------
(* The handlers of the document.                                           *)

onPointerDown(f, e) ==
  /\ listens /\ gesture = None /\ e \in chosen /\ ParentOf(e) # {}
  /\ gesture' = Armed(f, e) /\ suppress' = TRUE
  /\ UNCHANGED <<captured, shows>> /\ UNCHANGED Page /\ UNCHANGED Outside

\* The pointer has gone four pixels from where it came down.  A context that cannot be
\* measured, or a capture the browser refuses, forgets the gesture.
DragBegins(f) ==
  /\ gesture.kind = "armed" /\ gesture.finger = f
  /\ \/ /\ gesture' = None /\ UNCHANGED <<captured, shows>>
     \/ \E p \in ParentOf(gesture.selected), r \in Resolutions(gesture.selected) :
          beginActive(f, gesture.selected, p) /\ update(r)
  /\ UNCHANGED suppress /\ UNCHANGED Page /\ UNCHANGED Outside

Tracks ==
  \/ ~sourceRemains /\ cancel
  \/ /\ sourceRemains
     /\ \E r \in Resolutions(gesture.selected) : update(r)
     /\ UNCHANGED <<gesture, captured, suppress>> /\ UNCHANGED Page

onPointerMove(f) ==
  /\ gesture.kind = "dragging" /\ gesture.finger = f
  /\ Tracks /\ UNCHANGED Outside

\* A frame that could scroll something looks again at what is under the pointer, and
\* asks for the next; one that could not is the last.
ScrollFrame ==
  /\ shows.frame /\ gesture.kind = "dragging"
  /\ \/ Tracks
     \/ shows' = [shows EXCEPT !.frame = FALSE] /\ UNCHANGED <<gesture, captured, suppress>> /\ UNCHANGED Page
  /\ UNCHANGED Outside

\* endMove: no operation for a place that is refused or is where the element is.
Operation(r) ==
  IF r.kind # "valid" \/ (r.kind = "valid" /\ ~r.taken)
     \/ (r.kind = "valid" /\ r.parent = gesture.parent /\ r.index = gesture.index)
  THEN <<>>
  ELSE <<[element |-> gesture.selected, from |-> gesture.parent, fromIndex |-> gesture.index,
          to |-> r.parent, index |-> r.index]>>

\* Mutant: a record that throws leaves the preview on the page.
Drop_NoRollback(op, recorded) ==
  /\ kids' = Placed(kids, op.element, op.to, op.index)
  /\ moved' = IF recorded THEN Append(moved, op) ELSE moved

\* The operation is previewed, then recorded; when either throws the page is as before.
Drop(op, recorded) ==
  /\ kids' = IF recorded THEN Placed(kids, op.element, op.to, op.index) ELSE kids
  /\ moved' = IF recorded THEN Append(moved, op) ELSE moved

\* The browser releases the pointer after the event.
Release(f) == captured' = {c \in captured : c[2] # f}

Ends == gesture' = None /\ shows' = Nothing /\ suppress' = FALSE

onPointerUp(f) ==
  /\ gesture # None /\ gesture.finger = f
  /\ Ends /\ Release(f) /\ UNCHANGED Outside
  /\ \/ gesture.kind = "armed" /\ UNCHANGED Page
     \/ gesture.kind = "dragging" /\ ~sourceRemains /\ UNCHANGED Page
     \/ /\ gesture.kind = "dragging" /\ sourceRemains
        /\ \E r \in Resolutions(gesture.selected), recorded \in BOOLEAN :
             IF Operation(r) = <<>> THEN UNCHANGED Page
             ELSE Len(moved) < MaxMoves /\ Drop(Operation(r)[1], recorded)

onPointerCancel(f) ==
  /\ gesture # None /\ gesture.finger = f
  /\ Ends /\ Release(f) /\ UNCHANGED Page /\ UNCHANGED Outside

\* The browser has taken the capture away.
onLostPointerCapture(f) ==
  /\ gesture.kind = "dragging" /\ gesture.finger = f
  /\ Ends /\ Release(f) /\ UNCHANGED Page /\ UNCHANGED Outside

\* Escape, and the window losing focus.
onKeyDownOrBlur == listens /\ gesture # None /\ cancel /\ UNCHANGED Outside

onClick ==
  /\ listens /\ suppress /\ suppress' = FALSE
  /\ UNCHANGED <<gesture, captured, shows>> /\ UNCHANGED Page /\ UNCHANGED Outside

------------------------------------------------------------------------------
(* What the overlay and the application do to the controller.              *)

setSelection(s) == chosen' = s /\ cancel /\ UNCHANGED listens

attach == ~listens /\ listens' = TRUE /\ UNCHANGED <<gesture, captured, shows, chosen, suppress>> /\ UNCHANGED Page

detach == listens /\ listens' = FALSE /\ cancel /\ UNCHANGED chosen

\* The application removes an element (its capture ends and is told as lost later) or
\* puts one where it likes.
PageChanges(e) ==
  /\ \/ kids' = Without(kids, e) /\ kids' # kids
     \/ \E p \in Parents : \E i \in 1..Len(Without(kids, e)[p]) + 1 :
          kids' = Placed(kids, e, p, i) /\ kids' # kids
  /\ UNCHANGED <<gesture, captured, shows, suppress, moved>> /\ UNCHANGED Outside

DragNext ==
  \/ \E f \in Fingers :
       \/ DragBegins(f) \/ onPointerMove(f) \/ onPointerUp(f) \/ onPointerCancel(f)
       \/ onLostPointerCapture(f)
       \/ \E e \in Boxes : onPointerDown(f, e)
  \/ ScrollFrame \/ onKeyDownOrBlur \/ onClick \/ attach \/ detach
  \/ setSelection({}) \/ \E e \in Boxes : setSelection({e}) \/ PageChanges(e)

------------------------------------------------------------------------------
(* Properties.                                                             *)

\* Whatever ends a drag, in whatever order the browser's events, the scroll frames and
\* the application's changes come, leaves no ghost, no feedback, no frame and no
\* captured pointer behind.
NothingOutlivesTheGesture ==
  /\ gesture.kind # "dragging" => shows = Nothing /\ captured = {}
  /\ gesture.kind = "dragging" => captured \subseteq {<<gesture.selected, gesture.finger>>}

\* The controller changes the page only by what it records, and what it records names
\* the place the element really left: an undo of the entry can put it back, though the
\* application moved things while it was dragged.
RecordedIsDone ==
  [][/\ kids' # kids /\ moved' = moved => gesture' = gesture
     /\ moved' # moved =>
          LET op == Last(moved') IN
          /\ kids[op.from][op.fromIndex] = op.element
          /\ kids' = Placed(kids, op.element, op.to, op.index)
          /\ Placed(kids', op.element, op.from, op.fromIndex) = kids]_dragVars
==============================================================================
