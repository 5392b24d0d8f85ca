-------------------------- MODULE PropertyInspector --------------------------
(***************************************************************************)
(* The editor that the content script draws beside the selected element:   *)
(* its inputs, the values it takes for the ones they replace, and the      *)
(* handle between the children of a container that is dragged to set the   *)
(* gap.  An edit is previewed on the page and sent to the panel at once.   *)
(* Values are numbers; Unread is one that the length inputs cannot show.   *)
(***************************************************************************)
EXTENDS Naturals, FiniteSets

CONSTANTS Nodes,      \* elements of the page
          Offers(_),  \* Offers(n): the inputs that element n gets
          Unshown     \* null

VARIABLES site,      \* [Nodes -> [Inputs -> values]]: what the page computes
          current,   \* the element the inspector is shown for, or Unshown
          boxes,     \* what the inputs hold
          previous,  \* previousValues, previousText and the seed of the auto layout
          drag,      \* the gap drag: the latest gap, or Unshown
          latestGap, \* the gap that a drag starts from
          held,      \* the element whose inline gap a drag has written, or Unshown
          sent,      \* the edits sent last: a set of [of, input, from, to]
          behind     \* inputs whose value something else has changed since they were read

inspectorVars == <<site, current, boxes, previous, drag, latestGap, held, sent, behind>>

Unread == 3
Lengths == 0..1
Sides == {"padding-top"}
Seeded == {"gap"} \cup Sides
Inputs == {"color", "length", "text", "class"} \cup Seeded
Empty == [i \in Inputs |-> 0]

ASSUME InspectorAssumption == Unshown \notin Nodes /\ Unshown \notin 0..Unread

Edit(n, i, from, to) == [of |-> n, input |-> i, from |-> from, to |-> to]

InspectorInit ==
  /\ site = [n \in Nodes |-> [i \in Inputs |-> IF i = "length" THEN Unread ELSE 1]]
  /\ current = Unshown /\ drag = Unshown /\ held = Unshown
  /\ boxes = Empty /\ previous = Empty /\ latestGap = 0 /\ sent = {} /\ behind = {}

------------------------------------------------------------------------------

\* What the input i shows for a computed value v.  A colour is made hexadecimal when it
\* is read and again when it is shown, which makes any colour black.
InputFor(i, v) ==
  CASE i = "color" -> 0
    [] i = "length" -> IF v = Unread THEN 0 ELSE v
    [] OTHER -> v

\* emit: each edit is applied to the page, then sent.
Emitted(edits) ==
  [n \in Nodes |-> [i \in Inputs |->
     IF \E e \in edits : e.of = n /\ e.input = i
     THEN (CHOOSE e \in edits : e.of = n /\ e.input = i).to ELSE site[n][i]]]
emit(edits) == site' = Emitted(edits) /\ sent' = IF edits = {} THEN sent ELSE edits

\* endDrag: whatever ends a drag commits the latest gap, over what the container had when
\* it was shown; the inline value goes.
DragEdits == IF drag = Unshown THEN {} ELSE {Edit(current, "gap", previous["gap"], drag)}

\* empty: the listeners go, and with them the gesture.  An element that is shown is read
\* after that.
Read(n) ==
  /\ previous' = site'[n]
  /\ boxes' = [i \in Inputs |-> InputFor(i, site'[n][i])]
  /\ latestGap' = site'[n]["gap"]

showFor(n) ==
  /\ emit(DragEdits) /\ drag' = Unshown /\ held' = Unshown
  /\ current' = n /\ behind' = {} /\ Read(n)

hide ==
  /\ current # Unshown
  /\ emit(DragEdits) /\ drag' = Unshown /\ held' = Unshown
  /\ current' = Unshown /\ behind' = {}
  /\ boxes' = Empty /\ previous' = Empty /\ latestGap' = 0

\* A change of an input is an edit, unless it leaves the value that was there before.
Changed(i, next) ==
  /\ current # Unshown /\ i \in Offers(current) /\ next # boxes[i]
  /\ boxes' = [boxes EXCEPT ![i] = next]
  /\ previous' = [previous EXCEPT ![i] = next]
  /\ emit(IF next = previous[i] THEN {} ELSE {Edit(current, i, previous[i], next)})
  /\ UNCHANGED <<current, drag, latestGap, held, behind>>

applyStyleChange(i, next) == i \in {"color", "length"} /\ Changed(i, next)
TextChange(next) == Changed("text", next)

\* A chip removes its class and the input adds one; the chips are then drawn anew.
ClassChange(present) ==
  /\ current # Unshown /\ "class" \in Offers(current)
  /\ emit({Edit(current, "class", Unread, present)})
  /\ boxes' = [boxes EXCEPT !["class"] = present] /\ previous' = [previous EXCEPT !["class"] = present]
  /\ behind' = behind \ {"class"}
  /\ UNCHANGED <<current, drag, latestGap, held>>

ClassRemove == boxes["class"] = 1 /\ ClassChange(0)
ClassAdd == ClassChange(1)

\* applyCommand, for what the inputs hold: the previous values stay those of the seed.
applyCommand(chosen, value) ==
  /\ current # Unshown /\ chosen \subseteq Offers(current)
  /\ boxes' = [i \in Inputs |-> IF i \in chosen THEN value ELSE boxes[i]]
  /\ emit({Edit(current, i, previous[i], value) : i \in chosen})
  /\ UNCHANGED <<current, previous, drag, latestGap, held, behind>>

\* Each Apply button: of the gap, and of the padding, as a whole or side by side.
GapApplies(value) == applyCommand({"gap"}, value)
PaddingApplies(sides, value) == sides # {} /\ applyCommand(sides, value)

GapDown ==
  /\ current # Unshown /\ "gap" \in Offers(current)
  /\ drag' = latestGap
  /\ UNCHANGED <<site, current, boxes, previous, latestGap, held, sent, behind>>

\* onPreview writes the gap inline and into the input.
GapMoves(gap) ==
  /\ drag # Unshown
  /\ drag' = gap /\ latestGap' = gap /\ held' = current
  /\ boxes' = [boxes EXCEPT !["gap"] = gap]
  /\ UNCHANGED <<site, current, previous, sent, behind>>

\* Released or cancelled alike.
GapUp ==
  /\ drag # Unshown
  /\ emit(DragEdits) /\ drag' = Unshown /\ held' = Unshown
  /\ boxes' = [boxes EXCEPT !["gap"] = drag]
  /\ UNCHANGED <<current, previous, latestGap, behind>>

\* The application, an undo or another editor.
SomethingElse(n, i, v) ==
  /\ site[n][i] # v
  /\ site' = [site EXCEPT ![n][i] = v]
  /\ behind' = IF n = current THEN behind \cup {i} ELSE behind
  /\ UNCHANGED <<current, boxes, previous, drag, latestGap, held, sent>>

InspectorNext ==
  \/ \E n \in Nodes : showFor(n)
  \/ hide
  \/ \E next \in Lengths : TextChange(next) \/ \E i \in Inputs : applyStyleChange(i, next)
  \/ ClassAdd \/ ClassRemove
  \/ \E value \in Lengths : GapApplies(value) \/ \E sides \in SUBSET Sides : PaddingApplies(sides, value)
  \/ GapDown
  \/ \E gap \in Lengths : GapMoves(gap)
  \/ GapUp
  \/ \E n \in Nodes, v \in 0..1 : \E i \in Offers(n) \cap {"length", "class"} : SomethingElse(n, i, v)

------------------------------------------------------------------------------

\* PropertyInspector: what the inspector takes for the value that an edit replaces is what
\* the page shows for the element, and the chips are its classes, as long as nothing else
\* changes it (the auto layout inputs are left out: their previous values stay those of the
\* moment the element was shown); and a gap that is written inline is of the container
\* whose handle is being dragged.
PreviousIsOnThePage ==
  /\ current # Unshown =>
       \A i \in Inputs \ (Seeded \cup behind) :
         previous[i] = site[current][i] /\ (i = "class" => boxes[i] = site[current][i])
  /\ held # Unshown => current = held /\ drag # Unshown

\* An edit is of the element that was shown when it was made, and it changes something
\* unless it comes from the auto layout inputs or the classes.
EditsAreOfTheShown ==
  [][\A e \in sent' \ sent : /\ e.of = current
                             /\ e.input \in Seeded \cup {"class"} \/ e.from # e.to]_inspectorVars
==============================================================================
