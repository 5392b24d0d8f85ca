------------------------- MODULE InteractionMachine -------------------------
(***************************************************************************)
(* The interaction state machine (packages/interaction-machine): one       *)
(* value, the context carried along, and the effects a browser layer       *)
(* interprets.  Events the code rejects leave the state as it is and have  *)
(* no action here.  Each applied event is an action; what its effects      *)
(* begin and end is kept in `begun`, and in `left` what was begun when the *)
(* connection went: no effect ends it.                                     *)
(***************************************************************************)
EXTENDS Naturals

CONSTANTS
  Elements,   \* what an ElementRef names
  Pointers,   \* pointer ids
  Nobody      \* null: no element, no pointer

ASSUME MachineAssumption == Nobody \notin Elements /\ Nobody \notin Pointers

VARIABLES
  machine,  \* the machine's state: value and context
  begun,    \* history: what effects have begun since the last reconnect and not yet ended
  left      \* history: what lost connections left begun in the page

machineVars == <<machine, begun, left>>

Previews == {"reorder", "reparent", "free-position"}
PreviewStates == {"reorder-preview", "reparent-preview", "free-position-preview"}
previewLeafOf(kind) ==
  CASE kind = "reorder" -> "reorder-preview"
    [] kind = "reparent" -> "reparent-preview"
    [] kind = "free-position" -> "free-position-preview"
DraggingStates == {"dragging"} \cup PreviewStates
PointerOwningStates == {"preparing-drag", "resizing", "marquee-selecting"} \cup DraggingStates
SelectedStates ==
  {"selected", "editing-style", "editing-text", "awaiting-commit"} \cup PointerOwningStates
InteractionStates == {"idle", "hovering", "verifying", "disconnected"} \cup SelectedStates

NoOwner == [pointer |-> Nobody, kind |-> "none"]
Owners == [pointer : Pointers, kind : {"drag", "resize"}] \cup {NoOwner}

InitialMachine ==
  [value |-> "idle", selection |-> Nobody, pending |-> Nobody, owner |-> NoOwner,
   target |-> Nobody, resizing |-> FALSE, preview |-> "none"]

MachineInit == machine = InitialMachine /\ begun = {} /\ left = {}

------------------------------------------------------------------------------

At(values) == machine.value \in values

\* The machine becomes m; the effects end the things of `ended` and begin those of `started`.
Becomes(m, ended, started) ==
  /\ machine' = m
  /\ begun' = (begun \ ended) \cup started
  /\ UNCHANGED left

Goes(value, ended, started) == Becomes([machine EXCEPT !.value = value], ended, started)

\* Invariant 5 of the PRD: every runtime id goes, from whatever state; the page
\* they were of is gone, and what was begun in it.
PageReload ==
  /\ machine' = [InitialMachine EXCEPT !.value = "disconnected"]
  /\ begun' = {} /\ left' = {}

Disconnect == machine.value # "disconnected" /\ Goes("disconnected", {}, {})

\* The machine starts afresh in a page that stayed: no effect ends what was going on.
Reconnect ==
  /\ At({"disconnected"})
  /\ machine' = InitialMachine
  /\ begun' = {} /\ left' = left \cup begun

\* A gesture that owns the pointer is over: back to rest, with the pointer free.
endGesture(kind, ended) ==
  Becomes([machine EXCEPT !.value = "selected", !.owner = NoOwner,
             !.target = IF kind = "drag" THEN Nobody ELSE @,
             !.preview = IF kind = "drag" THEN "none" ELSE @,
             !.resizing = IF kind = "drag" THEN @ ELSE FALSE], ended, {})

\* Invariant 4 of the PRD: a navigation of the frame ends what is under way.
cancelActiveGesture ==
  \/ At(PreviewStates) /\ endGesture("drag", {"preview", "drag"})
  \/ At({"dragging", "preparing-drag"}) /\ endGesture("drag", {"drag"})
  \/ At({"resizing"}) /\ endGesture("resize", {"resize"})
  \/ At({"marquee-selecting"}) /\ endGesture("drag", {"marquee"})

------------------------------------------------------------------------------
(* idle, hovering, verifying.                                              *)

fromIdle(e) ==
  /\ At({"idle"})
  /\ \/ Goes("hovering", {}, {})
     \/ Becomes([machine EXCEPT !.value = "awaiting-commit", !.pending = e], {}, {"outline"})

fromHovering(e) ==
  /\ At({"hovering"})
  /\ \/ Goes("idle", {}, {})
     \/ Becomes([machine EXCEPT !.value = "awaiting-commit", !.pending = e], {}, {"outline"})

fromVerifying == At({"verifying"}) /\ Goes("selected", {"verify"}, {})

------------------------------------------------------------------------------
(* The selected subtree.                                                   *)

\* The pointer is claimed, unless somebody owns it.
Acquire(p, kind, m, started) ==
  /\ machine.owner = NoOwner
  /\ Becomes([m EXCEPT !.owner = [pointer |-> p, kind |-> kind]], {}, {started})

startDrag(p, e) ==
  Acquire(p, "drag", [machine EXCEPT !.value = "preparing-drag", !.target = e], "drag")

startResize(p) ==
  Acquire(p, "resize", [machine EXCEPT !.value = "resizing", !.resizing = TRUE], "resize")

startMarquee(p) == Acquire(p, "drag", [machine EXCEPT !.value = "marquee-selecting"], "marquee")

fromSelectedRest(e, p) ==
  /\ At({"selected"})
  /\ \/ Becomes([machine EXCEPT !.value = "awaiting-commit", !.selection = e, !.pending = Nobody],
                {"inspector"}, {"outline"})
     \/ startDrag(p, e)
     \/ startResize(p)
     \/ startMarquee(p)
     \/ \E v \in {"editing-text", "editing-style"} : Goes(v, {}, {})
     \/ Goes("verifying", {}, {"verify"})
     \/ Becomes([machine EXCEPT !.value = "idle", !.selection = Nobody, !.pending = Nobody],
                {"inspector", "outline"}, {})

fromAwaitingCommit(e) ==
  /\ At({"awaiting-commit"})
  /\ \/ /\ machine.pending # Nobody
        /\ Becomes([machine EXCEPT !.value = "selected", !.selection = machine.pending,
                      !.pending = Nobody], {}, {"inspector"})
     \/ Becomes([machine EXCEPT !.pending = e], {}, {"outline"})
     \/ Becomes([machine EXCEPT !.value = "idle", !.selection = Nobody, !.pending = Nobody],
                {"outline"}, {})

fromPreparingDrag ==
  /\ At({"preparing-drag"})
  /\ Goes("dragging", {}, {}) \/ endGesture("drag", {"drag"})

fromDragging ==
  /\ At({"dragging"})
  /\ \/ \E k \in Previews :
          Becomes([machine EXCEPT !.value = previewLeafOf(k), !.preview = k], {}, {"preview"})
     \/ endGesture("drag", {"drag"})

\* A drop and a commit keep the preview, escape rolls it back: each of them ends it.
fromPreview ==
  /\ At(PreviewStates)
  /\ \/ endGesture("drag", {"preview", "drag"})
     \/ Becomes([machine EXCEPT !.value = "dragging", !.preview = "none"], {"preview"}, {})

fromResizing == At({"resizing"}) /\ endGesture("resize", {"resize"})

fromEditing == At({"editing-text", "editing-style"}) /\ Goes("selected", {}, {})

fromMarqueeSelecting == At({"marquee-selecting"}) /\ endGesture("drag", {"marquee"})

MachineNext ==
  \/ PageReload \/ Disconnect \/ Reconnect \/ cancelActiveGesture
  \/ fromVerifying \/ fromPreparingDrag \/ fromDragging \/ fromPreview \/ fromResizing
  \/ fromEditing \/ fromMarqueeSelecting
  \/ \E e \in Elements : fromIdle(e) \/ fromHovering(e) \/ fromAwaitingCommit(e)
  \/ \E e \in Elements, p \in Pointers : fromSelectedRest(e, p)

------------------------------------------------------------------------------
(* Properties.                                                             *)

MachineTypeOK ==
  /\ machine \in [value : InteractionStates, selection : Elements \cup {Nobody},
                  pending : Elements \cup {Nobody}, owner : Owners,
                  target : Elements \cup {Nobody}, resizing : BOOLEAN,
                  preview : Previews \cup {"none"}]
  /\ begun \cup left \subseteq {"outline", "drag", "resize", "marquee", "preview", "verify", "inspector"}

\* What the browser layer has been told to begin since the last reconnect and not to
\* end is what the value says is going on, and the context names its pointer and its
\* target: whatever cancels a gesture while the machine is connected leaves nothing
\* running and the pointer free. Of a gesture that a lost connection interrupted it
\* says nothing: it gets no end effect, then or on reconnect, and stays in `left`.
GesturesAreBalanced ==
  /\ MachineTypeOK
  /\ At(InteractionStates \ {"disconnected"}) =>
       /\ "drag" \in begun <=> At(DraggingStates \cup {"preparing-drag"})
       /\ "resize" \in begun <=> At({"resizing"})
       /\ "marquee" \in begun <=> At({"marquee-selecting"})
       /\ "preview" \in begun <=> At(PreviewStates)
       /\ "verify" \in begun <=> At({"verifying"})
       /\ machine.owner # NoOwner <=> At(PointerOwningStates)
       /\ machine.target # Nobody <=> "drag" \in begun
       /\ machine.preview # "none" <=> "preview" \in begun
       /\ machine.resizing <=> "resize" \in begun

\* machine.ts 61-62 (invariant 3 of the PRD): a preview transaction ends in a
\* commit or a rollback; it does not when the connection goes while it is open.
PreviewsEnd == "preview" \in begun \cup left => At(PreviewStates)
==============================================================================
