---------------------------- MODULE ResizeHandles ----------------------------
(***************************************************************************)
(* The handles around the selected element in the content script: the      *)
(* listeners on them, the two gestures a handle can start (of a single     *)
(* property and of a pair of flex items), what the overlay says of them,   *)
(* and the operations they record.  What a handle does is decided by       *)
(* ResizeDecisions; what the previews do to the page is PreviewLayer.      *)
(***************************************************************************)
EXTENDS Naturals, FiniteSets

CONSTANTS Contexts,      \* the selections that can be attached
          Handles,       \* positions of handles
          Touches,       \* pointers
          Route(_, _),   \* Route(c, h): not-flex, cross-axis, corner-disabled, rejected, pair
          NoOne          \* null

ASSUME NoOneAssumption == NoOne \notin Contexts

VARIABLES attached,  \* the context attached, or NoOne
          live,      \* listeners are on the handles
          single,    \* gesture of a single property: [touch, of], or NoOne
          pair,      \* gesture of a pair: [touch, of, phase, shown], or NoOne
          pairHandle,  \* handle that diagnostics of the pair are about, or NoOne
          restore,   \* shouldRestoreSelectionFeedback
          feedback,  \* [kind, handle]: what the overlay shows of flex pairs
          owed,      \* touches whose lostpointercapture the browser has yet to deliver
          recorded   \* context of the operation recorded last, or NoOne

resizeVars == <<attached, live, single, pair, pairHandle, restore, feedback, owed, recorded>>

Says(kind, handle) == [kind |-> kind, handle |-> handle]
Silent == Says("none", NoOne)
Refusing == {"corner-disabled", "rejected"}

ResizeTypeOK ==
  /\ attached \in Contexts \cup {NoOne} /\ live \in BOOLEAN /\ restore \in BOOLEAN
  /\ single \in [touch : Touches, of : Contexts] \cup {NoOne}
  /\ pair \in [touch : Touches, of : Contexts, phase : {"dragging", "validating"}, shown : BOOLEAN] \cup {NoOne}
  /\ pairHandle \in Handles \cup {NoOne} /\ owed \subseteq Touches
  /\ feedback \in [kind : {"none", "valid", "active", "blocked", "disabled-edge"}, handle : Handles \cup {NoOne}]
  /\ recorded \in Contexts \cup {NoOne}

ResizeInit ==
  /\ attached = NoOne /\ live = FALSE /\ single = NoOne /\ pair = NoOne /\ pairHandle = NoOne
  /\ restore = TRUE /\ feedback = Silent /\ owed = {} /\ recorded = NoOne

------------------------------------------------------------------------------

\* feedbackForFlexResizeSelection and feedbackForFlexResizeHandle.
OfSelection(c) ==
  LET Has(r) == \E h \in Handles : Route(c, h) = r
  IN  IF Has("pair") THEN Says("valid", NoOne)
      ELSE IF Has("rejected") THEN Says("blocked", NoOne)
      ELSE IF Has("corner-disabled") THEN Says("disabled-edge", NoOne) ELSE Silent
OfHandle(c, h) ==
  CASE Route(c, h) = "pair" -> Says("active", NoOne)
    [] Route(c, h) = "rejected" -> Says("blocked", h)
    [] Route(c, h) = "corner-disabled" -> Says("disabled-edge", h)
    [] OTHER -> Silent

\* A release of the capture is followed by an event of the browser.
Captured == (IF single = NoOne THEN {} ELSE {single.touch})
            \cup (IF pair # NoOne /\ pair.phase = "dragging" THEN {pair.touch} ELSE {})

\* Mutant: the gestures go on.
detachHandles_GesturesGoOn ==
  /\ live' = FALSE /\ feedback' = Silent /\ attached' = NoOne /\ pairHandle' = NoOne
  /\ UNCHANGED <<single, pair, owed, restore, recorded>>

\* Both gestures are cancelled, with their frames and previews.
detachHandles ==
  /\ single' = NoOne /\ pair' = NoOne /\ pairHandle' = NoOne /\ owed' = owed \cup Captured
  /\ live' = FALSE /\ feedback' = Silent /\ attached' = NoOne
  /\ UNCHANGED <<restore, recorded>>

\* A selection: what was attached is detached first.  No listeners without candidates.
attachHandles(c, supported) ==
  /\ single' = NoOne /\ pair' = NoOne /\ pairHandle' = NoOne /\ owed' = owed \cup Captured
  /\ attached' = c /\ live' = supported /\ feedback' = OfSelection(c)
  /\ UNCHANGED <<restore, recorded>>

\* A press: the single gesture and the pair gesture each take one touch at a time; a
\* touch that comes second is ignored, but what it would do is shown.
HandleDown(h, t, startable) ==
  LET route == Route(attached, h)
      one == route \in {"not-flex", "cross-axis"} /\ startable /\ single = NoOne
      two == route = "pair" /\ pair = NoOne
  IN  /\ live
      /\ single' = IF one THEN [touch |-> t, of |-> attached] ELSE single
      /\ pair' = IF two THEN [touch |-> t, of |-> attached, phase |-> "dragging", shown |-> FALSE] ELSE pair
      /\ pairHandle' = IF route = "pair" THEN h ELSE pairHandle
      /\ restore' = (route \notin Refusing)
      /\ feedback' = OfHandle(attached, h)
      /\ owed' = IF one \/ two THEN owed \ {t} ELSE owed
      /\ UNCHANGED <<attached, live, recorded>>

Restored(flag) == IF flag THEN OfSelection(attached) ELSE feedback

\* A frame of the pair gesture: its preview is replaced; a plan that is refused says so.
PairFrame(shown, refused) ==
  /\ pair # NoOne /\ pair.phase = "dragging" /\ (refused => ~shown)
  /\ pair' = [pair EXCEPT !.shown = shown]
  /\ restore' = (restore /\ ~refused)
  /\ feedback' = IF refused THEN Says("blocked", pairHandle) ELSE feedback
  /\ UNCHANGED <<attached, live, single, pairHandle, owed, recorded>>

\* The touch is lifted: a single gesture records, a pair gesture waits for the layout of
\* its last preview, or ends where it has none.
HandleUp(t, shown, refused) ==
  LET one == single # NoOne /\ single.touch = t
      two == pair # NoOne /\ pair.phase = "dragging" /\ pair.touch = t
      flag == restore /\ ~(two /\ refused)
  IN  /\ live /\ (refused => two /\ ~shown) /\ (shown => one \/ two)
      /\ single' = IF one THEN NoOne ELSE single
      /\ recorded' = IF one /\ shown THEN single.of ELSE recorded
      /\ pair' = IF ~two THEN pair ELSE IF shown THEN [pair EXCEPT !.phase = "validating", !.shown = TRUE] ELSE NoOne
      /\ owed' = IF one \/ two THEN owed \cup {t} ELSE owed
      /\ restore' = flag
      /\ feedback' = IF flag THEN OfSelection(attached)
                     ELSE IF two /\ refused THEN Says("blocked", pairHandle) ELSE feedback
      /\ UNCHANGED <<attached, live, pairHandle>>

\* pointercancel also ends a pair gesture that waits for its layout.
HandleCancel(t) ==
  /\ live
  /\ single' = IF single # NoOne /\ single.touch = t THEN NoOne ELSE single
  /\ pair' = IF pair # NoOne /\ pair.touch = t THEN NoOne ELSE pair
  /\ owed' = IF t \in Captured THEN owed \cup {t} ELSE owed
  /\ pairHandle' = NoOne /\ feedback' = Restored(restore)
  /\ UNCHANGED <<attached, live, restore, recorded>>

\* The capture is gone, on release or because the browser took it.
HandleLosesCapture(t) ==
  /\ t \in owed \cup Captured /\ owed' = owed \ {t}
  /\ IF live
     THEN /\ single' = IF single # NoOne /\ single.touch = t THEN NoOne ELSE single
          /\ pair' = IF pair # NoOne /\ pair.phase = "dragging" /\ pair.touch = t THEN NoOne ELSE pair
          /\ pairHandle' = NoOne /\ feedback' = Restored(restore)
     ELSE UNCHANGED <<single, pair, pairHandle, feedback>>
  /\ UNCHANGED <<attached, live, restore, recorded>>

\* The frame after the release: the layout is what was planned, or the preview is undone.
finishValidation(ok) ==
  /\ pair # NoOne /\ pair.phase = "validating"
  /\ pair' = NoOne
  /\ IF ok THEN recorded' = pair.of /\ pairHandle' = NoOne /\ UNCHANGED <<restore, feedback>>
     ELSE restore' = FALSE /\ feedback' = Says("blocked", pairHandle) /\ UNCHANGED <<recorded, pairHandle>>
  /\ UNCHANGED <<attached, live, single, owed>>

ResizeNext ==
  \/ attached # NoOne /\ detachHandles
  \/ \E c \in Contexts, supported \in BOOLEAN : attachHandles(c, supported)
  \/ \E h \in Handles, t \in Touches \ Captured, startable \in BOOLEAN : HandleDown(h, t, startable)
  \/ \E shown, refused \in BOOLEAN : PairFrame(shown, refused)
  \/ \E t \in Touches, shown, refused \in BOOLEAN : HandleUp(t, shown, refused)
  \/ \E t \in Touches : HandleCancel(t) \/ HandleLosesCapture(t)
  \/ \E ok \in BOOLEAN : finishValidation(ok)

------------------------------------------------------------------------------

\* ResizeController: with nothing attached there is no gesture, listener or feedback left;
\* gestures are of the element attached; a touch holds one gesture; and a refusal that is
\* shown for a handle is of the attached element.
HandlesAreOfTheSelection ==
  /\ ResizeTypeOK
  /\ attached = NoOne => ~live /\ single = NoOne /\ pair = NoOne /\ feedback = Silent
  /\ single # NoOne => live /\ single.of = attached
  /\ pair # NoOne => live /\ pair.of = attached
  /\ single # NoOne /\ pair # NoOne /\ pair.phase = "dragging" => single.touch # pair.touch
  /\ feedback.kind = "active" => \E h \in Handles : Route(attached, h) = "pair"

\* An operation is recorded only for the element that is attached at the time.
RecordedIsAttached == [][recorded' # recorded => recorded' = attached /\ attached' = attached]_resizeVars
==============================================================================
