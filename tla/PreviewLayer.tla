----------------------------- MODULE PreviewLayer -----------------------------
(***************************************************************************)
(* The preview of the content script: PreviewManager and its stylesheet    *)
(* (preview-manager.ts, stylesheet-manager.ts), the adapters that write to *)
(* the page, and those who use it at the same time: edits from the panel   *)
(* (content-edit-wiring.ts), a resize gesture driven by animation frames   *)
(* (single-resize-gesture.ts, flex-pair-resize-strategy.ts), clearAll from *)
(* the panel and from the verification, and the page's own rendering.      *)
(*                                                                         *)
(* An operation is named by a number, in the order in which operations are *)
(* made.  "style" operations write a rule for an element; "value" ones     *)
(* (text, classes, an attribute, a parent's children) overwrite a value    *)
(* and keep the old one for the rollback.  A rule holds the rule it        *)
(* replaced, so the rules behind an element are a set of numbers of which  *)
(* the largest is in force; entries, too, are in the order of numbers.     *)
(*                                                                         *)
(* The extension passes no ghost renderer, so structural previews have no  *)
(* observer.  An operation that throws half way takes back what it wrote.  *)
(***************************************************************************)
EXTENDS Naturals, FiniteSets

CONSTANTS
  Els,         \* elements of the page
  Props,       \* CSS properties
  NoOp, NoGesture,
  MaxOps,      \* bound: operations
  MaxRenders   \* bound: no element is rendered anew once one was this often

ASSUME PreviewAssumption ==
  /\ MaxOps \in Nat /\ MaxRenders \in Nat
  /\ IsFiniteSet(Els)

VARIABLES
  next,      \* number of operations made
  op,        \* the operation of a number
  rules,     \* numbers of the rules behind an element
  cancelled, \* rules rolled back
  entries,   \* operations tracked by the manager and not consumed
  value,     \* value of an element on the page
  saved,     \* value an operation has overwritten
  rendered,  \* times the page has rendered an element
  ghosts,    \* transforms of applyTransform since the last clear
  gesture,   \* the resize gesture of each kind, or NoGesture
  recorded,  \* operations recorded in the journal since the last clear
  outOfTurn  \* history: a value was rolled back before a newer one of its element

pageVars == <<value, rendered>>
sheetVars == <<rules, cancelled, ghosts>>
vars == <<next, op, sheetVars, entries, pageVars, saved, gesture, recorded, outOfTurn>>

Ids == 1..MaxOps
ByApp(n) == [by |-> "app", n |-> n]
ByEdit(i) == [by |-> "edit", n |-> i]

StyleOp == [kind : {"style", "ghost"}, els : SUBSET Els, prop : Props]
ValueOp == {[kind |-> "value", els |-> {e}, prop |-> p] : e \in Els, p \in Props}

Kinds == {"single", "pair"}
Gestures ==
  [els : SUBSET Els, prop : Props, phase : {"dragging", "validating"}, id : 0..MaxOps]

ASSUME NoGestureAssumption == NoGesture \notin Gestures

Init ==
  /\ next = 0
  /\ op = [i \in Ids |-> NoOp]
  /\ rules = [e \in Els |-> {}]
  /\ cancelled = {}
  /\ entries = {}
  /\ value = [e \in Els |-> ByApp(0)]
  /\ saved = [i \in Ids |-> ByApp(0)]
  /\ rendered = [e \in Els |-> 0]
  /\ ghosts = {}
  /\ gesture = [k \in Kinds |-> NoGesture]
  /\ recorded = {}
  /\ outOfTurn = FALSE

------------------------------------------------------------------------------
(* The stylesheet.                                                         *)

\* Mutant: a rollback restores the rule it replaced, be it rolled back or not.
uncover_OnlyPrevious(R, dead) == R

\* What is left of rules R when the newest ones are rolled back: those up to the
\* newest that is not.
uncover(R, dead) == {i \in R : \E j \in R \ dead : i <= j}

\* Rules after a write for every element in E.
Written(R, E, i) == [e \in Els |-> IF e \in E THEN R[e] \cup {i} ELSE R[e]]

\* Rules after the rollback of i: only the rule in force gives way.
TakenBack(R, i) ==
  [e \in Els |-> IF i \in R[e] /\ \A j \in R[e] : j <= i
                 THEN uncover(R[e] \ {i}, cancelled) ELSE R[e]]

------------------------------------------------------------------------------
(* The manager.                                                            *)

\* Entry i is rolled back: its rule, or the value it has saved.
RulesWithout(i) == IF i \in entries THEN TakenBack(rules, i) ELSE rules
ValuesWithout(i) ==
  [e \in Els |-> IF i \in entries /\ op[i].kind = "value" /\ e \in op[i].els
                 THEN saved[i] ELSE value[e]]
CancelledWith(i) == IF i \in entries THEN cancelled \cup {i} ELSE cancelled

\* applyOperation, once the rules are R, the values V and the entries N.
Apply(o, R, V, N) ==
  /\ next < MaxOps
  /\ next' = next + 1
  /\ op' = [op EXCEPT ![next'] = o]
  /\ entries' = N \cup {next'}
  /\ IF o.kind = "style"
     THEN /\ rules' = Written(R, o.els, next')
          /\ value' = V
          /\ UNCHANGED saved
     ELSE LET e == CHOOSE e \in o.els : TRUE IN
          /\ rules' = R
          /\ value' = [V EXCEPT ![e] = ByEdit(next')]
          /\ saved' = [saved EXCEPT ![next'] = V[e]]

applyOperation(o) ==
  /\ Apply(o, rules, value, entries)
  /\ UNCHANGED cancelled

\* rollbackTrackedEntry: of a consumed entry, nothing.
rollbackTrackedEntry(i) ==
  /\ rules' = RulesWithout(i)
  /\ value' = ValuesWithout(i)
  /\ cancelled' = CancelledWith(i)
  /\ entries' = entries \ {i}
  /\ UNCHANGED <<next, op, saved>>

\* A gesture's frame: its last preview is rolled back and a new one applied.
Replace(i, o) ==
  /\ Apply(o, RulesWithout(i), ValuesWithout(i), entries \ {i})
  /\ cancelled' = CancelledWith(i)

\* Tracked operations that have overwritten the value of e.
Overwriting(e) == {i \in entries : op[i].kind = "value" /\ e \in op[i].els}

\* Mutant: the oldest entry is rolled back first.
Restored_OldestFirst(e) ==
  IF Overwriting(e) = {} THEN value[e]
  ELSE saved[CHOOSE i \in Overwriting(e) : \A j \in Overwriting(e) : j <= i]

\* The newest entry is rolled back first, so what the oldest has saved is last.
Restored(e) ==
  IF Overwriting(e) = {} THEN value[e]
  ELSE saved[CHOOSE i \in Overwriting(e) : \A j \in Overwriting(e) : i <= j]

clearAll ==
  /\ entries' = {}
  /\ cancelled' = cancelled \cup entries
  /\ rules' = [e \in Els |-> {}]
  /\ ghosts' = {}
  /\ value' = [e \in Els |-> Restored(e)]
  /\ recorded' = {}
  /\ UNCHANGED <<next, op, saved, rendered, gesture, outOfTurn>>

------------------------------------------------------------------------------
(* Edits.                                                                  *)

\* An edit of the panel arrives; the journal has it.  Its rollback is dropped.
PanelEdit(o) ==
  /\ applyOperation(o)
  /\ recorded' = recorded \cup {next'}
  /\ UNCHANGED <<ghosts, rendered, gesture, outOfTurn>>

\* The element and the pair gesture have an owner each, so two pointers may be
\* resizing at a time.
BeginResize(k, E, p) ==
  /\ gesture[k] = NoGesture
  /\ gesture' = [gesture EXCEPT
       ![k] = [els |-> E, prop |-> p, phase |-> "dragging", id |-> 0]]
  /\ UNCHANGED <<next, op, sheetVars, entries, pageVars, saved, recorded, outOfTurn>>

In(k, phase) == gesture[k] # NoGesture /\ gesture[k].phase = phase
GestureOp(k) == [kind |-> "style", els |-> gesture[k].els, prop |-> gesture[k].prop]

\* Mutant: the preview of the last frame stays.
PreviewFrame_KeepsLast(k) ==
  /\ In(k, "dragging")
  /\ applyOperation(GestureOp(k))
  /\ gesture' = [gesture EXCEPT ![k].id = next']
  /\ UNCHANGED <<ghosts, rendered, recorded, outOfTurn>>

PreviewFrame(k) ==
  /\ In(k, "dragging")
  /\ Replace(gesture[k].id, GestureOp(k))
  /\ gesture' = [gesture EXCEPT ![k].id = next']
  /\ UNCHANGED <<ghosts, rendered, recorded, outOfTurn>>

\* The pair cannot be resized this far: the last preview goes and none comes.
FrameRejected ==
  /\ In("pair", "dragging")
  /\ rollbackTrackedEntry(gesture["pair"].id)
  /\ gesture' = [gesture EXCEPT !["pair"].id = 0]
  /\ UNCHANGED <<ghosts, rendered, recorded, outOfTurn>>

\* pointerup: every preview is rolled back, and the operation is recorded.
EndSingle ==
  LET i == gesture["single"].id IN
  /\ In("single", "dragging") /\ next < MaxOps
  /\ rules' = RulesWithout(i)
  /\ value' = ValuesWithout(i)
  /\ cancelled' = CancelledWith(i)
  /\ entries' = entries \ {i}
  /\ next' = next + 1
  /\ op' = [op EXCEPT ![next'] = GestureOp("single")]
  /\ recorded' = recorded \cup {next'}
  /\ gesture' = [gesture EXCEPT !["single"] = NoGesture]
  /\ UNCHANGED <<ghosts, rendered, saved, outOfTurn>>

\* pointerup: a last preview is applied, and measured in the next frame.
EndPair ==
  /\ In("pair", "dragging")
  /\ Replace(gesture["pair"].id, GestureOp("pair"))
  /\ gesture' = [gesture EXCEPT !["pair"].phase = "validating", !["pair"].id = next']
  /\ UNCHANGED <<ghosts, rendered, recorded, outOfTurn>>

\* The pair measures as planned: the preview stays and is recorded.
CommitPair ==
  /\ In("pair", "validating")
  /\ recorded' = recorded \cup {gesture["pair"].id}
  /\ gesture' = [gesture EXCEPT !["pair"] = NoGesture]
  /\ UNCHANGED <<next, op, sheetVars, entries, pageVars, saved, outOfTurn>>

\* The gesture ends with nothing: pointercancel, lost capture, another selection,
\* a size that does not change or cannot be.
CancelResize(k) ==
  /\ gesture[k] # NoGesture
  /\ rollbackTrackedEntry(gesture[k].id)
  /\ gesture' = [gesture EXCEPT ![k] = NoGesture]
  /\ UNCHANGED <<ghosts, rendered, recorded, outOfTurn>>

\* The page renders e from its own state, whatever the preview has put there.
Render(e) ==
  /\ \A f \in Els : rendered[f] < MaxRenders
  /\ rendered' = [rendered EXCEPT ![e] = @ + 1]
  /\ value' = [value EXCEPT ![e] = ByApp(rendered'[e])]
  /\ UNCHANGED <<next, op, sheetVars, entries, saved, gesture, recorded, outOfTurn>>

------------------------------------------------------------------------------
(* What the package allows besides.                                        *)

\* The rollback of an operation is called, in no order.
Rollback(i) ==
  /\ i \in entries /\ \A k \in Kinds : gesture[k] # NoGesture => gesture[k].id # i
  /\ rollbackTrackedEntry(i)
  /\ recorded' = recorded \ {i}
  /\ outOfTurn' = (outOfTurn \/ \E e \in Els : \E j \in Overwriting(e) :
                                i \in Overwriting(e) /\ i < j)
  /\ UNCHANGED <<ghosts, rendered, gesture>>

\* A drag ghost is a rule that no entry tracks.
applyTransform(e, p) ==
  /\ next < MaxOps
  /\ next' = next + 1
  /\ op' = [op EXCEPT ![next'] = [kind |-> "ghost", els |-> {e}, prop |-> p]]
  /\ rules' = Written(rules, {e}, next')
  /\ ghosts' = ghosts \cup {next'}
  /\ UNCHANGED <<cancelled, entries, pageVars, saved, gesture, recorded, outOfTurn>>

\* Its rollback may come after a clear as well.
RemoveTransform(i) ==
  /\ i \in 1..next /\ op[i].kind = "ghost" /\ i \notin cancelled
  /\ rules' = TakenBack(rules, i)
  /\ cancelled' = cancelled \cup {i}
  /\ ghosts' = ghosts \ {i}
  /\ UNCHANGED <<next, op, entries, pageVars, saved, gesture, recorded, outOfTurn>>

------------------------------------------------------------------------------

Gesturing ==
  \/ \E e \in Els, p \in Props : BeginResize("single", {e}, p)
  \/ \E e, f \in Els, p \in Props : e # f /\ BeginResize("pair", {e, f}, p)
  \/ FrameRejected \/ EndSingle \/ EndPair \/ CommitPair
  \/ \E k \in Kinds : PreviewFrame(k) \/ CancelResize(k)

Package ==
  \/ \E i \in Ids : Rollback(i) \/ RemoveTransform(i)
  \/ \E e \in Els, p \in Props : applyTransform(e, p)

Next ==
  \/ \E e \in Els, p \in Props :
       PanelEdit([kind |-> "style", els |-> {e}, prop |-> p])
  \/ \E o \in ValueOp : PanelEdit(o)
  \/ Gesturing \/ clearAll \/ Package
  \/ \E e \in Els : Render(e)

Spec == Init /\ [][Next]_vars

------------------------------------------------------------------------------
(* Properties.                                                             *)

\* Numbers are given out in order, and only operations that were made are
\* tracked, in force, cancelled or recorded.
TypeOK ==
  /\ next \in 0..MaxOps
  /\ op \in [Ids -> StyleOp \cup ValueOp \cup {NoOp}]
  /\ \A i \in 1..next : op[i] \in StyleOp \cup ValueOp
  /\ rules \in [Els -> SUBSET (1..next)]
  /\ cancelled \subseteq 1..next
  /\ entries \subseteq 1..next
  /\ ghosts \subseteq 1..next
  /\ recorded \subseteq 1..next
  /\ (entries \cup ghosts) \cap cancelled = {}
  /\ \A i \in ghosts : op[i].kind = "ghost"
  /\ \A i \in entries : op[i].kind # "ghost"
  /\ gesture \in [Kinds -> Gestures \cup {NoGesture}]
  /\ \A k \in Kinds : gesture[k] # NoGesture => gesture[k].id <= next

\* The overrides of e that are in effect: tracked, or the ghost of a drag.
Live(e) == {i \in entries \cup ghosts : op[i].kind # "value" /\ e \in op[i].els}

\* In whatever order overrides of an element are rolled back, cleared, or rolled
\* back after they were cleared, none in effect is lost, and the rule in force,
\* the newest of those behind the element, is that of one in effect.
NewestLiveShows ==
  \A e \in Els :
    /\ Live(e) \subseteq rules[e]
    /\ \A i \in rules[e] : \E j \in Live(e) : i <= j

\* What the preview tracks is what the page shows: overrides have numbers that
\* were given out, none is both cancelled and in effect, and the newest in effect
\* is in force (preview-manager.ts, style-adapter.ts).
OverridesAreSound == TypeOK /\ NewestLiveShows

\* Where no edit is tracked, the page has the value the application gave it: the
\* verification that follows a clearAll does not see what the preview has left.
\* Holders of rollbacks that do not roll the newest back first forgo it.
NothingIsLeftBehind ==
  ~outOfTurn => \A e \in Els : Overwriting(e) = {} => value[e].by = "app"

\* Frames, clears, cancels and commits of two gestures in any order leave no
\* preview of a gesture but that of its last frame.
NoStrayPreview ==
  entries \subseteq recorded \cup {gesture[k].id : k \in {l \in Kinds : gesture[l] # NoGesture}}

\* preview-manager.ts 9: every mutation is reversible.
EveryMutationIsReversible ==
  \A e \in Els : Overwriting(e) = {} => value[e] = ByApp(rendered[e])

\* preview-engine README: clearAll comes before the source-patched state is
\* asserted, so what is asserted is what the application has rendered last.
ClearShowsTheApp == [][clearAll => \A e \in Els : value'[e] = ByApp(rendered[e])]_vars

\* preview-engine index.ts 5: the engine renders the visual effect of what the
\* journal records: while nothing newer hides it, a recorded style is in force.
RecordedIsShown ==
  \A e \in Els : \A i \in recorded :
    op[i].kind = "style" /\ e \in op[i].els =>
      \E j \in rules[e] : i <= j

\* transform-adapter.ts 7: the ghost of a drag composes with style previews: the
\* newest override in effect of every property of e is in force.
GhostComposes ==
  \A e \in Els : \A i \in Live(e) \ ghosts :
    (\A j \in Live(e) : op[j].prop = op[i].prop => j <= i) =>
      \A j \in rules[e] : j \in ghosts => j <= i
==============================================================================
