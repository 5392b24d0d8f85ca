-------------------------- MODULE PreviewLayerProofs --------------------------
(***************************************************************************)
(* Proofs about PreviewLayer, for every set of elements and every number   *)
(* of operations.  The rules behind an element are shown to be Covered by  *)
(* the overrides in effect: writing a rule, taking one back and clearing   *)
(* keep that, whatever has been rolled back before.                        *)
(***************************************************************************)
EXTENDS PreviewLayer, TLAPS, WellFoundedInduction

\* The rules R behind an element, the overrides L of it that are in effect, and
\* those that are dead: R holds all of L, holds nothing else that is not dead,
\* and its newest is in L.
Covered(R, L, dead) ==
  /\ L \subseteq R
  /\ R \subseteq L \cup dead
  /\ L \cap dead = {}
  /\ \A i \in R : \E j \in L : i <= j

\* Taking back i, of whatever age, keeps rules covered.
LEMMA TakingBackCovers ==
  ASSUME NEW R \in SUBSET Nat, NEW L, NEW dead, NEW i, Covered(R, L, dead)
  PROVE  Covered(IF i \in R /\ \A j \in R : j <= i
                 THEN uncover(R \ {i}, dead) ELSE R, L \ {i}, dead \cup {i})
<1>1. CASE i \in R /\ \A j \in R : j <= i
  <2> DEFINE U == uncover(R \ {i}, dead)
  <2>1. ASSUME NEW l \in L \ {i} PROVE l \in U
    <3>1. l \in Nat /\ l \in (R \ {i}) \ dead /\ l <= l
      BY DEF Covered
    <3> QED BY <3>1 DEF uncover
  <2>2. U \subseteq (L \ {i}) \cup (dead \cup {i}) /\ (L \ {i}) \cap (dead \cup {i}) = {}
    BY DEF uncover, Covered
  <2>3. \A k \in U : \E j \in L \ {i} : k <= j
    BY DEF uncover, Covered
  <2> QED BY <1>1, <2>1, <2>2, <2>3 DEF Covered
<1>2. CASE i \in R /\ ~(\A j \in R : j <= i)
  <2>1. PICK j0 \in R : i < j0
    BY <1>2
  <2>2. PICK l \in L : j0 <= l
    BY <2>1 DEF Covered
  <2>3. l # i /\ i <= l
    BY <1>2, <2>1, <2>2 DEF Covered
  <2>4. \A k \in R : \E j \in L \ {i} : k <= j
    BY <1>2, <2>2, <2>3 DEF Covered
  <2> QED BY <1>2, <2>4 DEF Covered
<1>3. CASE i \notin R
  <2>1. i \notin L
    BY <1>3 DEF Covered
  <2> QED BY <1>3, <2>1 DEF Covered
<1> QED BY <1>1, <1>2, <1>3

\* A rule newer than all keeps rules covered.
LEMMA WritingCovers ==
  ASSUME NEW R \in SUBSET Nat, NEW L, NEW dead, NEW n \in Nat, n \notin dead,
         \A i \in R : i <= n, Covered(R, L, dead)
  PROVE  Covered(R \cup {n}, L \cup {n}, dead)
  BY DEF Covered

------------------------------------------------------------------------------

RulesCovered == \A e \in Els : Covered(rules[e], Live(e), cancelled)

\* What a gesture previews is a style, and what it validates is a preview.
GesturesAreStyles ==
  \A k \in Kinds : gesture[k] # NoGesture =>
    /\ gesture[k].id # 0 => op[gesture[k].id].kind = "style"
    /\ gesture[k].phase = "validating" => gesture[k].id # 0

IInv ==
  /\ TypeOK
  /\ RulesCovered
  /\ GesturesAreStyles
  /\ NoStrayPreview

\* At first nothing is previewed.
LEMMA InitInv == Init => IInv
  BY PreviewAssumption
  DEF Init, IInv, TypeOK, RulesCovered, Covered, Live, GesturesAreStyles,
      NoStrayPreview, Ids

\* The rules that are left when entry i is rolled back are well formed and covered.
LEMMA WithoutCovered ==
  ASSUME TypeOK, RulesCovered, NEW i
  PROVE  /\ RulesWithout(i) \in [Els -> SUBSET (1..next)]
         /\ \A e \in Els :
              Covered(RulesWithout(i)[e],
                      {j \in (entries \ {i}) \cup ghosts :
                         op[j].kind # "value" /\ e \in op[j].els},
                      CancelledWith(i))
<1>1. CASE i \in entries
  <2>1. RulesWithout(i) \in [Els -> SUBSET (1..next)]
    BY <1>1 DEF TypeOK, RulesWithout, TakenBack, uncover
  <2>2. ASSUME NEW e \in Els
        PROVE  Covered(RulesWithout(i)[e],
                       {j \in (entries \ {i}) \cup ghosts :
                          op[j].kind # "value" /\ e \in op[j].els}, CancelledWith(i))
    <3>1. {j \in (entries \ {i}) \cup ghosts : op[j].kind # "value" /\ e \in op[j].els}
            = Live(e) \ {i}
      BY <1>1 DEF Live, TypeOK
    <3>2. rules[e] \in SUBSET Nat /\ Covered(rules[e], Live(e), cancelled)
      BY DEF TypeOK, RulesCovered
    <3>3. RulesWithout(i)[e] = IF i \in rules[e] /\ \A j \in rules[e] : j <= i
                               THEN uncover(rules[e] \ {i}, cancelled) ELSE rules[e]
      BY <1>1 DEF RulesWithout, TakenBack
    <3>4. CancelledWith(i) = cancelled \cup {i}
      BY <1>1 DEF CancelledWith
    <3>5. Covered(IF i \in rules[e] /\ \A j \in rules[e] : j <= i
                  THEN uncover(rules[e] \ {i}, cancelled) ELSE rules[e],
                  Live(e) \ {i}, cancelled \cup {i})
      BY <3>2, TakingBackCovers
    <3> QED BY <3>1, <3>3, <3>4, <3>5
  <2> QED BY <2>1, <2>2
<1>2. CASE i \notin entries
  <2>1. \A e \in Els :
          {j \in (entries \ {i}) \cup ghosts : op[j].kind # "value" /\ e \in op[j].els}
            = Live(e)
    BY <1>2 DEF Live
  <2> QED BY <1>2, <2>1 DEF RulesWithout, CancelledWith, RulesCovered, TypeOK
<1> QED BY <1>1, <1>2

\* TypeOK without what it says of the gestures and of the record.
OpsOK ==
  /\ next \in 0..MaxOps
  /\ op \in [Ids -> StyleOp \cup ValueOp \cup {NoOp}]
  /\ \A i \in 1..next : op[i] \in StyleOp \cup ValueOp
  /\ rules \in [Els -> SUBSET (1..next)]
  /\ cancelled \subseteq 1..next
  /\ entries \subseteq 1..next
  /\ ghosts \subseteq 1..next
  /\ (entries \cup ghosts) \cap cancelled = {}
  /\ \A i \in ghosts : op[i].kind = "ghost"
  /\ \A i \in entries : op[i].kind # "ghost"

\* Rolling back entry i keeps the operations well formed and the rules covered.
LEMMA RollbackInv ==
  ASSUME TypeOK, RulesCovered, NEW i, rules' = RulesWithout(i),
         cancelled' = CancelledWith(i), entries' = entries \ {i},
         next' = next, op' = op, ghosts' = ghosts
  PROVE  OpsOK' /\ RulesCovered'
<1>1. RulesCovered'
  <2> SUFFICES ASSUME NEW e \in Els
               PROVE  Covered(rules'[e], Live(e)', cancelled')
    BY DEF RulesCovered
  <2>1. Live(e)' = {j \in (entries \ {i}) \cup ghosts : op[j].kind # "value" /\ e \in op[j].els}
    BY DEF Live
  <2> QED BY <2>1, WithoutCovered
<1>2. CancelledWith(i) \subseteq 1..next
      /\ ((entries \ {i}) \cup ghosts) \cap CancelledWith(i) = {}
  BY DEF TypeOK, CancelledWith
<1> QED BY <1>1, <1>2, WithoutCovered DEF TypeOK, OpsOK

\* So does applying an operation, once entry i is rolled back.
LEMMA ApplyInv ==
  ASSUME TypeOK, RulesCovered, NEW i, NEW V,
         NEW o \in StyleOp \cup ValueOp, o.kind # "ghost",
         Apply(o, RulesWithout(i), V, entries \ {i}),
         cancelled' = CancelledWith(i), ghosts' = ghosts
  PROVE  OpsOK' /\ RulesCovered'
<1> USE PreviewAssumption
<1>1. /\ next \in Nat /\ next < MaxOps /\ next' = next + 1
      /\ op' = [op EXCEPT ![next'] = o]
      /\ entries' = (entries \ {i}) \cup {next'}
      /\ rules' = IF o.kind = "style" THEN Written(RulesWithout(i), o.els, next')
                  ELSE RulesWithout(i)
  BY DEF Apply, TypeOK
<1>2. /\ op'[next'] = o
      /\ \A j \in 1..next : op'[j] = op[j] /\ j # next'
      /\ op' \in [Ids -> StyleOp \cup ValueOp \cup {NoOp}]
  BY <1>1 DEF TypeOK, Ids
<1>3. CancelledWith(i) \subseteq 1..next
      /\ ((entries \ {i}) \cup ghosts) \cap CancelledWith(i) = {}
  BY DEF TypeOK, CancelledWith
<1>4. RulesWithout(i) \in [Els -> SUBSET (1..next)]
  BY WithoutCovered
<1>5. rules' \in [Els -> SUBSET (1..next')]
  BY <1>1, <1>4 DEF Written
<1>6. OpsOK'
  <2>1. next' \in 0..MaxOps /\ 1..next' = (1..next) \cup {next'}
    BY <1>1
  <2>2. \A j \in 1..next' : op'[j] \in StyleOp \cup ValueOp
    BY <1>2, <2>1 DEF TypeOK
  <2>3. /\ cancelled' \subseteq 1..next' /\ entries' \subseteq 1..next'
        /\ ghosts' \subseteq 1..next'
    BY <1>1, <1>3, <2>1 DEF TypeOK
  <2>4. (entries' \cup ghosts') \cap cancelled' = {}
    BY <1>1, <1>3
  <2>5. \A j \in ghosts' : op'[j].kind = "ghost"
    BY <1>2 DEF TypeOK
  <2>6. \A j \in entries' : op'[j].kind # "ghost"
    BY <1>1, <1>2 DEF TypeOK
  <2> QED BY <1>2, <1>5, <2>1, <2>2, <2>3, <2>4, <2>5, <2>6 DEF OpsOK
<1>7. ASSUME NEW e \in Els PROVE Covered(rules'[e], Live(e)', cancelled')
  <2> DEFINE L == {j \in (entries \ {i}) \cup ghosts :
                     op[j].kind # "value" /\ e \in op[j].els}
             R == RulesWithout(i)[e]
  <2>1. Covered(R, L, cancelled') /\ R \in SUBSET (1..next)
    BY WithoutCovered, <1>4
  <2>2. CASE o.kind = "style" /\ e \in o.els
    <3>1. Live(e)' = L \cup {next'}
      BY <1>1, <1>2, <2>2 DEF Live, TypeOK
    <3>2. rules'[e] = R \cup {next'}
      BY <1>1, <1>4, <2>2 DEF Written
    <3>3. next' \in Nat /\ next' \notin cancelled' /\ R \in SUBSET Nat
          /\ \A j \in R : j <= next'
      BY <1>1, <1>3, <2>1
    <3>4. Covered(R \cup {next'}, L \cup {next'}, cancelled')
      BY <2>1, <3>3, WritingCovers
    <3> QED BY <3>1, <3>2, <3>4
  <2>3. CASE ~(o.kind = "style" /\ e \in o.els)
    <3>1. o.kind = "value" \/ e \notin o.els
      BY <2>3 DEF StyleOp, ValueOp
    <3>2. Live(e)' = L
      BY <1>1, <1>2, <3>1 DEF Live, TypeOK
    <3>3. rules'[e] = R
      BY <1>1, <1>4, <2>3 DEF Written
    <3> QED BY <2>1, <3>2, <3>3
  <2> QED BY <2>2, <2>3
<1> QED BY <1>6, <1>7 DEF RulesCovered

------------------------------------------------------------------------------

\* What a gesture previews is an operation on styles, and Apply makes its number.
LEMMA GestureOpStyle ==
  ASSUME TypeOK, NEW k \in Kinds, gesture[k] # NoGesture
  PROVE  GestureOp(k) \in StyleOp /\ GestureOp(k).kind = "style"
  BY DEF TypeOK, Gestures, GestureOp, StyleOp

\* A gesture replaces its preview by one for its last pointer position.
LEMMA ReplaceInv ==
  ASSUME IInv, NEW k \in Kinds, gesture[k] # NoGesture, NEW G \in Gestures,
         Replace(gesture[k].id, GestureOp(k)), G.id = next',
         gesture' = [gesture EXCEPT ![k] = G], ghosts' = ghosts, recorded' = recorded
  PROVE  IInv'
<1> USE PreviewAssumption, NoGestureAssumption
<1>1. TypeOK /\ RulesCovered /\ GesturesAreStyles /\ NoStrayPreview
  BY DEF IInv
<1> DEFINE i == gesture[k].id
           o == GestureOp(k)
<1>2. o \in StyleOp \cup ValueOp /\ o.kind = "style" /\ o.kind # "ghost"
  BY <1>1, GestureOpStyle
<1>3. Apply(o, RulesWithout(i), ValuesWithout(i), entries \ {i})
      /\ cancelled' = CancelledWith(i)
  BY DEF Replace
<1>4. next \in Nat /\ next' = next + 1 /\ entries' = (entries \ {i}) \cup {next'}
      /\ op' = [op EXCEPT ![next'] = o] /\ next' \in Ids
  BY <1>1, <1>3 DEF Apply, TypeOK, Ids
<1>5. OpsOK' /\ RulesCovered'
  <2> HIDE DEF i, o
  <2> QED BY <1>1, <1>2, <1>3, ApplyInv
<1>6. gesture' \in [Kinds -> Gestures \cup {NoGesture}] /\ gesture'[k] = G
      /\ \A l \in Kinds \ {k} : gesture'[l] = gesture[l]
  BY <1>1 DEF TypeOK
<1>7. \A l \in Kinds : gesture'[l] # NoGesture => gesture'[l].id <= next'
  BY <1>1, <1>4, <1>6 DEF TypeOK, Gestures
<1>8. recorded' \subseteq 1..next'
  BY <1>1, <1>4 DEF TypeOK
<1>9. TypeOK'
  BY <1>5, <1>6, <1>7, <1>8 DEF TypeOK, OpsOK
<1>10. op'[next'] = o /\ \A j \in 1..next : op'[j] = op[j]
  BY <1>1, <1>4 DEF TypeOK, Ids
<1>11. GesturesAreStyles'
  <2> SUFFICES ASSUME NEW l \in Kinds, gesture'[l] # NoGesture
               PROVE  /\ gesture'[l].id # 0 => op'[gesture'[l].id].kind = "style"
                      /\ gesture'[l].phase = "validating" => gesture'[l].id # 0
    BY DEF GesturesAreStyles
  <2>1. CASE l = k
    BY <1>2, <1>4, <1>6, <1>10, <2>1
  <2>2. CASE l # k
    <3>1. gesture'[l] = gesture[l] /\ gesture[l].id \in 0..MaxOps /\ gesture[l].id <= next
      BY <1>1, <1>6, <2>2 DEF TypeOK, Gestures
    <3> QED BY <1>1, <1>4, <1>10, <3>1 DEF GesturesAreStyles
  <2> QED BY <2>1, <2>2
<1>12. NoStrayPreview'
  <2> SUFFICES ASSUME NEW j \in entries', j \notin recorded
               PROVE  \E l \in Kinds : gesture'[l] # NoGesture /\ j = gesture'[l].id
    BY DEF NoStrayPreview
  <2>1. CASE j = next'
    BY <1>6, <2>1, NoGestureAssumption
  <2>2. CASE j # next'
    <3>1. PICK l \in Kinds : gesture[l] # NoGesture /\ j = gesture[l].id
      BY <1>1, <1>4, <2>2 DEF NoStrayPreview
    <3>2. l # k
      BY <1>4, <2>2, <3>1
    <3> QED BY <1>6, <3>1, <3>2
  <2> QED BY <2>1, <2>2
<1> QED BY <1>1, <1>5, <1>9, <1>11, <1>12 DEF IInv

\* Rolling back the entry of a gesture that forgets it, or any entry that is
\* taken off the record, leaves no stray preview.
LEMMA ForgetInv ==
  ASSUME IInv, NEW i, rules' = RulesWithout(i), cancelled' = CancelledWith(i),
         entries' = entries \ {i}, next' = next, op' = op, ghosts' = ghosts,
         recorded' \subseteq recorded, recorded \subseteq recorded' \cup {i},
         gesture' \in [Kinds -> Gestures \cup {NoGesture}],
         \A k \in Kinds : \/ gesture'[k] = gesture[k]
                          \/ gesture'[k] = NoGesture /\ gesture[k].id = i
                          \/ /\ gesture[k] # NoGesture /\ gesture[k].id = i
                             /\ gesture'[k].phase = "dragging" /\ gesture'[k].id = 0
  PROVE  IInv'
<1>1. TypeOK /\ RulesCovered /\ GesturesAreStyles /\ NoStrayPreview
  BY DEF IInv
<1>2. OpsOK' /\ RulesCovered'
  BY <1>1, RollbackInv
<1>3. \A k \in Kinds : gesture'[k] # NoGesture => gesture'[k].id <= next'
  BY <1>1, PreviewAssumption DEF TypeOK
<1>4. TypeOK'
  BY <1>1, <1>2, <1>3 DEF TypeOK, OpsOK
<1>5. GesturesAreStyles'
  BY <1>1 DEF GesturesAreStyles
<1>6. NoStrayPreview'
  <2> SUFFICES ASSUME NEW j \in entries', j \notin recorded'
               PROVE  \E l \in Kinds : gesture'[l] # NoGesture /\ j = gesture'[l].id
    BY DEF NoStrayPreview
  <2>1. PICK l \in Kinds : gesture[l] # NoGesture /\ j = gesture[l].id
    BY <1>1 DEF NoStrayPreview
  <2> QED BY <2>1
<1> QED BY <1>2, <1>4, <1>5, <1>6 DEF IInv

\* Every step keeps the invariant.
LEMMA NextInv == IInv /\ [Next]_vars => IInv'
<1> SUFFICES ASSUME IInv, [Next]_vars PROVE IInv'
  OBVIOUS
<1> USE PreviewAssumption
<1>t. TypeOK /\ RulesCovered /\ GesturesAreStyles /\ NoStrayPreview
  BY DEF IInv
<1>r. TypeOK' <=> /\ OpsOK' /\ recorded' \subseteq 1..next'
                  /\ gesture' \in [Kinds -> Gestures \cup {NoGesture}]
                  /\ \A k \in Kinds : gesture'[k] # NoGesture => gesture'[k].id <= next'
  BY DEF TypeOK, OpsOK
<1>1. ASSUME NEW o \in StyleOp \cup ValueOp, o.kind # "ghost", PanelEdit(o)
      PROVE  IInv'
  <2>1. /\ Apply(o, rules, value, entries) /\ cancelled' = cancelled
        /\ ghosts' = ghosts /\ gesture' = gesture /\ recorded' = recorded \cup {next'}
    BY <1>1 DEF PanelEdit, applyOperation
  <2>2. 0 \notin entries /\ entries \ {0} = entries
    BY <1>t DEF TypeOK
  <2>3. Apply(o, RulesWithout(0), value, entries \ {0}) /\ cancelled' = CancelledWith(0)
    BY <2>1, <2>2 DEF RulesWithout, CancelledWith
  <2>4. OpsOK' /\ RulesCovered'
    BY <1>1, <1>t, <2>1, <2>3, ApplyInv
  <2>5. next \in Nat /\ next' = next + 1 /\ entries' = entries \cup {next'}
        /\ op' = [op EXCEPT ![next'] = o]
    BY <1>t, <2>1 DEF Apply, TypeOK
  <2>6. TypeOK'
    BY <1>r, <1>t, <2>1, <2>4, <2>5 DEF TypeOK, Gestures
  <2>7. GesturesAreStyles' /\ NoStrayPreview'
    BY <1>t, <2>1, <2>5 DEF GesturesAreStyles, NoStrayPreview, TypeOK, Gestures
  <2> QED BY <2>4, <2>6, <2>7 DEF IInv
<1>2. ASSUME NEW k \in Kinds, NEW E \in SUBSET Els, NEW p \in Props, BeginResize(k, E, p)
      PROVE  IInv'
  <2> DEFINE G == [els |-> E, prop |-> p, phase |-> "dragging", id |-> 0]
  <2>1. G \in Gestures /\ G.id = 0 /\ G.phase = "dragging"
    BY <1>2 DEF Gestures
  <2>2. gesture' = [gesture EXCEPT ![k] = G] /\ gesture[k] = NoGesture
        /\ UNCHANGED <<next, op, rules, cancelled, ghosts, entries, recorded>>
    BY <1>2 DEF BeginResize, sheetVars
  <2> HIDE DEF G
  <2>3. TypeOK'
    BY <1>t, <2>1, <2>2 DEF TypeOK
  <2>4. RulesCovered'
    BY <1>t, <2>2 DEF RulesCovered, Live
  <2>5. GesturesAreStyles'
    BY <1>t, <2>1, <2>2 DEF GesturesAreStyles, TypeOK
  <2>6. \A l \in Kinds : gesture[l] # NoGesture => gesture'[l] = gesture[l]
    BY <1>t, <2>2 DEF TypeOK
  <2>7. NoStrayPreview'
    BY <1>t, <2>2, <2>6 DEF NoStrayPreview
  <2> QED BY <2>3, <2>4, <2>5, <2>7 DEF IInv
<1>3. ASSUME NEW k \in Kinds, PreviewFrame(k) PROVE IInv'
  <2> DEFINE G == [gesture[k] EXCEPT !.id = next']
  <2>1. gesture[k] # NoGesture /\ Replace(gesture[k].id, GestureOp(k))
        /\ gesture' = [gesture EXCEPT ![k].id = next'] /\ ghosts' = ghosts
        /\ recorded' = recorded
    BY <1>3 DEF PreviewFrame, In
  <2>2. gesture[k] \in Gestures /\ next' \in 0..MaxOps
    BY <1>t, <2>1 DEF TypeOK, Replace, Apply
  <2>3. G \in Gestures /\ G.id = next' /\ gesture' = [gesture EXCEPT ![k] = G]
    BY <2>1, <2>2 DEF Gestures
  <2> HIDE DEF G
  <2> QED BY <2>1, <2>3, ReplaceInv
<1>4. CASE EndPair
  <2> DEFINE G == [gesture["pair"] EXCEPT !.phase = "validating", !.id = next']
  <2>1. "pair" \in Kinds /\ gesture["pair"] # NoGesture
        /\ Replace(gesture["pair"].id, GestureOp("pair"))
        /\ gesture' = [gesture EXCEPT !["pair"].phase = "validating", !["pair"].id = next']
        /\ ghosts' = ghosts /\ recorded' = recorded
    BY <1>4 DEF EndPair, In, Kinds
  <2>2. gesture["pair"] \in Gestures /\ next' \in 0..MaxOps
    BY <1>t, <2>1 DEF TypeOK, Replace, Apply
  <2>3. G \in Gestures /\ G.id = next' /\ gesture' = [gesture EXCEPT !["pair"] = G]
    BY <1>t, <2>1, <2>2 DEF Gestures, TypeOK
  <2> HIDE DEF G
  <2> QED BY <2>1, <2>3, ReplaceInv
<1>5. CASE FrameRejected
  <2> DEFINE G == [gesture["pair"] EXCEPT !.id = 0]
  <2>1. /\ "pair" \in Kinds /\ gesture["pair"] # NoGesture
        /\ gesture["pair"].phase = "dragging"
        /\ rollbackTrackedEntry(gesture["pair"].id)
        /\ gesture' = [gesture EXCEPT !["pair"].id = 0]
        /\ ghosts' = ghosts /\ recorded' = recorded
    BY <1>5 DEF FrameRejected, In, Kinds
  <2>2. gesture["pair"] \in Gestures
    BY <1>t, <2>1 DEF TypeOK
  <2>3. G \in Gestures /\ G.id = 0 /\ G.phase = "dragging"
        /\ gesture' = [gesture EXCEPT !["pair"] = G]
    BY <2>1, <2>2 DEF Gestures
  <2> HIDE DEF G
  <2>4. gesture' \in [Kinds -> Gestures \cup {NoGesture}]
        /\ \A k \in Kinds : gesture'[k] = IF k = "pair" THEN G ELSE gesture[k]
    BY <1>t, <2>3 DEF TypeOK
  <2> QED BY <2>1, <2>3, <2>4, ForgetInv DEF rollbackTrackedEntry
<1>6. ASSUME NEW k \in Kinds, CancelResize(k) PROVE IInv'
  <2>1. /\ rollbackTrackedEntry(gesture[k].id)
        /\ gesture' = [gesture EXCEPT ![k] = NoGesture]
        /\ ghosts' = ghosts /\ recorded' = recorded
    BY <1>6 DEF CancelResize
  <2>2. gesture' \in [Kinds -> Gestures \cup {NoGesture}]
        /\ \A l \in Kinds : gesture'[l] = IF l = k THEN NoGesture ELSE gesture[l]
    BY <1>t, <2>1 DEF TypeOK
  <2> QED BY <2>1, <2>2, ForgetInv DEF rollbackTrackedEntry
<1>7. ASSUME NEW i \in Ids, Rollback(i) PROVE IInv'
  <2>1. /\ rollbackTrackedEntry(i) /\ ghosts' = ghosts /\ gesture' = gesture
        /\ recorded' = recorded \ {i}
    BY <1>7 DEF Rollback
  <2>2. gesture' \in [Kinds -> Gestures \cup {NoGesture}]
    BY <1>t, <2>1 DEF TypeOK
  <2> QED BY <2>1, <2>2, ForgetInv DEF rollbackTrackedEntry
<1>8. CASE EndSingle
  <2> DEFINE i == gesture["single"].id
             o == GestureOp("single")
  <2>1. /\ "single" \in Kinds /\ gesture["single"] # NoGesture /\ next < MaxOps
        /\ rules' = RulesWithout(i) /\ cancelled' = CancelledWith(i)
        /\ entries' = entries \ {i} /\ next' = next + 1 /\ ghosts' = ghosts
        /\ op' = [op EXCEPT ![next'] = o] /\ recorded' = recorded \cup {next'}
        /\ gesture' = [gesture EXCEPT !["single"] = NoGesture]
    BY <1>8 DEF EndSingle, In, Kinds
  <2>2. o \in StyleOp
    BY <1>t, <2>1, GestureOpStyle
  <2> HIDE DEF i, o
  <2>3. /\ next \in Nat /\ next' \in Ids /\ 1..next' = (1..next) \cup {next'}
        /\ next' \notin 1..next
    BY <1>t, <2>1 DEF TypeOK, Ids
  <2>4. op' \in [Ids -> StyleOp \cup ValueOp \cup {NoOp}] /\ op'[next'] = o
        /\ \A j \in 1..next : op'[j] = op[j]
    BY <1>t, <2>1, <2>2, <2>3 DEF TypeOK, Ids
  <2>5. CancelledWith(i) \subseteq 1..next
        /\ ((entries \ {i}) \cup ghosts) \cap CancelledWith(i) = {}
    BY <1>t DEF TypeOK, CancelledWith
  <2>6. RulesWithout(i) \in [Els -> SUBSET (1..next)]
    BY <1>t, WithoutCovered
  <2>7. gesture' \in [Kinds -> Gestures \cup {NoGesture}]
        /\ \A l \in Kinds : gesture'[l] = IF l = "single" THEN NoGesture ELSE gesture[l]
    BY <1>t, <2>1 DEF TypeOK
  <2>8. TypeOK'
    <3>1. rules' \in [Els -> SUBSET (1..next')]
      BY <2>1, <2>3, <2>6
    <3>2. \A j \in 1..next' : op'[j] \in StyleOp \cup ValueOp
      BY <1>t, <2>2, <2>3, <2>4 DEF TypeOK
    <3>3. \A l \in Kinds : gesture'[l] # NoGesture => gesture'[l].id <= next'
      BY <1>t, <2>1, <2>3, <2>7 DEF TypeOK, Gestures
    <3>4. /\ \A j \in ghosts' : op'[j].kind = "ghost"
          /\ \A j \in entries' : op'[j].kind # "ghost"
      BY <1>t, <2>1, <2>4 DEF TypeOK
    <3>5. next' \in 0..MaxOps
      BY <2>3 DEF Ids
    <3>7. /\ entries \subseteq 1..next /\ ghosts \subseteq 1..next /\ recorded \subseteq 1..next
      BY <1>t DEF TypeOK
    <3>8. /\ cancelled' \subseteq 1..next' /\ entries' \subseteq 1..next'
          /\ ghosts' \subseteq 1..next' /\ recorded' \subseteq 1..next'
      BY <2>1, <2>3, <2>5, <3>7, Zenon
    <3>6. (entries' \cup ghosts') \cap cancelled' = {}
      BY <2>1, <2>5
    <3> QED BY <2>4, <2>7, <3>1, <3>2, <3>3, <3>4, <3>5, <3>6, <3>8 DEF TypeOK
  <2>9. RulesCovered'
    <3> SUFFICES ASSUME NEW e \in Els
                 PROVE  Covered(rules'[e], Live(e)', cancelled')
      BY DEF RulesCovered
    <3>1. Live(e)' = {j \in (entries \ {i}) \cup ghosts :
                        op[j].kind # "value" /\ e \in op[j].els}
      BY <1>t, <2>1, <2>4 DEF Live, TypeOK
    <3> QED BY <1>t, <2>1, <3>1, WithoutCovered
  <2>10. GesturesAreStyles'
    <3> SUFFICES ASSUME NEW l \in Kinds, gesture'[l] # NoGesture
                 PROVE  /\ gesture'[l].id # 0 => op'[gesture'[l].id].kind = "style"
                        /\ gesture'[l].phase = "validating" => gesture'[l].id # 0
      BY DEF GesturesAreStyles
    <3>1. gesture'[l] = gesture[l] /\ gesture[l].id \in 0..MaxOps /\ gesture[l].id <= next
      BY <1>t, <2>7 DEF TypeOK, Gestures
    <3> QED BY <1>t, <2>3, <2>4, <3>1 DEF GesturesAreStyles
  <2>11. NoStrayPreview'
    <3> SUFFICES ASSUME NEW j \in entries', j \notin recorded'
                 PROVE  \E l \in Kinds : gesture'[l] # NoGesture /\ j = gesture'[l].id
      BY DEF NoStrayPreview
    <3>1. PICK l \in Kinds : gesture[l] # NoGesture /\ j = gesture[l].id
      BY <1>t, <2>1 DEF NoStrayPreview
    <3> QED BY <2>1, <2>7, <3>1 DEF i
  <2> QED BY <2>8, <2>9, <2>10, <2>11 DEF IInv
<1>9. CASE CommitPair
  <2>1. /\ "pair" \in Kinds /\ gesture["pair"] # NoGesture
        /\ gesture["pair"].phase = "validating"
        /\ recorded' = recorded \cup {gesture["pair"].id}
        /\ gesture' = [gesture EXCEPT !["pair"] = NoGesture]
        /\ UNCHANGED <<next, op, rules, cancelled, ghosts, entries>>
    BY <1>9 DEF CommitPair, In, Kinds, sheetVars
  <2>2. gesture["pair"].id \in 1..next
    BY <1>t, <2>1 DEF GesturesAreStyles, TypeOK, Gestures
  <2>3. gesture' \in [Kinds -> Gestures \cup {NoGesture}]
        /\ \A l \in Kinds : gesture'[l] = IF l = "pair" THEN NoGesture ELSE gesture[l]
    BY <1>t, <2>1 DEF TypeOK
  <2>4. TypeOK'
    BY <1>t, <2>1, <2>2, <2>3 DEF TypeOK
  <2>5. RulesCovered'
    BY <1>t, <2>1 DEF RulesCovered, Live
  <2>6. GesturesAreStyles'
    BY <1>t, <2>1, <2>3 DEF GesturesAreStyles
  <2>7. NoStrayPreview'
    <3> SUFFICES ASSUME NEW j \in entries', j \notin recorded'
                 PROVE  \E l \in Kinds : gesture'[l] # NoGesture /\ j = gesture'[l].id
      BY DEF NoStrayPreview
    <3>1. PICK l \in Kinds : gesture[l] # NoGesture /\ j = gesture[l].id
      BY <1>t, <2>1 DEF NoStrayPreview
    <3> QED BY <2>1, <2>3, <3>1
  <2> QED BY <2>4, <2>5, <2>6, <2>7 DEF IInv
<1>10. CASE clearAll
  <2>1. /\ entries' = {} /\ cancelled' = cancelled \cup entries /\ ghosts' = {}
        /\ rules' = [e \in Els |-> {}] /\ recorded' = {}
        /\ UNCHANGED <<next, op, gesture>>
    BY <1>10 DEF clearAll
  <2>2. TypeOK'
    BY <1>t, <2>1 DEF TypeOK
  <2>3. RulesCovered'
    BY <2>1 DEF RulesCovered, Live, Covered
  <2>4. GesturesAreStyles' /\ NoStrayPreview'
    BY <1>t, <2>1 DEF GesturesAreStyles, NoStrayPreview
  <2> QED BY <2>2, <2>3, <2>4 DEF IInv
<1>11. ASSUME NEW e \in Els, Render(e) PROVE IInv'
  <2>1. UNCHANGED <<next, op, rules, cancelled, ghosts, entries, gesture, recorded>>
    BY <1>11 DEF Render, sheetVars
  <2> QED BY <2>1 DEF IInv, TypeOK, RulesCovered, Live, GesturesAreStyles, NoStrayPreview
<1>12. ASSUME NEW e \in Els, NEW p \in Props, applyTransform(e, p) PROVE IInv'
  <2> DEFINE o == [kind |-> "ghost", els |-> {e}, prop |-> p]
  <2>1. /\ next < MaxOps /\ next' = next + 1 /\ op' = [op EXCEPT ![next'] = o]
        /\ rules' = Written(rules, {e}, next') /\ ghosts' = ghosts \cup {next'}
        /\ UNCHANGED <<cancelled, entries, gesture, recorded>>
    BY <1>12 DEF applyTransform
  <2>2. o \in StyleOp /\ o.kind = "ghost" /\ o.els = {e}
    BY DEF StyleOp
  <2> HIDE DEF o
  <2>3. /\ next \in Nat /\ next' \in Ids /\ 1..next' = (1..next) \cup {next'}
        /\ next' \notin 1..next
    BY <1>t, <2>1 DEF TypeOK, Ids
  <2>4. op' \in [Ids -> StyleOp \cup ValueOp \cup {NoOp}] /\ op'[next'] = o
        /\ \A j \in 1..next : op'[j] = op[j]
    BY <1>t, <2>1, <2>2, <2>3 DEF TypeOK, Ids
  <2>5. TypeOK'
    <3>1. rules' \in [Els -> SUBSET (1..next')]
      BY <1>t, <2>1, <2>3 DEF TypeOK, Written
    <3>2. \A j \in 1..next' : op'[j] \in StyleOp \cup ValueOp
      BY <1>t, <2>2, <2>3, <2>4 DEF TypeOK
    <3>3. \A l \in Kinds : gesture'[l] # NoGesture => gesture'[l].id <= next'
      BY <1>t, <2>1, <2>3 DEF TypeOK, Gestures
    <3>4. /\ \A j \in ghosts' : op'[j].kind = "ghost"
          /\ \A j \in entries' : op'[j].kind # "ghost"
      BY <1>t, <2>1, <2>2, <2>4 DEF TypeOK
    <3>5. next' \in 0..MaxOps /\ gesture' \in [Kinds -> Gestures \cup {NoGesture}]
      BY <1>t, <2>1, <2>3 DEF Ids, TypeOK
    <3>6. /\ cancelled' \subseteq 1..next' /\ entries' \subseteq 1..next'
          /\ ghosts' \subseteq 1..next' /\ recorded' \subseteq 1..next'
          /\ (entries' \cup ghosts') \cap cancelled' = {}
      BY <1>t, <2>1, <2>3 DEF TypeOK
    <3> QED BY <2>4, <3>1, <3>2, <3>3, <3>4, <3>5, <3>6 DEF TypeOK
  <2>6. RulesCovered'
    <3> SUFFICES ASSUME NEW f \in Els
                 PROVE  Covered(rules'[f], Live(f)', cancelled')
      BY DEF RulesCovered
    <3>1. Covered(rules[f], Live(f), cancelled)
      BY <1>t DEF RulesCovered
    <3>2. CASE f = e
      <4>1. Live(f)' = Live(f) \cup {next'} /\ rules'[f] = rules[f] \cup {next'}
        BY <1>t, <2>1, <2>2, <2>4, <3>2 DEF Live, TypeOK, Written
      <4>2. next' \in Nat /\ next' \notin cancelled /\ rules[f] \in SUBSET Nat
            /\ \A j \in rules[f] : j <= next'
        BY <1>t, <2>1, <2>3 DEF TypeOK
      <4>3. Covered(rules[f] \cup {next'}, Live(f) \cup {next'}, cancelled)
        BY <3>1, <4>2, WritingCovers
      <4> QED BY <2>1, <4>1, <4>3
    <3>3. CASE f # e
      <4>1. Live(f)' = Live(f) /\ rules'[f] = rules[f]
        BY <1>t, <2>1, <2>2, <2>4, <3>3 DEF Live, TypeOK, Written
      <4> QED BY <2>1, <3>1, <4>1
    <3> QED BY <3>2, <3>3
  <2>7. GesturesAreStyles' /\ NoStrayPreview'
    BY <1>t, <2>1, <2>3, <2>4 DEF GesturesAreStyles, NoStrayPreview, TypeOK, Gestures
  <2> QED BY <2>5, <2>6, <2>7 DEF IInv
<1>13. ASSUME NEW i \in Ids, RemoveTransform(i) PROVE IInv'
  <2>1. /\ i \in 1..next /\ op[i].kind = "ghost"
        /\ rules' = TakenBack(rules, i) /\ cancelled' = cancelled \cup {i}
        /\ ghosts' = ghosts \ {i}
        /\ UNCHANGED <<next, op, entries, gesture, recorded>>
    BY <1>13 DEF RemoveTransform
  <2>2. i \notin entries
    BY <1>t, <2>1 DEF TypeOK
  <2>3. TypeOK'
    BY <1>t, <2>1, <2>2 DEF TypeOK, TakenBack, uncover
  <2>4. RulesCovered'
    <3> SUFFICES ASSUME NEW e \in Els
                 PROVE  Covered(rules'[e], Live(e)', cancelled')
      BY DEF RulesCovered
    <3>1. Live(e)' = Live(e) \ {i}
      BY <2>1, <2>2 DEF Live
    <3>2. rules[e] \in SUBSET Nat /\ Covered(rules[e], Live(e), cancelled)
      BY <1>t DEF TypeOK, RulesCovered
    <3>3. Covered(IF i \in rules[e] /\ \A j \in rules[e] : j <= i
                  THEN uncover(rules[e] \ {i}, cancelled) ELSE rules[e],
                  Live(e) \ {i}, cancelled \cup {i})
      BY <3>2, TakingBackCovers
    <3> QED BY <2>1, <3>1, <3>3 DEF TakenBack
  <2>5. GesturesAreStyles' /\ NoStrayPreview'
    BY <1>t, <2>1 DEF GesturesAreStyles, NoStrayPreview
  <2> QED BY <2>3, <2>4, <2>5 DEF IInv
<1>14. CASE UNCHANGED vars
  BY <1>14 DEF vars, sheetVars, pageVars, IInv, TypeOK, RulesCovered, Live,
     GesturesAreStyles, NoStrayPreview
<1>15. CASE Gesturing
  BY <1>2, <1>3, <1>4, <1>5, <1>6, <1>8, <1>9, <1>15 DEF Gesturing, Kinds
<1>16. CASE Package
  BY <1>7, <1>12, <1>13, <1>16 DEF Package
<1>17. CASE \E e \in Els, p \in Props :
              PanelEdit([kind |-> "style", els |-> {e}, prop |-> p])
  <2>1. PICK e \in Els, p \in Props : PanelEdit([kind |-> "style", els |-> {e}, prop |-> p])
    BY <1>17
  <2>2. [kind |-> "style", els |-> {e}, prop |-> p] \in StyleOp
    BY DEF StyleOp
  <2> QED BY <1>1, <2>1, <2>2
<1>18. CASE \E o \in ValueOp : PanelEdit(o)
  BY <1>1, <1>18 DEF ValueOp
<1> QED BY <1>10, <1>11, <1>14, <1>15, <1>16, <1>17, <1>18 DEF Next

------------------------------------------------------------------------------

\* The strengthened invariant holds in every state.
THEOREM Invariant == Spec => []IInv
  BY InitInv, NextInv, PTL DEF Spec

\* Types, the order of operation numbers, and that nothing rolled back is in effect.
THEOREM TypeCorrect == Spec => []TypeOK
<1>1. IInv => TypeOK
  BY DEF IInv
<1> QED BY <1>1, Invariant, PTL

\* Whatever the order in which overrides of an element are applied, rolled back
\* and cleared, its rule is that of the newest one in effect.
THEOREM NewestShows == Spec => []NewestLiveShows
<1>1. IInv => NewestLiveShows
  BY DEF IInv, RulesCovered, Covered, NewestLiveShows
<1> QED BY <1>1, Invariant, PTL

\* Two gestures, edits and clears in any order leave no preview of a gesture but
\* that of its last frame.
THEOREM NoPreviewIsStray == Spec => []NoStrayPreview
<1>1. IInv => NoStrayPreview
  BY DEF IInv
<1> QED BY <1>1, Invariant, PTL

------------------------------------------------------------------------------
(* What a clear leaves on the page, where rollbacks come in no other order  *)
(* than that of the extension.                                             *)

\* A set of numbers that is not empty has a least one.
LEMMA LeastExists ==
  ASSUME NEW S \in SUBSET Nat, S # {}
  PROVE  \E m \in S : \A j \in S : m <= j
<1>1. PICK m \in S : \A j \in S : <<j, m>> \notin OpToRel(<, Nat)
  BY WFMin, NatLessThanWellFounded
<1>2. \A j \in S : ~(j < m)
  BY <1>1 DEF OpToRel
<1> QED BY <1>2

Contents == [by : {"app", "edit"}, n : Nat]

\* An operation that has saved what an edit had written is not the oldest.
OldestSavedTheApp ==
  /\ value \in [Els -> Contents]
  /\ saved \in [Ids -> Contents]
  /\ rendered \in [Els -> Nat]
  /\ \A e \in Els :
       /\ Overwriting(e) = {} => value[e].by = "app"
       /\ \A i \in Overwriting(e) :
            saved[i].by = "app" \/ \E j \in Overwriting(e) : j < i

\* Rolling back every entry from the newest to the oldest restores what the
\* application has given the element.
LEMMA RestoredIsTheApps ==
  ASSUME TypeOK, OldestSavedTheApp, NEW e \in Els
  PROVE  Restored(e) \in Contents /\ Restored(e).by = "app"
<1>1. CASE Overwriting(e) = {}
  BY <1>1 DEF Restored, OldestSavedTheApp
<1>2. CASE Overwriting(e) # {}
  <2>1. Overwriting(e) \in SUBSET Nat /\ Overwriting(e) \subseteq Ids
    <3>1. 1..next \subseteq Ids /\ Ids \subseteq Nat
      BY PreviewAssumption DEF TypeOK, Ids
    <3>2. Overwriting(e) \subseteq 1..next
      BY DEF Overwriting, TypeOK
    <3> QED BY <3>1, <3>2
  <2>2. PICK m \in Overwriting(e) : \A j \in Overwriting(e) : m <= j
    BY <1>2, <2>1, LeastExists
  <2>3. m = CHOOSE i \in Overwriting(e) : \A j \in Overwriting(e) : i <= j
    BY <2>1, <2>2
  <2>4. saved[m].by = "app" /\ saved[m] \in Contents
    BY <2>1, <2>2 DEF OldestSavedTheApp
  <2> QED BY <1>2, <2>3, <2>4 DEF Restored
<1> QED BY <1>1, <1>2

\* A step that rolls back what is no value leaves the page as it is.
LEMMA StyleRollback ==
  ASSUME TypeOK, OldestSavedTheApp, NEW i, i \in entries => op[i].kind # "value"
  PROVE  ValuesWithout(i) = value
  BY DEF ValuesWithout, OldestSavedTheApp

\* The page of a step that writes no value and consumes no entry of one.
LEMMA PageUntouched ==
  ASSUME TypeOK, OldestSavedTheApp, value' = value, saved' = saved, rendered' = rendered,
         \A e \in Els : Overwriting(e)' = Overwriting(e)
  PROVE  OldestSavedTheApp'
  BY DEF OldestSavedTheApp

\* The rollback of the newest overwriting of an element: what is left has the
\* oldest it had.
LEMMA RollbackInTurn ==
  ASSUME IInv, OldestSavedTheApp, NEW i \in Ids, Rollback(i), ~outOfTurn'
  PROVE  OldestSavedTheApp'
<1> USE PreviewAssumption
<1>t. TypeOK
  BY DEF IInv
<1>1. /\ i \in entries /\ entries' = entries \ {i} /\ value' = ValuesWithout(i)
      /\ UNCHANGED <<next, op, saved, rendered>>
      /\ \A e \in Els : i \in Overwriting(e) => \A j \in Overwriting(e) : ~(i < j)
  BY DEF Rollback, rollbackTrackedEntry
<1>2. \A e \in Els : Overwriting(e)' = Overwriting(e) \ {i}
  BY <1>1 DEF Overwriting
<1>3. \A e \in Els : \A j \in Overwriting(e) : j \in Ids
  <2>1. \A j \in 1..next : j \in Ids
    BY <1>t DEF TypeOK, Ids
  <2> QED BY <1>t, <2>1 DEF Overwriting, TypeOK
<1>4. \A e \in Els : value'[e] = IF i \in Overwriting(e) THEN saved[i] ELSE value[e]
  BY <1>1 DEF ValuesWithout, Overwriting
<1>5. value' \in [Els -> Contents]
  BY <1>1, <1>4 DEF ValuesWithout, OldestSavedTheApp
<1>6. ASSUME NEW e \in Els, Overwriting(e)' = {} PROVE value'[e].by = "app"
  <2>1. CASE i \in Overwriting(e)
    <3>1. Overwriting(e) = {i}
      BY <1>2, <1>6, <2>1
    <3>2. saved[i].by = "app"
      BY <3>1 DEF OldestSavedTheApp, Ids
    <3> QED BY <1>4, <2>1, <3>2
  <2>2. CASE i \notin Overwriting(e)
    BY <1>2, <1>4, <1>6, <2>2 DEF OldestSavedTheApp
  <2> QED BY <2>1, <2>2
<1>7. ASSUME NEW e \in Els, NEW m \in Overwriting(e)'
      PROVE  saved'[m].by = "app" \/ \E j \in Overwriting(e)' : j < m
  <2>1. m \in Overwriting(e) /\ m # i
    BY <1>2, <1>7
  <2>2. saved[m].by = "app" \/ \E j \in Overwriting(e) : j < m
    BY <2>1 DEF OldestSavedTheApp
  <2>3. i \in Overwriting(e) => ~(i < m)
    BY <1>1, <2>1
  <2>4. (\E j \in Overwriting(e) : j < m) => \E j \in Overwriting(e) \ {i} : j < m
    BY <2>3
  <2> QED BY <1>1, <1>2, <2>2, <2>4
<1>8. saved' \in [Ids -> Contents] /\ rendered' \in [Els -> Nat]
  BY <1>1 DEF OldestSavedTheApp
<1> QED BY <1>5, <1>6, <1>7, <1>8 DEF OldestSavedTheApp

\* The oldest saved value of an element is the one of the application, until a value is
\* rolled back out of turn.
LEMMA PageInv ==
  IInv /\ OldestSavedTheApp /\ [Next]_vars /\ ~outOfTurn' => OldestSavedTheApp'
<1> SUFFICES ASSUME IInv, OldestSavedTheApp, [Next]_vars, ~outOfTurn'
             PROVE  OldestSavedTheApp'
  OBVIOUS
<1> USE PreviewAssumption, NoGestureAssumption
<1>t. TypeOK /\ GesturesAreStyles
  BY DEF IInv
<1>g. ASSUME NEW k \in Kinds, gesture[k] # NoGesture
      PROVE  gesture[k].id \in entries => op[gesture[k].id].kind # "value"
  BY <1>t, <1>g DEF GesturesAreStyles, TypeOK
<1>n. ASSUME NEW o, next < MaxOps, next' = next + 1, op' = [op EXCEPT ![next'] = o]
      PROVE  /\ next' \in Ids /\ next' \notin 1..next /\ op'[next'] = o
             /\ \A j \in 1..next : op'[j] = op[j] /\ j < next'
  BY <1>t, <1>n DEF TypeOK, Ids
<1>1. ASSUME NEW k \in Kinds, gesture[k] # NoGesture,
             Replace(gesture[k].id, GestureOp(k)), rendered' = rendered
      PROVE  OldestSavedTheApp'
  <2>1. GestureOp(k).kind = "style"
    BY <1>1, <1>t, GestureOpStyle
  <2>2. /\ next < MaxOps /\ next' = next + 1 /\ op' = [op EXCEPT ![next'] = GestureOp(k)]
        /\ entries' = (entries \ {gesture[k].id}) \cup {next'}
        /\ value' = ValuesWithout(gesture[k].id) /\ saved' = saved
    BY <1>1, <2>1 DEF Replace, Apply
  <2>3. value' = value
    BY <1>1, <1>g, <1>t, <2>2, StyleRollback
  <2>4. ASSUME NEW e \in Els PROVE Overwriting(e)' = Overwriting(e)
    <3>1. op'[next'].kind # "value" /\ \A j \in entries : op'[j] = op[j] /\ j # next'
      BY <1>n, <1>t, <2>1, <2>2 DEF TypeOK
    <3>2. gesture[k].id \in entries => op[gesture[k].id].kind # "value"
      BY <1>1, <1>g
    <3> QED BY <2>2, <3>1, <3>2 DEF Overwriting
  <2> QED BY <1>1, <1>t, <2>2, <2>3, <2>4, PageUntouched
<1>2. ASSUME NEW i, i \in entries => op[i].kind # "value",
             value' = ValuesWithout(i), entries' = entries \ {i}, saved' = saved,
             rendered' = rendered, \A j \in 1..next : op'[j] = op[j]
      PROVE  OldestSavedTheApp'
  <2>1. value' = value
    BY <1>2, <1>t, StyleRollback
  <2>2. \A e \in Els : Overwriting(e)' = Overwriting(e)
    BY <1>2, <1>t DEF Overwriting, TypeOK
  <2> QED BY <1>2, <1>t, <2>1, <2>2, PageUntouched
<1>3. CASE Gesturing
  <2>1. ASSUME NEW k \in Kinds, NEW E, NEW p, BeginResize(k, E, p)
        PROVE  OldestSavedTheApp'
    BY <2>1, <1>t, PageUntouched DEF BeginResize, pageVars, Overwriting
  <2>2. ASSUME NEW k \in Kinds, PreviewFrame(k) PROVE OldestSavedTheApp'
    BY <2>2, <1>1 DEF PreviewFrame, In
  <2>3. CASE EndPair
    BY <2>3, <1>1 DEF EndPair, In, Kinds
  <2>4. CASE FrameRejected
    BY <2>4, <1>2, <1>g DEF FrameRejected, In, Kinds, rollbackTrackedEntry
  <2>5. ASSUME NEW k \in Kinds, CancelResize(k) PROVE OldestSavedTheApp'
    BY <2>5, <1>2, <1>g DEF CancelResize, rollbackTrackedEntry
  <2>6. CASE EndSingle
    <3>1. /\ "single" \in Kinds /\ gesture["single"] # NoGesture
          /\ value' = ValuesWithout(gesture["single"].id)
          /\ entries' = entries \ {gesture["single"].id}
          /\ UNCHANGED <<saved, rendered>>
          /\ next < MaxOps /\ next' = next + 1
          /\ op' = [op EXCEPT ![next'] = GestureOp("single")]
      BY <2>6 DEF EndSingle, In, Kinds
    <3> QED BY <3>1, <1>2, <1>g, <1>n
  <2>7. CASE CommitPair
    BY <2>7, <1>t, PageUntouched DEF CommitPair, pageVars, Overwriting
  <2> QED BY <1>3, <2>1, <2>2, <2>3, <2>4, <2>5, <2>6, <2>7 DEF Gesturing, Kinds
<1>4. CASE clearAll
  <2>1. \A e \in Els : Overwriting(e)' = {}
    BY <1>4 DEF clearAll, Overwriting
  <2>2. \A e \in Els : value'[e] = Restored(e)
    BY <1>4 DEF clearAll
  <2>3. value' \in [Els -> Contents] /\ \A e \in Els : value'[e].by = "app"
    BY <1>4, <1>t, <2>2, RestoredIsTheApps DEF clearAll
  <2> QED BY <1>4, <2>1, <2>3 DEF clearAll, OldestSavedTheApp
<1>5. ASSUME NEW e \in Els, Render(e) PROVE OldestSavedTheApp'
  <2>1. rendered' \in [Els -> Nat] /\ rendered'[e] \in Nat
    BY <1>5 DEF Render, OldestSavedTheApp
  <2>2. ByApp(rendered'[e]) \in Contents /\ ByApp(rendered'[e]).by = "app"
    BY <2>1 DEF ByApp, Contents
  <2>3. value' = [value EXCEPT ![e] = ByApp(rendered'[e])] /\ UNCHANGED <<op, entries, saved>>
    BY <1>5 DEF Render
  <2>4. \A f \in Els : Overwriting(f)' = Overwriting(f)
    BY <2>3 DEF Overwriting
  <2> QED BY <2>1, <2>2, <2>3, <2>4 DEF OldestSavedTheApp
<1>6. ASSUME NEW e \in Els, NEW p \in Props,
             PanelEdit([kind |-> "style", els |-> {e}, prop |-> p])
      PROVE  OldestSavedTheApp'
  <2> DEFINE o == [kind |-> "style", els |-> {e}, prop |-> p]
  <2>1. o.kind = "style"
    OBVIOUS
  <2> HIDE DEF o
  <2>2. /\ next < MaxOps /\ next' = next + 1 /\ op' = [op EXCEPT ![next'] = o]
        /\ entries' = entries \cup {next'} /\ value' = value
        /\ UNCHANGED <<saved, rendered>>
    BY <1>6, <2>1 DEF PanelEdit, applyOperation, Apply, o
  <2>3. \A f \in Els : Overwriting(f)' = Overwriting(f)
    BY <1>n, <1>t, <2>1, <2>2 DEF Overwriting, TypeOK
  <2> QED BY <1>t, <2>2, <2>3, PageUntouched
<1>7. ASSUME NEW e \in Els, NEW p \in Props,
             PanelEdit([kind |-> "value", els |-> {e}, prop |-> p])
      PROVE  OldestSavedTheApp'
  <2> DEFINE o == [kind |-> "value", els |-> {e}, prop |-> p]
  <2>1. o.kind = "value" /\ o.els = {e} /\ e = CHOOSE x \in o.els : TRUE
    OBVIOUS
  <2> HIDE DEF o
  <2>2. /\ next < MaxOps /\ next' = next + 1 /\ op' = [op EXCEPT ![next'] = o]
        /\ entries' = entries \cup {next'} /\ value' = [value EXCEPT ![e] = ByEdit(next')]
        /\ saved' = [saved EXCEPT ![next'] = value[e]] /\ rendered' = rendered
    BY <1>7, <2>1 DEF PanelEdit, applyOperation, Apply, o
  <2>3. Overwriting(e)' = Overwriting(e) \cup {next'}
    BY <1>n, <1>t, <2>1, <2>2 DEF Overwriting, TypeOK
  <2>4. \A f \in Els \ {e} : Overwriting(f)' = Overwriting(f)
    BY <1>n, <1>t, <2>1, <2>2 DEF Overwriting, TypeOK
  <2>5. next' \in Ids /\ \A f \in Els : \A j \in Overwriting(f) : j \in Ids /\ j < next'
    BY <1>n, <1>t, <2>2 DEF Overwriting, TypeOK, Ids
  <2>6. value' \in [Els -> Contents] /\ saved' \in [Ids -> Contents]
    BY <2>2, <2>5 DEF OldestSavedTheApp, ByEdit, Contents, Ids
  <2>7. /\ saved'[next'] = value[e] /\ \A j \in Ids : j < next' => saved'[j] = saved[j]
        /\ \A f \in Els \ {e} : value'[f] = value[f]
    BY <2>2, <2>5 DEF OldestSavedTheApp, Ids
  <2> QED BY <2>2, <2>3, <2>4, <2>5, <2>6, <2>7 DEF OldestSavedTheApp
<1>8. CASE Package
  <2>1. ASSUME NEW i \in Ids, Rollback(i) PROVE OldestSavedTheApp'
    BY <2>1, RollbackInTurn
  <2>2. ASSUME NEW i \in Ids, RemoveTransform(i) PROVE OldestSavedTheApp'
    BY <2>2, <1>t, PageUntouched DEF RemoveTransform, pageVars, Overwriting
  <2>3. ASSUME NEW e \in Els, NEW p \in Props, applyTransform(e, p)
        PROVE  OldestSavedTheApp'
    <3> DEFINE o == [kind |-> "ghost", els |-> {e}, prop |-> p]
    <3>1. o.kind # "value"
      OBVIOUS
    <3> HIDE DEF o
    <3>2. /\ next < MaxOps /\ next' = next + 1 /\ op' = [op EXCEPT ![next'] = o]
          /\ UNCHANGED <<entries, value, saved, rendered>>
      BY <2>3 DEF applyTransform, pageVars, o
    <3>3. \A f \in Els : Overwriting(f)' = Overwriting(f)
      BY <1>n, <1>t, <3>1, <3>2 DEF Overwriting, TypeOK
    <3> QED BY <1>t, <3>2, <3>3, PageUntouched
  <2> QED BY <1>8, <2>1, <2>2, <2>3 DEF Package
<1>9. CASE UNCHANGED vars
  BY <1>9, <1>t, PageUntouched DEF vars, pageVars, Overwriting
<1>10. CASE \E o \in ValueOp : PanelEdit(o)
  BY <1>7, <1>10 DEF ValueOp
<1> QED BY <1>3, <1>4, <1>5, <1>6, <1>8, <1>9, <1>10 DEF Next

\* A step never forgets that a value was rolled back out of turn.
LEMMA OutOfTurnStays == outOfTurn /\ [Next]_vars => outOfTurn'
<1> SUFFICES ASSUME outOfTurn, [Next]_vars PROVE outOfTurn'
  OBVIOUS
<1>1. CASE Gesturing
  BY <1>1 DEF Gesturing, BeginResize, FrameRejected, EndSingle, EndPair, CommitPair,
     PreviewFrame, CancelResize
<1>2. CASE Package
  BY <1>2 DEF Package, Rollback, RemoveTransform, applyTransform
<1>3. ASSUME NEW o, PanelEdit(o) PROVE outOfTurn'
  BY <1>3 DEF PanelEdit
<1>4. CASE clearAll
  BY <1>4 DEF clearAll
<1>5. ASSUME NEW e, Render(e) PROVE outOfTurn'
  BY <1>5 DEF Render
<1>6. CASE UNCHANGED vars
  BY <1>6 DEF vars
<1> QED BY <1>1, <1>2, <1>3, <1>4, <1>5, <1>6 DEF Next

\* Where no edit is tracked the page has what the application gave it, whatever
\* gestures, edits and clears came before, as long as no value was rolled back
\* before a newer one of its element.
THEOREM ClearLeavesNothing == Spec => []NothingIsLeftBehind
<1> DEFINE Orderly == ~outOfTurn => OldestSavedTheApp
<1>1. Init => Orderly
  BY DEF Init, OldestSavedTheApp, Overwriting, Contents, ByApp
<1>2. IInv /\ Orderly => NothingIsLeftBehind
  BY DEF OldestSavedTheApp, NothingIsLeftBehind
<1>3. IInv /\ Orderly /\ [Next]_vars => Orderly'
  BY PageInv, OutOfTurnStays
<1> HIDE DEF Orderly
<1> QED BY <1>1, <1>2, <1>3, Invariant, PTL DEF Spec

\* What the preview tracks keeps its shape, and the newest override in effect is
\* the one in force (preview-manager.ts, style-adapter.ts).
THEOREM OverridesStaySound == Spec => []OverridesAreSound
<1>1. TypeOK /\ NewestLiveShows => OverridesAreSound
  BY DEF OverridesAreSound
<1> QED BY <1>1, TypeCorrect, NewestShows, PTL
==============================================================================
