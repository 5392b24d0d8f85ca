--------------------------- MODULE GroupSelection ---------------------------
(***************************************************************************)
(* Selecting several elements: the overlay's controller (shift-click,      *)
(* marquee, reset) with the group it publishes to the panel; and, as the   *)
(* interaction package has it, the multi-select reducer with the group     *)
(* move that works on its group.                                           *)
(***************************************************************************)
EXTENDS SequencesExt

CONSTANTS
  Items,      \* elements of the page
  Context(_), \* light-dom or open-shadow-root, of an element
  Chain(_),   \* the ancestors of an element, the root first
  NoGroup     \* null

Ancestors == UNION {ToSet(Chain(e)) : e \in Items}

ASSUME GroupAssumption ==
  /\ \A e \in Items : Chain(e) \in Seq(Ancestors)
  /\ NoGroup \notin [members : Seq(Items), parent : Ancestors \cup {NoGroup}]

VARIABLES
  picked,  \* the controller's selection, in the order of its Map
  shown,   \* the group the panel last heard of, or NoGroup
  members, \* the reducer's members
  group,   \* the reducer's group, or NoGroup
  move     \* the state of the group move

groupVars == <<picked, shown, members, group, move>>

Distinct == {s \in SeqOf(Items, 3) : \A i, j \in DOMAIN s : i # j => s[i] # s[j]}

\* evaluateGroupConstraints: at least two members, no two of them the same, all of
\* one frame (the extension builds members of the top frame only) and shadow kind.
evaluateGroupConstraints(s) ==
  /\ Len(s) >= 2
  /\ \A i, j \in DOMAIN s : Context(s[i]) = Context(s[j])
  /\ \A i, j \in DOMAIN s : i # j => s[i] # s[j]

\* The deepest ancestor that stands at the same depth of every chain, below which
\* the chains part; NoGroup stands for null.
computeCommonParent(chains) ==
  LET Agree(d) == \A c \in chains : Len(c) >= d /\ \A b \in chains : b[d] = c[d]
      depths == {d \in 1..10 : \A k \in 1..d : Agree(k)}
  IN  IF depths = {} THEN NoGroup
      ELSE (CHOOSE c \in chains : TRUE)[CHOOSE d \in depths : \A k \in depths : k <= d]

createMultiSelectGroup(s) ==
  [members |-> s, parent |-> computeCommonParent({Chain(e) : e \in ToSet(s)})]

GroupInit ==
  /\ picked = <<>> /\ shown = NoGroup
  /\ members = <<>> /\ group = NoGroup
  /\ move = [kind |-> "idle", group |-> NoGroup]

------------------------------------------------------------------------------
(* multi-select-controller.ts                                              *)

groupAcceptable(s) == Len(s) < 2 \/ evaluateGroupConstraints(s)

\* A valid group goes to the panel; null goes only if a group went before.
publish(s) ==
  shown' = IF Len(s) < 2 THEN NoGroup ELSE createMultiSelectGroup(s)

\* The Map without its entry for e, or with one at its end.
Toggled(s, e) ==
  IF e \in ToSet(s) THEN RemoveAt(s, CHOOSE i \in DOMAIN s : s[i] = e) ELSE Append(s, e)

\* An element that does not fit is refused and the selection stays.
toggle(e) ==
  /\ groupAcceptable(Toggled(picked, e))
  /\ picked' = Toggled(picked, e)
  /\ publish(picked')
  /\ UNCHANGED <<members, group, move>>

setFromMarquee(s) ==
  /\ groupAcceptable(s)
  /\ picked' = s
  /\ publish(s)
  /\ UNCHANGED <<members, group, move>>

reset ==
  /\ picked' = <<>>
  /\ shown' = NoGroup
  /\ UNCHANGED <<members, group, move>>

------------------------------------------------------------------------------
(* multi-select-transitions.ts                                             *)

\* Below two members the group waits; from two on it is made, or everything goes.
rebuild(s) ==
  LET fits == Len(s) < 2 \/ evaluateGroupConstraints(s) IN
  /\ members' = IF fits THEN s ELSE <<>>
  /\ group' = IF fits /\ Len(s) >= 2 THEN createMultiSelectGroup(s) ELSE NoGroup
  /\ UNCHANGED <<picked, shown, move>>

shiftClick(e) == rebuild(Toggled(members, e))
marqueeSelect(s) == rebuild(s)
groupClear == rebuild(<<>>)

------------------------------------------------------------------------------
(* group-move-transitions.ts                                               *)

Moves(m) == move' = m /\ UNCHANGED <<picked, shown, members, group>>

\* The group is captured as it is, whatever gesture is under way.
begin ==
  /\ group # NoGroup
  /\ Moves([kind |-> "pending", group |-> group])

\* The order arrays are as long as the group; a parent that is not the common one
\* of the captured group rejects the gesture.
reorder(parent, order) ==
  /\ move.kind = "pending"
  /\ IF move.group.parent = NoGroup \/ move.group.parent # parent
        \/ Len(order) # Len(move.group.members)
     THEN Moves([kind |-> "rejected", group |-> NoGroup])
     ELSE Moves([kind |-> "committed", group |-> move.group])

reparent(indices) ==
  /\ move.kind = "pending"
  /\ IF Len(indices) # Len(move.group.members)
     THEN Moves([kind |-> "rejected", group |-> NoGroup])
     ELSE Moves([kind |-> "committed", group |-> move.group])

cancelGroupMove == Moves([kind |-> "rejected", group |-> NoGroup])

GroupNext ==
  \/ \E e \in Items : toggle(e) \/ shiftClick(e)
  \/ \E s \in Distinct : setFromMarquee(s) \/ marqueeSelect(s) \/ reparent(s)
  \/ \E e \in Items, s \in Distinct : reorder(e, s)
  \/ reset \/ groupClear \/ begin \/ cancelGroupMove

------------------------------------------------------------------------------
(* Properties.                                                             *)

\* What the panel shows as the group is what is selected, of one shadow context and
\* with the parent they share, after any mix of clicks, refusals and resets; and what is
\* moved is a group that was selected as a whole.
PanelShowsTheGroup ==
  /\ shown # NoGroup <=> Len(picked) >= 2
  /\ shown # NoGroup =>
       /\ shown.members = picked
       /\ \A e, f \in ToSet(picked) : Context(e) = Context(f)
       /\ shown.parent # NoGroup => \A e \in ToSet(picked) : shown.parent \in ToSet(Chain(e))
  /\ group # NoGroup => group = createMultiSelectGroup(members) /\ Len(members) >= 2
  /\ move.kind \in {"pending", "committed"} => /\ Len(move.group.members) >= 2
                                              /\ move.group = createMultiSelectGroup(move.group.members)
==============================================================================
