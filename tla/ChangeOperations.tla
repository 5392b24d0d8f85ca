-------------------------- MODULE ChangeOperations --------------------------
(***************************************************************************)
(* The change IR: operations, their inverses, the slots on which two of    *)
(* them conflict, the merge of two change sets, and the versions of a      *)
(* change set that are read.  What an operation carries is abstracted to   *)
(* the element and the name it is about and its values before and after.   *)
(***************************************************************************)
EXTENDS FlexLayout

Missing == "missing"   \* an optional field that is absent
Empty == "empty"       \* "", or nothing there

\* Kinds whose previous value is optional, and kinds that carry both values.
Recording == {"style-edit", "set-attribute", "set-component-prop", "text-edit", "pseudo-style-edit",
              "set-container-layout", "breakpoint-style-edit", "breakpoint-text-edit"}
Swapping == {"class-replace", "breakpoint-class-edit", "position-element", "resize-element", "reorder-child",
             "reparent-element", "group-reorder", "group-reparent", "align-elements", "distribute-elements",
             "grid-reorder", "grid-span"}
Opposites == {{"class-add", "class-remove"}, {"insert-element", "remove-element"}, {"wrap-elements", "unwrap-element"}}
OPERATION_KINDS ==
  Recording \cup Swapping \cup UNION Opposites
  \cup {"remove-style", "duplicate-element", "resize-flex-pair", "set-child-sizing", "multi-select-group",
        "screenshot-crop-ref", "suggested-diff"}

\* An operation: `other` is the copy of a duplicate, the neighbour of a pair, the container of a child.
Change(kind, id, target, other, name, from, to) ==
  [kind |-> kind, id |-> id, inverseOf |-> Missing, target |-> target, other |-> other, name |-> name,
   from |-> from, to |-> to]

OrEmpty(v) == IF v = Missing THEN Empty ELSE v

inverseBase(op, id) == [op EXCEPT !.id = id, !.inverseOf = op.id]
Swapped(op, id) == [inverseBase(op, id) EXCEPT !.from = op.to, !.to = op.from]
OppositeOf(kind) == CHOOSE k \in UNION Opposites : k # kind /\ {k, kind} \in Opposites

\* A child's sizing (its `name`) stays in its inverse, only the declarations are swapped; a suggestion's inverse is not applied.
computeInverse(op, id) ==
  CASE op.kind \in Swapping \cup {"resize-flex-pair", "set-child-sizing"} -> Swapped(op, id)
    [] op.kind \in Recording \cup {"multi-select-group"} -> [Swapped(op, id) EXCEPT !.to = OrEmpty(op.from)]
    [] op.kind = "remove-style" ->
         [inverseBase(op, id) EXCEPT !.kind = "style-edit", !.from = OrEmpty(op.from), !.to = OrEmpty(op.from)]
    [] op.kind = "duplicate-element" -> [inverseBase(op, id) EXCEPT !.kind = "remove-element", !.target = op.other]
    [] op.kind \in UNION Opposites -> [inverseBase(op, id) EXCEPT !.kind = OppositeOf(op.kind)]
    [] op.kind = "screenshot-crop-ref" -> inverseBase(op, id)
    [] op.kind = "suggested-diff" -> [inverseBase(op, id) EXCEPT !.to = Empty]

\* OperationSchema: a group has members, a class and an element of a pair a name, a pair distinct elements.
sameElementIdentity(a, b) == a.id = b.id \/ (a.durable # Missing /\ a.durable = b.durable)
OperationSchema(op) ==
  /\ op.kind \in OPERATION_KINDS
  /\ op.kind \in {"multi-select-group", "class-replace", "breakpoint-class-edit"} => op.to # Empty
  /\ op.kind \in {"class-replace", "breakpoint-class-edit"} => op.from # Empty
  /\ op.kind \in Recording \cup Swapping => op.to # Missing
  /\ op.kind = "resize-flex-pair" =>
       Missing \notin {op.target.durable, op.other.durable} /\ ~sameElementIdentity(op.target, op.other)

\* FlexAxisMetadataSchema: a pair's axis, checked again when the operation is read.
ReadAxis(c) ==
  LET vertical == c.writingMode # "horizontal-tb"
      inline == c.flexDirection \in {"row", "row-reverse"}
      sign == CASE inline -> IF c.direction = "rtl" THEN -1 ELSE 1
                [] OTHER -> IF c.writingMode = "vertical-rl" THEN -1 ELSE 1
  IN  [axis |-> IF inline = vertical THEN "y" ELSE "x",
       sign |-> IF c.flexDirection \in {"row-reverse", "column-reverse"} THEN -sign ELSE sign]

-----------------------------------------------------------------------------
(* Conflicts and merges: merge.ts, conflict-signatures.ts *)

CssKinds == {"style-edit", "remove-style", "resize-element"}
FLEX_PAIR_CSS_PROPERTIES == {"flex-grow", "flex-shrink", "flex-basis"}
Unsigned == {"multi-select-group", "align-elements", "distribute-elements", "screenshot-crop-ref", "suggested-diff", "pseudo-style-edit"}

\* The slots of an operation by the runtime ids of the elements.
conflictSignatures(op) ==
  CASE op.kind \in CssKinds -> {<<"css", op.target.id, op.name>>}
    [] op.kind = "resize-flex-pair" -> {<<"css", e.id, p>> : e \in {op.target, op.other}, p \in FLEX_PAIR_CSS_PROPERTIES}
    [] op.kind = "class-replace" -> {<<"class", op.target.id, op.from>>}
    [] op.kind = "breakpoint-class-edit" -> {<<"bp-class", op.target.id, op.name, op.from>>}
    [] op.kind \in {"class-add", "class-remove"} -> {<<"class", op.target.id, op.name>>}
    [] op.kind \in {"insert-element", "remove-element"} -> {<<"structural-element", op.target.id, Empty>>}
    [] op.kind = "duplicate-element" -> {<<"structural-element", op.other.id, Empty>>}
    [] op.kind \in {"wrap-elements", "unwrap-element"} -> {<<"structural-wrapper", op.target.id, Empty>>}
    [] op.kind \in Unsigned -> {}
    [] OTHER -> {<<op.kind, op.target.id, op.name>>}

isInversePair(a, b) == b.inverseOf = a.id \/ a.inverseOf = b.id

NothingMade == <<"nothing made">>
NothingUnmade == <<"nothing unmade">>
Made(op) == CASE op.kind = "insert-element" -> <<"element", op.target.id>>
              [] op.kind = "duplicate-element" -> <<"element", op.other.id>>
              [] op.kind = "wrap-elements" -> <<"wrapper", op.target.id>>
              [] OTHER -> NothingMade
Unmade(op) == CASE op.kind = "remove-element" -> <<"element", op.target.id>>
                [] op.kind = "unwrap-element" -> <<"wrapper", op.target.id>>
                [] OTHER -> NothingUnmade
\* Mutant: edits that are linked as inverses cancel too.
structuralInversePair_Linked(a, b) == Made(a) = Unmade(b) \/ Made(b) = Unmade(a) \/ isInversePair(a, b)

\* By what is made and unmade; where an element was or is put is not compared.
structuralInversePair(a, b) == Made(a) = Unmade(b) \/ Made(b) = Unmade(a)

\* A pair also conflicts with an edit of an alias of one of its members.
cssConflictSlots(op) ==
  CASE op.kind \in CssKinds -> {<<op.target, op.name>>}
    [] op.kind = "resize-flex-pair" -> {op.target, op.other} \X FLEX_PAIR_CSS_PROPERTIES
    [] OTHER -> {}
flexPairAlias(a, b) ==
  /\ "resize-flex-pair" \in {a.kind, b.kind}
  /\ \E s \in cssConflictSlots(a), t \in cssConflictSlots(b) : s[2] = t[2] /\ sameElementIdentity(s[1], t[1])

\* Each operation in turn is cancelled with the first later one that undoes it by construction.
Cancelled(ops) ==
  LET Step(gone, i) ==
        LET later == {j \in (i + 1)..Len(ops) : j \notin gone /\ structuralInversePair(ops[i], ops[j])}
        IN  IF i \in gone \/ later = {} THEN gone ELSE gone \cup {i, Min(later)}
  IN  FoldLeft(Step, {}, [i \in DOMAIN ops |-> i])
mergeOperations(ops) ==
  LET gone == Cancelled(ops) IN
  FoldLeft(LAMBDA kept, i : IF i \in gone THEN kept ELSE Append(kept, ops[i]), <<>>, [i \in DOMAIN ops |-> i])

conflictsOf(a, b) ==
  {<<x, y>> \in Range(a) \X Range(b) :
     \/ /\ conflictSignatures(x) \cap conflictSignatures(y) # {}
        /\ ~structuralInversePair(x, y) /\ ~isInversePair(x, y)
     \/ flexPairAlias(x, y) /\ ~isInversePair(x, y)}

-----------------------------------------------------------------------------
(* Change sets: [version, operations] *)

CHANGE_IR_SCHEMA_VERSION == "2.1.0"
LEGACY_CHANGE_IR_SCHEMA_VERSION == "2.0.0"
NoPair(ops) == \A op \in Range(ops) : op.kind # "resize-flex-pair"

\* What is read from the three versions: a pair needs the current one.
ChangeSetSchema(set) ==
  /\ \A op \in Range(set.operations) : OperationSchema(op)
  /\ set.version = CHANGE_IR_SCHEMA_VERSION \/ (set.version \in {LEGACY_CHANGE_IR_SCHEMA_VERSION, "1"} /\ NoPair(set.operations))
canonicalizeParsedChangeSet(set) == [set EXCEPT !.version = CHANGE_IR_SCHEMA_VERSION]

mergeChangeSets(a, b) ==
  IF conflictsOf(a.operations, b.operations) # {} THEN Failure("conflict")
  ELSE [ok |-> TRUE, version |-> CHANGE_IR_SCHEMA_VERSION, operations |-> mergeOperations(a.operations \o b.operations)]

-----------------------------------------------------------------------------
(* What an operation does to a page, a function from places to what they hold *)

Place(op) ==
  CASE op.kind \in CssKinds -> <<"css", op.target, op.name>>
    [] op.kind \in {"class-add", "class-remove"} -> <<"class", op.target, op.name>>
    [] op.kind = "duplicate-element" -> <<"element", op.other, Empty>>
    [] op.kind \in {"insert-element", "remove-element"} -> <<"element", op.target, Empty>>
    [] op.kind \in {"wrap-elements", "unwrap-element"} -> <<"wrapper", op.target, Empty>>
    [] OTHER -> <<op.kind, op.target, op.name>>
Makes(op) == op.kind \in {"class-add", "insert-element", "duplicate-element", "wrap-elements"}
Unmakes(op) == op.kind \in {"remove-style", "class-remove", "remove-element", "unwrap-element"}
After(op) == CASE Makes(op) -> "there" [] Unmakes(op) -> Empty [] OTHER -> op.to

\* An operation as it is recorded where its place holds `held`.
Recorded(op, held) ==
  /\ After(op) # held
  /\ Makes(op) => held = Empty
  /\ Unmakes(op) /\ op.kind # "remove-style" => held = "there"
  /\ op.kind \in Recording \cup {"remove-style", "multi-select-group"} => op.from = (IF held = Empty THEN Missing ELSE held)
  /\ op.kind \in Swapping \cup {"resize-flex-pair"} => op.from = held
  /\ op.kind = "set-child-sizing" => op.from = Missing

\* Undoing an operation leaves its place as it was, undoing the undo leaves it as the operation did (a removed
\* style apart: its second inverse is an edit to what was removed), and both can be read back from storage (a
\* first group apart: its inverse is the empty group), with the axis that the layout engine resolved.  The panel does not record what a child's sizing was, so
\* nothing is said of it.
InverseUndoes ==
  asked.about = "inverse" =>
    LET op == asked.x.operation
        undo == computeInverse(op, "undo")
        redo == computeInverse(undo, "redo")
    IN  /\ isInversePair(op, undo) /\ isInversePair(undo, redo)
        /\ op.kind \notin {"screenshot-crop-ref", "suggested-diff", "set-child-sizing"} =>
             /\ Place(undo) = Place(op) /\ After(undo) = asked.x.held
             /\ op.kind \notin {"remove-style"} => Place(redo) = Place(op) /\ After(redo) = After(op)
        /\ OperationSchema(op) /\ (op.kind = "multi-select-group" => op.from # Missing) => OperationSchema(undo)
        /\ op.kind = "resize-flex-pair" => \A c \in FlexContexts : ReadAxis(c) = resolveFlexAxis(c)

\* Which elements and wrappers are there after ops, and where (an operation's `name`: a parent and an index), and
\* whether every step was possible.
Standing(ops, there) ==
  FoldLeft(LAMBDA now, op :
             [there |-> {w \in now.there : w[1] # Unmade(op)}
                          \cup (IF Made(op) = NothingMade THEN {} ELSE {<<Made(op), op.name>>}),
              legal |-> /\ now.legal
                        /\ \A w \in now.there : w[1] # Made(op)
                        /\ Unmade(op) # NothingUnmade => <<Unmade(op), op.name>> \in now.there],
           [there |-> there, legal |-> TRUE], ops)

\* What ops take away and put back in another place.
Moved(ops) ==
  {Unmade(ops[i]) : i \in {k \in DOMAIN ops : \E j \in DOMAIN ops :
                             /\ k < j /\ Unmade(ops[k]) = Made(ops[j]) /\ ops[k].name # ops[j].name}}

\* The slots of the page that an operation writes, by the runtime ids of their elements; a class that replaces another
\* is not among them (conflict-signatures.ts compares the old names only), nor are the kinds that write no slot.
SlotsWritten(op) ==
  CASE op.kind = "resize-flex-pair" -> {<<"css", e.id, p>> : e \in {op.target, op.other}, p \in FLEX_PAIR_CSS_PROPERTIES}
    [] op.kind = "class-replace" -> {<<"class", op.target.id, op.from>>}
    [] op.kind \in Unsigned -> {}
    [] OTHER -> {<<Place(op)[1], Place(op)[2].id, Place(op)[3]>>}

\* A merge that succeeds has the edits of both sets: it fails when both write a slot and neither edit undoes the
\* other; what is neither made nor unmade, of whatever kind, is all there in its order; the elements and wrappers are
\* those that both sets leave, and in the place where they leave them unless they were moved (an element that is
\* removed and inserted elsewhere stays where it was: merge.ts:90 takes the two for inverses); and the merge does not
\* depend on which set comes first, and can be read back.
MergedIsBoth ==
  asked.about = "merge" =>
    LET a == asked.x.a
        b == asked.x.b
        merged == mergeChangeSets(a, b)
        all == a.operations \o b.operations
        Stays(op) == Made(op) = NothingMade /\ Unmade(op) = NothingUnmade
        there == {<<<<"element", "r1">>, "n">>, <<<<"wrapper", "r3">>, "n">>}
    IN  /\ merged.ok = mergeChangeSets(b, a).ok
        /\ merged.ok =>
             /\ ChangeSetSchema(a) /\ ChangeSetSchema(b) => ChangeSetSchema(merged)
             /\ \A x \in Range(a.operations), y \in Range(b.operations) :
                  \/ isInversePair(x, y) \/ Made(x) = Unmade(y) \/ Made(y) = Unmade(x)
                  \/ /\ SlotsWritten(x) \cap SlotsWritten(y) = {}
                     /\ "resize-flex-pair" \in {x.kind, y.kind} =>
                          \A s \in cssConflictSlots(x), t \in cssConflictSlots(y) :
                            s[2] = t[2] => ~sameElementIdentity(s[1], t[1])
             /\ SelectSeq(merged.operations, Stays) = SelectSeq(all, Stays)
             /\ \A i, k \in DOMAIN merged.operations :
                  i < k => \E m, n \in DOMAIN all :
                             m < n /\ all[m] = merged.operations[i] /\ all[n] = merged.operations[k]
             /\ \A now \in SUBSET there :
                  LET both == Standing(all, now)
                      kept == Standing(merged.operations, now)
                  IN  both.legal => /\ {w[1] : w \in kept.there} = {w[1] : w \in both.there}
                                    /\ {w \in kept.there : w[1] \notin Moved(all)}
                                         = {w \in both.there : w[1] \notin Moved(all)}

\* Operations can be taken back and put together: an inverse restores what the operation
\* replaced, and a merge of two sets drops no edit and lets none overwrite another
\* (compute-inverse.ts, merge.ts).
OperationsCompose == InverseUndoes /\ MergedIsBoth
=============================================================================
