---------------------------- MODULE LinearHistory ----------------------------
(***************************************************************************)
(* What undo and redo promise: one line of edits and a cursor in it.  The  *)
(* edits before the cursor are in effect, those after it can be redone.    *)
(***************************************************************************)
EXTENDS Naturals, Sequences

CONSTANT Edits

VARIABLES
  line,   \* edits that can be undone or redone, in the order they were made
  cursor  \* how many of them are in effect

vars == <<line, cursor>>

Init == line = <<>> /\ cursor = 0

\* A new edit cuts off the edits that were undone.
Make(e) ==
  /\ \A i \in DOMAIN line : line[i] # e
  /\ line' = Append(SubSeq(line, 1, cursor), e)
  /\ cursor' = cursor + 1

Back ==
  /\ cursor > 0
  /\ cursor' = cursor - 1
  /\ UNCHANGED line

Forward ==
  /\ cursor < Len(line)
  /\ cursor' = cursor + 1
  /\ UNCHANGED line

\* The i-th edit leaves the line; everything else keeps its place.
Drop(i) ==
  /\ line' = SubSeq(line, 1, i - 1) \o SubSeq(line, i + 1, Len(line))
  /\ cursor' = IF i <= cursor THEN cursor - 1 ELSE cursor

Reset == Init'

Next ==
  \/ \E e \in Edits : Make(e)
  \/ Back
  \/ Forward
  \/ \E i \in DOMAIN line : Drop(i)
  \/ Reset

Spec == Init /\ [][Next]_vars
==============================================================================
