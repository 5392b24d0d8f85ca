---------------------------- MODULE ChangeJournal ----------------------------
(***************************************************************************)
(* The change journal as its callers drive it: one journal value and every *)
(* operation of packages/change-journal/src/journal.ts on it.              *)
(*                                                                         *)
(* A thrown error (empty stack, unknown entry, stale inverse) leaves the   *)
(* journal as it was and is a stuttering step.                             *)
(***************************************************************************)
EXTENDS JournalOps

VARIABLE journal

JournalInit == journal = createJournal

\* An edit is previewed, or was committed by its preview transaction.
Record(o) ==
  /\ ~Recorded(journal, o)
  /\ \E s \in {"preview", "committed"} : journal' = appendEntry(journal, o, s)

Undo == canUndo(journal) /\ journal' = undo(journal)

Redo == canRedo(journal) /\ journal' = redo(journal)

\* commitEntry commits the entry it is given whatever its status: one that was
\* undone in the meantime counts as active again and stays redoable. (The other
\* caller, recordRemote, asks for previews only; it is in JournalSync.)
Commit(o) ==
  /\ Recorded(journal, o)
  /\ journal' = markEntryCommitted(journal, o)

\* A preview transaction was rolled back outside undo.
RollBack(o) ==
  /\ Recorded(journal, o)
  /\ journal' = markEntryReverted(journal, o)

Supersede(o) ==
  /\ Recorded(journal, o)
  /\ journal' = markEntrySuperseded(journal, o)

Clear == journal' = createJournal

JournalNext ==
  \/ \E o \in Ops : Record(o) \/ Commit(o) \/ RollBack(o) \/ Supersede(o)
  \/ Undo
  \/ Redo
  \/ Clear

JournalSpec == JournalInit /\ [][JournalNext]_journal

------------------------------------------------------------------------------

\* However edits, undos, redos, commits, rollbacks and supersedes follow one
\* another, the two stacks hold distinct recorded entries in the order they were
\* recorded, and an edit that was superseded is on neither, so that no undo or redo
\* takes a page back past it. (That what is redoable does not count as active is
\* not among this: a commit that comes after the undo ends it.)
StacksInOrder ==
  JournalType(journal) /\ StacksFollowRecordOrder(journal) /\ SupersededIsGone(journal)

History ==
  INSTANCE LinearHistory
    WITH Edits <- Ops, line <- Line(journal), cursor <- Len(journal.undo)

\* The two stacks of ids implement one line of edits with a cursor: undo and
\* redo move the cursor, a new edit cuts the line, a superseded one leaves it.
ImplementsHistory == History!Spec
==============================================================================
