----------------------------- MODULE JournalOps -----------------------------
(***************************************************************************)
(* The pure functions of the change journal (packages/change-journal/src)  *)
(* and of the panel's hydration merge, as operators on a journal value.    *)
(*                                                                         *)
(* A journal records operations in order, each with a status, and keeps    *)
(* two stacks of entries.  An entry is identified with its operation: the  *)
(* hook never records one operation twice (useJournal.ts 101-102), so the  *)
(* entry id carries no more than the operation id.  The sequence numbers   *)
(* of the entries are their positions in order.                            *)
(***************************************************************************)
EXTENDS Naturals, SequencesExt

CONSTANTS
  Ops,     \* operations the user makes
  Absent   \* the status of an operation that is not in the journal

Status == {"preview", "committed", "reverted", "superseded"}

ASSUME AbsentAssumption == Absent \notin Status

createJournal ==
  [order |-> <<>>, status |-> [o \in Ops |-> Absent], undo |-> <<>>, redo |-> <<>>]

Recorded(j, o) == j.status[o] # Absent

\* What the agent's context and the verification see (activeJournalEntries).
Active(j) == {o \in Ops : j.status[o] \in {"preview", "committed"}}

canUndo(j) == j.undo # <<>>
canRedo(j) == j.redo # <<>>
peekUndo(j) == Last(j.undo)
peekRedo(j) == Last(j.redo)

\* Mutant: a new edit keeps the undone ones redoable.
appendEntry_KeepsRedo(j, o, s) ==
  [j EXCEPT !.order = Append(@, o), !.status[o] = s, !.undo = Append(@, o)]

\* A new edit goes on the undo stack and discards what was undone.
appendEntry(j, o, s) ==
  [j EXCEPT !.order = Append(@, o), !.status[o] = s,
            !.undo = Append(@, o), !.redo = <<>>]

undo(j) ==
  [j EXCEPT !.status[peekUndo(j)] = "reverted",
            !.undo = Front(@), !.redo = Append(@, peekUndo(j))]

redo(j) ==
  [j EXCEPT !.status[peekRedo(j)] = "committed",
            !.undo = Append(@, peekRedo(j)), !.redo = Front(@)]

markEntryCommitted(j, o) == [j EXCEPT !.status[o] = "committed"]

markEntryReverted(j, o) == [j EXCEPT !.status[o] = "reverted"]

\* array.filter: what is left of s without the elements outside S, one index at a time.
KeptUpTo(s, S) ==
  LET kept[n \in 0..Len(s)] ==
        IF n = 0 THEN <<>>
        ELSE IF s[n] \in S THEN Append(kept[n - 1], s[n]) ELSE kept[n - 1]
  IN  kept
Kept(s, S) == KeptUpTo(s, S)[Len(s)]

\* Mutant: a superseded entry takes the redo stack with it.
markEntrySuperseded_DropsRedo(j, o) ==
  [j EXCEPT !.status[o] = "superseded", !.undo = Kept(@, Ops \ {o}), !.redo = <<>>]

markEntrySuperseded(j, o) ==
  [j EXCEPT !.status[o] = "superseded",
            !.undo = Kept(@, Ops \ {o}), !.redo = Kept(@, Ops \ {o})]

------------------------------------------------------------------------------
(* mergeHydratedJournal (journal-hydration.ts): the stored journal wins,   *)
(* entries only the panel knows are put after it.                          *)

Unknown(stored) == {o \in Ops : ~Recorded(stored, o)}
LocalOnly(stored, local) == Kept(local.order, Unknown(stored))

hasLocalChanges(stored, local) == LocalOnly(stored, local) # <<>>

\* Mutant: the local undo stack is appended whole.
mergeHydratedJournal_AllUndo(stored, local) ==
  IF ~hasLocalChanges(stored, local) THEN stored
  ELSE [order  |-> stored.order \o LocalOnly(stored, local),
        status |-> [o \in Ops |-> IF Recorded(stored, o) THEN stored.status[o]
                                  ELSE local.status[o]],
        undo   |-> stored.undo \o local.undo,
        redo   |-> <<>>]

mergeHydratedJournal(stored, local) ==
  IF ~hasLocalChanges(stored, local) THEN stored
  ELSE [order  |-> stored.order \o LocalOnly(stored, local),
        status |-> [o \in Ops |-> IF Recorded(stored, o) THEN stored.status[o]
                                  ELSE local.status[o]],
        undo   |-> stored.undo \o Kept(local.undo, Unknown(stored)),
        redo   |-> Kept(local.redo, Unknown(stored))]

------------------------------------------------------------------------------
(* What a journal value must always satisfy.                               *)

\* The undo stack followed by what redo would bring back, in redo order.
Line(j) == j.undo \o Reverse(j.redo)

Position(j, o) == CHOOSE i \in DOMAIN j.order : j.order[i] = o

\* The stacks hold recorded entries, none twice, in the order of recording: an
\* undo always takes back the latest of the edits not taken back yet, a redo
\* brings back the earliest one that was.
StacksFollowRecordOrder(j) ==
  /\ \A i, k \in DOMAIN j.order : i < k => j.order[i] # j.order[k]
  /\ \A o \in Ops : Recorded(j, o) <=> o \in ToSet(j.order)
  /\ ToSet(Line(j)) \subseteq ToSet(j.order)
  /\ \A i, k \in DOMAIN Line(j) :
       i < k => Position(j, Line(j)[i]) < Position(j, Line(j)[k])

\* What is redoable is not in effect.
RedoIsReverted(j) == \A o \in ToSet(j.redo) : j.status[o] = "reverted"

\* What another edit superseded can be neither undone nor redone.
SupersededIsGone(j) == \A o \in ToSet(Line(j)) : j.status[o] # "superseded"

\* The fields are in their domains and no entry is on the stacks twice over.
JournalType(j) ==
  /\ j.order \in Seq(Ops)
  /\ j.status \in [Ops -> Status \cup {Absent}]
  /\ j.undo \in Seq(Ops)
  /\ j.redo \in Seq(Ops)
  /\ Len(j.undo) + Len(j.redo) <= Len(j.order)
==============================================================================
