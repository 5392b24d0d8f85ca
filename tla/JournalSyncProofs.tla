------------------------- MODULE JournalSyncProofs -------------------------
(***************************************************************************)
(* The copies of a tab's journal, wherever they are, and the two copies of *)
(* the background: for any set of operations and any bounds.               *)
(***************************************************************************)
EXTENDS JournalSync, JournalOpsProofs

Values ==
  [order : Seq(Ops), status : [Ops -> Status \cup {Absent}], undo : Seq(Ops), redo : Seq(Ops)]

\* The sound journals of operations of M.
Good(M) ==
  {j \in Values :
     /\ Sound(j)
     /\ UndoIsActive(j)
     /\ \A o \in Ops : Recorded(j, o) => o \in M}

BgMsgs(M) == {RequestMsg} \cup {ReplaceMsg(j) : j \in Good(M)}
Tasks(M) == BgMsgs(M) \cup {RemoveTask, RestoreTask}
PanelMsgs(M) == {StateMsg(j) : j \in Good(M) \cup {NoJournal}} \cup {OpMsg(o) : o \in M}

\* Every journal anywhere is a sound one of operations made so far; a closed
\* panel holds nothing.
CopyInv ==
  /\ made \subseteq Ops
  /\ page \subseteq made
  /\ journal \in Good(made)
  /\ rendered \in Good(made)
  /\ timer \in Good(made) \cup {NoTimer}
  /\ memory \in Good(made) \cup {NoJournal}
  /\ disk \in Good(made) \cup {NoJournal}
  /\ toBg \in Seq(BgMsgs(made))
  /\ tasks \in Seq(Tasks(made))
  /\ toPanel \in Seq(PanelMsgs(made))
  /\ open \in BOOLEAN /\ busy \in BOOLEAN
  /\ open => tabOpen
  /\ ~open => /\ dirty = FALSE /\ hydrated = FALSE /\ skip = FALSE
              /\ timer = NoTimer /\ toPanel = <<>>
  /\ busy => tasks # <<>>

\* Unless storage failed, memory is what storage holds, or will hold once the
\* task under way has written; only a restore that has not run may differ.
StoreInv ==
  \/ failed
  \/ tasks # <<>> /\ Head(tasks).type = "restore"
  \/ IF busy THEN memory = Written ELSE memory = disk

------------------------------------------------------------------------------
(* The operations on journals stay within the sound ones.                  *)

\* Making more operations keeps what is good good.
LEMMA GoodGrows ==
  ASSUME NEW M, NEW N, M \subseteq N
  PROVE  /\ Good(M) \subseteq Good(N)
         /\ Seq(BgMsgs(M)) \subseteq Seq(BgMsgs(N))
         /\ Seq(Tasks(M)) \subseteq Seq(Tasks(N))
         /\ Seq(PanelMsgs(M)) \subseteq Seq(PanelMsgs(N))
<1>1. Good(M) \subseteq Good(N)
  BY DEF Good
<1>2. /\ BgMsgs(M) \subseteq BgMsgs(N)
      /\ PanelMsgs(M) \subseteq PanelMsgs(N)
  BY <1>1 DEF BgMsgs, PanelMsgs
<1>3. Tasks(M) \subseteq Tasks(N)
  BY <1>2 DEF Tasks
<1>4. QED BY <1>1, <1>2, <1>3, SeqMonotonic

\* What a good journal is.
LEMMA GoodIs ==
  ASSUME NEW M, NEW j \in Good(M)
  PROVE  /\ Sound(j) /\ UndoIsActive(j)
         /\ \A o \in Ops : Recorded(j, o) => o \in M
         /\ j \in Values
  BY DEF Good

\* What makes a journal good.
LEMMA GoodIf ==
  ASSUME NEW M, NEW j \in Values, Sound(j), UndoIsActive(j),
         \A o \in Ops : Recorded(j, o) => o \in M
  PROVE  j \in Good(M)
  BY DEF Good

\* The empty journal is good.
LEMMA GoodCreate ==
  ASSUME NEW M
  PROVE  createJournal \in Good(M)
<1>1. \A o \in Ops : ~Recorded(createJournal, o)
  BY DEF Recorded, createJournal
<1>2. createJournal \in Values
  BY DEF createJournal, Values
<1>3. QED BY <1>1, <1>2, createJournalIsSound, GoodIf

\* Recording a new operation keeps a journal good.
LEMMA GoodAppend ==
  ASSUME NEW M, NEW j \in Good(M), NEW o \in Ops, ~Recorded(j, o),
         NEW s \in {"preview", "committed"}
  PROVE  appendEntry(j, o, s) \in Good(M \cup {o})
<1> DEFINE k == appendEntry(j, o, s)
<1>1. Sound(j) /\ UndoIsActive(j) /\ (\A x \in Ops : Recorded(j, x) => x \in M) /\ j \in Values
  BY GoodIs
<1>2. Sound(k) /\ UndoIsActive(k) /\ \A x \in Ops : Recorded(k, x) => x \in M \cup {o}
  BY <1>1, appendEntryIsSound DEF Sound
<1>3. k.order \in Seq(Ops) /\ k.status \in [Ops -> Status \cup {Absent}]
      /\ k.undo \in Seq(Ops) /\ k.redo \in Seq(Ops)
  BY <1>2 DEF Sound, Ordered, Typed
<1>4. k \in Values
  BY <1>1, <1>3 DEF appendEntry, Values
<1> HIDE DEF k
<1>5. k \in Good(M \cup {o})
  BY <1>2, <1>4, GoodIf
<1>6. QED BY <1>5 DEF k

\* Undoing keeps a journal good.
LEMMA GoodUndo ==
  ASSUME NEW M, NEW j \in Good(M), canUndo(j)
  PROVE  undo(j) \in Good(M)
<1> DEFINE k == undo(j)
<1>1. Sound(j) /\ UndoIsActive(j) /\ (\A x \in Ops : Recorded(j, x) => x \in M) /\ j \in Values
  BY GoodIs
<1>2. Sound(k) /\ UndoIsActive(k) /\ \A x \in Ops : Recorded(k, x) => x \in M
  BY <1>1, undoIsSound DEF Sound
<1>3. k.order \in Seq(Ops) /\ k.status \in [Ops -> Status \cup {Absent}]
      /\ k.undo \in Seq(Ops) /\ k.redo \in Seq(Ops)
  BY <1>2 DEF Sound, Ordered, Typed
<1>4. k \in Values
  BY <1>1, <1>3 DEF undo, Values
<1> HIDE DEF k
<1>5. k \in Good(M)
  BY <1>2, <1>4, GoodIf
<1>6. QED BY <1>5 DEF k

\* Redoing keeps a journal good.
LEMMA GoodRedo ==
  ASSUME NEW M, NEW j \in Good(M), canRedo(j)
  PROVE  redo(j) \in Good(M) /\ peekRedo(j) \in M
<1> DEFINE k == redo(j)
<1>1. Sound(j) /\ UndoIsActive(j) /\ (\A x \in Ops : Recorded(j, x) => x \in M) /\ j \in Values
  BY GoodIs
<1>2. Sound(k) /\ UndoIsActive(k) /\ \A x \in Ops : Recorded(k, x) => x \in M
  BY <1>1, redoIsSound DEF Sound
<1>3. k.order \in Seq(Ops) /\ k.status \in [Ops -> Status \cup {Absent}]
      /\ k.undo \in Seq(Ops) /\ k.redo \in Seq(Ops)
  BY <1>2 DEF Sound, Ordered, Typed
<1>4. k \in Values
  BY <1>1, <1>3 DEF redo, Values
<1> HIDE DEF k
<1>5. k \in Good(M)
  BY <1>2, <1>4, GoodIf
<1>6. QED BY <1>5, <1>1, redoIsSound DEF Sound, k

\* Committing keeps a journal good.
LEMMA GoodCommit ==
  ASSUME NEW M, NEW j \in Good(M), NEW o \in Ops, j.status[o] = "preview"
  PROVE  markEntryCommitted(j, o) \in Good(M)
<1> DEFINE k == markEntryCommitted(j, o)
<1>1. Sound(j) /\ UndoIsActive(j) /\ (\A x \in Ops : Recorded(j, x) => x \in M) /\ j \in Values
  BY GoodIs
<1>2. Recorded(j, o)
  BY AbsentAssumption DEF Recorded, Status
<1>3. Sound(k) /\ UndoIsActive(k) /\ \A x \in Ops : Recorded(k, x) => x \in M
  BY <1>1, <1>2, markEntryCommittedIsSound DEF Sound
<1>4. k.order \in Seq(Ops) /\ k.status \in [Ops -> Status \cup {Absent}]
      /\ k.undo \in Seq(Ops) /\ k.redo \in Seq(Ops)
  BY <1>3 DEF Sound, Ordered, Typed
<1>5. k \in Values
  BY <1>1, <1>4 DEF markEntryCommitted, Values
<1> HIDE DEF k
<1>6. k \in Good(M)
  BY <1>3, <1>5, GoodIf
<1>7. QED BY <1>6 DEF k

\* Merging two good journals makes a good one.
LEMMA GoodMerge ==
  ASSUME NEW M, NEW stored \in Good(M), NEW local \in Good(M)
  PROVE  mergeHydratedJournal(stored, local) \in Good(M)
<1> DEFINE k == mergeHydratedJournal(stored, local)
<1>1. Sound(stored) /\ UndoIsActive(stored) /\ (\A x \in Ops : Recorded(stored, x) => x \in M) /\ stored \in Values
  BY GoodIs
<1>2. Sound(local) /\ UndoIsActive(local) /\ \A x \in Ops : Recorded(local, x) => x \in M
  BY GoodIs
<1>3. Sound(k) /\ UndoIsActive(k) /\ \A x \in Ops : Recorded(k, x) => x \in M
  BY <1>1, <1>2, mergeHydratedJournalIsSound
<1>4. k.order \in Seq(Ops) /\ k.status \in [Ops -> Status \cup {Absent}]
      /\ k.undo \in Seq(Ops) /\ k.redo \in Seq(Ops)
  BY <1>3 DEF Sound, Ordered, Typed
<1>5. k \in Values
  <2>1. CASE ~hasLocalChanges(stored, local)
    BY <2>1, <1>1 DEF mergeHydratedJournal
  <2>2. CASE hasLocalChanges(stored, local)
    <3>1. k = [order |-> k.order, status |-> k.status, undo |-> k.undo, redo |-> k.redo]
      BY <2>2 DEF mergeHydratedJournal
    <3> HIDE DEF k
    <3>2. QED BY <3>1, <1>4 DEF Values
  <2>3. QED BY <2>1, <2>2
<1> HIDE DEF k
<1>6. k \in Good(M)
  BY <1>3, <1>5, GoodIf
<1>7. QED BY <1>6 DEF k

------------------------------------------------------------------------------
(* Every step keeps the copies sound.                                      *)

\* What a queue holds after a message is sent or taken.
LEMMA SeqSteps ==
  ASSUME NEW X, NEW s \in Seq(X)
  PROVE  /\ \A x \in X : Append(s, x) \in Seq(X) /\ Append(s, x) # <<>>
         /\ s # <<>> => Head(s) \in X /\ Tail(s) \in Seq(X)
         /\ <<>> \in Seq(X)
<1>1. \A x \in X : Append(s, x) \in Seq(X) /\ Append(s, x) # <<>>
  BY AppendProperties
<1>2. s # <<>> => Head(s) \in X /\ Tail(s) \in Seq(X)
  BY HeadTailProperties
<1>3. QED BY <1>1, <1>2, EmptySeq

\* What a message or a task carries.
LEMMA CarriedIsGood ==
  ASSUME NEW M
  PROVE  /\ \A m \in Tasks(M) : m.type = "replace" => m.journal \in Good(M)
         /\ \A m \in PanelMsgs(M) : m.type = "state" => m.journal \in Good(M) \cup {NoJournal}
         /\ \A m \in PanelMsgs(M) : m.type = "operation" => m.op \in M
         /\ BgMsgs(M) \subseteq Tasks(M)
         /\ RemoveTask \in Tasks(M) /\ RestoreTask \in Tasks(M) /\ RequestMsg \in BgMsgs(M)
         /\ \A j \in Good(M) : ReplaceMsg(j) \in BgMsgs(M)
         /\ \A j \in Good(M) \cup {NoJournal} : StateMsg(j) \in PanelMsgs(M)
         /\ \A o \in M : OpMsg(o) \in PanelMsgs(M)
<1>1. \A m \in Tasks(M) : m.type = "replace" => m.journal \in Good(M)
  BY DEF Tasks, BgMsgs, RequestMsg, ReplaceMsg, RemoveTask, RestoreTask
<1>2. /\ \A m \in PanelMsgs(M) : m.type = "state" => m.journal \in Good(M) \cup {NoJournal}
      /\ \A m \in PanelMsgs(M) : m.type = "operation" => m.op \in M
  <2>1. ASSUME NEW m \in PanelMsgs(M), m.type = "state" PROVE m.journal \in Good(M) \cup {NoJournal}
    BY <2>1 DEF PanelMsgs, StateMsg, OpMsg
  <2>2. ASSUME NEW m \in PanelMsgs(M), m.type = "operation" PROVE m.op \in M
    BY <2>2 DEF PanelMsgs, StateMsg, OpMsg
  <2>3. QED BY <2>1, <2>2
<1>3. /\ BgMsgs(M) \subseteq Tasks(M)
      /\ RemoveTask \in Tasks(M) /\ RestoreTask \in Tasks(M) /\ RequestMsg \in BgMsgs(M)
      /\ \A j \in Good(M) : ReplaceMsg(j) \in BgMsgs(M)
  BY Zenon DEF Tasks, BgMsgs
<1>4. /\ \A j \in Good(M) \cup {NoJournal} : StateMsg(j) \in PanelMsgs(M)
      /\ \A o \in M : OpMsg(o) \in PanelMsgs(M)
  BY Zenon DEF PanelMsgs
<1>5. QED BY <1>1, <1>2, <1>3, <1>4

\* What is being written to storage is a good journal, or none.
LEMMA WrittenIsGood ==
  ASSUME CopyInv, tasks # <<>>
  PROVE  Written \in Good(made) \cup {NoJournal}
<1>1. Head(tasks) \in Tasks(made)
  BY SeqSteps DEF CopyInv
<1>2. QED BY <1>1, CarriedIsGood DEF Written, CopyInv

\* A click's journal and its effect on the page.
LEMMA ClickStep ==
  ASSUME CopyInv, NEW j \in Good(made'), Click(j), made \subseteq made', made' \subseteq Ops,
         page' \subseteq made'
  PROVE  CopyInv'
<1>1. /\ Good(made) \subseteq Good(made')
      /\ Seq(BgMsgs(made)) \subseteq Seq(BgMsgs(made'))
      /\ Seq(Tasks(made)) \subseteq Seq(Tasks(made'))
      /\ Seq(PanelMsgs(made)) \subseteq Seq(PanelMsgs(made'))
  BY GoodGrows
<1>2. /\ journal' = j /\ rendered' = j /\ timer' \in {j, NoTimer}
      /\ open = TRUE /\ UNCHANGED <<open, toBg, toPanel, tasks, busy, memory, disk, tabOpen>>
  BY DEF Click, RenderWith, storeVars, CopyInv
<1>3. QED BY <1>1, <1>2 DEF CopyInv

\* A message for the panel is queued or lost.
LEMMA PublishStep ==
  ASSUME NEW M, toPanel \in Seq(PanelMsgs(M)), NEW m \in PanelMsgs(M), Publish(m)
  PROVE  toPanel' \in Seq(PanelMsgs(M)) /\ (~open => toPanel' = toPanel)
  BY SeqSteps DEF Publish

\* Every copy of the journal, in the panel, the background, storage or a message, is
\* a sound journal of operations that were made, whatever is lost or restarted.
THEOREM CopyInvariant == Spec => []CopyInv
<1>1. Init => CopyInv
  <2> SUFFICES ASSUME Init PROVE CopyInv
    OBVIOUS
  <2>1. /\ toBg \in Seq(BgMsgs(made)) /\ toPanel \in Seq(PanelMsgs(made))
        /\ toBg = <<>> /\ toPanel = <<>>
    BY EmptySeq DEF Init
  <2>2. tasks \in Seq(Tasks(made)) /\ tasks # <<>>
    <3>1. RestoreTask \in Tasks(made)
      BY CarriedIsGood
    <3>2. <<RestoreTask>> \in Seq(Tasks(made)) /\ <<RestoreTask>> # <<>>
      BY <3>1
    <3>3. QED BY <3>2 DEF Init
  <2>3. createJournal \in Good(made)
    BY GoodCreate
  <2>4. QED BY <2>1, <2>2, <2>3 DEF Init, CopyInv
<1>2. CopyInv /\ [Next]_vars => CopyInv'
  <2> SUFFICES ASSUME CopyInv, [Next]_vars PROVE CopyInv'
    OBVIOUS
  <2> USE CarriedIsGood
  <2>1. CASE OpenPanel
    BY <2>1, SeqSteps DEF CopyInv, OpenPanel, storeVars, worldVars
  <2>2. CASE ClosePanel
    BY <2>2, GoodCreate, SeqSteps DEF CopyInv, ClosePanel, PanelGone, storeVars
  <2>3. CASE CloseTab
    <3>1. tasks' \in Seq(Tasks(made)) /\ tasks' # <<>>
      BY <2>3, SeqSteps DEF CopyInv, CloseTab
    <3>2. QED BY <2>3, <3>1, GoodCreate, EmptySeq DEF CopyInv, CloseTab, PanelGone
  <2>4. CASE UndoEdit
    <3>1. undo(journal) \in Good(made)
      BY <2>4, GoodUndo DEF CopyInv, UndoEdit
    <3>2. Click(undo(journal)) /\ made' = made /\ page' \subseteq page
      BY <2>4 DEF UndoEdit, TakeBack
    <3>3. QED BY <3>1, <3>2, ClickStep DEF CopyInv
  <2>5. CASE RedoEdit
    <3>1. redo(journal) \in Good(made) /\ peekRedo(journal) \in made
      BY <2>5, GoodRedo DEF CopyInv, RedoEdit
    <3>2. Click(redo(journal)) /\ made' = made /\ page' = page \cup {peekRedo(journal)}
      BY <2>5 DEF RedoEdit
    <3>3. QED BY <3>1, <3>2, ClickStep DEF CopyInv
  <2>6. CASE ClearEdits
    <3>1. Click(createJournal) /\ made' = made /\ page' = {}
      BY <2>6 DEF ClearEdits, TakeBack
    <3>2. QED BY <3>1, GoodCreate, ClickStep DEF CopyInv
  <2>7. ASSUME NEW o \in Ops, record(o) PROVE CopyInv'
    <3>1. /\ o \notin made /\ made' = made \cup {o} /\ page' = page \cup {o}
          /\ Click(appendEntry(journal, o, "preview"))
      BY <2>7 DEF record
    <3>2. ~Recorded(journal, o)
      BY <3>1, GoodIs DEF CopyInv
    <3>3. appendEntry(journal, o, "preview") \in Good(made')
      BY <3>1, <3>2, GoodAppend DEF CopyInv
    <3>4. QED BY <3>1, <3>3, ClickStep DEF CopyInv
  <2>8. ASSUME NEW o \in Ops, PageEdit(o) PROVE CopyInv'
    <3>1. /\ tabOpen /\ made' = made \cup {o} /\ page' = page \cup {o} /\ Publish(OpMsg(o))
          /\ UNCHANGED <<open, journal, rendered, dirty, hydrated, skip, timer,
                         toBg, tasks, busy, memory, disk, tabOpen>>
      BY <2>8 DEF PageEdit, panelVars, storeVars
    <3>2. /\ Good(made) \subseteq Good(made')
          /\ Seq(BgMsgs(made)) \subseteq Seq(BgMsgs(made'))
          /\ Seq(Tasks(made)) \subseteq Seq(Tasks(made'))
          /\ Seq(PanelMsgs(made)) \subseteq Seq(PanelMsgs(made'))
      BY <3>1, GoodGrows
    <3>3. OpMsg(o) \in PanelMsgs(made')
      BY <3>1
    <3>4. toPanel' \in Seq(PanelMsgs(made')) /\ (~open => toPanel' = toPanel)
      BY <3>1, <3>2, <3>3, PublishStep DEF CopyInv
    <3>5. QED BY <3>1, <3>2, <3>4 DEF CopyInv
  <2>9. ASSUME NEW type, Receive(type)
        PROVE  /\ open /\ Head(toPanel) \in PanelMsgs(made) /\ Head(toPanel).type = type
               /\ toPanel' \in Seq(PanelMsgs(made))
    BY <2>9, SeqSteps DEF Receive, CopyInv
  <2>10. CASE recordRemote
    <3> DEFINE o == Head(toPanel).op
    <3>1. /\ open /\ o \in made /\ o \in Ops /\ toPanel' \in Seq(PanelMsgs(made))
      BY <2>9, <2>10 DEF recordRemote, CopyInv
    <3>2. \/ ~Recorded(journal, o) /\ SetJournal(appendEntry(journal, o, "committed"))
          \/ journal.status[o] = "preview" /\ SetJournal(markEntryCommitted(journal, o))
          \/ UNCHANGED <<open, journal, rendered, dirty>>
      BY <2>10 DEF recordRemote
    <3>3. made \cup {o} = made
      BY <3>1
    <3>4. journal' \in Good(made) /\ UNCHANGED <<open, rendered>>
      <4>1. journal \in Good(made)
        BY DEF CopyInv
      <4>2. ~Recorded(journal, o) => appendEntry(journal, o, "committed") \in Good(made)
        BY <4>1, <3>1, <3>3, GoodAppend
      <4>3. journal.status[o] = "preview" => markEntryCommitted(journal, o) \in Good(made)
        BY <4>1, <3>1, GoodCommit
      <4> HIDE DEF o
      <4>4. QED BY <4>1, <4>2, <4>3, <3>2 DEF SetJournal
    <3>5. UNCHANGED <<made, page, timer, memory, disk, toBg, tasks, busy, tabOpen>>
      BY <2>10 DEF recordRemote, storeVars, worldVars
    <3> HIDE DEF o
    <3>6. QED BY <3>1, <3>4, <3>5 DEF CopyInv
  <2>11. CASE Hydrate
    <3> DEFINE stored == IF Head(toPanel).journal = NoJournal THEN createJournal
                         ELSE Head(toPanel).journal
    <3>1. Receive("state") /\ SetJournal(mergeHydratedJournal(stored, rendered))
      BY <2>11 DEF Hydrate
    <3>2. open /\ stored \in Good(made) /\ toPanel' \in Seq(PanelMsgs(made))
      BY <2>9, <3>1, GoodCreate
    <3>3. UNCHANGED <<made, page, timer, memory, disk, toBg, tasks, busy, tabOpen>>
      BY <2>11 DEF Hydrate, storeVars, worldVars
    <3> HIDE DEF stored
    <3>4. journal' \in Good(made) /\ UNCHANGED <<open, rendered>>
      BY <3>1, <3>2, GoodMerge DEF SetJournal, CopyInv
    <3>5. QED BY <3>2, <3>3, <3>4 DEF CopyInv
  <2>12. CASE Render
    <3>1. dirty /\ RenderWith(journal)
      BY <2>12 DEF Render
    <3>2. UNCHANGED <<open, journal, hydrated, toBg, toPanel, tasks, busy, memory, disk,
                      tabOpen, page, made>>
      BY <2>12 DEF Render, storeVars, worldVars
    <3>3. rendered' = journal /\ timer' \in {journal, NoTimer} /\ open
      BY <3>1 DEF RenderWith, CopyInv
    <3>4. QED BY <3>2, <3>3 DEF CopyInv
  <2>13. CASE SendReplace
    <3>1. timer \in Good(made) /\ open /\ toBg' = Append(toBg, ReplaceMsg(timer)) /\ timer' = NoTimer
      BY <2>13 DEF SendReplace, CopyInv
    <3>2. toBg' \in Seq(BgMsgs(made))
      BY <3>1, SeqSteps DEF CopyInv
    <3>3. QED BY <2>13, <3>1, <3>2 DEF SendReplace, CopyInv, storeVars, worldVars
  <2>14. CASE Enqueue
    <3>1. Head(toBg) \in Tasks(made) /\ Tail(toBg) \in Seq(BgMsgs(made))
      BY <2>14, SeqSteps DEF Enqueue, CopyInv
    <3>2. tasks' \in Seq(Tasks(made)) /\ tasks' # <<>> /\ toBg' \in Seq(BgMsgs(made))
      BY <2>14, <3>1, SeqSteps DEF Enqueue, CopyInv
    <3>3. QED BY <2>14, <3>2 DEF Enqueue, CopyInv, panelVars, worldVars
  <2>15. CASE AnswerRequest
    <3>1. tasks' \in Seq(Tasks(made)) /\ busy = FALSE /\ Publish(StateMsg(memory))
      BY <2>15, SeqSteps DEF AnswerRequest, CopyInv
    <3>2. StateMsg(memory) \in PanelMsgs(made)
      BY DEF CopyInv
    <3>3. toPanel' \in Seq(PanelMsgs(made)) /\ (~open => toPanel' = toPanel)
      BY <3>1, <3>2, PublishStep DEF CopyInv
    <3>4. QED BY <2>15, <3>1, <3>3 DEF AnswerRequest, CopyInv, panelVars, worldVars
  <2>16. CASE StartTask
    <3>1. Head(tasks) \in Tasks(made) /\ tasks # <<>>
      BY <2>16, SeqSteps DEF StartTask, CopyInv
    <3>2. memory' \in Good(made) \cup {NoJournal}
      BY <2>16, <3>1 DEF StartTask, CopyInv
    <3>3. QED BY <2>16, <3>1, <3>2 DEF StartTask, CopyInv, panelVars, worldVars
  <2>17. CASE FinishTask
    <3>1. busy' = FALSE /\ tasks' \in Seq(Tasks(made)) /\ tasks # <<>>
      BY <2>17, SeqSteps DEF FinishTask, CopyInv
    <3>2. disk' \in Good(made) \cup {NoJournal} /\ memory' \in Good(made) \cup {NoJournal}
      BY <2>17, <3>1, WrittenIsGood DEF FinishTask, CopyInv
    <3>3. StateMsg(disk') \in PanelMsgs(made)
      BY <3>2
    <3>4. toPanel' \in Seq(PanelMsgs(made)) /\ (~open => toPanel' = toPanel)
      BY <2>17, <3>3, PublishStep DEF FinishTask, CopyInv
    <3>5. QED BY <2>17, <3>1, <3>2, <3>4 DEF FinishTask, CopyInv, panelVars, worldVars
  <2>18. CASE FailTask
    <3>1. tasks' \in Seq(Tasks(made))
      BY <2>18, SeqSteps DEF FailTask, CopyInv
    <3>2. QED BY <2>18, <3>1 DEF FailTask, CopyInv, panelVars, worldVars
  <2>19. CASE RestartWorker
    <3>1. disk' \in Good(made) \cup {NoJournal}
      BY <2>19, WrittenIsGood DEF RestartWorker, CopyInv
    <3>2. tasks' \in Seq(Tasks(made))
      BY <2>19, EmptySeq, SeqSteps DEF RestartWorker, CopyInv
    <3>3. QED BY <2>19, <3>1, <3>2 DEF RestartWorker, CopyInv, panelVars, worldVars
  <2>20. CASE UNCHANGED vars
    BY <2>20 DEF CopyInv, vars, panelVars, storeVars, worldVars
  <2>21. QED BY <2>1, <2>2, <2>3, <2>4, <2>5, <2>6, <2>7, <2>8, <2>10, <2>11, <2>12, <2>13,
                <2>14, <2>15, <2>16, <2>17, <2>18, <2>19, <2>20
             DEF Next, User, Panel, Background
<1>3. QED BY <1>1, <1>2, PTL DEF Spec

\* Every journal the panel, its timer, the messages, the tasks, the background
\* and the storage hold has its stacks in the order of recording, and what can
\* be undone is exactly what counts as active (the merge of journal-hydration.ts
\* included), for any number of operations, panels and restarts.
THEOREM CopiesAreSound == Spec => []EveryCopyIsSound
<1>1. CopyInv => EveryCopyIsSound
  <2> SUFFICES ASSUME CopyInv PROVE EveryCopyIsSound
    OBVIOUS
  <2>1. \A i \in DOMAIN toBg : toBg[i] \in Tasks(made)
    BY CarriedIsGood, LenProperties, ElementOfSeq DEF CopyInv
  <2>2. \A i \in DOMAIN tasks : tasks[i] \in Tasks(made)
    BY LenProperties, ElementOfSeq DEF CopyInv
  <2>3. \A i \in DOMAIN toPanel : toPanel[i] \in PanelMsgs(made)
    BY LenProperties, ElementOfSeq DEF CopyInv
  <2>4. ASSUME NEW j \in Journals PROVE j \in Good(made)
    <3>1. CASE j \in {journal, rendered} \cup ({timer} \ {NoTimer}) \cup ({memory, disk} \ {NoJournal})
      BY <3>1 DEF CopyInv
    <3>2. CASE j \in {toBg[i].journal : i \in {k \in DOMAIN toBg : toBg[k].type = "replace"}}
      BY <3>2, <2>1, CarriedIsGood
    <3>3. CASE j \in {tasks[i].journal : i \in {k \in DOMAIN tasks : tasks[k].type = "replace"}}
      BY <3>3, <2>2, CarriedIsGood
    <3>4. CASE j \in {toPanel[i].journal : i \in {k \in DOMAIN toPanel : toPanel[k].type = "state"}}
                       \ {NoJournal}
      BY <3>4, <2>3, CarriedIsGood
    <3>5. QED BY <3>1, <3>2, <3>3, <3>4 DEF Journals
  <2>5. \A j \in Journals : /\ JournalType(j) /\ StacksFollowRecordOrder(j) /\ RedoIsReverted(j)
                            /\ UndoIsActive(j)
    BY <2>4, GoodIs, OrderedIsChecked DEF Sound
  <2>6. TypeOK
    BY <2>5 DEF TypeOK, CopyInv
  <2>7. QED BY <2>5, <2>6 DEF EveryCopyIsSound, UndoIsActive
<1>2. QED BY <1>1, CopyInvariant, PTL

------------------------------------------------------------------------------
(* The two copies of the background.                                       *)

\* The head of the queue does not change when a task is put behind it.
LEMMA HeadStays ==
  ASSUME NEW X, NEW s \in Seq(X), s # <<>>, NEW x
  PROVE  Head(Append(s, x)) = Head(s)
  BY HeadTailAppend

\* The head of a queue of one.
LEMMA HeadOfOne ==
  ASSUME NEW X, NEW s \in Seq(X), s = <<>>, NEW x
  PROVE  Head(Append(s, x)) = x
  BY HeadTailAppend

\* A task put behind the others does not change what is being written.
LEMMA QueueStep ==
  ASSUME CopyInv, StoreInv, NEW task \in Tasks(made), tasks' = Append(tasks, task),
         UNCHANGED <<busy, memory, disk, failed>>
  PROVE  StoreInv'
<1>1. CASE tasks = <<>>
  <2>1. busy = FALSE /\ (failed \/ memory = disk)
    BY <1>1 DEF CopyInv, StoreInv
  <2>2. QED BY <2>1 DEF StoreInv
<1>2. CASE tasks # <<>>
  <2>1. Head(tasks') = Head(tasks) /\ tasks' # <<>>
    BY <1>2, HeadStays, SeqSteps DEF CopyInv
  <2>2. Written' = Written
    BY <2>1 DEF Written
  <2>3. QED BY <1>2, <2>1, <2>2 DEF StoreInv
<1>3. QED BY <1>1, <1>2

\* The background's memory is the stored journal when its queue is empty, so a
\* worker that is restarted serves what the last one did: the invariant says of
\* every moment in between which of the two a task under way has changed.
THEOREM MemoryIsStorage == Spec => []MemoryMatchesStorage
<1>1. Init => StoreInv
  BY DEF Init, StoreInv, RestoreTask
<1>2. CopyInv /\ StoreInv /\ [Next]_vars => StoreInv'
  <2> SUFFICES ASSUME CopyInv, StoreInv, [Next]_vars PROVE StoreInv'
    OBVIOUS
  <2>1. CASE UNCHANGED <<tasks, busy, memory, disk, failed>>
    BY <2>1 DEF StoreInv, Written
  <2>2. CASE Enqueue
    <3>1. Head(toBg) \in Tasks(made)
      BY <2>2, SeqSteps, CarriedIsGood DEF Enqueue, CopyInv
    <3>2. QED BY <2>2, <3>1, QueueStep DEF Enqueue
  <2>3. CASE CloseTab
    <3>1. RemoveTask \in Tasks(made)
      BY CarriedIsGood
    <3>2. QED BY <2>3, <3>1, QueueStep DEF CloseTab
  <2>4. CASE AnswerRequest
    <3>1. busy = FALSE /\ Head(tasks).type # "restore" /\ UNCHANGED <<busy, memory, disk, failed>>
      BY <2>4 DEF AnswerRequest, CopyInv
    <3>2. QED BY <3>1 DEF StoreInv
  <2>5. CASE StartTask
    <3>1. busy = FALSE /\ busy' = TRUE /\ tasks # <<>> /\ UNCHANGED <<tasks, disk, failed>>
      BY <2>5 DEF StartTask, CopyInv
    <3>2. \/ failed
          \/ Head(tasks).type = "restore"
          \/ memory = disk
      BY <3>1 DEF StoreInv
    <3>3. memory = disk => memory' = Written'
      BY <2>5, <3>1 DEF StartTask, Written
    <3>4. QED BY <3>1, <3>2, <3>3 DEF StoreInv
  <2>6. CASE FinishTask
    <3>1. busy = TRUE /\ busy' = FALSE /\ disk' = Written /\ UNCHANGED failed
          /\ memory' = IF Head(tasks).type = "restore" THEN disk ELSE memory
      BY <2>6 DEF FinishTask, CopyInv
    <3>2. Head(tasks).type = "restore" => Written = disk
      BY DEF Written
    <3>3. failed \/ memory' = disk'
      BY <3>1, <3>2 DEF StoreInv
    <3>4. QED BY <3>1, <3>3 DEF StoreInv
  <2>7. CASE FailTask
    BY <2>7 DEF FailTask, StoreInv
  <2>8. CASE RestartWorker
    <3>1. tasks' = <<RestoreTask>>
      BY <2>8 DEF RestartWorker
    <3>2. tasks' # <<>> /\ Head(tasks').type = "restore"
      BY <3>1 DEF RestoreTask
    <3>3. QED BY <3>2 DEF StoreInv
  <2>9. CASE OpenPanel \/ ClosePanel \/ UndoEdit \/ RedoEdit \/ ClearEdits
             \/ (\E o \in Ops : record(o) \/ PageEdit(o)) \/ Panel \/ UNCHANGED vars
    <3>1. UNCHANGED <<tasks, busy, memory, disk, failed>>
      BY <2>9 DEF OpenPanel, ClosePanel, UndoEdit, RedoEdit, ClearEdits, TakeBack, Click, record,
                  PageEdit, Panel, recordRemote, Hydrate, Render, SendReplace, vars, storeVars
    <3>2. QED BY <2>1, <3>1
  <2>10. QED BY <2>2, <2>3, <2>4, <2>5, <2>6, <2>7, <2>8, <2>9 DEF Next, User, Background
<1>3. CopyInv /\ StoreInv => MemoryMatchesStorage
  BY DEF CopyInv, StoreInv, MemoryMatchesStorage
<1>4. QED BY <1>1, <1>2, <1>3, CopyInvariant, PTL DEF Spec
==============================================================================
