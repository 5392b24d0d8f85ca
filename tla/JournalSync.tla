----------------------------- MODULE JournalSync -----------------------------
(***************************************************************************)
(* One inspected tab: the panel edits its React copy of the journal and    *)
(* sends it, debounced, to the background, which writes it to session      *)
(* storage and echoes it back (useJournal.ts, useJournalPersistence.ts,    *)
(* background-journal-handlers.ts, session-journal-store.ts).              *)
(*                                                                         *)
(* React renders a click's update at the end of the click, a message's     *)
(* update in a later task, before which more messages and clicks may come: *)
(* journal is the state with every queued updater applied, rendered is     *)
(* what the last render and its refs have seen.                            *)
(* runtime.sendMessage keeps the order of one sender's messages.  The hop  *)
(* of an edit to the page is abstracted: the panel sends edits to the page *)
(* in order and the page takes effect at the dispatch.                     *)
(***************************************************************************)
EXTENDS JournalOps

CONSTANTS
  NoJournal,     \* the tab has no journal in memory or storage
  NoTimer,       \* no debounced sync pending
  MaxTakeBacks,  \* bound: undo and clear clicks
  MaxPanels,     \* bound: times the panel is opened
  MaxKills,      \* bound: service worker restarts
  TabMayClose, StorageMayFail

VARIABLES
  open,       \* a panel is mounted for the tab
  journal,    \* its journal state
  rendered,   \* journalRef.current
  dirty,      \* a state update is not rendered yet
  hydrated,   \* hydratedTabRef and isHydrated
  skip,       \* skipNextSyncRef
  timer,      \* journal captured by the pending debounce, or NoTimer
  toBg,       \* messages from the panel to the background
  toPanel,    \* messages from the background to the panel
  tasks,      \* taskQueue of the store; the head is being executed when busy
  busy,       \* the head task awaits storage
  memory,     \* store.journals for the tab, or NoJournal
  disk,       \* chrome.storage.session for the tab, or NoJournal
  tabOpen,
  page,       \* operations in effect on the page
  made,       \* operations made so far
  leftActive, \* history: edits active in the panel when it last closed
  failed,     \* history: a storage call has failed
  takeBacks, panels, kills  \* counters for the bounds

panelVars == <<open, journal, rendered, dirty, hydrated, skip, timer>>
storeVars == <<tasks, busy, memory, disk, failed>>
worldVars == <<tabOpen, page, made, leftActive>>
vars == <<panelVars, toBg, toPanel, storeVars, worldVars, takeBacks, panels, kills>>

ReplaceMsg(j) == [type |-> "replace", journal |-> j]
RequestMsg == [type |-> "request"]
StateMsg(j) == [type |-> "state", journal |-> j]
OpMsg(o) == [type |-> "operation", op |-> o]
RemoveTask == [type |-> "remove"]
RestoreTask == [type |-> "restore"]

PanelGone ==
  /\ open' = FALSE
  /\ journal' = createJournal
  /\ rendered' = createJournal
  /\ dirty' = FALSE
  /\ hydrated' = FALSE
  /\ skip' = FALSE
  /\ timer' = NoTimer
  /\ toPanel' = <<>>

Init ==
  /\ open = FALSE
  /\ journal = createJournal
  /\ rendered = createJournal
  /\ dirty = FALSE
  /\ hydrated = FALSE
  /\ skip = FALSE
  /\ timer = NoTimer
  /\ toBg = <<>>
  /\ toPanel = <<>>
  /\ tasks = <<RestoreTask>>
  /\ busy = FALSE
  /\ memory = NoJournal
  /\ disk = NoJournal
  /\ failed = FALSE
  /\ tabOpen = TRUE
  /\ page = {}
  /\ made = {}
  /\ leftActive = {}
  /\ takeBacks = 0
  /\ panels = 0
  /\ kills = 0

\* What the background sends reaches the panel only while one listens.
Publish(msg) == toPanel' = IF open THEN Append(toPanel, msg) ELSE toPanel

------------------------------------------------------------------------------
(* The panel: user actions.                                                *)

\* Mount: an empty journal, and a request for the stored one.
OpenPanel ==
  /\ tabOpen /\ ~open
  /\ panels < MaxPanels
  /\ panels' = panels + 1
  /\ open' = TRUE
  /\ toBg' = Append(toBg, RequestMsg)
  /\ UNCHANGED <<journal, rendered, dirty, hydrated, skip, timer, toPanel,
                 storeVars, worldVars, takeBacks, kills>>

\* Unmount: the pending debounce is cleared with the component.
ClosePanel ==
  /\ open
  /\ PanelGone
  /\ leftActive' = Active(journal)
  /\ UNCHANGED <<toBg, storeVars, tabOpen, page, made, takeBacks, panels, kills>>

\* A render with journal j: the refs follow, the sync effect's cleanup clears
\* the pending debounce, and the effect starts one unless it is to skip.
RenderWith(j) ==
  /\ rendered' = j
  /\ dirty' = FALSE
  /\ timer' = IF hydrated /\ ~skip THEN j ELSE NoTimer
  /\ skip' = (skip /\ ~hydrated)

\* A click: its update is rendered before anything else happens, together with
\* the updates that still waited for a render.
Click(j) ==
  /\ open
  /\ journal' = j
  /\ RenderWith(j)
  /\ UNCHANGED <<open, hydrated, toBg, toPanel, storeVars, tabOpen, leftActive,
                 panels, kills>>

\* An edit made in the panel: recorded as a preview and sent to the page.
record(o) ==
  /\ o \notin made
  /\ made' = made \cup {o}
  /\ page' = page \cup {o}
  /\ Click(appendEntry(journal, o, "preview"))
  /\ UNCHANGED takeBacks

\* Undo and clear: the journal changes and the page follows.
TakeBack(j, p) ==
  /\ takeBacks < MaxTakeBacks
  /\ takeBacks' = takeBacks + 1
  /\ page' = p
  /\ Click(j)
  /\ UNCHANGED made

UndoEdit ==
  canUndo(journal) /\ TakeBack(undo(journal), page \ {peekUndo(journal)})

RedoEdit ==
  /\ canRedo(journal)
  /\ page' = page \cup {peekRedo(journal)}
  /\ Click(redo(journal))
  /\ UNCHANGED <<made, takeBacks>>

ClearEdits == TakeBack(createJournal, {})

\* An edit made on the page is in effect at once; the relay tells the panel.
PageEdit(o) ==
  /\ tabOpen
  /\ o \notin made
  /\ made' = made \cup {o}
  /\ page' = page \cup {o}
  /\ Publish(OpMsg(o))
  /\ UNCHANGED <<panelVars, toBg, storeVars, tabOpen, leftActive, takeBacks,
                 panels, kills>>

------------------------------------------------------------------------------
(* The panel: messages, renders and the debounce.                          *)

Receive(type) ==
  /\ toPanel # <<>>
  /\ Head(toPanel).type = type
  /\ toPanel' = Tail(toPanel)

\* setState outside a click: rendered later.
SetJournal(j) ==
  /\ journal' = j
  /\ dirty' = TRUE
  /\ UNCHANGED <<open, rendered>>

\* A page edit arrives: committed, or confirmed if it is known as a preview.
recordRemote ==
  LET o == Head(toPanel).op IN
  /\ Receive("operation")
  /\ IF ~Recorded(journal, o) THEN SetJournal(appendEntry(journal, o, "committed"))
     ELSE IF journal.status[o] = "preview" THEN SetJournal(markEntryCommitted(journal, o))
     ELSE UNCHANGED <<open, journal, rendered, dirty>>
  /\ UNCHANGED <<hydrated, skip, timer, toBg, storeVars, worldVars, takeBacks,
                 panels, kills>>

\* Mutant: what was merged is always synced back.
Hydrate_AlwaysSyncs ==
  LET stored == IF Head(toPanel).journal = NoJournal THEN createJournal
                ELSE Head(toPanel).journal IN
  /\ Receive("state")
  /\ SetJournal(mergeHydratedJournal(stored, rendered))
  /\ skip' = FALSE
  /\ hydrated' = TRUE
  /\ UNCHANGED <<timer, toBg, storeVars, worldVars, takeBacks, panels, kills>>

\* Every journal-state, the answer to the request and every echo of a replace,
\* is merged with the journal of the last render.
Hydrate ==
  LET stored == IF Head(toPanel).journal = NoJournal THEN createJournal
                ELSE Head(toPanel).journal IN
  /\ Receive("state")
  /\ SetJournal(mergeHydratedJournal(stored, rendered))
  /\ skip' = ~hasLocalChanges(stored, rendered)
  /\ hydrated' = TRUE
  /\ UNCHANGED <<timer, toBg, storeVars, worldVars, takeBacks, panels, kills>>

Render ==
  /\ dirty
  /\ RenderWith(journal)
  /\ UNCHANGED <<open, journal, hydrated, toBg, toPanel, storeVars, worldVars,
                 takeBacks, panels, kills>>

\* SYNC_DEBOUNCE_MS without another change.
SendReplace ==
  /\ timer # NoTimer
  /\ toBg' = Append(toBg, ReplaceMsg(timer))
  /\ timer' = NoTimer
  /\ UNCHANGED <<open, journal, rendered, dirty, hydrated, skip, toPanel,
                 storeVars, worldVars, takeBacks, panels, kills>>

------------------------------------------------------------------------------
(* The background: SessionJournalStore and its handlers.                   *)

\* A replace or a request is queued behind the tasks not finished yet.
Enqueue ==
  /\ toBg # <<>>
  /\ tasks' = Append(tasks, Head(toBg))
  /\ toBg' = Tail(toBg)
  /\ UNCHANGED <<panelVars, toPanel, busy, memory, disk, failed, worldVars,
                 takeBacks, panels, kills>>

\* A request is answered from memory, without waiting for storage.
AnswerRequest ==
  /\ ~busy /\ tasks # <<>>
  /\ Head(tasks).type = "request"
  /\ Publish(StateMsg(memory))
  /\ tasks' = Tail(tasks)
  /\ UNCHANGED <<panelVars, toBg, busy, memory, disk, failed, worldVars,
                 takeBacks, panels, kills>>

\* The memory copy changes first, then storage is called.
StartTask ==
  /\ ~busy /\ tasks # <<>>
  /\ Head(tasks).type # "request"
  /\ memory' = CASE Head(tasks).type = "replace" -> Head(tasks).journal
                 [] Head(tasks).type = "remove"  -> NoJournal
                 [] OTHER                        -> memory
  /\ busy' = TRUE
  /\ UNCHANGED <<panelVars, toBg, toPanel, tasks, disk, failed, worldVars,
                 takeBacks, panels, kills>>

\* What storage holds once the head task has written.
Written ==
  CASE Head(tasks).type = "replace" -> Head(tasks).journal
    [] Head(tasks).type = "remove"  -> NoJournal
    [] OTHER                        -> disk

\* Mutant: a closed tab is forgotten in memory only.
FinishTask_KeepsKey ==
  /\ busy
  /\ busy' = FALSE
  /\ tasks' = Tail(tasks)
  /\ disk' = IF Head(tasks).type = "remove" THEN disk ELSE Written
  /\ memory' = IF Head(tasks).type = "restore" THEN disk ELSE memory
  /\ IF Head(tasks).type = "replace" THEN Publish(StateMsg(disk')) ELSE UNCHANGED toPanel
  /\ UNCHANGED <<panelVars, toBg, failed, worldVars, takeBacks, panels, kills>>

\* Storage answers: a replace is echoed, a restore fills the memory copy.
FinishTask ==
  /\ busy
  /\ busy' = FALSE
  /\ tasks' = Tail(tasks)
  /\ disk' = Written
  /\ memory' = IF Head(tasks).type = "restore" THEN disk ELSE memory
  /\ IF Head(tasks).type = "replace" THEN Publish(StateMsg(disk')) ELSE UNCHANGED toPanel
  /\ UNCHANGED <<panelVars, toBg, failed, worldVars, takeBacks, panels, kills>>

\* Storage rejects: the error is reported, the queue goes on, nothing is echoed.
FailTask ==
  /\ StorageMayFail /\ busy
  /\ busy' = FALSE
  /\ failed' = TRUE
  /\ tasks' = Tail(tasks)
  /\ UNCHANGED <<panelVars, toBg, toPanel, memory, disk, worldVars, takeBacks,
                 panels, kills>>

\* The service worker is stopped and later woken: its queue and memory are
\* gone, a write under way may or may not have reached storage.
RestartWorker ==
  /\ kills < MaxKills
  /\ kills' = kills + 1
  /\ tasks' = <<RestoreTask>>
  /\ busy' = FALSE
  /\ memory' = NoJournal
  /\ disk' \in {disk} \cup (IF busy THEN {Written} ELSE {})
  /\ UNCHANGED <<panelVars, toBg, toPanel, failed, worldVars, takeBacks, panels>>

\* tabs.onRemoved; the panel is closed with its tab.
CloseTab ==
  /\ TabMayClose /\ tabOpen
  /\ tabOpen' = FALSE
  /\ page' = {}
  /\ PanelGone
  /\ tasks' = Append(tasks, RemoveTask)
  /\ UNCHANGED <<toBg, busy, memory, disk, failed, made, leftActive, takeBacks,
                 panels, kills>>

------------------------------------------------------------------------------

User ==
  \/ OpenPanel \/ ClosePanel \/ CloseTab
  \/ UndoEdit \/ RedoEdit \/ ClearEdits
  \/ \E o \in Ops : record(o) \/ PageEdit(o)

Panel == recordRemote \/ Hydrate \/ Render \/ SendReplace

Background == Enqueue \/ AnswerRequest \/ StartTask \/ FinishTask \/ FailTask

Next == User \/ Panel \/ Background \/ RestartWorker

\* React renders, timers fire, messages arrive and storage answers.
Fairness == WF_vars(Panel) /\ WF_vars(Background)

Spec == Init /\ [][Next]_vars /\ Fairness

------------------------------------------------------------------------------
(* Properties.                                                             *)

\* Every journal value held or on its way somewhere.
Journals ==
  {journal, rendered}
    \cup ({timer} \ {NoTimer})
    \cup ({memory, disk} \ {NoJournal})
    \cup {toBg[i].journal : i \in {k \in DOMAIN toBg : toBg[k].type = "replace"}}
    \cup {tasks[i].journal : i \in {k \in DOMAIN tasks : tasks[k].type = "replace"}}
    \cup ({toPanel[i].journal : i \in {k \in DOMAIN toPanel : toPanel[k].type = "state"}}
            \ {NoJournal})

\* The edits the stored journal calls active.
Stored == IF disk = NoJournal THEN {} ELSE Active(disk)

\* Journal values keep their type, and a panel that is not there holds nothing:
\* its timer and its queue of messages go with it.
TypeOK ==
  /\ \A j \in Journals : JournalType(j)
  /\ open => tabOpen
  /\ ~open => /\ ~dirty /\ ~hydrated /\ ~skip
              /\ timer = NoTimer /\ toPanel = <<>>
  /\ busy => tasks # <<>>
  /\ page \subseteq made

\* Wherever a journal is (rendered, debounced, in flight, in memory, stored),
\* its stacks are in the order of recording and what can be undone is exactly
\* what counts as active: hydration merges of any two copies keep it so.
EveryCopyIsSound ==
  /\ TypeOK
  /\ \A j \in Journals : /\ StacksFollowRecordOrder(j)
                         /\ RedoIsReverted(j)
                         /\ Active(j) = ToSet(j.undo)

\* When the store is idle, its memory and session storage agree, so a restarted
\* worker serves what the last one did (as long as storage never failed).
MemoryMatchesStorage == tasks = <<>> /\ ~failed => memory = disk

Settled ==
  /\ toBg = <<>> /\ toPanel = <<>> /\ tasks = <<>>
  /\ timer = NoTimer /\ ~dirty

\* The echo of a replace does not make the panel sync again: once the user is
\* idle, panel and background stop talking (skipNextSyncRef).
EchoesDieOut == <>[]Settled

\* README: undo and redo from the panel are lossless.  A journal-state never
\* brings an edit back that the user has taken back.
UndoIsNotLost ==
  [][Hydrate => \A o \in Ops : journal.status[o] = "reverted" => o \notin Active(journal')]_vars

\* README: clear clears the whole preview.  At rest the journal calls no edit
\* active that is not on the page.
ClearedStaysCleared == Settled /\ hydrated => Active(journal) \subseteq page

\* ADR-019 C1: on tabs.onRemoved the tab's key is deleted.
ClosedTabLeavesNothing == Settled /\ ~tabOpen => disk = NoJournal

\* ADR-019 C1: the journal survives a close and reopen of the panel: every edit
\* that was active in the panel when it closed is active in the stored journal.
SurvivesPanelClose == Settled /\ tabOpen /\ ~open => leftActive \subseteq Stored

\* useJournalPersistence.race.test.ts: an interaction recorded around a
\* journal-state is synced.  At rest the background has what the panel shows.
RecordedIsSynced == Settled /\ hydrated => Active(journal) = Stored

\* ... and is retained: merging a journal-state never drops a recorded entry.
RecordedIsRetained ==
  [][Hydrate => \A o \in Ops : Recorded(journal, o) => Recorded(journal', o)]_vars
==============================================================================
