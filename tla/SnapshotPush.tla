---------------------------- MODULE SnapshotPush ----------------------------
(***************************************************************************)
(* What the agent is shown of a tab: the service worker pushes a snapshot  *)
(* of the selection and the journal at every change of either              *)
(* (bridge-snapshot-push.ts, background-journal-runtime.ts), names the     *)
(* generation of the tab by its session, and tells the server which tabs   *)
(* are closed and which has the focus (active-session.ts, the listeners of *)
(* background.ts).  The server is the module ProjectionCache.              *)
(*                                                                         *)
(* A snapshot is the pair of the two changes that it was compiled from.    *)
(* Messages of one socket arrive in order and are lost with it.  The       *)
(* worker's stored sessions and journals are back before a new socket is   *)
(* open (TabSessions and JournalSync are about what happens before), and   *)
(* the worker has no token after a restart, so only the user connects.     *)
(***************************************************************************)
EXTENDS Naturals, SequencesExt

CONSTANTS
  OpenedTabs,   \* the tabs that are open at first, from 1; a tab id is never used again
  MaxChanges,   \* bound: selections, journals and activations of tabs
  MaxGenerations, \* bound: sessions given to tabs
  MaxLinks,     \* bound: sockets opened
  MaxWire,      \* bound: the worker sends while fewer messages are under way
  MaxTasks,     \* bound: a change is made while fewer tasks wait
  MaxRestarts   \* bound: restarts of the worker, looked at while it is connected

ASSUME PushAssumption == MaxGenerations \in Nat \ {0}

NoTabSession == 0
TabIds == 1..MaxGenerations
Unseen == [tab |-> "none"]

VARIABLES
  openTabs, sessionOf, generations,
  selected,      \* selections: the change that set it, 0 for none
  journalOf,     \* the store's journals
  tasks,         \* what waits in the store's queue
  revOf,         \* snapshotRevByTab
  pairedTabs, lastFocused,  \* ActiveSessionTracker
  link,          \* the client: "none", "dialling", "connected"
  readyDue,      \* connect() has returned, onClientReady has not run
  messages,      \* on their way to the server
  changes, links, restarts,
  content,       \* history: what the projected snapshot of a tab was compiled from
  pushed         \* history: the session of a tab's last push, while the tab keeps it

workerVars == <<openTabs, sessionOf, generations, selected, journalOf, tasks, revOf, pairedTabs, lastFocused, link, readyDue>>

VARIABLES served, results, retiredSessions, servedTab, servedFocus, attachedTo, isPaired, isFresh, endedSessions
serverVars == <<served, results, retiredSessions, servedTab, servedFocus, attachedTo, isPaired, isFresh, endedSessions>>
snapshotVars == <<workerVars, messages, changes, links, restarts, content, pushed, serverVars>>

Cache == INSTANCE ProjectionCache WITH
  Tabs <- OpenedTabs, Sessions <- TabIds, NoSession <- NoTabSession, Sockets <- {1}, NoSocket <- 0, NoTab <- 0,
  NoEntry <- Unseen, NoResult <- Unseen, NoFocus <- Unseen, MaxRetired <- MaxGenerations + 1, MaxRev <- MaxChanges, MaxTs <- 0,
  socket <- attachedTo, paired <- isPaired, fresh <- isFresh, byTab <- served, verification <- results,
  retired <- retiredSessions, activeTab <- servedTab, focused <- servedFocus, dead <- endedSessions

SnapshotInit ==
  /\ openTabs = OpenedTabs
  /\ sessionOf = [t \in OpenedTabs |-> IF t = 1 THEN 1 ELSE NoTabSession]
  /\ generations = 1
  /\ selected = [t \in OpenedTabs |-> 0]
  /\ journalOf = [t \in OpenedTabs |-> 0]
  /\ tasks = <<>>
  /\ revOf = [t \in OpenedTabs |-> 0]
  /\ pairedTabs = <<>>
  /\ lastFocused = {}
  /\ link = "none"
  /\ readyDue = FALSE
  /\ messages = <<>>
  /\ changes = 0 /\ links = 0 /\ restarts = 0
  /\ content = [t \in OpenedTabs |-> <<0, 0>>]
  /\ pushed = [t \in OpenedTabs |-> NoTabSession]
  /\ Cache!Init

------------------------------------------------------------------------------
(* The worker's messages.                                                  *)

WireHasRoom == Len(messages) < MaxWire

\* Only a connected client sends.
SendAll(toSend) == messages' = IF link = "connected" THEN messages \o toSend ELSE messages

Closing(t) == [type |-> "closed", tab |-> t, session |-> sessionOf[t]]
Focusing(t) == [type |-> "focused", tab |-> t, session |-> sessionOf[t]]
Pushing(t, what, rev) == [type |-> "push", tab |-> t, session |-> sessionOf[t], rev |-> rev, what |-> what]

\* The tab that the server shall show: the last focused one, or the first that is left.
getActiveTabId(tracked, last) ==
  IF last \cap ToSet(tracked) # {} THEN last
  ELSE IF tracked = <<>> THEN {} ELSE {tracked[1]}

\* Set.delete of a JavaScript set, which keeps its order.
delete(set, t) ==
  IF t \in ToSet(set) THEN RemoveAt(set, CHOOSE i \in DOMAIN set : set[i] = t) ELSE set

nextRev(t) == revOf[t] + 1

\* One snapshot of the tab as the worker now knows it.
pushForTab(t) ==
  IF link = "connected"
  THEN /\ revOf' = [revOf EXCEPT ![t] = nextRev(t)]
       /\ messages' = Append(messages, Pushing(t, <<selected'[t], journalOf'[t]>>, nextRev(t)))
       /\ pushed' = [pushed EXCEPT ![t] = sessionOf[t]]
  ELSE UNCHANGED <<revOf, messages, pushed>>

\* A queued task runs.
RunTask ==
  /\ tasks # <<>>
  /\ WireHasRoom
  /\ tasks' = Tail(tasks)
  /\ LET task == tasks[1] IN
     \/ /\ task.type = "select"
        /\ selected' = [selected EXCEPT ![task.tab] = task.value]
        /\ UNCHANGED journalOf
        /\ pushForTab(task.tab)
     \/ /\ task.type = "replace"
        /\ journalOf' = [journalOf EXCEPT ![task.tab] = task.value]
        /\ UNCHANGED selected
        /\ pushForTab(task.tab)
     \/ /\ task.type = "remove"
        /\ journalOf' = [journalOf EXCEPT ![task.tab] = 0]
        /\ UNCHANGED <<selected, revOf, messages, pushed>>
     \/ /\ task.type = "ready"
        /\ UNCHANGED <<selected, journalOf>>
        /\ IF getActiveTabId(pairedTabs, lastFocused) = {} THEN UNCHANGED <<revOf, messages, pushed>>
           ELSE \E t \in getActiveTabId(pairedTabs, lastFocused) : pushForTab(t)
  /\ UNCHANGED <<openTabs, sessionOf, generations, pairedTabs, lastFocused, link, readyDue, changes, links, restarts, content, serverVars>>

\* The tab's page or its panel makes a change, which the store queues.
Change(t, type, value) ==
  /\ t \in openTabs
  /\ changes < MaxChanges /\ Len(tasks) < MaxTasks
  /\ changes' = changes + 1
  /\ tasks' = Append(tasks, [type |-> type, tab |-> t, value |-> value])
  /\ UNCHANGED <<openTabs, sessionOf, generations, selected, journalOf, revOf, pairedTabs, lastFocused, link, readyDue,
                 messages, links, restarts, content, pushed, serverVars>>

noteSelection(t) == Change(t, "select", changes + 1) \/ Change(t, "select", 0)
journalReplace(t) == Change(t, "replace", changes + 1)

------------------------------------------------------------------------------
(* Tabs.                                                                   *)

\* A page that may be inspected has loaded: the tab has a session from now on.
TabCompleted(t) ==
  /\ t \in openTabs
  /\ sessionOf[t] = NoTabSession
  /\ generations < MaxGenerations
  /\ generations' = generations + 1
  /\ sessionOf' = [sessionOf EXCEPT ![t] = generations + 1]
  /\ UNCHANGED <<openTabs, selected, journalOf, tasks, revOf, pairedTabs, lastFocused, link, readyDue, messages, changes, links,
                 restarts, content, pushed, serverVars>>

\* A page that may not be inspected has loaded: the server is not told.
removeUnauthorizedTab(t) ==
  /\ t \in openTabs
  /\ sessionOf[t] # NoTabSession
  /\ sessionOf' = [sessionOf EXCEPT ![t] = NoTabSession]
  /\ pushed' = [pushed EXCEPT ![t] = NoTabSession]
  /\ UNCHANGED <<openTabs, generations, selected, journalOf, tasks, revOf, pairedTabs, lastFocused, link, readyDue, messages,
                 changes, links, restarts, content, serverVars>>

\* The server is told which tab to show, if there is one.
FocusTold(active) == IF active = {} THEN <<>> ELSE <<Focusing(CHOOSE t \in active : TRUE)>>

\* Mutant: the session is gone before the server is told of the close.
handleRemoved_SessionFirst(t) ==
  LET tracked == delete(pairedTabs, t)
      last == lastFocused \ {t}
  IN  /\ SendAll(<<[Closing(t) EXCEPT !.session = NoTabSession]>> \o FocusTold(getActiveTabId(tracked, last)))
      /\ pairedTabs' = tracked
      /\ lastFocused' = last

\* The messages of the listener on tabs.onRemoved, and what the tracker is left with.
handleRemoved(t) ==
  LET tracked == delete(pairedTabs, t)
      last == lastFocused \ {t}
  IN  /\ SendAll(<<Closing(t)>> \o FocusTold(getActiveTabId(tracked, last)))
      /\ pairedTabs' = tracked
      /\ lastFocused' = last

TabRemoved(t) ==
  /\ t \in openTabs
  /\ WireHasRoom
  /\ openTabs' = openTabs \ {t}
  /\ handleRemoved(t)
  /\ selected' = [selected EXCEPT ![t] = 0]
  /\ revOf' = [revOf EXCEPT ![t] = 0]
  /\ sessionOf' = [sessionOf EXCEPT ![t] = NoTabSession]
  /\ tasks' = Append(tasks, [type |-> "remove", tab |-> t, value |-> 0])
  /\ UNCHANGED <<generations, journalOf, link, readyDue, changes, links, restarts, content, pushed, serverVars>>

TabActivated(t) ==
  /\ t \in openTabs
  /\ lastFocused # {t}
  /\ WireHasRoom
  /\ changes < MaxChanges
  /\ changes' = changes + 1
  /\ lastFocused' = {t}
  /\ SendAll(IF t \in ToSet(pairedTabs) THEN <<Focusing(t)>> ELSE <<>>)
  /\ UNCHANGED <<openTabs, sessionOf, generations, selected, journalOf, tasks, revOf, pairedTabs, link, readyDue, links,
                 restarts, content, pushed, serverVars>>

------------------------------------------------------------------------------
(* The link.                                                               *)

\* The socket ends, and with it what the server holds.
Unlink ==
  /\ messages' = <<>>
  /\ readyDue' = FALSE
  /\ content' = [t \in OpenedTabs |-> <<0, 0>>]
  /\ pushed' = [t \in OpenedTabs |-> NoTabSession]
  /\ IF attachedTo = 0 THEN UNCHANGED serverVars ELSE Cache!dropSocket

\* The user connects from tab t: the old client is replaced.
handleBridgeConnect(t) ==
  /\ t \in openTabs
  /\ links < MaxLinks
  /\ links' = links + 1
  /\ pairedTabs' = IF Contains(pairedTabs, t) THEN pairedTabs ELSE Append(pairedTabs, t)
  /\ lastFocused' = {t}
  /\ link' = "dialling"
  /\ Unlink
  /\ UNCHANGED <<openTabs, sessionOf, generations, selected, journalOf, tasks, revOf, changes, restarts>>

\* The server attaches the socket, and the client is connected.
Opened ==
  /\ link = "dialling"
  /\ link' = "connected"
  /\ readyDue' = TRUE
  /\ Cache!attach(1)
  /\ UNCHANGED <<openTabs, sessionOf, generations, selected, journalOf, tasks, revOf, pairedTabs, lastFocused, messages, changes,
                 links, restarts, content, pushed>>

\* The endpoint is stored: onClientReady queues the push of the active tab.
handleClientReady ==
  /\ readyDue
  /\ link = "connected"
  /\ readyDue' = FALSE
  /\ tasks' = Append(tasks, [type |-> "ready", tab |-> 0, value |-> 0])
  /\ UNCHANGED <<openTabs, sessionOf, generations, selected, journalOf, revOf, pairedTabs, lastFocused, link, messages, changes,
                 links, restarts, content, pushed, serverVars>>

\* The socket closes, or its heartbeat is missed.
LinkLost ==
  /\ link # "none"
  /\ link' = "none"
  /\ Unlink
  /\ UNCHANGED <<openTabs, sessionOf, generations, selected, journalOf, tasks, revOf, pairedTabs, lastFocused, changes,
                 links, restarts>>

handleDisconnect ==
  /\ link # "none"
  /\ link' = "none"
  /\ pairedTabs' = <<>>
  /\ lastFocused' = {}
  /\ Unlink
  /\ UNCHANGED <<openTabs, sessionOf, generations, selected, journalOf, tasks, revOf, changes, links, restarts>>

\* The worker stops and starts: sessions and journals are stored, nothing else is.
RestartPusher ==
  /\ restarts < MaxRestarts
  /\ link = "connected"
  /\ restarts' = restarts + 1
  /\ selected' = [t \in OpenedTabs |-> 0]
  /\ revOf' = [t \in OpenedTabs |-> 0]
  /\ tasks' = <<>>
  /\ pairedTabs' = <<>>
  /\ lastFocused' = {}
  /\ link' = "none"
  /\ Unlink
  /\ UNCHANGED <<openTabs, sessionOf, generations, journalOf, changes, links>>

------------------------------------------------------------------------------
(* The server takes or refuses what arrives.                               *)

\* The messages that the handlers of the server take: a snapshot that is admitted and,
\* of the projected session, no older, or of one that can replace it; the close of what
\* is shown or has the focus; and the focus of what may have it.
Takes(m) ==
  \/ /\ m.type = "push"
     /\ Cache!Admissible(m.tab, m.session)
     /\ \/ ~Cache!Projected(m.tab)
        \/ Cache!CurrentIs(m.tab, m.session) /\ m.rev >= served[m.tab].rev
        \/ /\ served[m.tab].session # m.session /\ m.session # NoTabSession
           /\ served[m.tab].session \in Cache!retireSession(retiredSessions[m.tab], served[m.tab].session)
  \/ m.type = "closed" /\ (Cache!CurrentIs(m.tab, m.session) \/ Cache!FocusIs(m.tab, m.session))
  \/ m.type = "focused" /\ Cache!Focusable(m.tab, m.session)

ServerReceives ==
  /\ link = "connected"
  /\ messages # <<>>
  /\ messages' = Tail(messages)
  /\ LET m == messages[1] IN
     \/ /\ m.type = "push"
        /\ Cache!ingest(m.tab, m.session, m.rev)
        /\ content' = [content EXCEPT ![m.tab] = m.what]
     \/ m.type = "closed" /\ Cache!clearTab(m.tab, m.session) /\ UNCHANGED content
     \/ m.type = "focused" /\ Cache!setActiveTab(m.tab, m.session) /\ UNCHANGED content
     \/ ~Takes(m) /\ UNCHANGED <<content, serverVars>>
  /\ UNCHANGED <<workerVars, changes, links, restarts, pushed>>

SnapshotNext ==
  \/ \E t \in OpenedTabs :
       \/ noteSelection(t) \/ journalReplace(t)
       \/ TabCompleted(t) \/ removeUnauthorizedTab(t)
       \/ TabRemoved(t) \/ TabActivated(t)
       \/ handleBridgeConnect(t)
  \/ RunTask \/ Opened \/ handleClientReady \/ LinkLost \/ handleDisconnect \/ RestartPusher \/ ServerReceives

------------------------------------------------------------------------------
(* Properties.                                                             *)

\* Once the worker's queue and the socket are empty, what the agent is shown of a tab is
\* what the worker knows of it, and the tab is open, whatever restarts, closes and new
\* sockets lie between (bridge-snapshot-push.ts numbers snapshots from one again after
\* each restart and close).  Left out are tabs that lost their session since the last
\* push: the server is told nothing of those (background-tab-lifecycle.ts:50).
ServedIsCurrent ==
  link = "connected" /\ messages = <<>> /\ tasks = <<>> =>
    \A t \in OpenedTabs :
      Cache!Projected(t) /\ pushed[t] # NoTabSession =>
        /\ t \in openTabs
        /\ content[t] = <<selected[t], journalOf[t]>>
==============================================================================
