----------------------------- MODULE TabSessions -----------------------------
(***************************************************************************)
(* The background's registry of tab sessions (tab-session.ts) and the      *)
(* events that keep it: tabs.onUpdated and tabs.onRemoved                  *)
(* (background-tab-lifecycle.ts), frame-hello (background-frame-hello.ts), *)
(* the frame discovery, the panel's port, the restore from                 *)
(* chrome.storage.session at every start of the service worker.            *)
(*                                                                         *)
(* The browser sends events and answers to the worker in the order in      *)
(* which they happen; storage is read and written in the order of the      *)
(* calls and accepts every write, but its answer comes at any time.  Of a  *)
(* frame tree only the document it lists is kept; a document may be        *)
(* inspected (http or https) or not.  The inspected flag of a session,     *)
(* which nothing reads, is left out.                                       *)
(***************************************************************************)
EXTENDS Naturals, Sequences

CONSTANTS
  Tabs,
  NoSession,   \* the tab has no session
  NoRead,      \* no read of storage is under way
  MaxDocs,     \* bound: documents loaded by one tab
  MaxKills,    \* bound: service worker restarts
  MaxIds,      \* bound: a panel connects to a tab without a session below this
  MaxQueue     \* bound: events and answers on their way to workers

ASSUME TabAssumption ==
  /\ MaxDocs \in Nat \ {0} /\ MaxKills \in Nat /\ MaxIds \in Nat
  /\ MaxQueue \in Nat \ {0}
  /\ NoSession \notin [id : Nat, tree : Nat]
  /\ NoRead \notin [Tabs -> [id : Nat, tree : Nat] \cup {NoSession}]

VARIABLES
  doc,      \* document of the tab, 0 once it is closed
  allowed,  \* documents isAllowedUrl accepts, of every tab
  toSay,    \* what the document has yet to bring about: "hello", "complete"
  queue,    \* events and answers on their way to the worker
  asked,    \* frame discoveries the browser has yet to answer
  querying, \* injectOpenTabs waits for the browser's list of tabs
  sessions, \* store.sessions
  disk,     \* what chrome.storage.session holds of them
  reading,  \* what the worker's read of storage found, or NoRead
  told,     \* session id last sent to the panels, 0 for none
  early,    \* history: an event was handled before stored sessions were restored
  nextId, kills

browserVars == <<doc, allowed, toSay, asked, querying, queue>>
storeVars == <<sessions, disk, reading, told, nextId>>
vars == <<browserVars, storeVars, early, kills>>

Docs == 1..MaxDocs
NoDoc == 0
Session == [id : Nat \ {0}, tree : 0..MaxDocs]
NoSessions == [t \in Tabs |-> NoSession]

LoadingMsg(t) == [type |-> "loading", tab |-> t]
CompleteMsg(t, ok) == [type |-> "complete", tab |-> t, ok |-> ok]
RemovedMsg(t) == [type |-> "removed", tab |-> t]
HelloMsg(t, d) == [type |-> "hello", tab |-> t, doc |-> d]
FramesMsg(t, d) == [type |-> "frames", tab |-> t, doc |-> d, worker |-> kills]
TabsMsg(T) == [type |-> "tabs", denied |-> T, worker |-> kills]

Allowed(t, d) == <<t, d>> \in allowed

Init ==
  /\ doc = [t \in Tabs |-> 1]
  /\ allowed \in {(Tabs \X Docs) \ {<<t, 2>>} : t \in Tabs}
  /\ toSay = [t \in Tabs |-> {"hello", "complete"}]
  /\ queue = <<>>
  /\ asked = [t \in Tabs |-> 0]
  /\ querying = TRUE
  /\ sessions = NoSessions
  /\ disk = NoSessions
  /\ reading = NoSessions
  /\ told = [t \in Tabs |-> 0]
  /\ early = FALSE
  /\ nextId = 1
  /\ kills = 0

------------------------------------------------------------------------------
(* The store.                                                              *)

\* ensure(): a tab without a session gets one, with an empty frame tree.
Ensured(t) ==
  IF sessions[t] # NoSession THEN sessions
  ELSE [sessions EXCEPT ![t] = [id |-> nextId, tree |-> NoDoc]]

\* The store holds S, the panels hear of t's session, and all of it is written.
Save(S, t) ==
  /\ sessions' = S
  /\ disk' = S
  /\ told' = IF S[t] = NoSession THEN told ELSE [told EXCEPT ![t] = S[t].id]
  /\ nextId' = IF S[t] # NoSession /\ S[t].id = nextId THEN nextId + 1 ELSE nextId
  /\ UNCHANGED reading

ensure(t) ==
  IF sessions[t] = NoSession THEN Save(Ensured(t), t) ELSE UNCHANGED storeVars

updateFrameTree(t, d) == Save([Ensured(t) EXCEPT ![t].tree = d], t)

\* Mutant: a reload starts a new session.
resetForReload_NewSession(t) ==
  IF sessions[t] = NoSession THEN UNCHANGED storeVars
  ELSE Save([sessions EXCEPT ![t] = [id |-> nextId, tree |-> NoDoc]], t)

\* A reload keeps the session and forgets its frames.
resetForReload(t) ==
  IF sessions[t] = NoSession THEN UNCHANGED storeVars
  ELSE Save([sessions EXCEPT ![t].tree = NoDoc], t)

\* Mutant: what is removed stays in storage.
remove_KeepsStored(T) ==
  /\ sessions' = [t \in Tabs |-> IF t \in T THEN NoSession ELSE sessions[t]]
  /\ UNCHANGED <<disk, reading, told, nextId>>

\* remove() of every tab in T.
remove(T) ==
  IF \A t \in T : sessions[t] = NoSession THEN UNCHANGED storeVars
  ELSE /\ sessions' = [t \in Tabs |-> IF t \in T THEN NoSession ELSE sessions[t]]
       /\ disk' = sessions'
       /\ UNCHANGED <<reading, told, nextId>>

\* Storage answers: what was stored replaces what is in memory, tab by tab.
restore ==
  /\ reading # NoRead
  /\ sessions' = [t \in Tabs |-> IF reading[t] # NoSession THEN reading[t]
                                 ELSE sessions[t]]
  /\ reading' = NoRead
  /\ UNCHANGED <<browserVars, disk, told, early, nextId, kills>>

------------------------------------------------------------------------------
(* The browser.                                                            *)

Send(m) == Len(queue) < MaxQueue /\ queue' = Append(queue, m)

\* A reload or a navigation, with its onUpdated of status "loading".
Navigate(t) ==
  /\ doc[t] \in 1..(MaxDocs - 1)
  /\ doc' = [doc EXCEPT ![t] = @ + 1]
  /\ toSay' = [toSay EXCEPT ![t] = IF Allowed(t, doc[t] + 1)
                                   THEN {"hello", "complete"} ELSE {"complete"}]
  /\ Send(LoadingMsg(t))
  /\ UNCHANGED <<allowed, asked, querying, storeVars, early, kills>>

\* The content script of the document says hello.
SayHello(t) ==
  /\ "hello" \in toSay[t]
  /\ toSay' = [toSay EXCEPT ![t] = @ \ {"hello"}]
  /\ Send(HelloMsg(t, doc[t]))
  /\ UNCHANGED <<doc, allowed, asked, querying, storeVars, early, kills>>

\* tabs.onUpdated with status "complete" and the URL of the tab.
Complete(t) ==
  /\ "complete" \in toSay[t]
  /\ toSay' = [toSay EXCEPT ![t] = @ \ {"complete"}]
  /\ Send(CompleteMsg(t, Allowed(t, doc[t])))
  /\ UNCHANGED <<doc, allowed, asked, querying, storeVars, early, kills>>

CloseTab(t) ==
  /\ doc[t] # NoDoc
  /\ doc' = [doc EXCEPT ![t] = NoDoc]
  /\ toSay' = [toSay EXCEPT ![t] = {}]
  /\ Send(RemovedMsg(t))
  /\ UNCHANGED <<allowed, asked, querying, storeVars, early, kills>>

\* webNavigation.getAllFrames; of a tab that is gone it answers null.
AnswerFrames(t) ==
  /\ asked[t] > 0
  /\ asked' = [asked EXCEPT ![t] = @ - 1]
  /\ Send(FramesMsg(t, doc[t]))
  /\ UNCHANGED <<doc, allowed, toSay, querying, storeVars, early, kills>>

\* tabs.query of injectOpenTabs: the open tabs whose page is not inspectable.
AnswerQuery ==
  /\ querying
  /\ querying' = FALSE
  /\ Send(TabsMsg({t \in Tabs : doc[t] # NoDoc /\ ~Allowed(t, doc[t])}))
  /\ UNCHANGED <<doc, allowed, toSay, asked, storeVars, early, kills>>

\* Mutant: ids are counted from one by every worker.
RestartWorker_RestartsIds ==
  /\ kills < MaxKills
  /\ kills' = kills + 1
  /\ asked' = [t \in Tabs |-> 0]
  /\ querying' = TRUE
  /\ sessions' = NoSessions
  /\ reading' = disk
  /\ nextId' = 1
  /\ UNCHANGED <<doc, allowed, toSay, queue, disk, told, early>>

\* The worker is stopped and the next event wakes it: what it waited for is gone,
\* events are not.
RestartWorker ==
  /\ kills < MaxKills
  /\ kills' = kills + 1
  /\ asked' = [t \in Tabs |-> 0]
  /\ querying' = TRUE
  /\ sessions' = NoSessions
  /\ reading' = disk
  /\ UNCHANGED <<doc, allowed, toSay, queue, disk, told, early, nextId>>

\* An answer to a worker that is gone is heard by nobody.
AnswerUnheard ==
  /\ queue # <<>>
  /\ Head(queue).type \in {"frames", "tabs"} /\ Head(queue).worker # kills
  /\ queue' = Tail(queue)
  /\ UNCHANGED <<doc, allowed, toSay, asked, querying, storeVars, early, kills>>

------------------------------------------------------------------------------
(* The worker's handlers.                                                  *)

\* What is handled before the stored sessions are restored finds none of them.
Handle == early' = (early \/ reading \notin {NoRead, NoSessions})

Receive(type) ==
  /\ queue # <<>> /\ Head(queue).type = type
  /\ queue' = Tail(queue)
  /\ Handle
  /\ UNCHANGED <<doc, allowed, toSay, kills>>

HandleLoading ==
  /\ Receive("loading")
  /\ resetForReload(Head(queue).tab)
  /\ UNCHANGED <<asked, querying>>

\* A page that may be inspected has a session, and its frames are asked for.
HandleComplete ==
  LET m == Head(queue) IN
  /\ Receive("complete")
  /\ IF m.ok THEN ensure(m.tab) /\ asked' = [asked EXCEPT ![m.tab] = @ + 1]
     ELSE remove({m.tab}) /\ UNCHANGED asked
  /\ UNCHANGED querying

\* The URL tested again is the one of the event, which was accepted.
HandleFrames ==
  /\ Receive("frames") /\ Head(queue).worker = kills
  /\ updateFrameTree(Head(queue).tab, Head(queue).doc)
  /\ UNCHANGED <<asked, querying>>

\* Mutant: a hello ensures the session and leaves the frames to the discovery.
handleFrameHello_EnsuresOnly ==
  /\ Receive("hello")
  /\ ensure(Head(queue).tab)
  /\ UNCHANGED <<asked, querying>>

\* A frame that is not listed yet is added; frame 0 of an older document counts
\* as listed.
handleFrameHello ==
  LET m == Head(queue) IN
  /\ Receive("hello")
  /\ IF sessions[m.tab] = NoSession \/ sessions[m.tab].tree = NoDoc
     THEN updateFrameTree(m.tab, m.doc)
     ELSE UNCHANGED storeVars
  /\ UNCHANGED <<asked, querying>>

HandleRemoved ==
  /\ Receive("removed")
  /\ remove({Head(queue).tab})
  /\ UNCHANGED <<asked, querying>>

\* injectOpenTabs injects nothing (shouldInjectForUrl is constant); it removes.
InjectOpenTabs ==
  /\ Receive("tabs") /\ Head(queue).worker = kills
  /\ remove(Head(queue).denied)
  /\ UNCHANGED <<asked, querying>>

\* Storage or permissions have changed, or a panel has connected.
refreshHostAccess ==
  /\ ~querying
  /\ querying' = TRUE
  /\ UNCHANGED <<doc, allowed, toSay, asked, queue, storeVars, early, kills>>

\* A panel connects from a tab and is told of its session.  setInspected makes
\* sure of the session and writes it, unless it was inspected before.  The
\* refreshHostAccess it starts as well first waits for permissions.
PanelConnects(t) ==
  /\ doc[t] # NoDoc
  /\ sessions[t] = NoSession => nextId < MaxIds
  /\ \/ Save(Ensured(t), t)
     \/ /\ sessions[t] # NoSession
        /\ told' = [told EXCEPT ![t] = sessions[t].id]
        /\ UNCHANGED <<sessions, disk, reading, nextId>>
  /\ Handle
  /\ UNCHANGED <<browserVars, kills>>

------------------------------------------------------------------------------

Browser ==
  \/ AnswerQuery
  \/ \E t \in Tabs : \/ Navigate(t) \/ SayHello(t) \/ Complete(t) \/ CloseTab(t)
                     \/ AnswerFrames(t)

Worker ==
  \/ restore \/ refreshHostAccess
  \/ HandleLoading \/ HandleComplete \/ HandleFrames \/ handleFrameHello
  \/ HandleRemoved \/ InjectOpenTabs
  \/ \E t \in Tabs : PanelConnects(t)

Next == Browser \/ Worker \/ RestartWorker \/ AnswerUnheard

Spec == Init /\ [][Next]_vars

------------------------------------------------------------------------------
(* Properties.                                                             *)

\* Sessions are what their type says, and the ids in use have been given out.
TypeOK ==
  /\ doc \in [Tabs -> 0..MaxDocs]
  /\ toSay \in [Tabs -> SUBSET {"hello", "complete"}]
  /\ asked \in [Tabs -> Nat]
  /\ querying \in BOOLEAN /\ early \in BOOLEAN
  /\ sessions \in [Tabs -> Session \cup {NoSession}]
  /\ disk \in [Tabs -> Session \cup {NoSession}]
  /\ reading = NoRead \/ reading \in [Tabs -> Session \cup {NoSession}]
  /\ \A t \in Tabs : told[t] < nextId
  /\ \A t \in Tabs : sessions[t] # NoSession => sessions[t].id < nextId

\* No two tabs share a session, in memory or in storage.
SessionsAreDistinct ==
  \A t, u \in Tabs :
    /\ t # u /\ sessions[t] # NoSession /\ sessions[u] # NoSession
         => sessions[t].id # sessions[u].id
    /\ t # u /\ disk[t] # NoSession /\ disk[u] # NoSession
         => disk[t].id # disk[u].id

\* Everything that is on its way has arrived.
Settled ==
  /\ queue = <<>> /\ reading = NoRead /\ ~querying
  /\ \A t \in Tabs : toSay[t] = {} /\ asked[t] = 0

\* Once the restore is over, storage holds exactly the sessions in memory, so the
\* next worker has them; unless an event was handled before the restore.
StorageFollowsMemory == reading = NoRead /\ ~early => disk = sessions

\* The id of the tab's session, 0 for none: what is read from storage goes before
\* what is in memory.
IdOf(t) ==
  IF reading # NoRead /\ reading[t] # NoSession THEN reading[t].id
  ELSE IF sessions[t] # NoSession THEN sessions[t].id ELSE 0

\* No load, reload, frame discovery, hello or restore, and no restart of the worker,
\* changes the id of a tab's session: a panel and the MCP process go on with the
\* session they know.  Only the restart after an event that was handled before a
\* restore may: that event has stored an id that the restore then put aside.
IdIsKept ==
  [][\A t \in Tabs :
       /\ IdOf(t) # 0 /\ IdOf(t)' # 0
       /\ ~(early /\ kills' # kills)
       => IdOf(t)' = IdOf(t)]_vars

\* However loads, hellos and discoveries interleave, at rest an inspectable page
\* has a session that lists its document, so edits can be forwarded to it.
LoadedPageIsReachable ==
  Settled /\ ~early =>
    \A t \in Tabs : doc[t] # NoDoc /\ Allowed(t, doc[t]) =>
      sessions[t] # NoSession /\ sessions[t].tree = doc[t]

\* What outlives its tab lists no frame, so nothing is forwarded on its account.
LeftOversAreEmpty ==
  Settled /\ ~early =>
    \A t \in Tabs : doc[t] = NoDoc /\ sessions[t] # NoSession => sessions[t].tree = NoDoc

\* Sessions are sound: no two tabs share one, in memory or in storage, whichever
\* worker gave the ids out, and one that outlives its tab reaches no frame
\* (tab-session.ts, restore after a suspension).
SessionsAreSound == TypeOK /\ SessionsAreDistinct /\ LeftOversAreEmpty

\* tab-session.ts 22: when the tab closes the session is removed.
ClosedTabHasNoSession ==
  Settled => \A t \in Tabs : doc[t] = NoDoc => sessions[t] = NoSession

\* tab-session.ts 20-22: a reload preserves the session id, so that the panel
\* reconnects to the same session: at rest the panel knows the id in use.
PanelKnowsSession ==
  Settled => \A t \in Tabs : sessions[t] # NoSession => told[t] = sessions[t].id

\* ADR-006 45: state that survives the suspension of the worker is persisted.
SessionsSurviveSuspension == Settled => disk = sessions
==============================================================================
