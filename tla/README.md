# Vision Control: models, checks and proofs

Vision Control lets a developer edit a live page visually. A content script in the
inspected page previews every edit; a DevTools panel records the edits in a journal;
the extension's background (a service worker) keeps the journal of each tab and is
the source of truth; an optional local MCP server shows coding agents a read-only
projection of that state and passes commands the other way ("clear the preview",
"verify the page"). The coding agent changes the source, the page reloads, and the
extension verifies that the page now looks as the journal says.

Most of what can go wrong here is not in one function but between four processes
that restart independently (page, panel, service worker, MCP server), each with an
asynchronous copy of somebody else's state. That is what is modelled.

Paths below are relative to the repository. A run is a module and a `.cfg`; its name
is the one used in `PROJECT.json`.

* [1. Inventory](#1-inventory): the parts, their state, what is hard about them
* [2. Modules](#2-modules): which module stands for which part, and how
* [3. Runs](#3-runs): what TLC checks, within which bounds, under which fairness
* [4. Proofs](#4-proofs): what holds for every value of the constants, and why
* [5. Where the code and its documents disagree](#5-where-the-code-and-its-documents-disagree)
* [6. What is left](#6-what-is-left)

## 1. Inventory

### What runs where

| Process | Lives | State | Talks to |
| --- | --- | --- | --- |
| Page and content script | one document of a tab | preview (stylesheet, saved values), resize gestures, running verifications | background, by `runtime` messages |
| DevTools panel | while DevTools is open | React copy of the journal, debounced sync | background, by a port; page, through the background |
| Background (service worker) | killed when idle, restarted by any event | journals, tab sessions, command router, pair controller; `chrome.storage.session` survives it, `chrome.storage.local` survives the browser | all others |
| MCP server | until the agent stops it | pair token, one attached socket, projection cache, command queue | background, by WebSocket; agent, by stdio |

### Components

For each: state / operations / what is hard / what makes it correct. *Module* says
where it is modelled.

* **Projection cache and bridge session** (`packages/mcp-server/src/bridge/projection-cache.ts`,
  `bridge-session.ts`). Snapshot and verification result per tab, bounded set of retired
  page generations, focus / `ingest`, `clearTab`, `setActiveTab`, `setVerificationResult`,
  `noteHeartbeat`, `markPaired`, `markUnpaired`, attach and close of a socket / snapshots
  of generations that are gone arrive late, the retired set fills up, sockets replace each
  other / a page generation that ended is not projected again; what tools read together is
  of one generation. *ProjectionCache, ProjectionPromise, ProjectionCacheProofs.*
* **Change journal** (`packages/change-journal/src`). Entries with a status, undo and redo
  stacks / `append`, `undo`, `redo`, `markEntryCommitted`, `markEntryReverted`,
  `markEntrySuperseded`, `clear` /
  long sequences / it is a linear history with a cursor. *JournalOps, ChangeJournal, LinearHistory,
  JournalOpsProofs, UnitsProofs.*
* **Journal of a tab** (`apps/extension/src/hooks/useJournal*.ts`,
  `apps/extension/src/journal/*.ts`). The same journal in the panel's state, its last
  render, its debounce timer, messages both ways, the background's memory and storage /
  edit, undo, redo, clear, hydrate, sync, relay of page edits, restore, removal / each copy
  may be older than another when they are merged; panel and worker die at any time / no
  edit is lost or revived, what is stored is what is shown. *JournalSync,
  JournalSyncProofs.*
* **Bridge pairing** (`apps/extension/src/messaging/bridge-background.ts`,
  `packages/bridge-client/src/client.ts`, `packages/mcp-server/src/bridge/bridge-server.ts`).
  Pair generation, client, connection state, socket, heartbeat, stored endpoint, minted
  token / pair, unpair, wake, open, error, close, upgrade, replace / each `await` of one
  request is crossed by other requests and by socket events / one socket, unpair wins,
  the panel shows the truth. *BridgePairing, BridgePairingProofs.*
* **Agent commands and verification results** (`command-queue.ts`, `projection-deps.ts`,
  `apps/extension/src/verification/background-command-router.ts`,
  `content-command-wiring.ts`). Queue, pending requests, runs in pages / enqueue, route,
  handle, answer, ack, project / the page, the link or the tab goes while a command is
  under way / acked means done; a verdict is of the page it is filed under. *CommandRouting,
  CommandRoutingProofs.*
* **Tab sessions** (`apps/extension/src/messaging/tab-session.ts`,
  `background-tab-lifecycle.ts`, `background-frame-hello.ts`, `host-access-refresh.ts`).
  Session per tab with its frame tree, in memory and storage / ensure, update, reset,
  remove, restore, persist / browser events, frame discovery and storage answers cross / a
  loaded page is reachable through the session the panel knows. *TabSessions, TabSessionsProofs.*
* **Preview engine and resize gestures** (`packages/preview-engine/src`,
  `apps/extension/src/components/interaction/*resize*`, `content-edit-wiring.ts`). Tracked
  operations, rules per element, saved values, gestures / apply, rollback, clear, begin,
  frame, end, commit, cancel / edits, frames of gestures, clears and the page's own
  rendering interleave / what is rolled back is gone and nothing else is.
  *PreviewLayer, PreviewLayerProofs.*
* **Message bus and router** (`messaging/router.ts`, `operation-relay.ts`, `panel-messages.ts`,
  `frame-discovery.ts`, `context-permissions.ts`). Registered frames, the mode and status each
  side has, operations on their way / routing by tab and frame, relay, broadcast / a frame hears
  nothing before its script runs, a panel opens late, a page's message reaches a panel by two
  ways / what was sent arrives once, in order, at whom it is for. *MessageRouting*; the bus's
  permissions are `Admitted` and `Denied` of *CommandRouting*.
* **Snapshot push and active session** (`journal/bridge-snapshot-push.ts`,
  `bridge-client/src/active-session.ts`). Revision counters, tracker of the active tab, focus /
  push at every change, close, focus, connect / revisions restart with the worker while the
  server stays / what tools read is the tab's present selection and journal. *SnapshotPush*, with
  an instance of ProjectionCache.
* **Host allowlist** (`host-allowlist*.ts`, `host-permissions.ts`, `useGrantedHosts.ts`). Grants of
  the browser, stored list, the worker's copy, the panels' lists / allow, remove, reconcile /
  reconciliations overlap each other and the panels' writes / the worker's list is what is
  granted. *HostAccess.*
* **Interaction machine, drag and resize controllers, multi-selection**
  (`packages/interaction-machine`, `packages/editor-core/src/multi-select`,
  `overlay/move-drag-controller.ts`, `overlay/multi-select-controller.ts`,
  `components/interaction/ResizeController.ts`). Nested states, capture, ghost,
  listeners, scroll frame, group / pointer events, Escape, mode changes, lost capture, a page that
  changes under the pointer / any of them ends a gesture at any step / a gesture that is over
  leaves nothing and records what was seen. *InteractionMachine, GroupSelection, MoveDrag,
  ResizeHandles.*
* **Selection and property inspector** (`overlay/overlay-runtime.ts`, `overlay/property-inspector*.ts`,
  `inspector-core/src/inspector.ts`, `hooks/useSelectionSummary.ts`). Selected element, revision,
  summary, inputs with the value they replace / origins resolve late, breakpoints republish,
  documents go / page, panel and handles are about one element. *OverlaySelection,
  PropertyInspector.*
* **Layout engine** (`packages/layout-engine`, `components/interaction/reorder*`, `flex-*`). Pure functions
  on boxes: drop positions, legal deltas, intents, alignment, grids / writing modes, reversed
  and wrapped rows, bounds / the drop is where the indicator was. *FlexLayout, LayoutIntents,
  MoveDecisions, ResizeDecisions.*
* **Change IR** (`packages/change-ir`). Operations, inverse, conflict signatures, merge, versions /
  every kind of operation has its own inverse and slots / an inverse undoes, a merge is both. *ChangeOperations.*
* **Verification engine** (`packages/verification-engine`). Resolution of a recorded target,
  assertions, hot-update wait, repairs, screenshot policy / the page was rebuilt by the agent /
  a pass means the page has the change. *Verification.*
* **Context compiler and redaction** (`packages/context-compiler`, `packages/security`). Rules,
  patterns, token budget / truncation and redaction in one pass / nothing private is told and no
  more is cut than needed. *ContextCompilation.*
* **Source-map origins** (`packages/map-origins`, `overlay/resolve-selection-origins.ts`). Maps, caps, positions / maps are
  huge, broken or lie / a HIGH origin is where the rule stands. *SourceMaps.*
* **Panel editors and inspected elements** (`components/editors`, `components/inspector`,
  `packages/inspector-core`, `packages/element-identity`). Drafts, validation, operations, selectors, fingerprints / what the
  panel accepts the schema must accept / the selector finds the element. *PanelCommands,
  InspectedElement.*
* **Geometry** (floating-point matrices), **overlay and panel rendering**, **content script
  injection** (constantly off at this commit), **MCP tools** (they read the cache: the operators
  `getActive` and `getVerificationResult`), **protocol** schemas, **logger, CLI, integrations, demo
  apps, nx plugin**: not modelled; the reason of each is in `PROJECT.json`.

## 2. Modules

State machines:

| Module | What it stands for | Extends / uses |
| --- | --- | --- |
| ProjectionPromise | what the cache promises: per tab one generation at a growing revision | |
| ProjectionCache | cache and bridge session, one action per message | instantiates ProjectionPromise |
| JournalOps | the journal's operations and the merge of two journals, as operators on a record | |
| LinearHistory | an edit history: a line and a cursor | |
| ChangeJournal | one journal, every operation an action | extends JournalOps, instantiates LinearHistory |
| JournalSync | the copies of one tab's journal | extends JournalOps |
| BridgePairing | pairing on both sides of the socket | |
| CommandRouting | commands and results across queue, link, router, pages | |
| TabSessions | the session store and the events that keep it | |
| PreviewLayer | preview manager, stylesheet, adapters, gestures | |
| SnapshotPush | pushes, revisions, focus, tracker, a server that outlives the worker | instantiates ProjectionCache |
| MessageRouting | bus, router, relay, frames and panels | |
| HostAccess | grants, stored list, the worker's and the panels' copies | |
| InteractionMachine | the pointer machine with its nested states | |
| GroupSelection | overlay group, panel group, the multi-select reducer and its move | |
| MoveDrag | the move controller's gesture over a page that changes | |
| ResizeHandles | handles, their two gestures and what they record | |
| OverlaySelection | the selection from the page to the panel | |
| PropertyInspector | the overlay's inputs, chips and gap handle | |
| MCUnits | the ten small machines of the `units` run: the first state chooses one, the others stand still | extends them |

Pure functions. They share `asked` of module Question: a behaviour is one call with one of the
enumerated arguments, and an invariant compares what it returns with a reference.

| Module | What it stands for |
| --- | --- |
| FlexLayout | insertion index, pair admission, legal sizes |
| LayoutIntents | roles, meaning of a drag, alignment, auto layout, grids, snapping |
| MoveDecisions, ResizeDecisions | drop targets, feasibility, order by key, handles, pointer to delta, validation of a frame |
| ChangeOperations | inverse, signatures, merge, versions |
| Verification | target resolution, assertions, verdict, repairs, masking, retention |
| ContextCompilation | redaction, budget, compiled context |
| PanelCommands | what editors accept, what they build, what the schema reads |
| InspectedElement | selectors, occurrence, summary, grid cell, fingerprints |
| SourceMaps | discovery, caps, search, confidence |
| MCPipeline, MCAlgorithms | small inputs that a browser can produce |

Proofs: ProjectionCacheProofs, BridgePairingProofs, PreviewLayerProofs, JournalOpsProofs,
JournalSyncProofs, TabSessionsProofs, CommandRoutingProofs and UnitsProofs each extend the module
they are about. The other MC modules only add a symmetry set.

How code becomes actions:

* A JavaScript task runs to its end, so one event handler up to its first `await` is one
  action; each continuation after an `await` is an action of its own. Generation and
  session comparisons after an `await` are the guards of those continuations.
* Names are the code's where an action is a function of the code (`ingest`, `clearTab`,
  `attachClient`, `rollbackTrackedEntry`, `mergeHydratedJournal`). An early return that
  changes nothing is a stuttering step and has no action.
* Messages between two contexts are sequences (in order, each handled once), as
  `runtime.sendMessage`, ports and WebSockets keep the order of one sender. Different
  senders are different sequences.
* A history variable (`dead`, `leftActive`, `failed`, `early`, `outOfTurn`, `left`, the `by` of a
  verdict) is read by no guard; it records what a property has to compare with.
* A definition marked `Mutant:` is a plausible bug of the definition after it. `Next` does
  not use it; it shows that a property can fail.

**ProjectionCache.** `handleRaw` is the dispatch of one socket message; `ingest` splits into
the first snapshot of a tab, one of the same generation and one that replaces it. Time is
one bit: the last heartbeat is within `HEARTBEAT_MAX_GAP_MS` or not. `dead` collects the
generations the extension was told are over, also those that no longer fit the retired
set: the property is stronger than what the code stores.

**ChangeJournal.** `Commit` takes any recorded entry, whatever its status, as `commitEntry` and
`markEntryCommitted` do: one that was undone counts as in effect again and can still be redone.
StacksInOrder therefore says nothing of the status of what can be redone, only that nothing on the
stacks was superseded. Where a journal goes from panel to background, commits come from
`recordRemote` alone, for an operation just appended; there EveryCopyIsSound asks for more
(RedoIsReverted).

**JournalSync.** React renders a click's updates at the end of the click and a message's in
a later task, so `journal` (all queued updates applied) and `rendered` (what effects and
refs have seen) differ between. The store's `taskQueue` runs one task at a time: `StartTask`
writes memory, `FinishTask` or `FailTask` is the answer of storage. One tab is enough,
since every key and every queue entry is a tab's. The route of an edit to the page is
abstracted to its order. `StacksFollowRecordOrder` reads the order of recording from the journal
itself: the entries map of the code keeps insertion order.

**BridgePairing.** An attempt is named by its `pairGeneration`. `phase` says in which `await`
of `pairWithInput` it is. Of a connection each end learns later than the other: `accepted`
means the server has it and the client has not heard. Chrome opens one connection to a host
at a time, so one that is given up while it is dialled does not reach the server.

**CommandRouting.** `Bus` is what the background bus may do with a page's `bridge-command-result`.
The extension as it is denies it (`Denied`); the run command_routing lets every single result be
denied or admitted, because the router's handling of results is live code either way and its own
unit tests drive it, so its properties hold on the bus that ships and on one whose permissions name
the message. `verification_denied` has the shipped bus alone. A verification that the panel asks
for takes the same path and is never denied; that it is answered (LocalIsAnswered) is the shipped
behaviour. The `by` of a result is the tab and session of the page that made it. The worker is not
restarted in this module; pairing is BridgePairing's and the choice of the projected tab is
ProjectionCache's.

**TabSessions.** `queue` is the order in which the browser's events and answers reach the
worker. Storage reads and writes take effect in the order of the calls; `reading` is what
the restore of a fresh worker has found and not yet merged. `IdOf` is the id a tab's session has, read
from storage before memory while a restore is under way; IdIsKept is about every step, restores and
restarts among them, but for the restart that follows an event handled before a restore (`early`).

**InteractionMachine.** `begun` is what the browser layer was told to begin and not to end since the
last reconnect. `reconnect` tells it to end nothing, so a gesture or a preview that the lost
connection interrupted moves to `left` and stays there: GesturesAreBalanced is about a connected
machine and says nothing of it, PreviewsEnd (part 5) does.

**PreviewLayer.** Operations are numbered. The rules behind an element are a set of numbers
of which the largest is in force, which is what the chain of "the rule I replaced" in
`stylesheet-manager.ts` amounts to. A "value" operation stands for text, classes, attributes
and the children of a parent; a reparent, which saves two parents, is two of them. An
operation that throws half way takes back what it wrote, so it is no step. `Package` are calls
the package allows and the extension does not make.

**SnapshotPush.** A snapshot is the pair of changes it was compiled from. The stored sessions and
journals are back before a new socket opens, and a restarted worker does not reconnect by itself:
the token was in its memory. A task of the journal store is one step here (JournalSync has its
parts). A restart is looked at only while a socket is connected. `Takes` says which messages the
cache takes, in its own guards; what it refuses changes nothing.

**MessageRouting.** The panel's effect runs after each message; a page hears the worker at once;
the other tab's page is passive and has one frame. What two contexts send crosses, what one sends
stays in order. `late` remembers a frame discovery that was answered while the script of any listed
frame, not only of the top one, had yet to start: the attempt to prove MessagesArrive for pages of
several frames showed that a discovery announces those too, and TLC found the run in which such a
frame, listed before it says hello, never hears its panel's mode.

**HostAccess.** A panel's write is worked out from the list it showed when the user asked; the
worker's reconciliations overlap. With the grant of all sites a request is granted without an
entry of its own.

## 3. Runs

| Run | Properties | Distinct states |
| --- | --- | --- |
| projection_cache | WellFormed, DeadGenerationsStayOut, AnswersAgree, FocusMovesToLiveGenerations, ImplementsPromise | 75,589 |
| journal_sync | EveryCopyIsSound, MemoryMatchesStorage | 3,243,076 |
| journal_sync_settles | EchoesDieOut | 377,625 |
| bridge_pairing | EndsAgree, UnpairIsFinal, UnpairedButForFailures, StaleClientIsSilent, AttemptsEnd | 32,916 |
| command_routing | CommandsAreKept, VerdictIsOfItsPage, LocalIsAnswered, EndedSessionIsSilent | 2,064,990 |
| tab_sessions | SessionsAreSound, StorageFollowsMemory, LoadedPageIsReachable, IdIsKept | 3,207,674 |
| preview_layer | OverridesAreSound, NothingIsLeftBehind, NoStrayPreview | 3,275,636 |
| units | StacksInOrder, ServedIsCurrent, MessagesArrive, HostsAreGranted, GesturesLeaveNothing, SelectionAgrees, ImplementsHistory, RecordedIsReal | 1,323,711 |
| algorithms | ShownIsDone, ResizeIsAsShown, IntentsAreReal, OperationsCompose, VerdictsAreReal, ContextIsSafe, PanelIsTrue, OriginsAreRead | one per question |
| undo_lost, verification_denied, fingerprints_differ | UndoIsNotLost, VerificationIsProjected, FingerprintIsCurrent: violated | |

Each property is stated in words above its definition. `CHECK_DEADLOCK FALSE` stands where
a bound is used up, the system may be idle for ever, or a behaviour is a single call;
projection_cache has none of these and checks deadlock.

### Bounds

* projection_cache: two tabs (focus must have somewhere to move), three sessions and a
  retired set of two (one session more than fits), two sockets (a replacement), two
  revisions, two timestamps.
* journal_sync: two edits, one undo or clear with any redo, two panels (a reopen), one restart of
  the worker, a tab that may close and storage that may fail. Every finding below needs at
  most one edit and one of these.
* journal_sync_settles: the same without restarts and failures and without symmetry, which
  is not sound for liveness.
* bridge_pairing: three generations, that is three requests in each other's awaits, one kill
  of the worker, one connection lost or server restarted.
* command_routing: one command and one local verification at a time on two tabs, two pairings,
  one navigation or close, one push besides those of pairing. Two commands without local
  verifications, with two navigations and one pairing, were checked beside it.
* tab_sessions: two tabs of two documents, of which one tab's second may not be inspected, one
  restart, at most two events on their way: every pair of events is seen in both orders.
* preview_layer: four operations on two elements, so that one is rolled back between two
  others with a clear before or after, and one element rendered anew.
* units: the journal has four operations, so that an edit in the middle of the line is superseded
  with edits undone on one side of it and not on the other. Snapshots: one change, two
  generations of a tab, two links, one message under way, one task and one restart of the worker;
  more of each ([changes, generations, links, restarts] 1 3 2 1, 2 3 1 0, 2 2 2 1) were checked
  beside it. Hosts: two panels, two wishes, one restart. Messages: two tabs, one of them with a frame in its page, two
  steps. Gestures:
  two fingers and two boxes in two lists, which is enough for every pair of overlapping gestures.
* algorithms: containers of up to three children with every kind of child (ordered, unseen), every
  axis and sign; pairs of change sets with up to two operations each; documents of html, body and up
  to three elements in every shape, one of them a shadow tree; grids of up to three tracks; values of up
  to four tokens. The functions look at neighbours, first matches and sums, for which these are the
  smallest inputs with a first, a middle and a last.

### Fairness

Only liveness properties use it.

* JournalSync: weak fairness of the panel's handlers together and of the background's
  together: an event loop runs what is queued, timers fire, storage answers or fails. Nothing
  is assumed of users, kills or closes.
* BridgePairing: weak fairness of the worker's reading of storage (`WakeLoaded`), of the
  client's socket events, of the continuation of each attempt, and of the server's socket
  events: a WebSocket reports open, error or close in the end. Nothing is assumed of requests,
  kills, restarts and expiry.

## 4. Proofs

Checked by TLAPS for every value of the constants that satisfies the modules' assumptions
(numeric bounds are naturals, sentinels are not members of the sets they stand beside). In
particular the bounds of the TLC runs do not matter. Every inductive invariant below was first
checked by TLC on the run of its module.

**ProjectionCacheProofs.** `Invariant`: `Spec => []IInv`. DeadGenerationsStayOut is not
inductive: the cache does not know `dead`. What makes it so is `DeadAreRefused`: a dead
generation is in the retired set, or the set is full (then only the projected generation is
accepted, which is not dead), or it is the anonymous generation, which is refused once
anything is retired. `RetiredFinite` and `RetiredAreDead` carry the cardinality argument. The
answers of the read tools need three more parts: `DarkIsEmpty` (an unpaired cache holds nothing),
`ActiveIsProjected` (a tab in focus has an entry unless it is the bootstrap) and `AnswerInv` (a
result is kept for a generation that is projected). From these CacheIsWellFormed,
NeverServedAgain, ToolsAnswerOneGeneration, FocusStaysWithTheLiving, and
`CacheImplementsPromise`: each step of the cache is a step of ProjectionPromise or a stutter.

**BridgePairingProofs.** `IInv` is TypeOK, OneSocket, HeartbeatIsLife and OneConnection with three
facts they rest on: `PhaseTellsSocket` (what the phase of an attempt says of its client and of
the connection), `CurrentAttempt` (what the phase of the current generation says of
`bridgeClient` and of the panel) and `ServerHolds` (the session's socket is live or its close is
known). One step per action of Next. From it the invariants of the run and StaleClientIsSilent.

**PreviewLayerProofs.** The heart is `Covered(R, L, dead)`: the rules `R` behind an element
contain every override in `L` that is in effect, everything else in them is dead, and their
newest is in `L`. Two lemmas say that writing a rule and taking one back, of whatever age, keep
that. From it NewestShows. `GesturesAreStyles` and TypeOK give NoPreviewIsStray. ClearLeavesNothing
needs a second invariant, `OldestSavedTheApp` (of the operations that have overwritten an
element, one that saved what an edit had written is not the oldest), which holds as long as
values are rolled back newest first (`~outOfTurn`); that the oldest exists is shown by the
well-foundedness of the naturals.

**JournalOpsProofs.** What the operators of the journal do to any journal. Undo and redo stacks
are filtered by `Kept`, a recursive function. That the filter keeps exactly the wanted entries in
their order is shown for sequences of every length by a least counterexample: were some prefix
filtered wrongly, the shortest such prefix would have a predecessor that is right, and one step of
the recursion contradicts that. `Ordered` says that a journal is typed and that its stacks lie along
its order of recording (`Laid`); `Sound` adds that what can be redone is reverted. Every operation
keeps either (`appendEntryIsSound`, `undoIsSound`, ..., `markEntrySupersededIsSound`), but for the
commit of an undone entry, which keeps `Ordered` only; the merge of any two sound journals is sound
(`mergeHydratedJournalIsSound`).

**JournalSyncProofs.** `CopyInv`: every copy there is, in the panel's state, its render, its
timer, the messages both ways, the worker's memory, storage and the queued tasks, is a sound
journal of operations that were made. Every action moves, changes or merges copies, so its step
follows from JournalOpsProofs. EveryCopyIsSound and MemoryMatchesStorage follow.

**UnitsProofs.** Each machine of MCUnits has a lemma for its own step under the invariant it keeps,
and `EachOnItsOwn` says that a step of the whole is a step of each or leaves it alone. What is proved
of them:

* *The journal* (JournalIsOrdered, JournalStacksInOrder, JournalImplementsHistory). That nothing
  superseded is on the stacks is `Standing`, kept stack by stack. With the line read
  as the undo stack followed by the reverse of the redo stack, and the cursor as the length of the
  former, each operation is a step of LinearHistory or a stutter. The hard case is an edit that is
  superseded while edits on one side of it are undone: the two filters together take one place out of
  the line (`SupersededLine`).
* *Gestures* (NothingStays). Of the machine it says that begin and end effects balance while it is
  connected; what a lost connection interrupted is left out by its statement. GesturesAreBalanced and NothingOutlivesTheGesture are inductive as they
  stand. PreviousIsOnThePage needs the types of the inspector (`InspectorSound`), and that a burst of
  edits sets only the inputs it names (`EmittedIs`).
* *One selection* (SelectionsAgree). PanelShowsTheGroup rests on what a group is: the common parent
  is in the chain of every member (`ParentIsShared`). PanelShowsTheSelection is about what is still
  under way, and the invariant `SelectionSound` says two things of it. `SaidInOrder` holds whatever is
  lost: the summaries of the loaded document come with growing revisions and the last one is of what
  is selected. `HeardInOrder` holds unless something was lost: between two clears nothing that is
  under way will be refused, and when nothing is under way the panel is right.
* *What is recorded* (RecordedIsWhatWasDone). `Tidy`: an element has one place in the page. Under it,
  taking an element out and putting it in are inverse (`PutAndTaken`, `PlacedIs`, `PutBack`), for
  lists of every length, so that a drop can be undone whatever the page did during the drag.
* *Hosts* (AllowedIsGranted). `HostsSound` is about what is under way in both directions: an answer
  about the grants is old only if news of the change come after it (`GrantsAreFollowed`), a wrong
  list is stored only if the grants are asked for again (`SetsAreFollowed`, `WritesAreFollowed`), and
  the worker's list is wrong only while something under way will set it right (`CacheIsFollowed`).
* *Snapshots* (ShownIsCurrent). `SnapshotsSound`: of an open tab, sessions and revisions under way go
  up from what the server holds and has retired (`GoUp`), the worker's are above them all, no close of
  it is under way, and the last snapshot, under way or held, says what the worker knows (`LastIs`); of
  a tab that was shown when it was closed, the close is behind all its snapshots or was heard
  (`CloseFollows`). That the server can always retire
  one more session is the argument that uses cardinalities (`RoomToRetire`): the set has room for one
  more than MaxGenerations, the sessions that are given out. Of the code the theorem therefore says:
  as long as no tab goes through more sessions on one link than MAX_RETIRED_SESSIONS_PER_TAB. What a
  full set does is in ProjectionCache.
* *Messages* (MessagesAreDelivered). `MessagesSound` says what follows what in a queue, in three
  predicates over sets of messages (`Meets`, `FollowedBy`, `NoneAfter`); a step that puts or takes a
  message of another kind keeps them all (`SameAbout`). Of a tab: the panel will know the frames that
  the worker lists (`TreeIsTold`), the last mode sent to a frame is the panel's (`LastModeIsRight`),
  and a frame is in that mode, will be, or the panel will route again (`ModesComeTrue`). The last
  needs that a frame is listed before its script runs only if the listing is dropped again
  (`ListedCanHear`, unless `late`), and that the top frame of a tab with no listed frame will say
  hello (`TopWillSayHello`). Operations are numbered through both queues (`Numbered`).

**TabSessionsProofs.** `IInv` is in six parts: types; ids are spread (`IdsAreSpread`: no id is in two
places, none to come was used); memory and storage (`StoreInv`); and what the queue says. A
`loading` or `removed` message is a barrier: what follows the last barrier of a tab in the queue
speaks of the document the tab has now (`QueueInv`), so that the worker's frame tree is of that
document once the barrier is handled (`TreeInv`), and a page that has said hello is in the tree or
its hello is under way (`HelloInv`). From it SessionsHold, StorageFollows, LoadedIsReachable and
IdsAreKept.

**CommandRoutingProofs.** `IInv` follows a request through its stations: what an old link, router
entry or page can still hold (`LinkInv`, `PageInv`, `DownInv`), what a pending request was meant for
(`MeantInv`), what done means (`DoneInv`), that an id that was never given out is nowhere
(`UnusedInv`), and of which generation a snapshot or a verdict is (`SnapInv`, `VerdictInv`); `MadeInv`
says who made a result: ids of sessions are not given out twice, so a page whose session is still
the one asked is the page that answers. From it CommandsKept, VerdictsAreOfTheirPage and EndedIsSilent.
`WaitInv` adds, as long as every page stayed, that what is waited for locally is on its way at
exactly one station, so at rest nothing is waited for, and `HeardInv` that a local request is
waited for until it is shown; LocalsAreAnswered follows, whatever the bus does with agents' results.
What the agent asks is not answered as shipped: the run verification_denied.

**Only model-checked**: every liveness property (AttemptsEnd, EchoesDieOut: fairness and ENABLED are
out of the prover's reach), and the algorithms run: its modules compute by folds, filters with operator
arguments and recursive operators over finite inputs, which the provers cannot unfold, and what they
are compared with is a reference for small inputs. Every invariant and every action property of the
runs over state machines is a theorem.

## 5. Where the code and its documents disagree

Three of these are runs that TLC must find violated (the cfg is named). The other properties are
stated in the modules and kept by no `.cfg`: an extra `INVARIANT` or `PROPERTY` line in the module's
cfg shows the violation in the same way.

| Property | What the documents say | What the code does |
| --- | --- | --- |
| UndoIsNotLost (JournalSyncUndoLost) | README: lossless undo and redo | A `journal-state` sent before an undo brings the edit back: `mergeHydratedJournal` takes the status from the incoming journal |
| ClearedStaysCleared (JournalSync) | README: clear the whole preview | A state under way at a clear brings every entry back |
| ClosedTabLeavesNothing (JournalSync) | ADR-019: on `tabs.onRemoved`, delete the key | A replace queued behind the removal stores the journal again; never served, it can project the closed tab |
| SurvivesPanelClose (JournalSync) | ADR-019: the journal survives panel close and reopen | The debounce is cancelled, not flushed |
| RecordedIsSynced (JournalSync) | race test: an interaction recorded before journal-state is synced | `skipNextSyncRef` is consumed by another render's effect |
| RecordedIsRetained (JournalSync) | the same test: it is retained | An edit recorded and not yet rendered is not in the ref that is merged |
| ShownUnpairedIsUnpaired (BridgePairing) | README: when unpaired, tools return `not_paired` | When the endpoint cannot be stored the client is forgotten, not disconnected |
| ReadyClientIsConnected (BridgePairing) | `onClientReady` is called after a successful pair | The socket may have closed while the endpoint was stored |
| VerificationIsProjected (CommandRoutingDenied) | README: verification is projected to MCP when paired | The bus denies the content script's `bridge-command-result` |
| ClosedTabHasNoSession (TabSessions) | tab-session.ts: when the tab closes the session is removed | A frame discovery answered later makes one |
| PanelKnowsSession (TabSessions) | tab-session.ts: a reload preserves the session id | `restore` overwrites a session made while storage was read |
| SessionsSurviveSuspension (TabSessions) | ADR-006: state is persisted across suspension | `persist` during the restore overwrites sessions not read yet |
| EveryMutationIsReversible (PreviewLayer) | preview-manager.ts: every mutation is reversible | A rollback writes the whole saved value, also over newer edits |
| ClearShowsTheApp (PreviewLayer) | preview-engine README: cleared before source-patched state is asserted | The value saved before the edit replaces what the page has rendered since |
| RecordedIsShown (PreviewLayer) | index.ts: the journal records intent, the engine renders its effect | A recorded resize is rolled back at pointerup and not applied again |
| GhostComposes (PreviewLayer) | transform-adapter.ts: the ghost composes with style previews | One declarations string per selector: the ghost replaces it |
| FingerprintIsCurrent (AlgorithmsFingerprint) | the fingerprint of a target is compared with the one captured | `verification-engine/src/dom-adapter.ts:105` stops at `body`, `inspector-core/src/dom-adapter.ts:183-199` hashes `html` too: a flex-pair resize below a child of `body` never verifies |
| PairSharesTheEdge (ResizeDecisions) | selectVisualBoundaryNeighbor: the neighbor at the dragged side pays | `logical-axis.ts:172-219` counts places visually and boundaries along the axis: in a reversed row or column it takes the neighbor at the other side |
| PreviewsEnd (InteractionMachine) | machine.ts:61-62: a preview transaction ends in a commit or a rollback | The connection may go while it is open, and neither follows: `reconnect` (50-54) only says that it reconnected |

Met while reading the code for the modules, and without a property of their own:

* *Journal.* `commitEntry` (`useJournal.ts:139-148`, `journal.ts:177-184`) commits an entry that was
  undone: it is in effect and can be redone as well (RedoIsReverted of JournalOps fails).
* *Flex pair.* A frame whose apply throws leaves an already rolled-back transaction in the gesture
  (`flex-pair-resize-strategy.ts:117-133`); the rollback that ends the gesture then throws
  `TransactionStateError` (`preview-transaction.ts:66`) before the capture is released. A second pair
  drag within the frame that validates the first shows "active".
* *Snapshots.* A tab that lost its session (`background-tab-lifecycle.ts:50`) and is then closed stays
  projected at the server; so does its old projection while it shows a page without access. After a
  restart of the worker the tracker is empty, so that `handleClientReady` pushes nothing until
  something changes, and the selection is lost. A full retired set refuses every new generation.
* *Messages.* The breadcrumb's select-element goes to "background" without a tab
  (`panel-messages.ts:107-116`) and nobody forwards it; a frame that a late discovery lists before its
  script starts misses the panel's mode, and its hello is ignored (`background-frame-hello.ts:46-49`);
  a page's messages reach the panel twice; a
  panel that opens late knows no frames; a panel that closes leaves the page in its mode; a page
  restored from the back/forward cache has no runtime.
* *Source maps.* `source-map.ts:130-139` drops `sources` that are no strings but not their places in
  `sourcesContent`, so a HIGH origin can name another file (map-origins README:46-60);
  `findSelectorInContent` (85-116) accepts a compound that only ends in what is looked for, so `.btn`
  can be told the HIGH place of `.x.btn` (OriginsAreTrue says which heads are accepted; the README's
  "never a wrong HIGH" is not kept); rules under `@media` are not collected.
* *Verification.* `content-verification.ts:61-70` ignores child, container, targets and parent;
  `role-name.ts:85` asserts an empty name; the remedy for a tabindex fails its own check, and -2 passes;
  `details` passes although flagged; group-reparent looks at the parent only; `set-child-sizing` at the
  width only; a hot update that begins after 100 ms is missed; the kinds of which only a note is kept (`NotedKinds`)
  pass when their element is there; a preview applied while the verification waits is not looked for
  again; the second look at a screenshot asks for overlap (`screenshot-redaction.ts:136`), so a mask
  that covers part of a region that moved passes; `nth-child` counts siblings of the same
  tag (`inspector-core/src/dom-adapter.ts:204`).
* *Change IR.* The inverse of a multi-select-group without previous targets has `targets: []`, which
  the schema refuses (`operation-inverse-layout.ts:51`, `multi-select.ts:12`); the inverse of
  set-child-sizing keeps the new sizing; a merge cancels a removal against an insertion
  elsewhere (`merge.ts:90`), so that the element stays where it was (`Moved` in MergedIsBoth);
  `migrateJournal_v1_to_v2` can throw.
* *Context.* `reduceSource` always reports "source" as truncated (`token-budget.ts:49-50`); the
  estimate is taken before the metadata is added; the number of masked fields is counted again after
  truncation.
* *Hosts.* `host-allowlist-sync.ts:75-78` speaks of a sync that only `initialize()` makes; two panels
  lose each other's host; with the grant of all sites a requested host vanishes at the next start.
* *Panel and overlay.* A computed border `1px solid rgb(...)` and a padding of several values are
  refused; z-index takes 1.5, and refuses sticky although its message names it
  (`structural-commands.ts:37-38,250`); colour inputs show #000000 (`property-inspector.ts:398,450`);
  the auto layout inputs do not refresh the values they replace (163, 175, 226); the gap gesture commits
  on cancel; a drop where the drag began still records a move; Move shows an indicator for sticky and
  absolute elements and then refuses; an SVG element cannot be summarised (`class-list.ts:15`).

## 6. What is left

Proofs: the decisions of the algorithms run. Their quantifiers range over inputs of any size only
after their folds and recursive operators are written as recursive functions with a lemma each, as
JournalOpsProofs does for `Kept`. SnapshotPush is proved against the server's cache directly; that its
server implements ProjectionPromise follows from CacheImplementsPromise only for the messages it sends.

Not modelled: floating-point geometry, rendering of overlay and panel, the reconciliation observer of
the preview engine (never started by the extension), specificity diagnostics, zod schemas beyond what
PanelCommands says of them, the wording of Markdown, encoding of screenshots, content script
injection, which is constantly off, and everything that is I/O only.
