--------------------------- MODULE ProjectionCache ---------------------------
(***************************************************************************)
(* The MCP side of the bridge: the projection cache of the last snapshot   *)
(* per tab (packages/mcp-server/src/bridge/projection-cache.ts) and the    *)
(* bridge session that feeds it from the one attached socket               *)
(* (bridge-session.ts).                                                    *)
(*                                                                         *)
(* Snapshots, results and focus facts arrive in any order the protocol     *)
(* allows.  A call the code answers with "return false" changes nothing    *)
(* and is a stuttering step.  Wall-clock time is reduced to one bit: is    *)
(* the last heartbeat within HEARTBEAT_MAX_GAP_MS or not.                  *)
(***************************************************************************)
EXTENDS Naturals, FiniteSets

CONSTANTS
  Tabs,         \* tab ids
  Sessions,     \* tab session ids (one per content generation)
  NoSession,    \* a message without sessionId
  Sockets,      \* bridge WebSockets
  NoSocket, NoTab, NoEntry, NoResult, NoFocus,
  MaxRetired,   \* MAX_RETIRED_SESSIONS_PER_TAB
  MaxRev,       \* bound: highest snapshot revision sent
  MaxTs         \* bound: latest verification timestamp sent

AnySession == Sessions \cup {NoSession}
Revs == 1..MaxRev
Entry == [session : AnySession, rev : Revs]
Result == [session : Sessions, ts : 0..MaxTs]
Generation == [tab : Tabs, session : AnySession]

ASSUME RetiredAssumption == MaxRetired \in Nat \ {0}
ASSUME BoundAssumption == MaxRev \in Nat \ {0} /\ MaxTs \in Nat
ASSUME SentinelAssumption ==
  /\ NoSession \notin Sessions
  /\ NoSocket \notin Sockets
  /\ NoTab \notin Tabs
  /\ NoEntry \notin Entry
  /\ NoResult \notin Result
  /\ NoFocus \notin Generation

VARIABLES
  socket,       \* the attached socket, or NoSocket
  paired,       \* cache.paired
  fresh,        \* the last heartbeat is recent enough
  byTab,        \* [Tabs -> Entry or NoEntry]: the snapshot projected for a tab
  verification, \* [Tabs -> Result or NoResult]: the last accepted result
  retired,      \* [Tabs -> sessions that may not come back]
  activeTab,    \* last pushed tab, used until the first focus fact
  focused,      \* generation of the last focus fact, or NoFocus
  dead          \* history: generations closed or superseded on this socket

vars == <<socket, paired, fresh, byTab, verification, retired, activeTab,
          focused, dead>>
projection == <<byTab, verification, retired, activeTab, focused, dead>>

Init ==
  /\ socket = NoSocket
  /\ paired = FALSE
  /\ fresh = FALSE
  /\ byTab = [t \in Tabs |-> NoEntry]
  /\ verification = [t \in Tabs |-> NoResult]
  /\ retired = [t \in Tabs |-> {}]
  /\ activeTab = NoTab
  /\ focused = NoFocus
  /\ dead = {}

------------------------------------------------------------------------------
(* What the tools read.                                                    *)

Projected(t) == byTab[t] # NoEntry
CurrentIs(t, s) == Projected(t) /\ byTab[t].session = s
FocusIs(t, s) == focused # NoFocus /\ focused.tab = t /\ focused.session = s
Full(t) == Cardinality(retired[t]) >= MaxRetired

\* The retired set once s is retired: unchanged when it is at its limit.
retireSession(R, s) ==
  IF s \in R \/ Cardinality(R) < MaxRetired THEN R \cup {s} ELSE R

isLive == paired /\ fresh

\* The tab whose snapshot the tools answer from, NoTab for "nothing".
getActive ==
  IF focused # NoFocus
  THEN IF CurrentIs(focused.tab, focused.session) THEN focused.tab ELSE NoTab
  ELSE IF activeTab # NoTab /\ Projected(activeTab) THEN activeTab ELSE NoTab

\* Mutant: the focused tab's result is answered whatever generation it is of.
getVerificationResult_AnyGeneration ==
  IF focused # NoFocus THEN verification[focused.tab]
  ELSE IF activeTab # NoTab THEN verification[activeTab] ELSE NoResult

\* The result the tools answer with when they name no tab, NoResult for none.
getVerificationResult ==
  IF focused # NoFocus
  THEN IF /\ verification[focused.tab] # NoResult
          /\ verification[focused.tab].session = focused.session
       THEN verification[focused.tab] ELSE NoResult
  ELSE IF activeTab # NoTab THEN verification[activeTab] ELSE NoResult

------------------------------------------------------------------------------
(* Socket life cycle: attach, close, detach, heartbeats.                   *)

\* markUnpaired drops the projection and what was retired with it.
markUnpaired ==
  /\ byTab' = [t \in Tabs |-> NoEntry]
  /\ verification' = [t \in Tabs |-> NoResult]
  /\ retired' = [t \in Tabs |-> {}]
  /\ activeTab' = NoTab
  /\ focused' = NoFocus
  /\ dead' = {}

attach(ws) ==
  /\ ws # socket
  /\ socket' = ws
  /\ paired' = TRUE
  /\ fresh' = TRUE
  /\ markUnpaired

\* The attached socket closes, or the session is detached.  A replaced socket
\* has no listeners left, so its close and its messages do nothing.
dropSocket ==
  /\ socket # NoSocket
  /\ socket' = NoSocket
  /\ paired' = FALSE
  /\ fresh' = FALSE
  /\ markUnpaired

noteHeartbeat ==
  /\ socket # NoSocket
  /\ fresh' = TRUE
  /\ UNCHANGED <<socket, paired, projection>>

\* HEARTBEAT_MAX_GAP_MS pass without a heartbeat.
HeartbeatGap ==
  /\ fresh
  /\ fresh' = FALSE
  /\ UNCHANGED <<socket, paired, projection>>

------------------------------------------------------------------------------
(* The messages of handleRaw.                                              *)

\* Mutant: a full retired set admits every session it does not name.
Admissible_NotRetired(t, s) ==
  IF s = NoSession THEN retired[t] = {} ELSE s \notin retired[t]

\* ingest's first test: can a snapshot of session s be taken for tab t at all?
Admissible(t, s) ==
  IF s = NoSession
  THEN retired[t] = {}
  ELSE s \notin retired[t] /\ (Projected(t) \/ ~Full(t))

\* First snapshot of the tab.
IngestFirst(t) ==
  /\ ~Projected(t)
  /\ UNCHANGED <<verification, retired, dead>>

\* Mutant: an older revision is taken too.
IngestSame_AnyRevision(t, s, r) ==
  /\ CurrentIs(t, s)
  /\ verification' = IF r > byTab[t].rev
                     THEN [verification EXCEPT ![t] = NoResult]
                     ELSE verification
  /\ UNCHANGED <<retired, dead>>

\* A snapshot of the projected generation; a newer revision makes the result
\* computed for the older one void.
IngestSame(t, s, r) ==
  /\ CurrentIs(t, s)
  /\ r >= byTab[t].rev
  /\ verification' = IF r > byTab[t].rev
                     THEN [verification EXCEPT ![t] = NoResult]
                     ELSE verification
  /\ UNCHANGED <<retired, dead>>

\* A snapshot of another generation supersedes the projected one, if that one
\* can be retired.
IngestReplace(t, s) ==
  /\ Projected(t)
  /\ byTab[t].session # s
  /\ s # NoSession
  /\ byTab[t].session \in retireSession(retired[t], byTab[t].session)
  /\ retired' = [retired EXCEPT ![t] = retireSession(@, byTab[t].session)]
  /\ verification' = [verification EXCEPT ![t] = NoResult]
  /\ dead' = dead \cup {<<t, byTab[t].session>>}

ingest(t, s, r) ==
  /\ socket # NoSocket
  /\ Admissible(t, s)
  /\ IngestFirst(t) \/ IngestSame(t, s, r) \/ IngestReplace(t, s)
  /\ byTab' = [byTab EXCEPT ![t] = [session |-> s, rev |-> r]]
  /\ activeTab' = IF focused = NoFocus THEN t ELSE activeTab
  /\ UNCHANGED <<socket, paired, fresh, focused>>

setVerificationResult(t, s, ts) ==
  /\ socket # NoSocket
  /\ CurrentIs(t, s)
  /\ verification[t] # NoResult => ts > verification[t].ts
  /\ verification' = [verification EXCEPT ![t] = [session |-> s, ts |-> ts]]
  /\ UNCHANGED <<socket, paired, fresh, byTab, retired, activeTab, focused,
                 dead>>

\* The closed generation was superseded before: its replacement stays.
preservesReplacement(t, s) ==
  FocusIs(t, s) /\ ~CurrentIs(t, s) /\ s \in retired[t]

\* Sessions of t that the close of <<t, s>> ends.
Ended(t, s) ==
  IF Projected(t) /\ ~preservesReplacement(t, s)
  THEN {byTab[t].session, s}
  ELSE {s}

\* retireSession of the projected session first, then of s.
RetiredOnClose(t, s) ==
  LET current == byTab[t].session
      replaced == /\ Projected(t)
                  /\ ~preservesReplacement(t, s)
                  /\ current \notin {NoSession, s}
  IN  retireSession(IF replaced THEN retireSession(retired[t], current)
                    ELSE retired[t], s)

\* Mutant: only a close of the focused generation looks for another tab.
Refocus_FocusedOnly(t, s) ==
  IF FocusIs(t, s) THEN
    \E u \in {u \in Tabs \ {t} : Projected(u)} \cup {NoTab} :
      /\ activeTab' = u
      /\ focused' = IF u = NoTab THEN focused
                    ELSE [tab |-> u, session |-> byTab[u].session]
  ELSE UNCHANGED <<activeTab, focused>>

\* Where activeTab and the focus go when <<t, s>> is closed.  The code takes
\* the first other tab in insertion order, here any.
Refocus(t, s) ==
  LET others == {u \in Tabs \ {t} : Projected(u)} IN
  IF FocusIs(t, s) THEN
    \/ /\ others = {}
       /\ activeTab' = NoTab
       /\ UNCHANGED focused
    \/ \E u \in others :
         /\ activeTab' = u
         /\ focused' = [tab |-> u, session |-> byTab[u].session]
  ELSE IF focused = NoFocus /\ activeTab = t THEN
    /\ UNCHANGED focused
    /\ \/ others = {} /\ activeTab' = NoTab
       \/ \E u \in others : activeTab' = u
  ELSE UNCHANGED <<activeTab, focused>>

clearTab(t, s) ==
  /\ socket # NoSocket
  /\ CurrentIs(t, s) \/ FocusIs(t, s)
  /\ IF preservesReplacement(t, s)
     THEN UNCHANGED <<byTab, verification>>
     ELSE /\ byTab' = [byTab EXCEPT ![t] = NoEntry]
          /\ verification' = [verification EXCEPT ![t] = NoResult]
  /\ retired' = [retired EXCEPT ![t] = RetiredOnClose(t, s)]
  /\ dead' = dead \cup {<<t, x>> : x \in Ended(t, s)}
  /\ Refocus(t, s)
  /\ UNCHANGED <<socket, paired, fresh>>

\* Mutant: a tab without a snapshot takes the focus for any session.
Focusable_AnySession(t, s) == Projected(t) => byTab[t].session = s

\* A focus fact may precede the tab's first snapshot.
Focusable(t, s) ==
  IF Projected(t)
  THEN byTab[t].session = s
  ELSE s # NoSession /\ s \notin retired[t] /\ ~Full(t)

setActiveTab(t, s) ==
  /\ socket # NoSocket
  /\ Focusable(t, s)
  /\ activeTab' = t
  /\ focused' = [tab |-> t, session |-> s]
  /\ UNCHANGED <<socket, paired, fresh, byTab, verification, retired, dead>>

------------------------------------------------------------------------------

Lifecycle == dropSocket \/ noteHeartbeat \/ HeartbeatGap

handleRaw(t) ==
  \/ \E s \in AnySession, r \in Revs : ingest(t, s, r)
  \/ \E s \in Sessions, ts \in 0..MaxTs : setVerificationResult(t, s, ts)
  \/ \E s \in AnySession : clearTab(t, s) \/ setActiveTab(t, s)

Next ==
  \/ \E ws \in Sockets : attach(ws)
  \/ Lifecycle
  \/ \E t \in Tabs : handleRaw(t)

Spec == Init /\ [][Next]_vars

------------------------------------------------------------------------------
(* Properties.                                                             *)

\* The state stays in its domain, and the retired sets stay within
\* MAX_RETIRED_SESSIONS_PER_TAB (retireSession).
TypeOK ==
  /\ socket \in Sockets \cup {NoSocket}
  /\ paired \in BOOLEAN
  /\ fresh \in BOOLEAN
  /\ byTab \in [Tabs -> Entry \cup {NoEntry}]
  /\ verification \in [Tabs -> Result \cup {NoResult}]
  /\ retired \in [Tabs -> SUBSET AnySession]
  /\ activeTab \in Tabs \cup {NoTab}
  /\ focused \in Generation \cup {NoFocus}
  /\ dead \subseteq Tabs \X AnySession
  /\ \A t \in Tabs : Cardinality(retired[t]) <= MaxRetired

\* A generation that was closed or superseded on this socket is never
\* projected again, whatever late push arrives, even when the retired set is
\* full and retireSession (projection-cache.ts 86-94) can no longer record it.
DeadGenerationsStayOut ==
  \A t \in Tabs : Projected(t) => <<t, byTab[t].session>> \notin dead

\* A stored result belongs to the generation projected for its tab: no path
\* through ingest, clearTab or setVerificationResult leaves the verdict of one
\* page generation beside the snapshot of another (ADR-019 C6).
VerificationBelongsToGeneration ==
  \A t \in Tabs : verification[t] # NoResult
                    => CurrentIs(t, verification[t].session)

\* The two reads a tool makes without naming a tab agree: a result is only
\* answered together with the active snapshot of the same tab and generation
\* (getActive and getVerificationResult take different paths to the tab).
AnswersAgree ==
  getVerificationResult # NoResult
    => /\ getActive # NoTab
       /\ byTab[getActive].session = getVerificationResult.session
       /\ verification[getActive] = getVerificationResult

\* Without an attached socket the cache is not live and holds nothing a tool
\* could answer from, and nothing that would refuse the next extension
\* (onClose, invalidateCurrentSocket, markUnpaired).
UnpairedHoldsNothing ==
  /\ paired <=> socket # NoSocket
  /\ socket = NoSocket =>
       /\ ~isLive
       /\ getActive = NoTab
       /\ \A t \in Tabs : /\ byTab[t] = NoEntry
                           /\ verification[t] = NoResult
                           /\ retired[t] = {}

\* Until the first focus fact some projected tab is always the active one:
\* closing tabs in any order never leaves the tools without an answer while a
\* snapshot is there (clearTab's last branch, ingest's bootstrap rule).
BootstrapActiveHasEntry ==
  focused = NoFocus /\ (\E t \in Tabs : Projected(t)) => getActive # NoTab

\* The cache is in a state the code means: within its limits, empty and dark
\* whenever no socket is attached, and with an answer for the tools as soon as
\* any tab has pushed, in whatever order tabs are closed (projection-cache.ts,
\* retireSession, markUnpaired, clearTab).
WellFormed == TypeOK /\ UnpairedHoldsNothing /\ BootstrapActiveHasEntry

\* The focus never moves to a generation that is already closed or superseded,
\* so a stale focus fact cannot take the answers away from a live tab.
FocusMovesToLiveGenerations ==
  [][focused' # focused /\ focused' # NoFocus
       => <<focused'.tab, focused'.session>> \notin dead]_vars

Promise == INSTANCE ProjectionPromise WITH served <- byTab, gone <- dead

\* The cache keeps the promise of ProjectionPromise: one generation per tab,
\* at a revision that never goes back, and none back from the dead.
ImplementsPromise == Promise!Spec
==============================================================================
