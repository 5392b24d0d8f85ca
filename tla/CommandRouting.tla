---------------------------- MODULE CommandRouting ----------------------------
(***************************************************************************)
(* A coordination command on its way from an MCP tool to a page and back:  *)
(* the MCP command queue (command-queue.ts, projection-deps.ts), the bridge *)
(* link, the background's command router (background-command-router.ts)    *)
(* and the content script that clears the preview or verifies the page     *)
(* (content-command-wiring.ts).  A verification asked for locally takes    *)
(* the same way from the background on.                                    *)
(*                                                                         *)
(* The link is in order and may fail; pairing itself is BridgePairing's,   *)
(* the choice of the projected tab ProjectionCache's, the worker is not     *)
(* restarted.  A session id is a number, 0 for none; a content script is   *)
(* ready or not there.                                                     *)
(***************************************************************************)
EXTENDS Naturals, Sequences

CONSTANTS
  Commands, Locals,  \* requests of MCP tools, requests for a local verification
  Tabs,
  NoTab, NoEntry, NoPending, NoVerdict,
  Bus,            \* what the background bus may do with a page's "bridge-command-result"
  MaxNavs,        \* bound: reloads, navigations and closes of tabs
  MaxLinks,       \* bound: times the link is paired
  MaxPushes       \* bound: snapshots pushed because the journal changed

ASSUME RoutingAssumption ==
  /\ Commands \cap Locals = {}
  /\ NoTab \notin Tabs /\ NoEntry \notin Nat
  /\ NoPending \notin [tab : Tabs, session : Nat]
  /\ NoVerdict \notin [req : Commands \cup Locals, session : Nat,
                        by : [tab : Tabs, session : Nat]]
  /\ Bus \subseteq {"admits", "denies"}
  /\ MaxNavs \in Nat /\ MaxLinks \in Nat /\ MaxPushes \in Nat

Requests == Commands \cup Locals
Kinds == {"clear_preview", "request_verification", "mark_patch"}

VARIABLES
  status,    \* of a command in the queue; cleared: the link it was sent on is gone
  kind,      \* of a request
  target,    \* tab that was projected when the command was enqueued, or NoTab
  projected, \* session of the tab's projection, or NoEntry
  retired,   \* tabs with a session that was replaced or closed
  verdict,   \* verification result of the tab: its request, session and maker
  link,      \* closing: no longer open, and its close not yet heard of
  down, up,  \* messages to the extension, to the MCP process
  listening, \* the router is subscribed to the messages of the current client
  pending,   \* pendingByCommand and pendingLocalByRequest
  sess,      \* session of a tab in the background
  ready,     \* the tab's page has a content script
  closed,    \* tabs that are closed
  toPage,    \* messages from the background to the tab's page
  running,   \* verifications the page is at
  toBg,      \* results from pages to the background
  shown,     \* local requests whose result was broadcast to the panel
  did,       \* history: tab whose page has carried out the request
  nextSess, navs, links, pushes

cacheVars == <<projected, retired, verdict>>
mcpVars == <<status, kind, target, cacheVars>>
linkVars == <<link, down, up, links>>
routerVars == <<listening, pending, shown>>
pageVars == <<sess, ready, closed, toPage, running, did, nextSess, navs>>
vars == <<mcpVars, linkVars, routerVars, pageVars, toBg, pushes>>

SnapshotMsg(t, s) == [type |-> "snapshot", tab |-> t, session |-> s]
ClosedMsg(t, s) == [type |-> "closed", tab |-> t, session |-> s]
AckMsg(r, ok) == [type |-> "ack", req |-> r, ok |-> ok]
VerdictMsg(r, t, s, by) ==
  [type |-> "verification", req |-> r, tab |-> t, session |-> s, by |-> by]
PageMsg(r, s) == [req |-> r, session |-> s]
\* by: history, the tab and session of the page that made it; no guard reads it.
ResultMsg(r, t, s, ok) ==
  [req |-> r, tab |-> t, session |-> s, ok |-> ok,
   by |-> [tab |-> t, session |-> sess[t]]]
Verdict(m) == [req |-> m.req, session |-> m.session, by |-> m.by]

Init ==
  /\ status = [c \in Commands |-> "unused"]
  /\ kind = [r \in Requests |-> "request_verification"]
  /\ target = [c \in Commands |-> NoTab]
  /\ projected = [t \in Tabs |-> NoEntry]
  /\ retired = {}
  /\ verdict = [t \in Tabs |-> NoVerdict]
  /\ link = "down"
  /\ down = <<>>
  /\ up = <<>>
  /\ listening = FALSE
  /\ pending = [r \in Requests |-> NoPending]
  /\ sess \in [Tabs -> {1, 2}]
  /\ \A t, u \in Tabs : t # u => sess[t] # sess[u]
  /\ ready = [t \in Tabs |-> TRUE]
  /\ closed = {}
  /\ toPage = [t \in Tabs |-> <<>>]
  /\ running = [t \in Tabs |-> {}]
  /\ toBg = <<>>
  /\ shown = {}
  /\ did = [r \in Requests |-> NoTab]
  /\ nextSess = 3
  /\ navs = 0
  /\ links = 0
  /\ pushes = 0

SendUp(msgs) == up' = IF link = "up" THEN up \o msgs ELSE up

------------------------------------------------------------------------------
(* The MCP process.                                                        *)

\* The tab of cache.getActive: a projected one, or none, also when the focus is
\* on a tab that is not projected yet.
ActiveTab(t) == t # NoTab => projected[t] # NoEntry

\* A tool enqueues a command while the session is live; a socket that is not
\* open any more fails it at once.
enqueue(c) ==
  /\ status[c] = "unused" /\ link # "down"
  /\ \E k \in Kinds, t \in Tabs \cup {NoTab} :
       /\ ActiveTab(t)
       /\ kind' = [kind EXCEPT ![c] = k]
       /\ target' = [target EXCEPT ![c] = t]
  /\ IF link = "up"
     THEN /\ status' = [status EXCEPT ![c] = "pending"]
          /\ down' = Append(down, c)
     ELSE /\ status' = [status EXCEPT ![c] = "failed"]
          /\ UNCHANGED down
  /\ UNCHANGED <<cacheVars, link, up, links, routerVars, pageVars, toBg, pushes>>

\* command.ack; a command that is no longer queued is not found.
ack(m) ==
  /\ status' = IF status[m.req] \in {"pending", "acked", "failed"}
               THEN [status EXCEPT ![m.req] = IF m.ok THEN "acked" ELSE "failed"]
               ELSE status
  /\ UNCHANGED <<kind, target, cacheVars>>

\* verification.result is stored for the projected session only.
setVerificationResult(m) ==
  /\ verdict' = IF m.session # 0 /\ projected[m.tab] = m.session
                THEN [verdict EXCEPT ![m.tab] = Verdict(m)]
                ELSE verdict
  /\ UNCHANGED <<status, kind, target, projected, retired>>

\* snapshot.push: every push has a later revision, which drops the old result;
\* one without a session neither replaces nor follows one with a session.
ingest(m) ==
  /\ IF m.session = 0 /\ (m.tab \in retired \/ projected[m.tab] \notin {NoEntry, 0})
     THEN UNCHANGED cacheVars
     ELSE /\ projected' = [projected EXCEPT ![m.tab] = m.session]
          /\ retired' = IF projected[m.tab] \in {NoEntry, m.session} THEN retired
                        ELSE retired \cup {m.tab}
          /\ verdict' = [verdict EXCEPT ![m.tab] = NoVerdict]
  /\ UNCHANGED <<status, kind, target>>

\* projection.tab.closed of the projected session.
clearTab(m) ==
  /\ IF projected[m.tab] = m.session
     THEN /\ projected' = [projected EXCEPT ![m.tab] = NoEntry]
          /\ retired' = retired \cup {m.tab}
          /\ verdict' = [verdict EXCEPT ![m.tab] = NoVerdict]
     ELSE UNCHANGED cacheVars
  /\ UNCHANGED <<status, kind, target>>

McpReceives ==
  /\ link = "up" /\ up # <<>>
  /\ up' = Tail(up)
  /\ CASE Head(up).type = "ack"          -> ack(Head(up))
       [] Head(up).type = "verification" -> setVerificationResult(Head(up))
       [] Head(up).type = "snapshot"     -> ingest(Head(up))
       [] Head(up).type = "closed"       -> clearTab(Head(up))
  /\ UNCHANGED <<link, down, links, routerVars, pageVars, toBg, pushes>>

------------------------------------------------------------------------------
(* The link.                                                               *)

\* The socket is being closed: what is under way is lost.  Under the bound, a
\* link closes only if another may follow.
LinkCloses ==
  /\ link = "up" /\ links < MaxLinks
  /\ link' = "closing"
  /\ down' = <<>>
  /\ up' = <<>>
  /\ UNCHANGED <<mcpVars, links, routerVars, pageVars, toBg, pushes>>

\* The bridge session hears of it: markUnpaired and commands.clear.
LinkLost ==
  /\ link = "closing"
  /\ link' = "down"
  /\ projected' = [t \in Tabs |-> NoEntry]
  /\ retired' = {}
  /\ verdict' = [t \in Tabs |-> NoVerdict]
  /\ status' = [c \in Commands |-> IF status[c] = "unused" THEN "unused" ELSE "cleared"]
  /\ UNCHANGED <<kind, target, down, up, links, routerVars, pageVars, toBg, pushes>>

\* Paired with a new client, to which the router does not listen yet.
Pair ==
  /\ link = "down" /\ links < MaxLinks
  /\ link' = "up"
  /\ links' = links + 1
  /\ listening' = FALSE
  /\ UNCHANGED <<mcpVars, down, up, pending, shown, pageVars, toBg, pushes>>

------------------------------------------------------------------------------
(* The background.                                                         *)

\* handleClientReady: the router listens, and the active tab is projected.
attachClient ==
  /\ link = "up" /\ ~listening
  /\ listening' = TRUE
  /\ pending' = [r \in Requests |-> IF r \in Commands THEN NoPending ELSE pending[r]]
  /\ \E t \in Tabs : SendUp(<<SnapshotMsg(t, sess[t])>>)
  /\ UNCHANGED <<mcpVars, link, down, links, shown, pageVars, toBg, pushes>>

\* The journal or the selection of a tab has changed.
pushForTab(t) ==
  /\ pushes < MaxPushes
  /\ link = "up"
  /\ pushes' = pushes + 1
  /\ SendUp(<<SnapshotMsg(t, sess[t])>>)
  /\ UNCHANGED <<mcpVars, link, down, links, routerVars, pageVars, toBg>>

Forward(r, t) ==
  /\ pending' = [pending EXCEPT ![r] = [tab |-> t, session |-> sess[t]]]
  /\ toPage' = [toPage EXCEPT ![t] = Append(@, PageMsg(r, sess[t]))]

\* A command that comes before the router listens reaches no handler.
CommandUnheard ==
  /\ link = "up" /\ down # <<>>
  /\ ~listening
  /\ down' = Tail(down)
  /\ UNCHANGED <<mcpVars, link, up, links, routerVars, pageVars, toBg, pushes>>

\* Mutant: the command is acknowledged when it is forwarded.
RouteCommand_AcksAtOnce ==
  /\ link = "up" /\ down # <<>> /\ listening
  /\ down' = Tail(down)
  /\ \E t \in Tabs :
       /\ target[Head(down)] \in {t, NoTab}
       /\ Forward(Head(down), t)
  /\ up' = Append(up, AckMsg(Head(down), TRUE))
  /\ UNCHANGED <<mcpVars, link, links, listening, shown, sess, ready, closed,
                 running, did, nextSess, navs, toBg, pushes>>

\* onEnvelope: to the tab it names, or else to the active one.
RouteCommand ==
  /\ link = "up" /\ down # <<>> /\ listening
  /\ down' = Tail(down)
  /\ \E t \in Tabs :
       /\ target[Head(down)] \in {t, NoTab}
       /\ Forward(Head(down), t)
  /\ UNCHANGED <<mcpVars, link, up, links, listening, shown, sess, ready, closed,
                 running, did, nextSess, navs, toBg, pushes>>

\* onEnvelope: no tab is named and none is active.
RefuseCommand ==
  /\ link = "up" /\ down # <<>> /\ listening
  /\ target[Head(down)] = NoTab
  /\ down' = Tail(down)
  /\ up' = Append(up, AckMsg(Head(down), FALSE))
  /\ UNCHANGED <<mcpVars, link, links, routerVars, pageVars, toBg, pushes>>

\* Each local request is made once, to a page no message is on its way to.
requestLocalVerify(r, t) ==
  /\ pending[r] = NoPending /\ r \notin shown /\ did[r] = NoTab
  /\ toPage[t] = <<>>
  /\ Forward(r, t)
  /\ UNCHANGED <<mcpVars, linkVars, listening, shown, sess, ready, closed, running,
                 did, nextSess, navs, toBg, pushes>>

\* checkSendPermission on the background bus denies a "bridge-" message from a page.
Denied(m) == m.req \in Commands /\ "denies" \in Bus
Admitted(m) == m.req \in Locals \/ "admits" \in Bus

Discard ==
  /\ toBg' = Tail(toBg)
  /\ UNCHANGED <<mcpVars, linkVars, listening, shown, pageVars, pushes>>

\* The result is denied, or nobody waits for it.
ResultUnwanted ==
  /\ toBg # <<>>
  /\ Denied(Head(toBg)) \/ pending[Head(toBg).req] = NoPending
  /\ Discard
  /\ UNCHANGED pending

\* The session that was asked has ended.
ResultOutdated ==
  LET m == Head(toBg) p == pending[m.req] IN
  /\ toBg # <<>> /\ Admitted(m)
  /\ p # NoPending /\ sess[p.tab] # p.session
  /\ Discard
  /\ pending' = [pending EXCEPT ![m.req] = NoPending]

\* Mutant: the session is not compared.
Answers_AnySession(m) == pending[m.req] # NoPending /\ m.tab = pending[m.req].tab

\* Mutant: what was asked is compared, the session there is now is not.
Answers_AsAsked(m) ==
  LET p == pending[m.req] IN
  p # NoPending /\ m.tab = p.tab /\ m.session = p.session

\* The result is of the tab and session that were asked, which is still there.
Answers(m) ==
  LET p == pending[m.req] IN
  /\ p # NoPending
  /\ sess[p.tab] = p.session
  /\ m.tab = p.tab /\ m.session = p.session

\* handleContentResult: to the panel, or acknowledged and projected.  With no
\* open socket the client throws after the request was forgotten.
HandleResult ==
  LET m == Head(toBg) IN
  /\ toBg # <<>> /\ Admitted(m)
  /\ Answers(m)
  /\ toBg' = Tail(toBg)
  /\ pending' = [pending EXCEPT ![m.req] = NoPending]
  /\ shown' = IF m.req \in Locals THEN shown \cup {m.req} ELSE shown
  /\ IF m.req \in Commands
     THEN SendUp(<<AckMsg(m.req, m.ok)>> \o
                 IF kind[m.req] = "request_verification"
                 THEN <<VerdictMsg(m.req, m.tab, m.session, m.by)>> ELSE <<>>)
     ELSE UNCHANGED up
  /\ UNCHANGED <<mcpVars, link, down, links, listening, pageVars, pushes>>

------------------------------------------------------------------------------
(* The pages.                                                              *)

Incoming(t) == /\ ready[t] /\ toPage[t] # <<>>
               /\ toPage' = [toPage EXCEPT ![t] = Tail(@)]

\* clear_preview and the patch marks are carried out and answered at once; the
\* preview may refuse to be cleared.
HandleNow(t) ==
  LET m == Head(toPage[t]) IN
  /\ Incoming(t)
  /\ kind[m.req] # "request_verification"
  /\ \E ok \in BOOLEAN :
       /\ kind[m.req] = "mark_patch" => ok
       /\ did' = [did EXCEPT ![m.req] = IF ok THEN t ELSE @]
       /\ toBg' = Append(toBg, ResultMsg(m.req, t, m.session, ok))
  /\ UNCHANGED <<mcpVars, linkVars, routerVars, sess, ready, closed, running,
                 nextSess, navs, pushes>>

StartVerification(t) ==
  LET m == Head(toPage[t]) IN
  /\ Incoming(t)
  /\ kind[m.req] = "request_verification"
  /\ running' = [running EXCEPT ![t] = @ \cup {m}]
  /\ UNCHANGED <<mcpVars, linkVars, routerVars, sess, ready, closed, did, nextSess,
                 navs, toBg, pushes>>

\* Mutant: a verification that throws sends nothing.
EndVerification_ThrowsSilently(t) ==
  \E m \in running[t], ok \in BOOLEAN :
    /\ running' = [running EXCEPT ![t] = @ \ {m}]
    /\ did' = [did EXCEPT ![m.req] = IF ok THEN t ELSE @]
    /\ toBg' = IF ok THEN Append(toBg, ResultMsg(m.req, t, m.session, TRUE)) ELSE toBg
    /\ UNCHANGED <<mcpVars, linkVars, routerVars, sess, ready, closed, toPage,
                   nextSess, navs, pushes>>

\* runContentVerificationFailClosed: a verification that throws is answered too,
\* as not carried out.
EndVerification(t) ==
  \E m \in running[t], ok \in BOOLEAN :
    /\ running' = [running EXCEPT ![t] = @ \ {m}]
    /\ did' = [did EXCEPT ![m.req] = IF ok THEN t ELSE @]
    /\ toBg' = Append(toBg, ResultMsg(m.req, t, m.session, ok))
    /\ UNCHANGED <<mcpVars, linkVars, routerVars, sess, ready, closed, toPage,
                   nextSess, navs, pushes>>

\* chrome.tabs.sendMessage rejects while the tab has no content script.
NobodyThere(t) ==
  /\ ~ready[t] /\ toPage[t] # <<>>
  /\ toPage' = [toPage EXCEPT ![t] = Tail(@)]
  /\ UNCHANGED <<mcpVars, linkVars, routerVars, sess, ready, closed, running, did,
                 nextSess, navs, toBg, pushes>>

PageGone(t) ==
  /\ ready' = [ready EXCEPT ![t] = FALSE]
  /\ running' = [running EXCEPT ![t] = {}]

\* The tab is reloaded: the session is kept.  Or it goes to a site without
\* access: the session ends.
Navigate(t) ==
  /\ t \notin closed
  /\ navs < MaxNavs
  /\ navs' = navs + 1
  /\ PageGone(t)
  /\ sess' \in {sess, [sess EXCEPT ![t] = 0]}
  /\ UNCHANGED <<mcpVars, linkVars, routerVars, closed, toPage, did, nextSess, toBg,
                 pushes>>

\* tabs.onRemoved: the MCP process is told, then the session ends.
CloseTab(t) ==
  /\ t \notin closed
  /\ navs < MaxNavs
  /\ navs' = navs + 1
  /\ closed' = closed \cup {t}
  /\ SendUp(<<ClosedMsg(t, sess[t])>>)
  /\ PageGone(t)
  /\ sess' = [sess EXCEPT ![t] = 0]
  /\ UNCHANGED <<mcpVars, link, down, links, routerVars, toPage, did, nextSess, toBg,
                 pushes>>

\* A page with access is loaded; frame-hello or tabs.onUpdated ensures a session.
Load(t) ==
  /\ t \notin closed
  /\ ~ready[t]
  /\ ready' = [ready EXCEPT ![t] = TRUE]
  /\ IF sess[t] = 0
     THEN sess' = [sess EXCEPT ![t] = nextSess] /\ nextSess' = nextSess + 1
     ELSE UNCHANGED <<sess, nextSess>>
  /\ UNCHANGED <<mcpVars, linkVars, routerVars, closed, toPage, running, did, navs, toBg,
                 pushes>>

------------------------------------------------------------------------------

Router ==
  \/ CommandUnheard \/ RouteCommand \/ RefuseCommand
  \/ ResultUnwanted \/ ResultOutdated \/ HandleResult

Page(t) == HandleNow(t) \/ StartVerification(t) \/ EndVerification(t) \/ NobodyThere(t)

Next ==
  \/ \E c \in Commands : enqueue(c)
  \/ McpReceives
  \/ LinkCloses \/ LinkLost \/ Pair
  \/ attachClient \/ Router
  \/ \E t \in Tabs : pushForTab(t) \/ Page(t) \/ Navigate(t) \/ CloseTab(t) \/ Load(t)
  \/ \E r \in Locals, t \in Tabs : requestLocalVerify(r, t)

Spec == Init /\ [][Next]_vars

------------------------------------------------------------------------------
(* Properties.                                                             *)

\* Verifications run only where there is a page, and requests wait only for tabs.
TypeOK ==
  /\ status \in [Commands -> {"unused", "pending", "acked", "failed", "cleared"}]
  /\ kind \in [Requests -> Kinds]
  /\ target \in [Commands -> Tabs \cup {NoTab}]
  /\ projected \in [Tabs -> 0..nextSess \cup {NoEntry}]
  /\ retired \subseteq Tabs
  /\ link \in {"up", "closing", "down"}
  /\ link # "up" => up = <<>> /\ down = <<>>
  /\ \A r \in Requests : pending[r] # NoPending => pending[r].tab \in Tabs
  /\ sess \in [Tabs -> 0..nextSess]
  /\ \A t \in Tabs : /\ running[t] # {} => ready[t]
                     /\ ready[t] => sess[t] # 0 /\ t \notin closed
  /\ shown \subseteq Locals

\* A command that the queue calls acked was carried out, in the page of the tab
\* that was projected when the tool asked.
AckedIsDone ==
  \A c \in Commands :
    status[c] = "acked" => did[c] # NoTab /\ target[c] \in {did[c], NoTab}

\* A verification result the tools can read is of the session they are shown, and
\* was made by a page that the tab had in that session: a page loaded meanwhile in
\* a new session does not answer for it.
VerdictIsOfItsPage ==
  \A t \in Tabs : verdict[t] # NoVerdict =>
    /\ verdict[t].session = projected[t]
    /\ verdict[t].by = [tab |-> t, session |-> projected[t]]
    /\ kind[verdict[t].req] = "request_verification"

\* Neither the MCP process nor the panel is told the result of a request whose
\* session has ended since it was forwarded.
EndedSessionIsSilent ==
  [][\A r \in Requests :
       pending[r] # NoPending /\ sess[pending[r].tab] # pending[r].session =>
         /\ r \notin shown' \ shown
         /\ Len(up') > Len(up) =>
              up'[Len(up')].type \in {"snapshot", "closed"} \/ up'[Len(up')].req # r]_vars

\* Once a new client is attached, the router waits for no command of the last one.
PendingIsOfThisLink ==
  link = "up" /\ listening =>
    \A c \in Commands : pending[c] # NoPending => status[c] # "cleared"

\* The queue tells the truth about a command: it is acked only when it was
\* carried out where it was meant to be, and the router waits for no command of
\* a link that is gone (command-queue.ts, command-router.ts).
CommandsAreKept == TypeOK /\ AckedIsDone /\ PendingIsOfThisLink

PagesAtRest == toBg = <<>> /\ \A t \in Tabs : toPage[t] = <<>> /\ running[t] = {}

\* The router waits for no local verification once the pages have done what they
\* were sent, as long as every page stayed.  (It has no timeout: one whose page is
\* reloaded waits for ever.)
NoLocalWaits ==
  PagesAtRest /\ navs = 0 => \A r \in Locals : pending[r] = NoPending

\* A verification asked for locally is answered, be it with a failure, whatever
\* becomes of the link and of agents' commands meanwhile, and the panel is shown
\* the result of one that was carried out.  (As shipped, what an agent asks for is
\* not answered: see VerificationIsProjected.)
LocalIsAnswered ==
  /\ NoLocalWaits
  /\ PagesAtRest /\ navs = 0 => \A r \in Locals : did[r] # NoTab => r \in shown

\* README: content-owned verification is projected to MCP when paired.  When all
\* is done and the link is up, a verification carried out for a command is acked.
VerificationIsProjected ==
  link = "up" /\ listening /\ up = <<>> /\ toBg = <<>> =>
    \A c \in Commands : status[c] = "pending" => did[c] = NoTab
==============================================================================
