----------------------------- MODULE HostAccess -----------------------------
(***************************************************************************)
(* The list of hosts the user allowed: the browser's grants, the list in   *)
(* chrome.storage.local that the panels show and write, and the worker's   *)
(* copy of it, which it reconciles with the grants at every event.         *)
(*                                                                         *)
(* The browser takes the worker's calls in order and its answers and       *)
(* events reach the worker in the order in which they happened.  A panel   *)
(* hears of a stored list at once, but what it writes is worked out from   *)
(* the list it showed when the user asked.  The grant of all sites cannot  *)
(* be revoked, and while it stands a request is granted without an entry   *)
(* of its own.                                                             *)
(***************************************************************************)
EXTENDS SequencesExt

CONSTANTS
  Origins,     \* what the browser can grant, in the order of its list
  AllSites,    \* the grant of every host
  Loopback,    \* the grant of localhost
  Sidebars,    \* the panels that are open
  MaxWishes,   \* bound: grants, removals and changes of grants
  MaxWakes     \* bound: restarts of the worker

ASSUME OriginAssumption ==
  Origins \in Seq(ToSet(Origins)) /\ IsInjective(Origins) /\ AllSites \in ToSet(Origins)

VARIABLES
  granted,   \* the browser's grants
  stored,    \* the list in storage
  cache,     \* the worker's list
  calls,     \* calls of the worker the browser has yet to take
  inbox,     \* answers and events the worker has yet to hear
  lists,     \* the list each panel shows
  jobs,      \* what each panel is about
  edited,    \* history: a panel wrote the list since the worker started
  wishes, wakes

hostVars == <<granted, stored, cache, calls, inbox, lists, jobs, edited, wishes, wakes>>

Hosts == ToSet(Origins) \ {AllSites, Loopback}
NoJob == [kind |-> "none"]
Refresh == [type |-> "refresh"]

\* The worker starts: it reads the stored list.
HostInit ==
  /\ stored \in {<<h>> : h \in Hosts} \cup {<<>>}
  /\ granted \in {{AllSites}, ToSet(stored)}
  /\ cache = <<>> /\ calls = <<[type |-> "get"]>> /\ inbox = <<>>
  /\ lists = [p \in Sidebars |-> <<>>] /\ jobs = [p \in Sidebars |-> NoJob]
  /\ edited = FALSE /\ wishes = 0 /\ wakes = 0

------------------------------------------------------------------------------
(* The worker.                                                             *)

\* array.filter: what a list has in S, one index at a time.
filter(list, S) ==
  LET upTo[n \in 0..Len(list)] ==
        IF n = 0 THEN <<>>
        ELSE IF list[n] \in S THEN Append(upTo[n - 1], list[n]) ELSE upTo[n - 1]
  IN  upTo[Len(list)]

\* The hosts among the grants: no wildcard, no loopback.
hostsFromGrantedOrigins(grants) == filter(Origins, grants \cap Hosts)

\* Mutant: a host stays on the list when its grant is gone.
Reconciled_KeepsRevoked(list, grants) ==
  list \o filter(hostsFromGrantedOrigins(grants), Hosts \ ToSet(list))

\* The list without what is no longer granted, and what was granted elsewhere after it.
Reconciled(list, grants) ==
  LET kept == filter(list, grants)
  IN  kept \o filter(hostsFromGrantedOrigins(grants), Hosts \ ToSet(kept))

\* The worker hears of an answer or an event.
reconcileHostsWithPermissions ==
  /\ inbox # <<>>
  /\ inbox' = Tail(inbox)
  /\ LET m == Head(inbox)
         next == Reconciled(cache, m.grants)
     IN  CASE m.type = "list" -> cache' = m.hosts /\ calls' = Append(calls, [type |-> "getAll"])
           [] m.type = "refresh" -> calls' = Append(calls, [type |-> "getAll"]) /\ UNCHANGED cache
           [] m.type = "grants" ->
                /\ calls' = IF next = cache THEN calls ELSE Append(calls, [type |-> "set", hosts |-> next])
                /\ UNCHANGED cache
           [] m.type = "written" -> cache' = m.hosts /\ UNCHANGED calls
  /\ UNCHANGED <<granted, stored, lists, jobs, edited, wishes, wakes>>

\* chrome.storage.onChanged: only a list that differs is told.
ChangeTo(list) ==
  /\ stored' = list
  /\ lists' = [p \in Sidebars |-> IF list = stored THEN lists[p] ELSE list]
Told(list) == IF list = stored THEN <<>> ELSE <<Refresh>>

\* The browser takes the worker's next call.
TakeCall ==
  /\ calls # <<>>
  /\ calls' = Tail(calls)
  /\ LET c == Head(calls)
     IN  \/ /\ c.type = "get"
            /\ inbox' = Append(inbox, [type |-> "list", hosts |-> stored])
            /\ UNCHANGED <<stored, lists>>
         \/ /\ c.type = "getAll"
            /\ inbox' = Append(inbox, [type |-> "grants", grants |-> granted])
            /\ UNCHANGED <<stored, lists>>
         \/ /\ c.type = "set"
            /\ ChangeTo(c.hosts)
            /\ inbox' = (inbox \o Told(c.hosts)) \o <<[type |-> "written", hosts |-> c.hosts]>>
  /\ UNCHANGED <<granted, cache, jobs, edited, wishes, wakes>>

\* The worker is stopped and starts again: what it was told is lost.
Restart ==
  /\ wakes < MaxWakes
  /\ wakes' = wakes + 1
  /\ cache' = <<>> /\ inbox' = <<>> /\ calls' = <<[type |-> "get"]>>
  /\ edited' = FALSE
  /\ UNCHANGED <<granted, stored, lists, jobs, wishes>>

------------------------------------------------------------------------------
(* The panels.                                                             *)

Wish == wishes < MaxWishes /\ wishes' = wishes + 1

\* The grants become g, and the worker hears of it if they differ.
GrantsBecome(g) ==
  /\ granted' = g
  /\ inbox' = IF g = granted THEN inbox ELSE Append(inbox, Refresh)

\* useGrantedHosts: the panel's first read answers.
readFromStorage(p) ==
  /\ lists[p] # stored
  /\ lists' = [lists EXCEPT ![p] = stored]
  /\ UNCHANGED <<granted, stored, cache, calls, inbox, jobs, edited, wishes, wakes>>

\* handleAllow up to its request: a host that the panel does not show yet.
handleAllow(p, h) ==
  /\ jobs[p] = NoJob
  /\ h \notin ToSet(lists[p])
  /\ Wish
  /\ jobs' = [jobs EXCEPT ![p] = [kind |-> "allow", host |-> h, list |-> Append(lists[p], h)]]
  /\ UNCHANGED <<granted, stored, cache, calls, inbox, lists, edited, wakes>>

\* handleRemove up to its request.
handleRemove(p, h) ==
  /\ jobs[p] = NoJob
  /\ h \in ToSet(lists[p])
  /\ Wish
  /\ jobs' = [jobs EXCEPT ![p] = [kind |-> "remove", host |-> h, list |-> filter(lists[p], Hosts \ {h})]]
  /\ UNCHANGED <<granted, stored, cache, calls, inbox, lists, edited, wakes>>

\* The browser grants the request (the user agrees), or the panel gives up.
requestHostPermission(p) ==
  /\ jobs[p].kind = "allow"
  /\ \/ /\ GrantsBecome(IF AllSites \in granted THEN granted ELSE granted \cup {jobs[p].host})
        /\ jobs' = [jobs EXCEPT ![p].kind = "write"]
     \/ jobs' = [jobs EXCEPT ![p] = NoJob] /\ UNCHANGED <<granted, inbox>>
  /\ UNCHANGED <<stored, cache, calls, lists, edited, wishes, wakes>>

\* The grant is removed, or the panel gives up: the grant of all sites stays.
revokeHostPermission(p) ==
  /\ jobs[p].kind = "remove"
  /\ \/ /\ AllSites \notin granted
        /\ GrantsBecome(granted \ {jobs[p].host})
        /\ jobs' = [jobs EXCEPT ![p].kind = "write"]
     \/ jobs' = [jobs EXCEPT ![p] = NoJob] /\ UNCHANGED <<granted, inbox>>
  /\ UNCHANGED <<stored, cache, calls, lists, edited, wishes, wakes>>

\* The list is stored and host-access-changed is sent; or storing it fails.
Persist(p) ==
  /\ jobs[p].kind = "write"
  /\ \/ /\ ChangeTo(jobs[p].list)
        /\ inbox' = (inbox \o Told(jobs[p].list)) \o <<Refresh>>
        /\ edited' = TRUE
     \/ UNCHANGED <<stored, lists, inbox, edited>>
  /\ jobs' = [jobs EXCEPT ![p] = NoJob]
  /\ UNCHANGED <<granted, cache, calls, wishes, wakes>>

\* The user changes the grants in the browser's own settings, or a panel connects.
ChangeGrants ==
  /\ Wish
  /\ \/ \E o \in ToSet(Origins) :
          GrantsBecome(IF o \in granted THEN granted \ {o} ELSE granted \cup {o})
     \/ inbox' = Append(inbox, Refresh) /\ UNCHANGED granted
  /\ UNCHANGED <<stored, cache, calls, lists, jobs, edited, wakes>>

HostNext ==
  \/ reconcileHostsWithPermissions \/ TakeCall \/ Restart \/ ChangeGrants
  \/ \E p \in Sidebars :
       \/ readFromStorage(p) \/ requestHostPermission(p) \/ revokeHostPermission(p) \/ Persist(p)
       \/ \E h \in Hosts : handleAllow(p, h) \/ handleRemove(p, h)

------------------------------------------------------------------------------
(* Once the worker has heard of everything its list is the hosts that are  *)
(* granted: no interleaving of the panels' requests, the browser's own     *)
(* settings and the worker's overlapping reconciliations leaves a revoked  *)
(* host on it or a granted one off it.  And unless a panel has written the *)
(* stored list since the worker started, that list says the same.          *)
HostsAreGranted ==
  (inbox = <<>> /\ calls = <<>>) =>
    /\ ToSet(cache) = granted \cap Hosts
    /\ edited \/ ToSet(stored) = granted \cap Hosts
    /\ IsInjective(cache)
=============================================================================
