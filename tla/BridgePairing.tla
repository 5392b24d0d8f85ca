---------------------------- MODULE BridgePairing ----------------------------
(***************************************************************************)
(* Pairing the extension with the MCP process: the background's pair       *)
(* controller (bridge-background.ts), the BridgeClient of each attempt     *)
(* (bridge-client/src/client.ts), the connections between them, and the    *)
(* bridge server that keeps one of them attached (bridge-server.ts,        *)
(* bridge-session.ts).                                                     *)
(*                                                                         *)
(* pairWithInput is a coroutine: every await is a point where clicks,      *)
(* socket events and other attempts run.  An attempt and its client are    *)
(* named by the pairGeneration it took; a generation taken by unpair has   *)
(* no attempt.  Chrome opens one connection to a host at a time, so a      *)
(* connection given up while it is being dialled never reaches the server. *)
(***************************************************************************)
EXTENDS Naturals

CONSTANTS
  MaxGen,      \* bound: pair and unpair requests and reconnects
  MaxKills,    \* bound: service worker restarts
  MaxDrops,    \* bound: connections lost at the server, and its restarts
  NoClient,
  StorageMayFail,  \* chrome.storage.local may reject a write
  UncheckedInput   \* a request may carry text the panel has not parsed

ASSUME PairingAssumption ==
  MaxGen \in Nat \ {0} /\ MaxKills \in Nat /\ MaxDrops \in Nat /\ NoClient \notin Nat

VARIABLES
  gen,       \* pairGeneration
  client,    \* generation of bridgeClient, or NoClient
  shown,     \* connectionState, what the panel shows
  phase,     \* where the attempt of a generation is
  state,     \* client.state
  sock,      \* client.socket is set
  target,    \* client.target is set: the pair token is in memory
  heart,     \* the client's heartbeat timer is armed
  ready,     \* generation of the client last passed to onClientReady
  stored,    \* an endpoint is in chrome.storage.local
  wake,      \* runSwWakePolicy still awaits storage
  net,       \* the connection of a generation
  attached,  \* generation whose socket the bridge session holds, or NoClient
  tokenLive, \* the pair token the server minted has not expired
  kills, drops

clientVars == <<state, sock, target, heart>>
controlVars == <<gen, client, shown, phase, ready, wake>>
serverVars == <<net, attached, tokenLive, drops>>
vars == <<clientVars, controlVars, serverVars, stored, kills>>

Gens == 0..MaxGen
Phases == {"none", "probing", "opening", "persisting", "ended",
           "unusable", "unstored"}
States == {"disconnected", "connecting", "connected"}

\* accepted: the client has not heard yet; dropped: nor that it was closed again.
Nets == {"none", "dialing", "refused", "accepted", "dropped", "open",
         "serverClosed", "clientClosed"}

\* The attempt of a client waits for its socket exactly while the client says it
\* is connecting, and a disconnected client holds no socket.
TypeOK ==
  /\ gen \in Gens
  /\ client \in Gens \cup {NoClient}
  /\ shown \in States
  /\ phase \in [Gens -> Phases]
  /\ state \in [Gens -> States]
  /\ sock \in [Gens -> BOOLEAN]
  /\ target \in [Gens -> BOOLEAN]
  /\ heart \in [Gens -> BOOLEAN]
  /\ ready \in Gens \cup {NoClient}
  /\ stored \in BOOLEAN
  /\ wake \in BOOLEAN
  /\ net \in [Gens -> Nets]
  /\ attached \in Gens \cup {NoClient}
  /\ tokenLive \in BOOLEAN
  /\ kills \in 0..MaxKills
  /\ drops \in 0..MaxDrops
  /\ \A g \in Gens : /\ state[g] = "connecting" <=> phase[g] = "opening"
                     /\ state[g] = "disconnected" <=> ~sock[g]

Init ==
  /\ gen = 0
  /\ client = NoClient
  /\ shown = "disconnected"
  /\ phase = [g \in Gens |-> "none"]
  /\ state = [g \in Gens |-> "disconnected"]
  /\ sock = [g \in Gens |-> FALSE]
  /\ target = [g \in Gens |-> FALSE]
  /\ heart = [g \in Gens |-> FALSE]
  /\ ready = NoClient
  /\ stored \in BOOLEAN
  /\ wake = TRUE
  /\ net = [g \in Gens |-> "none"]
  /\ attached = NoClient
  /\ tokenLive = TRUE
  /\ kills = 0
  /\ drops = 0

------------------------------------------------------------------------------
(* What a client does to its own state, and to what the panel shows.       *)

\* Mutant: a client reports whatever generation it is of.
Reported_Always(g, s) == s

\* onStateChange: only the client of the current generation is listened to.
Reported(g, s) == IF g = gen THEN s ELSE shown

\* A connection that its client closes.
HungUp(n) ==
  CASE n \in {"accepted", "open"}                              -> "clientClosed"
    [] n \in {"dialing", "refused", "dropped", "serverClosed"} -> "none"
    [] OTHER                                                   -> n

\* disconnectSocketOnly rejects a pending connect, which ends its attempt.
EndedIfOpening(p) == IF p = "opening" THEN "ended" ELSE p

\* disconnect().
Disconnected(g) ==
  /\ state' = [state EXCEPT ![g] = "disconnected"]
  /\ heart' = [heart EXCEPT ![g] = FALSE]
  /\ target' = [target EXCEPT ![g] = FALSE]
  /\ sock' = [sock EXCEPT ![g] = FALSE]
  /\ net' = [net EXCEPT ![g] = HungUp(@)]
  /\ phase' = [phase EXCEPT ![g] = EndedIfOpening(@)]

DisconnectClient ==
  IF client = NoClient THEN UNCHANGED <<clientVars, net, phase>>
  ELSE Disconnected(client)

------------------------------------------------------------------------------
(* The user and the controller.                                            *)

\* Under the bound, a generation is kept for the wake policy to reconnect with.
Room == gen + (IF wake THEN 1 ELSE 0) < MaxGen

\* pairWithInput up to its first await.
StartPairing ==
  /\ gen' = gen + 1
  /\ phase' = [phase EXCEPT ![gen + 1] = "probing"]

PairRequest ==
  /\ Room
  /\ StartPairing
  /\ UNCHANGED <<client, shown, ready, wake, clientVars, serverVars, stored, kills>>

\* The discover probe has answered, but another request has come since.
ProbeSuperseded(g) ==
  /\ phase[g] = "probing" /\ g # gen
  /\ phase' = [phase EXCEPT ![g] = "ended"]
  /\ UNCHANGED <<gen, client, shown, ready, wake, clientVars, serverVars, stored, kills>>

\* Mutant: what the panel shows is left as it was.
ProbeUnusable_Silent(g) ==
  /\ UncheckedInput
  /\ phase[g] = "probing" /\ g = gen
  /\ phase' = [phase EXCEPT ![g] = "unusable"]
  /\ UNCHANGED <<gen, client, shown, ready, wake, clientVars, serverVars, stored, kills>>

\* The text is no pairing input; the client there is stays.  The panel parses
\* what it sends with the same function, so its requests never end here.
ProbeUnusable(g) ==
  /\ UncheckedInput
  /\ phase[g] = "probing" /\ g = gen
  /\ phase' = [phase EXCEPT ![g] = "unusable"]
  /\ shown' = "disconnected"
  /\ UNCHANGED <<gen, client, ready, wake, clientVars, serverVars, stored, kills>>

\* Mutant: the previous client is forgotten and not disconnected.
Dial_LeavesOld(g) ==
  /\ client' = g
  /\ shown' = "connecting"
  /\ phase' = [phase EXCEPT ![g] = "opening"]
  /\ state' = [state EXCEPT ![g] = "connecting"]
  /\ sock' = [sock EXCEPT ![g] = TRUE]
  /\ target' = [target EXCEPT ![g] = TRUE]
  /\ net' = [net EXCEPT ![g] = "dialing"]
  /\ UNCHANGED <<gen, ready, wake, heart, attached, tokenLive, drops, stored, kills>>

\* The previous client is disconnected, a new one dials.
Dial(g) ==
  LET with(f, old, new) == [h \in Gens |-> IF h = g THEN new
                                           ELSE IF h = client THEN old ELSE f[h]] IN
  /\ client' = g
  /\ shown' = "connecting"
  /\ phase' = [h \in Gens |-> IF h = g THEN "opening"
                              ELSE IF h = client THEN EndedIfOpening(phase[h]) ELSE phase[h]]
  /\ state' = with(state, "disconnected", "connecting")
  /\ sock' = with(sock, FALSE, TRUE)
  /\ target' = with(target, FALSE, TRUE)
  /\ heart' = with(heart, FALSE, FALSE)
  /\ net' = [h \in Gens |-> IF h = g THEN "dialing"
                            ELSE IF h = client THEN HungUp(net[h]) ELSE net[h]]
  /\ UNCHANGED <<gen, ready, wake, attached, tokenLive, drops, stored, kills>>

\* Mutant: the generation is not compared after the probe.
ProbeUsable_AnyGeneration(g) == phase[g] = "probing" /\ Dial(g)

ProbeUsable(g) == phase[g] = "probing" /\ g = gen /\ Dial(g)

\* Storage answers calls in their order, so the worker's first read is over.
\* The endpoint is stored; the attempt is announced unless it was superseded.
Persisted(g) ==
  /\ phase[g] = "persisting" /\ ~wake
  /\ phase' = [phase EXCEPT ![g] = "ended"]
  /\ stored' = TRUE
  /\ IF g = gen /\ client = g
     THEN shown' = "connected" /\ ready' = g
     ELSE UNCHANGED <<shown, ready>>
  /\ UNCHANGED <<gen, client, wake, clientVars, serverVars, kills>>

\* Storage rejects: the controller forgets the client, whose socket stays open.
PersistFails(g) ==
  /\ StorageMayFail
  /\ phase[g] = "persisting" /\ ~wake
  /\ phase' = [phase EXCEPT ![g] = "unstored"]
  /\ IF client = g
     THEN client' = NoClient /\ shown' = "disconnected"
     ELSE UNCHANGED <<client, shown>>
  /\ UNCHANGED <<gen, ready, wake, clientVars, serverVars, stored, kills>>

\* Mutant: the client is forgotten and not disconnected.
Unpair_ForgetsClient ==
  /\ Room
  /\ gen' = gen + 1
  /\ client' = NoClient
  /\ shown' = "disconnected"
  /\ UNCHANGED <<phase, clientVars, ready, wake, serverVars, stored, kills>>

Unpair ==
  /\ Room
  /\ gen' = gen + 1
  /\ DisconnectClient
  /\ client' = NoClient
  /\ shown' = "disconnected"
  /\ UNCHANGED <<ready, wake, attached, tokenLive, drops, stored, kills>>

\* evaluateSwWake: the token's five minutes outlast a read of storage.
reconnects == stored /\ client # NoClient /\ target[client]

\* runSwWakePolicy after its read of the stored endpoint.
WakeLoaded ==
  /\ wake
  /\ wake' = FALSE
  /\ IF reconnects
     THEN StartPairing /\ UNCHANGED shown
     ELSE shown' = "disconnected" /\ UNCHANGED <<gen, phase>>
  /\ UNCHANGED <<client, ready, clientVars, serverVars, stored, kills>>

\* Chrome stops the worker: its memory is gone, its sockets are closed.
KillWorker ==
  /\ kills < MaxKills /\ gen < MaxGen
  /\ kills' = kills + 1
  /\ client' = NoClient
  /\ shown' = "disconnected"
  /\ phase' = [g \in Gens |-> "none"]
  /\ ready' = NoClient
  /\ wake' = TRUE
  /\ state' = [g \in Gens |-> "disconnected"]
  /\ sock' = [g \in Gens |-> FALSE]
  /\ target' = [g \in Gens |-> FALSE]
  /\ heart' = [g \in Gens |-> FALSE]
  /\ net' = [g \in Gens |-> HungUp(net[g])]
  /\ UNCHANGED <<gen, attached, tokenLive, drops, stored>>

------------------------------------------------------------------------------
(* Socket events at the client.                                            *)

\* onopen; connect() resolves and the endpoint is being stored.
Opened(g) ==
  /\ sock[g] /\ net[g] \in {"accepted", "dropped"}
  /\ net' = [net EXCEPT ![g] = IF @ = "accepted" THEN "open" ELSE "serverClosed"]
  /\ state' = [state EXCEPT ![g] = "connected"]
  /\ heart' = [heart EXCEPT ![g] = TRUE]
  /\ phase' = [phase EXCEPT ![g] = "persisting"]
  /\ shown' = Reported(g, "connected")
  /\ UNCHANGED <<gen, client, ready, wake, sock, target, attached, tokenLive,
                 drops, stored, kills>>

\* onerror or onclose while connecting: connect() rejects.
Failed(g) ==
  /\ sock[g] /\ net[g] = "refused"
  /\ net' = [net EXCEPT ![g] = "none"]
  /\ state' = [state EXCEPT ![g] = "disconnected"]
  /\ sock' = [sock EXCEPT ![g] = FALSE]
  /\ target' = [target EXCEPT ![g] = FALSE]
  /\ phase' = [phase EXCEPT ![g] = "ended"]
  /\ IF client = g
     THEN client' = NoClient /\ shown' = "disconnected"
     ELSE UNCHANGED client /\ shown' = Reported(g, "disconnected")
  /\ UNCHANGED <<gen, ready, wake, heart, attached, tokenLive, drops, stored, kills>>

\* onclose of an open connection: the token is kept, the client too.
Closed(g) ==
  /\ sock[g] /\ net[g] = "serverClosed"
  /\ net' = [net EXCEPT ![g] = "none"]
  /\ state' = [state EXCEPT ![g] = "disconnected"]
  /\ sock' = [sock EXCEPT ![g] = FALSE]
  /\ heart' = [heart EXCEPT ![g] = FALSE]
  /\ shown' = Reported(g, "disconnected")
  /\ UNCHANGED <<gen, client, phase, ready, wake, target, attached, tokenLive,
                 drops, stored, kills>>

------------------------------------------------------------------------------
(* The bridge server.                                                      *)

\* A connection that the server closes.
ServerHangsUp(n) ==
  CASE n = "accepted" -> "dropped"
    [] n = "open"     -> "serverClosed"
    [] OTHER          -> n

\* The upgrade has a valid token: the session's previous socket is closed.
Accept(g) ==
  /\ net[g] = "dialing" /\ tokenLive
  /\ attached' = g
  /\ net' = [h \in Gens |-> IF h = g THEN "accepted"
                            ELSE IF h = attached /\ net[h] # "clientClosed"
                                 THEN ServerHangsUp(net[h])
                            ELSE net[h]]
  /\ UNCHANGED <<controlVars, clientVars, tokenLive, drops, stored, kills>>

\* A missing, wrong or expired token, another path, or no server at all.
Refuse(g) ==
  /\ net[g] = "dialing"
  /\ net' = [net EXCEPT ![g] = "refused"]
  /\ UNCHANGED <<controlVars, clientVars, attached, tokenLive, drops, stored, kills>>

\* The server hears that the client closed; a replaced socket has no listener.
ServerHears(g) ==
  /\ net[g] = "clientClosed"
  /\ net' = [net EXCEPT ![g] = "none"]
  /\ attached' = IF attached = g THEN NoClient ELSE attached
  /\ UNCHANGED <<controlVars, clientVars, tokenLive, drops, stored, kills>>

\* The MCP process ends and is started again, with a fresh token.
RestartServer ==
  /\ drops < MaxDrops
  /\ drops' = drops + 1
  /\ attached' = NoClient
  /\ net' = [g \in Gens |-> IF net[g] = "clientClosed" THEN "none"
                            ELSE ServerHangsUp(net[g])]
  /\ tokenLive' = TRUE
  /\ UNCHANGED <<controlVars, clientVars, stored, kills>>

TokenExpires ==
  /\ tokenLive
  /\ tokenLive' = FALSE
  /\ UNCHANGED <<controlVars, clientVars, net, attached, drops, stored, kills>>

------------------------------------------------------------------------------

ClientEvent(g) == Opened(g) \/ Failed(g) \/ Closed(g)

Continue(g) ==
  \/ ProbeSuperseded(g) \/ ProbeUnusable(g) \/ ProbeUsable(g)
  \/ Persisted(g) \/ PersistFails(g)

ServerEvent(g) == Accept(g) \/ Refuse(g) \/ ServerHears(g)

Next ==
  \/ PairRequest \/ Unpair \/ WakeLoaded \/ KillWorker
  \/ RestartServer \/ TokenExpires
  \/ \E g \in Gens : ClientEvent(g) \/ Continue(g) \/ ServerEvent(g)

\* fetch, storage and sockets answer or fail; nobody promises that the user or
\* the server does anything of their own accord.
Fairness ==
  /\ WF_vars(WakeLoaded)
  /\ \A g \in Gens : /\ WF_vars(ClientEvent(g))
                     /\ WF_vars(Continue(g))
                     /\ WF_vars(ServerEvent(g))

Spec == Init /\ [][Next]_vars /\ Fairness

------------------------------------------------------------------------------
(* Properties.                                                             *)

Attempting(g) == phase[g] \in {"probing", "opening", "persisting"}

\* However pair and unpair requests overlap, the extension has at most one
\* socket in use: that of bridgeClient.  The one exception is a client dropped
\* because its endpoint could not be stored.
OneSocket == \A g \in Gens : sock[g] => client = g \/ phase[g] = "unstored"

\* After unpair, and after a restart of the worker, nothing that was on its way
\* pairs: no client, no socket, and the panel shows it.
UnpairIsFinal ==
  phase[gen] = "none" =>
    /\ client = NoClient
    /\ shown = "disconnected"
    /\ OneSocket

\* The bridge session holds the latest accepted connection and no other is open.
OneConnection ==
  \A g \in Gens : net[g] \in {"accepted", "open"} => attached = g

\* A client sends heartbeats exactly while it is connected, so the server sees
\* a paired extension go quiet only when its socket is gone.
HeartbeatIsLife ==
  \A g \in Gens : heart[g] <=> state[g] = "connected" /\ sock[g]

\* Both ends agree on the connection: the extension has one socket in use, the
\* bridge session the latest accepted one, and the heartbeats it hears are of a
\* client that is connected (bridge-client.ts, bridge-session.ts attach).
EndsAgree == TypeOK /\ OneSocket /\ OneConnection /\ HeartbeatIsLife

\* A socket event of a client that was replaced changes neither the client in
\* use nor what the panel shows.
StaleClientIsSilent ==
  [][\A g \in Gens : ClientEvent(g) /\ g # client => UNCHANGED <<client, shown>>]_vars

\* The panel never shows "connecting" for ever.
ConnectingEnds == shown = "connecting" ~> shown # "connecting"

\* Every attempt comes to an end, also one that was superseded while it waited,
\* and the panel is told: it never shows "connecting" for ever.
AttemptsEnd == (\A g \in Gens : Attempting(g) ~> ~Attempting(g)) /\ ConnectingEnds

\* Nothing is under way.
Settled ==
  /\ ~wake
  /\ \A g \in Gens : ~Attempting(g) /\ net[g] \in {"none", "open"}

\* bridge-background.ts 28: onClientReady is called after a successful pair,
\* with a client that is connected.
ReadyClientIsConnected == [][ready' \notin {ready, NoClient} => state[ready'] = "connected"]_vars

\* README: when unpaired, tools return not_paired.  At rest, a panel that shows
\* "disconnected" has no socket attached at the bridge session ...
ShownUnpairedIsUnpaired == Settled /\ shown = "disconnected" => attached = NoClient

\* ... and, whatever fails, the only ones attached behind its back are a client
\* dropped because its endpoint could not be stored and, after a request that was
\* no pairing input, the client from before it.
UnpairedButForFailures ==
  Settled /\ shown = "disconnected" /\ attached # NoClient =>
    phase[attached] = "unstored" \/ (client = attached /\ phase[gen] = "unusable")
==============================================================================
