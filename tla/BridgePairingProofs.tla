------------------------- MODULE BridgePairingProofs -------------------------
(***************************************************************************)
(* Proofs about BridgePairing, for every bound on requests, restarts and   *)
(* drops.  IInv is the inductive invariant: what the phase of an attempt   *)
(* says of its socket, who holds a socket, what the phase of the current   *)
(* generation says of the client and of the panel, and what the server     *)
(* holds.                                                                  *)
(***************************************************************************)
EXTENDS BridgePairing, TLAPS

\* The phase of an attempt tells whether its socket is open, and the socket
\* tells where its connection is; attempts not begun are untouched.
PhaseTellsSocket ==
  \A g \in Gens :
    /\ phase[g] \in {"none", "probing", "unusable"} => ~sock[g] /\ client # g
    /\ phase[g] = "opening" <=> net[g] \in {"dialing", "refused", "accepted", "dropped"}
    /\ sock[g] <=> net[g] \in {"dialing", "refused", "accepted", "dropped",
                               "open", "serverClosed"}
    /\ gen < g => phase[g] = "none"
    /\ gen < g \/ phase[g] = "probing" => net[g] = "none"

\* What the attempt of the current generation says of bridgeClient and of what
\* the panel shows.
CurrentAttempt ==
  /\ phase[gen] \in {"none", "unstored", "unusable"} => shown = "disconnected"
  /\ phase[gen] \in {"none", "unstored"} => client = NoClient
  /\ phase[gen] \in {"opening", "persisting"} => client = gen
  /\ phase[gen] = "ended" => client \in {gen, NoClient}
  /\ phase[gen] = "ended" /\ client = gen /\ state[gen] = "connected" =>
       shown = "connected" /\ ~wake
  /\ wake => gen < MaxGen

\* The server knows of the close of the socket it holds, or holds a live one.
ServerHolds ==
  attached # NoClient => net[attached] \in {"accepted", "open", "clientClosed"}

IInv ==
  /\ TypeOK
  /\ PhaseTellsSocket
  /\ OneSocket
  /\ HeartbeatIsLife
  /\ CurrentAttempt
  /\ OneConnection
  /\ ServerHolds

\* At first no client exists, and the invariant holds.
LEMMA InitInv == Init => IInv
  BY PairingAssumption DEF Init, IInv, TypeOK, PhaseTellsSocket, OneSocket,
     HeartbeatIsLife, CurrentAttempt, OneConnection, ServerHolds, Gens, Phases,
     States, Nets

\* Every step keeps the invariant: the client whose attempt runs is the only one that
\* may hold a socket.
LEMMA NextInv == IInv /\ [Next]_vars => IInv'
<1> SUFFICES ASSUME IInv, [Next]_vars PROVE IInv'
  OBVIOUS
<1> USE PairingAssumption DEF IInv, TypeOK, PhaseTellsSocket, OneSocket,
     HeartbeatIsLife, CurrentAttempt, OneConnection, ServerHolds, Gens, Phases,
     States, Nets, clientVars, controlVars, serverVars
<1>1. CASE PairRequest
  BY <1>1 DEF PairRequest, StartPairing, Room
<1>2. CASE Unpair
  <2>1. /\ gen < MaxGen /\ gen' = gen + 1
        /\ client' = NoClient /\ shown' = "disconnected"
        /\ UNCHANGED <<ready, wake, attached, tokenLive, drops, stored, kills>>
        /\ wake => gen' < MaxGen
    BY <1>2 DEF Unpair, Room
  <2>2. CASE client = NoClient
    <3>1. UNCHANGED <<phase, state, sock, target, heart, net>>
      BY <1>2, <2>2 DEF Unpair, DisconnectClient
    <3> QED BY <2>1, <2>2, <3>1
  <2>3. CASE client \in Gens
    <3>1. Disconnected(client)
      BY <1>2, <2>3 DEF Unpair, DisconnectClient
    <3>2. TypeOK'
      BY <2>1, <2>3, <3>1 DEF Disconnected, HungUp, EndedIfOpening
    <3>3. PhaseTellsSocket'
      BY <2>1, <2>3, <3>1 DEF Disconnected, HungUp, EndedIfOpening
    <3>4. OneSocket' /\ HeartbeatIsLife' /\ OneConnection' /\ ServerHolds'
      BY <2>1, <2>3, <3>1 DEF Disconnected, HungUp, EndedIfOpening
    <3>5. phase'[gen'] = "none"
      BY <2>1, <2>3, <3>1 DEF Disconnected, EndedIfOpening
    <3>6. CurrentAttempt'
      BY <2>1, <3>5
    <3> QED BY <3>2, <3>3, <3>4, <3>6
  <2> QED BY <2>2, <2>3
<1>3. CASE WakeLoaded
  <2>1. CASE reconnects
    <3>1. /\ wake /\ wake' = FALSE
          /\ gen' = gen + 1 /\ phase' = [phase EXCEPT ![gen + 1] = "probing"]
          /\ UNCHANGED <<shown, client, ready, clientVars, serverVars, stored, kills>>
      BY <1>3, <2>1 DEF WakeLoaded, StartPairing, reconnects
    <3>2. gen + 1 \in Gens /\ client # gen + 1 /\ ~sock[gen + 1] /\ net[gen + 1] = "none"
      BY <3>1
    <3>3. TypeOK' /\ CurrentAttempt'
      BY <3>1, <3>2
    <3>4. PhaseTellsSocket' /\ OneSocket'
      BY <3>1, <3>2
    <3>5. HeartbeatIsLife' /\ OneConnection' /\ ServerHolds'
      BY <3>1
    <3> QED BY <3>3, <3>4, <3>5
  <2>2. CASE ~reconnects
    <3>1. /\ wake' = FALSE /\ shown' = "disconnected"
          /\ UNCHANGED <<gen, phase, client, ready, clientVars, serverVars, stored, kills>>
      BY <1>3, <2>2 DEF WakeLoaded
    <3>2. CurrentAttempt'
      BY <1>3, <3>1 DEF WakeLoaded
    <3> QED BY <3>1, <3>2
  <2> QED BY <2>1, <2>2
<1>4. CASE KillWorker
  BY <1>4 DEF KillWorker, HungUp
<1>5. CASE RestartServer
  BY <1>5 DEF RestartServer, ServerHangsUp
<1>6. CASE TokenExpires
  BY <1>6 DEF TokenExpires
<1>7. ASSUME NEW g \in Gens, Opened(g) PROVE IInv'
  BY <1>7 DEF Opened, Reported
<1>8. ASSUME NEW g \in Gens, Failed(g) PROVE IInv'
  <2>1. CASE client = g
    <3>1. /\ client' = NoClient /\ shown' = "disconnected"
          /\ phase' = [phase EXCEPT ![g] = "ended"]
          /\ sock' = [sock EXCEPT ![g] = FALSE]
          /\ net' = [net EXCEPT ![g] = "none"]
          /\ state' = [state EXCEPT ![g] = "disconnected"]
          /\ target' = [target EXCEPT ![g] = FALSE]
          /\ UNCHANGED <<gen, ready, wake, heart, attached, tokenLive, drops, stored, kills>>
          /\ net[g] = "refused" /\ phase[g] = "opening"
      BY <1>8, <2>1 DEF Failed
    <3>2. CurrentAttempt'
      BY <2>1, <3>1
    <3>3. PhaseTellsSocket' /\ OneSocket'
      BY <2>1, <3>1
    <3>4. TypeOK'
      BY <3>1
    <3>5. HeartbeatIsLife'
      <4>1. state[g] = "connecting" /\ ~heart[g]
        <5>1. state[g] = "connecting"
          BY <3>1
        <5>2. heart[g] <=> state[g] = "connected" /\ sock[g]
          OBVIOUS
        <5> QED BY <5>1, <5>2
      <4>2. ASSUME NEW h \in Gens
            PROVE  heart'[h] <=> state'[h] = "connected" /\ sock'[h]
        BY <3>1, <4>1
      <4> QED BY <4>2
    <3>6. OneConnection' /\ ServerHolds'
      BY <3>1
    <3> QED BY <3>2, <3>3, <3>4, <3>5, <3>6
  <2>2. CASE client # g
    BY <1>8, <2>2 DEF Failed, Reported
  <2> QED BY <2>1, <2>2
<1>9. ASSUME NEW g \in Gens, Closed(g) PROVE IInv'
  BY <1>9 DEF Closed, Reported
<1>10. ASSUME NEW g \in Gens, ProbeSuperseded(g) PROVE IInv'
  BY <1>10 DEF ProbeSuperseded
<1>11. ASSUME NEW g \in Gens, ProbeUnusable(g) PROVE IInv'
  BY <1>11 DEF ProbeUnusable
<1>12. ASSUME NEW g \in Gens, ProbeUsable(g) PROVE IInv'
  <2>1. /\ g = gen /\ phase[g] = "probing"
        /\ client' = g /\ shown' = "connecting"
        /\ UNCHANGED <<gen, ready, wake, attached, tokenLive, drops, stored, kills>>
    BY <1>12 DEF ProbeUsable, Dial
  <2>2. phase' = [h \in Gens |-> IF h = g THEN "opening"
                                 ELSE IF h = client THEN EndedIfOpening(phase[h])
                                 ELSE phase[h]]
    BY <1>12 DEF ProbeUsable, Dial
  <2>3. net' = [h \in Gens |-> IF h = g THEN "dialing"
                               ELSE IF h = client THEN HungUp(net[h]) ELSE net[h]]
    BY <1>12 DEF ProbeUsable, Dial
  <2>4. /\ state' = [h \in Gens |-> IF h = g THEN "connecting"
                                    ELSE IF h = client THEN "disconnected" ELSE state[h]]
        /\ sock' = [h \in Gens |-> IF h = g THEN TRUE
                                   ELSE IF h = client THEN FALSE ELSE sock[h]]
        /\ target' = [h \in Gens |-> IF h = g THEN TRUE
                                     ELSE IF h = client THEN FALSE ELSE target[h]]
        /\ heart' = [h \in Gens |-> IF h = g THEN FALSE
                                    ELSE IF h = client THEN FALSE ELSE heart[h]]
    BY <1>12 DEF ProbeUsable, Dial
  <2>5. TypeOK'
    BY <2>1, <2>2, <2>3, <2>4 DEF HungUp, EndedIfOpening
  <2>6. PhaseTellsSocket'
    BY <2>1, <2>2, <2>3, <2>4 DEF HungUp, EndedIfOpening
  <2>7. OneSocket' /\ HeartbeatIsLife'
    BY <2>1, <2>2, <2>4 DEF EndedIfOpening
  <2>8. OneConnection' /\ ServerHolds'
    BY <2>1, <2>3 DEF HungUp
  <2>9. CurrentAttempt'
    BY <2>1, <2>2
  <2> QED BY <2>5, <2>6, <2>7, <2>8, <2>9
<1>13. ASSUME NEW g \in Gens, Persisted(g) PROVE IInv'
  BY <1>13 DEF Persisted
<1>14. ASSUME NEW g \in Gens, PersistFails(g) PROVE IInv'
  BY <1>14 DEF PersistFails
<1>15. ASSUME NEW g \in Gens, Accept(g) PROVE IInv'
  BY <1>15 DEF Accept, ServerHangsUp
<1>16. ASSUME NEW g \in Gens, Refuse(g) PROVE IInv'
  BY <1>16 DEF Refuse
<1>17. ASSUME NEW g \in Gens, ServerHears(g) PROVE IInv'
  <2>1. /\ net[g] = "clientClosed" /\ net' = [net EXCEPT ![g] = "none"]
        /\ attached' = IF attached = g THEN NoClient ELSE attached
        /\ UNCHANGED <<controlVars, clientVars, tokenLive, drops, stored, kills>>
    BY <1>17 DEF ServerHears
  <2>2. TypeOK' /\ OneSocket' /\ HeartbeatIsLife' /\ CurrentAttempt'
    BY <2>1
  <2>3. PhaseTellsSocket'
    <3>1. ~sock[g] /\ phase[g] # "opening"
      BY <2>1
    <3>2. ASSUME NEW h \in Gens
          PROVE  /\ phase'[h] \in {"none", "probing", "unusable"} => ~sock'[h] /\ client' # h
                 /\ phase'[h] = "opening" <=>
                      net'[h] \in {"dialing", "refused", "accepted", "dropped"}
                 /\ sock'[h] <=> net'[h] \in {"dialing", "refused", "accepted",
                                              "dropped", "open", "serverClosed"}
                 /\ gen' < h => phase'[h] = "none"
                 /\ gen' < h \/ phase'[h] = "probing" => net'[h] = "none"
      BY <2>1, <3>1
    <3> QED BY <3>2
  <2>4. OneConnection' /\ ServerHolds'
    BY <2>1
  <2> QED BY <2>2, <2>3, <2>4
<1>18. CASE UNCHANGED vars
  BY <1>18 DEF vars
<1> QED
  BY <1>1, <1>2, <1>3, <1>4, <1>5, <1>6, <1>7, <1>8, <1>9, <1>10, <1>11, <1>12, <1>13, <1>14, <1>15, <1>16, <1>17, <1>18 DEF Next, ClientEvent, Continue, ServerEvent

\* The invariant of pairing, however requests, sockets and unpairs overtake each other.
THEOREM Invariant == Spec => []IInv
  BY InitInv, NextInv, PTL DEF Spec

------------------------------------------------------------------------------

\* The type invariant, with the links between an attempt and its client.
THEOREM TypeCorrect == Spec => []TypeOK
  <1>1. IInv => TypeOK
    BY DEF IInv
  <1> QED BY Invariant, <1>1, PTL

\* However pair and unpair requests, restarts and failures overlap, only the
\* client in use has a socket, or one whose endpoint could not be stored.
THEOREM AtMostOneSocket == Spec => []OneSocket
  <1>1. IInv => OneSocket
    BY DEF IInv
  <1> QED BY Invariant, <1>1, PTL

\* Nothing that was on its way when the user unpaired pairs afterwards.
THEOREM UnpairStays == Spec => []UnpairIsFinal
  <1>1. IInv => UnpairIsFinal
    BY DEF IInv, CurrentAttempt, UnpairIsFinal
  <1> QED BY Invariant, <1>1, PTL

\* The bridge session never serves two open connections.
THEOREM ServerKeepsOne == Spec => []OneConnection
  <1>1. IInv => OneConnection
    BY DEF IInv
  <1> QED BY Invariant, <1>1, PTL

\* A client sends heartbeats exactly while it is connected.
THEOREM HeartbeatsTellLife == Spec => []HeartbeatIsLife
  <1>1. IInv => HeartbeatIsLife
    BY DEF IInv
  <1> QED BY Invariant, <1>1, PTL

\* At rest, the panel says "disconnected" of an attached socket only after a
\* failure of storage or a request that was no pairing input.
THEOREM DisconnectedIsUnpaired == Spec => []UnpairedButForFailures
  <1>1. IInv => UnpairedButForFailures
    <2> SUFFICES ASSUME IInv, Settled, shown = "disconnected", attached # NoClient
                 PROVE  phase[attached] = "unstored"
                          \/ (client = attached /\ phase[gen] = "unusable")
      BY DEF UnpairedButForFailures
    <2>1. attached \in Gens /\ gen \in Gens
      BY DEF IInv, TypeOK
    <2>2. net[attached] = "open"
      BY <2>1 DEF IInv, ServerHolds, Settled
    <2>3. sock[attached] /\ phase[attached] # "opening"
      BY <2>1, <2>2 DEF IInv, PhaseTellsSocket
    <2>4. state[attached] = "connected"
      <3>1. state[attached] \in States
        BY <2>1 DEF IInv, TypeOK
      <3>2. /\ state[attached] = "connecting" <=> phase[attached] = "opening"
            /\ state[attached] = "disconnected" <=> ~sock[attached]
        BY <2>1 DEF IInv, TypeOK
      <3> QED BY <2>3, <3>1, <3>2 DEF States
    <2>5. CASE client = attached
      <3>1. client # NoClient
        BY <2>1, <2>5, PairingAssumption DEF Gens
      <3>2. phase[gen] \in {"none", "ended", "unusable", "unstored"}
        BY <2>1 DEF IInv, TypeOK, Phases, Settled, Attempting
      <3>3. phase[gen] \in {"ended", "unusable"}
        BY <3>1, <3>2 DEF IInv, CurrentAttempt
      <3>4. phase[gen] # "ended"
        BY <2>4, <2>5, <3>1 DEF IInv, CurrentAttempt
      <3> QED BY <2>5, <3>3, <3>4
    <2>6. CASE client # attached
      BY <2>1, <2>3, <2>6 DEF IInv, OneSocket
    <2> QED BY <2>5, <2>6
  <1> QED BY Invariant, <1>1, PTL

\* A late event of a client that was replaced is not heard by anyone.
THEOREM StaleClientsAreSilent == Spec => StaleClientIsSilent
  <1>1. ASSUME IInv, NEW g \in Gens, ClientEvent(g), g # client
        PROVE  UNCHANGED <<client, shown>>
    <2>1. sock[g]
      BY <1>1 DEF ClientEvent, Opened, Failed, Closed
    <2>2. phase[g] = "unstored"
      BY <1>1, <2>1 DEF IInv, OneSocket
    <2>3. net[g] \notin {"dialing", "refused", "accepted", "dropped"}
      BY <1>1, <2>2 DEF IInv, PhaseTellsSocket
    <2>4. Closed(g)
      BY <1>1, <2>3 DEF ClientEvent, Opened, Failed
    <2>5. CASE g = gen
      <3>1. shown = "disconnected"
        BY <2>2, <2>5, <1>1 DEF IInv, CurrentAttempt
      <3>2. shown' = "disconnected" /\ client' = client
        BY <2>4, <2>5 DEF Closed, Reported
      <3> QED BY <3>1, <3>2
    <2>6. CASE g # gen
      BY <2>4, <2>6 DEF Closed, Reported
    <2> QED BY <2>5, <2>6
  <1>2. IInv => [\A g \in Gens : ClientEvent(g) /\ g # client =>
                    UNCHANGED <<client, shown>>]_vars
    BY <1>1
  <1> QED BY Invariant, <1>2, PTL DEF StaleClientIsSilent

\* The extension and the bridge session agree on the one connection there is
\* (bridge-client.ts, bridge-session.ts).
THEOREM EndsAlwaysAgree == Spec => []EndsAgree
<1>1. TypeOK /\ OneSocket /\ OneConnection /\ HeartbeatIsLife => EndsAgree
  BY DEF EndsAgree
<1> QED BY <1>1, TypeCorrect, AtMostOneSocket, ServerKeepsOne, HeartbeatsTellLife, PTL
==============================================================================
