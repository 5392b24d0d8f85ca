------------------------ MODULE ProjectionCacheProofs ------------------------
(***************************************************************************)
(* ProjectionCache for every number of tabs, sessions, sockets and retired *)
(* sessions: its type invariant, that a dead generation stays out, that a  *)
(* result belongs to the projected generation, and that the cache          *)
(* implements ProjectionPromise.                                           *)
(***************************************************************************)
EXTENDS ProjectionCache, FiniteSetTheorems, TLAPS

RetiredFinite == \A t \in Tabs : IsFiniteSet(retired[t])

\* Only what is dead is retired.
RetiredAreDead == \A t \in Tabs : \A s \in retired[t] : <<t, s>> \in dead

\* What is dead is retired, or the retired set could not take it, or it is the
\* anonymous generation, refused as soon as anything is retired.
DeadAreRefused ==
  \A t \in Tabs, s \in AnySession : <<t, s>> \in dead =>
    \/ s \in retired[t]
    \/ Full(t)
    \/ s = NoSession /\ retired[t] # {}

\* The inductive invariant.
IInv ==
  /\ TypeOK
  /\ RetiredFinite
  /\ RetiredAreDead
  /\ DeadAreRefused
  /\ DeadGenerationsStayOut
  /\ VerificationBelongsToGeneration

------------------------------------------------------------------------------

\* What retireSession does to a retired set within its limit: at most s is
\* added, and afterwards s is in it or it is full.
LEMMA Retire ==
  ASSUME NEW R \in SUBSET AnySession, NEW s \in AnySession, IsFiniteSet(R),
         Cardinality(R) <= MaxRetired
  PROVE  /\ retireSession(R, s) \in SUBSET AnySession
         /\ IsFiniteSet(retireSession(R, s))
         /\ Cardinality(retireSession(R, s)) <= MaxRetired
         /\ R \subseteq retireSession(R, s)
         /\ retireSession(R, s) \subseteq R \cup {s}
         /\ s \in retireSession(R, s) \/ Cardinality(retireSession(R, s)) >= MaxRetired
         /\ Cardinality(R) >= MaxRetired => retireSession(R, s) = R
         /\ retireSession(R, s) # {}
<1>1. /\ IsFiniteSet(R \cup {s})
      /\ Cardinality(R \cup {s}) = IF s \in R THEN Cardinality(R)
                                   ELSE Cardinality(R) + 1
  BY FS_AddElement
<1>2. Cardinality(R) \in Nat /\ Cardinality({}) = 0 /\ MaxRetired \in Nat \ {0}
  BY FS_CardinalityType, FS_EmptySet, RetiredAssumption
<1>3. CASE s \in R
  <2>1. retireSession(R, s) = R
    BY <1>3 DEF retireSession
  <2> QED BY <2>1, <1>3
<1>4. CASE s \notin R /\ Cardinality(R) < MaxRetired
  <2>1. retireSession(R, s) = R \cup {s}
    BY <1>4 DEF retireSession
  <2> QED BY <2>1, <1>1, <1>2, <1>4
<1>5. CASE s \notin R /\ ~(Cardinality(R) < MaxRetired)
  <2>1. retireSession(R, s) = R
    BY <1>5 DEF retireSession
  <2>2. Cardinality(R) >= MaxRetired
    BY <1>2, <1>5
  <2> QED BY <2>1, <2>2, <1>2
<1> QED BY <1>3, <1>4, <1>5

\* A full retired set is not empty.
LEMMA FullNotEmpty ==
  ASSUME NEW t \in Tabs, Full(t)
  PROVE  retired[t] # {}
BY FS_EmptySet, RetiredAssumption DEF Full

\* The empty cache of a fresh or closed socket.
LEMMA EmptyInv ==
  ASSUME markUnpaired, socket' \in Sockets \cup {NoSocket},
         paired' \in BOOLEAN, fresh' \in BOOLEAN
  PROVE  IInv'
<1>1. IsFiniteSet({}) /\ Cardinality({}) <= MaxRetired
  BY FS_EmptySet, RetiredAssumption
<1>2. TypeOK'
  BY <1>1 DEF markUnpaired, TypeOK
<1>3. RetiredFinite' /\ RetiredAreDead' /\ DeadAreRefused'
  BY <1>1 DEF markUnpaired, RetiredFinite, RetiredAreDead, DeadAreRefused
<1>4. DeadGenerationsStayOut' /\ VerificationBelongsToGeneration'
  BY DEF markUnpaired, DeadGenerationsStayOut, VerificationBelongsToGeneration
<1> QED BY <1>2, <1>3, <1>4 DEF IInv

\* At first nothing is projected.
LEMMA InitInv == Init => IInv
<1> SUFFICES ASSUME Init PROVE IInv
  OBVIOUS
<1>1. IsFiniteSet({}) /\ Cardinality({}) <= MaxRetired
  BY FS_EmptySet, RetiredAssumption
<1>2. TypeOK
  BY <1>1 DEF Init, TypeOK
<1>3. RetiredFinite /\ RetiredAreDead /\ DeadAreRefused
  BY <1>1 DEF Init, RetiredFinite, RetiredAreDead, DeadAreRefused
<1>4. DeadGenerationsStayOut /\ VerificationBelongsToGeneration
  BY DEF Init, DeadGenerationsStayOut, VerificationBelongsToGeneration, Projected
<1> QED BY <1>2, <1>3, <1>4 DEF IInv

\* A snapshot that is taken is of no dead generation: a dead one is retired,
\* or the full retired set refuses everything but the projected generation.
LEMMA IngestNotDead ==
  ASSUME IInv, NEW t \in Tabs, NEW s \in AnySession, NEW r \in Revs,
         ingest(t, s, r)
  PROVE  <<t, s>> \notin dead
<1> SUFFICES ASSUME <<t, s>> \in dead PROVE FALSE
  OBVIOUS
<1>1. \/ s \in retired[t]
      \/ Full(t)
      \/ s = NoSession /\ retired[t] # {}
  BY DEF IInv, DeadAreRefused
<1>2. s # NoSession /\ Full(t) /\ Projected(t) /\ s \notin retired[t]
  BY <1>1, FullNotEmpty DEF ingest, Admissible
<1>3. CASE IngestFirst(t)
  BY <1>2, <1>3 DEF IngestFirst
<1>4. CASE IngestSame(t, s, r)
  BY <1>4 DEF IngestSame, CurrentIs, IInv, DeadGenerationsStayOut
<1>5. CASE IngestReplace(t, s)
  <2> DEFINE old == byTab[t].session
  <2>1. old \in AnySession /\ IsFiniteSet(retired[t])
        /\ retired[t] \in SUBSET AnySession /\ Cardinality(retired[t]) <= MaxRetired
    BY <1>2 DEF IInv, TypeOK, RetiredFinite, Projected, Entry
  <2>2. retireSession(retired[t], old) = retired[t]
    BY <2>1, <1>2, Retire DEF Full
  <2>3. <<t, old>> \in dead
    BY <2>2, <1>5 DEF IngestReplace, IInv, RetiredAreDead
  <2> QED BY <2>3, <1>2 DEF IInv, DeadGenerationsStayOut
<1> QED BY <1>3, <1>4, <1>5 DEF ingest

\* What ingest does to the sets of retired and dead generations.
LEMMA IngestRetires ==
  ASSUME IInv, NEW t \in Tabs, NEW s \in AnySession, NEW r \in Revs,
         ingest(t, s, r)
  PROVE  /\ retired' \in [Tabs -> SUBSET AnySession]
         /\ dead' \subseteq Tabs \X AnySession
         /\ \A u \in Tabs : Cardinality(retired[u])' <= MaxRetired
         /\ RetiredFinite' /\ RetiredAreDead' /\ DeadAreRefused'
         /\ <<t, s>> \notin dead'
         /\ \A u \in Tabs \ {t}, x \in AnySession :
              <<u, x>> \in dead' => <<u, x>> \in dead
<1>1. CASE UNCHANGED <<retired, dead>>
  <2>1. <<t, s>> \notin dead
    BY IngestNotDead
  <2> QED BY <2>1, <1>1 DEF IInv, TypeOK, RetiredFinite, RetiredAreDead,
                          DeadAreRefused, Full
<1>2. CASE IngestReplace(t, s)
  <2> DEFINE old == byTab[t].session
             R == retireSession(retired[t], old)
  <2>1. /\ old \in AnySession /\ IsFiniteSet(retired[t])
        /\ retired[t] \in SUBSET AnySession /\ Cardinality(retired[t]) <= MaxRetired
    BY <1>2 DEF IInv, TypeOK, RetiredFinite, IngestReplace, Projected, Entry
  <2>2. /\ R \in SUBSET AnySession /\ IsFiniteSet(R)
        /\ Cardinality(R) <= MaxRetired /\ retired[t] \subseteq R
        /\ R \subseteq retired[t] \cup {old} /\ old \in R
        /\ Cardinality(retired[t]) >= MaxRetired => R = retired[t]
    BY <2>1, <1>2, Retire DEF IngestReplace
  <2>3. retired' = [retired EXCEPT ![t] = R] /\ dead' = dead \cup {<<t, old>>}
        /\ s # old
    BY <1>2 DEF IngestReplace
  <2> HIDE DEF R, old
  <2>4. /\ retired'[t] = R
        /\ \A u \in Tabs \ {t} : retired'[u] = retired[u]
        /\ retired' \in [Tabs -> SUBSET AnySession]
        /\ dead' \subseteq Tabs \X AnySession
    BY <2>1, <2>2, <2>3 DEF IInv, TypeOK
  <2>5. RetiredFinite' /\ \A u \in Tabs : Cardinality(retired[u])' <= MaxRetired
    BY <2>2, <2>4 DEF IInv, TypeOK, RetiredFinite
  <2>6. RetiredAreDead'
    BY <2>2, <2>3, <2>4 DEF IInv, RetiredAreDead
  <2>7. DeadAreRefused'
    <3> SUFFICES ASSUME NEW u \in Tabs, NEW x \in AnySession, <<u, x>> \in dead'
                 PROVE  \/ x \in retired'[u]
                        \/ Full(u)'
                        \/ x = NoSession /\ retired'[u] # {}
      BY DEF DeadAreRefused
    <3>1. CASE <<u, x>> \in dead
      BY <3>1, <2>2, <2>4 DEF IInv, DeadAreRefused, Full
    <3>2. CASE <<u, x>> = <<t, old>>
      BY <3>2, <2>2, <2>4
    <3> QED BY <3>1, <3>2, <2>3
  <2>8. <<t, s>> \notin dead
    BY IngestNotDead
  <2> QED BY <2>3, <2>4, <2>5, <2>6, <2>7, <2>8
<1> QED BY <1>1, <1>2 DEF ingest, IngestFirst, IngestSame

\* A snapshot keeps the invariant, be it taken or refused.
LEMMA IngestInv ==
  ASSUME IInv, NEW t \in Tabs, NEW s \in AnySession, NEW r \in Revs,
         ingest(t, s, r)
  PROVE  IInv'
<1>1. /\ byTab'[t] = [session |-> s, rev |-> r]
      /\ \A u \in Tabs \ {t} : byTab'[u] = byTab[u]
      /\ byTab' \in [Tabs -> Entry \cup {NoEntry}]
  BY DEF ingest, IInv, TypeOK, Entry
<1>2. /\ verification' \in [Tabs -> Result \cup {NoResult}]
      /\ \A u \in Tabs \ {t} : verification'[u] = verification[u]
      /\ \/ verification'[t] = NoResult
         \/ verification'[t] = verification[t] /\ CurrentIs(t, s)
  <2>1. CASE IngestFirst(t)
    BY <2>1 DEF IngestFirst, IInv, TypeOK, VerificationBelongsToGeneration, CurrentIs
  <2>2. CASE IngestSame(t, s, r)
    BY <2>2 DEF IngestSame, IInv, TypeOK
  <2>3. CASE IngestReplace(t, s)
    BY <2>3 DEF IngestReplace, IInv, TypeOK
  <2> QED BY <2>1, <2>2, <2>3 DEF ingest
<1>3. TypeOK'
  BY <1>1, <1>2, IngestRetires DEF ingest, IInv, TypeOK
<1>4. DeadGenerationsStayOut'
  <2> SUFFICES ASSUME NEW u \in Tabs, Projected(u)'
               PROVE  <<u, byTab'[u].session>> \notin dead'
    BY DEF DeadGenerationsStayOut
  <2>1. CASE u = t
    BY <2>1, <1>1, IngestRetires
  <2>2. CASE u # t
    <3>1. Projected(u) /\ byTab[u].session \in AnySession
      BY <2>2, <1>1 DEF Projected, IInv, TypeOK, Entry
    <3> QED BY <3>1, <2>2, <1>1, IngestRetires DEF IInv, DeadGenerationsStayOut
  <2> QED BY <2>1, <2>2
<1>5. VerificationBelongsToGeneration'
  <2> SUFFICES ASSUME NEW u \in Tabs, verification'[u] # NoResult
               PROVE  byTab'[u] # NoEntry /\ byTab'[u].session = verification'[u].session
    BY DEF VerificationBelongsToGeneration, CurrentIs, Projected
  <2>1. CASE u = t
    <3>1. byTab'[t] # NoEntry
      BY <1>1, SentinelAssumption DEF Entry
    <3>2. CurrentIs(t, s) /\ CurrentIs(t, verification[t].session)
          /\ verification'[t] = verification[t]
      BY <2>1, <1>2 DEF IInv, VerificationBelongsToGeneration
    <3>3. byTab'[t].session = s
      BY <1>1
    <3>4. verification'[t].session = s
      BY <3>2 DEF CurrentIs
    <3> QED BY <3>1, <3>3, <3>4, <2>1
  <2>2. CASE u # t
    BY <2>2, <1>1, <1>2 DEF IInv, VerificationBelongsToGeneration, CurrentIs, Projected
  <2> QED BY <2>1, <2>2
<1> QED BY <1>3, <1>4, <1>5, IngestRetires DEF IInv

\* A verification result is stored for the projected generation only.
LEMMA ResultInv ==
  ASSUME IInv, NEW t \in Tabs, NEW s \in Sessions, NEW ts \in 0..MaxTs,
         setVerificationResult(t, s, ts)
  PROVE  IInv'
<1>1. TypeOK'
  BY DEF IInv, TypeOK, setVerificationResult, Result
<1>2. VerificationBelongsToGeneration'
  BY DEF IInv, TypeOK, setVerificationResult, VerificationBelongsToGeneration,
         CurrentIs, Projected
<1> QED BY <1>1, <1>2 DEF IInv, setVerificationResult, RetiredFinite, RetiredAreDead,
           DeadAreRefused, DeadGenerationsStayOut, Projected, Full

\* A change of focus keeps the invariant.
LEMMA FocusInv ==
  ASSUME IInv, NEW t \in Tabs, NEW s \in AnySession, setActiveTab(t, s)
  PROVE  IInv'
<1>1. TypeOK'
  BY DEF IInv, TypeOK, setActiveTab, Generation
<1>2. VerificationBelongsToGeneration'
  BY DEF IInv, setActiveTab, VerificationBelongsToGeneration, CurrentIs, Projected
<1> QED BY <1>1, <1>2 DEF IInv, setActiveTab, RetiredFinite, RetiredAreDead,
           DeadAreRefused, DeadGenerationsStayOut, Projected, Full

\* RetiredOnClose keeps a retired set within its limit, adds only what the
\* close ends, and leaves everything that ends refused.
LEMMA CloseRetires ==
  ASSUME IInv, NEW t \in Tabs, NEW s \in AnySession
  PROVE  /\ RetiredOnClose(t, s) \in SUBSET AnySession
         /\ IsFiniteSet(RetiredOnClose(t, s))
         /\ Cardinality(RetiredOnClose(t, s)) <= MaxRetired
         /\ retired[t] \subseteq RetiredOnClose(t, s)
         /\ RetiredOnClose(t, s) \subseteq retired[t] \cup Ended(t, s)
         /\ Ended(t, s) \subseteq AnySession
         /\ Full(t) => RetiredOnClose(t, s) = retired[t]
         /\ \A x \in Ended(t, s) :
              \/ x \in RetiredOnClose(t, s)
              \/ Cardinality(RetiredOnClose(t, s)) >= MaxRetired
              \/ x = NoSession /\ RetiredOnClose(t, s) # {}
         /\ RetiredOnClose(t, s) # {}
<1> DEFINE cur == byTab[t].session
           replaced == Projected(t) /\ ~preservesReplacement(t, s)
                       /\ cur \notin {NoSession, s}
           Mid == IF replaced THEN retireSession(retired[t], cur) ELSE retired[t]
<1>1. /\ retired[t] \in SUBSET AnySession /\ IsFiniteSet(retired[t])
      /\ Cardinality(retired[t]) <= MaxRetired
      /\ Projected(t) => cur \in AnySession
  BY DEF IInv, TypeOK, RetiredFinite, Projected, Entry
<1>2. RetiredOnClose(t, s) = retireSession(Mid, s)
  BY DEF RetiredOnClose
<1>3. Ended(t, s) \subseteq AnySession /\ s \in Ended(t, s)
  BY <1>1 DEF Ended
<1>4. /\ Mid \in SUBSET AnySession /\ IsFiniteSet(Mid)
      /\ Cardinality(Mid) <= MaxRetired
      /\ retired[t] \subseteq Mid /\ Mid \subseteq retired[t] \cup Ended(t, s)
      /\ Full(t) => Mid = retired[t]
      /\ replaced => cur \in Mid \/ Cardinality(Mid) >= MaxRetired
  <2>1. CASE replaced
    <3>1. Mid = retireSession(retired[t], cur) /\ cur \in AnySession /\ cur \in Ended(t, s)
      BY <2>1, <1>1 DEF Ended
    <3> HIDE DEF Mid
    <3> QED BY <3>1, <1>1, Retire DEF Full
  <2>2. CASE ~replaced
    BY <2>2, <1>1
  <2> QED BY <2>1, <2>2
<1>5. \A x \in Ended(t, s) : x = s \/ x = NoSession \/ (replaced /\ x = cur)
  BY DEF Ended
<1> HIDE DEF Mid, replaced
<1>6. /\ retireSession(Mid, s) \in SUBSET AnySession
      /\ IsFiniteSet(retireSession(Mid, s))
      /\ Cardinality(retireSession(Mid, s)) <= MaxRetired
      /\ Mid \subseteq retireSession(Mid, s)
      /\ retireSession(Mid, s) \subseteq Mid \cup {s}
      /\ s \in retireSession(Mid, s) \/ Cardinality(retireSession(Mid, s)) >= MaxRetired
      /\ Cardinality(Mid) >= MaxRetired => retireSession(Mid, s) = Mid
      /\ retireSession(Mid, s) # {}
  BY <1>4, Retire
<1>7. Full(t) => RetiredOnClose(t, s) = retired[t]
  BY <1>2, <1>4, <1>6 DEF Full
<1>8. ASSUME NEW x \in Ended(t, s)
      PROVE  \/ x \in RetiredOnClose(t, s)
             \/ Cardinality(RetiredOnClose(t, s)) >= MaxRetired
             \/ x = NoSession /\ RetiredOnClose(t, s) # {}
  BY <1>2, <1>4, <1>5, <1>6
<1> QED BY <1>2, <1>3, <1>4, <1>6, <1>7, <1>8

\* Focus moves to a projected generation or to none.
LEMMA RefocusType ==
  ASSUME IInv, NEW t \in Tabs, NEW s \in AnySession, Refocus(t, s)
  PROVE  activeTab' \in Tabs \cup {NoTab} /\ focused' \in Generation \cup {NoFocus}
<1>1. /\ activeTab \in Tabs \cup {NoTab} /\ focused \in Generation \cup {NoFocus}
      /\ \A u \in Tabs : Projected(u) => byTab[u].session \in AnySession
  BY DEF IInv, TypeOK, Projected, Entry
<1> QED BY <1>1 DEF Refocus, Generation

\* The close of a tab retires its generations.
LEMMA ClearInv ==
  ASSUME IInv, NEW t \in Tabs, NEW s \in AnySession, clearTab(t, s)
  PROVE  IInv'
<1> DEFINE R == RetiredOnClose(t, s)
           E == Ended(t, s)
<1>1. /\ retired' = [retired EXCEPT ![t] = R]
      /\ dead' = dead \cup {<<t, x>> : x \in E}
  BY DEF clearTab
<1>2. /\ R \in SUBSET AnySession /\ IsFiniteSet(R) /\ Cardinality(R) <= MaxRetired
      /\ retired[t] \subseteq R /\ R \subseteq retired[t] \cup E /\ E \subseteq AnySession
      /\ Full(t) => R = retired[t]
      /\ \A x \in E : x \in R \/ Cardinality(R) >= MaxRetired \/ (x = NoSession /\ R # {})
  BY CloseRetires
<1>3. /\ byTab' \in [Tabs -> Entry \cup {NoEntry}]
      /\ verification' \in [Tabs -> Result \cup {NoResult}]
      /\ \A u \in Tabs \ {t} : byTab'[u] = byTab[u] /\ verification'[u] = verification[u]
      /\ \/ byTab'[t] = NoEntry /\ verification'[t] = NoResult
         \/ /\ byTab' = byTab /\ verification' = verification
            /\ E = {s} /\ ~CurrentIs(t, s)
  <2>1. CASE preservesReplacement(t, s)
    BY <2>1 DEF clearTab, IInv, TypeOK, Ended, preservesReplacement
  <2>2. CASE ~preservesReplacement(t, s)
    BY <2>2 DEF clearTab, IInv, TypeOK
  <2> QED BY <2>1, <2>2
<1> HIDE DEF R, E
<1>4. /\ retired'[t] = R
      /\ \A u \in Tabs \ {t} : retired'[u] = retired[u]
      /\ retired' \in [Tabs -> SUBSET AnySession]
      /\ dead' \subseteq Tabs \X AnySession
  BY <1>1, <1>2 DEF IInv, TypeOK
<1>5. RetiredFinite' /\ \A u \in Tabs : Cardinality(retired[u])' <= MaxRetired
  BY <1>2, <1>4 DEF IInv, TypeOK, RetiredFinite
<1>6. TypeOK'
  <2>1. /\ activeTab' \in Tabs \cup {NoTab} /\ focused' \in Generation \cup {NoFocus}
        /\ UNCHANGED <<socket, paired, fresh>>
    BY RefocusType DEF clearTab
  <2> QED BY <2>1, <1>3, <1>4, <1>5 DEF IInv, TypeOK
<1>7. RetiredAreDead'
  BY <1>1, <1>2, <1>4 DEF IInv, RetiredAreDead
<1>8. DeadAreRefused'
  <2> SUFFICES ASSUME NEW u \in Tabs, NEW x \in AnySession, <<u, x>> \in dead'
               PROVE  \/ x \in retired'[u]
                      \/ Full(u)'
                      \/ x = NoSession /\ retired'[u] # {}
    BY DEF DeadAreRefused
  <2>1. CASE <<u, x>> \in dead
    BY <2>1, <1>2, <1>4 DEF IInv, DeadAreRefused, Full
  <2>2. CASE u = t /\ x \in E
    BY <2>2, <1>2, <1>4 DEF Full
  <2> QED BY <2>1, <2>2, <1>1
<1>9. DeadGenerationsStayOut'
  <2> SUFFICES ASSUME NEW u \in Tabs, Projected(u)'
               PROVE  <<u, byTab'[u].session>> \notin dead'
    BY DEF DeadGenerationsStayOut
  <2>1. CASE u = t
    BY <2>1, <1>1, <1>3 DEF Projected, CurrentIs, IInv, DeadGenerationsStayOut
  <2>2. CASE u # t
    BY <2>2, <1>1, <1>3 DEF Projected, IInv, DeadGenerationsStayOut
  <2> QED BY <2>1, <2>2
<1>10. VerificationBelongsToGeneration'
  BY <1>3 DEF IInv, VerificationBelongsToGeneration, CurrentIs, Projected
<1> QED BY <1>5, <1>6, <1>7, <1>8, <1>9, <1>10 DEF IInv

------------------------------------------------------------------------------
(* The invariant is inductive.                                             *)

\* Every step keeps the invariant.
LEMMA StepInv == IInv /\ [Next]_vars => IInv'
<1> SUFFICES ASSUME IInv, [Next]_vars PROVE IInv'
  OBVIOUS
<1>1. ASSUME NEW ws \in Sockets, attach(ws) PROVE IInv'
  BY <1>1, EmptyInv DEF attach
<1>2. CASE dropSocket
  BY <1>2, EmptyInv DEF dropSocket
<1>3. CASE noteHeartbeat \/ HeartbeatGap
  <2>1. TypeOK'
    BY <1>3 DEF noteHeartbeat, HeartbeatGap, projection, IInv, TypeOK
  <2> QED BY <2>1, <1>3 DEF noteHeartbeat, HeartbeatGap, projection, IInv,
             RetiredFinite, RetiredAreDead, DeadAreRefused, DeadGenerationsStayOut,
             VerificationBelongsToGeneration, CurrentIs, Projected, Full
<1>4. ASSUME NEW t \in Tabs, handleRaw(t) PROVE IInv'
  BY <1>4, IngestInv, ResultInv, ClearInv, FocusInv DEF handleRaw, AnySession
<1>5. CASE UNCHANGED vars
  BY <1>5 DEF vars, IInv, TypeOK, RetiredFinite, RetiredAreDead, DeadAreRefused,
              DeadGenerationsStayOut, VerificationBelongsToGeneration, CurrentIs,
              Projected, Full
<1> QED BY <1>1, <1>2, <1>3, <1>4, <1>5 DEF Next, Lifecycle

\* The invariant of the cache, for any tabs, sessions, revisions and bounds.
THEOREM Invariant == Spec => []IInv
BY InitInv, StepInv, PTL DEF Spec

\* The state keeps its type and no tab retires more sessions than
\* MAX_RETIRED_SESSIONS_PER_TAB, in every reachable state.
THEOREM TypeCorrect == Spec => []TypeOK
<1>1. IInv => TypeOK
  BY DEF IInv
<1> QED BY <1>1, Invariant, PTL

\* A closed or superseded generation is never projected again, however many
\* generations a tab goes through and whatever the limit of the retired set.
THEOREM NeverServedAgain == Spec => []DeadGenerationsStayOut
<1>1. IInv => DeadGenerationsStayOut
  BY DEF IInv
<1> QED BY <1>1, Invariant, PTL

\* The stored result is always one of the projected generation.
THEOREM ResultOfProjectedGeneration == Spec => []VerificationBelongsToGeneration
<1>1. IInv => VerificationBelongsToGeneration
  BY DEF IInv
<1> QED BY <1>1, Invariant, PTL

\* What getVerificationResult answers belongs to what getActive answers.
THEOREM ToolsAnswerOneGeneration == Spec => []AnswersAgree
<1>1. IInv => AnswersAgree
  <2> SUFFICES ASSUME IInv, getVerificationResult # NoResult PROVE AnswersAgree
    BY DEF AnswersAgree
  <2>1. CASE focused # NoFocus
    <3> DEFINE f == focused.tab
    <3>1. f \in Tabs
      BY <2>1 DEF IInv, TypeOK, Generation
    <3>2. /\ verification[f] # NoResult /\ verification[f].session = focused.session
          /\ getVerificationResult = verification[f]
      BY <2>1 DEF getVerificationResult
    <3>3. CurrentIs(f, focused.session)
      BY <3>1, <3>2 DEF IInv, VerificationBelongsToGeneration
    <3>4. getActive = f
      BY <2>1, <3>3 DEF getActive
    <3>5. f # NoTab
      BY <3>1, SentinelAssumption
    <3> QED BY <3>2, <3>3, <3>4, <3>5 DEF AnswersAgree, CurrentIs
  <2>2. CASE focused = NoFocus
    <3>1. /\ activeTab # NoTab /\ getVerificationResult = verification[activeTab]
          /\ verification[activeTab] # NoResult
      BY <2>2 DEF getVerificationResult
    <3>2. activeTab \in Tabs
      BY <3>1 DEF IInv, TypeOK
    <3>3. CurrentIs(activeTab, verification[activeTab].session)
      BY <3>1, <3>2 DEF IInv, VerificationBelongsToGeneration
    <3>4. getActive = activeTab
      BY <2>2, <3>1, <3>3 DEF getActive, CurrentIs
    <3> QED BY <3>1, <3>3, <3>4 DEF AnswersAgree, CurrentIs
  <2> QED BY <2>1, <2>2
<1> QED BY <1>1, Invariant, PTL

\* A step gives focus only to a generation that is not dead.
LEMMA FocusStep ==
  IInv /\ [Next]_vars
    => [focused' # focused /\ focused' # NoFocus
          => <<focused'.tab, focused'.session>> \notin dead]_vars
<1> SUFFICES ASSUME IInv, Next, focused' # focused, focused' # NoFocus
             PROVE  <<focused'.tab, focused'.session>> \notin dead
  OBVIOUS
<1>1. PICK t \in Tabs : handleRaw(t)
  BY DEF Next, Lifecycle, attach, dropSocket, markUnpaired, noteHeartbeat,
         HeartbeatGap, projection
<1>2. PICK s \in AnySession : clearTab(t, s) \/ setActiveTab(t, s)
  BY <1>1 DEF handleRaw, ingest, setVerificationResult
<1>3. CASE clearTab(t, s)
  <2>1. PICK u \in Tabs : /\ Projected(u)
                         /\ focused' = [tab |-> u, session |-> byTab[u].session]
    BY <1>3 DEF clearTab, Refocus
  <2> QED BY <2>1 DEF IInv, DeadGenerationsStayOut
<1>4. CASE setActiveTab(t, s)
  <2>1. focused' = [tab |-> t, session |-> s]
    BY <1>4 DEF setActiveTab
  <2>2. CASE Projected(t)
    BY <1>4, <2>1, <2>2 DEF setActiveTab, Focusable, IInv, DeadGenerationsStayOut
  <2>3. CASE ~Projected(t)
    BY <1>4, <2>1, <2>3 DEF setActiveTab, Focusable, IInv, DeadAreRefused
  <2> QED BY <2>2, <2>3
<1> QED BY <1>2, <1>3, <1>4

\* A focus fact or a fallback never moves the focus to a generation that was
\* closed or superseded.
THEOREM FocusStaysWithTheLiving == Spec => FocusMovesToLiveGenerations
BY FocusStep, Invariant, PTL DEF Spec, FocusMovesToLiveGenerations

------------------------------------------------------------------------------
(* Refinement of ProjectionPromise: ingest is Serve, clearTab is Close, a  *)
(* new or lost socket is Forget, everything else stutters.                 *)

\* A snapshot that is taken serves its generation.
LEMMA IngestServes ==
  ASSUME IInv, NEW t \in Tabs, NEW s \in AnySession, NEW r \in Revs,
         ingest(t, s, r)
  PROVE  Promise!Serve(t, s, r)
<1>1. <<t, s>> \notin dead
  BY IngestNotDead
<1>2. byTab' = [byTab EXCEPT ![t] = [session |-> s, rev |-> r]]
  BY DEF ingest
<1>3. CASE IngestFirst(t)
  BY <1>1, <1>2, <1>3 DEF IngestFirst, Projected, Promise!Serve
<1>4. CASE IngestSame(t, s, r)
  BY <1>1, <1>2, <1>4 DEF IngestSame, CurrentIs, Projected, Promise!Serve
<1>5. CASE IngestReplace(t, s)
  BY <1>1, <1>2, <1>5 DEF IngestReplace, Projected, Promise!Serve
<1> QED BY <1>3, <1>4, <1>5 DEF ingest

\* The close of a tab closes its generations in the promise.
LEMMA ClearCloses ==
  ASSUME IInv, NEW t \in Tabs, NEW s \in AnySession, clearTab(t, s)
  PROVE  Ended(t, s) \in SUBSET AnySession /\ Promise!Close(t, Ended(t, s))
<1>1. Ended(t, s) \in SUBSET AnySession
  BY CloseRetires
<1>2. dead' = dead \cup {<<t, x>> : x \in Ended(t, s)}
  BY DEF clearTab
<1>3. byTab' = byTab \/ byTab' = [byTab EXCEPT ![t] = NoEntry]
  BY DEF clearTab
<1>4. IInv'
  BY ClearInv
<1>5. byTab'[t] = NoEntry \/ <<t, byTab'[t].session>> \notin dead'
  BY <1>4 DEF IInv, DeadGenerationsStayOut, Projected
<1> QED BY <1>1, <1>2, <1>3, <1>5 DEF Promise!Close

\* An unpair forgets everything.
LEMMA ForgetStep == ASSUME markUnpaired PROVE Promise!Forget
BY DEF markUnpaired, Promise!Forget, Promise!Init

\* Every step of the cache is a step of the promise, or leaves what it speaks of alone.
LEMMA PromiseStep == IInv /\ [Next]_vars => [Promise!Next]_(Promise!vars)
<1> SUFFICES ASSUME IInv, Next PROVE Promise!Next \/ UNCHANGED <<byTab, dead>>
  BY DEF vars, Promise!vars
<1>1. ASSUME NEW ws \in Sockets, attach(ws) PROVE Promise!Next
  BY <1>1, ForgetStep DEF attach, Promise!Next
<1>2. CASE dropSocket
  BY <1>2, ForgetStep DEF dropSocket, Promise!Next
<1>3. CASE noteHeartbeat \/ HeartbeatGap
  BY <1>3 DEF noteHeartbeat, HeartbeatGap, projection
<1>4. ASSUME NEW t \in Tabs, handleRaw(t)
      PROVE  Promise!Next \/ UNCHANGED <<byTab, dead>>
  <2>1. ASSUME NEW s \in AnySession, NEW r \in Revs, ingest(t, s, r)
        PROVE  Promise!Next
    BY <2>1, IngestServes DEF Promise!Next
  <2>2. ASSUME NEW s \in AnySession, clearTab(t, s) PROVE Promise!Next
    BY <2>2, ClearCloses DEF Promise!Next
  <2> QED BY <1>4, <2>1, <2>2 DEF handleRaw, setVerificationResult, setActiveTab
<1> QED BY <1>1, <1>2, <1>3, <1>4 DEF Next, Lifecycle

\* The projection cache implements ProjectionPromise: per tab one generation
\* at a revision that never goes back, and none back from the dead.
THEOREM CacheImplementsPromise == Spec => ImplementsPromise
<1>1. Init => Promise!Init
  BY DEF Init, Promise!Init
<1> QED BY <1>1, PromiseStep, Invariant, PTL DEF Spec, ImplementsPromise, Promise!Spec

------------------------------------------------------------------------------
(* What the tools find: nothing without a socket, and before the first     *)
(* focus fact the active tab is always one that has a snapshot.            *)

\* Without a socket nothing is projected, active or focused.
DarkIsEmpty ==
  /\ paired <=> socket # NoSocket
  /\ socket = NoSocket =>
       /\ activeTab = NoTab /\ focused = NoFocus
       /\ \A t \in Tabs : byTab[t] = NoEntry /\ verification[t] = NoResult /\ retired[t] = {}

\* Until a focus fact, the active tab has a snapshot as soon as some tab has.
ActiveIsProjected ==
  focused = NoFocus /\ (\E t \in Tabs : Projected(t)) => activeTab \in Tabs /\ Projected(activeTab)

AnswerInv == DarkIsEmpty /\ ActiveIsProjected

\* The empty cache has nothing that could be missing.
LEMMA EmptyAnswers ==
  ASSUME markUnpaired, (paired <=> socket # NoSocket)'
  PROVE  AnswerInv'
<1>1. \A t \in Tabs : byTab'[t] = NoEntry /\ verification'[t] = NoResult /\ retired'[t] = {}
  BY DEF markUnpaired
<1>2. DarkIsEmpty'
  BY <1>1 DEF markUnpaired, DarkIsEmpty
<1>3. ActiveIsProjected'
  BY <1>1 DEF ActiveIsProjected, Projected
<1> QED BY <1>2, <1>3 DEF AnswerInv

\* After a close there is an active tab with a snapshot, or no snapshot at all.
LEMMA ClearAnswers ==
  ASSUME IInv, AnswerInv, NEW t \in Tabs, NEW s \in AnySession, clearTab(t, s)
  PROVE  ActiveIsProjected'
<1> SUFFICES ASSUME focused' = NoFocus, NEW u \in Tabs, Projected(u)'
             PROVE  activeTab' \in Tabs /\ Projected(activeTab)'
  BY DEF ActiveIsProjected
<1>1. byTab \in [Tabs -> Entry \cup {NoEntry}] /\ focused \in Generation \cup {NoFocus}
  BY DEF IInv, TypeOK
<1>2. focused = NoFocus
  <2> SUFFICES ASSUME focused # NoFocus PROVE FALSE
    OBVIOUS
  <2>1. PICK v \in Tabs : Projected(v) /\ focused' = [tab |-> v, session |-> byTab[v].session]
    BY DEF clearTab, Refocus
  <2>2. focused' \in Generation
    BY <2>1, <1>1 DEF Projected, Entry, Generation
  <2> QED BY <2>2, SentinelAssumption
<1>3. ~FocusIs(t, s) /\ ~preservesReplacement(t, s)
  BY <1>2 DEF FocusIs, preservesReplacement
<1>4. /\ byTab' = [byTab EXCEPT ![t] = NoEntry]
      /\ CurrentIs(t, s)
  BY <1>3 DEF clearTab
<1>5. u # t /\ Projected(u) /\ activeTab \in Tabs /\ Projected(activeTab)
  BY <1>1, <1>2, <1>4 DEF Projected, AnswerInv, ActiveIsProjected
<1>6. CASE activeTab = t
  <2>1. PICK v \in {v \in Tabs \ {t} : Projected(v)} : activeTab' = v
    BY <1>2, <1>3, <1>5, <1>6 DEF clearTab, Refocus
  <2> QED BY <2>1, <1>1, <1>4 DEF Projected
<1>7. CASE activeTab # t
  <2>1. activeTab' = activeTab
    BY <1>2, <1>3, <1>7 DEF clearTab, Refocus
  <2> QED BY <2>1, <1>1, <1>4, <1>5, <1>7 DEF Projected
<1> QED BY <1>6, <1>7

\* Every step keeps what the tools are answered well formed.
LEMMA AnswerStep == IInv /\ AnswerInv /\ [Next]_vars => AnswerInv'
<1> SUFFICES ASSUME IInv, AnswerInv, [Next]_vars PROVE AnswerInv'
  OBVIOUS
<1>1. ASSUME NEW ws \in Sockets, attach(ws) PROVE AnswerInv'
  BY <1>1, EmptyAnswers, SentinelAssumption DEF attach
<1>2. CASE dropSocket
  BY <1>2, EmptyAnswers DEF dropSocket
<1>3. CASE noteHeartbeat \/ HeartbeatGap \/ UNCHANGED vars
  BY <1>3 DEF noteHeartbeat, HeartbeatGap, projection, vars, AnswerInv, DarkIsEmpty,
              ActiveIsProjected, Projected
<1>4. ASSUME NEW t \in Tabs, NEW s \in AnySession, NEW r \in Revs, ingest(t, s, r)
      PROVE  AnswerInv'
  <2>1. DarkIsEmpty'
    BY <1>4 DEF ingest, AnswerInv, DarkIsEmpty
  <2>2. /\ byTab'[t] # NoEntry
        /\ \A u \in Tabs : u # t => byTab'[u] = byTab[u]
    BY <1>4, SentinelAssumption DEF ingest, IInv, TypeOK, Entry
  <2>3. ActiveIsProjected'
    BY <1>4, <2>2 DEF ingest, AnswerInv, ActiveIsProjected, Projected
  <2> QED BY <2>1, <2>3 DEF AnswerInv
<1>5. ASSUME NEW t \in Tabs, NEW s \in Sessions, NEW ts \in 0..MaxTs,
             setVerificationResult(t, s, ts)
      PROVE  AnswerInv'
  BY <1>5 DEF setVerificationResult, AnswerInv, DarkIsEmpty, ActiveIsProjected, Projected
<1>6. ASSUME NEW t \in Tabs, NEW s \in AnySession, clearTab(t, s)
      PROVE  AnswerInv'
  <2>1. DarkIsEmpty'
    BY <1>6 DEF clearTab, AnswerInv, DarkIsEmpty
  <2> QED BY <2>1, <1>6, ClearAnswers DEF AnswerInv
<1>7. ASSUME NEW t \in Tabs, NEW s \in AnySession, setActiveTab(t, s)
      PROVE  AnswerInv'
  <2>1. DarkIsEmpty'
    BY <1>7 DEF setActiveTab, AnswerInv, DarkIsEmpty
  <2>2. focused' # NoFocus
    BY <1>7, SentinelAssumption DEF setActiveTab, Focusable, Projected, IInv, TypeOK, Entry, Generation
  <2> QED BY <2>1, <2>2 DEF AnswerInv, ActiveIsProjected
<1> QED
  BY <1>1, <1>2, <1>3, <1>4, <1>5, <1>6, <1>7 DEF Next, Lifecycle, handleRaw

\* What the invariants say of the tools' reads.
LEMMA AnswersAreWellFormed == IInv /\ AnswerInv => WellFormed
<1> SUFFICES ASSUME IInv, AnswerInv PROVE WellFormed
  OBVIOUS
<1>1. TypeOK
  BY DEF IInv
<1>2. ASSUME socket = NoSocket PROVE ~isLive /\ getActive = NoTab
  BY <1>2 DEF AnswerInv, DarkIsEmpty, isLive, getActive
<1>3. UnpairedHoldsNothing
  BY <1>2 DEF AnswerInv, DarkIsEmpty, UnpairedHoldsNothing
<1>4. BootstrapActiveHasEntry
  BY SentinelAssumption DEF AnswerInv, ActiveIsProjected, BootstrapActiveHasEntry, getActive
<1> QED BY <1>1, <1>3, <1>4 DEF WellFormed

\* The cache keeps its limits, is empty without a socket, and never leaves the
\* tools without an answer while it holds one (projection-cache.ts).
THEOREM CacheIsWellFormed == Spec => []WellFormed
<1>1. Init => AnswerInv
  BY DEF Init, AnswerInv, DarkIsEmpty, ActiveIsProjected, Projected
<1> QED BY <1>1, InitInv, StepInv, AnswerStep, AnswersAreWellFormed, PTL DEF Spec
==============================================================================
