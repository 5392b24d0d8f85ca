------------------------- MODULE TabSessionsProofs -------------------------
(***************************************************************************)
(* The sessions of tabs, for any tabs and any bounds: ids stay distinct,   *)
(* storage follows memory, and a loaded page is reachable at rest.         *)
(*                                                                         *)
(* The argument about the queue: a "loading" or "removed" of a tab is a    *)
(* barrier, and what is queued after the last barrier of a tab speaks of   *)
(* the document the tab shows now.                                         *)
(***************************************************************************)
EXTENDS TabSessions, SequenceTheorems, TLAPS

Store == [Tabs -> Session \cup {NoSession}]

Msgs ==
  [type : {"loading", "removed"}, tab : Tabs]
    \cup [type : {"complete"}, tab : Tabs, ok : BOOLEAN]
    \cup [type : {"hello"}, tab : Tabs, doc : 0..MaxDocs]
    \cup [type : {"frames"}, tab : Tabs, doc : 0..MaxDocs, worker : Nat]
    \cup [type : {"tabs"}, denied : SUBSET Tabs, worker : Nat]

Types ==
  /\ doc \in [Tabs -> 0..MaxDocs]
  /\ toSay \in [Tabs -> SUBSET {"hello", "complete"}]
  /\ asked \in [Tabs -> Nat]
  /\ querying \in BOOLEAN /\ early \in BOOLEAN
  /\ sessions \in Store /\ disk \in Store /\ reading \in Store \cup {NoRead}
  /\ queue \in Seq(Msgs)
  /\ told \in [Tabs -> Nat]
  /\ nextId \in Nat \ {0} /\ kills \in Nat

\* The registries in use: in memory, in storage, and the one that is being read.
Held == {sessions, disk} \cup ({reading} \ {NoRead})

\* Ids have been given out, and no two tabs have one in any two registries.
IdsAreSpread ==
  /\ \A t \in Tabs : told[t] < nextId
  /\ \A S, R \in Held : \A t, u \in Tabs :
       S[t] # NoSession /\ R[u] # NoSession =>
         S[t].id < nextId /\ (t # u => S[t].id # R[u].id)

\* The stored sessions that are being read are not in memory yet; otherwise
\* memory and storage agree.
Restored == reading = NoRead \/ reading = NoSessions
StoreInv ==
  ~early => IF Restored THEN disk = sessions ELSE sessions = NoSessions /\ disk = reading

\* The sessions the worker has, or will have once they are restored.
Known == IF Restored THEN sessions ELSE reading

\* The events that end a document of the tab.
Barrier(t, m) == m.type \in {"loading", "removed"} /\ m.tab = t
Clear(q, t) == \A k \in 1..Len(q) : ~Barrier(t, q[k])
Later(q, t, i) == \A k \in (i + 1)..Len(q) : ~Barrier(t, q[k])

Shown(t) == doc[t] # NoDoc /\ Allowed(t, doc[t])

\* A message that speaks of the tab's present document.
SpeaksOfNow(t, m) ==
  /\ m.type = "complete" /\ m.tab = t => (Shown(t) => m.ok)
  /\ m.type \in {"hello", "frames"} /\ m.tab = t => m.doc = doc[t]
  /\ m.type = "tabs" => (Shown(t) => t \notin m.denied)

QueueInv ==
  /\ \A t \in Tabs : \A i \in 1..Len(queue) :
       Later(queue, t, i) => SpeaksOfNow(t, queue[i])
  /\ \A t \in Tabs : "complete" \in toSay[t] => doc[t] # NoDoc

\* With no barrier under way, a session lists the present document or none.
TreeInv ==
  ~early => \A t \in Tabs :
    Clear(queue, t) /\ Known[t] # NoSession => Known[t].tree \in {NoDoc, doc[t]}

\* A page that may be inspected has yet to say hello, its hello is under way, or
\* it is listed.
HelloInv ==
  ~early => \A t \in Tabs : Shown(t) =>
    \/ "hello" \in toSay[t]
    \/ \E i \in 1..Len(queue) : Later(queue, t, i) /\ queue[i] = HelloMsg(t, doc[t])
    \/ Clear(queue, t) /\ Known[t] # NoSession /\ Known[t].tree = doc[t]

------------------------------------------------------------------------------
(* The queue.                                                              *)

\* The places of a queue, and what comes later, once a message is appended.
LEMMA AppendQueue ==
  ASSUME NEW X, NEW q \in Seq(X), NEW m \in X, NEW t
  PROVE  /\ Append(q, m) \in Seq(X)
         /\ Len(q) \in Nat /\ Len(Append(q, m)) = Len(q) + 1
         /\ Append(q, m)[Len(q) + 1] = m
         /\ \A i \in 1..Len(q) : Append(q, m)[i] = q[i]
         /\ \A i \in 1..Len(q) : Later(Append(q, m), t, i) <=> Later(q, t, i) /\ ~Barrier(t, m)
         /\ Clear(Append(q, m), t) <=> Clear(q, t) /\ ~Barrier(t, m)
<1> DEFINE r == Append(q, m)
<1>1. /\ r \in Seq(X) /\ Len(q) \in Nat /\ Len(r) = Len(q) + 1 /\ r[Len(q) + 1] = m
      /\ \A i \in 1..Len(q) : r[i] = q[i]
  OBVIOUS
<1> HIDE DEF r
<1>2. \A i \in 1..Len(q) : Later(r, t, i) <=> Later(q, t, i) /\ ~Barrier(t, m)
  <2> SUFFICES ASSUME NEW i \in 1..Len(q)
               PROVE  Later(r, t, i) <=> Later(q, t, i) /\ ~Barrier(t, m)
    OBVIOUS
  <2>1. \A k : k \in (i + 1)..Len(r) <=> k \in (i + 1)..Len(q) \/ k = Len(q) + 1
    BY <1>1
  <2>2. \A k \in (i + 1)..Len(q) : r[k] = q[k]
    BY <1>1
  <2>3. QED BY <1>1, <2>1, <2>2 DEF Later
<1>3. Clear(r, t) <=> Clear(q, t) /\ ~Barrier(t, m)
  <2>1. \A k : k \in 1..Len(r) <=> k \in 1..Len(q) \/ k = Len(q) + 1
    BY <1>1
  <2>2. QED BY <1>1, <2>1 DEF Clear
<1>4. QED BY <1>1, <1>2, <1>3 DEF r

\* The places of a queue, and what comes later, once its head is taken.
LEMMA TailQueue ==
  ASSUME NEW X, NEW q \in Seq(X), q # <<>>, NEW t
  PROVE  /\ Head(q) \in X /\ Tail(q) \in Seq(X)
         /\ Head(q) = q[1] /\ 1 \in 1..Len(q)
         /\ \A i \in 1..Len(Tail(q)) :
              i + 1 \in 1..Len(q) /\ Tail(q)[i] = q[i + 1] /\ (Later(Tail(q), t, i) <=> Later(q, t, i + 1))
         /\ \A i \in 1..Len(q) : i # 1 => i - 1 \in 1..Len(Tail(q)) /\ (i - 1) + 1 = i
         /\ Later(q, t, 1) <=> Clear(Tail(q), t)
         /\ Clear(q, t) <=> Clear(Tail(q), t) /\ ~Barrier(t, Head(q))
<1> DEFINE r == Tail(q)
<1>1. /\ Head(q) \in X /\ r \in Seq(X) /\ Head(q) = q[1]
      /\ Len(q) \in Nat \ {0} /\ Len(r) = Len(q) - 1
      /\ \A i \in 1..(Len(q) - 1) : r[i] = q[i + 1]
  BY HeadTailProperties, EmptySeq
<1> HIDE DEF r
<1>2. /\ 1 \in 1..Len(q)
      /\ \A i \in 1..Len(r) : i + 1 \in 1..Len(q) /\ r[i] = q[i + 1]
      /\ \A i \in 1..Len(q) : i # 1 => i - 1 \in 1..Len(r) /\ (i - 1) + 1 = i
  BY <1>1
<1>3. \A i \in 0..Len(r) : Later(q, t, i + 1) <=> \A k \in (i + 1)..Len(r) : ~Barrier(t, r[k])
  <2> SUFFICES ASSUME NEW i \in 0..Len(r)
               PROVE  Later(q, t, i + 1) <=> \A k \in (i + 1)..Len(r) : ~Barrier(t, r[k])
    OBVIOUS
  <2>1. \A k \in (i + 1)..Len(r) : k + 1 \in (i + 1 + 1)..Len(q) /\ r[k] = q[k + 1]
    BY <1>1
  <2>2. \A k \in (i + 1 + 1)..Len(q) : k - 1 \in (i + 1)..Len(r) /\ r[k - 1] = q[k]
    <3> SUFFICES ASSUME NEW k \in (i + 1 + 1)..Len(q)
                 PROVE  k - 1 \in (i + 1)..Len(r) /\ r[k - 1] = q[k]
      OBVIOUS
    <3>1. k - 1 \in (i + 1)..Len(r) /\ k - 1 \in 1..(Len(q) - 1) /\ (k - 1) + 1 = k
      BY <1>1
    <3>2. QED BY <3>1, <1>1
  <2>3. QED BY <2>1, <2>2 DEF Later
<1>4. \A i \in 1..Len(r) : Later(r, t, i) <=> Later(q, t, i + 1)
  BY <1>1, <1>3 DEF Later
<1>5. Later(q, t, 1) <=> Clear(r, t)
  <2>1. 0 \in 0..Len(r) /\ 0 + 1 = 1
    BY <1>1
  <2>2. QED BY <2>1, <1>3 DEF Clear
<1>6. Clear(q, t) <=> Clear(r, t) /\ ~Barrier(t, q[1])
  <2>1. \A k : k \in 1..Len(q) <=> k \in (1 + 1)..Len(q) \/ k = 1
    BY <1>1
  <2>2. Clear(q, t) <=> Later(q, t, 1) /\ ~Barrier(t, q[1])
    BY <2>1 DEF Clear, Later
  <2>3. QED BY <2>2, <1>5
<1>7. QED BY <1>1, <1>2, <1>4, <1>5, <1>6 DEF r

------------------------------------------------------------------------------
(* What an operation of the store may do to the sessions and their ids.    *)

IdKept(t) == sessions[t] # NoSession /\ sessions'[t].id = sessions[t].id
Started(t) ==
  sessions[t] = NoSession /\ sessions'[t].id = nextId /\ nextId' = nextId + 1

StoreStep ==
  /\ sessions' \in Store /\ disk' \in Store /\ reading' = reading
  /\ told' \in [Tabs -> Nat] /\ nextId' \in Nat \ {0} /\ nextId' >= nextId
  /\ \A t \in Tabs : told'[t] < nextId'
  /\ disk' = sessions' \/ (sessions' = sessions /\ disk' = disk)
  /\ \A t \in Tabs : sessions'[t] # NoSession => IdKept(t) \/ Started(t)
  /\ \A t, u \in Tabs :
       /\ sessions'[t] # NoSession /\ Started(t) /\ sessions'[u] # NoSession /\ Started(u)
       => t = u

IInv == Types /\ IdsAreSpread /\ StoreInv /\ QueueInv /\ TreeInv /\ HelloInv

\* Sessions are never the values that stand for none.
LEMMA StoreFacts ==
  /\ NoSession \notin Session /\ NoRead \notin Store /\ NoSessions \in Store
  /\ \A s \in Session : s.id \in Nat \ {0} /\ s.tree \in 0..MaxDocs
<1>1. Session \subseteq [id : Nat, tree : Nat]
  BY TabAssumption DEF Session
<1>2. Store \subseteq [Tabs -> [id : Nat, tree : Nat] \cup {NoSession}]
  BY <1>1 DEF Store
<1>3. QED BY <1>1, <1>2, TabAssumption DEF Store, Session, NoSessions

\* Ids stay spread when a store operation keeps ids or gives out the next one.
LEMMA StoreStepSpreads ==
  ASSUME Types, IdsAreSpread, StoreStep
  PROVE  IdsAreSpread'
<1>1. ASSUME NEW S \in Held', NEW t \in Tabs, S[t] # NoSession
      PROVE  \/ \E Q \in Held : Q[t] # NoSession /\ Q[t].id = S[t].id
             \/ S = sessions' /\ Started(t) /\ S[t].id = nextId
  <2>1. S \in Held \/ S = sessions'
    BY <1>1 DEF Held, StoreStep
  <2>2. CASE S \in Held
    BY <2>2, <1>1
  <2>3. CASE S = sessions'
    <3>1. sessions \in Held
      BY DEF Held
    <3>2. QED BY <2>3, <1>1, <3>1 DEF StoreStep, IdKept, Started
  <2>4. QED BY <2>1, <2>2, <2>3
<1>2. ASSUME NEW S \in Held', NEW R \in Held', NEW t \in Tabs, NEW u \in Tabs,
             S[t] # NoSession, R[u] # NoSession
      PROVE  S[t].id < nextId' /\ (t # u => S[t].id # R[u].id)
  <2>1. CASE \E Q \in Held : Q[t] # NoSession /\ Q[t].id = S[t].id
    <3>1. PICK Q \in Held : Q[t] # NoSession /\ Q[t].id = S[t].id
      BY <2>1
    <3>2. Q[t].id < nextId /\ Q[t].id \in Nat
      <4>1. Q \in Store
        BY DEF Held, Types
      <4>2. Q[t] \in Session
        BY <4>1, <3>1 DEF Store
      <4>3. QED BY <3>1, <4>2, StoreFacts DEF IdsAreSpread
    <3>3. S[t].id < nextId'
      BY <3>1, <3>2 DEF StoreStep, Types
    <3>4. CASE \E P \in Held : P[u] # NoSession /\ P[u].id = R[u].id
      <4>1. PICK P \in Held : P[u] # NoSession /\ P[u].id = R[u].id
        BY <3>4
      <4>2. QED BY <4>1, <3>1, <3>3 DEF IdsAreSpread
    <3>5. CASE R[u].id = nextId
      BY <3>5, <3>1, <3>2, <3>3 DEF Types
    <3>6. QED BY <3>4, <3>5, <1>1, <1>2
  <2>2. CASE S = sessions' /\ Started(t) /\ S[t].id = nextId
    <3>1. S[t].id < nextId'
      BY <2>2 DEF Started, Types
    <3>2. CASE \E P \in Held : P[u] # NoSession /\ P[u].id = R[u].id
      <4>1. PICK P \in Held : P[u] # NoSession /\ P[u].id = R[u].id
        BY <3>2
      <4>2. P \in Store
        BY DEF Held, Types
      <4>3. P[u].id < nextId /\ P[u].id \in Nat
        <5>1. P[u] \in Session
          BY <4>2, <4>1 DEF Store
        <5>2. QED BY <4>1, <5>1, StoreFacts DEF IdsAreSpread
      <4>4. QED BY <4>1, <4>3, <3>1, <2>2 DEF Types
    <3>3. CASE R = sessions' /\ Started(u)
      BY <3>1, <3>3, <2>2, <1>2 DEF StoreStep
    <3>4. QED BY <3>2, <3>3, <1>1, <1>2
  <2>3. QED BY <2>1, <2>2, <1>1, <1>2
<1>3. \A t \in Tabs : (told[t] < nextId)'
  BY DEF StoreStep
<1>4. QED BY <1>2, <1>3 DEF IdsAreSpread

\* Whatever is saved for one tab, with its id or the next one, is a store step.
LEMMA SaveIsStep ==
  ASSUME Types, IdsAreSpread, NEW t \in Tabs, NEW S \in Store, Save(S, t),
         \A u \in Tabs : S[u] # NoSession =>
           \/ sessions[u] # NoSession /\ S[u].id = sessions[u].id
           \/ u = t /\ sessions[u] = NoSession /\ S[u].id = nextId
  PROVE  StoreStep
<1>1. sessions \in Held
  BY DEF Held
<1>2. \A u \in Tabs : sessions[u] # NoSession => sessions[u].id < nextId /\ sessions[u].id \in Nat
  <2> SUFFICES ASSUME NEW u \in Tabs, sessions[u] # NoSession
               PROVE  sessions[u].id < nextId /\ sessions[u].id \in Nat
    OBVIOUS
  <2>1. sessions[u] \in Session
    BY DEF Types, Store
  <2>2. QED BY <1>1, <2>1, StoreFacts DEF IdsAreSpread
<1>3. nextId \in Nat \ {0} /\ told \in [Tabs -> Nat] /\ \A u \in Tabs : told[u] < nextId
  BY DEF Types, IdsAreSpread
<1>4. CASE S[t] = NoSession
  BY <1>4, <1>2, <1>3 DEF Save, StoreStep, IdKept, Started
<1>5. CASE S[t] # NoSession /\ sessions[t] # NoSession
  <2>1. S[t].id < nextId /\ S[t].id \in Nat
    BY <1>5, <1>2
  <2>2. told' = [told EXCEPT ![t] = S[t].id] /\ nextId' = nextId
    BY <1>5, <2>1, <1>3 DEF Save
  <2>3. told' \in [Tabs -> Nat] /\ \A u \in Tabs : told'[u] < nextId'
    BY <2>1, <2>2, <1>3
  <2>4. QED BY <1>5, <2>2, <2>3, <1>3 DEF Save, StoreStep, IdKept, Started
<1>6. CASE S[t] # NoSession /\ sessions[t] = NoSession
  <2>1. S[t].id = nextId
    BY <1>6
  <2>2. told' = [told EXCEPT ![t] = nextId] /\ nextId' = nextId + 1
    BY <1>6, <2>1 DEF Save
  <2>3. told' \in [Tabs -> Nat] /\ \A u \in Tabs : told'[u] < nextId'
    BY <2>1, <2>2, <1>3
  <2>4. QED BY <1>6, <2>2, <2>3, <1>3 DEF Save, StoreStep, IdKept, Started
<1>7. QED BY <1>4, <1>5, <1>6

\* What the operations of the store do to a tab's session and its frame tree.
LEMMA EnsuredIs ==
  ASSUME Types, NEW t \in Tabs
  PROVE  /\ Ensured(t) \in Store /\ Ensured(t)[t] # NoSession
         /\ sessions[t] # NoSession => Ensured(t) = sessions
         /\ sessions[t] = NoSession =>
              Ensured(t)[t].id = nextId /\ Ensured(t)[t].tree = NoDoc
         /\ \A u \in Tabs \ {t} : Ensured(t)[u] = sessions[u]
<1>1. [id |-> nextId, tree |-> NoDoc] \in Session
  BY TabAssumption DEF Types, Session, NoDoc
<1>2. sessions \in Store
  BY DEF Types
<1>3. QED BY <1>1, <1>2, StoreFacts DEF Ensured, Store

\* ensure gives a tab a session, with the id it has or a new one.
LEMMA EnsureStep ==
  ASSUME Types, IdsAreSpread, NEW t \in Tabs, ensure(t)
  PROVE  /\ StoreStep
         /\ sessions'[t] # NoSession
         /\ IF sessions[t] # NoSession THEN sessions'[t] = sessions[t]
            ELSE sessions'[t].tree = NoDoc
         /\ \A u \in Tabs \ {t} : sessions'[u] = sessions[u]
<1>1. CASE sessions[t] = NoSession
  <2>1. Save(Ensured(t), t)
    BY <1>1 DEF ensure
  <2>2. StoreStep
    BY <2>1, <1>1, EnsuredIs, SaveIsStep
  <2>3. QED BY <2>1, <2>2, <1>1, EnsuredIs DEF Save
<1>2. CASE sessions[t] # NoSession
  <2>1. StoreStep
    BY <1>2 DEF ensure, storeVars, StoreStep, Types, IdsAreSpread, IdKept, Started
  <2>2. QED BY <1>2, <2>1 DEF ensure, storeVars
<1>3. QED BY <1>1, <1>2

\* updateFrameTree gives the session of a tab its tree.
LEMMA UpdateStep ==
  ASSUME Types, IdsAreSpread, NEW t \in Tabs, NEW d \in 0..MaxDocs, updateFrameTree(t, d)
  PROVE  /\ StoreStep
         /\ sessions'[t] # NoSession /\ sessions'[t].tree = d
         /\ \A u \in Tabs \ {t} : sessions'[u] = sessions[u]
<1> DEFINE E == Ensured(t)
           S == [E EXCEPT ![t].tree = d]
<1>1. /\ E \in Store /\ E[t] # NoSession
      /\ sessions[t] # NoSession => E = sessions
      /\ sessions[t] = NoSession => E[t].id = nextId
      /\ \A u \in Tabs \ {t} : E[u] = sessions[u]
  BY EnsuredIs
<1>2. Save(S, t)
  BY DEF updateFrameTree
<1> HIDE DEF E
<1>3. E[t] \in Session
  BY <1>1 DEF Store
<1>4. [E[t] EXCEPT !.tree = d] \in Session /\ [E[t] EXCEPT !.tree = d].id = E[t].id
      /\ [E[t] EXCEPT !.tree = d].tree = d
  BY <1>3 DEF Session
<1>5. /\ S \in Store /\ S[t] = [E[t] EXCEPT !.tree = d]
      /\ \A u \in Tabs \ {t} : S[u] = E[u]
  BY <1>1, <1>4 DEF Store
<1> HIDE DEF S
<1>6. S[t] # NoSession /\ S[t].tree = d /\ S[t].id = E[t].id
  BY <1>4, <1>5, StoreFacts
<1>7. \A u \in Tabs : S[u] # NoSession =>
        \/ sessions[u] # NoSession /\ S[u].id = sessions[u].id
        \/ u = t /\ sessions[u] = NoSession /\ S[u].id = nextId
  BY <1>1, <1>5, <1>6
<1>8. StoreStep
  BY <1>2, <1>5, <1>7, SaveIsStep
<1>9. QED BY <1>1, <1>2, <1>5, <1>6, <1>8 DEF Save

\* resetForReload keeps the session and empties its tree.
LEMMA ResetStep ==
  ASSUME Types, IdsAreSpread, NEW t \in Tabs, resetForReload(t)
  PROVE  /\ StoreStep
         /\ sessions'[t] # NoSession => sessions'[t].tree = NoDoc
         /\ \A u \in Tabs \ {t} : sessions'[u] = sessions[u]
<1>1. CASE sessions[t] = NoSession
  <2>1. StoreStep
    BY <1>1 DEF resetForReload, storeVars, StoreStep, Types, IdsAreSpread, IdKept, Started
  <2>2. QED BY <1>1, <2>1 DEF resetForReload, storeVars
<1>2. CASE sessions[t] # NoSession
  <2> DEFINE S == [sessions EXCEPT ![t].tree = NoDoc]
             s == [sessions[t] EXCEPT !.tree = NoDoc]
  <2>1. Save(S, t)
    BY <1>2 DEF resetForReload
  <2>2. sessions \in Store /\ sessions[t] \in Session
    BY <1>2 DEF Types, Store
  <2>3. s \in Session /\ s.id = sessions[t].id /\ s.tree = NoDoc
    BY <2>2, TabAssumption DEF Session, NoDoc
  <2>4. /\ S \in Store /\ S[t] = s
        /\ \A u \in Tabs \ {t} : S[u] = sessions[u]
    BY <2>2, <2>3 DEF Store
  <2> HIDE DEF S, s
  <2>5. StoreStep
    BY <1>2, <2>1, <2>3, <2>4, SaveIsStep
  <2>6. QED BY <2>1, <2>3, <2>4, <2>5 DEF Save
<1>3. QED BY <1>1, <1>2

\* remove takes the sessions of some tabs.
LEMMA RemoveStep ==
  ASSUME Types, IdsAreSpread, NEW T \in SUBSET Tabs, remove(T)
  PROVE  /\ StoreStep
         /\ \A u \in T : sessions'[u] = NoSession
         /\ \A u \in Tabs \ T : sessions'[u] = sessions[u]
<1>1. CASE \A t \in T : sessions[t] = NoSession
  <2>1. StoreStep
    BY <1>1 DEF remove, storeVars, StoreStep, Types, IdsAreSpread, IdKept, Started
  <2>2. QED BY <1>1, <2>1 DEF remove, storeVars
<1>2. CASE ~ \A t \in T : sessions[t] = NoSession
  <2>1. /\ sessions' = [t \in Tabs |-> IF t \in T THEN NoSession ELSE sessions[t]]
        /\ disk' = sessions' /\ UNCHANGED <<reading, told, nextId>>
    BY <1>2 DEF remove
  <2>2. sessions' \in Store
    BY <2>1 DEF Types, Store
  <2>3. StoreStep
    BY <2>1, <2>2 DEF StoreStep, Types, IdsAreSpread, IdKept, Started
  <2>4. QED BY <2>1, <2>3
<1>3. QED BY <1>1, <1>2

------------------------------------------------------------------------------
(* A handler takes the first message of the queue.                         *)

Fine(t) == sessions[t] # NoSession => sessions[t].tree \in {NoDoc, doc[t]}
Listed(t) == sessions[t] # NoSession /\ sessions[t].tree = doc[t]

\* What handling message m has to do for tab t.
Does(t, m) ==
  Barrier(t, m) \/ Fine(t) =>
    /\ Fine(t)'
    /\ Shown(t) /\ (m = HelloMsg(t, doc[t]) \/ (~Barrier(t, m) /\ Listed(t))) => Listed(t)'

\* What a handler knows of its message.
LEMMA ReceiveFacts ==
  ASSUME IInv, NEW type, Receive(type)
  PROVE  /\ queue # <<>> /\ queue \in Seq(Msgs) /\ queue' = Tail(queue) /\ queue' \in Seq(Msgs)
         /\ Head(queue) \in Msgs /\ Head(queue).type = type
         /\ early' \in BOOLEAN /\ (~early' => ~early /\ Restored)
         /\ QueueInv'
         /\ \A t \in Tabs : Clear(queue', t) => SpeaksOfNow(t, Head(queue))
<1>1. /\ queue # <<>> /\ Head(queue).type = type /\ queue' = Tail(queue) /\ Handle
      /\ doc' = doc /\ allowed' = allowed /\ toSay' = toSay /\ kills' = kills
  BY DEF Receive
<1>2. queue \in Seq(Msgs)
  BY DEF IInv, Types
<1>3. Head(queue) \in Msgs /\ Tail(queue) \in Seq(Msgs)
  BY <1>1, <1>2, HeadTailProperties
<1>4. early' \in BOOLEAN /\ (~early' => ~early /\ Restored)
  BY <1>1 DEF Handle, Restored, IInv, Types
<1>5. \A t \in Tabs : Clear(queue', t) => SpeaksOfNow(t, Head(queue))
  <2> SUFFICES ASSUME NEW t \in Tabs, Clear(queue', t)
               PROVE  SpeaksOfNow(t, Head(queue))
    OBVIOUS
  <2>1. Later(queue, t, 1) /\ Head(queue) = queue[1] /\ 1 \in 1..Len(queue)
    BY <1>1, <1>2, TailQueue
  <2>2. QED BY <2>1 DEF IInv, QueueInv
<1>6. QueueInv'
  <2>1. ASSUME NEW t \in Tabs, NEW i \in 1..Len(queue'), Later(queue', t, i)
        PROVE  SpeaksOfNow(t, queue'[i])
    <3>1. i + 1 \in 1..Len(queue) /\ queue'[i] = queue[i + 1] /\ Later(queue, t, i + 1)
      BY <1>1, <1>2, <2>1, TailQueue
    <3>2. SpeaksOfNow(t, queue[i + 1])
      BY <3>1 DEF IInv, QueueInv
    <3>3. QED BY <3>1, <3>2
  <2>2. \A t \in Tabs : ("complete" \in toSay[t] => doc[t] # NoDoc)'
    BY <1>1 DEF IInv, QueueInv
  <2>3. QED BY <2>1, <2>2, <1>1 DEF QueueInv, SpeaksOfNow, Shown, Allowed, Later, Barrier
<1>7. QED BY <1>1, <1>2, <1>3, <1>4, <1>5, <1>6

\* A handler that makes a store step and does what its message says of every tab
\* keeps the invariant.
LEMMA HandlerKeeps ==
  ASSUME IInv, NEW type, Receive(type), StoreStep, asked' \in [Tabs -> Nat], querying' = querying,
         \A t \in Tabs : SpeaksOfNow(t, Head(queue)) => Does(t, Head(queue))
  PROVE  IInv'
<1>1. /\ queue # <<>> /\ queue \in Seq(Msgs) /\ queue' = Tail(queue) /\ queue' \in Seq(Msgs)
      /\ early' \in BOOLEAN /\ (~early' => ~early /\ Restored)
      /\ QueueInv'
      /\ \A t \in Tabs : Clear(queue', t) => SpeaksOfNow(t, Head(queue))
  BY ReceiveFacts
<1>2. /\ doc' = doc /\ allowed' = allowed /\ toSay' = toSay /\ kills' = kills
  BY DEF Receive
<1>3. Types'
  BY <1>1, <1>2 DEF IInv, Types, StoreStep
<1>4. IdsAreSpread'
  BY StoreStepSpreads DEF IInv
<1>5. StoreInv'
  BY <1>1 DEF IInv, StoreInv, Restored, StoreStep
<1>6. ~early' => ~early /\ Known = sessions /\ Known' = sessions'
  BY <1>1 DEF Known, Restored, StoreStep
<1>7. ASSUME ~early', NEW t \in Tabs
      PROVE  Clear(queue', t) => Barrier(t, Head(queue)) \/ Fine(t)
  <2> SUFFICES ASSUME Clear(queue', t), ~Barrier(t, Head(queue))
               PROVE  Fine(t)
    OBVIOUS
  <2>1. Clear(queue, t)
    BY <1>1, TailQueue
  <2>2. QED BY <2>1, <1>6, <1>7 DEF IInv, TreeInv, Fine
<1>8. TreeInv'
  <2> SUFFICES ASSUME ~early', NEW t \in Tabs, Clear(queue', t), Known'[t] # NoSession
               PROVE  Known'[t].tree \in {NoDoc, doc'[t]}
    BY DEF TreeInv, Clear, Barrier
  <2>1. Does(t, Head(queue))
    BY <1>1
  <2>2. Fine(t)'
    BY <2>1, <1>7 DEF Does
  <2>3. QED BY <2>2, <1>6 DEF Fine
<1>9. HelloInv'
  <2> SUFFICES ASSUME ~early', NEW t \in Tabs, Shown(t), "hello" \notin toSay[t]
               PROVE  \/ \E i \in 1..Len(queue') :
                            Later(queue', t, i) /\ queue'[i] = HelloMsg(t, doc[t])
                      \/ Clear(queue', t) /\ Known'[t] # NoSession /\ Known'[t].tree = doc[t]
    BY <1>2 DEF HelloInv, Shown, Allowed, Clear, Later, Barrier, HelloMsg
  <2>1. \/ \E i \in 1..Len(queue) : Later(queue, t, i) /\ queue[i] = HelloMsg(t, doc[t])
        \/ Clear(queue, t) /\ Known[t] # NoSession /\ Known[t].tree = doc[t]
    BY <1>6 DEF IInv, HelloInv
  <2>2. CASE \E i \in 1..Len(queue) :
               i # 1 /\ Later(queue, t, i) /\ queue[i] = HelloMsg(t, doc[t])
    <3>1. PICK i \in 1..Len(queue) :
            i # 1 /\ Later(queue, t, i) /\ queue[i] = HelloMsg(t, doc[t])
      BY <2>2
    <3>2. i - 1 \in 1..Len(queue') /\ (i - 1) + 1 = i
      BY <3>1, <1>1, TailQueue
    <3>3. queue'[i - 1] = queue[(i - 1) + 1] /\ (Later(queue', t, i - 1) <=> Later(queue, t, (i - 1) + 1))
      BY <3>2, <1>1, TailQueue
    <3>4. QED BY <3>1, <3>2, <3>3
  <2>3. CASE \/ Later(queue, t, 1) /\ queue[1] = HelloMsg(t, doc[t])
             \/ Clear(queue, t) /\ Known[t] # NoSession /\ Known[t].tree = doc[t]
    <3>1. /\ Clear(queue', t)
          /\ \/ Head(queue) = HelloMsg(t, doc[t])
             \/ ~Barrier(t, Head(queue)) /\ Listed(t)
      <4>1. /\ Head(queue) = queue[1]
            /\ Later(queue, t, 1) <=> Clear(queue', t)
            /\ Clear(queue, t) <=> Clear(queue', t) /\ ~Barrier(t, Head(queue))
        BY <1>1, TailQueue
      <4>2. QED BY <4>1, <2>3, <1>6 DEF Listed
    <3>2. Does(t, Head(queue))
      BY <3>1, <1>1
    <3>3. Listed(t)'
      BY <3>1, <3>2, <1>7 DEF Does
    <3>4. QED BY <3>1, <3>3, <1>2, <1>6 DEF Listed
  <2>4. QED BY <2>1, <2>2, <2>3
<1>10. QED BY <1>1, <1>3, <1>4, <1>5, <1>8, <1>9 DEF IInv

\* What a message of each type carries.
LEMMA MsgFacts ==
  ASSUME NEW m \in Msgs
  PROVE  /\ m.type \in {"loading", "removed"} => m.tab \in Tabs
         /\ m.type = "complete" => m.tab \in Tabs /\ m.ok \in BOOLEAN
         /\ m.type \in {"hello", "frames"} => m.tab \in Tabs /\ m.doc \in 0..MaxDocs
         /\ m.type = "tabs" => m.denied \in SUBSET Tabs
BY DEF Msgs

\* The reset at a loading tab is the barrier the invariant speaks of.
LEMMA LoadingKeeps ==
  ASSUME IInv, HandleLoading
  PROVE  StoreStep /\ IInv'
<1> DEFINE m == Head(queue)
<1>1. /\ Receive("loading") /\ resetForReload(m.tab) /\ asked' = asked /\ querying' = querying
  BY DEF HandleLoading
<1>2. m \in Msgs /\ m.type = "loading"
  BY <1>1, ReceiveFacts
<1> HIDE DEF m
<1>3. m.tab \in Tabs
  BY <1>2, MsgFacts
<1>4. /\ StoreStep
      /\ sessions'[m.tab] # NoSession => sessions'[m.tab].tree = NoDoc
      /\ \A u \in Tabs \ {m.tab} : sessions'[u] = sessions[u]
  BY <1>1, <1>3, ResetStep DEF IInv
<1>5. ASSUME NEW t \in Tabs
      PROVE  Does(t, m)
  <2>1. doc' = doc /\ (Barrier(t, m) <=> m.tab = t) /\ m # HelloMsg(t, doc[t])
    BY <1>1, <1>2 DEF Receive, Barrier, HelloMsg
  <2>2. QED BY <2>1, <1>4 DEF Does, Fine, Listed
<1>6. asked' \in [Tabs -> Nat]
  BY <1>1 DEF IInv, Types
<1>7. QED BY <1>1, <1>4, <1>5, <1>6, HandlerKeeps DEF m

\* A completed load ensures a session and asks for the frames.
LEMMA CompleteKeeps ==
  ASSUME IInv, HandleComplete
  PROVE  StoreStep /\ IInv'
<1> DEFINE m == Head(queue)
<1>1. /\ Receive("complete") /\ querying' = querying
      /\ IF m.ok THEN ensure(m.tab) /\ asked' = [asked EXCEPT ![m.tab] = @ + 1]
         ELSE remove({m.tab}) /\ asked' = asked
  BY DEF HandleComplete
<1>2. m \in Msgs /\ m.type = "complete"
  BY <1>1, ReceiveFacts
<1> HIDE DEF m
<1>3. m.tab \in Tabs /\ m.ok \in BOOLEAN
  BY <1>2, MsgFacts
<1>4. asked' \in [Tabs -> Nat]
  <2>1. asked \in [Tabs -> Nat]
    BY DEF IInv, Types
  <2>2. [asked EXCEPT ![m.tab] = @ + 1] \in [Tabs -> Nat]
    BY <2>1, <1>3
  <2>3. QED BY <2>1, <2>2, <1>1
<1>5. ASSUME NEW t \in Tabs
      PROVE  doc' = doc /\ ~Barrier(t, m) /\ m # HelloMsg(t, doc[t])
  BY <1>1, <1>2 DEF Receive, Barrier, HelloMsg
<1>6. CASE m.ok
  <2>1. /\ StoreStep
        /\ IF sessions[m.tab] # NoSession THEN sessions'[m.tab] = sessions[m.tab]
           ELSE sessions'[m.tab].tree = NoDoc
        /\ \A u \in Tabs \ {m.tab} : sessions'[u] = sessions[u]
    BY <1>1, <1>3, <1>6, EnsureStep DEF IInv
  <2>2. \A t \in Tabs : Does(t, m)
    BY <2>1, <1>5 DEF Does, Fine, Listed
  <2>3. QED BY <1>1, <1>4, <2>1, <2>2, HandlerKeeps DEF m
<1>7. CASE ~m.ok
  <2>1. /\ StoreStep
        /\ sessions'[m.tab] = NoSession
        /\ \A u \in Tabs \ {m.tab} : sessions'[u] = sessions[u]
    <3>1. {m.tab} \in SUBSET Tabs /\ remove({m.tab})
      BY <1>1, <1>3, <1>7
    <3>2. QED BY <3>1, RemoveStep DEF IInv
  <2>2. \A t \in Tabs : SpeaksOfNow(t, m) => Does(t, m)
    BY <2>1, <1>2, <1>5, <1>7 DEF Does, Fine, Listed, SpeaksOfNow
  <2>3. QED BY <1>1, <1>4, <2>1, <2>2, HandlerKeeps DEF m
<1>8. QED BY <1>3, <1>6, <1>7

\* An answer about frames is of the document its tab has, or is behind a barrier.
LEMMA FramesKeeps ==
  ASSUME IInv, HandleFrames
  PROVE  StoreStep /\ IInv'
<1> DEFINE m == Head(queue)
<1>1. Receive("frames") /\ updateFrameTree(m.tab, m.doc) /\ asked' = asked /\ querying' = querying
  BY DEF HandleFrames
<1>2. m \in Msgs /\ m.type = "frames"
  BY <1>1, ReceiveFacts
<1> HIDE DEF m
<1>3. m.tab \in Tabs /\ m.doc \in 0..MaxDocs
  BY <1>2, MsgFacts
<1>4. /\ StoreStep
      /\ sessions'[m.tab] # NoSession /\ sessions'[m.tab].tree = m.doc
      /\ \A u \in Tabs \ {m.tab} : sessions'[u] = sessions[u]
  BY <1>1, <1>3, UpdateStep DEF IInv
<1>5. ASSUME NEW t \in Tabs, SpeaksOfNow(t, m)
      PROVE  Does(t, m)
  <2>1. doc' = doc /\ ~Barrier(t, m) /\ m # HelloMsg(t, doc[t])
    BY <1>1, <1>2 DEF Receive, Barrier, HelloMsg
  <2>2. m.tab = t => m.doc = doc[t]
    BY <1>2, <1>5 DEF SpeaksOfNow
  <2>3. QED BY <2>1, <2>2, <1>4 DEF Does, Fine, Listed
<1>6. asked' \in [Tabs -> Nat]
  BY <1>1 DEF IInv, Types
<1>7. QED BY <1>1, <1>4, <1>5, <1>6, HandlerKeeps DEF m

\* A hello gives the tab a tree of its document, unless it has one.
LEMMA HelloKeeps ==
  ASSUME IInv, handleFrameHello
  PROVE  StoreStep /\ IInv'
<1> DEFINE m == Head(queue)
<1>1. /\ Receive("hello") /\ asked' = asked /\ querying' = querying
      /\ IF sessions[m.tab] = NoSession \/ sessions[m.tab].tree = NoDoc
         THEN updateFrameTree(m.tab, m.doc) ELSE UNCHANGED storeVars
  BY DEF handleFrameHello
<1>2. m \in Msgs /\ m.type = "hello"
  BY <1>1, ReceiveFacts
<1> HIDE DEF m
<1>3. m.tab \in Tabs /\ m.doc \in 0..MaxDocs
  BY <1>2, MsgFacts
<1>4. asked' \in [Tabs -> Nat]
  BY <1>1 DEF IInv, Types
<1>5. ASSUME NEW t \in Tabs, SpeaksOfNow(t, m)
      PROVE  /\ doc' = doc /\ ~Barrier(t, m) /\ (m = HelloMsg(t, doc[t]) => m.tab = t)
             /\ m.tab = t => m.doc = doc[t]
  BY <1>1, <1>2, <1>5 DEF Receive, Barrier, HelloMsg, SpeaksOfNow
<1>6. CASE sessions[m.tab] = NoSession \/ sessions[m.tab].tree = NoDoc
  <2>1. /\ StoreStep
        /\ sessions'[m.tab] # NoSession /\ sessions'[m.tab].tree = m.doc
        /\ \A u \in Tabs \ {m.tab} : sessions'[u] = sessions[u]
    BY <1>1, <1>3, <1>6, UpdateStep DEF IInv
  <2>2. \A t \in Tabs : SpeaksOfNow(t, m) => Does(t, m)
    BY <2>1, <1>5 DEF Does, Fine, Listed
  <2>3. QED BY <1>1, <1>4, <2>1, <2>2, HandlerKeeps DEF m
<1>7. CASE sessions[m.tab] # NoSession /\ sessions[m.tab].tree # NoDoc
  <2>1. UNCHANGED storeVars
    BY <1>1, <1>7
  <2>2. StoreStep
    BY <2>1 DEF storeVars, StoreStep, IInv, Types, IdsAreSpread, IdKept, Started
  <2>3. \A t \in Tabs : SpeaksOfNow(t, m) => Does(t, m)
    BY <2>1, <1>5, <1>7 DEF storeVars, Does, Fine, Listed
  <2>4. QED BY <1>1, <1>4, <2>2, <2>3, HandlerKeeps DEF m
<1>8. QED BY <1>6, <1>7

\* The removal of a tab is a barrier too.
LEMMA RemovedKeeps ==
  ASSUME IInv, HandleRemoved
  PROVE  StoreStep /\ IInv'
<1> DEFINE m == Head(queue)
<1>1. Receive("removed") /\ remove({m.tab}) /\ asked' = asked /\ querying' = querying
  BY DEF HandleRemoved
<1>2. m \in Msgs /\ m.type = "removed"
  BY <1>1, ReceiveFacts
<1> HIDE DEF m
<1>3. {m.tab} \in SUBSET Tabs
  BY <1>2, MsgFacts
<1>4. /\ StoreStep
      /\ sessions'[m.tab] = NoSession
      /\ \A u \in Tabs \ {m.tab} : sessions'[u] = sessions[u]
  BY <1>1, <1>3, RemoveStep DEF IInv
<1>5. ASSUME NEW t \in Tabs
      PROVE  Does(t, m)
  <2>1. doc' = doc /\ (Barrier(t, m) <=> m.tab = t) /\ m # HelloMsg(t, doc[t])
    BY <1>1, <1>2 DEF Receive, Barrier, HelloMsg
  <2>2. QED BY <2>1, <1>4 DEF Does, Fine, Listed
<1>6. asked' \in [Tabs -> Nat]
  BY <1>1 DEF IInv, Types
<1>7. QED BY <1>1, <1>4, <1>5, <1>6, HandlerKeeps DEF m

\* At start the sessions of tabs without access are removed.
LEMMA OpenTabsKeeps ==
  ASSUME IInv, InjectOpenTabs
  PROVE  StoreStep /\ IInv'
<1> DEFINE m == Head(queue)
<1>1. Receive("tabs") /\ remove(m.denied) /\ asked' = asked /\ querying' = querying
  BY DEF InjectOpenTabs
<1>2. m \in Msgs /\ m.type = "tabs"
  BY <1>1, ReceiveFacts
<1> HIDE DEF m
<1>3. m.denied \in SUBSET Tabs
  BY <1>2, MsgFacts
<1>4. /\ StoreStep
      /\ \A u \in m.denied : sessions'[u] = NoSession
      /\ \A u \in Tabs \ m.denied : sessions'[u] = sessions[u]
  BY <1>1, <1>3, RemoveStep DEF IInv
<1>5. ASSUME NEW t \in Tabs, SpeaksOfNow(t, m)
      PROVE  Does(t, m)
  <2>1. doc' = doc /\ ~Barrier(t, m) /\ m # HelloMsg(t, doc[t])
    BY <1>1, <1>2 DEF Receive, Barrier, HelloMsg
  <2>2. Shown(t) => t \notin m.denied
    BY <1>2, <1>5 DEF SpeaksOfNow
  <2>3. QED BY <2>1, <2>2, <1>4 DEF Does, Fine, Listed
<1>6. asked' \in [Tabs -> Nat]
  BY <1>1 DEF IInv, Types
<1>7. QED BY <1>1, <1>4, <1>5, <1>6, HandlerKeeps DEF m

------------------------------------------------------------------------------
(* The steps that take no message.                                         *)

\* A step of the browser queues a message that speaks of the page as it is
\* now; what begins or ends a document is a barrier.
LEMMA BrowserKeeps ==
  ASSUME IInv, NEW m \in Msgs, queue' = Append(queue, m),
         UNCHANGED <<allowed, storeVars, early, kills>>,
         doc' \in [Tabs -> 0..MaxDocs], toSay' \in [Tabs -> SUBSET {"hello", "complete"}],
         asked' \in [Tabs -> Nat], querying' \in BOOLEAN,
         \A t \in Tabs : doc'[t] = doc[t] \/ Barrier(t, m),
         \A t \in Tabs : SpeaksOfNow(t, m)',
         \A t \in Tabs : "complete" \in toSay'[t] => doc'[t] # NoDoc,
         \A t \in Tabs : Shown(t)' =>
           \/ "hello" \in toSay'[t] \/ m = HelloMsg(t, doc'[t])
           \/ ~Barrier(t, m) /\ "hello" \notin toSay[t]
  PROVE  IInv'
<1>1. /\ allowed' = allowed /\ sessions' = sessions /\ disk' = disk /\ reading' = reading
      /\ told' = told /\ nextId' = nextId /\ early' = early /\ kills' = kills
  BY DEF storeVars
<1>2. queue \in Seq(Msgs)
  BY DEF IInv, Types
<1>3. /\ queue' \in Seq(Msgs) /\ Len(queue) \in Nat /\ Len(queue') = Len(queue) + 1
      /\ queue'[Len(queue) + 1] = m
      /\ \A i \in 1..Len(queue) : queue'[i] = queue[i]
      /\ \A t \in Tabs, i \in 1..Len(queue) : Later(queue', t, i) <=> Later(queue, t, i) /\ ~Barrier(t, m)
      /\ \A t \in Tabs : Clear(queue', t) <=> Clear(queue, t) /\ ~Barrier(t, m)
  BY <1>2, AppendQueue
<1>4. Types'
  BY <1>1, <1>3 DEF IInv, Types
<1>5. IdsAreSpread'
  BY <1>1 DEF IInv, IdsAreSpread, Held
<1>6. StoreInv'
  BY <1>1 DEF IInv, StoreInv, Restored
<1>7. Known' = Known
  BY <1>1 DEF Known, Restored
<1>8. \A i : i \in 1..Len(queue') <=> i \in 1..Len(queue) \/ i = Len(queue) + 1
  BY <1>3
<1>9. QueueInv'
  <2>1. ASSUME NEW t \in Tabs, NEW i \in 1..Len(queue'), Later(queue', t, i)
        PROVE  \E n \in Msgs : n = queue'[i] /\ SpeaksOfNow(t, n)'
    <3>1. CASE i = Len(queue) + 1
      BY <3>1, <1>3
    <3>2. CASE i \in 1..Len(queue)
      <4>1. Later(queue, t, i) /\ ~Barrier(t, m) /\ queue'[i] = queue[i] /\ queue[i] \in Msgs
        BY <3>2, <2>1, <1>2, <1>3
      <4>2. SpeaksOfNow(t, queue[i]) /\ doc'[t] = doc[t]
        BY <4>1, <3>2 DEF IInv, QueueInv
      <4>3. QED BY <4>1, <4>2, <1>1 DEF SpeaksOfNow, Shown, Allowed
    <3>3. QED BY <3>1, <3>2, <1>8
  <2>2. QED BY <2>1 DEF QueueInv, SpeaksOfNow, Shown, Allowed, Later, Barrier
<1>10. TreeInv'
  <2> SUFFICES ASSUME ~early, NEW t \in Tabs, Clear(queue', t), Known[t] # NoSession
               PROVE  Known[t].tree \in {NoDoc, doc'[t]}
    BY <1>1, <1>7 DEF TreeInv, Clear, Barrier
  <2>1. QED BY <1>3 DEF IInv, TreeInv
<1>11. HelloInv'
  <2> SUFFICES ASSUME ~early, NEW t \in Tabs, Shown(t)', "hello" \notin toSay'[t]
               PROVE  \/ \E i \in 1..Len(queue') :
                            Later(queue', t, i) /\ queue'[i] = HelloMsg(t, doc'[t])
                      \/ Clear(queue', t) /\ Known[t] # NoSession /\ Known[t].tree = doc'[t]
    <3>1. HelloInv' <=>
            (~early' => \A t \in Tabs : Shown(t)' =>
               \/ "hello" \in toSay'[t]
               \/ \E i \in 1..Len(queue') :
                    Later(queue', t, i) /\ queue'[i] = HelloMsg(t, doc'[t])
               \/ Clear(queue', t) /\ Known'[t] # NoSession /\ Known'[t].tree = doc'[t])
      BY DEF HelloInv, Clear, Later, Barrier, HelloMsg
    <3>2. QED BY <3>1, <1>1, <1>7
  <2>1. CASE m = HelloMsg(t, doc'[t])
    <3>1. Later(queue', t, Len(queue) + 1)
      BY <1>3 DEF Later
    <3>2. QED BY <2>1, <3>1, <1>3, <1>8
  <2>2. CASE ~Barrier(t, m) /\ "hello" \notin toSay[t]
    <3>1. doc'[t] = doc[t] /\ Shown(t)
      BY <2>2, <1>1 DEF Shown, Allowed
    <3>2. \/ \E i \in 1..Len(queue) : Later(queue, t, i) /\ queue[i] = HelloMsg(t, doc[t])
          \/ Clear(queue, t) /\ Known[t] # NoSession /\ Known[t].tree = doc[t]
      BY <2>2, <3>1 DEF IInv, HelloInv
    <3>3. QED BY <2>2, <3>1, <3>2, <1>3, <1>8
  <2>3. QED BY <2>1, <2>2
<1>12. QED BY <1>4, <1>5, <1>6, <1>9, <1>10, <1>11 DEF IInv

\* A navigation sends a barrier, and with it the document changes.
LEMMA NavigateKeeps ==
  ASSUME IInv, NEW t \in Tabs, Navigate(t)
  PROVE  IInv'
<1>1. PICK m \in Msgs : m = LoadingMsg(t)
  BY DEF Msgs, LoadingMsg
<1>2. /\ queue' = Append(queue, m) /\ doc[t] \in 1..(MaxDocs - 1)
      /\ doc' = [doc EXCEPT ![t] = @ + 1]
      /\ toSay' = [toSay EXCEPT ![t] = IF Allowed(t, doc[t] + 1)
                                        THEN {"hello", "complete"} ELSE {"complete"}]
      /\ UNCHANGED <<allowed, asked, querying, storeVars, early, kills>>
  BY <1>1 DEF Navigate, Send
<1>3. m.type = "loading" /\ m.tab = t
  BY <1>1 DEF LoadingMsg
<1>4. doc \in [Tabs -> 0..MaxDocs] /\ toSay \in [Tabs -> SUBSET {"hello", "complete"}]
      /\ asked \in [Tabs -> Nat] /\ querying \in BOOLEAN
  BY DEF IInv, Types
<1>5. doc[t] + 1 \in 0..MaxDocs /\ doc[t] + 1 # 0
  BY <1>2, TabAssumption
<1>6. doc' \in [Tabs -> 0..MaxDocs] /\ toSay' \in [Tabs -> SUBSET {"hello", "complete"}]
  BY <1>2, <1>4, <1>5
<1>7. \A u \in Tabs : Barrier(u, m) <=> u = t
  BY <1>3 DEF Barrier
<1>8. \A u \in Tabs : SpeaksOfNow(u, m)'
  BY <1>3 DEF SpeaksOfNow
<1>9. \A u \in Tabs : "complete" \in toSay'[u] => doc'[u] # NoDoc
  BY <1>2, <1>4, <1>5 DEF IInv, QueueInv, NoDoc
<1>10. ASSUME NEW u \in Tabs, Shown(u)'
       PROVE  "hello" \in toSay'[u] \/ (~Barrier(u, m) /\ "hello" \notin toSay[u])
  <2>1. CASE u = t
    <3>1. doc'[u] = doc[t] + 1 /\ allowed' = allowed
      BY <2>1, <1>2, <1>4
    <3>2. Allowed(t, doc[t] + 1)
      BY <2>1, <3>1, <1>10 DEF Shown, Allowed
    <3>3. QED BY <2>1, <3>2, <1>2, <1>4
  <2>2. CASE u # t
    BY <2>2, <1>2, <1>4, <1>7
  <2>3. QED BY <2>1, <2>2
<1>11. /\ asked' \in [Tabs -> Nat] /\ querying' \in BOOLEAN
       /\ \A u \in Tabs : doc'[u] = doc[u] \/ Barrier(u, m)
       /\ UNCHANGED <<allowed, storeVars, early, kills>>
  BY <1>2, <1>4, <1>7
<1>12. QED BY <1>2, <1>6, <1>8, <1>9, <1>10, <1>11, BrowserKeeps

\* A hello names the document that says it.
LEMMA SayHelloKeeps ==
  ASSUME IInv, NEW t \in Tabs, SayHello(t)
  PROVE  IInv'
<1>1. doc \in [Tabs -> 0..MaxDocs] /\ toSay \in [Tabs -> SUBSET {"hello", "complete"}]
      /\ asked \in [Tabs -> Nat] /\ querying \in BOOLEAN
  BY DEF IInv, Types
<1>2. PICK m \in Msgs : m = HelloMsg(t, doc[t])
  BY <1>1 DEF Msgs, HelloMsg
<1>3. /\ queue' = Append(queue, m) /\ doc' = doc
      /\ toSay' = [toSay EXCEPT ![t] = @ \ {"hello"}]
      /\ UNCHANGED <<allowed, asked, querying, storeVars, early, kills>>
  BY <1>2 DEF SayHello, Send
<1>4. m.type = "hello" /\ m.tab = t /\ m.doc = doc[t]
  BY <1>2 DEF HelloMsg
<1>5. toSay' \in [Tabs -> SUBSET {"hello", "complete"}]
  BY <1>1, <1>3
<1>6. \A u \in Tabs : ~Barrier(u, m)
  BY <1>4 DEF Barrier
<1>7. \A u \in Tabs : SpeaksOfNow(u, m)'
  BY <1>3, <1>4 DEF SpeaksOfNow
<1>8. \A u \in Tabs : "complete" \in toSay'[u] => doc'[u] # NoDoc
  BY <1>1, <1>3 DEF IInv, QueueInv
<1>9. ASSUME NEW u \in Tabs
      PROVE  \/ "hello" \in toSay'[u] \/ m = HelloMsg(u, doc'[u])
             \/ ~Barrier(u, m) /\ "hello" \notin toSay[u]
  BY <1>1, <1>2, <1>3, <1>6
<1>10. /\ doc' \in [Tabs -> 0..MaxDocs] /\ asked' \in [Tabs -> Nat] /\ querying' \in BOOLEAN
       /\ \A u \in Tabs : doc'[u] = doc[u] \/ Barrier(u, m)
       /\ UNCHANGED <<allowed, storeVars, early, kills>>
  BY <1>1, <1>3
<1>11. QED BY <1>3, <1>5, <1>7, <1>8, <1>9, <1>10, BrowserKeeps

\* The completion of a load is sent once by a document.
LEMMA CompleteSentKeeps ==
  ASSUME IInv, NEW t \in Tabs, Complete(t)
  PROVE  IInv'
<1>1. doc \in [Tabs -> 0..MaxDocs] /\ toSay \in [Tabs -> SUBSET {"hello", "complete"}]
      /\ asked \in [Tabs -> Nat] /\ querying \in BOOLEAN
  BY DEF IInv, Types
<1>2. PICK m \in Msgs : m = CompleteMsg(t, Allowed(t, doc[t]))
  <2>1. Allowed(t, doc[t]) \in BOOLEAN
    BY DEF Allowed
  <2>2. \A b \in BOOLEAN : CompleteMsg(t, b) \in Msgs
    BY DEF Msgs, CompleteMsg
  <2>3. QED BY <2>1, <2>2
<1>3. /\ queue' = Append(queue, m) /\ doc' = doc
      /\ toSay' = [toSay EXCEPT ![t] = @ \ {"complete"}]
      /\ UNCHANGED <<allowed, asked, querying, storeVars, early, kills>>
  BY <1>2 DEF Complete, Send
<1>4. m.type = "complete" /\ m.tab = t /\ m.ok = Allowed(t, doc[t])
  BY <1>2 DEF CompleteMsg
<1>5. toSay' \in [Tabs -> SUBSET {"hello", "complete"}]
  BY <1>1, <1>3
<1>6. \A u \in Tabs : ~Barrier(u, m)
  BY <1>4 DEF Barrier
<1>7. \A u \in Tabs : SpeaksOfNow(u, m)'
  BY <1>3, <1>4 DEF SpeaksOfNow, Shown, Allowed
<1>8. \A u \in Tabs : "complete" \in toSay'[u] => doc'[u] # NoDoc
  BY <1>1, <1>3 DEF IInv, QueueInv
<1>9. ASSUME NEW u \in Tabs
      PROVE  "hello" \in toSay'[u] \/ (~Barrier(u, m) /\ "hello" \notin toSay[u])
  BY <1>1, <1>3, <1>6
<1>10. /\ doc' \in [Tabs -> 0..MaxDocs] /\ asked' \in [Tabs -> Nat] /\ querying' \in BOOLEAN
       /\ \A u \in Tabs : doc'[u] = doc[u] \/ Barrier(u, m)
       /\ UNCHANGED <<allowed, storeVars, early, kills>>
  BY <1>1, <1>3
<1>11. QED BY <1>3, <1>5, <1>7, <1>8, <1>9, <1>10, BrowserKeeps

\* A closed tab has no document, and its removal is on its way.
LEMMA CloseKeeps ==
  ASSUME IInv, NEW t \in Tabs, CloseTab(t)
  PROVE  IInv'
<1>1. doc \in [Tabs -> 0..MaxDocs] /\ toSay \in [Tabs -> SUBSET {"hello", "complete"}]
      /\ asked \in [Tabs -> Nat] /\ querying \in BOOLEAN
  BY DEF IInv, Types
<1>2. PICK m \in Msgs : m = RemovedMsg(t)
  BY DEF Msgs, RemovedMsg
<1>3. /\ queue' = Append(queue, m)
      /\ doc' = [doc EXCEPT ![t] = NoDoc] /\ toSay' = [toSay EXCEPT ![t] = {}]
      /\ UNCHANGED <<allowed, asked, querying, storeVars, early, kills>>
  BY <1>2 DEF CloseTab, Send
<1>4. m.type = "removed" /\ m.tab = t
  BY <1>2 DEF RemovedMsg
<1>5. doc' \in [Tabs -> 0..MaxDocs] /\ toSay' \in [Tabs -> SUBSET {"hello", "complete"}]
  <2>1. NoDoc \in 0..MaxDocs
    BY TabAssumption DEF NoDoc
  <2>2. QED BY <1>1, <1>3, <2>1
<1>6. \A u \in Tabs : Barrier(u, m) <=> u = t
  BY <1>4 DEF Barrier
<1>7. \A u \in Tabs : SpeaksOfNow(u, m)'
  BY <1>4 DEF SpeaksOfNow
<1>8. \A u \in Tabs : "complete" \in toSay'[u] => doc'[u] # NoDoc
  BY <1>1, <1>3 DEF IInv, QueueInv
<1>9. ASSUME NEW u \in Tabs, Shown(u)'
      PROVE  "hello" \in toSay'[u] \/ (~Barrier(u, m) /\ "hello" \notin toSay[u])
  <2>1. u # t
    BY <1>1, <1>3, <1>9 DEF Shown
  <2>2. QED BY <2>1, <1>1, <1>3, <1>6
<1>10. /\ asked' \in [Tabs -> Nat] /\ querying' \in BOOLEAN
       /\ \A u \in Tabs : doc'[u] = doc[u] \/ Barrier(u, m)
       /\ UNCHANGED <<allowed, storeVars, early, kills>>
  BY <1>1, <1>3, <1>6
<1>11. QED BY <1>3, <1>5, <1>7, <1>8, <1>9, <1>10, BrowserKeeps

\* What the browser answers is of the moment it answers.
LEMMA AnswersKeep ==
  ASSUME IInv, AnswerQuery \/ \E t \in Tabs : AnswerFrames(t)
  PROVE  IInv'
<1>1. doc \in [Tabs -> 0..MaxDocs] /\ toSay \in [Tabs -> SUBSET {"hello", "complete"}]
      /\ asked \in [Tabs -> Nat] /\ querying \in BOOLEAN /\ kills \in Nat
  BY DEF IInv, Types
<1>2. ASSUME NEW m \in Msgs, queue' = Append(queue, m), doc' = doc, toSay' = toSay,
             UNCHANGED <<allowed, storeVars, early, kills>>,
             asked' \in [Tabs -> Nat], querying' \in BOOLEAN,
             m.type \in {"frames", "tabs"}, \A u \in Tabs : SpeaksOfNow(u, m)
      PROVE  IInv'
  <2>1. \A u \in Tabs : SpeaksOfNow(u, m)'
    BY <1>2 DEF SpeaksOfNow, Shown, Allowed
  <2>2. \A u \in Tabs : "complete" \in toSay'[u] => doc'[u] # NoDoc
    BY <1>2 DEF IInv, QueueInv
  <2>3. \A u \in Tabs : ~Barrier(u, m)
    BY <1>2 DEF Barrier
  <2>4. \A u \in Tabs : "hello" \in toSay'[u] \/ (~Barrier(u, m) /\ "hello" \notin toSay[u])
    BY <2>3, <1>2
  <2>5. /\ doc' \in [Tabs -> 0..MaxDocs] /\ toSay' \in [Tabs -> SUBSET {"hello", "complete"}]
        /\ \A u \in Tabs : doc'[u] = doc[u] \/ Barrier(u, m)
    BY <1>1, <1>2
  <2>6. QED BY <1>2, <2>1, <2>2, <2>4, <2>5, BrowserKeeps
<1>3. CASE AnswerQuery
  <2> DEFINE T == {t \in Tabs : doc[t] # NoDoc /\ ~Allowed(t, doc[t])}
  <2>1. PICK m \in Msgs : m = TabsMsg(T)
    BY <1>1 DEF Msgs, TabsMsg
  <2>2. m.type = "tabs" /\ m.denied = T
    BY <2>1 DEF TabsMsg
  <2>3. \A u \in Tabs : SpeaksOfNow(u, m)
    BY <2>2 DEF SpeaksOfNow, Shown
  <2>4. /\ queue' = Append(queue, m) /\ querying' = FALSE
        /\ UNCHANGED <<doc, allowed, toSay, asked, storeVars, early, kills>>
    BY <1>3, <2>1 DEF AnswerQuery, Send
  <2>5. QED BY <2>2, <2>3, <2>4, <1>1, <1>2
<1>4. CASE \E t \in Tabs : AnswerFrames(t)
  <2>1. PICK t \in Tabs : AnswerFrames(t)
    BY <1>4
  <2>2. PICK m \in Msgs : m = FramesMsg(t, doc[t])
    BY <1>1 DEF Msgs, FramesMsg
  <2>3. m.type = "frames" /\ m.tab = t /\ m.doc = doc[t]
    BY <2>2 DEF FramesMsg
  <2>4. \A u \in Tabs : SpeaksOfNow(u, m)
    BY <2>3 DEF SpeaksOfNow
  <2>5. /\ asked[t] > 0 /\ asked' = [asked EXCEPT ![t] = @ - 1] /\ queue' = Append(queue, m)
        /\ UNCHANGED <<doc, allowed, toSay, querying, storeVars, early, kills>>
    BY <2>1, <2>2 DEF AnswerFrames, Send
  <2>6. asked' \in [Tabs -> Nat]
    <3>1. asked[t] - 1 \in Nat
      BY <2>5, <1>1
    <3>2. QED BY <3>1, <2>5, <1>1
  <2>7. QED BY <2>3, <2>4, <2>5, <2>6, <1>1, <1>2
<1>5. QED BY <1>3, <1>4

\* A panel hears of a session and may start one, which lists nothing yet.
LEMMA PanelKeeps ==
  ASSUME IInv, NEW t \in Tabs, PanelConnects(t)
  PROVE  StoreStep /\ IInv'
<1>1. /\ Handle /\ UNCHANGED browserVars /\ kills' = kills
      /\ \/ Save(Ensured(t), t)
         \/ /\ sessions[t] # NoSession
            /\ told' = [told EXCEPT ![t] = sessions[t].id]
            /\ UNCHANGED <<sessions, disk, reading, nextId>>
  BY DEF PanelConnects
<1>2. /\ StoreStep
      /\ IF sessions[t] # NoSession THEN sessions'[t] = sessions[t]
         ELSE sessions'[t] # NoSession => sessions'[t].tree = NoDoc
      /\ \A u \in Tabs \ {t} : sessions'[u] = sessions[u]
  <2>1. CASE Save(Ensured(t), t)
    <3>1. StoreStep
      BY <2>1, EnsuredIs, SaveIsStep DEF IInv
    <3>2. QED BY <2>1, <3>1, EnsuredIs DEF Save, IInv
  <2>2. CASE /\ sessions[t] # NoSession
             /\ told' = [told EXCEPT ![t] = sessions[t].id]
             /\ UNCHANGED <<sessions, disk, reading, nextId>>
    <3>1. sessions[t].id \in Nat /\ sessions[t].id < nextId
      <4>1. sessions[t] \in Session /\ sessions \in Held
        BY <2>2 DEF IInv, Types, Store, Held
      <4>2. QED BY <4>1, <2>2, StoreFacts DEF IInv, IdsAreSpread
    <3>2. told' \in [Tabs -> Nat] /\ \A u \in Tabs : told'[u] < nextId'
      BY <2>2, <3>1 DEF IInv, Types, IdsAreSpread
    <3>3. StoreStep
      BY <2>2, <3>2 DEF StoreStep, IdKept, Started, IInv, Types
    <3>4. QED BY <2>2, <3>3
  <2>3. QED BY <1>1, <2>1, <2>2
<1>3. /\ doc' = doc /\ allowed' = allowed /\ toSay' = toSay /\ asked' = asked
      /\ querying' = querying /\ queue' = queue
  BY <1>1 DEF browserVars
<1>4. early' \in BOOLEAN /\ (~early' => ~early /\ Restored)
  BY <1>1 DEF Handle, Restored, IInv, Types
<1>5. Types'
  BY <1>1, <1>2, <1>3, <1>4 DEF IInv, Types, StoreStep
<1>6. IdsAreSpread'
  BY <1>2, StoreStepSpreads DEF IInv
<1>7. StoreInv'
  BY <1>2, <1>4 DEF IInv, StoreInv, Restored, StoreStep
<1>8. QueueInv'
  BY <1>3 DEF IInv, QueueInv, Later, Barrier, SpeaksOfNow, Shown, Allowed
<1>9. ~early' => ~early /\ Known = sessions /\ Known' = sessions'
  BY <1>2, <1>4 DEF Known, Restored, StoreStep
<1>10. TreeInv'
  <2> SUFFICES ASSUME ~early', NEW u \in Tabs, Clear(queue, u), sessions'[u] # NoSession
               PROVE  sessions'[u].tree \in {NoDoc, doc[u]}
    BY <1>3, <1>9 DEF TreeInv, Clear, Barrier
  <2>1. sessions[u] # NoSession => sessions[u].tree \in {NoDoc, doc[u]}
    BY <1>9 DEF IInv, TreeInv
  <2>2. QED BY <2>1, <1>2
<1>11. HelloInv'
  <2> SUFFICES ASSUME ~early', NEW u \in Tabs, Shown(u),
                      Clear(queue, u) /\ sessions[u] # NoSession /\ sessions[u].tree = doc[u]
               PROVE  sessions'[u] # NoSession /\ sessions'[u].tree = doc[u]
    BY <1>3, <1>9 DEF IInv, HelloInv, Clear, Later, Barrier, HelloMsg, Shown, Allowed
  <2>1. QED BY <1>2
<1>12. QED BY <1>2, <1>5, <1>6, <1>7, <1>8, <1>10, <1>11 DEF IInv

\* What storage held replaces what is in memory, tab by tab.
LEMMA RestoreKeeps ==
  ASSUME IInv, restore
  PROVE  IInv'
<1>1. /\ reading # NoRead /\ reading' = NoRead
      /\ sessions' = [t \in Tabs |-> IF reading[t] # NoSession THEN reading[t] ELSE sessions[t]]
      /\ disk' = disk /\ told' = told /\ early' = early /\ nextId' = nextId /\ kills' = kills
      /\ doc' = doc /\ allowed' = allowed /\ toSay' = toSay /\ asked' = asked
      /\ querying' = querying /\ queue' = queue
  BY DEF restore, browserVars
<1>2. sessions \in Store /\ disk \in Store /\ reading \in Store /\ sessions' \in Store
  BY <1>1 DEF IInv, Types, Store
<1>3. Types'
  BY <1>1, <1>2 DEF IInv, Types
<1>4. IdsAreSpread'
  <2>1. reading \in Held /\ sessions \in Held /\ disk \in Held
    BY <1>1 DEF Held
  <2>2. ASSUME NEW S \in Held', NEW t \in Tabs
        PROVE  \E Q \in Held : S[t] = Q[t]
    <3>1. S = sessions' \/ S = disk
      BY <1>1 DEF Held
    <3>2. QED BY <3>1, <2>1, <1>1
  <2>3. QED BY <2>2, <1>1 DEF IInv, IdsAreSpread
<1>5. ~early => /\ Known' = Known /\ disk' = sessions' /\ Known = sessions'
  <2> SUFFICES ASSUME ~early
               PROVE  sessions' = disk /\ Known = disk
    BY <1>1 DEF Known, Restored
  <2>1. CASE reading = NoSessions
    <3>1. disk = sessions /\ Known = sessions
      BY <2>1 DEF IInv, StoreInv, Restored, Known
    <3>2. sessions' = sessions
      BY <1>1, <1>2, <2>1 DEF NoSessions, Store
    <3>3. QED BY <3>1, <3>2
  <2>2. CASE reading # NoSessions
    <3>1. sessions = NoSessions /\ disk = reading /\ Known = reading
      BY <1>1, <2>2 DEF IInv, StoreInv, Restored, Known
    <3>2. sessions' = reading
      BY <1>1, <1>2, <3>1 DEF NoSessions, Store
    <3>3. QED BY <3>1, <3>2
  <2>3. QED BY <2>1, <2>2
<1>6. StoreInv'
  BY <1>1, <1>5 DEF StoreInv, Restored
<1>7. QueueInv'
  BY <1>1 DEF IInv, QueueInv, Later, Barrier, SpeaksOfNow, Shown, Allowed
<1>8. TreeInv'
  BY <1>1, <1>5 DEF IInv, TreeInv, Clear, Barrier
<1>9. HelloInv'
  BY <1>1, <1>5 DEF IInv, HelloInv, Clear, Later, Barrier, HelloMsg, Shown, Allowed
<1>10. QED BY <1>3, <1>4, <1>6, <1>7, <1>8, <1>9 DEF IInv

\* The next worker reads what storage holds, which is what its predecessor had.
LEMMA RestartKeeps ==
  ASSUME IInv, RestartWorker
  PROVE  IInv'
<1>1. /\ kills' = kills + 1 /\ querying' = TRUE /\ sessions' = NoSessions /\ reading' = disk
      /\ asked' = [t \in Tabs |-> 0]
      /\ doc' = doc /\ allowed' = allowed /\ toSay' = toSay /\ queue' = queue
      /\ disk' = disk /\ told' = told /\ early' = early /\ nextId' = nextId
  BY DEF RestartWorker
<1>2. disk \in Store /\ disk # NoRead
  BY StoreFacts DEF IInv, Types
<1>3. Types'
  BY <1>1, <1>2, StoreFacts DEF IInv, Types
<1>4. IdsAreSpread'
  <2>1. disk \in Held
    BY DEF Held
  <2>2. \A S \in Held' : S = disk \/ S = NoSessions
    BY <1>1, <1>2 DEF Held
  <2>3. \A t \in Tabs : NoSessions[t] = NoSession
    BY DEF NoSessions
  <2>4. QED BY <2>1, <2>2, <2>3, <1>1 DEF IInv, IdsAreSpread
<1>5. ~early => Known = disk /\ Known' = disk
  BY <1>1, <1>2 DEF IInv, StoreInv, Known, Restored
<1>6. StoreInv'
  BY <1>1, <1>2 DEF StoreInv, Restored
<1>7. QueueInv'
  BY <1>1 DEF IInv, QueueInv, Later, Barrier, SpeaksOfNow, Shown, Allowed
<1>8. TreeInv'
  BY <1>1, <1>5 DEF IInv, TreeInv, Clear, Barrier
<1>9. HelloInv'
  BY <1>1, <1>5 DEF IInv, HelloInv, Clear, Later, Barrier, HelloMsg, Shown, Allowed
<1>10. QED BY <1>3, <1>4, <1>6, <1>7, <1>8, <1>9 DEF IInv

\* An answer nobody hears is neither a barrier nor a hello.
LEMMA UnheardKeeps ==
  ASSUME IInv, AnswerUnheard
  PROVE  IInv'
<1>1. /\ queue # <<>> /\ Head(queue).type \in {"frames", "tabs"} /\ queue' = Tail(queue)
      /\ doc' = doc /\ allowed' = allowed /\ toSay' = toSay /\ asked' = asked
      /\ querying' = querying /\ early' = early /\ kills' = kills
      /\ sessions' = sessions /\ disk' = disk /\ reading' = reading /\ told' = told
      /\ nextId' = nextId
  BY DEF AnswerUnheard, storeVars
<1>2. queue \in Seq(Msgs)
  BY DEF IInv, Types
<1>3. /\ queue' \in Seq(Msgs) /\ Head(queue) = queue[1]
      /\ \A t \in Tabs, i \in 1..Len(queue') :
           i + 1 \in 1..Len(queue) /\ queue'[i] = queue[i + 1]
             /\ (Later(queue', t, i) <=> Later(queue, t, i + 1))
      /\ \A i \in 1..Len(queue) : i # 1 => i - 1 \in 1..Len(queue') /\ (i - 1) + 1 = i
      /\ \A t \in Tabs : Clear(queue, t) <=> Clear(queue', t) /\ ~Barrier(t, Head(queue))
  <2>1. queue' \in Seq(Msgs) /\ Head(queue) = queue[1]
    BY <1>1, <1>2, HeadTailProperties
  <2>2. \A i \in 1..Len(queue) : i # 1 => i - 1 \in 1..Len(queue') /\ (i - 1) + 1 = i
    BY <1>1, <1>2, TailQueue
  <2>3. QED BY <2>1, <2>2, <1>1, <1>2, TailQueue
<1>4. /\ \A t \in Tabs : Clear(queue', t) <=> Clear(queue, t)
      /\ \A t \in Tabs : \A d : queue[1] # HelloMsg(t, d)
  BY <1>1, <1>3 DEF Barrier, HelloMsg
<1>5. Types' /\ IdsAreSpread' /\ StoreInv' /\ Known' = Known
  BY <1>1, <1>3 DEF IInv, Types, IdsAreSpread, StoreInv, Held, Restored, Known
<1>6. QueueInv'
  <2>1. ASSUME NEW t \in Tabs, NEW i \in 1..Len(queue'), Later(queue', t, i)
        PROVE  SpeaksOfNow(t, queue'[i])
    BY <2>1, <1>3 DEF IInv, QueueInv
  <2>2. \A t \in Tabs : "complete" \in toSay[t] => doc[t] # NoDoc
    BY DEF IInv, QueueInv
  <2>3. QED BY <2>1, <2>2, <1>1 DEF QueueInv, SpeaksOfNow, Shown, Allowed, Later, Barrier
<1>7. TreeInv'
  <2> SUFFICES ASSUME ~early, NEW t \in Tabs, Clear(queue', t), Known[t] # NoSession
               PROVE  Known[t].tree \in {NoDoc, doc[t]}
    BY <1>1, <1>5 DEF TreeInv, Clear, Barrier
  <2>1. QED BY <1>4 DEF IInv, TreeInv
<1>8. HelloInv'
  <2> SUFFICES ASSUME ~early, NEW t \in Tabs, Shown(t), "hello" \notin toSay[t],
                      ~ (Clear(queue', t) /\ Known[t] # NoSession /\ Known[t].tree = doc[t])
               PROVE  \E i \in 1..Len(queue') :
                        Later(queue', t, i) /\ queue'[i] = HelloMsg(t, doc[t])
    BY <1>1, <1>5 DEF HelloInv, Clear, Later, Barrier, HelloMsg, Shown, Allowed
  <2>1. PICK i \in 1..Len(queue) : Later(queue, t, i) /\ queue[i] = HelloMsg(t, doc[t])
    BY <1>4 DEF IInv, HelloInv
  <2>2. i - 1 \in 1..Len(queue') /\ (i - 1) + 1 = i
    BY <2>1, <1>3, <1>4
  <2>3. Later(queue', t, i - 1) /\ queue'[i - 1] = HelloMsg(t, doc[t])
    BY <2>1, <2>2, <1>3
  <2>4. QED BY <2>2, <2>3
<1>9. QED BY <1>5, <1>6, <1>7, <1>8 DEF IInv

------------------------------------------------------------------------------

\* At first every page says hello and completes.
LEMMA InitHolds == Init => IInv
<1> SUFFICES ASSUME Init
             PROVE  IInv
  OBVIOUS
<1>1. /\ doc = [t \in Tabs |-> 1] /\ toSay = [t \in Tabs |-> {"hello", "complete"}]
      /\ queue = <<>> /\ asked = [t \in Tabs |-> 0] /\ querying = TRUE
      /\ sessions = NoSessions /\ disk = NoSessions /\ reading = NoSessions
      /\ told = [t \in Tabs |-> 0] /\ early = FALSE /\ nextId = 1 /\ kills = 0
  BY DEF Init
<1>2. 1 \in 0..MaxDocs
  BY TabAssumption
<1>3. queue \in Seq(Msgs) /\ \A i : i \notin 1..Len(queue)
  BY <1>1
<1>4. Types
  <2>1. doc \in [Tabs -> 0..MaxDocs] /\ toSay \in [Tabs -> SUBSET {"hello", "complete"}]
    BY <1>1, <1>2
  <2>2. asked \in [Tabs -> Nat] /\ told \in [Tabs -> Nat]
    BY <1>1
  <2>3. sessions \in Store /\ disk \in Store /\ reading \in Store \cup {NoRead}
    BY <1>1, StoreFacts
  <2>4. querying \in BOOLEAN /\ early \in BOOLEAN
    BY <1>1, Zenon
  <2>5. nextId \in Nat \ {0} /\ kills \in Nat
    BY <1>1
  <2>6. QED BY <2>1, <2>2, <2>3, <2>4, <2>5, <1>3 DEF Types
<1>5. \A t \in Tabs : NoSessions[t] = NoSession
  BY DEF NoSessions
<1>6. IdsAreSpread
  <2>1. \A S \in Held : S = NoSessions
    BY <1>1 DEF Held
  <2>2. QED BY <2>1, <1>1, <1>5 DEF IdsAreSpread
<1>7. StoreInv
  BY <1>1 DEF StoreInv, Restored
<1>8. QueueInv
  BY <1>1, <1>3 DEF QueueInv, NoDoc
<1>9. TreeInv
  BY <1>1, <1>5 DEF TreeInv, Known, Restored
<1>10. HelloInv
  BY <1>1 DEF HelloInv
<1>11. QED BY <1>4, <1>6, <1>7, <1>8, <1>9, <1>10 DEF IInv

\* A step that leaves pages, queue and store alone keeps the invariant.
LEMMA StillKeeps ==
  ASSUME IInv, queue' = queue,
         UNCHANGED <<doc, allowed, toSay, asked, storeVars, early, kills>>,
         querying' \in BOOLEAN
  PROVE  IInv'
<1>1. /\ doc' = doc /\ allowed' = allowed /\ toSay' = toSay /\ asked' = asked
      /\ early' = early /\ kills' = kills
      /\ sessions' = sessions /\ disk' = disk /\ reading' = reading /\ told' = told
      /\ nextId' = nextId
  BY DEF storeVars
<1>2. Types' /\ IdsAreSpread' /\ StoreInv' /\ Known' = Known
  BY <1>1 DEF IInv, Types, IdsAreSpread, StoreInv, Held, Restored, Known
<1>3. QueueInv'
  BY <1>1 DEF IInv, QueueInv, Later, Barrier, SpeaksOfNow, Shown, Allowed
<1>4. TreeInv'
  BY <1>1, <1>2 DEF IInv, TreeInv, Clear, Barrier
<1>5. HelloInv'
  BY <1>1, <1>2 DEF IInv, HelloInv, Clear, Later, Barrier, HelloMsg, Shown, Allowed
<1>6. QED BY <1>2, <1>3, <1>4, <1>5 DEF IInv

\* A step gives a tab's session no other id: it is a step of the store, or it
\* leaves the store alone, or it restores, or it starts a worker.
LEMMA StepHolds ==
  ASSUME IInv, [Next]_vars
  PROVE  /\ IInv'
         /\ StoreStep \/ UNCHANGED <<sessions, reading>> \/ restore \/ RestartWorker
<1>1. CASE Browser
  <2>1. IInv'
    BY <1>1, NavigateKeeps, SayHelloKeeps, CompleteSentKeeps, CloseKeeps, AnswersKeep DEF Browser
  <2>2. UNCHANGED <<sessions, reading>>
    BY <1>1 DEF Browser, AnswerQuery, Navigate, SayHello, Complete, CloseTab, AnswerFrames, storeVars
  <2>3. QED BY <2>1, <2>2
<1>2. CASE Worker
  <2>1. CASE restore
    BY <2>1, RestoreKeeps
  <2>2. CASE refreshHostAccess
    BY <2>2, StillKeeps DEF refreshHostAccess, storeVars
  <2>3. CASE HandleLoading
    BY <2>3, LoadingKeeps
  <2>4. CASE HandleComplete
    BY <2>4, CompleteKeeps
  <2>5. CASE HandleFrames
    BY <2>5, FramesKeeps
  <2>6. CASE handleFrameHello
    BY <2>6, HelloKeeps
  <2>7. CASE HandleRemoved
    BY <2>7, RemovedKeeps
  <2>8. CASE InjectOpenTabs
    BY <2>8, OpenTabsKeeps
  <2>9. CASE \E t \in Tabs : PanelConnects(t)
    BY <2>9, PanelKeeps
  <2>10. QED BY <1>2, <2>1, <2>2, <2>3, <2>4, <2>5, <2>6, <2>7, <2>8, <2>9 DEF Worker
<1>3. CASE RestartWorker
  <2>1. QED BY <1>3, RestartKeeps
<1>4. CASE AnswerUnheard
  <2>1. UNCHANGED <<sessions, reading>>
    BY <1>4 DEF AnswerUnheard, storeVars
  <2>2. QED BY <2>1, <1>4, UnheardKeeps
<1>5. CASE UNCHANGED vars
  <2>1. /\ queue' = queue /\ UNCHANGED <<doc, allowed, toSay, asked, storeVars, early, kills>>
        /\ querying' \in BOOLEAN /\ UNCHANGED <<sessions, reading>>
    BY <1>5 DEF vars, browserVars, storeVars, IInv, Types
  <2>2. QED BY <2>1, StillKeeps
<1>6. QED BY <1>1, <1>2, <1>3, <1>4, <1>5 DEF Next

\* The invariant says what the run checks.
LEMMA InvariantImplies ==
  ASSUME IInv
  PROVE  SessionsAreSound /\ StorageFollowsMemory /\ LoadedPageIsReachable
<1>1. TypeOK
  <2>1. \A t \in Tabs : sessions[t] # NoSession => sessions[t].id < nextId
    BY DEF IInv, IdsAreSpread, Held
  <2>2. QED BY <2>1 DEF IInv, Types, IdsAreSpread, TypeOK, Store
<1>2. SessionsAreDistinct
  BY DEF IInv, IdsAreSpread, Held, SessionsAreDistinct
<1>3. StorageFollowsMemory
  BY DEF IInv, StoreInv, Restored, StorageFollowsMemory
<1>4. ASSUME Settled, ~early
      PROVE  /\ Known = sessions
             /\ \A t \in Tabs : Clear(queue, t) /\ "hello" \notin toSay[t]
             /\ \A i : i \notin 1..Len(queue)
  BY <1>4 DEF Settled, Known, Restored, Clear
<1>5. LeftOversAreEmpty
  BY <1>4 DEF IInv, TreeInv, LeftOversAreEmpty, NoDoc
<1>6. LoadedPageIsReachable
  BY <1>4 DEF IInv, HelloInv, Shown, LoadedPageIsReachable
<1>7. QED BY <1>1, <1>2, <1>3, <1>5, <1>6 DEF SessionsAreSound

\* Tab sessions keep the invariant above, whatever happens in whichever order.
THEOREM TabInvariant == Spec => []IInv
<1>1. Init => IInv
  BY InitHolds
<1>2. IInv /\ [Next]_vars => IInv'
  BY StepHolds
<1>3. QED BY <1>1, <1>2, PTL DEF Spec

\* No two tabs share a session, in memory or in storage, whichever worker gave
\* the ids out, and a session that outlives its tab lists no frame.
THEOREM SessionsHold == Spec => []SessionsAreSound
<1>1. IInv => SessionsAreSound
  BY InvariantImplies
<1>2. QED BY <1>1, TabInvariant, PTL

\* After the restore the next worker finds in storage what this one holds, unless
\* an event was handled before the restore.
THEOREM StorageFollows == Spec => []StorageFollowsMemory
<1>1. IInv => StorageFollowsMemory
  BY InvariantImplies
<1>2. QED BY <1>1, TabInvariant, PTL

\* At rest a page that may be inspected has a session that lists its document.
THEOREM LoadedIsReachable == Spec => []LoadedPageIsReachable
<1>1. IInv => LoadedPageIsReachable
  BY InvariantImplies
<1>2. QED BY <1>1, TabInvariant, PTL

\* Loads, reloads, discoveries, hellos, the restore and the restart of the worker keep
\* the id of a tab's session; only the restart after an early event need not.
THEOREM IdsAreKept == Spec => IdIsKept
<1> DEFINE Step == \A t \in Tabs :
             /\ IdOf(t) # 0 /\ IdOf(t)' # 0
             /\ ~(early /\ kills' # kills)
             => IdOf(t)' = IdOf(t)
<1>1. IInv /\ [Next]_vars => [Step]_vars
  <2> SUFFICES ASSUME IInv, [Next]_vars, NEW t \in Tabs,
                      IdOf(t) # 0, IdOf(t)' # 0, ~(early /\ kills' # kills)
               PROVE  IdOf(t)' = IdOf(t)
    OBVIOUS
  <2>0. NoSessions[t] = NoSession
    BY DEF NoSessions
  <2>1. CASE StoreStep
    BY <2>1 DEF StoreStep, IdKept, Started, IdOf
  <2>2. CASE UNCHANGED <<sessions, reading>>
    BY <2>2 DEF IdOf
  <2>3. CASE restore
    <3>1. /\ reading # NoRead /\ reading' = NoRead
          /\ sessions'[t] = IF reading[t] # NoSession THEN reading[t] ELSE sessions[t]
      BY <2>3 DEF restore
    <3>2. QED BY <3>1 DEF IdOf
  <2>4. CASE RestartWorker
    <3>1. /\ kills' # kills /\ sessions' = NoSessions /\ reading' = disk
          /\ disk # NoRead
      BY <2>4, StoreFacts DEF RestartWorker, IInv, Types
    <3>2. IF Restored THEN disk = sessions ELSE disk = reading /\ sessions = NoSessions
      BY <3>1 DEF IInv, StoreInv
    <3>3. CASE Restored
      BY <3>1, <3>2, <3>3, <2>0 DEF Restored, IdOf
    <3>4. CASE ~Restored
      BY <3>1, <3>2, <3>4, <2>0 DEF Restored, IdOf
    <3>5. QED BY <3>3, <3>4
  <2>5. QED BY <2>1, <2>2, <2>3, <2>4, StepHolds
<1>2. QED BY <1>1, TabInvariant, PTL DEF Spec, IdIsKept

==============================================================================
