------------------------ MODULE CommandRoutingProofs ------------------------
(***************************************************************************)
(* Coordination commands, for any commands, tabs and bounds: the queue      *)
(* tells the truth, a verdict is of the session it is shown for and was      *)
(* made there, and what an ended session answers is told to nobody.         *)
(*                                                                         *)
(* The argument: a request is under way in at most the places its pending   *)
(* entry knows of, a command that was never enqueued is nowhere, and a page *)
(* only gets commands that are meant for its tab.                           *)
(***************************************************************************)
EXTENDS CommandRouting, SequenceTheorems, TLAPS

\* The messages under way in a queue.
In(s) == {s[i] : i \in 1..Len(s)}
Distinct(s) == \A i, j \in 1..Len(s) : s[i] = s[j] => i = j

PageMsgs == [req : Requests, session : Nat]
Makers == [tab : Tabs, session : Nat]
Results == [req : Requests, tab : Tabs, session : Nat, ok : BOOLEAN, by : Makers]
Verdicts == [req : Requests, session : Nat, by : Makers]
UpMsgs ==
  [type : {"snapshot", "closed"}, tab : Tabs, session : Nat]
    \cup [type : {"ack"}, req : Commands, ok : BOOLEAN]
    \cup [type : {"verification"}, req : Commands, tab : Tabs, session : Nat, by : Makers]

Types ==
  /\ status \in [Commands -> {"unused", "pending", "acked", "failed", "cleared"}]
  /\ kind \in [Requests -> Kinds]
  /\ target \in [Commands -> Tabs \cup {NoTab}]
  /\ projected \in [Tabs -> 0..nextSess \cup {NoEntry}]
  /\ retired \subseteq Tabs
  /\ verdict \in [Tabs -> Verdicts \cup {NoVerdict}]
  /\ link \in {"up", "closing", "down"}
  /\ down \in Seq(Commands) /\ up \in Seq(UpMsgs)
  /\ listening \in BOOLEAN
  /\ pending \in [Requests -> [tab : Tabs, session : Nat] \cup {NoPending}]
  /\ sess \in [Tabs -> 0..nextSess] /\ nextSess \in Nat \ {0}
  /\ ready \in [Tabs -> BOOLEAN]
  /\ toPage \in [Tabs -> Seq(PageMsgs)] /\ running \in [Tabs -> SUBSET PageMsgs]
  /\ toBg \in Seq(Results)
  /\ shown \subseteq Locals
  /\ did \in [Requests -> Tabs \cup {NoTab}]
  /\ navs \in Nat

LinkInv == link # "up" => up = <<>> /\ down = <<>>

PageInv ==
  \A t \in Tabs : /\ running[t] # {} => ready[t]
                  /\ ready[t] => sess[t] # 0 /\ t \notin closed

\* A snapshot names a session that has been given out.
SnapInv == \A m \in In(up) : m.type = "snapshot" => m.session <= nextSess

\* The requests that page t has, or has on their way to it.
At(t) == In(toPage[t]) \cup running[t]

\* A page gets, and carries out, only the commands that are meant for its tab.
MeantInv ==
  /\ \A t \in Tabs : \A m \in At(t) : m.req \in Commands => target[m.req] \in {t, NoTab}
  /\ \A c \in Commands : did[c] # NoTab => target[c] \in {did[c], NoTab}

\* What counts as done was carried out.
DoneInv ==
  /\ \A m \in In(toBg) : m.ok => did[m.req] # NoTab
  /\ \A m \in In(up) : m.type = "ack" => (m.ok => did[m.req] # NoTab)
  /\ \A c \in Commands : status[c] = "acked" => did[c] # NoTab

\* A command that was never enqueued is nowhere.
Nowhere(c) ==
  /\ c \notin In(down) /\ pending[c] = NoPending /\ did[c] = NoTab
  /\ \A t \in Tabs : \A m \in At(t) : m.req # c
  /\ \A m \in In(toBg) : m.req # c
  /\ \A m \in In(up) : m.type \in {"ack", "verification"} => m.req # c
  /\ \A t \in Tabs : verdict[t] # NoVerdict => verdict[t].req # c
UnusedInv == \A c \in Commands : status[c] = "unused" => Nowhere(c)

\* A command on its way down is there once, and nobody waits for it yet.
DownInv ==
  /\ Distinct(down)
  /\ \A c \in In(down) : pending[c] = NoPending /\ status[c] # "cleared"
  /\ PendingIsOfThisLink

VerdictFiled ==
  \A t \in Tabs : verdict[t] # NoVerdict =>
    /\ verdict[t].session = projected[t]
    /\ kind[verdict[t].req] = "request_verification"
VerdictInv ==
  /\ VerdictFiled
  /\ \A m \in In(up) : m.type = "verification" => kind[m.req] = "request_verification"

IInv ==
  /\ Types /\ LinkInv /\ PageInv /\ SnapInv /\ MeantInv /\ DoneInv /\ UnusedInv
  /\ DownInv /\ VerdictInv

\* Who made a result: a session that a message names was given out, none is given
\* out twice, and while the session asked is there its page is the one that made
\* what is answered for it.
MadeInv ==
  /\ \A t \in Tabs : /\ sess[t] < nextSess
                     /\ \A m \in At(t) : m.session < nextSess
  /\ \A m \in In(toBg) :
       /\ m.session < nextSess /\ m.by.tab = m.tab
       /\ m.session # 0 /\ sess[m.tab] = m.session => m.by.session = m.session
  /\ \A m \in In(up) : m.type = "verification" /\ m.session # 0 =>
       m.by = [tab |-> m.tab, session |-> m.session]
  /\ \A t \in Tabs : verdict[t] # NoVerdict =>
       verdict[t].by = [tab |-> t, session |-> verdict[t].session]

\* As long as every page stays: what is waited for is on its way, and the session
\* that was asked is there.
Waits(r) ==
  LET p == pending[r] IN
  p # NoPending =>
    /\ sess[p.tab] = p.session
    /\ \/ PageMsg(r, p.session) \in At(p.tab)
       \/ \E m \in In(toBg) : m.req = r /\ m.tab = p.tab /\ m.session = p.session
Listened(r) == r \in Locals
WaitInv ==
  navs = 0 => /\ \A t \in Tabs : ready[t]
              /\ \A r \in Requests : Listened(r) => Waits(r)

------------------------------------------------------------------------------
(* Queues.                                                                 *)

\* The empty queue.
LEMMA InEmpty == In(<<>>) = {} /\ Distinct(<<>>)
BY DEF In, Distinct

\* What is in a queue is of the queue's type.
LEMMA InType ==
  ASSUME NEW X, NEW s \in Seq(X)
  PROVE  In(s) \subseteq X
BY DEF In

\* Appending adds a message.
LEMMA InAppend ==
  ASSUME NEW X, NEW s \in Seq(X), NEW m \in X
  PROVE  /\ Append(s, m) \in Seq(X) /\ In(Append(s, m)) = In(s) \cup {m}
         /\ Distinct(s) /\ m \notin In(s) => Distinct(Append(s, m))
<1> DEFINE r == Append(s, m)
<1>1. /\ r \in Seq(X) /\ Len(s) \in Nat /\ Len(r) = Len(s) + 1 /\ r[Len(s) + 1] = m
      /\ \A i \in 1..Len(s) : r[i] = s[i]
  OBVIOUS
<1> HIDE DEF r
<1>2. \A i : i \in 1..Len(r) <=> i \in 1..Len(s) \/ i = Len(s) + 1
  BY <1>1
<1>3. In(r) = In(s) \cup {m}
  BY <1>1, <1>2 DEF In
<1>4. Distinct(s) /\ m \notin In(s) => Distinct(r)
  BY <1>1, <1>2 DEF In, Distinct
<1>5. QED BY <1>1, <1>3, <1>4 DEF r

\* Taking the head leaves the others.
LEMMA InTail ==
  ASSUME NEW X, NEW s \in Seq(X), s # <<>>
  PROVE  /\ Head(s) \in X /\ Tail(s) \in Seq(X) /\ In(s) = {Head(s)} \cup In(Tail(s))
         /\ Distinct(s) => Distinct(Tail(s)) /\ Head(s) \notin In(Tail(s))
<1> DEFINE r == Tail(s)
<1>1. /\ Head(s) \in X /\ r \in Seq(X) /\ Head(s) = s[1]
      /\ Len(s) \in Nat \ {0} /\ Len(r) = Len(s) - 1
      /\ \A i \in 1..(Len(s) - 1) : r[i] = s[i + 1]
  BY HeadTailProperties, EmptySeq
<1> HIDE DEF r
<1>2. /\ \A i \in 1..Len(r) : i + 1 \in 1..Len(s) /\ i + 1 # 1 /\ r[i] = s[i + 1]
      /\ 1 \in 1..Len(s)
  BY <1>1
<1>3. \A i \in 1..Len(s) : i # 1 => i - 1 \in 1..Len(r) /\ s[i] = r[i - 1]
  <2> SUFFICES ASSUME NEW i \in 1..Len(s), i # 1
               PROVE  i - 1 \in 1..Len(r) /\ s[i] = r[i - 1]
    OBVIOUS
  <2>1. i - 1 \in 1..Len(r) /\ i - 1 \in 1..(Len(s) - 1) /\ (i - 1) + 1 = i
    BY <1>1
  <2>2. QED BY <2>1, <1>1
<1>4. In(s) = {s[1]} \cup In(r)
  <2>1. ASSUME NEW m \in In(s)
        PROVE  m \in {s[1]} \cup In(r)
    <3>1. PICK i \in 1..Len(s) : m = s[i]
      BY DEF In
    <3>2. QED BY <3>1, <1>3 DEF In
  <2>2. ASSUME NEW m \in {s[1]} \cup In(r)
        PROVE  m \in In(s)
    BY <1>2 DEF In
  <2>3. QED BY <2>1, <2>2
<1>5. Distinct(s) => Distinct(r) /\ s[1] \notin In(r)
  <2> SUFFICES ASSUME Distinct(s)
               PROVE  Distinct(r) /\ s[1] \notin In(r)
    OBVIOUS
  <2>1. Distinct(r)
    <3> SUFFICES ASSUME NEW i \in 1..Len(r), NEW j \in 1..Len(r), r[i] = r[j]
                 PROVE  i = j
      BY DEF Distinct
    <3>1. i + 1 = j + 1
      BY <1>2 DEF Distinct
    <3>2. QED BY <3>1, <1>1
  <2>2. s[1] \notin In(r)
    BY <1>2 DEF In, Distinct
  <2>3. QED BY <2>1, <2>2
<1>6. QED BY <1>1, <1>4, <1>5 DEF r

\* What the queues and the pages hold.
LEMMA QueuesTyped ==
  ASSUME Types
  PROVE  /\ In(up) \subseteq UpMsgs /\ In(down) \subseteq Commands /\ In(toBg) \subseteq Results
         /\ \A t \in Tabs : At(t) \subseteq PageMsgs
<1>1. \A t \in Tabs : In(toPage[t]) \subseteq PageMsgs /\ running[t] \subseteq PageMsgs
  BY InType DEF Types
<1>2. QED BY <1>1, InType DEF Types, At

\* What a message to the MCP process carries.
LEMMA UpFacts ==
  ASSUME NEW m \in UpMsgs
  PROVE  /\ m.type \in {"snapshot", "closed", "ack", "verification"}
         /\ m.type \in {"snapshot", "closed"} => m.tab \in Tabs /\ m.session \in Nat
         /\ m.type = "ack" => m.req \in Commands /\ m.req \in Requests /\ m.ok \in BOOLEAN
         /\ m.type = "verification" =>
              /\ m.req \in Commands /\ m.req \in Requests /\ m.tab \in Tabs
              /\ m.session \in Nat /\ m.by \in Makers
BY DEF UpMsgs, Requests

------------------------------------------------------------------------------
(* The MCP process and the link.                                           *)

\* A new command is nowhere yet, so giving it a kind and a target disturbs nothing.
LEMMA EnqueueKeeps ==
  ASSUME IInv, NEW c \in Commands, enqueue(c)
  PROVE  IInv'
<1>1. /\ status[c] = "unused" /\ link # "down"
      /\ \E k \in Kinds, t \in Tabs \cup {NoTab} :
           kind' = [kind EXCEPT ![c] = k] /\ target' = [target EXCEPT ![c] = t]
      /\ \/ /\ link = "up" /\ status' = [status EXCEPT ![c] = "pending"]
            /\ down' = Append(down, c)
         \/ status' = [status EXCEPT ![c] = "failed"] /\ down' = down
      /\ UNCHANGED <<cacheVars, link, up, links, routerVars, pageVars, toBg, pushes>>
  BY DEF enqueue
<1>2. /\ projected' = projected /\ retired' = retired /\ verdict' = verdict
      /\ link' = link /\ up' = up /\ listening' = listening /\ pending' = pending
      /\ shown' = shown /\ sess' = sess /\ ready' = ready /\ closed' = closed
      /\ toPage' = toPage /\ running' = running /\ did' = did /\ nextSess' = nextSess
      /\ navs' = navs /\ toBg' = toBg
  BY <1>1 DEF cacheVars, routerVars, pageVars
<1>3. Nowhere(c)
  BY <1>1 DEF IInv, UnusedInv
<1>4. down \in Seq(Commands) /\ Distinct(down) /\ c \notin In(down)
  BY <1>3 DEF IInv, Types, DownInv, Nowhere
<1>5. /\ down' \in Seq(Commands) /\ Distinct(down') /\ In(down') \subseteq In(down) \cup {c}
      /\ down' # down => link = "up" /\ status'[c] = "pending"
      /\ c \in In(down') => status'[c] = "pending"
  <2>1. status \in [Commands -> {"unused", "pending", "acked", "failed", "cleared"}]
    BY DEF IInv, Types
  <2>2. CASE link = "up" /\ status' = [status EXCEPT ![c] = "pending"] /\ down' = Append(down, c)
    BY <2>1, <2>2, <1>4, InAppend
  <2>3. CASE down' = down
    BY <2>3, <1>4
  <2>4. QED BY <1>1, <2>2, <2>3
<1>6. /\ \A d \in Commands \ {c} : status'[d] = status[d] /\ target'[d] = target[d]
      /\ \A r \in Requests : r # c => kind'[r] = kind[r]
      /\ status'[c] \in {"pending", "failed"}
      /\ status' \in [Commands -> {"unused", "pending", "acked", "failed", "cleared"}]
      /\ kind' \in [Requests -> Kinds] /\ target' \in [Commands -> Tabs \cup {NoTab}]
  <2>1. PICK k \in Kinds, t \in Tabs \cup {NoTab} :
          kind' = [kind EXCEPT ![c] = k] /\ target' = [target EXCEPT ![c] = t]
    BY <1>1
  <2>2. /\ status \in [Commands -> {"unused", "pending", "acked", "failed", "cleared"}]
        /\ kind \in [Requests -> Kinds] /\ target \in [Commands -> Tabs \cup {NoTab}]
    BY DEF IInv, Types
  <2>3. kind' \in [Requests -> Kinds] /\ \A r \in Requests : r # c => kind'[r] = kind[r]
    BY <2>1, <2>2
  <2>4. /\ target' \in [Commands -> Tabs \cup {NoTab}]
        /\ \A d \in Commands \ {c} : target'[d] = target[d]
    BY <2>1, <2>2
  <2>5. /\ \A d \in Commands \ {c} : status'[d] = status[d]
        /\ status'[c] \in {"pending", "failed"}
        /\ status' \in [Commands -> {"unused", "pending", "acked", "failed", "cleared"}]
    BY <1>1, <2>2
  <2>6. QED BY <2>3, <2>4, <2>5
<1>7. Types'
  BY <1>2, <1>5, <1>6 DEF IInv, Types
<1>8. LinkInv'
  BY <1>2, <1>5 DEF IInv, LinkInv
<1>9. PageInv' /\ SnapInv'
  BY <1>2 DEF IInv, PageInv, SnapInv
<1>10. MeantInv'
  BY <1>2, <1>3, <1>6 DEF IInv, MeantInv, At, Nowhere
<1>11. DoneInv'
  BY <1>2, <1>6 DEF IInv, DoneInv
<1>12. UnusedInv'
  BY <1>2, <1>5, <1>6 DEF IInv, UnusedInv, Nowhere, At
<1>13. DownInv'
  <2>1. In(down) \subseteq Commands
    BY QueuesTyped DEF IInv
  <2>2. \A d \in In(down') : pending[d] = NoPending /\ status'[d] # "cleared"
    BY <2>1, <1>3, <1>5, <1>6 DEF IInv, DownInv, Nowhere
  <2>3. PendingIsOfThisLink'
    BY <1>2, <1>6 DEF IInv, DownInv, PendingIsOfThisLink
  <2>4. QED BY <2>2, <2>3, <1>2, <1>5 DEF DownInv
<1>14. VerdictInv'
  <2>1. \A m \in In(up) : m.type = "verification" => m.req \in Requests /\ m.req # c
    BY <1>3, QueuesTyped, UpFacts DEF IInv, Nowhere
  <2>2. \A t \in Tabs : verdict[t] # NoVerdict => verdict[t].req \in Requests /\ verdict[t].req # c
    BY <1>3 DEF IInv, Types, Verdicts, Nowhere
  <2>3. QED BY <2>1, <2>2, <1>2, <1>6 DEF IInv, VerdictInv, VerdictFiled
<1>15. QED BY <1>7, <1>8, <1>9, <1>10, <1>11, <1>12, <1>13, <1>14 DEF IInv

\* What is under way is lost with the link.
LEMMA LinkClosesKeeps ==
  ASSUME IInv, LinkCloses
  PROVE  IInv'
<1>1. /\ link' = "closing" /\ down' = <<>> /\ up' = <<>>
      /\ UNCHANGED <<mcpVars, links, routerVars, pageVars, toBg, pushes>>
  BY DEF LinkCloses
<1>2. /\ status' = status /\ kind' = kind /\ target' = target
      /\ projected' = projected /\ retired' = retired /\ verdict' = verdict
      /\ listening' = listening /\ pending' = pending
      /\ shown' = shown /\ sess' = sess /\ ready' = ready /\ closed' = closed
      /\ toPage' = toPage /\ running' = running /\ did' = did /\ nextSess' = nextSess
      /\ navs' = navs /\ toBg' = toBg
  BY <1>1 DEF mcpVars, cacheVars, routerVars, pageVars
<1>3. In(up') = {} /\ In(down') = {} /\ Distinct(down')
  BY <1>1, InEmpty
<1>4. Types'
  BY <1>1, <1>2 DEF IInv, Types
<1>5. LinkInv' /\ PageInv' /\ SnapInv' /\ MeantInv'
  BY <1>1, <1>2, <1>3 DEF IInv, LinkInv, PageInv, SnapInv, MeantInv, At
<1>6. DoneInv' /\ UnusedInv'
  BY <1>2, <1>3 DEF IInv, DoneInv, UnusedInv, Nowhere, At
<1>7. DownInv' /\ VerdictInv'
  BY <1>1, <1>2, <1>3 DEF IInv, DownInv, PendingIsOfThisLink, VerdictInv, VerdictFiled
<1>8. QED BY <1>4, <1>5, <1>6, <1>7 DEF IInv

\* The session is cleared, and with it the queue; nothing is on its way down.
LEMMA LinkLostKeeps ==
  ASSUME IInv, LinkLost
  PROVE  IInv'
<1>1. /\ link = "closing" /\ link' = "down"
      /\ projected' = [t \in Tabs |-> NoEntry] /\ retired' = {}
      /\ verdict' = [t \in Tabs |-> NoVerdict]
      /\ status' = [c \in Commands |-> IF status[c] = "unused" THEN "unused" ELSE "cleared"]
      /\ UNCHANGED <<kind, target, down, up, links, routerVars, pageVars, toBg, pushes>>
  BY DEF LinkLost
<1>2. /\ kind' = kind /\ target' = target /\ down' = down /\ up' = up
      /\ listening' = listening /\ pending' = pending
      /\ shown' = shown /\ sess' = sess /\ ready' = ready /\ closed' = closed
      /\ toPage' = toPage /\ running' = running /\ did' = did /\ nextSess' = nextSess
      /\ navs' = navs /\ toBg' = toBg
  BY <1>1 DEF routerVars, pageVars
<1>3. up = <<>> /\ down = <<>> /\ In(up) = {} /\ In(down) = {}
  BY <1>1, InEmpty DEF IInv, LinkInv
<1>4. Types'
  <2>1. /\ status' \in [Commands -> {"unused", "pending", "acked", "failed", "cleared"}]
        /\ projected' \in [Tabs -> 0..nextSess \cup {NoEntry}]
        /\ verdict' \in [Tabs -> Verdicts \cup {NoVerdict}] /\ retired' \subseteq Tabs
    BY <1>1
  <2>2. QED BY <2>1, <1>1, <1>2 DEF IInv, Types
<1>5. LinkInv' /\ PageInv' /\ SnapInv' /\ MeantInv'
  BY <1>2, <1>3 DEF IInv, LinkInv, PageInv, SnapInv, MeantInv, At
<1>6. DoneInv'
  BY <1>1, <1>2 DEF IInv, DoneInv
<1>7. UnusedInv'
  BY <1>1, <1>2 DEF IInv, UnusedInv, Nowhere, At
<1>8. DownInv' /\ VerdictInv'
  BY <1>1, <1>2, <1>3 DEF IInv, DownInv, PendingIsOfThisLink, VerdictInv, VerdictFiled
<1>9. QED BY <1>4, <1>5, <1>6, <1>7, <1>8 DEF IInv

\* A new client has empty queues, and the router does not listen yet.
LEMMA PairKeeps ==
  ASSUME IInv, Pair
  PROVE  IInv'
<1>1. /\ link' = "up" /\ listening' = FALSE
      /\ UNCHANGED <<mcpVars, down, up, pending, shown, pageVars, toBg, pushes>>
  BY DEF Pair
<1>2. /\ status' = status /\ kind' = kind /\ target' = target
      /\ projected' = projected /\ retired' = retired /\ verdict' = verdict
      /\ down' = down /\ up' = up /\ pending' = pending
      /\ shown' = shown /\ sess' = sess /\ ready' = ready /\ closed' = closed
      /\ toPage' = toPage /\ running' = running /\ did' = did /\ nextSess' = nextSess
      /\ navs' = navs /\ toBg' = toBg
  BY <1>1 DEF mcpVars, cacheVars, pageVars
<1>3. listening' \in BOOLEAN
  BY <1>1, Zenon
<1>4. Types'
  BY <1>1, <1>2, <1>3 DEF IInv, Types
<1>5. LinkInv' /\ PageInv' /\ SnapInv' /\ MeantInv'
  BY <1>1, <1>2 DEF IInv, LinkInv, PageInv, SnapInv, MeantInv, At
<1>6. DoneInv' /\ UnusedInv'
  BY <1>2 DEF IInv, DoneInv, UnusedInv, Nowhere, At
<1>7. DownInv' /\ VerdictInv'
  BY <1>1, <1>2 DEF IInv, DownInv, PendingIsOfThisLink, VerdictInv, VerdictFiled
<1>8. QED BY <1>4, <1>5, <1>6, <1>7 DEF IInv

\* The MCP process takes the first message that came up.
LEMMA ReceiveFacts ==
  ASSUME IInv, up # <<>>, up' = Tail(up)
  PROVE  /\ Head(up) \in UpMsgs /\ Head(up) \in In(up) /\ up' \in Seq(UpMsgs)
         /\ In(up') \subseteq In(up)
BY InTail DEF IInv, Types

\* An acknowledgement makes only its own command acked or failed.
LEMMA AckKeeps ==
  ASSUME IInv, link = "up", up # <<>>, up' = Tail(up), Head(up).type = "ack", ack(Head(up)),
         UNCHANGED <<link, down, links, routerVars, pageVars, toBg, pushes>>
  PROVE  IInv'
<1> DEFINE m == Head(up)
<1>1. /\ m \in UpMsgs /\ m \in In(up) /\ up' \in Seq(UpMsgs) /\ In(up') \subseteq In(up)
      /\ m.type = "ack"
  BY ReceiveFacts
<1>2. /\ status' = IF status[m.req] \in {"pending", "acked", "failed"}
                   THEN [status EXCEPT ![m.req] = IF m.ok THEN "acked" ELSE "failed"]
                   ELSE status
      /\ kind' = kind /\ target' = target
      /\ projected' = projected /\ retired' = retired /\ verdict' = verdict
      /\ link' = link /\ down' = down /\ listening' = listening /\ pending' = pending
      /\ shown' = shown /\ sess' = sess /\ ready' = ready /\ closed' = closed
      /\ toPage' = toPage /\ running' = running /\ did' = did /\ nextSess' = nextSess
      /\ navs' = navs /\ toBg' = toBg
  BY DEF ack, cacheVars, routerVars, pageVars
<1> HIDE DEF m
<1>3. m.req \in Commands /\ m.ok \in BOOLEAN
  BY <1>1, UpFacts
<1>4. m.ok => did[m.req] # NoTab
  BY <1>1 DEF IInv, DoneInv
<1>5. /\ status' \in [Commands -> {"unused", "pending", "acked", "failed", "cleared"}]
      /\ \A c \in Commands : /\ status'[c] = "unused" => status[c] = "unused"
                             /\ status'[c] = "cleared" => status[c] = "cleared"
                             /\ status'[c] = "acked" => status[c] = "acked" \/ did[c] # NoTab
  BY <1>2, <1>3, <1>4 DEF IInv, Types
<1>6. Types'
  BY <1>1, <1>2, <1>5 DEF IInv, Types
<1>7. LinkInv'
  BY <1>2 DEF IInv, LinkInv
<1>8. PageInv' /\ SnapInv' /\ MeantInv'
  BY <1>1, <1>2 DEF IInv, PageInv, SnapInv, MeantInv, At
<1>9. DoneInv'
  BY <1>1, <1>2, <1>5 DEF IInv, DoneInv
<1>10. UnusedInv'
  BY <1>1, <1>2, <1>5 DEF IInv, UnusedInv, Nowhere, At
<1>11. DownInv'
  BY <1>2, <1>5, QueuesTyped DEF IInv, DownInv, PendingIsOfThisLink
<1>12. VerdictInv'
  BY <1>1, <1>2 DEF IInv, VerdictInv, VerdictFiled
<1>13. QED BY <1>6, <1>7, <1>8, <1>9, <1>10, <1>11, <1>12 DEF IInv

\* What the cache makes of a message: the projection keeps its type, and a verdict
\* is kept, dropped, or replaced by one of the projected session.
LEMMA CacheKeeps ==
  ASSUME IInv, link = "up", up # <<>>, up' = Tail(up),
         UNCHANGED <<status, kind, target, link, down, links, routerVars, pageVars, toBg, pushes>>,
         projected' \in [Tabs -> 0..nextSess \cup {NoEntry}], retired' \subseteq Tabs,
         verdict' \in [Tabs -> Verdicts \cup {NoVerdict}],
         \A t \in Tabs : verdict'[t] # NoVerdict =>
           /\ verdict'[t].session = projected'[t]
           /\ \/ verdict'[t] = verdict[t]
              \/ \E m \in In(up) : m.type = "verification" /\ m.req = verdict'[t].req
  PROVE  IInv'
<1>1. up' \in Seq(UpMsgs) /\ In(up') \subseteq In(up) /\ LinkInv'
  BY ReceiveFacts DEF IInv, LinkInv
<1>2. /\ status' = status /\ kind' = kind /\ target' = target
      /\ link' = link /\ down' = down /\ listening' = listening /\ pending' = pending
      /\ shown' = shown /\ sess' = sess /\ ready' = ready /\ closed' = closed
      /\ toPage' = toPage /\ running' = running /\ did' = did /\ nextSess' = nextSess
      /\ navs' = navs /\ toBg' = toBg
  BY DEF routerVars, pageVars
<1>3. Types'
  BY <1>1, <1>2 DEF IInv, Types
<1>4. PageInv' /\ SnapInv' /\ MeantInv'
  BY <1>1, <1>2 DEF IInv, PageInv, SnapInv, MeantInv, At
<1>5. DoneInv'
  BY <1>1, <1>2 DEF IInv, DoneInv
<1>6. UnusedInv'
  <2> SUFFICES ASSUME NEW c \in Commands, status[c] = "unused", Nowhere(c)
               PROVE  Nowhere(c)'
    BY <1>2 DEF IInv, UnusedInv
  <2>1. \A t \in Tabs : verdict'[t] # NoVerdict => verdict'[t].req # c
    BY DEF Nowhere
  <2>2. QED BY <2>1, <1>1, <1>2 DEF Nowhere, At
<1>7. DownInv'
  BY <1>2 DEF IInv, DownInv, PendingIsOfThisLink
<1>8. VerdictInv'
  <2>1. \A t \in Tabs : verdict'[t] # NoVerdict => kind[verdict'[t].req] = "request_verification"
    BY DEF IInv, VerdictInv, VerdictFiled
  <2>2. QED BY <2>1, <1>1, <1>2 DEF IInv, VerdictInv, VerdictFiled
<1>9. QED BY <1>1, <1>3, <1>4, <1>5, <1>6, <1>7, <1>8 DEF IInv

\* Each message of the extension is taken by one of the above.
LEMMA McpReceivesKeeps ==
  ASSUME IInv, McpReceives
  PROVE  IInv'
<1> DEFINE m == Head(up)
<1>1. /\ link = "up" /\ up # <<>> /\ up' = Tail(up)
      /\ UNCHANGED <<link, down, links, routerVars, pageVars, toBg, pushes>>
      /\ m.type = "ack" => ack(m)
      /\ m.type = "verification" => setVerificationResult(m)
      /\ m.type = "snapshot" => ingest(m)
      /\ m.type = "closed" => clearTab(m)
  BY DEF McpReceives
<1>2. m \in UpMsgs /\ m \in In(up)
  BY <1>1, ReceiveFacts
<1>3. CASE m.type = "ack"
  BY <1>1, <1>3, AckKeeps
<1> HIDE DEF m
<1>4. /\ projected \in [Tabs -> 0..nextSess \cup {NoEntry}] /\ retired \subseteq Tabs
      /\ verdict \in [Tabs -> Verdicts \cup {NoVerdict}]
      /\ \A t \in Tabs : verdict[t] # NoVerdict => verdict[t].session = projected[t]
  BY DEF IInv, Types, VerdictInv, VerdictFiled
<1>5. CASE m.type = "verification"
  <2>1. m.tab \in Tabs /\ m.session \in Nat /\ m.req \in Requests /\ m.by \in Makers
    BY <1>2, <1>5, UpFacts
  <2> DEFINE v == Verdict(m)
  <2>2. /\ verdict' = IF m.session # 0 /\ projected[m.tab] = m.session
                     THEN [verdict EXCEPT ![m.tab] = v] ELSE verdict
        /\ UNCHANGED <<status, kind, target, projected, retired>>
    BY <1>1, <1>5 DEF setVerificationResult
  <2>3. v \in Verdicts /\ v.req = m.req /\ v.session = m.session
    BY <2>1 DEF Verdicts, Verdict
  <2> HIDE DEF v
  <2>4. verdict' \in [Tabs -> Verdicts \cup {NoVerdict}]
    BY <2>1, <2>2, <2>3, <1>4
  <2>5. \A t \in Tabs : verdict'[t] # NoVerdict =>
          /\ verdict'[t].session = projected[t]
          /\ \/ verdict'[t] = verdict[t]
             \/ \E n \in In(up) : n.type = "verification" /\ n.req = verdict'[t].req
    BY <2>1, <2>2, <2>3, <1>2, <1>4, <1>5
  <2>6. QED BY <2>2, <2>4, <2>5, <1>1, <1>4, CacheKeeps
<1>6. CASE m.type \in {"snapshot", "closed"}
  <2>1. m.tab \in Tabs /\ m.session \in Nat
    BY <1>2, <1>6, UpFacts
  <2>2. \/ UNCHANGED cacheVars
        \/ /\ \E v \in 0..nextSess \cup {NoEntry} : projected' = [projected EXCEPT ![m.tab] = v]
           /\ retired' \subseteq Tabs
           /\ verdict' = [verdict EXCEPT ![m.tab] = NoVerdict]
    <3>1. CASE m.type = "snapshot"
      <4>1. ingest(m) /\ m.session \in 0..nextSess
        BY <3>1, <2>1, <1>1, <1>2 DEF IInv, SnapInv, Types
      <4>2. QED BY <4>1, <2>1, <1>4 DEF ingest
    <3>2. CASE m.type = "closed"
      <4>1. clearTab(m)
        BY <3>2, <1>1
      <4>2. QED BY <4>1, <2>1, <1>4 DEF clearTab
    <3>3. QED BY <3>1, <3>2, <1>6
  <2>3. UNCHANGED <<status, kind, target>>
    BY <1>1, <1>6 DEF ingest, clearTab
  <2>4. /\ projected' \in [Tabs -> 0..nextSess \cup {NoEntry}] /\ retired' \subseteq Tabs
        /\ verdict' \in [Tabs -> Verdicts \cup {NoVerdict}]
        /\ \A t \in Tabs : verdict'[t] # NoVerdict =>
             verdict'[t].session = projected'[t] /\ verdict'[t] = verdict[t]
    BY <2>1, <2>2, <1>4 DEF cacheVars
  <2>5. QED BY <2>3, <2>4, <1>1, CacheKeeps
<1>7. QED BY <1>2, <1>3, <1>5, <1>6, UpFacts

------------------------------------------------------------------------------
(* The background.                                                         *)

\* What is sent on an open link is on its way; on another it is lost.
LEMMA SentUp ==
  ASSUME up \in Seq(UpMsgs), NEW m \in UpMsgs, SendUp(<<m>>)
  PROVE  up' \in Seq(UpMsgs) /\ In(up') \subseteq In(up) \cup {m} /\ (link # "up" => up' = up)
<1>1. up \o <<m>> = Append(up, m)
  OBVIOUS
<1>2. Append(up, m) \in Seq(UpMsgs) /\ In(Append(up, m)) = In(up) \cup {m}
  BY InAppend
<1>3. QED BY <1>1, <1>2 DEF SendUp

\* Snapshots and closes are messages the MCP process knows.
LEMMA SnapshotIsUp ==
  ASSUME Types, NEW t \in Tabs, NEW x \in 0..nextSess
  PROVE  /\ SnapshotMsg(t, x) \in UpMsgs /\ ClosedMsg(t, x) \in UpMsgs
         /\ SnapshotMsg(t, x).type = "snapshot" /\ SnapshotMsg(t, x).session <= nextSess
         /\ ClosedMsg(t, x).type = "closed"
<1>1. x \in Nat /\ x <= nextSess
  BY DEF Types
<1>2. QED BY <1>1 DEF SnapshotMsg, ClosedMsg, UpMsgs

\* The router forgets the commands of the last link.
LEMMA AttachKeeps ==
  ASSUME IInv, attachClient
  PROVE  IInv'
<1>1. PICK t \in Tabs : SendUp(<<SnapshotMsg(t, sess[t])>>)
  BY DEF attachClient
<1>2. /\ listening' = TRUE
      /\ pending' = [r \in Requests |-> IF r \in Commands THEN NoPending ELSE pending[r]]
      /\ status' = status /\ kind' = kind /\ target' = target
      /\ projected' = projected /\ retired' = retired /\ verdict' = verdict
      /\ link' = link /\ down' = down /\ shown' = shown /\ sess' = sess /\ ready' = ready
      /\ closed' = closed /\ toPage' = toPage /\ running' = running /\ did' = did
      /\ nextSess' = nextSess /\ navs' = navs /\ toBg' = toBg
  BY DEF attachClient, mcpVars, cacheVars, pageVars
<1>3. PICK m \in UpMsgs : m.type = "snapshot" /\ m.session <= nextSess /\ SendUp(<<m>>)
  <2>1. sess[t] \in 0..nextSess
    BY DEF IInv, Types
  <2>2. QED BY <2>1, <1>1, SnapshotIsUp DEF IInv
<1>4. up' \in Seq(UpMsgs) /\ In(up') \subseteq In(up) \cup {m} /\ (link # "up" => up' = up)
  BY <1>3, SentUp DEF IInv, Types
<1>5. /\ pending' \in [Requests -> [tab : Tabs, session : Nat] \cup {NoPending}]
      /\ \A c \in Commands : pending'[c] = NoPending
  BY <1>2 DEF IInv, Types, Requests
<1>6. Types'
  <2>1. listening' \in BOOLEAN
    BY <1>2, Zenon
  <2>2. QED BY <2>1, <1>2, <1>4, <1>5 DEF IInv, Types
<1>7. LinkInv' /\ PageInv' /\ SnapInv' /\ MeantInv'
  BY <1>2, <1>3, <1>4 DEF IInv, LinkInv, PageInv, SnapInv, MeantInv, At
<1>8. DoneInv'
  BY <1>2, <1>3, <1>4 DEF IInv, DoneInv
<1>9. UnusedInv'
  BY <1>2, <1>3, <1>4, <1>5 DEF IInv, UnusedInv, Nowhere, At
<1>10. DownInv'
  BY <1>2, <1>5, QueuesTyped DEF IInv, DownInv, PendingIsOfThisLink
<1>11. VerdictInv'
  BY <1>2, <1>3, <1>4 DEF IInv, VerdictInv, VerdictFiled
<1>12. QED BY <1>6, <1>7, <1>8, <1>9, <1>10, <1>11 DEF IInv

\* A push sends one snapshot.
LEMMA PushKeeps ==
  ASSUME IInv, NEW t \in Tabs, pushForTab(t)
  PROVE  IInv'
<1>1. /\ SendUp(<<SnapshotMsg(t, sess[t])>>)
      /\ status' = status /\ kind' = kind /\ target' = target
      /\ projected' = projected /\ retired' = retired /\ verdict' = verdict
      /\ link' = link /\ down' = down /\ shown' = shown /\ sess' = sess /\ ready' = ready
      /\ closed' = closed /\ toPage' = toPage /\ running' = running /\ did' = did
      /\ nextSess' = nextSess /\ navs' = navs /\ toBg' = toBg
      /\ listening' = listening /\ pending' = pending
  BY DEF pushForTab, mcpVars, cacheVars, routerVars, pageVars
<1>2. PICK m \in UpMsgs : m.type = "snapshot" /\ m.session <= nextSess /\ SendUp(<<m>>)
  <2>1. sess[t] \in 0..nextSess
    BY DEF IInv, Types
  <2>2. QED BY <2>1, <1>1, SnapshotIsUp DEF IInv
<1>3. up' \in Seq(UpMsgs) /\ In(up') \subseteq In(up) \cup {m} /\ (link # "up" => up' = up)
  BY <1>2, SentUp DEF IInv, Types
<1>4. Types'
  BY <1>1, <1>3 DEF IInv, Types
<1>5. LinkInv' /\ PageInv' /\ SnapInv' /\ MeantInv'
  BY <1>1, <1>2, <1>3 DEF IInv, LinkInv, PageInv, SnapInv, MeantInv, At
<1>6. DoneInv' /\ UnusedInv'
  BY <1>1, <1>2, <1>3 DEF IInv, DoneInv, UnusedInv, Nowhere, At
<1>7. DownInv' /\ VerdictInv'
  BY <1>1, <1>2, <1>3 DEF IInv, DownInv, PendingIsOfThisLink, VerdictInv, VerdictFiled
<1>8. QED BY <1>4, <1>5, <1>6, <1>7 DEF IInv

\* A command that nobody hears is lost on its way.
LEMMA UnheardKeeps ==
  ASSUME IInv, CommandUnheard
  PROVE  IInv'
<1>1. /\ down # <<>> /\ down' = Tail(down)
      /\ status' = status /\ kind' = kind /\ target' = target
      /\ projected' = projected /\ retired' = retired /\ verdict' = verdict
      /\ link = "up" /\ link' = link /\ up' = up /\ shown' = shown /\ sess' = sess /\ ready' = ready
      /\ closed' = closed /\ toPage' = toPage /\ running' = running /\ did' = did
      /\ nextSess' = nextSess /\ navs' = navs /\ toBg' = toBg
      /\ listening' = listening /\ pending' = pending
  BY DEF CommandUnheard, mcpVars, cacheVars, routerVars, pageVars
<1>2. down' \in Seq(Commands) /\ In(down') \subseteq In(down) /\ Distinct(down')
  BY <1>1, InTail DEF IInv, Types, DownInv
<1>3. Types'
  BY <1>1, <1>2 DEF IInv, Types
<1>4. LinkInv' /\ PageInv' /\ SnapInv' /\ MeantInv'
  BY <1>1 DEF IInv, LinkInv, PageInv, SnapInv, MeantInv, At
<1>5. DoneInv' /\ UnusedInv'
  BY <1>1, <1>2 DEF IInv, DoneInv, UnusedInv, Nowhere, At
<1>6. DownInv' /\ VerdictInv'
  BY <1>1, <1>2 DEF IInv, DownInv, PendingIsOfThisLink, VerdictInv, VerdictFiled
<1>7. QED BY <1>3, <1>4, <1>5, <1>6 DEF IInv

\* A request is forwarded to a page whose tab it is meant for.
LEMMA ForwardKeeps ==
  ASSUME IInv, NEW r \in Requests, NEW t \in Tabs, Forward(r, t),
         r \in Commands => /\ link = "up" /\ r \in In(down) /\ target[r] \in {t, NoTab}
                          /\ r \notin In(down'),
         down' \in Seq(Commands), Distinct(down'), In(down') \subseteq In(down),
         down' # down => link = "up",
         UNCHANGED <<mcpVars, link, up, links, listening, shown, sess, ready, closed,
                     running, did, nextSess, navs, toBg, pushes>>
  PROVE  IInv'
<1> DEFINE p == [tab |-> t, session |-> sess[t]]
           m == PageMsg(r, sess[t])
<1>1. /\ pending' = [pending EXCEPT ![r] = p] /\ toPage' = [toPage EXCEPT ![t] = Append(@, m)]
      /\ status' = status /\ kind' = kind /\ target' = target
      /\ projected' = projected /\ retired' = retired /\ verdict' = verdict
      /\ link' = link /\ up' = up /\ shown' = shown /\ sess' = sess /\ ready' = ready
      /\ closed' = closed /\ running' = running /\ did' = did
      /\ nextSess' = nextSess /\ navs' = navs /\ toBg' = toBg /\ listening' = listening
  BY DEF Forward, mcpVars, cacheVars
<1>2. sess[t] \in Nat /\ p \in [tab : Tabs, session : Nat] /\ m \in PageMsgs /\ m.req = r
      /\ p.tab = t /\ p.session = sess[t]
  <2>1. sess[t] \in Nat
    BY DEF IInv, Types
  <2>2. QED BY <2>1 DEF PageMsg, PageMsgs
<1> HIDE DEF p, m
<1>3. /\ pending' \in [Requests -> [tab : Tabs, session : Nat] \cup {NoPending}]
      /\ \A q \in Requests : q # r => pending'[q] = pending[q]
  BY <1>1, <1>2 DEF IInv, Types
<1>4. /\ toPage' \in [Tabs -> Seq(PageMsgs)]
      /\ \A u \in Tabs : At(u)' \subseteq At(u) \cup (IF u = t THEN {m} ELSE {})
  <2>1. toPage \in [Tabs -> Seq(PageMsgs)] /\ toPage[t] \in Seq(PageMsgs)
    BY DEF IInv, Types
  <2>2. Append(toPage[t], m) \in Seq(PageMsgs) /\ In(Append(toPage[t], m)) = In(toPage[t]) \cup {m}
    BY <2>1, <1>2, InAppend
  <2>3. QED BY <2>1, <2>2, <1>1 DEF At
<1>5. Types'
  BY <1>1, <1>3, <1>4 DEF IInv, Types
<1>6. LinkInv' /\ PageInv' /\ SnapInv'
  BY <1>1 DEF IInv, LinkInv, PageInv, SnapInv
<1>7. MeantInv'
  BY <1>1, <1>2, <1>4 DEF IInv, MeantInv
<1>8. DoneInv' /\ VerdictInv'
  BY <1>1 DEF IInv, DoneInv, VerdictInv, VerdictFiled
<1>9. UnusedInv'
  <2> SUFFICES ASSUME NEW c \in Commands, status[c] = "unused", Nowhere(c)
               PROVE  Nowhere(c)'
    BY <1>1 DEF IInv, UnusedInv
  <2>1. c # r
    BY DEF Nowhere
  <2>2. \A u \in Tabs : \A n \in At(u)' : n.req # c
    BY <2>1, <1>2, <1>4 DEF Nowhere
  <2>3. QED BY <2>1, <2>2, <1>1, <1>3 DEF Nowhere, Requests
<1>10. DownInv'
  <2>1. \A c \in In(down') : pending'[c] = NoPending /\ status[c] # "cleared"
    BY <1>3, QueuesTyped DEF IInv, DownInv, Requests
  <2>2. r \in Commands => status[r] # "cleared"
    BY DEF IInv, DownInv
  <2>3. PendingIsOfThisLink'
    BY <2>2, <1>1, <1>3 DEF IInv, DownInv, PendingIsOfThisLink, Requests
  <2>4. QED BY <2>1, <2>3, <1>1 DEF DownInv
<1>11. QED BY <1>5, <1>6, <1>7, <1>8, <1>9, <1>10 DEF IInv

\* The command at the head is taken off the queue and forwarded.
LEMMA RouteKeeps ==
  ASSUME IInv, RouteCommand
  PROVE  IInv'
<1> DEFINE r == Head(down)
<1>1. PICK t \in Tabs : target[r] \in {t, NoTab} /\ Forward(r, t)
  BY DEF RouteCommand
<1>2. /\ link = "up" /\ down # <<>> /\ down' = Tail(down)
      /\ UNCHANGED <<mcpVars, link, up, links, listening, shown, sess, ready, closed,
                      running, did, nextSess, navs, toBg, pushes>>
  BY DEF RouteCommand
<1>3. /\ r \in Commands /\ r \in In(down) /\ r \notin In(down')
      /\ down' \in Seq(Commands) /\ Distinct(down') /\ In(down') \subseteq In(down)
  BY <1>2, InTail DEF IInv, Types, DownInv
<1> HIDE DEF r
<1>4. r \in Requests
  BY <1>3 DEF Requests
<1>5. QED BY <1>1, <1>2, <1>3, <1>4, ForwardKeeps

\* A local request is forwarded without a queue.
LEMMA LocalKeeps ==
  ASSUME IInv, NEW r \in Locals, NEW t \in Tabs, requestLocalVerify(r, t)
  PROVE  IInv'
<1>1. /\ Forward(r, t) /\ down' = down
      /\ UNCHANGED <<mcpVars, link, up, links, listening, shown, sess, ready, closed,
                      running, did, nextSess, navs, toBg, pushes>>
  BY DEF requestLocalVerify, linkVars
<1>2. r \in Requests /\ r \notin Commands
  BY RoutingAssumption DEF Requests
<1>3. down' \in Seq(Commands) /\ Distinct(down') /\ In(down') \subseteq In(down)
  BY <1>1 DEF IInv, Types, DownInv
<1>4. QED BY <1>1, <1>2, <1>3, ForwardKeeps

\* No tab is named and none is active: the command is answered at once, as failed.
LEMMA RefuseKeeps ==
  ASSUME IInv, RefuseCommand
  PROVE  IInv'
<1> DEFINE c == Head(down)
           m == AckMsg(c, FALSE)
<1>1. /\ link = "up" /\ down # <<>> /\ down' = Tail(down) /\ up' = Append(up, m)
      /\ status' = status /\ kind' = kind /\ target' = target
      /\ projected' = projected /\ retired' = retired /\ verdict' = verdict
      /\ link' = link /\ shown' = shown /\ sess' = sess /\ ready' = ready
      /\ closed' = closed /\ toPage' = toPage /\ running' = running /\ did' = did
      /\ nextSess' = nextSess /\ navs' = navs /\ toBg' = toBg
      /\ listening' = listening /\ pending' = pending
  BY DEF RefuseCommand, mcpVars, cacheVars, routerVars, pageVars
<1>2. /\ c \in Commands /\ c \in In(down)
      /\ down' \in Seq(Commands) /\ Distinct(down') /\ In(down') \subseteq In(down)
  BY <1>1, InTail DEF IInv, Types, DownInv
<1> HIDE DEF c
<1>3. m \in UpMsgs /\ m.type = "ack" /\ m.req = c /\ ~m.ok
  BY <1>2 DEF UpMsgs, AckMsg
<1> HIDE DEF m
<1>4. up' \in Seq(UpMsgs) /\ In(up') = In(up) \cup {m}
  BY <1>1, <1>3, InAppend DEF IInv, Types
<1>5. Types'
  BY <1>1, <1>2, <1>4 DEF IInv, Types
<1>6. LinkInv' /\ PageInv' /\ SnapInv' /\ MeantInv'
  BY <1>1, <1>3, <1>4 DEF IInv, LinkInv, PageInv, SnapInv, MeantInv, At
<1>7. DoneInv'
  BY <1>1, <1>3, <1>4 DEF IInv, DoneInv
<1>8. UnusedInv'
  BY <1>1, <1>2, <1>3, <1>4 DEF IInv, UnusedInv, Nowhere, At
<1>9. DownInv' /\ VerdictInv'
  BY <1>1, <1>2, <1>3, <1>4 DEF IInv, DownInv, PendingIsOfThisLink, VerdictInv, VerdictFiled
<1>10. QED BY <1>5, <1>6, <1>7, <1>8, <1>9 DEF IInv

\* A result that is answered to nobody is taken, and the router may stop waiting.
LEMMA DiscardKeeps ==
  ASSUME IInv, ResultUnwanted \/ ResultOutdated
  PROVE  IInv'
<1>1. /\ toBg # <<>> /\ toBg' = Tail(toBg)
      /\ \/ pending' = pending
         \/ pending' = [pending EXCEPT ![Head(toBg).req] = NoPending]
      /\ status' = status /\ kind' = kind /\ target' = target
      /\ projected' = projected /\ retired' = retired /\ verdict' = verdict
      /\ link' = link /\ down' = down /\ up' = up /\ shown' = shown /\ sess' = sess
      /\ ready' = ready /\ closed' = closed /\ toPage' = toPage /\ running' = running
      /\ did' = did /\ nextSess' = nextSess /\ navs' = navs /\ listening' = listening
  BY DEF ResultUnwanted, ResultOutdated, Discard, mcpVars, cacheVars, linkVars, pageVars
<1>2. toBg' \in Seq(Results) /\ In(toBg') \subseteq In(toBg) /\ Head(toBg) \in Results
  BY <1>1, InTail DEF IInv, Types
<1>3. /\ pending' \in [Requests -> [tab : Tabs, session : Nat] \cup {NoPending}]
      /\ \A r \in Requests : pending'[r] \in {pending[r], NoPending}
  <2>1. Head(toBg).req \in Requests
    BY <1>2 DEF Results
  <2>2. QED BY <2>1, <1>1 DEF IInv, Types
<1>4. Types'
  BY <1>1, <1>2, <1>3 DEF IInv, Types
<1>5. LinkInv' /\ PageInv' /\ SnapInv' /\ MeantInv'
  BY <1>1 DEF IInv, LinkInv, PageInv, SnapInv, MeantInv, At
<1>6. DoneInv'
  BY <1>1, <1>2 DEF IInv, DoneInv
<1>7. UnusedInv'
  BY <1>1, <1>2, <1>3 DEF IInv, UnusedInv, Nowhere, At, Requests
<1>8. DownInv' /\ VerdictInv'
  BY <1>1, <1>3, QueuesTyped DEF IInv, DownInv, PendingIsOfThisLink, VerdictInv, VerdictFiled,
     Requests
<1>9. QED BY <1>4, <1>5, <1>6, <1>7, <1>8 DEF IInv

\* What is sent for the result of a command: its acknowledgement, and a verdict if
\* it was a verification.
LEMMA AnsweredUp ==
  ASSUME Types, NEW m \in Results, m.req \in Commands,
         SendUp(<<AckMsg(m.req, m.ok)>> \o
                IF kind[m.req] = "request_verification"
                THEN <<VerdictMsg(m.req, m.tab, m.session, m.by)>> ELSE <<>>)
  PROVE  /\ up' \in Seq(UpMsgs) /\ (link # "up" => up' = up)
         /\ \A n \in In(up') : n \in In(up) \/
              /\ n.type \in {"ack", "verification"} /\ n.req = m.req
              /\ n.type = "ack" => n.ok = m.ok
              /\ n.type = "verification" =>
                   /\ kind[m.req] = "request_verification"
                   /\ n.by = m.by /\ n.tab = m.tab /\ n.session = m.session
         /\ Len(up') > Len(up) =>
              up'[Len(up')].type \in {"ack", "verification"} /\ up'[Len(up')].req = m.req
<1> DEFINE a == AckMsg(m.req, m.ok)
           v == VerdictMsg(m.req, m.tab, m.session, m.by)
<1>1. a \in UpMsgs /\ a.type = "ack" /\ a.req = m.req /\ a.ok = m.ok
  <2>1. m.ok \in BOOLEAN
    BY DEF Results
  <2>2. QED BY <2>1 DEF AckMsg, UpMsgs
<1>2. /\ v \in UpMsgs /\ v.type = "verification" /\ v.req = m.req
      /\ v.by = m.by /\ v.tab = m.tab /\ v.session = m.session
  <2>1. m.tab \in Tabs /\ m.session \in Nat /\ m.by \in Makers
    BY DEF Results
  <2>2. QED BY <2>1 DEF VerdictMsg, UpMsgs
<1>3. up' = IF link = "up"
            THEN up \o (<<a>> \o IF kind[m.req] = "request_verification" THEN <<v>> ELSE <<>>)
            ELSE up
  BY DEF SendUp
<1> HIDE DEF a, v
<1>4. up \in Seq(UpMsgs)
  BY DEF Types
<1>5. up \o (<<a>> \o <<>>) = Append(up, a) /\ up \o (<<a>> \o <<v>>) = Append(Append(up, a), v)
  <2>1. <<a>> \o <<>> = <<a>> /\ up \o <<a>> = Append(up, a)
    BY <1>1, <1>4
  <2>2. up \o (<<a>> \o <<v>>) = Append(Append(up, a), v)
    BY <1>1, <1>2, <1>4
  <2>3. QED BY <2>1, <2>2
<1> DEFINE b == Append(up, a)
<1>6. /\ b \in Seq(UpMsgs) /\ In(b) = In(up) \cup {a}
      /\ Append(b, v) \in Seq(UpMsgs) /\ In(Append(b, v)) = In(b) \cup {v}
  <2>1. \A s \in Seq(UpMsgs), x \in UpMsgs :
          Append(s, x) \in Seq(UpMsgs) /\ In(Append(s, x)) = In(s) \cup {x}
    BY InAppend
  <2>2. QED BY <2>1, <1>1, <1>2, <1>4
<1>7. b[Len(b)] = a /\ Append(b, v)[Len(Append(b, v))] = v
  <2>1. \A s \in Seq(UpMsgs), x \in UpMsgs : Append(s, x)[Len(Append(s, x))] = x
    BY AppendProperties
  <2>2. QED BY <2>1, <1>1, <1>2, <1>4, <1>6
<1> HIDE DEF b
<1>8. up' = up \/ up' = b \/ (up' = Append(b, v) /\ kind[m.req] = "request_verification")
  BY <1>3, <1>5 DEF b
<1>9. up' = up => ~(Len(up') > Len(up))
  BY <1>4, LenProperties
<1>10. QED BY <1>1, <1>2, <1>3, <1>4, <1>6, <1>7, <1>8, <1>9

\* A result that answers its request is passed on, to the panel or to the queue.
LEMMA ResultKeeps ==
  ASSUME IInv, HandleResult
  PROVE  IInv'
<1> DEFINE m == Head(toBg)
<1>1. /\ toBg # <<>> /\ toBg' = Tail(toBg) /\ pending' = [pending EXCEPT ![m.req] = NoPending]
      /\ pending[m.req] # NoPending
      /\ shown' = IF m.req \in Locals THEN shown \cup {m.req} ELSE shown
      /\ IF m.req \in Commands
         THEN SendUp(<<AckMsg(m.req, m.ok)>> \o
                     IF kind[m.req] = "request_verification"
                     THEN <<VerdictMsg(m.req, m.tab, m.session, m.by)>> ELSE <<>>)
         ELSE up' = up
      /\ status' = status /\ kind' = kind /\ target' = target
      /\ projected' = projected /\ retired' = retired /\ verdict' = verdict
      /\ link' = link /\ down' = down /\ sess' = sess
      /\ ready' = ready /\ closed' = closed /\ toPage' = toPage /\ running' = running
      /\ did' = did /\ nextSess' = nextSess /\ navs' = navs /\ listening' = listening
  BY DEF HandleResult, Answers, mcpVars, cacheVars, pageVars
<1>2. /\ toBg' \in Seq(Results) /\ In(toBg') \subseteq In(toBg)
      /\ m \in Results /\ m \in In(toBg)
  BY <1>1, InTail DEF IInv, Types
<1> HIDE DEF m
<1>3. m.req \in Requests
  BY <1>2 DEF Results
<1>4. /\ pending' \in [Requests -> [tab : Tabs, session : Nat] \cup {NoPending}]
      /\ \A r \in Requests : pending'[r] \in {pending[r], NoPending}
  BY <1>1, <1>3 DEF IInv, Types
<1>5. /\ up' \in Seq(UpMsgs) /\ (link # "up" => up' = up)
      /\ \A n \in In(up') : n \in In(up) \/
           /\ n.type \in {"ack", "verification"} /\ n.req = m.req
           /\ n.type = "ack" => n.ok = m.ok
           /\ n.type = "verification" => kind[m.req] = "request_verification"
  <2>1. CASE m.req \in Commands
    BY <2>1, <1>1, <1>2, AnsweredUp DEF IInv
  <2>2. CASE m.req \notin Commands
    BY <2>2, <1>1 DEF IInv, Types
  <2>3. QED BY <2>1, <2>2
<1>6. m.ok => did[m.req] # NoTab
  BY <1>2 DEF IInv, DoneInv
<1>7. Types'
  BY <1>1, <1>2, <1>4, <1>5 DEF IInv, Types
<1>8. LinkInv' /\ PageInv' /\ MeantInv'
  BY <1>1, <1>5 DEF IInv, LinkInv, PageInv, MeantInv, At
<1>9. SnapInv'
  BY <1>1, <1>5 DEF IInv, SnapInv
<1>10. DoneInv'
  BY <1>1, <1>2, <1>5, <1>6 DEF IInv, DoneInv
<1>11. UnusedInv'
  <2> SUFFICES ASSUME NEW c \in Commands, status[c] = "unused", Nowhere(c)
               PROVE  Nowhere(c)'
    BY <1>1 DEF IInv, UnusedInv
  <2>1. c # m.req
    BY <1>1 DEF Nowhere
  <2>2. QED BY <2>1, <1>1, <1>2, <1>4, <1>5 DEF Nowhere, At, Requests
<1>12. DownInv'
  BY <1>1, <1>4, QueuesTyped DEF IInv, DownInv, PendingIsOfThisLink, Requests
<1>13. VerdictInv'
  BY <1>1, <1>5 DEF IInv, VerdictInv, VerdictFiled
<1>14. QED BY <1>7, <1>8, <1>9, <1>10, <1>11, <1>12, <1>13 DEF IInv

------------------------------------------------------------------------------
(* The pages.                                                              *)

\* A page that carries out a request it has, and answers it or not yet, keeps the
\* invariant.
LEMMA PageKeeps ==
  ASSUME IInv, NEW t \in Tabs, NEW m \in At(t), NEW x \in BOOLEAN,
         UNCHANGED <<mcpVars, linkVars, routerVars, sess, ready, closed, nextSess, navs, pushes>>,
         toPage' \in [Tabs -> Seq(PageMsgs)], running' \in [Tabs -> SUBSET PageMsgs],
         \A u \in Tabs : At(u)' \subseteq At(u) /\ (running'[u] # {} => ready[u]),
         did' = [did EXCEPT ![m.req] = IF x THEN t ELSE @],
         toBg' = Append(toBg, ResultMsg(m.req, t, m.session, x)) \/ (~x /\ toBg' = toBg)
  PROVE  IInv'
<1> DEFINE a == ResultMsg(m.req, t, m.session, x)
<1>1. m \in PageMsgs /\ m.req \in Requests /\ m.session \in Nat
  BY QueuesTyped DEF IInv, PageMsgs
<1>2. a \in Results /\ a.req = m.req /\ a.ok = x
  <2>1. sess[t] \in Nat
    BY DEF IInv, Types
  <2>2. QED BY <2>1, <1>1 DEF ResultMsg, Results, Makers
<1> HIDE DEF a
<1>3. toBg' \in Seq(Results) /\ In(toBg') \subseteq In(toBg) \cup {a}
  <2>1. toBg \in Seq(Results)
    BY DEF IInv, Types
  <2>2. Append(toBg, a) \in Seq(Results) /\ In(Append(toBg, a)) = In(toBg) \cup {a}
    BY <2>1, <1>2, InAppend
  <2>3. QED BY <2>1, <2>2 DEF a
<1>4. /\ status' = status /\ kind' = kind /\ target' = target
      /\ projected' = projected /\ retired' = retired /\ verdict' = verdict
      /\ link' = link /\ down' = down /\ up' = up /\ listening' = listening
      /\ pending' = pending /\ shown' = shown /\ sess' = sess
      /\ ready' = ready /\ closed' = closed /\ nextSess' = nextSess /\ navs' = navs
  BY DEF mcpVars, cacheVars, linkVars, routerVars
<1>5. /\ did' \in [Requests -> Tabs \cup {NoTab}]
      /\ \A r \in Requests : did'[r] = did[r] \/ (r = m.req /\ did'[r] = t)
      /\ x => did'[m.req] = t
  BY <1>1 DEF IInv, Types
<1>6. t # NoTab
  BY RoutingAssumption
<1>7. Types'
  BY <1>3, <1>4, <1>5 DEF IInv, Types
<1>8. LinkInv' /\ PageInv' /\ SnapInv'
  BY <1>4 DEF IInv, LinkInv, PageInv, SnapInv
<1>9. MeantInv'
  BY <1>4, <1>5 DEF IInv, MeantInv, Requests
<1>10. DoneInv'
  <2>1. \A n \in In(toBg') : n.req \in Requests
    BY <1>2, <1>3, QueuesTyped DEF IInv, Results
  <2>2. \A n \in In(up) : n.type = "ack" => n.req \in Requests
    BY QueuesTyped, UpFacts DEF IInv
  <2>3. \A n \in In(toBg') : n.ok => did'[n.req] # NoTab
    BY <2>1, <1>2, <1>3, <1>5, <1>6 DEF IInv, DoneInv
  <2>4. \A n \in In(up) : n.type = "ack" => (n.ok => did'[n.req] # NoTab)
    BY <2>2, <1>5, <1>6 DEF IInv, DoneInv
  <2>5. \A c \in Commands : status[c] = "acked" => did'[c] # NoTab
    BY <1>5, <1>6 DEF IInv, DoneInv, Requests
  <2>6. QED BY <2>3, <2>4, <2>5, <1>4 DEF DoneInv
<1>11. UnusedInv'
  <2> SUFFICES ASSUME NEW c \in Commands, status[c] = "unused", Nowhere(c)
               PROVE  Nowhere(c)'
    BY <1>4 DEF IInv, UnusedInv
  <2>1. c # m.req
    BY DEF Nowhere
  <2>2. did'[c] = NoTab
    BY <2>1, <1>5 DEF Nowhere, Requests
  <2>3. \A n \in In(toBg') : n.req # c
    BY <2>1, <1>2, <1>3 DEF Nowhere
  <2>4. \A u \in Tabs : \A n \in At(u)' : n.req # c
    BY DEF Nowhere
  <2>5. QED BY <2>2, <2>3, <2>4, <1>4 DEF Nowhere
<1>12. DownInv' /\ VerdictInv'
  BY <1>4 DEF IInv, DownInv, PendingIsOfThisLink, VerdictInv, VerdictFiled
<1>13. QED BY <1>7, <1>8, <1>9, <1>10, <1>11, <1>12 DEF IInv

\* The first message of a page's queue is one the page has.
LEMMA IncomingFacts ==
  ASSUME IInv, NEW t \in Tabs, toPage[t] # <<>>, toPage' = [toPage EXCEPT ![t] = Tail(@)]
  PROVE  /\ Head(toPage[t]) \in At(t) /\ Head(toPage[t]) \in PageMsgs
         /\ toPage' \in [Tabs -> Seq(PageMsgs)]
         /\ \A u \in Tabs : In(toPage'[u]) \subseteq In(toPage[u])
         /\ In(toPage[t]) = {Head(toPage[t])} \cup In(toPage'[t])
<1>1. toPage \in [Tabs -> Seq(PageMsgs)] /\ toPage[t] \in Seq(PageMsgs)
  BY DEF IInv, Types
<1>2. /\ Head(toPage[t]) \in PageMsgs /\ Tail(toPage[t]) \in Seq(PageMsgs)
      /\ In(toPage[t]) = {Head(toPage[t])} \cup In(Tail(toPage[t]))
  BY <1>1, InTail
<1>3. toPage'[t] = Tail(toPage[t]) /\ \A u \in Tabs : u # t => toPage'[u] = toPage[u]
  BY <1>1
<1>4. QED BY <1>1, <1>2, <1>3 DEF At

\* A command carried out at once leaves the queue of the page and is answered.
LEMMA HandleNowKeeps ==
  ASSUME IInv, NEW t \in Tabs, HandleNow(t)
  PROVE  IInv'
<1> DEFINE m == Head(toPage[t])
<1>1. PICK x \in BOOLEAN :
        /\ did' = [did EXCEPT ![m.req] = IF x THEN t ELSE @]
        /\ toBg' = Append(toBg, ResultMsg(m.req, t, m.session, x))
  BY DEF HandleNow
<1>2. /\ toPage[t] # <<>> /\ toPage' = [toPage EXCEPT ![t] = Tail(@)] /\ running' = running
      /\ UNCHANGED <<mcpVars, linkVars, routerVars, sess, ready, closed, nextSess, navs, pushes>>
  BY DEF HandleNow, Incoming
<1>3. /\ m \in At(t) /\ toPage' \in [Tabs -> Seq(PageMsgs)]
      /\ \A u \in Tabs : In(toPage'[u]) \subseteq In(toPage[u])
  BY <1>2, IncomingFacts
<1> HIDE DEF m
<1>4. running' \in [Tabs -> SUBSET PageMsgs]
  BY <1>2 DEF IInv, Types
<1>5. \A u \in Tabs : At(u)' \subseteq At(u) /\ (running'[u] # {} => ready[u])
  BY <1>2, <1>3 DEF At, IInv, PageInv
<1>6. QED BY <1>1, <1>2, <1>3, <1>4, <1>5, PageKeeps

\* A verification that ends is answered.
LEMMA EndKeeps ==
  ASSUME IInv, NEW t \in Tabs, EndVerification(t)
  PROVE  IInv'
<1>1. PICK m \in running[t], x \in BOOLEAN :
        /\ running' = [running EXCEPT ![t] = @ \ {m}]
        /\ did' = [did EXCEPT ![m.req] = IF x THEN t ELSE @]
        /\ toBg' = Append(toBg, ResultMsg(m.req, t, m.session, x))
        /\ toPage' = toPage
        /\ UNCHANGED <<mcpVars, linkVars, routerVars, sess, ready, closed, nextSess, navs, pushes>>
  BY DEF EndVerification
<1>2. m \in At(t) /\ toPage' \in [Tabs -> Seq(PageMsgs)] /\ running' \in [Tabs -> SUBSET PageMsgs]
  BY <1>1 DEF At, IInv, Types
<1>3. \A u \in Tabs : At(u)' \subseteq At(u) /\ (running'[u] # {} => ready[u])
  <2>1. \A u \in Tabs : running'[u] \subseteq running[u]
    BY <1>1 DEF IInv, Types
  <2>2. QED BY <2>1, <1>1 DEF At, IInv, PageInv
<1>4. QED BY <1>1, <1>2, <1>3, PageKeeps

\* A page that loses messages, or moves them from its queue to what it is at, and
\* does nothing yet.
LEMMA QuietKeeps ==
  ASSUME IInv,
         UNCHANGED <<mcpVars, link, down, links, routerVars, did, toBg, pushes>>,
         navs' \in Nat, up' \in Seq(UpMsgs), link # "up" => up' = up,
         \A n \in In(up') : n \in In(up) \/ n.type = "closed",
         nextSess' \in Nat \ {0}, nextSess' >= nextSess,
         sess' \in [Tabs -> 0..nextSess'], ready' \in [Tabs -> BOOLEAN],
         toPage' \in [Tabs -> Seq(PageMsgs)], running' \in [Tabs -> SUBSET PageMsgs],
         PageInv', \A u \in Tabs : At(u)' \subseteq At(u)
  PROVE  IInv'
<1>1. /\ status' = status /\ kind' = kind /\ target' = target
      /\ projected' = projected /\ retired' = retired /\ verdict' = verdict
      /\ link' = link /\ down' = down /\ listening' = listening
      /\ pending' = pending /\ shown' = shown /\ did' = did /\ toBg' = toBg
  BY DEF mcpVars, cacheVars, routerVars
<1>2. Types'
  <2>1. projected' \in [Tabs -> 0..nextSess' \cup {NoEntry}]
    <3>1. 0..nextSess \subseteq 0..nextSess'
      BY DEF IInv, Types
    <3>2. QED BY <3>1, <1>1 DEF IInv, Types
  <2>2. QED BY <2>1, <1>1 DEF IInv, Types
<1>3. LinkInv'
  BY <1>1 DEF IInv, LinkInv
<1>4. SnapInv'
  <2> SUFFICES ASSUME NEW n \in In(up'), n.type = "snapshot"
               PROVE  n.session <= nextSess'
    BY DEF SnapInv
  <2>1. n \in In(up) /\ n.session <= nextSess
    BY DEF IInv, SnapInv
  <2>2. n.session \in Nat
    BY <2>1, QueuesTyped, UpFacts DEF IInv
  <2>3. QED BY <2>1, <2>2 DEF IInv, Types
<1>5. MeantInv' /\ DoneInv'
  BY <1>1 DEF IInv, MeantInv, DoneInv
<1>6. UnusedInv'
  BY <1>1 DEF IInv, UnusedInv, Nowhere
<1>7. DownInv' /\ VerdictInv'
  BY <1>1 DEF IInv, DownInv, PendingIsOfThisLink, VerdictInv, VerdictFiled
<1>8. QED BY <1>2, <1>3, <1>4, <1>5, <1>6, <1>7 DEF IInv

\* A verification that starts moves from the queue to what the page is at.
LEMMA StartKeeps ==
  ASSUME IInv, NEW t \in Tabs, StartVerification(t)
  PROVE  IInv'
<1> DEFINE m == Head(toPage[t])
<1>1. /\ ready[t] /\ toPage[t] # <<>> /\ toPage' = [toPage EXCEPT ![t] = Tail(@)]
      /\ running' = [running EXCEPT ![t] = @ \cup {m}]
      /\ sess' = sess /\ ready' = ready /\ closed' = closed /\ nextSess' = nextSess
      /\ navs' = navs /\ up' = up
      /\ UNCHANGED <<mcpVars, link, down, links, routerVars, did, toBg, pushes>>
  BY DEF StartVerification, Incoming, linkVars
<1>2. /\ m \in At(t) /\ m \in PageMsgs /\ toPage' \in [Tabs -> Seq(PageMsgs)]
      /\ \A u \in Tabs : In(toPage'[u]) \subseteq In(toPage[u])
  BY <1>1, IncomingFacts
<1> HIDE DEF m
<1>3. /\ running' \in [Tabs -> SUBSET PageMsgs]
      /\ \A u \in Tabs : u # t => running'[u] = running[u]
      /\ running'[t] = running[t] \cup {m}
  BY <1>1, <1>2 DEF IInv, Types
<1>4. \A u \in Tabs : At(u)' \subseteq At(u)
  BY <1>2, <1>3 DEF At
<1>5. PageInv'
  BY <1>1, <1>3 DEF IInv, PageInv
<1>6. /\ nextSess \in Nat \ {0} /\ navs \in Nat /\ up \in Seq(UpMsgs)
      /\ sess \in [Tabs -> 0..nextSess] /\ ready \in [Tabs -> BOOLEAN]
  BY DEF IInv, Types
<1>7. QED BY <1>1, <1>2, <1>3, <1>4, <1>5, <1>6, QuietKeeps

\* A message to a page that is not there is lost.
LEMMA NobodyKeeps ==
  ASSUME IInv, NEW t \in Tabs, NobodyThere(t)
  PROVE  IInv'
<1>1. /\ toPage[t] # <<>> /\ toPage' = [toPage EXCEPT ![t] = Tail(@)] /\ running' = running
      /\ sess' = sess /\ ready' = ready /\ closed' = closed /\ nextSess' = nextSess
      /\ navs' = navs /\ up' = up
      /\ UNCHANGED <<mcpVars, link, down, links, routerVars, did, toBg, pushes>>
  BY DEF NobodyThere, linkVars
<1>2. /\ toPage' \in [Tabs -> Seq(PageMsgs)]
      /\ \A u \in Tabs : In(toPage'[u]) \subseteq In(toPage[u])
  BY <1>1, IncomingFacts
<1>3. \A u \in Tabs : At(u)' \subseteq At(u)
  BY <1>1, <1>2 DEF At
<1>4. PageInv'
  BY <1>1 DEF IInv, PageInv
<1>5. /\ nextSess \in Nat \ {0} /\ navs \in Nat /\ up \in Seq(UpMsgs)
      /\ sess \in [Tabs -> 0..nextSess] /\ ready \in [Tabs -> BOOLEAN]
      /\ running \in [Tabs -> SUBSET PageMsgs]
  BY DEF IInv, Types
<1>6. QED BY <1>1, <1>2, <1>3, <1>4, <1>5, QuietKeeps

\* The page that goes takes its verifications along.
LEMMA GoneKeeps ==
  ASSUME IInv, NEW t \in Tabs, PageGone(t), navs' = navs + 1,
         toPage' = toPage, nextSess' = nextSess,
         sess' \in {sess, [sess EXCEPT ![t] = 0]}, closed' \in {closed, closed \cup {t}},
         UNCHANGED <<mcpVars, link, down, links, routerVars, did, toBg, pushes>>,
         up' \in Seq(UpMsgs), link # "up" => up' = up,
         \A n \in In(up') : n \in In(up) \/ n.type = "closed"
  PROVE  IInv'
<1>1. /\ nextSess \in Nat \ {0} /\ navs \in Nat
      /\ sess \in [Tabs -> 0..nextSess] /\ ready \in [Tabs -> BOOLEAN]
      /\ toPage \in [Tabs -> Seq(PageMsgs)] /\ running \in [Tabs -> SUBSET PageMsgs]
  BY DEF IInv, Types
<1>2. /\ running' = [running EXCEPT ![t] = {}] /\ ready' = [ready EXCEPT ![t] = FALSE]
  BY DEF PageGone
<1>3. /\ running' \in [Tabs -> SUBSET PageMsgs] /\ ready' \in [Tabs -> BOOLEAN]
      /\ sess' \in [Tabs -> 0..nextSess] /\ navs' \in Nat
  <2>1. 0 \in 0..nextSess
    BY <1>1
  <2>2. sess' \in [Tabs -> 0..nextSess] /\ navs' \in Nat
    <3>1. [sess EXCEPT ![t] = 0] \in [Tabs -> 0..nextSess]
      BY <2>1, <1>1
    <3>2. sess' = sess \/ sess' = [sess EXCEPT ![t] = 0]
      OBVIOUS
    <3>3. sess' \in [Tabs -> 0..nextSess]
      BY <3>1, <3>2, <1>1, Zenon
    <3>4. QED BY <3>3, <1>1
  <2>3. running' \in [Tabs -> SUBSET PageMsgs]
    BY <1>1, <1>2
  <2>4. ready' \in [Tabs -> BOOLEAN]
    BY <1>1, <1>2
  <2>5. QED BY <2>2, <2>3, <2>4
<1>4. \A u \in Tabs : At(u)' \subseteq At(u)
  BY <1>1, <1>2 DEF At
<1>5. PageInv'
  BY <1>1, <1>2 DEF IInv, PageInv
<1>6. nextSess' >= nextSess
  BY <1>1
<1>7. QED BY <1>1, <1>3, <1>4, <1>5, <1>6, QuietKeeps

\* A navigation may end the session.
LEMMA NavigateKeeps ==
  ASSUME IInv, NEW t \in Tabs, Navigate(t)
  PROVE  IInv'
<1>1. /\ PageGone(t) /\ navs' = navs + 1 /\ toPage' = toPage /\ nextSess' = nextSess
      /\ sess' \in {sess, [sess EXCEPT ![t] = 0]} /\ closed' = closed /\ up' = up
      /\ UNCHANGED <<mcpVars, link, down, links, routerVars, did, toBg, pushes>>
  BY DEF Navigate, linkVars
<1>2. up \in Seq(UpMsgs)
  BY DEF IInv, Types
<1>3. QED BY <1>1, <1>2, GoneKeeps

\* A close ends the session and is sent up.
LEMMA CloseKeeps ==
  ASSUME IInv, NEW t \in Tabs, CloseTab(t)
  PROVE  IInv'
<1>1. /\ PageGone(t) /\ navs' = navs + 1 /\ toPage' = toPage /\ nextSess' = nextSess
      /\ sess' = [sess EXCEPT ![t] = 0] /\ closed' = closed \cup {t}
      /\ SendUp(<<ClosedMsg(t, sess[t])>>)
      /\ UNCHANGED <<mcpVars, link, down, links, routerVars, did, toBg, pushes>>
  BY DEF CloseTab
<1>2. PICK m \in UpMsgs : m.type = "closed" /\ SendUp(<<m>>)
  <2>1. sess[t] \in 0..nextSess
    BY DEF IInv, Types
  <2>2. QED BY <2>1, <1>1, SnapshotIsUp DEF IInv
<1>3. up' \in Seq(UpMsgs) /\ In(up') \subseteq In(up) \cup {m} /\ (link # "up" => up' = up)
  BY <1>2, SentUp DEF IInv, Types
<1>4. QED BY <1>1, <1>2, <1>3, GoneKeeps

\* A page that loads has a session, a new one if its tab had none.
LEMMA LoadKeeps ==
  ASSUME IInv, NEW t \in Tabs, Load(t)
  PROVE  IInv'
<1>1. /\ t \notin closed /\ ready' = [ready EXCEPT ![t] = TRUE]
      /\ IF sess[t] = 0
         THEN sess' = [sess EXCEPT ![t] = nextSess] /\ nextSess' = nextSess + 1
         ELSE sess' = sess /\ nextSess' = nextSess
      /\ closed' = closed /\ toPage' = toPage /\ running' = running /\ navs' = navs /\ up' = up
      /\ UNCHANGED <<mcpVars, link, down, links, routerVars, did, toBg, pushes>>
  BY DEF Load, linkVars
<1>2. /\ nextSess \in Nat \ {0} /\ navs \in Nat /\ up \in Seq(UpMsgs)
      /\ sess \in [Tabs -> 0..nextSess] /\ ready \in [Tabs -> BOOLEAN]
      /\ toPage \in [Tabs -> Seq(PageMsgs)] /\ running \in [Tabs -> SUBSET PageMsgs]
  BY DEF IInv, Types
<1>3. /\ nextSess' \in Nat \ {0} /\ nextSess' >= nextSess /\ sess' \in [Tabs -> 0..nextSess']
      /\ sess'[t] # 0 /\ \A u \in Tabs : u # t => sess'[u] = sess[u]
  <2>1. CASE sess[t] = 0
    <3>1. nextSess' \in Nat \ {0} /\ nextSess' >= nextSess /\ 0..nextSess \subseteq 0..nextSess'
          /\ nextSess \in 0..nextSess'
      BY <2>1, <1>1, <1>2
    <3>2. QED BY <2>1, <3>1, <1>1, <1>2
  <2>2. CASE sess[t] # 0
    BY <2>2, <1>1, <1>2
  <2>3. QED BY <2>1, <2>2
<1>4. ready' \in [Tabs -> BOOLEAN]
  BY <1>1, <1>2
<1>5. \A u \in Tabs : At(u)' \subseteq At(u)
  BY <1>1 DEF At
<1>6. PageInv'
  BY <1>1, <1>2, <1>3 DEF IInv, PageInv
<1>7. QED BY <1>1, <1>2, <1>3, <1>4, <1>5, <1>6, QuietKeeps

------------------------------------------------------------------------------

\* At first every page is there, and nothing is asked.
LEMMA InitHolds == Init => IInv /\ WaitInv
<1> SUFFICES ASSUME Init
             PROVE  IInv /\ WaitInv
  OBVIOUS
<1>1. /\ status = [c \in Commands |-> "unused"]
      /\ kind = [r \in Requests |-> "request_verification"]
      /\ target = [c \in Commands |-> NoTab] /\ projected = [t \in Tabs |-> NoEntry]
      /\ retired = {} /\ verdict = [t \in Tabs |-> NoVerdict] /\ link = "down"
      /\ down = <<>> /\ up = <<>> /\ listening = FALSE
      /\ pending = [r \in Requests |-> NoPending]
      /\ sess \in [Tabs -> {1, 2}] /\ ready = [t \in Tabs |-> TRUE] /\ closed = {}
      /\ toPage = [t \in Tabs |-> <<>>] /\ running = [t \in Tabs |-> {}] /\ toBg = <<>>
      /\ shown = {} /\ did = [r \in Requests |-> NoTab] /\ nextSess = 3 /\ navs = 0
  BY DEF Init
<1>2. /\ In(down) = {} /\ In(up) = {} /\ In(toBg) = {} /\ Distinct(down)
      /\ \A t \in Tabs : At(t) = {}
  BY <1>1, InEmpty DEF At
<1>3. Types
  <2>1. /\ status \in [Commands -> {"unused", "pending", "acked", "failed", "cleared"}]
        /\ kind \in [Requests -> Kinds] /\ target \in [Commands -> Tabs \cup {NoTab}]
    BY <1>1 DEF Kinds
  <2>2. /\ projected \in [Tabs -> 0..nextSess \cup {NoEntry}] /\ retired \subseteq Tabs
        /\ verdict \in [Tabs -> Verdicts \cup {NoVerdict}]
        /\ pending \in [Requests -> [tab : Tabs, session : Nat] \cup {NoPending}]
        /\ did \in [Requests -> Tabs \cup {NoTab}] /\ shown \subseteq Locals
    BY <1>1
  <2>3. link \in {"up", "closing", "down"} /\ down \in Seq(Commands) /\ up \in Seq(UpMsgs)
        /\ toBg \in Seq(Results)
    BY <1>1
  <2>4. listening \in BOOLEAN
    BY <1>1, Zenon
  <2>5. sess \in [Tabs -> 0..nextSess] /\ nextSess \in Nat \ {0} /\ navs \in Nat
    BY <1>1
  <2>6. ready \in [Tabs -> BOOLEAN]
    BY <1>1
  <2>7. toPage \in [Tabs -> Seq(PageMsgs)] /\ running \in [Tabs -> SUBSET PageMsgs]
    BY <1>1
  <2>8. QED BY <2>1, <2>2, <2>3, <2>4, <2>5, <2>6, <2>7 DEF Types
<1>4. LinkInv /\ SnapInv /\ MeantInv
  BY <1>1, <1>2 DEF LinkInv, SnapInv, MeantInv
<1>5. PageInv
  BY <1>1 DEF PageInv
<1>6. DoneInv /\ VerdictInv /\ DownInv
  BY <1>1, <1>2 DEF DoneInv, VerdictInv, VerdictFiled, DownInv, PendingIsOfThisLink
<1>7. UnusedInv
  BY <1>1, <1>2 DEF UnusedInv, Nowhere, Requests
<1>8. WaitInv
  BY <1>1 DEF WaitInv, Waits
<1>9. QED BY <1>3, <1>4, <1>5, <1>6, <1>7, <1>8 DEF IInv

\* Every step keeps the invariant.
LEMMA StepHolds ==
  ASSUME IInv, [Next]_vars
  PROVE  IInv'
<1>1. CASE \E c \in Commands : enqueue(c)
  BY <1>1, EnqueueKeeps
<1>2. CASE McpReceives
  BY <1>2, McpReceivesKeeps
<1>3. CASE LinkCloses \/ LinkLost \/ Pair \/ attachClient
  BY <1>3, LinkClosesKeeps, LinkLostKeeps, PairKeeps, AttachKeeps
<1>4. CASE Router
  BY <1>4, UnheardKeeps, RouteKeeps, RefuseKeeps, DiscardKeeps, ResultKeeps DEF Router
<1>5. CASE \E t \in Tabs : pushForTab(t) \/ Page(t) \/ Navigate(t) \/ CloseTab(t) \/ Load(t)
  <2>1. PICK t \in Tabs : pushForTab(t) \/ Page(t) \/ Navigate(t) \/ CloseTab(t) \/ Load(t)
    BY <1>5
  <2>2. CASE Page(t)
    BY <2>2, HandleNowKeeps, StartKeeps, EndKeeps, NobodyKeeps DEF Page
  <2>3. CASE pushForTab(t) \/ Navigate(t) \/ CloseTab(t) \/ Load(t)
    BY <2>3, PushKeeps, NavigateKeeps, CloseKeeps, LoadKeeps
  <2>4. QED BY <2>1, <2>2, <2>3
<1>6. CASE \E r \in Locals, t \in Tabs : requestLocalVerify(r, t)
  BY <1>6, LocalKeeps
<1>7. CASE UNCHANGED vars
  <2>1. /\ status' = status /\ kind' = kind /\ target' = target
        /\ projected' = projected /\ retired' = retired /\ verdict' = verdict
        /\ link' = link /\ down' = down /\ up' = up /\ listening' = listening
        /\ pending' = pending /\ shown' = shown /\ sess' = sess /\ ready' = ready
        /\ closed' = closed /\ toPage' = toPage /\ running' = running /\ did' = did
        /\ nextSess' = nextSess /\ navs' = navs /\ toBg' = toBg
    BY <1>7 DEF vars, mcpVars, cacheVars, linkVars, routerVars, pageVars
  <2>2. Types' /\ LinkInv' /\ PageInv' /\ SnapInv' /\ MeantInv'
    BY <2>1 DEF IInv, Types, LinkInv, PageInv, SnapInv, MeantInv, At
  <2>3. DoneInv' /\ UnusedInv'
    BY <2>1 DEF IInv, DoneInv, UnusedInv, Nowhere, At
  <2>4. DownInv' /\ VerdictInv'
    BY <2>1 DEF IInv, DownInv, PendingIsOfThisLink, VerdictInv, VerdictFiled
  <2>5. QED BY <2>2, <2>3, <2>4 DEF IInv
<1>8. QED BY <1>1, <1>2, <1>3, <1>4, <1>5, <1>6, <1>7 DEF Next

\* The invariant of command routing, whatever is lost, closed or reloaded.
THEOREM RoutingInvariant == Spec => []IInv
<1>1. Init => IInv
  BY InitHolds
<1>2. IInv /\ [Next]_vars => IInv'
  BY StepHolds
<1>3. QED BY <1>1, <1>2, PTL DEF Spec

\* A command the queue calls acked was carried out in a page it was meant for, and
\* the router waits for no command of a link that is gone.
THEOREM CommandsKept == Spec => []CommandsAreKept
<1>1. IInv => CommandsAreKept
  <2> SUFFICES ASSUME IInv
               PROVE  CommandsAreKept
    OBVIOUS
  <2>1. TypeOK
    BY DEF IInv, Types, LinkInv, PageInv, TypeOK
  <2>2. AckedIsDone
    BY DEF IInv, DoneInv, MeantInv, AckedIsDone
  <2>3. QED BY <2>1, <2>2 DEF IInv, DownInv, CommandsAreKept
<1>2. QED BY <1>1, RoutingInvariant, PTL

------------------------------------------------------------------------------
(* Who made a verdict.                                                     *)

\* A step that makes no result, stores no verdict and gives out no session.
LEMMA StillMade ==
  ASSUME MadeInv, UNCHANGED <<sess, nextSess>>,
         \A t \in Tabs : At(t)' \subseteq At(t),
         In(toBg') \subseteq In(toBg),
         \A m \in In(up') : m \in In(up) \/ m.type # "verification",
         \A t \in Tabs : verdict'[t] \in {verdict[t], NoVerdict}
  PROVE  MadeInv'
<1>1. \A t \in Tabs : sess'[t] < nextSess' /\ \A m \in At(t)' : m.session < nextSess'
  BY DEF MadeInv
<1>2. \A m \in In(toBg') :
        /\ m.session < nextSess' /\ m.by.tab = m.tab
        /\ m.session # 0 /\ sess'[m.tab] = m.session => m.by.session = m.session
  BY DEF MadeInv
<1>3. \A m \in In(up') : m.type = "verification" /\ m.session # 0 =>
        m.by = [tab |-> m.tab, session |-> m.session]
  BY DEF MadeInv
<1>4. \A t \in Tabs : verdict'[t] # NoVerdict =>
        verdict'[t].by = [tab |-> t, session |-> verdict'[t].session]
  BY DEF MadeInv
<1>5. QED BY <1>1, <1>2, <1>3, <1>4 DEF MadeInv

\* The queues of the MCP process and the link carry no new verification.
LEMMA ElsewhereMade ==
  ASSUME IInv, MadeInv,
         \/ \E c \in Commands : enqueue(c)
         \/ LinkCloses \/ LinkLost \/ Pair \/ attachClient
         \/ CommandUnheard \/ RefuseCommand
         \/ \E t \in Tabs : pushForTab(t) \/ NobodyThere(t)
         \/ ResultUnwanted \/ ResultOutdated
  PROVE  MadeInv'
<1> USE DEF mcpVars, cacheVars, linkVars, routerVars, pageVars
<1>1. UNCHANGED <<sess, nextSess, running>>
  BY DEF enqueue, LinkCloses, LinkLost, Pair, attachClient, CommandUnheard, RefuseCommand,
     pushForTab, NobodyThere, ResultUnwanted, ResultOutdated, Discard
<1>2. \A t \in Tabs : At(t)' \subseteq At(t)
  <2>1. CASE \E t \in Tabs : NobodyThere(t)
    <3>1. PICK t \in Tabs : NobodyThere(t)
      BY <2>1
    <3>2. toPage[t] # <<>> /\ toPage' = [toPage EXCEPT ![t] = Tail(@)]
      BY <3>1 DEF NobodyThere
    <3>3. \A u \in Tabs : In(toPage'[u]) \subseteq In(toPage[u])
      BY <3>2, IncomingFacts
    <3>4. QED BY <3>3, <1>1 DEF At
  <2>2. CASE ~\E t \in Tabs : NobodyThere(t)
    <3>1. toPage' = toPage
      BY <2>2 DEF enqueue, LinkCloses, LinkLost, Pair, attachClient, CommandUnheard,
         RefuseCommand, pushForTab, ResultUnwanted, ResultOutdated, Discard
    <3>2. QED BY <3>1, <1>1 DEF At
  <2>3. QED BY <2>1, <2>2
<1>3. In(toBg') \subseteq In(toBg)
  <2>1. toBg' = toBg \/ (toBg # <<>> /\ toBg' = Tail(toBg))
    BY DEF enqueue, LinkCloses, LinkLost, Pair, attachClient, CommandUnheard, RefuseCommand,
       pushForTab, NobodyThere, ResultUnwanted, ResultOutdated, Discard
  <2>2. toBg \in Seq(Results)
    BY DEF IInv, Types
  <2>3. QED BY <2>1, <2>2, InTail
<1>4. \A t \in Tabs : verdict'[t] \in {verdict[t], NoVerdict}
  <2>1. verdict' = verdict \/ verdict' = [t \in Tabs |-> NoVerdict]
    BY DEF enqueue, LinkCloses, LinkLost, Pair, attachClient, CommandUnheard, RefuseCommand,
       pushForTab, NobodyThere, ResultUnwanted, ResultOutdated, Discard
  <2>2. QED BY <2>1
<1>5. \A m \in In(up') : m \in In(up) \/ m.type # "verification"
  <2>1. CASE RefuseCommand
    <3>1. up' = Append(up, AckMsg(Head(down), FALSE)) /\ down # <<>>
      BY <2>1 DEF RefuseCommand
    <3>2. Head(down) \in Commands /\ up \in Seq(UpMsgs)
      BY <3>1, InTail DEF IInv, Types
    <3> DEFINE a == AckMsg(Head(down), FALSE)
    <3>3. a \in UpMsgs /\ a.type = "ack" /\ up' = Append(up, a)
      BY <3>1, <3>2 DEF AckMsg, UpMsgs
    <3> HIDE DEF a
    <3>4. In(up') = In(up) \cup {a}
      BY <3>2, <3>3, InAppend
    <3>5. QED BY <3>3, <3>4
  <2>2. CASE attachClient \/ \E t \in Tabs : pushForTab(t)
    <3>1. PICK t \in Tabs : SendUp(<<SnapshotMsg(t, sess[t])>>)
      BY <2>2 DEF attachClient, pushForTab
    <3>2. sess[t] \in 0..nextSess
      BY DEF IInv, Types
    <3>3. PICK m \in UpMsgs : m.type = "snapshot" /\ SendUp(<<m>>)
      BY <3>1, <3>2, SnapshotIsUp DEF IInv
    <3>4. In(up') \subseteq In(up) \cup {m}
      BY <3>3, SentUp DEF IInv, Types
    <3>5. QED BY <3>3, <3>4
  <2>3. CASE ~(RefuseCommand \/ attachClient \/ \E t \in Tabs : pushForTab(t))
    <3>1. up' = up \/ up' = <<>>
      BY <2>3 DEF enqueue, LinkCloses, LinkLost, Pair, CommandUnheard, NobodyThere,
         ResultUnwanted, ResultOutdated, Discard
    <3>2. QED BY <3>1, InEmpty
  <2>4. QED BY <2>1, <2>2, <2>3
<1>6. QED BY <1>1, <1>2, <1>3, <1>4, <1>5, StillMade

\* What is stored as the verdict of a tab is what its page made.
LEMMA ReceivesMade ==
  ASSUME IInv, MadeInv, McpReceives
  PROVE  MadeInv'
<1> DEFINE m == Head(up)
<1>1. /\ link = "up" /\ up # <<>> /\ up' = Tail(up)
      /\ UNCHANGED <<sess, nextSess, toPage, running, toBg>>
      /\ m.type = "ack" => ack(m)
      /\ m.type = "verification" => setVerificationResult(m)
      /\ m.type = "snapshot" => ingest(m)
      /\ m.type = "closed" => clearTab(m)
  BY DEF McpReceives, pageVars
<1>2. m \in UpMsgs /\ m \in In(up) /\ In(up') \subseteq In(up)
  BY <1>1, ReceiveFacts DEF IInv
<1> HIDE DEF m
<1>3. verdict \in [Tabs -> Verdicts \cup {NoVerdict}]
  BY DEF IInv, Types
<1>4. \A t \in Tabs : At(t)' = At(t)
  BY <1>1 DEF At
<1>5. \A t \in Tabs : verdict'[t] # NoVerdict =>
        verdict'[t].by = [tab |-> t, session |-> verdict'[t].session]
  <2>0. \A t \in Tabs : verdict[t] # NoVerdict =>
          verdict[t].by = [tab |-> t, session |-> verdict[t].session]
    BY DEF MadeInv
  <2>1. CASE m.type = "verification"
    <3>1. m.by = [tab |-> m.tab, session |-> m.session] \/ m.session = 0
      BY <2>1, <1>2 DEF MadeInv
    <3>2. m.tab \in Tabs
      BY <2>1, <1>2, UpFacts
    <3>3. Verdict(m).by = m.by /\ Verdict(m).session = m.session
      BY DEF Verdict
    <3>4. \/ verdict' = verdict
          \/ m.session # 0 /\ verdict' = [verdict EXCEPT ![m.tab] = Verdict(m)]
      BY <2>1, <1>1 DEF setVerificationResult
    <3> DEFINE v == Verdict(m)
    <3>5. v.by = m.by /\ v.session = m.session
          /\ (verdict' = verdict \/ (m.session # 0 /\ verdict' = [verdict EXCEPT ![m.tab] = v]))
      BY <3>3, <3>4
    <3> HIDE DEF v
    <3>6. QED BY <3>1, <3>2, <3>5, <2>0, <1>3
  <2>2. CASE m.type \in {"ack", "snapshot", "closed"}
    <3>1. verdict' = verdict \/ verdict' = [verdict EXCEPT ![m.tab] = NoVerdict]
      BY <2>2, <1>1 DEF ack, ingest, clearTab, cacheVars
    <3>2. QED BY <3>1, <2>0, <1>3
  <2>3. QED BY <2>1, <2>2, <1>2, UpFacts
<1>6. QED BY <1>1, <1>2, <1>4, <1>5 DEF MadeInv

\* What is forwarded names the session that the tab has.
LEMMA ForwardMade ==
  ASSUME IInv, MadeInv, NEW r \in Requests, NEW t \in Tabs, Forward(r, t),
         UNCHANGED <<sess, nextSess, running, toBg, up, verdict>>
  PROVE  MadeInv'
<1> DEFINE m == PageMsg(r, sess[t])
<1>1. toPage' = [toPage EXCEPT ![t] = Append(@, m)]
  BY DEF Forward
<1>2. m \in PageMsgs /\ m.session < nextSess
  <2>1. sess[t] \in Nat /\ sess[t] < nextSess
    BY DEF IInv, Types, MadeInv
  <2>2. QED BY <2>1 DEF PageMsg, PageMsgs
<1> HIDE DEF m
<1>3. \A u \in Tabs : At(u)' \subseteq At(u) \cup {m}
  <2>1. toPage \in [Tabs -> Seq(PageMsgs)] /\ toPage[t] \in Seq(PageMsgs)
    BY DEF IInv, Types
  <2>2. In(Append(toPage[t], m)) = In(toPage[t]) \cup {m}
    BY <2>1, <1>2, InAppend
  <2>3. QED BY <2>1, <2>2, <1>1 DEF At
<1>4. QED BY <1>2, <1>3 DEF MadeInv

\* A page answers as the page of the session its tab has.
LEMMA PageMade ==
  ASSUME IInv, MadeInv, NEW t \in Tabs, NEW m \in At(t), NEW x \in BOOLEAN,
         UNCHANGED <<sess, nextSess, up, verdict>>,
         \A u \in Tabs : At(u)' \subseteq At(u),
         toBg' = Append(toBg, ResultMsg(m.req, t, m.session, x)) \/ toBg' = toBg
  PROVE  MadeInv'
<1> DEFINE a == ResultMsg(m.req, t, m.session, x)
<1>1. m \in PageMsgs /\ m.session < nextSess /\ sess[t] \in Nat
  BY QueuesTyped DEF IInv, MadeInv, Types
<1>2. /\ a \in Results /\ a.session = m.session /\ a.tab = t
      /\ a.by.tab = t /\ a.by.session = sess[t]
  BY <1>1 DEF ResultMsg, Results, PageMsgs, Makers
<1> HIDE DEF a
<1>3. In(toBg') \subseteq In(toBg) \cup {a}
  <2>1. In(Append(toBg, a)) = In(toBg) \cup {a}
    BY <1>2, InAppend DEF IInv, Types
  <2>2. QED BY <2>1 DEF a
<1>4. \A n \in In(toBg') :
        /\ n.session < nextSess /\ n.by.tab = n.tab
        /\ n.session # 0 /\ sess[n.tab] = n.session => n.by.session = n.session
  BY <1>1, <1>2, <1>3 DEF MadeInv
<1>5. QED BY <1>4 DEF MadeInv

\* So it is for each step of a page.
LEMMA PageStepMade ==
  ASSUME IInv, MadeInv, NEW t \in Tabs, HandleNow(t) \/ StartVerification(t) \/ EndVerification(t)
  PROVE  MadeInv'
<1>0. UNCHANGED <<sess, nextSess, up, verdict>>
  BY DEF HandleNow, StartVerification, EndVerification, mcpVars, cacheVars, linkVars
<1>1. CASE HandleNow(t) \/ StartVerification(t)
  <2> DEFINE m == Head(toPage[t])
  <2>1. toPage[t] # <<>> /\ toPage' = [toPage EXCEPT ![t] = Tail(@)]
    BY <1>1 DEF HandleNow, StartVerification, Incoming
  <2>2. m \in At(t) /\ \A u \in Tabs : In(toPage'[u]) \subseteq In(toPage[u])
    BY <2>1, IncomingFacts
  <2>3. \/ /\ running' = running
           /\ \E x \in BOOLEAN : toBg' = Append(toBg, ResultMsg(m.req, t, m.session, x))
        \/ toBg' = toBg /\ running' = [running EXCEPT ![t] = @ \cup {m}]
    BY <1>1 DEF HandleNow, StartVerification
  <2> HIDE DEF m
  <2>4. \A u \in Tabs : running'[u] \subseteq running[u] \cup (IF u = t THEN {m} ELSE {})
    BY <2>3 DEF IInv, Types
  <2>5. \A u \in Tabs : At(u)' \subseteq At(u)
    BY <2>2, <2>4 DEF At
  <2>6. PICK x \in BOOLEAN : toBg' = Append(toBg, ResultMsg(m.req, t, m.session, x)) \/ toBg' = toBg
    BY <2>3
  <2>7. QED BY <2>2, <2>5, <2>6, <1>0, PageMade
<1>2. CASE EndVerification(t)
  <2>1. PICK m \in running[t], x \in BOOLEAN :
          /\ running' = [running EXCEPT ![t] = @ \ {m}]
          /\ toBg' = Append(toBg, ResultMsg(m.req, t, m.session, x))
          /\ toPage' = toPage
    BY <1>2 DEF EndVerification
  <2>2. m \in At(t) /\ \A u \in Tabs : At(u)' \subseteq At(u)
    BY <2>1 DEF At, IInv, Types
  <2>3. QED BY <2>1, <2>2, <1>0, PageMade
<1>3. QED BY <1>1, <1>2

\* What the router passes on was made in the session that is there.
LEMMA ResultMade ==
  ASSUME IInv, MadeInv, HandleResult
  PROVE  MadeInv'
<1> DEFINE m == Head(toBg)
<1>1. /\ toBg # <<>> /\ toBg' = Tail(toBg)
      /\ sess[m.tab] = m.session
      /\ IF m.req \in Commands
         THEN SendUp(<<AckMsg(m.req, m.ok)>> \o
                     IF kind[m.req] = "request_verification"
                     THEN <<VerdictMsg(m.req, m.tab, m.session, m.by)>> ELSE <<>>)
         ELSE up' = up
      /\ UNCHANGED <<sess, nextSess, toPage, running, verdict>>
  BY DEF HandleResult, Answers, mcpVars, cacheVars, pageVars
<1>2. /\ In(toBg') \subseteq In(toBg) /\ m \in Results /\ m \in In(toBg)
  BY <1>1, InTail DEF IInv, Types
<1> HIDE DEF m
<1>3. m.session # 0 => m.by = [tab |-> m.tab, session |-> m.session]
  <2>1. m.by \in Makers /\ m.by.tab = m.tab /\ (m.session # 0 => m.by.session = m.session)
    BY <1>1, <1>2 DEF MadeInv, Results
  <2>2. QED BY <2>1 DEF Makers
<1>4. \A n \in In(up') : n \in In(up) \/ n.type = "ack" \/
        (n.type = "verification" /\ n.by = m.by /\ n.tab = m.tab /\ n.session = m.session)
  <2>1. CASE m.req \in Commands
    BY <2>1, <1>1, <1>2, AnsweredUp DEF IInv
  <2>2. CASE m.req \notin Commands
    BY <2>2, <1>1
  <2>3. QED BY <2>1, <2>2
<1>5. \A n \in In(up') : n.type = "verification" /\ n.session # 0 =>
        n.by = [tab |-> n.tab, session |-> n.session]
  BY <1>3, <1>4 DEF MadeInv
<1>6. \A t \in Tabs : At(t)' = At(t)
  BY <1>1 DEF At
<1>7. QED BY <1>1, <1>2, <1>5, <1>6 DEF MadeInv

\* A session that ends, or a new one, is that of no message.
LEMMA SessionMade ==
  ASSUME IInv, MadeInv, NEW t \in Tabs, Navigate(t) \/ CloseTab(t) \/ Load(t)
  PROVE  MadeInv'
<1>1. /\ sess \in [Tabs -> 0..nextSess] /\ nextSess \in Nat \ {0}
      /\ \A u \in Tabs : \A m \in At(u) : m \in PageMsgs
      /\ \A m \in In(toBg) : m \in Results
  BY QueuesTyped DEF IInv, Types
<1>2. toPage' = toPage /\ toBg' = toBg /\ verdict' = verdict
  BY DEF Navigate, CloseTab, Load, mcpVars, cacheVars
<1>3. \A u \in Tabs : running'[u] \subseteq running[u]
  BY DEF Navigate, CloseTab, Load, PageGone, IInv, Types
<1>4. \A u \in Tabs : At(u)' \subseteq At(u)
  BY <1>2, <1>3 DEF At
<1>5. \A n \in In(up') : n \in In(up) \/ n.type # "verification"
  <2>1. CASE CloseTab(t)
    <3>1. SendUp(<<ClosedMsg(t, sess[t])>>)
      BY <2>1 DEF CloseTab
    <3>2. sess[t] \in 0..nextSess
      BY <1>1
    <3>3. PICK m \in UpMsgs : m.type = "closed" /\ SendUp(<<m>>)
      BY <3>1, <3>2, SnapshotIsUp DEF IInv
    <3>4. In(up') \subseteq In(up) \cup {m}
      BY <3>3, SentUp DEF IInv, Types
    <3>5. QED BY <3>3, <3>4
  <2>2. CASE Navigate(t) \/ Load(t)
    BY <2>2 DEF Navigate, Load, linkVars
  <2>3. QED BY <2>1, <2>2
<1>6. /\ nextSess' \in {nextSess, nextSess + 1}
      /\ \A u \in Tabs : \/ sess'[u] = sess[u] \/ sess'[u] = 0
                        \/ (sess'[u] = nextSess /\ nextSess' = nextSess + 1)
  <2>1. CASE Load(t)
    <3>1. \/ nextSess' = nextSess /\ sess' = sess
          \/ nextSess' = nextSess + 1 /\ sess' = [sess EXCEPT ![t] = nextSess]
      BY <2>1 DEF Load
    <3>2. QED BY <3>1, <1>1
  <2>2. CASE Navigate(t) \/ CloseTab(t)
    <3>1. nextSess' = nextSess /\ (sess' = sess \/ sess' = [sess EXCEPT ![t] = 0])
      BY <2>2 DEF Navigate, CloseTab
    <3>2. QED BY <3>1, <1>1
  <2>3. QED BY <2>1, <2>2
<1>7. \A u \in Tabs : sess'[u] < nextSess' /\ \A m \in At(u)' : m.session < nextSess'
  <2>1. \A u \in Tabs : sess[u] < nextSess /\ sess[u] \in Nat
    BY <1>1 DEF MadeInv
  <2>2. \A u \in Tabs : sess'[u] < nextSess'
    BY <2>1, <1>1, <1>6
  <2>3. \A u \in Tabs : \A m \in At(u)' : m.session < nextSess /\ m.session \in Nat
    BY <1>1, <1>4 DEF MadeInv, PageMsgs
  <2>4. QED BY <2>2, <2>3, <1>1, <1>6
<1>8. \A m \in In(toBg') :
        /\ m.session < nextSess' /\ m.by.tab = m.tab
        /\ m.session # 0 /\ sess'[m.tab] = m.session => m.by.session = m.session
  <2> SUFFICES ASSUME NEW m \in In(toBg)
               PROVE  /\ m.session < nextSess' /\ m.by.tab = m.tab
                      /\ m.session # 0 /\ sess'[m.tab] = m.session => m.by.session = m.session
    BY <1>2
  <2>1. m.session \in Nat /\ m.tab \in Tabs
    BY <1>1 DEF Results
  <2>2. /\ m.session < nextSess /\ m.by.tab = m.tab
        /\ m.session # 0 /\ sess[m.tab] = m.session => m.by.session = m.session
    BY DEF MadeInv
  <2>3. QED BY <2>1, <2>2, <1>1, <1>6
<1>9. QED BY <1>2, <1>5, <1>7, <1>8 DEF MadeInv

\* Every step keeps track of who made what.
LEMMA StepMade ==
  ASSUME IInv, MadeInv, [Next]_vars
  PROVE  MadeInv'
<1>1. CASE \/ \E c \in Commands : enqueue(c)
           \/ LinkCloses \/ LinkLost \/ Pair \/ attachClient
           \/ CommandUnheard \/ RefuseCommand
           \/ \E t \in Tabs : pushForTab(t) \/ NobodyThere(t)
           \/ ResultUnwanted \/ ResultOutdated
  BY <1>1, ElsewhereMade
<1>2. CASE McpReceives \/ HandleResult
  BY <1>2, ReceivesMade, ResultMade
<1>3. CASE RouteCommand
  <2>1. PICK t \in Tabs : Forward(Head(down), t)
    BY <1>3 DEF RouteCommand
  <2>2. UNCHANGED <<sess, nextSess, running, toBg, up, verdict>> /\ down # <<>>
    BY <1>3 DEF RouteCommand, mcpVars, cacheVars
  <2>3. Head(down) \in Requests
    BY <2>2, InTail DEF IInv, Types, Requests
  <2>4. QED BY <2>1, <2>2, <2>3, ForwardMade
<1>4. CASE \E r \in Locals, t \in Tabs : requestLocalVerify(r, t)
  <2>1. PICK r \in Locals, t \in Tabs : requestLocalVerify(r, t)
    BY <1>4
  <2>2. /\ Forward(r, t) /\ r \in Requests
        /\ UNCHANGED <<sess, nextSess, running, toBg, up, verdict>>
    BY <2>1 DEF requestLocalVerify, Requests, mcpVars, cacheVars, linkVars
  <2>3. QED BY <2>2, ForwardMade
<1>5. CASE \E t \in Tabs : \/ HandleNow(t) \/ StartVerification(t) \/ EndVerification(t)
                          \/ Navigate(t) \/ CloseTab(t) \/ Load(t)
  BY <1>5, PageStepMade, SessionMade
<1>6. CASE UNCHANGED vars
  <2>1. UNCHANGED <<sess, nextSess, toPage, running, toBg, up, verdict>>
    BY <1>6 DEF vars, mcpVars, cacheVars, linkVars, pageVars
  <2>2. \A t \in Tabs : At(t)' = At(t)
    BY <2>1 DEF At
  <2>3. QED BY <2>1, <2>2, StillMade
<1>7. QED BY <1>1, <1>2, <1>3, <1>4, <1>5, <1>6 DEF Next, Router, Page

\* At first nothing was made.
LEMMA InitMade == Init => MadeInv
<1> SUFFICES ASSUME Init
             PROVE  MadeInv
  OBVIOUS
<1>1. /\ sess \in [Tabs -> {1, 2}] /\ nextSess = 3 /\ toBg = <<>> /\ up = <<>>
      /\ toPage = [t \in Tabs |-> <<>>] /\ running = [t \in Tabs |-> {}]
      /\ verdict = [t \in Tabs |-> NoVerdict]
  BY DEF Init
<1>2. In(toBg) = {} /\ In(up) = {} /\ \A t \in Tabs : At(t) = {}
  BY <1>1, InEmpty DEF At
<1>3. \A t \in Tabs : sess[t] < nextSess
  BY <1>1
<1>4. QED BY <1>1, <1>2, <1>3 DEF MadeInv

\* A verification result that tools can read is of the session they are shown and was
\* made by a page that the tab had in that session.
THEOREM VerdictsAreOfTheirPage == Spec => []VerdictIsOfItsPage
<1>1. Spec => []MadeInv
  <2>1. IInv /\ MadeInv /\ [Next]_vars => MadeInv'
    BY StepMade
  <2>2. QED BY <2>1, InitMade, RoutingInvariant, PTL DEF Spec
<1>2. IInv /\ MadeInv => VerdictIsOfItsPage
  BY DEF IInv, VerdictInv, VerdictFiled, MadeInv, VerdictIsOfItsPage
<1>3. QED BY <1>1, <1>2, RoutingInvariant, PTL

------------------------------------------------------------------------------
(* What an ended session answers.                                          *)

Silent ==
  \A r \in Requests :
    pending[r] # NoPending /\ sess[pending[r].tab] # pending[r].session =>
      /\ r \notin shown' \ shown
      /\ Len(up') > Len(up) =>
           up'[Len(up')].type \in {"snapshot", "closed"} \/ up'[Len(up')].req # r

\* A step that shows nothing and sends nothing is silent.
LEMMA StillIsSilent ==
  ASSUME IInv, shown' = shown, up' = up \/ up' = <<>> \/ (up # <<>> /\ up' = Tail(up))
  PROVE  Silent
<1>1. up \in Seq(UpMsgs)
  BY DEF IInv, Types
<1>2. up # <<>> => Len(Tail(up)) = Len(up) - 1 /\ Len(up) \in Nat
  BY <1>1, HeadTailProperties, LenProperties
<1>3. ~(Len(up') > Len(up))
  <2>1. Len(up) \in Nat /\ Len(<<>>) = 0
    BY <1>1, LenProperties
  <2>2. QED BY <2>1, <1>2
<1>4. QED BY <1>3 DEF Silent

\* So is one that sends what speaks of no request.
LEMMA SnapshotIsSilent ==
  ASSUME IInv, shown' = shown, NEW m \in UpMsgs, m.type \in {"snapshot", "closed"}, SendUp(<<m>>)
  PROVE  Silent
<1>1. up \in Seq(UpMsgs) /\ up \o <<m>> = Append(up, m)
  BY DEF IInv, Types
<1>2. Append(up, m)[Len(Append(up, m))] = m
  BY <1>1, AppendProperties
<1>3. up' = up => ~(Len(up') > Len(up))
  BY <1>1, LenProperties
<1>4. QED BY <1>1, <1>2, <1>3 DEF Silent, SendUp

\* A command refused at once was never forwarded.
LEMMA RefuseIsSilent ==
  ASSUME IInv, RefuseCommand
  PROVE  Silent
<1> DEFINE c == Head(down)
           m == AckMsg(c, FALSE)
<1>1. shown' = shown /\ up' = Append(up, m) /\ down # <<>>
  BY DEF RefuseCommand, routerVars
<1>2. c \in Commands /\ c \in In(down)
  BY <1>1, InTail DEF IInv, Types
<1>3. pending[c] = NoPending
  BY <1>2 DEF IInv, DownInv
<1> HIDE DEF c
<1>4. m \in UpMsgs /\ m.req = c
  BY <1>2 DEF AckMsg, UpMsgs
<1> HIDE DEF m
<1>5. Append(up, m)[Len(Append(up, m))] = m
  BY <1>4, AppendProperties DEF IInv, Types
<1>6. QED BY <1>1, <1>3, <1>4, <1>5 DEF Silent

\* A result is passed on only while the session it was asked of is there.
LEMMA ResultIsSilent ==
  ASSUME IInv, HandleResult
  PROVE  Silent
<1> DEFINE m == Head(toBg)
<1>1. /\ toBg # <<>>
      /\ pending[m.req] # NoPending /\ sess[pending[m.req].tab] = pending[m.req].session
      /\ shown' \subseteq shown \cup {m.req}
      /\ IF m.req \in Commands
         THEN SendUp(<<AckMsg(m.req, m.ok)>> \o
                     IF kind[m.req] = "request_verification"
                     THEN <<VerdictMsg(m.req, m.tab, m.session, m.by)>> ELSE <<>>)
         ELSE up' = up
  BY DEF HandleResult, Answers
<1>2. m \in Results
  BY <1>1, InTail DEF IInv, Types
<1> HIDE DEF m
<1>3. Len(up') > Len(up) => up'[Len(up')].req = m.req
  <2>1. CASE m.req \in Commands
    BY <2>1, <1>1, <1>2, AnsweredUp DEF IInv
  <2>2. CASE m.req \notin Commands
    <3>1. up' = up /\ Len(up) \in Nat
      BY <2>2, <1>1, LenProperties DEF IInv, Types
    <3>2. QED BY <3>1
  <2>3. QED BY <2>1, <2>2
<1>4. QED BY <1>1, <1>3 DEF Silent

\* Every step is silent about requests whose session has ended.
LEMMA StepIsSilent ==
  ASSUME IInv, [Next]_vars
  PROVE  Silent
<1>1. CASE RefuseCommand
  BY <1>1, RefuseIsSilent
<1>2. CASE HandleResult
  BY <1>2, ResultIsSilent
<1>3. ASSUME NEW t \in Tabs, SendUp(<<SnapshotMsg(t, sess[t])>>) \/ SendUp(<<ClosedMsg(t, sess[t])>>),
             shown' = shown
      PROVE  Silent
  <2>1. sess[t] \in 0..nextSess
    BY DEF IInv, Types
  <2>2. /\ SnapshotMsg(t, sess[t]) \in UpMsgs /\ SnapshotMsg(t, sess[t]).type = "snapshot"
        /\ ClosedMsg(t, sess[t]) \in UpMsgs /\ ClosedMsg(t, sess[t]).type = "closed"
    BY <2>1, SnapshotIsUp DEF IInv
  <2>3. QED BY <2>2, <1>3, SnapshotIsSilent
<1>4. CASE attachClient \/ \E t \in Tabs : pushForTab(t) \/ CloseTab(t)
  <2>1. CASE attachClient
    <3>1. PICK t \in Tabs : SendUp(<<SnapshotMsg(t, sess[t])>>) /\ shown' = shown
      BY <2>1 DEF attachClient
    <3>2. QED BY <3>1, <1>3
  <2>2. CASE \E t \in Tabs : pushForTab(t)
    <3>1. PICK t \in Tabs : SendUp(<<SnapshotMsg(t, sess[t])>>) /\ shown' = shown
      BY <2>2 DEF pushForTab, routerVars
    <3>2. QED BY <3>1, <1>3
  <2>3. CASE \E t \in Tabs : CloseTab(t)
    <3>1. PICK t \in Tabs : SendUp(<<ClosedMsg(t, sess[t])>>) /\ shown' = shown
      BY <2>3 DEF CloseTab, routerVars
    <3>2. QED BY <3>1, <1>3
  <2>4. QED BY <1>4, <2>1, <2>2, <2>3
<1>5. CASE \/ \E c \in Commands : enqueue(c)
           \/ McpReceives \/ LinkCloses \/ LinkLost \/ Pair
           \/ CommandUnheard \/ RouteCommand \/ ResultUnwanted \/ ResultOutdated
           \/ \E t \in Tabs : Page(t) \/ Navigate(t) \/ Load(t)
           \/ \E r \in Locals, t \in Tabs : requestLocalVerify(r, t)
           \/ UNCHANGED vars
  <2>1. shown' = shown
    BY <1>5 DEF enqueue, McpReceives, LinkCloses, LinkLost, Pair, CommandUnheard, RouteCommand,
       ResultUnwanted, ResultOutdated, Discard, Page, HandleNow, StartVerification,
       EndVerification, NobodyThere, Navigate, Load, requestLocalVerify, vars, routerVars
  <2>2. up' = up \/ up' = <<>> \/ (up # <<>> /\ up' = Tail(up))
    BY <1>5 DEF enqueue, McpReceives, LinkCloses, LinkLost, Pair, CommandUnheard, RouteCommand,
       ResultUnwanted, ResultOutdated, Discard, Page, HandleNow, StartVerification,
       EndVerification, NobodyThere, Navigate, Load, requestLocalVerify, vars, linkVars
  <2>3. QED BY <2>1, <2>2, StillIsSilent
<1>6. QED BY <1>1, <1>2, <1>4, <1>5 DEF Next, Router

\* Neither the MCP process nor the panel hears a result of a session that has ended.
THEOREM EndedIsSilent == Spec => EndedSessionIsSilent
<1>1. IInv /\ [Next]_vars => [Silent]_vars
  BY StepIsSilent
<1>2. QED BY <1>1, RoutingInvariant, PTL DEF Spec, EndedSessionIsSilent, Silent

------------------------------------------------------------------------------
(* What was forwarded is answered, as long as every page stays.            *)

\* What is waited for stays on its way, in the page or as its result.
LEMMA WaitsStay ==
  ASSUME WaitInv, navs' = navs, ready' = ready, sess' = sess,
         \A r \in Requests : pending'[r] \in {pending[r], NoPending},
         pending \in [Requests -> [tab : Tabs, session : Nat] \cup {NoPending}],
         \A t \in Tabs : \A m \in At(t) :
           m \in At(t)' \/ \E n \in In(toBg') : n.req = m.req /\ n.tab = t /\ n.session = m.session,
         \A m \in In(toBg) :
           m \in In(toBg') \/ ~Listened(m.req) \/ pending'[m.req] = NoPending
  PROVE  WaitInv'
<1> SUFFICES ASSUME navs = 0
             PROVE  /\ \A t \in Tabs : ready'[t]
                    /\ \A r \in Requests : Listened(r) => Waits(r)'
  BY DEF WaitInv
<1>1. \A t \in Tabs : ready'[t]
  BY DEF WaitInv
<1>2. ASSUME NEW r \in Requests, Listened(r)
      PROVE  Waits(r)'
  <2> SUFFICES ASSUME pending'[r] # NoPending
               PROVE  Waits(r)'
    BY DEF Waits
  <2>1. PICK p \in [tab : Tabs, session : Nat] : pending[r] = p /\ pending'[r] = p
    OBVIOUS
  <2>2. sess[p.tab] = p.session /\ p # NoPending
    BY <2>1, <1>2 DEF WaitInv, Listened, Waits
  <2> DEFINE m == PageMsg(r, p.session)
             Answered == \E n \in In(toBg') : n.req = r /\ n.tab = p.tab /\ n.session = p.session
  <2>3. m \in At(p.tab) \/ \E n \in In(toBg) : n.req = r /\ n.tab = p.tab /\ n.session = p.session
    BY <2>1, <2>2, <1>2 DEF WaitInv, Listened, Waits
  <2>4. m.req = r /\ m.session = p.session /\ p.tab \in Tabs
    BY DEF PageMsg
  <2>5. CASE m \in At(p.tab)
    <3>1. m \in At(p.tab)' \/ Answered
      <4> HIDE DEF m
      <4>1. QED BY <2>4, <2>5
    <3>2. QED BY <3>1, <2>1, <2>2 DEF Waits
  <2>6. CASE \E n \in In(toBg) : n.req = r /\ n.tab = p.tab /\ n.session = p.session
    <3>1. Answered
      BY <2>6, <1>2
    <3>2. QED BY <3>1, <2>1, <2>2 DEF Waits
  <2>7. QED BY <2>3, <2>5, <2>6
<1>3. QED BY <1>1, <1>2

\* The MCP process, the link and a push do not touch what pages have.
LEMMA WaitsElsewhere ==
  ASSUME WaitInv, UNCHANGED <<pending, sess, ready, toPage, running, toBg, navs>>
  PROVE  WaitInv'
BY DEF WaitInv, Waits, At

\* A new client has the router forget the commands, but not the local requests.
LEMMA AttachWaits ==
  ASSUME IInv, WaitInv, attachClient
  PROVE  WaitInv'
<1>1. /\ pending' = [r \in Requests |-> IF r \in Commands THEN NoPending ELSE pending[r]]
      /\ sess' = sess /\ ready' = ready /\ toPage' = toPage /\ running' = running
      /\ toBg' = toBg /\ navs' = navs
  BY DEF attachClient, pageVars
<1>2. pending \in [Requests -> [tab : Tabs, session : Nat] \cup {NoPending}]
  BY DEF IInv, Types
<1>3. \A t \in Tabs : At(t)' = At(t)
  BY <1>1 DEF At
<1>4. QED BY <1>1, <1>2, <1>3, WaitsStay

\* What is forwarded is on its way to the page.
LEMMA ForwardWaits ==
  ASSUME IInv, WaitInv, NEW r \in Requests, NEW t \in Tabs, Forward(r, t),
         UNCHANGED <<sess, ready, running, toBg, navs>>
  PROVE  WaitInv'
<1> DEFINE p == [tab |-> t, session |-> sess[t]]
           m == PageMsg(r, sess[t])
<1>1. pending' = [pending EXCEPT ![r] = p] /\ toPage' = [toPage EXCEPT ![t] = Append(@, m)]
  BY DEF Forward
<1>2. p.tab = t /\ p.session = sess[t] /\ m = PageMsg(r, p.session) /\ m \in PageMsgs
  <2>1. sess[t] \in Nat
    BY DEF IInv, Types
  <2>2. QED BY <2>1 DEF PageMsg, PageMsgs
<1> HIDE DEF p, m
<1>3. pending'[r] = p /\ \A q \in Requests : q # r => pending'[q] = pending[q]
  BY <1>1 DEF IInv, Types
<1>4. m \in At(t)' /\ \A u \in Tabs : At(u) \subseteq At(u)'
  <2>1. toPage \in [Tabs -> Seq(PageMsgs)] /\ toPage[t] \in Seq(PageMsgs)
    BY DEF IInv, Types
  <2>2. In(Append(toPage[t], m)) = In(toPage[t]) \cup {m}
    BY <2>1, <1>2, InAppend
  <2>3. QED BY <2>1, <2>2, <1>1 DEF At
<1>5. Waits(r)'
  BY <1>2, <1>3, <1>4 DEF Waits
<1>6. ASSUME NEW q \in Requests, q # r, Waits(q)
      PROVE  Waits(q)'
  <2>1. pending'[q] = pending[q] /\ (pending[q] # NoPending => pending[q].tab \in Tabs)
    BY <1>3, <1>6 DEF IInv, Types
  <2>2. QED BY <2>1, <1>4, <1>6 DEF Waits
<1>7. QED BY <1>5, <1>6 DEF WaitInv

\* The result that is taken was waited for no longer, or is the one waited for.
LEMMA ResultWaits ==
  ASSUME IInv, WaitInv, ResultUnwanted \/ ResultOutdated \/ HandleResult
  PROVE  WaitInv'
<1> DEFINE h == Head(toBg)
<1>1. /\ toBg # <<>> /\ toBg' = Tail(toBg)
      /\ \/ pending' = pending /\ (Listened(h.req) => pending[h.req] = NoPending)
         \/ pending' = [pending EXCEPT ![h.req] = NoPending]
      /\ sess' = sess /\ ready' = ready /\ toPage' = toPage /\ running' = running
      /\ navs' = navs
  BY RoutingAssumption DEF ResultUnwanted, ResultOutdated, HandleResult, Discard, Denied, Listened,
     pageVars
<1>2. h \in Results /\ In(toBg) = {h} \cup In(toBg')
  BY <1>1, InTail DEF IInv, Types
<1> HIDE DEF h
<1>3. pending \in [Requests -> [tab : Tabs, session : Nat] \cup {NoPending}] /\ h.req \in Requests
  BY <1>2 DEF IInv, Types, Results
<1>4. /\ \A r \in Requests : pending'[r] \in {pending[r], NoPending}
      /\ ~Listened(h.req) \/ pending'[h.req] = NoPending
  BY <1>1, <1>3
<1>5. \A m \in In(toBg) : m \in In(toBg') \/ ~Listened(m.req) \/ pending'[m.req] = NoPending
  BY <1>2, <1>4
<1>6. \A t \in Tabs : At(t)' = At(t)
  BY <1>1 DEF At
<1>7. QED BY <1>1, <1>3, <1>4, <1>5, <1>6, WaitsStay

\* A page that takes up a request has it still, and one that answers it has sent
\* the result.
LEMMA PageWaits ==
  ASSUME IInv, WaitInv, NEW t \in Tabs, NEW m \in PageMsgs, NEW x \in BOOLEAN,
         \A u \in Tabs : \A n \in At(u) : n \in At(u)' \/ (u = t /\ n = m),
         \/ m \in At(t)' /\ toBg' = toBg
         \/ toBg' = Append(toBg, ResultMsg(m.req, t, m.session, x)),
         UNCHANGED <<pending, sess, ready, navs>>
  PROVE  WaitInv'
<1> DEFINE a == ResultMsg(m.req, t, m.session, x)
<1>1. a \in Results /\ a.req = m.req /\ a.tab = t /\ a.session = m.session
  <2>1. sess[t] \in Nat
    BY DEF IInv, Types
  <2>2. QED BY <2>1 DEF ResultMsg, Results, PageMsgs, Makers
<1> HIDE DEF a
<1>2. toBg' = Append(toBg, a) => In(toBg') = In(toBg) \cup {a}
  BY <1>1, InAppend DEF IInv, Types
<1>3. \A u \in Tabs : \A n \in At(u) :
        n \in At(u)' \/ \E k \in In(toBg') : k.req = n.req /\ k.tab = u /\ k.session = n.session
  <2>1. CASE m \in At(t)' /\ toBg' = toBg
    BY <2>1
  <2>2. CASE toBg' = Append(toBg, a)
    BY <2>2, <1>1, <1>2
  <2>3. QED BY <2>1, <2>2 DEF a
<1>4. In(toBg) \subseteq In(toBg')
  BY <1>2 DEF a
<1>5. pending \in [Requests -> [tab : Tabs, session : Nat] \cup {NoPending}]
  BY DEF IInv, Types
<1>6. QED BY <1>3, <1>4, <1>5, WaitsStay

\* So it is for each of the three steps of a page.
LEMMA PageStepWaits ==
  ASSUME IInv, WaitInv, NEW t \in Tabs, HandleNow(t) \/ StartVerification(t) \/ EndVerification(t)
  PROVE  WaitInv'
<1>1. CASE HandleNow(t) \/ StartVerification(t)
  <2> DEFINE m == Head(toPage[t])
  <2>1. /\ toPage[t] # <<>> /\ toPage' = [toPage EXCEPT ![t] = Tail(@)]
        /\ UNCHANGED <<pending, sess, ready, navs>>
    BY <1>1 DEF HandleNow, StartVerification, Incoming, routerVars
  <2>2. m \in PageMsgs /\ In(toPage[t]) = {m} \cup In(toPage'[t])
    BY <2>1, IncomingFacts
  <2>3. \A u \in Tabs : u # t => toPage'[u] = toPage[u]
    BY <2>1 DEF IInv, Types
  <2>4. \/ running' = running /\ \E x \in BOOLEAN : toBg' = Append(toBg, ResultMsg(m.req, t, m.session, x))
        \/ toBg' = toBg /\ running' = [running EXCEPT ![t] = @ \cup {m}]
    BY <1>1 DEF HandleNow, StartVerification
  <2> HIDE DEF m
  <2>5. (\A u \in Tabs : running[u] \subseteq running'[u]) /\ (toBg' = toBg /\ running' # running => m \in running'[t])
    BY <2>4 DEF IInv, Types
  <2>6. \A u \in Tabs : \A n \in At(u) : n \in At(u)' \/ (u = t /\ n = m)
    BY <2>2, <2>3, <2>5 DEF At
  <2>7. CASE \E x \in BOOLEAN : toBg' = Append(toBg, ResultMsg(m.req, t, m.session, x))
    BY <2>7, <2>1, <2>2, <2>6, PageWaits
  <2>8. CASE toBg' = toBg /\ running' = [running EXCEPT ![t] = @ \cup {m}]
    <3>1. m \in At(t)' /\ TRUE \in BOOLEAN
      BY <2>8 DEF At, IInv, Types
    <3>2. QED BY <3>1, <2>8, <2>1, <2>2, <2>6, PageWaits
  <2>9. QED BY <2>4, <2>7, <2>8
<1>2. CASE EndVerification(t)
  <2>1. PICK m \in running[t], x \in BOOLEAN :
          /\ running' = [running EXCEPT ![t] = @ \ {m}]
          /\ toBg' = Append(toBg, ResultMsg(m.req, t, m.session, x))
          /\ UNCHANGED <<pending, sess, ready, navs, toPage>>
    BY <1>2 DEF EndVerification, routerVars
  <2>2. m \in PageMsgs
    BY DEF IInv, Types
  <2>3. \A u \in Tabs : \A n \in At(u) : n \in At(u)' \/ (u = t /\ n = m)
    BY <2>1 DEF At, IInv, Types
  <2>4. QED BY <2>1, <2>2, <2>3, PageWaits
<1>3. QED BY <1>1, <1>2

\* No page is gone or loaded before something was navigated or closed.
LEMMA GoneWaits ==
  ASSUME IInv, WaitInv, NEW t \in Tabs,
         NobodyThere(t) \/ Load(t) \/ Navigate(t) \/ CloseTab(t)
  PROVE  WaitInv'
<1>1. navs \in Nat
  BY DEF IInv, Types
<1>2. CASE Navigate(t) \/ CloseTab(t)
  <2>1. navs' = navs + 1
    BY <1>2 DEF Navigate, CloseTab
  <2>2. QED BY <2>1, <1>1 DEF WaitInv
<1>3. CASE NobodyThere(t) \/ Load(t)
  <2>1. ~ready[t] /\ navs' = navs
    BY <1>3 DEF NobodyThere, Load
  <2>2. QED BY <2>1 DEF WaitInv
<1>4. QED BY <1>2, <1>3

\* Every step keeps what is waited for on its way.
LEMMA StepWaits ==
  ASSUME IInv, WaitInv, [Next]_vars
  PROVE  WaitInv'
<1>1. CASE \/ \E c \in Commands : enqueue(c)
           \/ McpReceives \/ LinkCloses \/ LinkLost \/ Pair
           \/ CommandUnheard \/ RefuseCommand
           \/ \E t \in Tabs : pushForTab(t)
           \/ UNCHANGED vars
  <2>1. UNCHANGED <<pending, sess, ready, toPage, running, toBg, navs>>
    BY <1>1 DEF enqueue, McpReceives, LinkCloses, LinkLost, Pair, CommandUnheard, RefuseCommand,
       pushForTab, vars, routerVars, pageVars
  <2>2. QED BY <2>1, WaitsElsewhere
<1>2. CASE attachClient
  BY <1>2, AttachWaits
<1>3. CASE RouteCommand
  <2>1. PICK t \in Tabs : Forward(Head(down), t)
    BY <1>3 DEF RouteCommand
  <2>2. UNCHANGED <<sess, ready, running, toBg, navs>> /\ down # <<>>
    BY <1>3 DEF RouteCommand
  <2>3. Head(down) \in Requests
    BY <2>2, InTail DEF IInv, Types, Requests
  <2>4. QED BY <2>1, <2>2, <2>3, ForwardWaits
<1>4. CASE \E r \in Locals, t \in Tabs : requestLocalVerify(r, t)
  <2>1. PICK r \in Locals, t \in Tabs : requestLocalVerify(r, t)
    BY <1>4
  <2>2. Forward(r, t) /\ UNCHANGED <<sess, ready, running, toBg, navs>> /\ r \in Requests
    BY <2>1 DEF requestLocalVerify, Requests
  <2>3. QED BY <2>2, ForwardWaits
<1>5. CASE ResultUnwanted \/ ResultOutdated \/ HandleResult
  BY <1>5, ResultWaits
<1>6. CASE \E t \in Tabs : Page(t) \/ Navigate(t) \/ CloseTab(t) \/ Load(t)
  BY <1>6, PageStepWaits, GoneWaits DEF Page
<1>7. QED BY <1>1, <1>2, <1>3, <1>4, <1>5, <1>6 DEF Next, Router

\* As long as every page stays, what is waited for is on its way.
THEOREM WaitedForIsUnderWay == Spec => []WaitInv
<1>1. Init => IInv /\ WaitInv
  BY InitHolds
<1>2. IInv /\ WaitInv /\ [Next]_vars => WaitInv'
  BY StepWaits
<1>3. QED BY <1>1, <1>2, RoutingInvariant, PTL DEF Spec

\* When the pages are at rest nothing is on its way.
LEMMA NothingAtRest ==
  ASSUME IInv, WaitInv, PagesAtRest, navs = 0, NEW r \in Requests, Listened(r)
  PROVE  pending[r] = NoPending
<1>1. Waits(r)
  BY DEF WaitInv, Listened
<1>2. In(toBg) = {} /\ \A t \in Tabs : At(t) = {}
  BY InEmpty DEF PagesAtRest, At
<1>3. pending[r] # NoPending => pending[r].tab \in Tabs
  BY DEF IInv, Types
<1>4. QED BY <1>1, <1>2, <1>3 DEF Waits

\* A local request that is not shown is waited for, or no page has it or carried it out.
HeardInv ==
  navs = 0 => \A r \in Locals :
    \/ r \in shown \/ pending[r] # NoPending
    \/ did[r] = NoTab /\ \A t \in Tabs : \A m \in At(t) : m.req # r

\* A step that forgets no local request and gives none to a page keeps that.
LEMMA HeardStays ==
  ASSUME HeardInv, navs' = navs, shown \subseteq shown',
         \A r \in Locals : pending[r] # NoPending => pending'[r] # NoPending \/ r \in shown',
         \A r \in Locals : did'[r] # did[r] => pending'[r] # NoPending \/ r \in shown'
                                              \/ \E t \in Tabs : \E m \in At(t) : m.req = r,
         \A t \in Tabs : \A m \in At(t)' :
           m \in At(t) \/ m.req \notin Locals \/ pending'[m.req] # NoPending
  PROVE  HeardInv'
<1> SUFFICES ASSUME navs = 0, NEW r \in Locals, r \notin shown', pending'[r] = NoPending
             PROVE  did'[r] = NoTab /\ \A t \in Tabs : \A m \in At(t)' : m.req # r
  BY DEF HeardInv
<1>1. did[r] = NoTab /\ \A t \in Tabs : \A m \in At(t) : m.req # r
  BY DEF HeardInv
<1>2. QED BY <1>1

\* While every page stays no local request is forgotten, unless it is shown.
LEMMA StepHeard ==
  ASSUME IInv, WaitInv, HeardInv, [Next]_vars
  PROVE  HeardInv'
<1>1. CASE \/ \E c \in Commands : enqueue(c)
           \/ McpReceives \/ LinkCloses \/ LinkLost \/ Pair \/ attachClient
           \/ CommandUnheard \/ RefuseCommand
           \/ \E t \in Tabs : pushForTab(t)
           \/ UNCHANGED vars
  <2>1. UNCHANGED <<shown, did, toPage, running, navs>>
    BY <1>1 DEF enqueue, McpReceives, LinkCloses, LinkLost, Pair, attachClient, CommandUnheard,
       RefuseCommand, pushForTab, vars, routerVars, pageVars
  <2>2. \A r \in Locals : pending'[r] = pending[r]
    BY <1>1, RoutingAssumption DEF enqueue, McpReceives, LinkCloses, LinkLost, Pair, attachClient,
       CommandUnheard, RefuseCommand, pushForTab, vars, routerVars, Requests
  <2>3. \A t \in Tabs : At(t)' = At(t)
    BY <2>1 DEF At
  <2>4. QED BY <2>1, <2>2, <2>3, HeardStays
<1>2. ASSUME NEW r \in Requests, NEW t \in Tabs, Forward(r, t),
             UNCHANGED <<shown, did, running, navs>>
      PROVE  HeardInv'
  <2> DEFINE p == [tab |-> t, session |-> sess[t]]
             m == PageMsg(r, sess[t])
  <2>1. pending' = [pending EXCEPT ![r] = p] /\ toPage' = [toPage EXCEPT ![t] = Append(@, m)]
    BY <1>2 DEF Forward
  <2>2. p # NoPending /\ m.req = r /\ m \in PageMsgs
    <3>1. sess[t] \in Nat
      BY DEF IInv, Types
    <3>2. p \in [tab : Tabs, session : Nat] /\ m.req = r /\ m \in PageMsgs
      BY <3>1 DEF PageMsg, PageMsgs
    <3>3. QED BY <3>2, RoutingAssumption
  <2> HIDE DEF p, m
  <2>3. pending'[r] # NoPending /\ \A q \in Requests : q # r => pending'[q] = pending[q]
    BY <2>1, <2>2 DEF IInv, Types
  <2>4. \A u \in Tabs : \A n \in At(u)' : n \in At(u) \/ n = m
    <3>1. toPage \in [Tabs -> Seq(PageMsgs)] /\ toPage[t] \in Seq(PageMsgs)
      BY DEF IInv, Types
    <3>2. In(Append(toPage[t], m)) = In(toPage[t]) \cup {m}
      BY <3>1, <2>2, InAppend
    <3>3. QED BY <3>1, <3>2, <2>1, <1>2 DEF At
  <2>5. Locals \subseteq Requests
    BY DEF Requests
  <2>6. QED BY <1>2, <2>2, <2>3, <2>4, <2>5, HeardStays
<1>3. CASE RouteCommand
  <2>1. PICK t \in Tabs : Forward(Head(down), t)
    BY <1>3 DEF RouteCommand
  <2>2. UNCHANGED <<shown, did, running, navs>> /\ down # <<>>
    BY <1>3 DEF RouteCommand
  <2>3. Head(down) \in Requests
    BY <2>2, InTail DEF IInv, Types, Requests
  <2>4. QED BY <2>1, <2>2, <2>3, <1>2
<1>4. CASE \E r \in Locals, t \in Tabs : requestLocalVerify(r, t)
  <2>1. PICK r \in Locals, t \in Tabs : requestLocalVerify(r, t)
    BY <1>4
  <2>2. Forward(r, t) /\ UNCHANGED <<shown, did, running, navs>> /\ r \in Requests
    BY <2>1 DEF requestLocalVerify, Requests
  <2>3. QED BY <2>2, <1>2
<1>5. CASE ResultUnwanted \/ ResultOutdated \/ HandleResult
  <2> DEFINE h == Head(toBg)
  <2>1. toBg # <<>> /\ UNCHANGED <<did, toPage, running, navs, sess>>
    BY <1>5 DEF ResultUnwanted, ResultOutdated, HandleResult, Discard, pageVars
  <2>2. h.req \in Requests
    <3>1. h \in Results
      BY <2>1, InTail DEF IInv, Types
    <3>2. QED BY <3>1 DEF Results
  <2>3. \/ pending' = pending /\ shown' = shown
        \/ /\ pending' = [pending EXCEPT ![h.req] = NoPending] /\ shown' = shown
           /\ pending[h.req] # NoPending /\ sess[pending[h.req].tab] # pending[h.req].session
        \/ /\ pending' = [pending EXCEPT ![h.req] = NoPending]
           /\ shown' = IF h.req \in Locals THEN shown \cup {h.req} ELSE shown
    BY <1>5 DEF ResultUnwanted, ResultOutdated, HandleResult, Discard
  <2>4. \A t \in Tabs : At(t)' = At(t)
    BY <2>1 DEF At
  <2> HIDE DEF h
  <2>5. navs = 0 /\ pending[h.req] # NoPending /\ h.req \in Locals
          => sess[pending[h.req].tab] = pending[h.req].session
    BY <2>2 DEF WaitInv, Listened, Waits
  <2>6. navs = 0 => \A r \in Locals :
          pending[r] # NoPending => pending'[r] # NoPending \/ r \in shown'
    <3>1. \A r \in Requests : r # h.req => pending'[r] = pending[r]
      BY <2>3 DEF IInv, Types
    <3>2. QED BY <3>1, <2>3, <2>5 DEF Requests
  <2>7. shown \subseteq shown'
    BY <2>3
  <2>8. CASE navs = 0
    BY <2>1, <2>4, <2>6, <2>7, <2>8, HeardStays
  <2>9. CASE navs # 0
    BY <2>1, <2>9 DEF HeardInv
  <2>10. QED BY <2>8, <2>9
<1>6. CASE \E t \in Tabs : HandleNow(t) \/ StartVerification(t) \/ EndVerification(t)
  <2>1. PICK t \in Tabs : HandleNow(t) \/ StartVerification(t) \/ EndVerification(t)
    BY <1>6
  <2>2. UNCHANGED <<pending, shown, navs>>
    BY <2>1 DEF HandleNow, StartVerification, EndVerification, routerVars
  <2>3. \A u \in Tabs : \A n \in At(u)' : n \in At(u)
    <3>1. CASE HandleNow(t) \/ StartVerification(t)
      <4>1. /\ toPage[t] # <<>> /\ toPage' = [toPage EXCEPT ![t] = Tail(@)]
            /\ running' = running \/ running' = [running EXCEPT ![t] = @ \cup {Head(toPage[t])}]
        BY <3>1 DEF HandleNow, StartVerification, Incoming
      <4>2. \A u \in Tabs : running'[u] \subseteq running[u] \cup (IF u = t THEN {Head(toPage[t])} ELSE {})
        BY <4>1 DEF IInv, Types
      <4>3. QED BY <4>1, <4>2, IncomingFacts DEF At
    <3>2. CASE EndVerification(t)
      BY <3>2 DEF EndVerification, At, IInv, Types
    <3>3. QED BY <2>1, <3>1, <3>2
  <2>4. PICK m \in At(t) : \A r \in Requests : r # m.req => did'[r] = did[r]
    <3>1. CASE HandleNow(t) \/ StartVerification(t)
      <4>1. toPage[t] # <<>> /\ toPage' = [toPage EXCEPT ![t] = Tail(@)]
        BY <3>1 DEF HandleNow, StartVerification, Incoming
      <4>2. Head(toPage[t]) \in At(t)
        BY <4>1, IncomingFacts
      <4>3. \A r \in Requests : r # Head(toPage[t]).req => did'[r] = did[r]
        BY <3>1 DEF HandleNow, StartVerification, IInv, Types
      <4>4. QED BY <4>2, <4>3
    <3>2. CASE EndVerification(t)
      <4>1. PICK m \in running[t], ok \in BOOLEAN : did' = [did EXCEPT ![m.req] = IF ok THEN t ELSE @]
        BY <3>2 DEF EndVerification
      <4>2. m \in At(t) /\ \A r \in Requests : r # m.req => did'[r] = did[r]
        BY <4>1 DEF At, IInv, Types
      <4>3. QED BY <4>2
    <3>3. QED BY <2>1, <3>1, <3>2
  <2>5. \A r \in Locals : did'[r] # did[r] => \E u \in Tabs : \E n \in At(u) : n.req = r
    BY <2>4 DEF Requests
  <2>6. QED BY <2>2, <2>3, <2>5, HeardStays
<1>7. CASE \E t \in Tabs : NobodyThere(t) \/ Load(t) \/ Navigate(t) \/ CloseTab(t)
  <2>1. PICK t \in Tabs : NobodyThere(t) \/ Load(t) \/ Navigate(t) \/ CloseTab(t)
    BY <1>7
  <2>2. navs \in Nat
    BY DEF IInv, Types
  <2>3. CASE Navigate(t) \/ CloseTab(t)
    <3>1. navs' = navs + 1
      BY <2>3 DEF Navigate, CloseTab
    <3>2. QED BY <3>1, <2>2 DEF HeardInv
  <2>4. CASE NobodyThere(t) \/ Load(t)
    <3>1. ~ready[t] /\ navs' = navs
      BY <2>4 DEF NobodyThere, Load
    <3>2. QED BY <3>1 DEF WaitInv, HeardInv
  <2>5. QED BY <2>1, <2>3, <2>4
<1>8. QED BY <1>1, <1>3, <1>4, <1>5, <1>6, <1>7 DEF Next, Router, Page

\* Whatever the bus admits and whatever becomes of the link and of agents' commands,
\* the router waits for no local verification once the pages have done what they
\* were sent, as long as every page stayed, and what was carried out is shown.
THEOREM LocalsAreAnswered == Spec => []LocalIsAnswered
<1>1. IInv /\ WaitInv => NoLocalWaits
  BY NothingAtRest DEF Listened, Requests, NoLocalWaits
<1>2. NoLocalWaits /\ HeardInv => LocalIsAnswered
  BY DEF NoLocalWaits, HeardInv, LocalIsAnswered
<1>3. Init => HeardInv
  <2> SUFFICES ASSUME Init, NEW r \in Locals
               PROVE  did[r] = NoTab /\ \A t \in Tabs : At(t) = {}
    BY DEF HeardInv
  <2>1. QED BY InEmpty DEF Init, At, Requests
<1>4. IInv /\ WaitInv /\ HeardInv /\ [Next]_vars => HeardInv'
  BY StepHeard
<1>5. QED BY <1>1, <1>2, <1>3, <1>4, RoutingInvariant, WaitedForIsUnderWay, PTL DEF Spec

==============================================================================
