-------------------------- MODULE ProjectionPromise --------------------------
(***************************************************************************)
(* What the MCP projection cache promises about the snapshots it serves.   *)
(*                                                                         *)
(* A generation is a (tab, session) pair.  Per tab the cache serves at     *)
(* most one generation, at a snapshot revision that never goes back, and a *)
(* generation that was closed or superseded is never served again while    *)
(* the same bridge socket stays paired.                                    *)
(***************************************************************************)
EXTENDS Naturals

CONSTANTS
  Tabs,       \* browser tabs
  AnySession, \* session generations a snapshot can name, "undefined" included
  Revs,       \* snapshot revisions
  NoEntry     \* nothing is served for the tab

VARIABLES
  served,     \* [Tabs -> an entry [session, rev] or NoEntry]
  gone        \* set of generations <<tab, session>> that may not come back

vars == <<served, gone>>

Init ==
  /\ served = [t \in Tabs |-> NoEntry]
  /\ gone = {}

\* A snapshot is served: the tab's first one, or a newer one of the same
\* generation, or the first of a generation that replaces the one served.
Serve(t, s, r) ==
  /\ <<t, s>> \notin gone
  /\ served' = [served EXCEPT ![t] = [session |-> s, rev |-> r]]
  /\ \/ served[t] = NoEntry /\ gone' = gone
     \/ /\ served[t] # NoEntry
        /\ served[t].session = s
        /\ r >= served[t].rev
        /\ gone' = gone
     \/ /\ served[t] # NoEntry
        /\ served[t].session # s
        /\ gone' = gone \cup {<<t, served[t].session>>}

\* Generations of one tab are closed; what was served of them is withdrawn.
Close(t, S) ==
  /\ gone' = gone \cup {<<t, s>> : s \in S}
  /\ \/ served' = served
     \/ served' = [served EXCEPT ![t] = NoEntry]
  /\ served'[t] = NoEntry \/ <<t, served'[t].session>> \notin gone'

\* The socket is gone or replaced: nothing is served, nothing is remembered.
Forget == Init'

Next ==
  \/ \E t \in Tabs, s \in AnySession, r \in Revs : Serve(t, s, r)
  \/ \E t \in Tabs, S \in SUBSET AnySession : Close(t, S)
  \/ Forget

Spec == Init /\ [][Next]_vars
==============================================================================
