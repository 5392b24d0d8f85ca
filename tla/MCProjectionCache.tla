-------------------------- MODULE MCProjectionCache --------------------------
(* Two tabs, three sessions and two retired sessions per tab: one session   *)
(* more than a retired set can hold, so its limit is met on every path.     *)
EXTENDS ProjectionCache, TLC

Symmetry == Permutations(Sessions) \cup Permutations(Sockets)
               \cup Permutations(Tabs)
==============================================================================
