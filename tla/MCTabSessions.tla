---------------------------- MODULE MCTabSessions ----------------------------
EXTENDS TabSessions, TLC

Symmetry == Permutations(Tabs)
==============================================================================
