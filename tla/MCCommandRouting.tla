-------------------------- MODULE MCCommandRouting --------------------------
EXTENDS CommandRouting, TLC

Symmetry == Permutations(Tabs) \cup Permutations(Commands)
==============================================================================
