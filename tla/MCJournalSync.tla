---------------------------- MODULE MCJournalSync ----------------------------
EXTENDS JournalSync, TLC

Symmetry == Permutations(Ops)
==============================================================================
