--------------------------- MODULE MCPreviewLayer ---------------------------
EXTENDS PreviewLayer, TLC

Symmetry == Permutations(Els) \cup Permutations(Props)
==============================================================================
