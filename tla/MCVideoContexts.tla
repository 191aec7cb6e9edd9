--------------------------- MODULE MCVideoContexts ---------------------------
EXTENDS VideoContexts, TLC

Symmetry == Permutations(Process) \cup Permutations(Media) \cup Permutations(Frame)
=============================================================================
