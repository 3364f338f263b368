--------------------------- MODULE MCSessionQueue ---------------------------
\* Instances of SessionQueue for TLC.
EXTENDS SessionQueueRefinement, TLC

Symmetry == Permutations(Turns) \cup Permutations(Sessions)
=============================================================================
