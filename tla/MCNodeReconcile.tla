--------------------------- MODULE MCNodeReconcile ---------------------------
\* NodeReconcile for TLC.  Ids and ports are interchangeable.
EXTENDS NodeReconcile, TLC

Symmetry == Permutations(Ids) \cup Permutations(Ports)
=============================================================================
