--------------------------- MODULE MCClusterObject ---------------------------
EXTENDS ClusterObject, TLC

\* The planned values are interchangeable.
Symmetry == Permutations(Values)

===============================================================================
