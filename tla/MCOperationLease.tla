--------------------------- MODULE MCOperationLease ---------------------------
EXTENDS OperationLease, TLC

\* Operations and workers are interchangeable; every property quantifies
\* over all of them.
Symmetry == Permutations(Workers) \cup Permutations(Ops)

==============================================================================
