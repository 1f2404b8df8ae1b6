------------------------- MODULE MCOperatorRequests -------------------------
EXTENDS OperatorRequests, TLC

Symmetry == Permutations(Procs) \cup Permutations(Operators)
=============================================================================
