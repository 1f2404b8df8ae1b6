------------------------- MODULE MCOperatorSessions -------------------------
(***************************************************************************)
(* OperatorSessions on a small instance.                                   *)
(***************************************************************************)
EXTENDS OperatorSessions, TLC

Symmetry == Permutations(Operators) \cup Permutations(Procs)
=============================================================================
