------------------------------ MODULE MCJobTx ------------------------------
(***************************************************************************)
(* JobTx on a small instance.  Operators, keys and connections are         *)
(* interchangeable; jobs are not, they are numbered by their commits.      *)
(***************************************************************************)
EXTENDS JobTx, TLC

Symmetry == Permutations(Agents) \cup Permutations(Operators) \cup Permutations(Keys)
                \cup Permutations(Procs)
=============================================================================
