----------------------------- MODULE MCJobStore -----------------------------
(***************************************************************************)
(* JobStore on a small instance.  Agents, operators and keys are           *)
(* interchangeable; job ids are not, their order is the queue order.       *)
(***************************************************************************)
EXTENDS JobStore, TLC

Symmetry == Permutations(Agents) \cup Permutations(Operators) \cup Permutations(Keys)
=============================================================================
