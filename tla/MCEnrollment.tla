---------------------------- MODULE MCEnrollment ----------------------------
(***************************************************************************)
(* Enrollment on small instances.  Only the run without liveness properties*)
(* uses the symmetry.                                                      *)
(***************************************************************************)
EXTENDS Enrollment, TLC

Symmetry == Permutations(Hosts) \cup Permutations(Procs) \cup Permutations(Tokens)
=============================================================================
