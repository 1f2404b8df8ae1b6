---------------------------- MODULE MCJobDispatch ---------------------------
(***************************************************************************)
(* JobDispatch on small instances.  There is no symmetry: the run checks   *)
(* liveness, too.                                                          *)
(***************************************************************************)
EXTENDS JobDispatch
=============================================================================
