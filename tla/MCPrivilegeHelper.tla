------------------------- MODULE MCPrivilegeHelper -------------------------
(***************************************************************************)
(* PrivilegeHelper on a small instance.                                    *)
(***************************************************************************)
EXTENDS PrivilegeHelper
=============================================================================
